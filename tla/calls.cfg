SPECIFICATION Spec
CONSTANTS
    x = x
    y = y
    Models = {x, y}
    NoModel = NoModel
    Catalog <- MCCatalog
    Jobs <- MCJobs
    NKeys <- MCNKeys
    Backoffs = {2}
    DefaultBackoff = 1
    MaxCredentialWait = 1
    MaxCredentialWaits = 1
    TransportWindow = 1
    Retries = 1
    MaxEmpty = 2
    DefaultCap = 2
    MaxCap = 3
INVARIANTS CallsInv
PROPERTIES WaitsForAnyRoute CallsEnd
CHECK_DEADLOCK FALSE
