----------------------------- MODULE MCUpkeep -----------------------------
(* Small instances of Memory and of Retention, checked side by side: a      *)
(* behaviour is one of either.                                              *)
EXTENDS Memory, Retention, TLC
CONSTANTS s1, s2, t1, t2, p1, p2, j1, j2, top1, k1

MCParent == k1 :> top1

(* A record extraction filed, pending or active, and one a person wrote.    *)
Filed(t, status) == [text |-> t, status |-> status, sup |-> 0, sid |-> s1,
                     prov |-> "extracted", exp |-> 1]
Written(t) == [text |-> t, status |-> "active", sup |-> 0, sid |-> s2,
               prov |-> "observed", exp |-> 1]

Scenario(start, person_, jobs, refreshes, ticks) ==
    [start |-> start, person |-> person_, jobs |-> jobs, refreshes |-> refreshes, ticks |-> ticks]

MCScenarios == {
    \* two jobs that may find the same text, and a person
    Scenario(<<>>, 1, 2, 0, 0),
    \* people and a job at work on the same pending record
    Scenario(<<Filed(t1, "pending")>>, 2, 1, 0, 1),
    Scenario(<<Written(t2), Filed(t1, "pending")>>, 1, 2, 0, 0),
    \* sessions told while people and jobs change what they were told
    Scenario(<<Filed(t1, "active")>>, 2, 0, 2, 0),
    Scenario(<<Filed(t1, "active")>>, 1, 0, 3, 1),
    Scenario(<<Written(t1)>>, 0, 1, 3, 0)}

(* Nothing tells one person from another. *)
Symmetry == Permutations(People)

VARIABLE part

UpkeepVars == <<part, vars, retentionVars>>

UpkeepInit ==
    /\ part \in {"memory", "retention"}
    /\ Init /\ RetentionInit
    /\ part = "retention" => recs = <<>>

(* Starts, passes and ticks are bounded together as well as each: any two of *)
(* them may be spent when one of the third is left.                          *)
SomethingLeft == quota'.starts + quota'.passes + quota'.ticks > 0

(* Extraction reads only top-level sessions: how a worker ended matters only *)
(* when it waits for an answer.                                              *)
WorkerPasses == row'[k1].status # "fail"

UpkeepNext ==
    /\ UNCHANGED part
    /\ \/ part = "memory" /\ Next /\ UNCHANGED retentionVars
       \/ part = "retention" /\ RetentionNext /\ SomethingLeft /\ WorkerPasses /\ UNCHANGED vars

UpkeepSpec == UpkeepInit /\ [][UpkeepNext]_UpkeepVars
=============================================================================
