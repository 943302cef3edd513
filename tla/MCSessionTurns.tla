--------------------------- MODULE MCSessionTurns ---------------------------
(* Small instances of SessionTurns for TLC. *)
EXTENDS SessionClaims, TLC

CONSTANTS s1, s2, w1, r1, r2, h1, h2, c1, c2, c3, b1, n1

OneCheckout == s1 :> w1
TwoCheckout == s1 :> w1 @@ s2 :> w1

\* One session and three calls, two of them the same message sent twice.
ThreeCalls == c1 :> s1 @@ c2 :> s1 @@ c3 :> s1
RetriedRequest == c1 :> r1 @@ c2 :> r2 @@ c3 :> r2
RetriedHash == c1 :> h1 @@ c2 :> h1 @@ c3 :> h1

\* One request id under two payloads.
ReusedRequest == c1 :> r1 @@ c2 :> r1 @@ c3 :> r1
ReusedHash == c1 :> h2 @@ c2 :> h1 @@ c3 :> h2

\* One session, two different messages.
TwoCalls == c1 :> s1 @@ c2 :> s1
TwoRequests == c1 :> r1 @@ c2 :> r2
TwoHashes == c1 :> h1 @@ c2 :> h1

\* Two sessions on one checkout: a message and a budget increase for the first, a
\* start for the second.
TwoSessions == c1 :> s1 @@ b1 :> s1 @@ n1 :> s2
OneRequest == c1 :> r1
OneHash == c1 :> h1

=============================================================================
