--------------------------- MODULE MCSessionCrash ---------------------------
(* Small instances of SessionCrash for TLC: one session, two messages and the *)
(* host's visit to the session after it wakes.                                *)
EXTENDS SessionCrash, TLC

CONSTANTS s1, w1, r1, r2, h1, c1, c2, u1

OneCheckout == s1 :> w1
CallsAndResume == c1 :> s1 @@ c2 :> s1 @@ u1 :> s1
TwoRequests == c1 :> r1 @@ c2 :> r2
TwoHashes == c1 :> h1 @@ c2 :> h1

=============================================================================
