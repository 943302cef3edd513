------------------------------- MODULE Inbox --------------------------------
(***************************************************************************)
(* What the message path of a session promises: a message is taken in or   *)
(* handed to the conversation directly, a message taken in waits until it  *)
(* is handed over, and no request is handed over twice.                    *)
(***************************************************************************)
EXTENDS Sequences

CONSTANTS Sessions, Requests

VARIABLES
  waiting,    \* requests taken in and not yet in the conversation
  delivered   \* requests in the conversation, in order

vars == <<waiting, delivered>>

Delivered(s, r) == \E i \in DOMAIN delivered[s] : delivered[s][i] = r

Init ==
  /\ waiting = [s \in Sessions |-> {}]
  /\ delivered = [s \in Sessions |-> <<>>]

TakeIn(s, r) ==
  /\ ~Delivered(s, r)
  /\ waiting' = [waiting EXCEPT ![s] = @ \cup {r}]
  /\ UNCHANGED delivered

Deliver(s, r) ==
  /\ ~Delivered(s, r)
  /\ waiting' = [waiting EXCEPT ![s] = @ \ {r}]
  /\ delivered' = [delivered EXCEPT ![s] = Append(@, r)]

Next == \E s \in Sessions, r \in Requests : TakeIn(s, r) \/ Deliver(s, r)

Spec == Init /\ [][Next]_vars

=============================================================================
