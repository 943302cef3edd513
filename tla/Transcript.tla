----------------------------- MODULE Transcript -----------------------------
(***************************************************************************)
(* The stored history of a session and what a model provider is sent of    *)
(* it (internal/core/engine.go, providerMessages).  A provider refuses a   *)
(* request in which a tool call is not directly followed by its result;    *)
(* the history may hold interrupted calls, results without a call and      *)
(* messages that landed between a call and its result.                     *)
(*                                                                         *)
(* Message text is a model value; JSON encoding is left out.               *)
(***************************************************************************)
EXTENDS Workers
LOCAL INSTANCE SequencesExt

CONSTANTS
  NoId,        \* the empty tool call id
  BeginTask    \* the fixed text that opens a history

\* The call ids a message names: the calls it makes or the call it answers.
CallIds(m) ==
  CASE m.role = "assistant" -> ToSet(m.calls)
    [] m.role = "tool" -> {m.id}
    [] OTHER -> {}

\* The message whose call the result h[j] consumes in the map of unmatched
\* calls, 0 if the result is an orphan or a duplicate.
AnsweredCall(h, j) ==
  LET named == {i \in 1..(j - 1) : h[j].id \in CallIds(h[i])}
      last == CHOOSE i \in named : \A k \in named : k <= i
  IN IF h[j].id # NoId /\ named # {} /\ h[last].role = "assistant" THEN last ELSE 0

\* The calls of h[i] that some result consumes.
CompletedCalls(h, i) ==
  SelectSeq(h[i].calls,
            LAMBDA c : \E j \in DOMAIN h : h[j].role = "tool" /\ h[j].id = c /\ AnsweredCall(h, j) = i)

\* The results placed directly after h[i]: the first per call, up to the next reply.
ResultsOf(h, i) ==
  SelectSeq([j \in DOMAIN h |-> j],
            LAMBDA j : /\ j > i /\ h[j].role = "tool" /\ h[j].id \in ToSet(h[i].calls)
                       /\ \A k \in (i + 1)..(j - 1) :
                            h[k].role # "assistant" /\ h[j].id \notin CallIds(h[k]))

\* Mutant: results stay where they were written.
LeaveResults(h) == h

PairToolResults(h) ==
  LET Found(i) == {h[j].id : j \in ToSet(ResultsOf(h, i))}
      Group(i) ==
        CASE h[i].role = "tool" -> <<>>
          [] h[i].role = "assistant" ->
               <<Assistant(SelectSeq(h[i].calls, LAMBDA c : c \in Found(i)))>>
                 \o [k \in DOMAIN ResultsOf(h, i) |-> h[ResultsOf(h, i)[k]]]
          [] OTHER -> <<h[i]>>
  IN FlattenSeq([i \in DOMAIN h |-> Group(i)])

SanitizeProviderMessages(h) ==
  LET Kept(i) ==
        CASE h[i].role = "tool" -> IF AnsweredCall(h, i) = 0 THEN <<>> ELSE <<h[i]>>
          [] h[i].role = "assistant" -> <<Assistant(CompletedCalls(h, i))>>
          [] OTHER -> <<h[i]>>
  IN PairToolResults(FlattenSeq([i \in DOMAIN h |-> Kept(i)]))

WithOpeningUserTurn(h) ==
  IF h # <<>> /\ h[1].role = "user" THEN h ELSE <<User(BeginTask)>> \o h

ProviderMessages(h) == WithOpeningUserTurn(SanitizeProviderMessages(h))

-----------------------------------------------------------------------------
\* What providers require: the history opens with a user turn, every reply is followed
\* directly by one result per call, and every result stands in such a place.
Paired(h) ==
  /\ h # <<>> /\ h[1].role = "user"
  /\ \A i \in DOMAIN h :
       h[i].role = "assistant" =>
         /\ i + Len(h[i].calls) <= Len(h)
         /\ \A c \in ToSet(h[i].calls) :
              \E j \in (i + 1)..(i + Len(h[i].calls)) : h[j].role = "tool" /\ h[j].id = c
  /\ \A j \in DOMAIN h :
       h[j].role = "tool" =>
         \E i \in 1..(j - 1) :
           /\ h[i].role = "assistant" /\ h[j].id \in ToSet(h[i].calls)
           /\ j <= i + Len(h[i].calls)

\* The users' and harness's messages of a history, in order.
UserTurns(h) == SelectSeq(h, LAMBDA m : m.role = "user" /\ m.body # BeginTask)

\* Every request a provider is sent has each tool call followed by its result and all the
\* person's, the harness's and the workers' messages in order, also when a worker that
\* found the session idle writes its handoff into the middle of the next run's turn
\* (handoff.go deliverHandoff, engine.go sanitizeProviderMessages and pairToolResults).
PairedRequests ==
  pc = "call" =>
    /\ Paired(ProviderMessages(history))
    /\ UserTurns(ProviderMessages(history)) = UserTurns(history)
=============================================================================
