-------------------------------- MODULE Rpc ---------------------------------
(***************************************************************************)
(* The JSON-RPC and ACP server on standard input and output                *)
(* (internal/rpc/server.go), with one session.  Serve reads one request    *)
(* per line and handles each in a goroutine; a prompt's goroutine waits for *)
(* the result of its turn, and the events of the turn are written to the    *)
(* same output meanwhile.  The engine is modelled by what the server sees   *)
(* of it: a prompt starts a turn, is queued behind one, or is a duplicate.  *)
(***************************************************************************)
EXTENDS Naturals, Sequences

CONSTANTS RpcRequests,  \* request lines the client sends
          RequestKeys,  \* requestId values of prompts
          MaxUpdates    \* events a turn writes before its last one

ASSUME RpcAssumption == MaxUpdates \in Nat

VARIABLES method,       \* per request: "prompt", "call" or, without an id, "note"
          requestKey,   \* per prompt: its requestId
          input,        \* requests Serve has not read
          goroutine,    \* per request: "unread", "dispatch", "waiting", "queued",
                        \* "finished" (its result is known) or "done"
          seenKeys,     \* requestIds the session has a receipt for, or queued
          activeTurn,   \* the prompts whose turn the engine has registered
          turnResult,   \* "none", or how the registered turn ended
          updates,      \* events of the turn written so far
          queuedPrompts,\* prompts queued in the session, oldest first
          output,       \* what was written: [kind, request]
          serving       \* Serve has not returned

rpcVars == <<method, requestKey, input, goroutine, seenKeys, activeTurn, turnResult, updates,
             queuedPrompts, output, serving>>

RpcTypeOK ==
    /\ method \in [RpcRequests -> {"prompt", "call", "note"}]
    /\ requestKey \in [RpcRequests -> RequestKeys]
    /\ input \subseteq RpcRequests
    /\ goroutine \in [RpcRequests ->
           {"unread", "dispatch", "waiting", "queued", "finished", "done"}]
    /\ seenKeys \subseteq RequestKeys /\ activeTurn \subseteq RpcRequests
    /\ turnResult \in {"none", "pass", "cancelled"} /\ updates \in 0 .. MaxUpdates
    /\ queuedPrompts \in Seq(RpcRequests)
    /\ output \in Seq([kind : {"update", "last", "reply"}, request : RpcRequests])
    /\ serving \in BOOLEAN

RpcInit ==
    /\ method \in [RpcRequests -> {"prompt", "call", "note"}]
    /\ requestKey \in [RpcRequests -> RequestKeys]
    /\ \A r, q \in RpcRequests :
           method[r] # "prompt" /\ method[q] # "prompt" => requestKey[r] = requestKey[q]
    /\ input = RpcRequests /\ goroutine = [r \in RpcRequests |-> "unread"]
    /\ seenKeys = {} /\ activeTurn = {} /\ turnResult = "none" /\ updates = 0
    /\ queuedPrompts = <<>> /\ output = <<>> /\ serving = TRUE

given == <<method, requestKey>>
Becomes(r, s) == goroutine' = [goroutine EXCEPT ![r] = s]
Write(kind, r) == output' = Append(output, [kind |-> kind, request |-> r])

(* Serve: a goroutine for the line. *)
ServeLine(r) ==
    /\ r \in input /\ input' = input \ {r} /\ Becomes(r, "dispatch")
    /\ UNCHANGED <<given, seenKeys, activeTurn, turnResult, updates, queuedPrompts, output, serving>>

(* dispatch of any other method, a cancel of the turn included, and of a *)
(* prompt the engine refuses; handle answers below.                      *)
DispatchCall(r) ==
    /\ goroutine[r] = "dispatch" /\ Becomes(r, "finished")
    /\ UNCHANGED <<given, input, seenKeys, activeTurn, turnResult, updates, queuedPrompts,
                   output, serving>>

(* prompt returns at once for a duplicate: its turn is another prompt's. *)
Duplicate(r) == Becomes(r, "finished")

(* prompt up to the wait for the result. *)
RpcPrompt(r) ==
    /\ goroutine[r] = "dispatch" /\ method[r] = "prompt"
    /\ \/ /\ requestKey[r] \in seenKeys /\ Duplicate(r)
          /\ UNCHANGED <<seenKeys, activeTurn, queuedPrompts>>
       \/ /\ requestKey[r] \notin seenKeys /\ activeTurn # {}
          /\ queuedPrompts' = Append(queuedPrompts, r)
          /\ seenKeys' = seenKeys \cup {requestKey[r]}
          /\ Becomes(r, "queued")
          /\ UNCHANGED activeTurn
       \/ /\ requestKey[r] \notin seenKeys /\ activeTurn = {}
          /\ activeTurn' = {r} /\ seenKeys' = seenKeys \cup {requestKey[r]}
          /\ Becomes(r, "waiting")
          /\ UNCHANGED queuedPrompts
    /\ UNCHANGED <<given, input, turnResult, updates, output, serving>>

(* event: the run emits and the server writes, under the output's lock. *)
TurnUpdate(r) ==
    /\ r \in activeTurn /\ turnResult = "none" /\ updates < MaxUpdates
    /\ updates' = updates + 1 /\ Write("update", r)
    /\ UNCHANGED <<given, input, goroutine, seenKeys, activeTurn, turnResult, queuedPrompts,
                   serving>>

(* Mutant: the result is sent before the last event is emitted. *)
EndsEarly(r, status) ==
    \/ /\ turnResult = "none" /\ turnResult' = status
       /\ IF goroutine[r] = "waiting" THEN Becomes(r, "finished") ELSE UNCHANGED goroutine
       /\ UNCHANGED output
    \/ /\ turnResult # "none" /\ \A n \in DOMAIN output : output[n] # [kind |-> "last", request |-> r]
       /\ Write("last", r) /\ UNCHANGED <<turnResult, goroutine>>

(* finish emits the turn's last event, then the run's result is sent; a turn *)
(* taken from the queue has nobody waiting for it.                           *)
Ends(r, status) ==
    /\ turnResult = "none" /\ turnResult' = status
    /\ Write("last", r)
    /\ IF goroutine[r] = "waiting" THEN Becomes(r, "finished") ELSE UNCHANGED goroutine

TurnEnds(r, status) ==
    /\ r \in activeTurn /\ Ends(r, status)
    /\ UNCHANGED <<given, input, seenKeys, activeTurn, updates, queuedPrompts, serving>>

(* launchExisting after the run: unregister, then drainQueued starts the *)
(* oldest queued prompt unless the turn was cancelled.  (SessionTurns    *)
(* has what may happen between the two.)                                 *)
TurnCleared(r) ==
    /\ r \in activeTurn /\ turnResult # "none"
    /\ turnResult' = "none" /\ updates' = 0
    /\ IF turnResult = "pass" /\ queuedPrompts # <<>>
       THEN activeTurn' = {Head(queuedPrompts)} /\ queuedPrompts' = Tail(queuedPrompts)
       ELSE activeTurn' = {} /\ UNCHANGED queuedPrompts
    /\ UNCHANGED <<given, input, goroutine, seenKeys, output, serving>>

(* handle: a request with an id is answered. *)
Responds(r) ==
    /\ goroutine[r] = "finished" /\ Becomes(r, "done")
    /\ IF method[r] = "note" THEN UNCHANGED output ELSE Write("reply", r)
    /\ UNCHANGED <<given, input, seenKeys, activeTurn, turnResult, updates, queuedPrompts, serving>>

(* Serve returns at the end of the input when every goroutine has. *)
ServeReturns ==
    /\ serving /\ input = {} /\ \A r \in RpcRequests : goroutine[r] = "done"
    /\ serving' = FALSE
    /\ UNCHANGED <<given, input, goroutine, seenKeys, activeTurn, turnResult, updates,
                   queuedPrompts, output>>

RpcNext ==
    \/ \E r \in RpcRequests :
           \/ ServeLine(r) \/ DispatchCall(r) \/ RpcPrompt(r) \/ TurnUpdate(r)
           \/ TurnCleared(r) \/ Responds(r)
           \/ \E status \in {"pass", "cancelled"} : TurnEnds(r, status)
    \/ ServeReturns

(* Goroutines are scheduled, and the engine ends every turn: each has a *)
(* wall-clock budget.                                                   *)
RpcFairness ==
    /\ \A r \in RpcRequests :
           /\ WF_rpcVars(DispatchCall(r) \/ RpcPrompt(r))
           /\ WF_rpcVars(\E status \in {"pass", "cancelled"} : TurnEnds(r, status))
           /\ WF_rpcVars(TurnCleared(r)) /\ WF_rpcVars(Responds(r))
    /\ WF_rpcVars(ServeReturns)

RpcSpec == RpcInit /\ [][RpcNext]_rpcVars /\ RpcFairness

-----------------------------------------------------------------------------
(* A client that has read the answer to a prompt has read every event of   *)
(* its turn: nothing of the turn is written after the answer.              *)
UpdatesBeforeReply ==
    \A i, j \in 1 .. Len(output) :
        /\ output[i].kind = "reply" /\ output[j].kind # "reply"
        /\ output[i].request = output[j].request
        => j < i

(* Serve ends once its input has, except while a prompt that was queued     *)
(* behind a running turn waits: its turn has no result for the server.      *)
ServeEnds == input = {} ~> (~serving \/ \E r \in RpcRequests : goroutine[r] = "queued")

(* The server's variables keep their types, and a turn's answer is its last *)
(* line.                                                                    *)
RpcInv == RpcTypeOK /\ UpdatesBeforeReply
=============================================================================
