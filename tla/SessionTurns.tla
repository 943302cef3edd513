---------------------------- MODULE SessionTurns ----------------------------
(***************************************************************************)
(* The turn lifecycle of sessions in one engine (internal/core/engine.go)  *)
(* over the single-connection store (internal/store/store.go).             *)
(*                                                                         *)
(* A process is one client call and everything the call sets going: the    *)
(* call ends by launching a run goroutine, the run ends by launching       *)
(* drainQueued, and drainQueued ends by launching the next run, so one     *)
(* process walks the whole chain.  Every step is one critical section of   *)
(* e.mu or one statement or transaction of the store; between two steps    *)
(* any other process may move.                                             *)
(*                                                                         *)
(* The engine here has no InputHandler.  What a model call or a tool does  *)
(* is a choice; what the run writes because of it is not.                  *)
(***************************************************************************)
EXTENDS Naturals, Sequences

CONSTANTS
  Sessions, Workspaces,
  Requests, Hashes,     \* request_id values, payload hashes
  Continues,            \* processes that begin as ContinueWith
  Budgets,              \* processes that begin as AddBudget
  Starts,               \* processes that begin as Start
  Resumes,              \* processes that begin as resumeSession
  SessionOf,            \* the session a process addresses
  RequestOf, HashOf,    \* the request_id and payload hash of a ContinueWith
  WorkspaceOf,          \* workspaceKey of a session's checkout
  ReadOnly,             \* the sessions whose workspace mode is "read"
  Stoppable,            \* bound: the sessions whose turns are cancelled, terminated or
                        \* run out of time
  None                  \* no process, no session, no hash

Procs == Continues \cup Budgets \cup Starts \cup Resumes

ASSUME ConstantsAssumption ==
  /\ SessionOf \in [Procs -> Sessions]
  /\ RequestOf \in [Continues -> Requests]
  /\ HashOf \in [Continues -> Hashes]
  /\ WorkspaceOf \in [Sessions -> Workspaces]
  /\ ReadOnly \subseteq Sessions /\ Stoppable \subseteq Sessions
  /\ None \notin Procs \cup Sessions \cup Requests \cup Hashes

VARIABLES
  \* the store
  status,       \* sessions.status, "absent" before the row exists
  queue,        \* queued_messages, oldest first
  receipts,     \* request_receipts: the payload hash a request was accepted with
  history,      \* the person's messages in messages, by request_id
  pending,      \* how many pending_inputs rows are unanswered
  outstanding,  \* what hasOutstandingWork reads from the event log
  \* the engine's memory
  mu,           \* the holder of e.mu across two store writes
  cancels,      \* e.cancels: the process whose cancel function is registered
  writers,      \* e.writers: the session that holds a workspace's writer lease
  terminating,  \* Terminate has cancelled and not yet written its status
  \* each process
  pc,           \* where the process stands
  ctx,          \* its turn context: live, cancelled or past its deadline
  snap,         \* the status in its last read of the session row
  asked,        \* ContinueWith found an unanswered question
  held,         \* the message drainQueued took off the queue
  result,       \* the status the run ends with
  leased,       \* its run holds the writer lease
  \* what the model remembers and the code does not
  acked,        \* messages answered with Accepted
  turned,       \* messages a turn was launched for
  abandoned     \* the run that set the status returned without settling it

storeVars  == <<status, queue, receipts, history, pending, outstanding>>
engineVars == <<mu, cancels, writers, terminating>>
procVars   == <<pc, ctx, snap, asked, held, result, leased>>
ghostVars  == <<acked, turned, abandoned>>
vars == <<storeVars, engineVars, procVars, ghostVars>>

Statuses == {"absent", "running", "pass", "fail", "cancelled", "input_required",
             "budget_exhausted", "interrupted", "terminated"}
Results == {"pass", "fail", "cancelled"}
Entries == [req : Requests, hash : Hashes]
NoEntry == [req |-> None, hash |-> None]

-----------------------------------------------------------------------------
(* Vocabulary *)

\* Where a process is inside run, between the lease and finish or pauseForInput.
RunLocs == {"starting", "boundary", "reading", "calling"}

\* Where a run settles its result: pauseForInput or finish, its event, the release.
EndLocs == {"pausing", "paused", "ending", "finishing", "terminal", "releasing"}

\* Where drainQueued carries a message it took off the queue.
CarryLocs == {"drainDeliver", "drainRequeue", "drainStatus", "drainRegister"}

Locs == {"idle", "locked", "accepted", "resolved", "enqueue", "budget", "created",
         "launched", "unregister", "drain", "drainRead", "drainDequeue", "done",
         "resumeLog", "resume", "resuming"}
        \cup RunLocs \cup EndLocs \cup CarryLocs

InRun(p) == pc[p] \in RunLocs

Workspace(p) == WorkspaceOf[SessionOf[p]]

Entry(p) == [req |-> RequestOf[p], hash |-> HashOf[p]]

QueuedRequest(s, r) == \E i \in DOMAIN queue[s] : queue[s][i].req = r

Goto(p, loc) == pc' = [pc EXCEPT ![p] = loc]
SetStatus(s, st) ==
  /\ status' = [status EXCEPT ![s] = st]
  /\ abandoned' = [abandoned EXCEPT ![s] = FALSE]
Log(s, open) == outstanding' = [outstanding EXCEPT ![s] = open]
Ack(s, e) == acked' = acked \cup {<<s, e>>}

\* Mutant: the receipt is not written.
AcceptNoReceipt(s, e) ==
  /\ history' = [history EXCEPT ![s] = Append(@, e.req)]
  /\ Log(s, TRUE)
  /\ UNCHANGED receipts

\* Mutant: the message is not written.
AcceptNoMessage(s, e) ==
  /\ receipts' = [receipts EXCEPT ![s][e.req] = e.hash]
  /\ Log(s, TRUE)
  /\ UNCHANGED history

\* AcceptMessage and DeliverQueuedMessage write the receipt, the message and the
\* turn.accepted event in one transaction.
Accept(s, e) ==
  /\ receipts' = [receipts EXCEPT ![s][e.req] = e.hash]
  /\ history' = [history EXCEPT ![s] = Append(@, e.req)]
  /\ Log(s, TRUE)

\* EnqueueMessage: a second row for a queued request is a duplicate when the
\* payload is the same and an error when it is not.  Receipts are not consulted.
CanEnqueue(s, e) == \A i \in DOMAIN queue[s] : queue[s][i].req = e.req => queue[s][i] = e

\* Mutant: the session has room for one queued row.
EnqueueReplacing(s, e) == queue' = [queue EXCEPT ![s] = <<e>>]

EnqueueMessage(s, e) ==
  queue' = IF QueuedRequest(s, e.req) THEN queue
           ELSE [queue EXCEPT ![s] = Append(@, e)]

\* The turn is registered in e.cancels and its goroutine starts.
Launch(p) == cancels' = [cancels EXCEPT ![SessionOf[p]] = p] /\ Goto(p, "launched")

\* The run ends with result r, through finish.
End(p, r) == result' = [result EXCEPT ![p] = r] /\ Goto(p, "ending")

\* The run ends with a question: CreatePendingInput, then pauseForInput.
Ask(p) == pending' = [pending EXCEPT ![SessionOf[p]] = @ + 1] /\ Goto(p, "pausing")

-----------------------------------------------------------------------------
\* Sessions are as earlier turns, CreateIdle or a worker's run left them, or are
\* still to be created by Start.
Init ==
  /\ status \in [Sessions -> {"absent", "interrupted", "input_required", "budget_exhausted"}]
  /\ \A s \in Sessions : status[s] = "absent" <=> \E p \in Starts : SessionOf[p] = s
  /\ queue = [s \in Sessions |-> <<>>]
  /\ receipts = [s \in Sessions |-> [r \in Requests |-> None]]
  /\ history = [s \in Sessions |-> <<>>]
  /\ pending = [s \in Sessions |-> IF status[s] = "input_required" THEN 1 ELSE 0]
  /\ outstanding = [s \in Sessions |-> FALSE]
  /\ mu = None
  /\ cancels = [s \in Sessions |-> None]
  /\ writers = [w \in Workspaces |-> None]
  /\ terminating = [s \in Sessions |-> FALSE]
  /\ pc = [p \in Procs |-> "idle"]
  /\ ctx = [p \in Procs |-> "live"]
  /\ snap = [p \in Procs |-> "absent"]
  /\ asked = [p \in Procs |-> FALSE]
  /\ held = [p \in Procs |-> NoEntry]
  /\ result = [p \in Procs |-> "fail"]
  /\ leased = [p \in Procs |-> FALSE]
  /\ acked = {}
  /\ turned = {}
  /\ abandoned = [s \in Sessions |-> FALSE]

-----------------------------------------------------------------------------
(* ContinueWith *)

\* The reads before e.mu: the session must exist, a choice-only question refuses
\* any other answer, and a request that has a receipt is answered as a duplicate,
\* or refused when the payload differs.  Receipts are never removed, so that the
\* question is read before the receipt and not with it makes no difference.
ContinueRead(p) ==
  LET s == SessionOf[p]
      e == Entry(p)
      seen == receipts[s][e.req]
  IN /\ pc[p] = "idle"
     /\ status[s] # "absent"
     /\ \/ pending[s] > 0 /\ Goto(p, "done") /\ UNCHANGED <<asked, acked>>
        \/ seen = e.hash /\ Ack(s, e) /\ Goto(p, "done") /\ UNCHANGED asked
        \/ seen \notin {None, e.hash} /\ Goto(p, "done") /\ UNCHANGED <<asked, acked>>
        \/ /\ seen = None
           /\ asked' = [asked EXCEPT ![p] = pending[s] > 0]
           /\ Goto(p, "locked")
           /\ UNCHANGED acked
     /\ UNCHANGED <<storeVars, engineVars, ctx, snap, held, result, leased, turned, abandoned>>

\* A turn is active: e.mu is released before the message is queued.
ContinueActive(p) ==
  /\ pc[p] = "locked"
  /\ mu = None
  /\ cancels[SessionOf[p]] # None
  /\ Goto(p, "enqueue")
  /\ UNCHANGED <<storeVars, engineVars, ctx, snap, asked, held, result, leased, ghostVars>>

\* The other half: the message waits in the store for a drain.
ContinueEnqueue(p) ==
  LET s == SessionOf[p]
      e == Entry(p)
  IN /\ pc[p] = "enqueue"
     /\ Goto(p, "done")
     /\ \/ CanEnqueue(s, e) /\ EnqueueMessage(s, e) /\ Ack(s, e)
        \/ ~CanEnqueue(s, e) /\ UNCHANGED <<queue, acked>>
     /\ UNCHANGED <<status, receipts, history, pending, outstanding, engineVars,
                    ctx, snap, asked, held, result, leased, turned, abandoned>>

\* No turn is active: AcceptMessage under e.mu.  A receipt written since the
\* first look makes it a no-op that still launches a turn, or an error.
ContinueAccept(p) ==
  LET s == SessionOf[p]
      e == Entry(p)
      seen == receipts[s][e.req]
      next == IF asked[p] THEN "accepted" ELSE "resolved"
  IN /\ pc[p] = "locked"
     /\ mu = None
     /\ cancels[s] = None
     /\ \/ seen = None /\ Accept(s, e) /\ mu' = p /\ Goto(p, next)
        \/ /\ seen = e.hash
           /\ mu' = p
           /\ Goto(p, next)
           /\ UNCHANGED <<receipts, history, outstanding>>
        \/ /\ seen \notin {None, e.hash}
           /\ Goto(p, "done")
           /\ UNCHANGED <<receipts, history, outstanding, mu>>
     /\ UNCHANGED <<status, queue, pending, cancels, writers, terminating,
                    ctx, snap, asked, held, result, leased, ghostVars>>

\* ResolvePendingInput finds a question to answer.
Resolvable(s) == pending[s] > 0

\* It does not: the call unlocks and returns an error, with the message accepted
\* and no turn to read it.
ResolveFails(p) == Goto(p, "done") /\ mu' = None

\* The question seen before the lock is answered.
ContinueResolve(p) ==
  LET s == SessionOf[p]
  IN /\ pc[p] = "accepted"
     /\ \/ /\ Resolvable(s)
           /\ pending' = [pending EXCEPT ![s] = @ - 1]
           /\ Goto(p, "resolved")
           /\ UNCHANGED mu
        \/ ~Resolvable(s) /\ ResolveFails(p) /\ UNCHANGED pending
     /\ UNCHANGED <<status, queue, receipts, history, outstanding, cancels, writers,
                    terminating, ctx, snap, asked, held, result, leased, ghostVars>>

\* Still under e.mu: mark the session running, register the turn, unlock, launch.
ContinueLaunch(p) ==
  LET s == SessionOf[p]
  IN /\ pc[p] = "resolved"
     /\ SetStatus(s, "running")
     /\ mu' = None
     /\ Launch(p)
     /\ Ack(s, Entry(p))
     /\ turned' = turned \cup {<<s, Entry(p)>>}
     /\ UNCHANGED <<queue, receipts, history, pending, outstanding, writers, terminating,
                    ctx, snap, asked, held, result, leased>>

-----------------------------------------------------------------------------
(* AddBudget, Start and StartIntegrated *)

\* The ceiling is raised; only a session stopped at its ceiling goes on.
AddBudgetRead(p) ==
  /\ p \in Budgets
  /\ pc[p] = "idle"
  /\ status[SessionOf[p]] # "absent"
  /\ Goto(p, IF status[SessionOf[p]] = "budget_exhausted" THEN "budget" ELSE "done")
  /\ UNCHANGED <<storeVars, engineVars, ctx, snap, asked, held, result, leased, ghostVars>>

AddBudgetLaunch(p) ==
  LET s == SessionOf[p]
  IN /\ pc[p] = "budget"
     /\ mu = None
     /\ \/ cancels[s] # None /\ Goto(p, "done") /\ UNCHANGED <<status, abandoned, cancels>>
        \/ cancels[s] = None /\ SetStatus(s, "running") /\ Launch(p)
     /\ UNCHANGED <<queue, receipts, history, pending, outstanding, mu, writers, terminating,
                    ctx, snap, asked, held, result, leased, acked, turned>>

\* The row is created running.  CreateSessionAccepted (StartIntegrated) also logs
\* turn.accepted; CreateSession (Start) does not.
StartCreate(p) ==
  LET s == SessionOf[p]
  IN /\ p \in Starts
     /\ pc[p] = "idle"
     /\ status[s] = "absent"
     /\ SetStatus(s, "running")
     /\ \E integrated \in BOOLEAN : Log(s, integrated)
     /\ Goto(p, "created")
     /\ UNCHANGED <<queue, receipts, history, pending, engineVars,
                    ctx, snap, asked, held, result, leased, acked, turned>>

\* startExisting registers the turn without looking for another.
StartRegister(p) ==
  /\ pc[p] = "created"
  /\ mu = None
  /\ Launch(p)
  /\ UNCHANGED <<storeVars, mu, writers, terminating, ctx, snap, asked, held, result, leased,
                 ghostVars>>

-----------------------------------------------------------------------------
(* runRoot and run *)

\* No run holds the workspace, whichever session it is of.
LeaseFree(p) == writers[Workspace(p)] = None

\* A read-mode run needs no lease; any other takes it or fails at once.
AcquireWriter(p) ==
  LET s == SessionOf[p]
      w == Workspace(p)
  IN /\ pc[p] = "launched"
     /\ mu = None
     /\ \/ s \in ReadOnly /\ Goto(p, "starting") /\ UNCHANGED <<writers, leased, result>>
        \/ /\ s \notin ReadOnly
           /\ LeaseFree(p)
           /\ writers' = [writers EXCEPT ![w] = s]
           /\ leased' = [leased EXCEPT ![p] = TRUE]
           /\ Goto(p, "starting")
           /\ UNCHANGED result
        \/ s \notin ReadOnly /\ ~LeaseFree(p) /\ End(p, "fail") /\ UNCHANGED <<writers, leased>>
     /\ UNCHANGED <<storeVars, mu, cancels, terminating, ctx, snap, asked, held, ghostVars>>

\* session.started, which a cancelled context does not log.
RunBegin(p) ==
  /\ pc[p] = "starting"
  /\ IF ctx[p] = "live" THEN Log(SessionOf[p], TRUE) ELSE UNCHANGED outstanding
  /\ Goto(p, "boundary")
  /\ UNCHANGED <<status, queue, receipts, history, pending, engineVars,
                 ctx, snap, asked, held, result, leased, ghostVars>>

\* The workspace or its instructions cannot be read, or the accepted message
\* declined a harness question: the run ends before session.started.
RunRefused(p) ==
  /\ pc[p] = "starting"
  /\ \E r \in {"fail", "cancelled"} : End(p, r)
  /\ UNCHANGED <<storeVars, engineVars, ctx, snap, asked, held, leased, ghostVars>>

\* A panic is recovered into a failed result; so is a commit failure.
RunPanics(p) ==
  /\ pc[p] \in {"boundary", "calling"}
  /\ End(p, "fail")
  /\ UNCHANGED <<storeVars, engineVars, ctx, snap, asked, held, leased, ghostVars>>

\* The top of the loop: a cancelled context ends the run, an expired one asks the
\* person, a live one goes on.
TurnBoundary(p) ==
  /\ pc[p] = "boundary"
  /\ \/ ctx[p] = "cancelled" /\ End(p, "cancelled") /\ UNCHANGED pending
     \/ ctx[p] = "deadline" /\ Ask(p) /\ UNCHANGED result
     \/ ctx[p] = "live" /\ Goto(p, "reading") /\ UNCHANGED <<result, pending>>
  /\ UNCHANGED <<status, queue, receipts, history, outstanding, engineVars,
                 ctx, snap, asked, held, leased, ghostVars>>

\* The session row is read with the turn's context.  If that ended since the
\* check, the read fails and the run returns without finish.
TurnRead(p) ==
  LET s == SessionOf[p]
  IN /\ pc[p] = "reading"
     /\ \/ /\ ctx[p] = "live"
           /\ snap' = [snap EXCEPT ![p] = status[s]]
           /\ Goto(p, "calling")
           /\ UNCHANGED abandoned
        \/ /\ ctx[p] # "live"
           /\ abandoned' = [abandoned EXCEPT ![s] = TRUE]
           /\ Goto(p, "releasing")
           /\ UNCHANGED snap
     /\ UNCHANGED <<storeVars, engineVars, ctx, asked, held, result, leased, acked, turned>>

\* A dollar, token or review limit asks the person before the call; a call that
\* no model can serve, or that was cancelled, asks after it.
TurnAsks(p) ==
  /\ pc[p] = "calling"
  /\ Ask(p)
  /\ UNCHANGED <<status, queue, receipts, history, outstanding, engineVars,
                 ctx, snap, asked, held, result, leased, ghostVars>>

\* A call waiting out its backoff sees the context end.
CallCancelled(p) ==
  /\ pc[p] = "calling"
  /\ ctx[p] # "live"
  /\ End(p, "cancelled")
  /\ UNCHANGED <<storeVars, engineVars, ctx, snap, asked, held, leased, ghostVars>>

\* UpdateSession writes back the whole row read at the boundary, status included,
\* unless the turn's context has ended.
WriteBack(p) ==
  status' = IF ctx[p] = "live" THEN [status EXCEPT ![SessionOf[p]] = snap[p]] ELSE status

\* Before the call: the todo plan is cleared or the phase changes.
TurnUpdate(p) ==
  /\ pc[p] = "calling"
  /\ WriteBack(p)
  /\ UNCHANGED <<queue, receipts, history, pending, outstanding, engineVars, procVars,
                 ghostVars>>

\* The reply: UpdateSession, then another turn, a question, or a final result.
TurnReply(p) ==
  /\ pc[p] = "calling"
  /\ WriteBack(p)
  /\ \/ Goto(p, "boundary") /\ UNCHANGED <<result, pending>>
     \/ Ask(p) /\ UNCHANGED result
     \/ \E r \in {"pass", "fail"} : End(p, r) /\ UNCHANGED pending
  /\ UNCHANGED <<queue, receipts, history, outstanding, engineVars,
                 ctx, snap, asked, held, leased, ghostVars>>

-----------------------------------------------------------------------------
(* pauseForInput, finish, and the end of the goroutine *)

PauseWrite(p) ==
  /\ pc[p] = "pausing"
  /\ SetStatus(SessionOf[p], "input_required")
  /\ Goto(p, "paused")
  /\ UNCHANGED <<queue, receipts, history, pending, outstanding, engineVars,
                 ctx, snap, asked, held, result, leased, acked, turned>>

FinishRead(p) ==
  /\ pc[p] = "ending"
  /\ snap' = [snap EXCEPT ![p] = status[SessionOf[p]]]
  /\ Goto(p, "finishing")
  /\ UNCHANGED <<storeVars, engineVars, ctx, asked, held, result, leased, ghostVars>>

\* Mutant: the row is written back as it was read.
FinishStale(p) == SetStatus(SessionOf[p], snap[p])

\* A session that was not terminated when it was read gets the run's result.
FinishStatus(p) ==
  IF snap[p] = "terminated" THEN UNCHANGED <<status, abandoned>>
  ELSE SetStatus(SessionOf[p], result[p])

FinishWrite(p) ==
  /\ pc[p] = "finishing"
  /\ FinishStatus(p)
  /\ Goto(p, "terminal")
  /\ UNCHANGED <<queue, receipts, history, pending, outstanding, engineVars,
                 ctx, snap, asked, held, result, leased, acked, turned>>

\* input.required and session.terminal both close the run in the event log.
EndEvent(p) ==
  /\ pc[p] \in {"paused", "terminal"}
  /\ Log(SessionOf[p], FALSE)
  /\ Goto(p, "releasing")
  /\ UNCHANGED <<status, queue, receipts, history, pending, engineVars,
                 ctx, snap, asked, held, result, leased, ghostVars>>

\* Mutant: the lease is dropped whoever holds it.
ReleaseUnchecked(p) == writers' = [writers EXCEPT ![Workspace(p)] = None]

\* A run that took the lease gives it up, if its session is still the owner.
Release(p) ==
  writers' = IF leased[p] /\ writers[Workspace(p)] = SessionOf[p]
             THEN [writers EXCEPT ![Workspace(p)] = None] ELSE writers

\* The deferred release.
ReleaseWriter(p) ==
  /\ pc[p] = "releasing"
  /\ mu = None
  /\ Release(p)
  /\ leased' = [leased EXCEPT ![p] = FALSE]
  /\ Goto(p, "unregister")
  /\ UNCHANGED <<storeVars, mu, cancels, terminating, ctx, snap, asked, held, result,
                 ghostVars>>

\* delete(e.cancels, id), whoever is registered there.  The context and the
\* locals of the run are gone.
Unregister(p) ==
  /\ pc[p] = "unregister"
  /\ mu = None
  /\ cancels' = [cancels EXCEPT ![SessionOf[p]] = None]
  /\ Goto(p, "drain")
  /\ ctx' = [ctx EXCEPT ![p] = "live"]
  /\ snap' = [snap EXCEPT ![p] = "absent"]
  /\ result' = [result EXCEPT ![p] = "fail"]
  /\ UNCHANGED <<storeVars, mu, writers, terminating, asked, held, leased, ghostVars>>

-----------------------------------------------------------------------------
(* drainQueued *)

\* sessionIdle: when another turn is registered this drain has nothing to do.
DrainCheck(p) ==
  /\ pc[p] = "drain"
  /\ mu = None
  /\ Goto(p, IF cancels[SessionOf[p]] = None THEN "drainRead" ELSE "done")
  /\ UNCHANGED <<storeVars, engineVars, ctx, snap, asked, held, result, leased, ghostVars>>

\* Only a session that ended normally continues.
DrainRead(p) ==
  /\ pc[p] = "drainRead"
  /\ Goto(p, IF status[SessionOf[p]] \in {"pass", "input_required", "interrupted"}
             THEN "drainDequeue" ELSE "done")
  /\ UNCHANGED <<storeVars, engineVars, ctx, snap, asked, held, result, leased, ghostVars>>

\* DequeueMessage deletes the oldest row.
DrainDequeue(p) ==
  LET s == SessionOf[p]
  IN /\ pc[p] = "drainDequeue"
     /\ \/ queue[s] = <<>> /\ Goto(p, "done") /\ UNCHANGED <<queue, held>>
        \/ /\ queue[s] # <<>>
           /\ held' = [held EXCEPT ![p] = Head(queue[s])]
           /\ queue' = [queue EXCEPT ![s] = Tail(@)]
           /\ Goto(p, "drainDeliver")
     /\ UNCHANGED <<status, receipts, history, pending, outstanding, engineVars,
                    ctx, snap, asked, result, leased, ghostVars>>

\* DeliverQueuedMessage: accepted, a duplicate that is launched all the same, or
\* refused because the request was accepted with another payload.
DrainDeliver(p) ==
  LET s == SessionOf[p]
      e == held[p]
      seen == receipts[s][e.req]
  IN /\ pc[p] = "drainDeliver"
     /\ \/ seen = None /\ Accept(s, e) /\ Goto(p, "drainStatus")
        \/ /\ seen = e.hash
           /\ Goto(p, "drainStatus")
           /\ UNCHANGED <<receipts, history, outstanding>>
        \/ /\ seen \notin {None, e.hash}
           /\ Goto(p, "drainRequeue")
           /\ UNCHANGED <<receipts, history, outstanding>>
     /\ UNCHANGED <<status, queue, pending, engineVars, ctx, snap, asked, held, result, leased,
                    ghostVars>>

\* A message that could not be delivered is queued again and drained again; when
\* it cannot be queued either it is reported lost.
DrainRequeue(p) ==
  LET s == SessionOf[p]
  IN /\ pc[p] = "drainRequeue"
     /\ \/ CanEnqueue(s, held[p]) /\ EnqueueMessage(s, held[p]) /\ Goto(p, "drain")
        \/ ~CanEnqueue(s, held[p]) /\ Goto(p, "done") /\ UNCHANGED queue
     /\ held' = [held EXCEPT ![p] = NoEntry]
     /\ UNCHANGED <<status, receipts, history, pending, outstanding, engineVars,
                    ctx, snap, asked, result, leased, ghostVars>>

DrainStatus(p) ==
  /\ pc[p] = "drainStatus"
  /\ SetStatus(SessionOf[p], "running")
  /\ Goto(p, "drainRegister")
  /\ UNCHANGED <<queue, receipts, history, pending, outstanding, engineVars,
                 ctx, snap, asked, held, result, leased, acked, turned>>

\* The turn is registered without looking for another, and launched.
DrainRegister(p) ==
  /\ pc[p] = "drainRegister"
  /\ mu = None
  /\ Launch(p)
  /\ turned' = turned \cup {<<SessionOf[p], held[p]>>}
  /\ held' = [held EXCEPT ![p] = NoEntry]
  /\ UNCHANGED <<storeVars, mu, writers, terminating, ctx, snap, asked, result, leased,
                 acked, abandoned>>

-----------------------------------------------------------------------------
(* Cancel, Terminate, and the turn's own clock *)

CancelRegistered(s) ==
  ctx' = IF cancels[s] = None THEN ctx ELSE [ctx EXCEPT ![cancels[s]] = "cancelled"]

Cancel(s) ==
  /\ mu = None
  /\ cancels[s] # None
  /\ CancelRegistered(s)
  /\ UNCHANGED <<storeVars, engineVars, pc, snap, asked, held, result, leased, ghostVars>>

TerminateCancel(s) ==
  /\ mu = None
  /\ ~terminating[s]
  /\ status[s] # "absent"
  /\ CancelRegistered(s)
  /\ terminating' = [terminating EXCEPT ![s] = TRUE]
  /\ UNCHANGED <<storeVars, mu, cancels, writers, pc, snap, asked, held, result, leased,
                 ghostVars>>

TerminateWrite(s) ==
  /\ terminating[s]
  /\ SetStatus(s, "terminated")
  /\ terminating' = [terminating EXCEPT ![s] = FALSE]
  /\ UNCHANGED <<queue, receipts, history, pending, outstanding, mu, cancels, writers,
                 procVars, acked, turned>>

\* Mutant: the run's context is made without its timeout.
NoDeadline(p) == p \notin Procs /\ UNCHANGED vars

\* context.WithTimeout: the wall clock of a launched run runs out.
Deadline(p) ==
  /\ SessionOf[p] \in Stoppable
  /\ pc[p] \in RunLocs \cup {"launched"}
  /\ ctx[p] = "live"
  /\ ctx' = [ctx EXCEPT ![p] = "deadline"]
  /\ UNCHANGED <<storeVars, engineVars, pc, snap, asked, held, result, leased, ghostVars>>

-----------------------------------------------------------------------------
ContinueWith(p) ==
  /\ p \in Continues
  /\ \/ ContinueRead(p) \/ ContinueActive(p) \/ ContinueEnqueue(p)
     \/ ContinueAccept(p) \/ ContinueResolve(p) \/ ContinueLaunch(p)

AddBudget(p) == AddBudgetRead(p) \/ AddBudgetLaunch(p)

Start(p) == StartCreate(p) \/ StartRegister(p)

Run(p) ==
  \/ AcquireWriter(p) \/ RunBegin(p) \/ RunRefused(p) \/ RunPanics(p)
  \/ TurnBoundary(p) \/ TurnRead(p) \/ TurnAsks(p) \/ CallCancelled(p) \/ TurnReply(p)

Settle(p) ==
  \/ PauseWrite(p) \/ FinishRead(p) \/ FinishWrite(p) \/ EndEvent(p)
  \/ ReleaseWriter(p) \/ Unregister(p)

DrainQueued(p) ==
  \/ DrainCheck(p) \/ DrainRead(p) \/ DrainDequeue(p) \/ DrainDeliver(p)
  \/ DrainRequeue(p) \/ DrainStatus(p) \/ DrainRegister(p)

Step(p) ==
  \/ ContinueWith(p) \/ AddBudget(p) \/ Start(p) \/ Run(p) \/ Settle(p) \/ DrainQueued(p)

Next ==
  \/ \E p \in Procs : Step(p) \/ TurnUpdate(p) \/ Deadline(p)
  \/ \E s \in Stoppable : Cancel(s) \/ TerminateCancel(s) \/ TerminateWrite(s)

Spec == Init /\ [][Next]_vars

\* The Go scheduler runs every goroutine that can run, a client's call once begun
\* returns, and the wall clock of a run expires.
Fairness ==
  \A p \in Procs : WF_vars(pc[p] # "idle" /\ Step(p)) /\ WF_vars(Deadline(p))

FairSpec == Spec /\ Fairness

-----------------------------------------------------------------------------
(* Properties *)

TypeOK ==
  /\ status \in [Sessions -> Statuses]
  /\ queue \in [Sessions -> Seq(Entries)]
  /\ receipts \in [Sessions -> [Requests -> Hashes \cup {None}]]
  /\ history \in [Sessions -> Seq(Requests)]
  /\ pending \in [Sessions -> Nat]
  /\ outstanding \in [Sessions -> BOOLEAN]
  /\ mu \in Procs \cup {None}
  /\ cancels \in [Sessions -> Procs \cup {None}]
  /\ writers \in [Workspaces -> Sessions \cup {None}]
  /\ terminating \in [Sessions -> BOOLEAN]
  /\ pc \in [Procs -> Locs]
  /\ ctx \in [Procs -> {"live", "cancelled", "deadline"}]
  /\ snap \in [Procs -> Statuses]
  /\ asked \in [Procs -> BOOLEAN]
  /\ held \in [Procs -> Entries \cup {NoEntry}]
  /\ result \in [Procs -> Results]
  /\ leased \in [Procs -> BOOLEAN]
  /\ acked \subseteq Sessions \X Entries
  /\ turned \subseteq Sessions \X Entries
  /\ abandoned \in [Sessions -> BOOLEAN]
  /\ \A p \in Procs : pc[p] \in CarryLocs => held[p] \in Entries

\* docs/architecture.md: "Root turns take a per-workspace writer lease".  No two
\* runs that may edit work in one checkout at a time, whatever turns of one
\* session the engine launches together.
OneWriterPerWorkspace ==
  \A p, q \in Procs :
    /\ InRun(p) /\ SessionOf[p] \notin ReadOnly
    /\ InRun(q) /\ SessionOf[q] \notin ReadOnly
    /\ Workspace(p) = Workspace(q)
    => p = q

\* The process will write the session's status before it is done.
WillSettle(p) ==
  \/ pc[p] \in RunLocs \cup {"created", "launched", "pausing", "ending", "drainRegister"}
  \/ pc[p] = "finishing" /\ snap[p] # "terminated"

\* A session is marked running only while some goroutine is on its way to write
\* another status, so a client that waits for the status does not wait for
\* nobody.  The one exception is the run that lost its context between the check
\* and the read at the top of the loop (engine.go:1188-1191).
RunningIsOwned ==
  \A s \in Sessions :
    status[s] = "running" =>
      abandoned[s] \/ \E p \in Procs : SessionOf[p] = s /\ WillSettle(p)

\* drainQueued holds a message that is neither queued nor delivered.
Carried(s, e) ==
  \E p \in Procs : SessionOf[p] = s /\ pc[p] \in {"drainDeliver", "drainRequeue"} /\ held[p] = e

Queued(s, e) == \E i \in DOMAIN queue[s] : queue[s][i] = e

\* A client that retries sends what it sent.
OnePayload ==
  \A p, q \in Continues :
    SessionOf[p] = SessionOf[q] /\ RequestOf[p] = RequestOf[q] => HashOf[p] = HashOf[q]

\* A message the engine answered with Accepted is in the conversation, in the
\* queue, or in the hands of a drain: no interleaving of calls, turns and drains
\* drops it.
AckedNotLost ==
  \A s \in Sessions : \A e \in Entries :
    <<s, e>> \in acked => receipts[s][e.req] = e.hash \/ Queued(s, e) \/ Carried(s, e)

\* A request is in the conversation once if it has a receipt and not at all
\* otherwise, however often it is sent, queued and drained.
ExactlyOnce ==
  \A s \in Sessions :
    /\ \A r \in Requests :
         receipts[s][r] # None <=> \E i \in DOMAIN history[s] : history[s][i] = r
    /\ \A i, j \in DOMAIN history[s] : history[s][i] = history[s][j] => i = j

\* The message path implements Inbox: what is queued or carried is waiting, what
\* has a receipt is delivered.
Waiting ==
  [s \in Sessions |->
    {r \in Requests :
      /\ receipts[s][r] = None
      /\ \E h \in Hashes : LET e == [req |-> r, hash |-> h] IN Queued(s, e) \/ Carried(s, e)}]

MessagePath == INSTANCE Inbox WITH waiting <- Waiting, delivered <- history

\* The whole message path, as a refinement of the abstract inbox.
MessagePathSpec == MessagePath!Spec

\* A running session settles: the run ends, asks, or runs into its wall clock.
RunsSettle ==
  \A s \in Sessions : status[s] = "running" ~> status[s] # "running" \/ abandoned[s]

=============================================================================
