---------------------------- MODULE SessionCrash ----------------------------
(***************************************************************************)
(* The sessions of SessionTurns when the process that hosts the engine     *)
(* dies and is started again: the store survives, the engine's memory and  *)
(* every goroutine do not.  The new process calls MarkRunningInterrupted   *)
(* and then ResumeInterrupted (README.md, "When a host wakes").  A process *)
(* in Resumes is ResumeInterrupted's visit to one session.                 *)
(***************************************************************************)
EXTENDS SessionTurns

CONSTANT MaxCrashes   \* bound: how often the host dies

ASSUME MaxCrashesAssumption == MaxCrashes \in Nat

VARIABLES
  crashes,
  dropped     \* messages that were in the hands of a drain when the host died

crashVars == <<crashes, dropped>>
allVars == <<vars, crashVars>>

CrashInit == Init /\ crashes = 0 /\ dropped = {}

\* Mutant: the statement selects the sessions with a question, not the running ones.
MarkAsking ==
  status' = [s \in Sessions |-> IF status[s] = "input_required" THEN "interrupted" ELSE status[s]]

\* MarkRunningInterrupted: the owner of every running session is dead.
MarkRunningInterrupted ==
  status' = [s \in Sessions |-> IF status[s] = "running" THEN "interrupted" ELSE status[s]]

\* Mutant: queued messages are kept in the engine's memory.
KeepAllButQueue ==
  queue' = [s \in Sessions |-> <<>>] /\ UNCHANGED <<receipts, history, pending, outstanding>>

\* The tables of the store other than sessions are as they were.
KeepTables == UNCHANGED <<queue, receipts, history, pending, outstanding>>

\* The host dies at any point between two steps and is started again.
Restart ==
  /\ crashes < MaxCrashes
  /\ crashes' = crashes + 1
  /\ dropped' = dropped \cup
       {<<SessionOf[p], held[p]>> : p \in {q \in Procs : pc[q] \in {"drainDeliver", "drainRequeue"}}}
  /\ MarkRunningInterrupted
  /\ mu' = None
  /\ cancels' = [s \in Sessions |-> None]
  /\ writers' = [w \in Workspaces |-> None]
  /\ terminating' = [s \in Sessions |-> FALSE]
  /\ pc' = [p \in Procs |-> IF pc[p] = "idle" THEN "idle" ELSE "done"]
  /\ ctx' = [p \in Procs |-> "live"]
  /\ snap' = [p \in Procs |-> "absent"]
  /\ asked' = [p \in Procs |-> FALSE]
  /\ held' = [p \in Procs |-> NoEntry]
  /\ result' = [p \in Procs |-> "fail"]
  /\ leased' = [p \in Procs |-> FALSE]
  /\ abandoned' = [s \in Sessions |-> FALSE]
  /\ KeepTables
  /\ UNCHANGED <<acked, turned>>

-----------------------------------------------------------------------------
(* ResumeInterrupted, one session of its loop *)

ResumeRead(p) ==
  /\ p \in Resumes
  /\ crashes > 0
  /\ pc[p] = "idle"
  /\ Goto(p, IF status[SessionOf[p]] = "interrupted" THEN "resumeLog" ELSE "done")
  /\ UNCHANGED <<storeVars, engineVars, ctx, snap, asked, held, result, leased, ghostVars>>

\* hasOutstandingWork walks the event log.
ResumeLog(p) ==
  /\ pc[p] = "resumeLog"
  /\ Goto(p, IF outstanding[SessionOf[p]] THEN "resume" ELSE "done")
  /\ UNCHANGED <<storeVars, engineVars, ctx, snap, asked, held, result, leased, ghostVars>>

\* resumeSession under e.mu: the resume note is accepted as a message of the
\* harness, with a request id of its own, unless a turn is active.
ResumeAccept(p) ==
  LET s == SessionOf[p]
  IN /\ pc[p] = "resume"
     /\ mu = None
     /\ \/ cancels[s] # None /\ Goto(p, "done") /\ UNCHANGED <<outstanding, mu>>
        \/ cancels[s] = None /\ Log(s, TRUE) /\ mu' = p /\ Goto(p, "resuming")
     /\ UNCHANGED <<status, queue, receipts, history, pending, cancels, writers, terminating,
                    ctx, snap, asked, held, result, leased, ghostVars>>

ResumeLaunch(p) ==
  /\ pc[p] = "resuming"
  /\ SetStatus(SessionOf[p], "running")
  /\ mu' = None
  /\ Launch(p)
  /\ UNCHANGED <<queue, receipts, history, pending, outstanding, writers, terminating,
                 ctx, snap, asked, held, result, leased, acked, turned>>

ResumeSession(p) == ResumeRead(p) \/ ResumeLog(p) \/ ResumeAccept(p) \/ ResumeLaunch(p)

-----------------------------------------------------------------------------
CrashNext ==
  \/ Next /\ UNCHANGED crashVars
  \/ (\E p \in Procs : ResumeSession(p)) /\ UNCHANGED crashVars
  \/ Restart

CrashSpec == CrashInit /\ [][CrashNext]_allVars

\* Across a crash too, a message answered with Accepted is in the conversation or
\* in the queue.  The only ones that are not were taken off the queue by a drain
\* that had not delivered them yet when the host died (engine.go:816-830).
AckedAcrossCrash ==
  \A s \in Sessions : \A e \in Entries :
    <<s, e>> \in acked =>
      \/ receipts[s][e.req] = e.hash
      \/ Queued(s, e)
      \/ Carried(s, e)
      \/ <<s, e>> \in dropped

=============================================================================
