------------------------------- MODULE Display -------------------------------
(***************************************************************************)
(* What the terminal client shows of a session: the reducer over the event *)
(* log and the reconciliation with polled snapshots of the session row     *)
(* (internal/tui/transcript.go), and the "interrupting" mark of the model. *)
(* The engine writes the row and the events that announce a change in      *)
(* separate steps, and a restart marks a running row interrupted without   *)
(* an event.  Events arrive as module Feed shows: in order, none missing.  *)
(***************************************************************************)
EXTENDS Naturals, Sequences, FiniteSets

CONSTANTS NoSnapshot,
          MaxClock,    \* bound on the time a turn, a write of a run or a
                       \* trouble may still begin at
          MaxTroubles  \* restarts and terminations

VARIABLES clock,       \* time of the last write; every write gets its own
          row,         \* the session row: [status, at]
          log,         \* events: [kind, at, status]
          run,         \* "idle" or the step the run is in
          terminating, \* Terminate wrote the row and not yet its event
          cut,         \* steps a crash interrupted, "terminated" after Terminate
          troubles,
          seen,        \* events applied (lastSeq)
          status, statusAt, lastEventAt,
          question,    \* s.input # nil
          cancelling,
          snap         \* a snapshot on its way to the update loop, or NoSnapshot

rowAndLog == <<clock, row, log, run, terminating, cut, troubles>>
shownState == <<seen, status, statusAt, lastEventAt, question, cancelling>>
displayVars == <<rowAndLog, shownState, snap>>

Outcomes == {"pass", "fail"}
Statuses == {"running", "input_required", "interrupted", "terminated"} \cup Outcomes
Kinds == {"turn.accepted", "input.required", "input.answered", "session.terminal",
          "session.terminated", "other"}
Time == 0 .. MaxClock + 6
Row == [status: Statuses, at: Time]

DisplayTypeOK ==
    /\ clock \in Time
    /\ row \in Row /\ snap \in Row \cup {NoSnapshot}
    /\ log \in Seq([kind: Kinds, at: Time, status: Statuses])
    /\ run \in {"idle", "accepting", "running", "finishing", "pausing"}
    /\ terminating \in BOOLEAN /\ cut \subseteq {"accepting", "pausing", "terminated"}
    /\ troubles \in 0 .. MaxTroubles
    /\ seen \in 0 .. Len(log)
    /\ status \in Statuses \cup {""}
    /\ {statusAt, lastEventAt} \subseteq Time
    /\ {question, cancelling} \subseteq BOOLEAN

(* The client opens a session that is idle. *)
DisplayInit ==
    /\ clock = 0 /\ row = [status |-> "pass", at |-> 0] /\ log = <<>>
    /\ run = "idle" /\ terminating = FALSE /\ cut = {} /\ troubles = 0
    /\ seen = 0 /\ status = "" /\ statusAt = 0 /\ lastEventAt = 0
    /\ question = FALSE /\ cancelling = FALSE /\ snap = NoSnapshot

-----------------------------------------------------------------------------
Event(kind, t, st) == [kind |-> kind, at |-> t, status |-> st]

(* AcceptMessage and DeliverQueuedMessage: one transaction writes the      *)
(* events and, when the request changes, the row's time.                   *)
Accepts ==
    /\ run = "idle" /\ row.status \notin {"running", "terminated"}
    /\ clock <= MaxClock
    /\ clock' = clock + 1
    /\ log' = log \o <<Event("turn.accepted", clock', "running"),
                       Event("other", clock', "running")>>
    /\ \E touched \in BOOLEAN : row' = IF touched THEN [row EXCEPT !.at = clock'] ELSE row
    /\ run' = "accepting"
    /\ UNCHANGED <<terminating, cut, troubles, shownState, snap>>

(* The answer to a pending question is announced, the row set running. *)
SetsRunning ==
    LET asked == row.status = "input_required"
    IN  /\ run = "accepting"
        /\ clock' = IF asked THEN clock + 2 ELSE clock + 1
        /\ log' = IF asked THEN Append(log, Event("input.answered", clock + 1, "running"))
                  ELSE log
        /\ row' = [status |-> "running", at |-> clock']
        /\ run' = "running"
        /\ UNCHANGED <<terminating, cut, troubles, shownState, snap>>

(* The run writes an event, or only spends, which updates the row's time. *)
Works ==
    /\ run = "running" /\ clock <= MaxClock
    /\ clock' = clock + 1
    /\ \/ log' = Append(log, Event("other", clock', "running")) /\ UNCHANGED row
       \/ row' = [row EXCEPT !.at = clock'] /\ UNCHANGED log
    /\ UNCHANGED <<run, terminating, cut, troubles, shownState, snap>>

(* The run ends or pauses: the row first, the event after it. *)
Stops(st, step) ==
    /\ run = "running"
    /\ clock' = clock + 1
    /\ row' = IF row.status = "terminated" /\ step = "finishing" THEN row
              ELSE [status |-> st, at |-> clock']
    /\ run' = step
    /\ UNCHANGED <<log, terminating, cut, troubles, shownState, snap>>

Announces ==
    /\ run \in {"finishing", "pausing"}
    /\ clock' = clock + 1
    /\ \E st \in IF run = "pausing" THEN {"input_required"}
                 ELSE IF row.status = "terminated" THEN Outcomes ELSE {row.status} :
          log' = Append(log, Event(IF run = "pausing" THEN "input.required"
                                   ELSE "session.terminal", clock', st))
    /\ run' = "idle"
    /\ UNCHANGED <<row, terminating, cut, troubles, shownState, snap>>

(* Engine.Terminate, whose event may come before or after the run's own. *)
Terminates ==
    /\ row.status # "terminated" /\ clock <= MaxClock /\ troubles < MaxTroubles
    /\ troubles' = troubles + 1
    /\ clock' = clock + 1
    /\ row' = [status |-> "terminated", at |-> clock']
    /\ terminating' = TRUE /\ cut' = cut \cup {"terminated"}
    /\ UNCHANGED <<log, run, shownState, snap>>

AnnouncesTermination ==
    /\ terminating
    /\ clock' = clock + 1
    /\ log' = Append(log, Event("session.terminated", clock', "terminated"))
    /\ terminating' = FALSE
    /\ UNCHANGED <<row, run, cut, troubles, shownState, snap>>

(* The server dies and starts again: MarkRunningInterrupted. *)
Restarts ==
    /\ troubles < MaxTroubles /\ clock <= MaxClock
    /\ troubles' = troubles + 1
    /\ cut' = cut \cup ({run} \cap {"accepting", "pausing"})
    /\ run' = "idle" /\ terminating' = FALSE
    /\ clock' = clock + 1
    /\ row' = IF row.status = "running"
              THEN [status |-> "interrupted", at |-> clock'] ELSE row
    /\ UNCHANGED <<log, shownState, snap>>

-----------------------------------------------------------------------------
(* Where the last event of a kind in ks stands among events i .. j. *)
LastOf(ks, i, j) ==
    {n \in i .. j : log[n].kind \in ks /\ \A m \in (n + 1) .. j : log[m].kind \notin ks}

(* The snapshot handler clears the mark when the session does not run. *)
ClearOnSnapshot(stillRunning) == cancelling /\ stillRunning

(* The events that open or close the question. *)
QuestionKinds == {"turn.accepted", "input.required", "input.answered"}

(* onEvents: apply, event by event, the batch that ends with event j.      *)
(* Only the last event that sets the status, and the last that sets or     *)
(* clears the question, decide; the mark is cleared once per batch.        *)
Applies(j) ==
    LET setters == LastOf(Kinds \ {"other", "input.answered"}, seen + 1, j)
        asks == LastOf(QuestionKinds, seen + 1, j)
    IN  /\ seen' = j
        /\ lastEventAt' = log[j].at
        /\ IF setters = {} THEN UNCHANGED <<status, statusAt>>
           ELSE \E n \in setters : status' = log[n].status /\ statusAt' = log[n].at
        /\ IF asks = {} THEN UNCHANGED question
           ELSE \E n \in asks : question' = (log[n].kind = "input.required")
        /\ cancelling' = (cancelling /\ ~(status = "running" /\ status' # "running"))
        /\ UNCHANGED <<rowAndLog, snap>>

(* fetchSession: the poll reads the row ... *)
Fetches ==
    /\ snap = NoSnapshot
    /\ snap' = row
    /\ UNCHANGED <<rowAndLog, shownState>>

(* Mutant: a snapshot never overrides a status the events set. *)
NeverNewer(s) == FALSE

(* The snapshot was written after the newest event the client has applied. *)
Newer(s) == s.at > lastEventAt /\ s.at > statusAt

(* ... and reconcile folds it in when it arrives, which may be later. *)
Reconciles ==
    /\ snap # NoSnapshot
    /\ LET overrides == snap.status # status /\ (status = "" \/ Newer(snap))
       IN  /\ status' = IF overrides THEN snap.status ELSE status
           /\ statusAt' = IF overrides THEN snap.at ELSE statusAt
    /\ cancelling' = ClearOnSnapshot(status' = "running")
    /\ snap' = NoSnapshot
    /\ UNCHANGED <<rowAndLog, seen, lastEventAt, question>>

(* cmdCancel: the turn is asked to stop and the mark set. *)
Cancels ==
    /\ status = "running" /\ ~cancelling
    /\ cancelling' = TRUE
    /\ UNCHANGED <<rowAndLog, seen, status, statusAt, lastEventAt, question, snap>>

DisplayNext ==
    \/ Accepts \/ SetsRunning \/ Works \/ Announces
    \/ \E st \in Outcomes : Stops(st, "finishing")
    \/ Stops("input_required", "pausing")
    \/ Terminates \/ AnnouncesTermination \/ Restarts
    \/ \E j \in (seen + 1) .. Len(log) : Applies(j)
    \/ Fetches \/ Reconciles \/ Cancels

RunEnds == \/ SetsRunning \/ Announces \/ AnnouncesTermination
           \/ \E st \in Outcomes : Stops(st, "finishing")

(* Runs end, events arrive, the poll goes on. *)
DisplayFairness ==
    /\ WF_displayVars(RunEnds)
    /\ WF_displayVars(\E j \in (seen + 1) .. Len(log) : Applies(j))
    /\ WF_displayVars(Fetches) /\ WF_displayVars(Reconciles)

DisplaySpec == DisplayInit /\ [][DisplayNext]_displayVars /\ DisplayFairness

-----------------------------------------------------------------------------
(* The status shown becomes the session's, also when a restart ends a turn *)
(* without an event.  Two cases are left out because the code leaves them  *)
(* open: a terminated session, whose run may announce its own end after    *)
(* the termination, and a crash between accepting a message and setting    *)
(* the row running, which leaves a turn announced that never ends.         *)
StatusConverges ==
    <>[](clock = 0 \/ status = row.status \/ {"accepting", "terminated"} \cap cut # {})

(* A snapshot read before the run's end arrived never revives the run: the *)
(* poll shows a session running again only when a later turn was written   *)
(* than the last end the client applied.                                   *)
NoResurrection ==
    [][seen' = seen /\ status' = "running" /\ status # "running"
        => (\A n \in 1 .. seen : log[n].kind = "session.terminal" =>
               \E m \in (n + 1) .. Len(log) : log[m].kind = "turn.accepted")]_displayVars

(* The open question is shown exactly while the session waits for it,      *)
(* unless a crash separated the row from its event.                        *)
QuestionConverges ==
    <>[]((question <=> row.status = "input_required") \/ cut # {})

(* The mark of an interrupted turn goes away, whether the turn's end is    *)
(* announced by an event or only found in the row after a restart.         *)
CancelMarkEnds ==
    cancelling ~> (~cancelling \/ {"accepting", "terminated"} \cap cut # {})

(* What is shown becomes what is: the status, the open question and the     *)
(* mark of an interrupted turn; and a late snapshot never revives a run.    *)
DisplayConverges == StatusConverges /\ QuestionConverges /\ CancelMarkEnds /\ NoResurrection
=============================================================================
