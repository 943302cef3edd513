----------------------------- MODULE Retention -----------------------------
(* Retention and memory extraction over finished sessions: MaintainStorage  *)
(* lists the sessions, judges each, and then archives or deletes them one   *)
(* store call at a time, while sessions start, write events and finish, and *)
(* extraction reads the event logs up to its watermark.                     *)
EXTENDS Integers, Sequences

CONSTANTS
    Tops, Kids, Parent,        \* top-level sessions, workers, a worker's parent
    WorkerAfter, ArchiveAfter, DeleteAfter,   \* windows, in ticks of the clock
    MaxLog, MaxStarts, MaxPasses, MaxTicks   \* bounds

All == Tops \cup Kids
ASSUME RetentionAssumption ==
    /\ Parent \in [Kids -> Tops] /\ Tops \cap Kids = {}
    /\ {WorkerAfter, ArchiveAfter, DeleteAfter} \subseteq Nat
    /\ {MaxLog, MaxStarts, MaxPasses, MaxTicks} \subseteq Nat

VARIABLES
    row,       \* sessions table: NoRow, or status, updated_at and archived_at
    active,    \* sessions with a turn in this engine (cancels, running)
    log,       \* events table
    wm,        \* memory_watermarks
    arc,       \* session_archives
    extract,   \* runMemoryExtraction, one at a time (memoryRunMu)
    keeper,    \* MaintainStorage
    now, quota,
    resumed    \* history: sessions that started since the pass listed them,
               \* or after they were archived

retentionVars == <<row, active, log, wm, arc, extract, keeper, now, quota, resumed>>

NoRow == [status |-> "none", updated |-> 0, archived |-> -1]
Resting == [at |-> "idle"]
Exists(s) == row[s].status # "none"
Archived(s) == row[s].archived >= 0
Children(s) == {k \in Kids : Parent[k] = s}

RetentionInit ==
    /\ row = [s \in All |-> NoRow] /\ active = {}
    /\ log = [s \in All |-> <<>>] /\ wm = [s \in All |-> 0]
    /\ arc = [s \in All |-> <<>>]
    /\ extract = Resting /\ keeper = Resting /\ now = 0
    /\ quota = [starts |-> MaxStarts, passes |-> MaxPasses, ticks |-> MaxTicks]
    /\ resumed = {}

TimePasses ==
    /\ quota.ticks > 0
    /\ quota' = [quota EXCEPT !.ticks = @ - 1] /\ now' = now + 1
    /\ UNCHANGED <<row, active, log, wm, arc, extract, keeper, resumed>>

-----------------------------------------------------------------------------
(* Sessions                                                                 *)

(* A turn begins, on a new session, a finished one or an archived one: its  *)
(* row stays archived.  A worker is started by its parent's turn.           *)
Start(s) ==
    /\ s \notin active /\ quota.starts > 0
    /\ s \in Kids => Parent[s] \in active /\ ~Exists(s)
    /\ quota' = [quota EXCEPT !.starts = @ - 1]
    /\ row' = [row EXCEPT ![s].status = "running", ![s].updated = now]
    /\ active' = active \cup {s}
    /\ resumed' = IF keeper.at \notin {"idle", "workers"} \/ Archived(s) THEN resumed \cup {s} ELSE resumed
    /\ UNCHANGED <<log, wm, arc, extract, keeper, now>>

(* A turn writes events, and ends with its verdict; its workers end first.  *)
Work(s) ==
    /\ s \in active /\ Exists(s) /\ Len(log[s]) < MaxLog - 1
    /\ log' = [log EXCEPT ![s] = Append(@, "work")]
    /\ row' = [row EXCEPT ![s].updated = now]
    /\ UNCHANGED <<active, wm, arc, extract, keeper, now, quota, resumed>>

Finish(s, verdict) ==
    /\ s \in active /\ Children(s) \cap active = {} /\ Len(log[s]) < MaxLog
    /\ active' = active \ {s}
    /\ IF Exists(s)
       THEN /\ row' = [row EXCEPT ![s].status = verdict, ![s].updated = now]
            /\ log' = [log EXCEPT ![s] = Append(@, verdict)]
       ELSE UNCHANGED <<row, log>>
    /\ UNCHANGED <<wm, arc, extract, keeper, now, quota, resumed>>

-----------------------------------------------------------------------------
(* Memory extraction                                                        *)

(* Event n is a passing terminal event beyond watermark w.                  *)
Due(s, w, n) == n \in (w + 1)..Len(log[s]) /\ log[s][n] = "pass"

(* Extraction reads up to the last one, from the watermark, or from the     *)
(* first event when a person asks for it.                                   *)
ExtractBegins(s) ==
    /\ extract.at = "idle" /\ s \in Tops
    /\ \E w \in {0, wm[s]}, n \in DOMAIN log[s] :
          /\ Due(s, w, n) /\ \A m \in DOMAIN log[s] : Due(s, w, m) => m <= n
          /\ extract' = [at |-> "model", sid |-> s, upto |-> n]
    /\ UNCHANGED <<row, active, log, wm, arc, keeper, now, quota, resumed>>

(* The watermark only rises.  A temporary workspace or the gate also        *)
(* advances it; a model or store that fails leaves it for the next try.     *)
ExtractEnds ==
    /\ extract.at = "model"
    /\ \/ wm' = [wm EXCEPT ![extract.sid] =
                    IF Exists(extract.sid) /\ extract.upto > @ THEN extract.upto ELSE @]
       \/ UNCHANGED wm
    /\ extract' = Resting
    /\ UNCHANGED <<row, active, log, arc, keeper, now, quota, resumed>>

memoryPending(s) == \E n \in DOMAIN log[s] : Due(s, wm[s], n)

-----------------------------------------------------------------------------
(* MaintainStorage                                                          *)

Keeper(state) == keeper' = state

sessionFinished(s) == row[s].status \notin {"running", "input_required"} /\ s \notin active

PassBegins ==
    /\ keeper.at = "idle" /\ quota.passes > 0
    /\ quota' = [quota EXCEPT !.passes = @ - 1]
    /\ Keeper([at |-> "workers", time |-> now,
               gone |-> {k \in Kids : Exists(k) /\ sessionFinished(k)
                                         /\ now - row[k].updated > WorkerAfter}])
    /\ UNCHANGED <<row, active, log, wm, arc, extract, now, resumed>>

(* DeleteSession removes the row and everything recorded for it.            *)
DeleteSession(s) ==
    /\ row' = [row EXCEPT ![s] = NoRow]
    /\ log' = [log EXCEPT ![s] = <<>>] /\ wm' = [wm EXCEPT ![s] = 0]
    /\ arc' = [arc EXCEPT ![s] = <<>>]

(* Expired workers go first, whoever their parent is.                       *)
DeleteWorker ==
    /\ keeper.at = "workers"
    /\ \E k \in keeper.gone :
          /\ DeleteSession(k)
          /\ Keeper([keeper EXCEPT !.gone = @ \ {k}])
    /\ UNCHANGED <<active, extract, now, quota, resumed>>

(* The candidates: a top-level session may be touched when it and its       *)
(* workers are finished and, if it is not archived yet, extraction has      *)
(* nothing left to read.  They are taken oldest first.                      *)
MayTouch(s) ==
    /\ sessionFinished(s)
    /\ \A k \in Children(s) : Exists(k) => sessionFinished(k)
    /\ ~Archived(s) => ~memoryPending(s)

Listing == [ok |-> {s \in Tops : Exists(s) /\ MayTouch(s)},
            kids |-> {k \in Kids : Exists(k)},
            rows |-> [s \in Tops |-> row[s]]]

StillResumed == {s \in resumed : Archived(s)}

Candidates(phase) == [at |-> phase, time |-> keeper.time, list |-> Listing,
                      todo |-> {s \in Tops : Exists(s)}]

PassLists ==
    /\ keeper.at = "workers" /\ keeper.gone = {}
    /\ Keeper(Candidates("age")) /\ resumed' = StillResumed
    /\ UNCHANGED <<row, active, log, wm, arc, extract, now, quota>>

Oldest == {s \in keeper.todo :
              \A t \in keeper.todo : keeper.list.rows[s].updated <= keeper.list.rows[t].updated}

OldEnough(s) ==
    IF keeper.list.rows[s].archived < 0
    THEN keeper.time - keeper.list.rows[s].updated > ArchiveAfter
    ELSE keeper.time - keeper.list.rows[s].archived > DeleteAfter

(* By age, a session is archived or deleted on what the listing said.  Over *)
(* budget, age does not count; the archived ones are deleted afterwards.    *)
Back == [at |-> keeper.at, time |-> keeper.time, list |-> keeper.list, todo |-> keeper.todo]

Judge(s) ==
    LET next == [Back EXCEPT !.todo = @ \ {s}]
        new == keeper.list.rows[s].archived < 0
        act == s \in keeper.list.ok
    IN  /\ keeper.at \in {"age", "size", "trim"} /\ s \in Oldest
        /\ IF act /\ new /\ keeper.at # "trim" /\ (keeper.at = "size" \/ OldEnough(s))
           THEN Keeper([at |-> "read", sid |-> s, then |-> next])
           ELSE IF act /\ \/ keeper.at = "age" /\ ~new /\ OldEnough(s)
                          \/ keeper.at = "trim" /\ Archived(s)
           THEN Keeper([at |-> "remove", sid |-> s, then |-> next,
                    kids |-> keeper.list.kids \cap Children(s)])
           ELSE Keeper(next)
        /\ UNCHANGED <<row, active, log, wm, arc, extract, now, quota, resumed>>

(* ArchiveSession reads the session, outside a transaction ...              *)
ArchiveReads ==
    /\ keeper.at = "read"
    /\ IF Archived(keeper.sid) \/ ~Exists(keeper.sid) THEN Keeper(keeper.then)
       ELSE Keeper([at |-> "write", sid |-> keeper.sid, then |-> keeper.then,
                events |-> log[keeper.sid]])
    /\ UNCHANGED <<row, active, log, wm, arc, extract, now, quota, resumed>>

(* ... and replaces it in one, unless events were added meanwhile.          *)
\* Mutant: the transaction does not look at the events again.
AlwaysUnchanged(s, events) == TRUE

Unchanged(s, events) == Len(log[s]) = Len(events)

ArchiveWrites ==
    LET s == keeper.sid
    IN  /\ keeper.at = "write"
        /\ IF Exists(s) /\ Unchanged(s, keeper.events)
           THEN /\ arc' = [arc EXCEPT ![s] = keeper.events]
                /\ log' = [log EXCEPT ![s] = <<>>] /\ wm' = [wm EXCEPT ![s] = 0]
                /\ row' = [row EXCEPT ![s].archived = now]
           ELSE UNCHANGED <<arc, log, wm, row>>
        /\ Keeper(keeper.then)
        /\ UNCHANGED <<active, extract, now, quota, resumed>>

(* A removal deletes the workers the listing named and then the session.    *)
(* A store call that fails ends it.                                         *)
RemoveNext == IF keeper.kids # {} THEN keeper.kids ELSE {keeper.sid}

Remove ==
    /\ keeper.at = "remove"
    /\ \E s \in RemoveNext :
          /\ DeleteSession(s)
          /\ Keeper(IF s = keeper.sid THEN keeper.then ELSE [keeper EXCEPT !.kids = @ \ {s}])
    /\ UNCHANGED <<active, extract, now, quota, resumed>>

RemoveFails ==
    /\ keeper.at = "remove"
    /\ Keeper(keeper.then)
    /\ UNCHANGED <<row, active, log, wm, arc, extract, now, quota, resumed>>

(* The age pass is over; above the budget the sessions are listed again and *)
(* archived, and then deleted, until usage falls below the high-water mark. *)
AgeDone ==
    /\ keeper.at = "age" /\ keeper.todo = {}
    /\ \/ Keeper(Resting) /\ UNCHANGED resumed
       \/ Keeper(Candidates("size")) /\ resumed' = StillResumed
    /\ UNCHANGED <<row, active, log, wm, arc, extract, now, quota>>

SizeDone ==
    /\ keeper.at = "size"
    /\ Keeper(Resting) \/ (keeper.todo = {} /\ Keeper([keeper EXCEPT !.at = "trim",
                                            !.todo = {s \in Tops : keeper.list.rows[s].status # "none"}]))
    /\ UNCHANGED <<row, active, log, wm, arc, extract, now, quota, resumed>>

TrimDone ==
    /\ keeper.at = "trim"
    /\ Keeper(Resting)
    /\ UNCHANGED <<row, active, log, wm, arc, extract, now, quota, resumed>>

-----------------------------------------------------------------------------
RetentionNext ==
    \/ TimePasses
    \/ \E s \in All : Start(s) \/ Work(s)
    \/ \E s \in All, v \in {"pass", "fail", "input_required"} : Finish(s, v)
    \/ \E s \in All : ExtractBegins(s)
    \/ ExtractEnds
    \/ PassBegins \/ DeleteWorker \/ PassLists
    \/ \E s \in Tops : Judge(s)
    \/ ArchiveReads \/ ArchiveWrites \/ Remove \/ RemoveFails
    \/ AgeDone \/ SizeDone \/ TrimDone

RetentionSpec == RetentionInit /\ [][RetentionNext]_retentionVars

-----------------------------------------------------------------------------
(* Properties                                                               *)

(* A session that is gone left nothing behind, and every row is in range.   *)
RowsConsistent ==
    /\ \A s \in All : /\ row[s].status \in {"none", "running", "pass", "fail", "input_required"}
                      /\ wm[s] \in 0..MaxLog /\ Len(log[s]) <= MaxLog
                      /\ ~Exists(s) => log[s] = <<>> /\ ~Archived(s)
    /\ active \subseteq All

(* Archiving loses nothing: the events it deletes are the ones its archive  *)
(* holds, though it read them in an earlier step.                           *)
ArchiveLosesNothing ==
    \A s \in All : log[s] # <<>> /\ log'[s] = <<>> /\ row'[s].archived >= 0 => arc'[s] = log[s]

Cleared(s) == log[s] # <<>> /\ log'[s] = <<>>

(* A session is archived or deleted only after extraction has read every    *)
(* run that passed; the exception is one that started again after the pass  *)
(* listed it, or after it was archived.                                     *)
ExtractedFirst ==
    \A s \in Tops : Cleared(s) => s \in resumed \/ ~memoryPending(s)

(* A session that is running, or waits for a person's answer, is left       *)
(* alone, and so is one with such a worker, with the same exception.        *)
Busy(s) == Exists(s) /\ (s \in active \/ row[s].status \in {"running", "input_required"})
BusyIsSpared ==
    \A s \in All : Cleared(s) /\ (Busy(s) \/ \E k \in Children(s) : Busy(k)) =>
       s \in resumed

(* Deleting a session leaves no worker behind that no parent names: a       *)
(* removal that fails half way leaves the parent.                           *)
NoOrphans ==
    \A s \in Tops : Exists(s) /\ row'[s] = NoRow =>
       s \in resumed \/ \A k \in Children(s) : ~Exists(k)

(* What no step does: leave anything of a session that is gone, archive     *)
(* events it did not read, remove a session extraction has not read or one  *)
(* at work, or leave a worker without its parent.                           *)
RetentionSteps ==
    [][RowsConsistent' /\ ArchiveLosesNothing /\ ExtractedFirst /\ BusyIsSpared /\ NoOrphans]_retentionVars
=============================================================================
