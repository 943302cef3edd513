------------------------------- MODULE Ledger -------------------------------
(* The work-item ledger: how a session's work items and its continuation    *)
(* row follow the todo plan (storage/rules.go, SyncWorkItems), and the      *)
(* anchor a compaction takes from them (internal/core/compaction.go).       *)
(*                                                                          *)
(* A task stands for a todo's normalised text and phase, the key items are  *)
(* matched by.  Items are kept in the order they were created, as the rows  *)
(* of work_items are.                                                       *)
EXTENDS Integers, Sequences, FiniteSets, FiniteSetsExt, SequencesExt

CONSTANTS
    Tasks,    \* the keys a todo can have: text and phase
    Blank     \* a todo whose text is empty

ASSUME TasksAssumption == Blank \notin Tasks

NoId == 0
Statuses == {"pending", "in_progress", "completed", "dropped"}
Todo == [task: Tasks \cup {Blank}, status: Statuses]
WorkItem == [id: Nat, task: Tasks, status: Statuses, pos: Nat, done: Nat]
Continuation == [exists: BOOLEAN, active: Nat, report: BOOLEAN]
NoContinuation == [exists |-> FALSE, active |-> NoId, report |-> FALSE]

Completed(x) == x.status = "completed"
ItemIds(items) == {items[j].id : j \in DOMAIN items}

-----------------------------------------------------------------------------
(* SyncWorkItems                                                            *)

(* The rows not yet matched in this pass that carry the task.               *)
Unmatched(acc, rows, task, done) ==
    {j \in DOMAIN rows : /\ rows[j].id \notin acc.used
                         /\ rows[j].task = task
                         /\ Completed(rows[j]) = done}

FirstOf(preferred, otherwise) ==
    IF preferred # {} THEN Min(preferred)
    ELSE IF otherwise # {} THEN Min(otherwise) ELSE NoId

\* Mutant: a todo takes any row of its task.
AnyRow(acc, rows, todo, i) ==
    FirstOf(Unmatched(acc, rows, todo.task, FALSE), Unmatched(acc, rows, todo.task, TRUE))

(* The row a todo is matched with.  A completed todo first takes a live row *)
(* the plan no longer has room for (its work was just completed), then a    *)
(* completed row, the one at its own position first.  Any other todo takes  *)
(* a live row, never a completed one.                                       *)
MatchedRow(acc, rows, todo, i) ==
    LET live == Unmatched(acc, rows, todo.task, FALSE)
        done == Unmatched(acc, rows, todo.task, TRUE)
        Here(S) == {j \in S : rows[j].pos = i}
    IN  IF Completed(todo)
        THEN IF Cardinality(live) > acc.left[todo.task]
             THEN Min(live)
             ELSE FirstOf(Here(done), done)
        ELSE FirstOf(Here(live), live)

(* Only a new completion owes a report, or one whose report was still owed. *)
OwesReport(todo, old, owed) == Completed(todo) /\ (~Completed(old) \/ owed)

(* One todo of the plan: its item is updated in place or created, and it    *)
(* may become the active item or owe a report.                              *)
SyncTodo(acc, rows, todo, i, owed, now) ==
    LET j == MatchedRow(acc, rows, todo, i)
        old == IF j = NoId THEN [id |-> acc.next, status |-> "new", done |-> 0]
               ELSE rows[j]
        item == [id |-> old.id, task |-> todo.task, status |-> todo.status, pos |-> i,
                 done |-> IF ~Completed(todo) THEN 0
                          ELSE IF Completed(old) THEN old.done ELSE now]
    IN  IF todo.task = Blank THEN acc
        ELSE [used   |-> acc.used \cup {item.id},
              items  |-> [acc.items EXCEPT ![i] = item],
              next   |-> IF j = NoId THEN acc.next + 1 ELSE acc.next,
              left   |-> IF Completed(todo) THEN acc.left
                         ELSE [acc.left EXCEPT ![todo.task] = @ - 1],
              active |-> IF todo.status = "in_progress" /\ acc.active = NoId
                         THEN item.id ELSE acc.active,
              owes   |-> acc.owes \/ OwesReport(todo, old, owed)]

StaysInLedger(row, consumed) == row.id \in consumed \/ Completed(row)

(* The ledger for a new plan: the items in creation order, the active item  *)
(* and whether a final report is owed.  Completed items that left the plan  *)
(* stay; live ones are dropped.                                             *)
SyncWorkItems(plan, rows, owed, now, fresh) ==
    LET Room(t) == Cardinality({i \in DOMAIN plan : plan[i].task = t /\ ~Completed(plan[i])})
        none == [i \in DOMAIN plan |-> [id |-> NoId]]
        acc == FoldLeftDomain(LAMBDA a, i : SyncTodo(a, rows, plan[i], i, owed, now),
                              [used |-> {}, items |-> none, next |-> fresh, active |-> NoId,
                               left |-> [t \in Tasks |-> Room(t)], owes |-> FALSE],
                              plan)
        Updated(row) == IF \E i \in DOMAIN plan : acc.items[i].id = row.id
                        THEN acc.items[CHOOSE i \in DOMAIN plan : acc.items[i].id = row.id]
                        ELSE row
        kept == SelectSeq(rows, LAMBDA r : StaysInLedger(r, acc.used))
        retained == \E j \in DOMAIN rows : rows[j].id \notin acc.used /\ Completed(rows[j])
        pending == {i \in DOMAIN plan : plan[i].status = "pending" /\ plan[i].task # Blank}
        active == IF acc.active # NoId THEN acc.active
                  ELSE IF pending # {} THEN acc.items[Min(pending)].id ELSE NoId
    IN  [items  |-> [j \in DOMAIN kept |-> Updated(kept[j])]
                    \o SelectSeq(acc.items, LAMBDA it : it.id # NoId /\ it.id \notin ItemIds(rows)),
         next   |-> acc.next,
         cont   |-> [exists |-> TRUE, active |-> active,
                     report |-> acc.owes \/ (retained /\ owed) \/ active # NoId]]

-----------------------------------------------------------------------------
(* The anchor of a compaction                                               *)

Anchor == [source: Statuses \cup {"wrap_up", "session_phase"}, task: Tasks \cup {Blank}]

(* The last completed item: the latest completion, then the later position. *)
LastCompleted(items) ==
    LET done == {j \in DOMAIN items : Completed(items[j])}
        Later(j, k) == \/ items[j].done > items[k].done
                       \/ items[j].done = items[k].done /\ items[j].pos >= items[k].pos
    IN  IF done = {} THEN Blank
        ELSE items[CHOOSE j \in done : \A k \in done : Later(j, k)].task

(* Without a ledger row the anchor comes from the todo plan.                *)
TodoAnchor(todos) ==
    LET With(st) == {i \in DOMAIN todos : todos[i].status = st /\ todos[i].task # Blank}
    IN  IF With("in_progress") # {}
        THEN [source |-> "in_progress", task |-> todos[Min(With("in_progress"))].task]
        ELSE IF With("pending") # {}
        THEN [source |-> "pending", task |-> todos[Min(With("pending"))].task]
        ELSE IF With("completed") # {}
        THEN [source |-> "wrap_up", task |-> todos[Max(With("completed"))].task]
        ELSE [source |-> IF todos = <<>> THEN "session_phase" ELSE "wrap_up", task |-> Blank]

selectDurableAnchor(todos, cont, items) ==
    IF ~cont.exists THEN TodoAnchor(todos)
    ELSE LET at == {j \in DOMAIN items : cont.active # NoId /\ items[j].id = cont.active}
         IN  IF at # {}
             THEN [source |-> items[Min(at)].status, task |-> items[Min(at)].task]
             ELSE IF cont.report
             THEN [source |-> "wrap_up", task |-> LastCompleted(items)]
             ELSE [source |-> "session_phase", task |-> Blank]

NoAnchor == [source |-> "session_phase", task |-> Blank]
=============================================================================
