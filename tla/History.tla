------------------------------ MODULE History -------------------------------
(* One session's conversation as the store keeps it: the live messages, the *)
(* session row with its durable summary, the todo plan with its ledger, and *)
(* the checkpoints.  Two actors change it.  The turn answers a request step *)
(* by step, clears old tool results, compacts when the context is full and  *)
(* acknowledges the report when it passes.  A client compacts, checkpoints, *)
(* restores or forks the session; each of these looks once whether a turn   *)
(* is active and then works on, one store call at a time, without keeping   *)
(* one from starting.  A worker's handoff is added to an idle session.      *)
(*                                                                          *)
(* A message is its id and role; a summary is the set of ids it stands for  *)
(* and the anchor it names.                                                 *)
EXTENDS Ledger

CONSTANTS
    Plans,          \* todo plans the agent may submit
    KeepTurns,      \* turnsToKeep of compactionKeepIndex
    MaxTail,        \* messages that fit the size bound of the kept tail
    RecentTurns,    \* assistant turns whose tool results are never cleared
    Scenarios       \* where the session starts and bounds on what happens to it:
                    \* roles of its messages; messages, client operations, plans
                    \* and compactions still to come

Roles == {"user", "harness", "assistant", "tool"}

ASSUME HistoryAssumption ==
    /\ Plans \subseteq Seq(Todo)
    /\ {KeepTurns, MaxTail, RecentTurns} \subseteq Nat
    /\ Scenarios \subseteq [start: Seq(Roles), msgs: Nat, ops: Nat, plans: Nat, compactions: Nat]

VARIABLES
    msgs,      \* messages of the session, in row order
    row,       \* sessions row: status, durable summary (covered ids, anchor)
    todos,     \* the live plan
    items,     \* work_items, in creation order
    cont,      \* continuation row
    cps,       \* checkpoints
    fork,      \* the session a fork made, or NoFork
    turn,      \* the turn: where it is, the row it read, the messages it masks
    ops,       \* the operation each actor is in
    used,      \* messages and items issued
    left,      \* what the scenario's bounds still allow
    ghost      \* messages issued during a client operation, rewound by a
               \* restore, and whether a client operation was disturbed

store == <<msgs, row, todos, items, cont>>
vars == <<msgs, row, todos, items, cont, cps, fork, turn, ops, used, left, ghost>>

Message == [id: Nat, role: Roles, cleared: BOOLEAN]
SessionStatuses == {"running", "pass", "fail", "interrupted"}
NoFork == [made |-> FALSE]
NoOp == [at |-> "none"]
Actors == {"turn", "client"}

Ids(ms) == {ms[i].id : i \in DOMAIN ms}
Issued == 1 .. used.msgs
Numbered(roles, n) ==
    [k \in DOMAIN roles |-> [id |-> n + k, role |-> roles[k], cleared |-> FALSE]]

Init ==
    /\ \E s \in Scenarios :
          /\ msgs = Numbered(s.start, 0)
          /\ used = [msgs |-> Len(s.start), items |-> 0]
          /\ row = [status |-> IF s.start = <<>> THEN "interrupted" ELSE "pass",
                    covered |-> {}, anchor |-> NoAnchor]
          /\ left = [msgs |-> s.msgs, ops |-> s.ops, plans |-> s.plans, compactions |-> s.compactions]
    /\ todos = <<>> /\ items = <<>> /\ cont = NoContinuation
    /\ cps = {} /\ fork = NoFork
    /\ turn = [at |-> "idle"]
    /\ ops = [a \in Actors |-> NoOp]
    /\ ghost = [raced |-> {}, rewound |-> {}, disturbed |-> FALSE]

-----------------------------------------------------------------------------
(* Writing messages                                                         *)

ClientBusy == ops["client"] # NoOp

(* AddMessage.  A message written while a client operation is under way is  *)
(* remembered as raced.                                                     *)
AddMessage(role) ==
    /\ left.msgs > 0
    /\ msgs' = msgs \o Numbered(<<role>>, used.msgs)
    /\ ghost' = IF ClientBusy
                THEN [ghost EXCEPT !.raced = @ \cup {used.msgs + 1}, !.disturbed = TRUE]
                ELSE ghost

(* The bookkeeping of one message written.                                  *)
OneIssued == used' = [used EXCEPT !.msgs = @ + 1] /\ left' = [left EXCEPT !.msgs = @ - 1]

(* deliverHandoff: a worker's handoff to a session without a run.           *)
Handoff ==
    /\ turn.at = "idle"
    /\ AddMessage("harness")
    /\ OneIssued
    /\ UNCHANGED <<row, todos, items, cont, cps, fork, turn, ops>>

-----------------------------------------------------------------------------
(* The turn                                                                 *)

(* AcceptMessage and the status "running", under the engine's lock.  The    *)
(* previous status is kept for the run's first step.                        *)
Accept ==
    /\ turn.at = "idle"
    /\ AddMessage("user")
    /\ OneIssued
    /\ row' = [row EXCEPT !.status = "running"]
    /\ turn' = [at |-> "boundary", prev |-> row.status]
    /\ UNCHANGED <<todos, items, cont, cps, fork, ops>>

SetTodos(plan) ==
    LET s == SyncWorkItems(plan, items, cont.report, used.msgs + 1, used.items + 1)
    IN  /\ todos' = plan
        /\ items' = s.items
        /\ cont' = s.cont

ItemsAfter(plan) ==
    SyncWorkItems(plan, items, cont.report, used.msgs + 1, used.items + 1).next - 1

EndsWithInstruction == msgs # <<>> /\ Last(msgs).role = "user"

(* The step reads the row it will write back after the model call.  The     *)
(* first step after a passing run clears the plan it left.                  *)
TurnStart ==
    /\ turn.at = "boundary"
    /\ turn' = [at |-> "call", row |-> row]
    /\ IF turn.prev = "pass" /\ todos # <<>> /\ EndsWithInstruction
       THEN SetTodos(<<>>) ELSE UNCHANGED <<todos, items, cont>>
    /\ UNCHANGED <<msgs, row, cps, fork, ops, used, left, ghost>>

(* What workers handed off and what a person steered into the run meanwhile *)
(* is written at the boundary.                                              *)
DrainHandoffs ==
    /\ turn.at = "boundary"
    /\ AddMessage("harness")
    /\ OneIssued
    /\ UNCHANGED <<row, todos, items, cont, cps, fork, turn, ops>>

DrainSteers ==
    /\ turn.at = "boundary"
    /\ AddMessage("user")
    /\ OneIssued
    /\ UNCHANGED <<row, todos, items, cont, cps, fork, turn, ops>>

(* The reply: the row as read goes back with the new turn number, then the *)
(* assistant's message is added.                                            *)
TurnReply(next) ==
    /\ turn.at = "call"
    /\ row' = turn.row
    /\ AddMessage("assistant")
    /\ OneIssued
    /\ turn' = [at |-> next]
    /\ UNCHANGED <<todos, items, cont, cps, fork, ops>>

(* The step's tools: a result for the call and, for the todo tool, a plan.  *)
TurnTools ==
    /\ turn.at = "tools"
    /\ AddMessage("tool")
    /\ turn' = [at |-> "mask"]
    /\ \/ OneIssued /\ UNCHANGED <<todos, items, cont>>
       \/ \E plan \in Plans :
             /\ left.plans > 0
             /\ SetTodos(plan)
             /\ used' = [msgs |-> used.msgs + 1, items |-> ItemsAfter(plan)]
             /\ left' = [left EXCEPT !.msgs = @ - 1, !.plans = @ - 1]
    /\ UNCHANGED <<row, cps, fork, ops>>

(* Results old enough to be cleared.                                        *)
Clearable(ms) ==
    {i \in DOMAIN ms :
        /\ ms[i].role = "tool" /\ ~ms[i].cleared
        /\ Cardinality({k \in i .. Len(ms) : ms[k].role = "assistant"}) > RecentTurns}

(* Masking reloads the messages, clears old results in its copy and writes  *)
(* the whole history back.                                                  *)
TurnMaskRead ==
    /\ turn.at = "mask"
    /\ turn' = IF Clearable(msgs) = {} THEN [at |-> "room"]
               ELSE [at |-> "replace",
                     copy |-> [i \in DOMAIN msgs |->
                                 [msgs[i] EXCEPT !.cleared = @ \/ i \in Clearable(msgs)]]]
    /\ UNCHANGED <<msgs, row, todos, items, cont, cps, fork, ops, used, left, ghost>>

ReplaceMessages ==
    /\ turn.at = "replace"
    /\ msgs' = turn.copy
    /\ turn' = [at |-> "room"]
    /\ UNCHANGED <<row, todos, items, cont, cps, fork, ops, used, left, ghost>>

TurnNext ==
    /\ turn.at = "room" /\ ops["turn"] = NoOp
    /\ turn' = [at |-> "boundary", prev |-> "running"]
    /\ UNCHANGED <<store, cps, fork, ops, used, left, ghost>>

(* openTodosGuard: a final answer over an open plan is refused.             *)
OpenTodos(plan) == {i \in DOMAIN plan : plan[i].status \in {"pending", "in_progress"}}

TurnRefused ==
    /\ turn.at = "final" /\ OpenTodos(todos) # {}
    /\ AddMessage("harness")
    /\ OneIssued
    /\ turn' = [at |-> "boundary", prev |-> "running"]
    /\ UNCHANGED <<row, todos, items, cont, cps, fork, ops>>

(* finish: the status is written and a passing run acknowledges the report: *)
(* the ledger's obligation and the summary's anchor are cleared.            *)
AcknowledgeReport ==
    /\ cont' = [cont EXCEPT !.active = NoId, !.report = FALSE]
    /\ row' = [row EXCEPT !.status = "pass", !.anchor = NoAnchor]

TurnPass ==
    /\ turn.at = "final"
    /\ AcknowledgeReport
    /\ turn' = [at |-> "idle"]
    /\ UNCHANGED <<msgs, todos, items, cps, fork, ops, used, left, ghost>>

TurnFail ==
    /\ turn.at \in {"boundary", "call", "final"} /\ ops["turn"] = NoOp
    /\ row' = [row EXCEPT !.status = "fail"]
    /\ turn' = [at |-> "idle"]
    /\ UNCHANGED <<msgs, todos, items, cont, cps, fork, ops, used, left, ghost>>

-----------------------------------------------------------------------------
(* Operations on the history                                                *)

Stay == UNCHANGED <<msgs, row, todos, items, cont, cps, fork>>

Go(a, op) == ops' = [ops EXCEPT ![a] = op]

(* The client's operations look once whether a turn is active.              *)
ClientStarts(kind) ==
    /\ ~ClientBusy /\ turn.at = "idle"
    /\ left.ops > 0
    /\ left' = [left EXCEPT !.ops = @ - 1]
    /\ \/ kind \in {"checkpoint", "fork", "compact"} /\ Go("client", [kind |-> kind, at |-> "begin"])
       \/ kind = "restore"
          /\ \E cp \in cps : Go("client", [kind |-> kind, at |-> "begin", cp |-> cp])
    /\ Stay /\ UNCHANGED <<turn, used, ghost>>

(* The turn compacts on context pressure at the end of a step, or before a  *)
(* call no model has room for.                                              *)
TurnCompacts ==
    /\ turn.at \in {"room", "call"} /\ ops["turn"] = NoOp
    /\ left.compactions > 0
    /\ left' = [left EXCEPT !.compactions = @ - 1]
    /\ Go("turn", [kind |-> "compact", at |-> "begin"])
    /\ turn' = [at |-> IF turn.at = "room" THEN "room" ELSE "recover"]
    /\ Stay /\ UNCHANGED <<used, ghost>>

(* After recoverOversizedHistory the step reads the row again.              *)
TurnRecovered ==
    /\ turn.at = "recover" /\ ops["turn"] = NoOp
    /\ turn' = [at |-> "call", row |-> row]
    /\ UNCHANGED <<store, cps, fork, ops, used, left, ghost>>

(* compactionKeepIndex: how many messages are folded.  The latest message   *)
(* of the person starts the tail when the tail is small enough; otherwise   *)
(* the last KeepTurns assistant turns do.                                   *)
compactionKeepIndex(ms) ==
    LET people == {i \in DOMAIN ms : ms[i].role = "user"}
        latest == IF people = {} THEN 1 ELSE Max(people)
        Replies(i) == Cardinality({k \in i .. Len(ms) : ms[k].role = "assistant"})
        starts == {i \in DOMAIN ms : ms[i].role = "assistant" /\ Replies(i) = KeepTurns}
    IN  IF latest > 1 /\ Len(ms) - latest + 1 <= MaxTail THEN latest - 1
        ELSE IF starts # {} THEN Min(starts) - 1 ELSE Len(ms)

(* compactState reads the messages and the row; with nothing to fold, or    *)
(* nothing to keep, it is over.                                             *)
CompactBegin(a) ==
    /\ ops[a] # NoOp /\ ops[a].at = "begin" /\ ops[a].kind = "compact"
    /\ LET n == compactionKeepIndex(msgs)
       IN  IF n = 0 \/ n = Len(msgs) THEN Go(a, NoOp)
           ELSE Go(a, [kind |-> "compact", at |-> "session", base |-> row,
                       fold |-> Ids(SubSeq(msgs, 1, n)), keep |-> Len(msgs) - n])
    /\ Stay /\ UNCHANGED <<turn, used, left, ghost>>

(* CreateCheckpoint and ForkSession read session and messages, then the     *)
(* plan, the items and the continuation, a query each.                      *)
With(op, at, part) == part @@ [op EXCEPT !.at = at]

ReadSession(a) ==
    /\ ops[a] # NoOp
    /\ \/ ops[a].at = "session"
       \/ ops[a].at = "begin" /\ ops[a].kind # "compact"
    /\ Go(a, With(ops[a], "todos", [snap |-> [row |-> row, msgs |-> msgs]]))
    /\ Stay /\ UNCHANGED <<turn, used, left, ghost>>

ReadTodos(a) ==
    /\ ops[a] # NoOp /\ ops[a].at = "todos"
    /\ Go(a, [ops[a] EXCEPT !.at = "items", !.snap = @ @@ [todos |-> todos]])
    /\ Stay /\ UNCHANGED <<turn, used, left, ghost>>

ReadItems(a) ==
    /\ ops[a] # NoOp /\ ops[a].at = "items"
    /\ Go(a, [ops[a] EXCEPT !.at = "insert", !.snap = @ @@ [items |-> items]])
    /\ Stay /\ UNCHANGED <<turn, used, left, ghost>>

Checkpointed(a) == cps \cup {ops[a].snap @@ [cont |-> cont]}

(* The continuation is read last and the checkpoint is inserted.            *)
InsertCheckpoint(a) ==
    /\ ops[a] # NoOp /\ ops[a].at = "insert" /\ ops[a].kind # "fork"
    /\ cps' = Checkpointed(a)
    /\ CASE ops[a].kind = "checkpoint" -> Go(a, NoOp)
         [] ops[a].kind = "restore"    -> Go(a, [kind |-> "restore", at |-> "restore", cp |-> ops[a].cp])
         [] ops[a].kind = "compact"    -> Go(a, [kind |-> "compact", at |-> "summarise",
                                                 base |-> ops[a].base, fold |-> ops[a].fold,
                                                 keep |-> ops[a].keep])
    /\ UNCHANGED <<msgs, row, todos, items, cont, fork, turn, used, left, ghost>>

ForkItemId(its, j) == used.items + j

(* ForkSession's transaction: a new session with the messages, the plan and *)
(* renumbered items; an active item that is not among them is dropped.      *)
ForkSession ==
    LET op == ops["client"]
        its == op.snap.items
        Renamed(j) == ForkItemId(its, j)
        at == {j \in DOMAIN its : its[j].id = cont.active}
    IN  /\ op # NoOp /\ op.at = "insert" /\ op.kind = "fork"
        /\ fork' = [made |-> TRUE, msgs |-> Ids(op.snap.msgs), todos |-> op.snap.todos,
                    items |-> [j \in DOMAIN its |-> [its[j] EXCEPT !.id = Renamed(j)]],
                    cont |-> [cont EXCEPT !.active = IF at = {} THEN NoId ELSE Renamed(Min(at))]]
        /\ used' = [used EXCEPT !.items = @ + Len(its)]
        /\ Go("client", NoOp)
        /\ UNCHANGED <<msgs, row, todos, items, cont, cps, turn, left, ghost>>

(* The ledger is read for the anchor and the folded messages are summed up  *)
(* by a model, or by the structured fallback.  The prior summary is part of *)
(* what is summed up.                                                       *)
Summarise(a) ==
    /\ ops[a] # NoOp /\ ops[a].at = "summarise"
    /\ Go(a, [ops[a] EXCEPT !.at = "apply",
                 !.base = [@ EXCEPT !.covered = @ \cup ops[a].fold,
                                    !.anchor = selectDurableAnchor(todos, cont, items)]])
    /\ Stay /\ UNCHANGED <<turn, used, left, ghost>>

\* Mutant: one row too many is deleted.
RetainedButOne(keep) == SubSeq(msgs, Max({1, Len(msgs) - keep + 2}), Len(msgs))

Retained(keep) == SubSeq(msgs, Max({1, Len(msgs) - keep + 1}), Len(msgs))

(* ApplyCompaction: the row as it was read, with the new summary, and the   *)
(* last rows of the messages as they are now.                               *)
ApplyCompaction(a) ==
    /\ ops[a] # NoOp /\ ops[a].at = "apply"
    /\ row' = ops[a].base
    /\ msgs' = Retained(ops[a].keep)
    /\ Go(a, NoOp)
    /\ UNCHANGED <<todos, items, cont, cps, fork, turn, used, left, ghost>>

RestoredStatus == "interrupted"

(* RestoreCheckpoint's transaction: messages, plan, ledger and summary of   *)
(* the snapshot, with the status "interrupted".                             *)
RestoreCheckpoint ==
    LET cp == ops["client"].cp
    IN  /\ ClientBusy /\ ops["client"].at = "restore"
        /\ msgs' = cp.msgs /\ todos' = cp.todos /\ items' = cp.items /\ cont' = cp.cont
        /\ row' = [cp.row EXCEPT !.status = RestoredStatus]
        /\ ghost' = [ghost EXCEPT !.rewound = Issued \ (Ids(cp.msgs) \cup cp.row.covered)]
        /\ Go("client", NoOp)
        /\ UNCHANGED <<cps, fork, turn, used, left>>

(* A store call or the anchor's validation fails: the operation returns its *)
(* error and goes no further.  Before its checkpoint is written that is the *)
(* same as never having started.                                            *)
OpFails(a) ==
    /\ ops[a] # NoOp /\ ops[a].at \in {"summarise", "apply", "restore"}
    /\ Go(a, NoOp)
    /\ Stay /\ UNCHANGED <<turn, used, left, ghost>>

OpStep(a) ==
    \/ CompactBegin(a) \/ ReadSession(a) \/ ReadTodos(a) \/ ReadItems(a)
    \/ InsertCheckpoint(a) \/ Summarise(a) \/ ApplyCompaction(a) \/ OpFails(a)

Next ==
    \/ Accept \/ Handoff \/ DrainHandoffs \/ DrainSteers \/ TurnStart
    \/ TurnReply("tools") \/ TurnReply("final") \/ TurnTools
    \/ TurnMaskRead \/ ReplaceMessages \/ TurnNext \/ TurnRefused \/ TurnPass \/ TurnFail
    \/ TurnCompacts \/ TurnRecovered
    \/ \E kind \in {"checkpoint", "fork", "compact", "restore"} : ClientStarts(kind)
    \/ \E a \in Actors : OpStep(a)
    \/ ForkSession \/ RestoreCheckpoint

Spec == Init /\ [][Next]_vars

-----------------------------------------------------------------------------
(* Properties                                                               *)

CompletedIds(its) == {its[j].id : j \in {k \in DOMAIN its : Completed(its[k])}}
Plan(s) == [todos |-> s.todos, items |-> s.items, cont |-> s.cont]
Snapshots == {Plan(cp) : cp \in cps} \cup IF fork.made THEN {Plan(fork)} ELSE {}

(* Every variable keeps the shape of the rows it stands for.                *)
TypeOK ==
    /\ msgs \in Seq(Message) /\ todos \in Seq(Todo) /\ items \in Seq(WorkItem)
    /\ cont \in Continuation
    /\ row \in [status: SessionStatuses, covered: SUBSET Issued, anchor: Anchor]
    /\ \A cp \in cps : cp.msgs \in Seq(Message) /\ cp.items \in Seq(WorkItem)
    /\ DOMAIN ops = Actors

(* Nothing said is lost for good: whatever compaction, masking and restore  *)
(* do, and however they interleave with a turn, a message is in the live    *)
(* history, in the durable summary or in a checkpoint.  The exception is a  *)
(* message written while a client operation was under way.                  *)
Recoverable ==
    Issued \ ghost.raced \subseteq
        Ids(msgs) \cup row.covered \cup UNION {Ids(cp.msgs) \cup cp.row.covered : cp \in cps}

(* Compaction never leaves a session half-compacted: a message that no      *)
(* restore rewound is either live or covered by the summary the next call   *)
(* is given.  It holds as long as no client operation was overtaken.        *)
NeverHalfCompacted ==
    ~ghost.disturbed => Issued \ ghost.rewound \subseteq Ids(msgs) \cup row.covered

(* A tool result is never separated from the call it answers: trimming to   *)
(* the retained tail, restoring and masking keep results behind a reply.    *)
ResultsFollowCalls ==
    ~ghost.disturbed =>
        \A i \in DOMAIN msgs : msgs[i].role = "tool" => i > 1 /\ msgs[i - 1].role = "assistant"

(* The ledger follows the plan: its live items are the plan's unfinished    *)
(* todos, one for one at the same position, its active item is one of them, *)
(* and no id is used twice, through restores and forks.                     *)
LedgerFollows(plan, its, c) ==
    LET open == {i \in DOMAIN plan : plan[i].task # Blank /\ ~Completed(plan[i])}
        live == {j \in DOMAIN its : ~Completed(its[j])}
    IN  /\ {<<its[j].task, its[j].status, its[j].pos>> : j \in live}
               = {<<plan[i].task, plan[i].status, i>> : i \in open}
        /\ Cardinality(live) = Cardinality(open)
        /\ Cardinality(ItemIds(its)) = Len(its)
        /\ c.active # NoId =>
               \E j \in live : its[j].id = c.active /\ its[j].status \in {"pending", "in_progress"}

LedgerMatchesPlan ==
    ~ghost.disturbed => /\ LedgerFollows(todos, items, cont)
                        /\ \A s \in Snapshots : LedgerFollows(s.todos, s.items, s.cont)

(* A delivered report stays delivered: after a run passed, no compaction    *)
(* and no second reading of the plan asserts its work again.                *)
AcknowledgedStaysClosed ==
    ~ghost.disturbed /\ turn.at = "idle" /\ row.status = "pass" =>
        row.anchor = NoAnchor /\ ~cont.report /\ cont.active = NoId

(* The obligation to report comes back only with new work: an active item   *)
(* or an item completed for the first time, never by submitting completed   *)
(* todos again.                                                             *)
ReportNeedsWork ==
    \/ cont.report \/ ~cont'.report \/ RestoreCheckpoint
    \/ cont'.active # NoId
    \/ ~(CompletedIds(items') \subseteq CompletedIds(items))

(* Completed work is never lost from the ledger: whatever plan replaces the *)
(* one it was in, a completed item stays completed until a restore.         *)
CompletedStays ==
    RestoreCheckpoint \/ CompletedIds(items) \subseteq CompletedIds(items')

(* A fork stands on its own: its items share no id with the session it was  *)
(* made from, and its active item is one of its own, even when the session  *)
(* changed between the fork's reads.                                        *)
ForkStandsAlone ==
    fork.made => /\ ItemIds(fork.items) \cap ItemIds(items) = {}
                 /\ fork.cont.active \in ItemIds(fork.items) \cup {NoId}

(* The state of a session's history is sound at every moment: messages are  *)
(* live, summarised or in a checkpoint, results stand behind their calls,   *)
(* the ledger is the plan's, a report once delivered is not owed again, and *)
(* a fork shares nothing with the session it was made from.                 *)
HistoryInv ==
    /\ TypeOK
    /\ Recoverable /\ NeverHalfCompacted /\ ResultsFollowCalls
    /\ LedgerMatchesPlan /\ AcknowledgedStaysClosed /\ ForkStandsAlone

(* What no step does to the ledger: lose completed work, or owe a report    *)
(* for work reported already (SyncWorkItems, AcknowledgeReport).            *)
LedgerSteps == [][CompletedStays /\ ReportNeedsWork]_vars
=============================================================================
