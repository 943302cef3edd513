------------------------------ MODULE Workers ------------------------------
(***************************************************************************)
(* One session's runs and the workers its spawn tool starts: the session's *)
(* stored history, the handoffs that carry a background worker's result    *)
(* into it (internal/core/handoff.go), the messages a person steers into a *)
(* run in flight (steer.go), job wait (worker_job.go), and the slices of   *)
(* the session's budget that workers are given (tools.go, spawnWith).      *)
(*                                                                         *)
(* A worker is a session of its own, run by the same loop; here it spends  *)
(* some of its slice and ends.  A model call costs one unit.  Every step   *)
(* is one critical section of e.mu or one statement of the store; a write  *)
(* under the run's context is refused once the context has ended, and the  *)
(* loop ignores the refusal.                                               *)
(***************************************************************************)
EXTENDS Naturals, Sequences, FiniteSets

CONSTANTS
  Workers,      \* worker jobs that may be spawned
  Shared,       \* the workers that edit the shared checkout and run in the tool call
  Messages,     \* what people steer into a run
  Replies,      \* the sequences of tool calls a model may answer with
  Budget,       \* sessions.budget_usd, and the request's max_usd
  Divisors,     \* a worker gets the fraction 1/d of the budget
  MaxRuns, MaxTurns,   \* bounds: the runs of the session, the replies in all
  None                 \* no job

\* The messages of a history; text is a model value, and JSON encoding is left out.
Assistant(ids) == [role |-> "assistant", calls |-> ids]
Tool(id, body) == [role |-> "tool", id |-> id, body |-> body]
User(body) == [role |-> "user", body |-> body]

\* The tools whose calls matter here; "other" is every tool that only has a result.
Call(tool, w) == [tool |-> tool, job |-> w]
ToolCalls == [tool: {"spawn", "wait"}, job: Workers] \cup [tool: {"ask", "other"}, job: {None}]

ASSUME WorkersAssumption ==
  /\ IsFiniteSet(Workers) /\ Shared \subseteq Workers
  /\ Workers \cap Messages = {} /\ None \notin Workers \cup Messages
  /\ Replies \subseteq Seq(ToolCalls)
  /\ Budget \in Nat /\ Divisors \subseteq Nat \ {0}
  /\ MaxRuns \in Nat /\ MaxTurns \in Nat

VARIABLES
  \* the store
  history,      \* messages of the session, oldest first
  spent,        \* sessions.spent_usd
  job,          \* jobs.status
  slice,        \* jobs.budget_json: max_usd
  \* the engine's memory
  running,      \* e.running: runs of the session in flight
  pendingHandoffs, deliveredJobs, steers,
  \* the run
  pc, ctx,
  calls,        \* the calls of the reply still to be served, with their ids
  held,         \* what the run took off a queue and has yet to write
  row,          \* spent_usd as the run last read it
  available,    \* unreserved budget as spawnWith computed it
  got,          \* the worker whose result the tool call returns
  runs, turns,
  \* each worker
  wpc, cost,
  \* what became of a message, for the properties
  steered,      \* the messages Steer accepted, in order
  returned,     \* what Unsteered returned
  refused       \* results and messages whose write an ended context refused

store == <<history, spent, job, slice>>
memory == <<running, pendingHandoffs, deliveredJobs, steers>>
run == <<pc, ctx, calls, held, row, available, got, runs, turns>>
worker == <<wpc, cost>>
record == <<steered, returned, refused>>
vars == <<store, memory, run, worker, record>>

Init ==
  /\ history = <<>> /\ spent = 0
  /\ job = [w \in Workers |-> "absent"] /\ slice = [w \in Workers |-> 0]
  /\ running = 0 /\ pendingHandoffs = <<>> /\ deliveredJobs = {} /\ steers = <<>>
  /\ pc = "idle" /\ ctx = "live" /\ calls = <<>> /\ held = <<>>
  /\ row = 0 /\ available = 0 /\ got = None /\ runs = 0 /\ turns = 0
  /\ wpc = [w \in Workers |-> "none"] /\ cost = [w \in Workers |-> 0]
  /\ steered = <<>> /\ returned = {} /\ refused = {}

-----------------------------------------------------------------------------
\* AddMessage under the run's context, at the step the run then goes to.  A refused
\* write loses what the message carried.
AddMessage(msg, carried, next) ==
  /\ pc' = next
  /\ IF ctx = "live"
       THEN history' = Append(history, msg) /\ UNCHANGED refused
       ELSE refused' = refused \cup (carried \ {None}) /\ UNCHANGED history

\* SELECT SUM(max_usd) over the running jobs, as the number of the units their slices
\* hold; the caller ignores an error.
ReservedJobUSD ==
  IF ctx = "live"
    THEN Cardinality({u \in Workers \X (1..Budget) : job[u[1]] = "running" /\ u[2] <= slice[u[1]]})
    ELSE 0

\* The handoffs of the queue that job wait did not return, in order.
Undelivered(queue) ==
  LET kept[n \in 0..Len(queue)] ==
        IF n = 0 THEN <<>>
        ELSE IF queue[n] \in deliveredJobs THEN kept[n - 1] ELSE Append(kept[n - 1], queue[n])
  IN kept[Len(queue)]

BeginRun ==
  /\ pc = "idle" /\ runs < MaxRuns
  /\ running' = running + 1 /\ runs' = runs + 1
  /\ pc' = "top" /\ ctx' = "live"
  /\ UNCHANGED <<store, pendingHandoffs, deliveredJobs, steers, calls, held, row, available,
                 got, turns, worker, record>>

\* The turn is cancelled or runs out of time.
ContextEnds ==
  /\ pc # "idle" /\ ctx = "live"
  /\ ctx' = "ended"
  /\ UNCHANGED <<store, memory, pc, calls, held, row, available, got, runs, turns, worker, record>>

\* The top of the loop: a run whose context ended stops, else drainHandoffs takes the
\* queue of this turn boundary.
LoopTop ==
  /\ pc = "top"
  /\ IF ctx = "live"
       THEN pc' = "write" /\ held' = Undelivered(pendingHandoffs) /\ pendingHandoffs' = <<>>
       ELSE pc' = "exit" /\ UNCHANGED <<held, pendingHandoffs>>
  /\ UNCHANGED <<store, running, deliveredJobs, steers, ctx, calls, row, available, got, runs,
                 turns, worker, record>>

WriteHandoff ==
  /\ pc = "write"
  /\ IF held = <<>>
       THEN pc' = "steer" /\ UNCHANGED <<history, held, refused>>
       ELSE AddMessage(User(Head(held)), {Head(held)}, "write") /\ held' = Tail(held)
  /\ UNCHANGED <<spent, job, slice, memory, ctx, calls, row, available, got, runs, turns, worker,
                 steered, returned>>

WriteLastHandoff ==
  /\ pc = "lastWrite"
  /\ IF held = <<>>
       THEN pc' = "idle" /\ UNCHANGED <<history, held>>
       ELSE history' = Append(history, User(Head(held))) /\ held' = Tail(held) /\ UNCHANGED pc
  /\ UNCHANGED <<spent, job, slice, memory, ctx, calls, row, available, got, runs, turns, worker,
                 record>>

DrainSteers ==
  /\ pc = "steer"
  /\ held' = steers /\ steers' = <<>> /\ pc' = "writeSteer"
  /\ UNCHANGED <<store, running, pendingHandoffs, deliveredJobs, ctx, calls, row, available, got,
                 runs, turns, worker, record>>

WriteSteer ==
  /\ pc = "writeSteer"
  /\ IF held = <<>>
       THEN pc' = "read" /\ UNCHANGED <<history, held, refused>>
       ELSE AddMessage(User(Head(held)), {Head(held)}, "writeSteer") /\ held' = Tail(held)
  /\ UNCHANGED <<spent, job, slice, memory, ctx, calls, row, available, got, runs, turns, worker,
                 steered, returned>>

ReadSession ==
  /\ pc = "read"
  /\ IF ctx = "live" THEN row' = spent /\ pc' = "budget"
                     ELSE pc' = "exit" /\ UNCHANGED row
  /\ UNCHANGED <<store, memory, ctx, calls, held, available, got, runs, turns, worker, record>>

\* A session out of budget pauses with a question.
CheckBudget ==
  /\ pc = "budget"
  /\ pc' = IF row + ReservedJobUSD >= Budget THEN "exit" ELSE "call"
  /\ UNCHANGED <<store, memory, ctx, calls, held, row, available, got, runs, turns, worker, record>>

\* The provider fails for good, or the context ended: the run ends without a reply.
CallFails ==
  /\ pc = "call"
  /\ pc' = "exit"
  /\ UNCHANGED <<store, memory, ctx, calls, held, row, available, got, runs, turns, worker, record>>

\* A reply to the request made of the history: its calls get the ids of this turn.  A
\* model spawns a job once and waits for jobs it was told of.
CallReplies(reply) ==
  /\ pc = "call" /\ ctx = "live" /\ turns < MaxTurns
  /\ \A k \in DOMAIN reply :
       /\ reply[k].tool = "spawn" => job[reply[k].job] = "absent"
       /\ reply[k].tool = "wait" =>
            \/ job[reply[k].job] # "absent"
            \/ \E i \in 1..(k - 1) : reply[i] = Call("spawn", reply[k].job)
  /\ turns' = turns + 1
  /\ calls' = [k \in DOMAIN reply |-> [id |-> <<turns', k>>, call |-> reply[k]]]
  /\ pc' = "charge"
  /\ UNCHANGED <<store, memory, ctx, held, row, available, got, runs, worker, record>>

\* AddSpend of the call's cost.
ChargeCall ==
  /\ pc = "charge"
  /\ spent' = IF ctx = "live" THEN spent + 1 ELSE spent
  /\ pc' = "reply"
  /\ UNCHANGED <<history, job, slice, memory, ctx, calls, held, row, available, got, runs, turns,
                 worker, record>>

WriteReply ==
  /\ pc = "reply"
  /\ AddMessage(Assistant([k \in DOMAIN calls |-> calls[k].id]), {},
                IF calls = <<>> THEN "complete" ELSE "tools")
  /\ UNCHANGED <<spent, job, slice, memory, ctx, calls, held, row, available, got, runs, turns,
                 worker, steered, returned>>

\* A final answer ends the run, or a gate rejects it with a note and the loop goes on.
Complete ==
  /\ pc = "complete"
  /\ \/ pc' = "exit" /\ UNCHANGED <<history, refused>>
     \/ AddMessage(User(None), {}, "top")
  /\ UNCHANGED <<spent, job, slice, memory, ctx, calls, held, row, available, got, runs, turns,
                 worker, steered, returned>>

-----------------------------------------------------------------------------
\* The calls of a reply are served one after the other.
This == Head(calls).call

ServeCall ==
  /\ pc = "tools"
  /\ pc' = IF calls = <<>> THEN "top"
           ELSE CASE This.tool = "spawn" -> "spawn"
                  [] This.tool = "wait" -> "wait"
                  [] OTHER -> "result"
  /\ got' = None
  /\ UNCHANGED <<store, memory, ctx, calls, held, row, available, runs, turns, worker, record>>

\* The result of the call; after ask the run pauses, whatever calls are left.
WriteResult ==
  /\ pc = "result"
  /\ AddMessage(Tool(Head(calls).id, got), {got}, IF This.tool = "ask" THEN "exit" ELSE "tools")
  /\ calls' = Tail(calls) /\ got' = None
  /\ UNCHANGED <<spent, job, slice, memory, ctx, held, row, available, runs, turns, worker,
                 steered, returned>>

\* spawnWith reads the session row, and an empty one if it cannot.
SpawnRead ==
  /\ pc = "spawn"
  /\ row' = IF ctx = "live" THEN spent ELSE Budget
  /\ pc' = "reserve"
  /\ UNCHANGED <<store, memory, ctx, calls, held, available, got, runs, turns, worker, record>>

SpawnReserve ==
  /\ pc = "reserve"
  /\ available' = IF row + ReservedJobUSD <= Budget THEN Budget - row - ReservedJobUSD ELSE 0
  /\ pc' = IF available' = 0 THEN "result" ELSE "create"
  /\ UNCHANGED <<store, memory, ctx, calls, held, row, got, runs, turns, worker, record>>

\* The fraction 1/d of the session's budget, and at most of what is available.
Share(d) == (IF available <= Budget THEN available ELSE Budget) \div d

\* CreateJob with the slice; a background worker's call returns at once.
SpawnCreate ==
  /\ pc = "create"
  /\ \/ /\ ctx = "live"
        /\ \E d \in Divisors : slice' = [slice EXCEPT ![This.job] = Share(d)]
        /\ job' = [job EXCEPT ![This.job] = "running"]
        /\ wpc' = [wpc EXCEPT ![This.job] = "run"]
        /\ pc' = IF This.job \in Shared THEN "join" ELSE "result"
     \/ pc' = "result" /\ UNCHANGED <<slice, job, wpc>>    \* no route, or the write is refused
  /\ UNCHANGED <<history, spent, memory, ctx, calls, held, row, available, got, runs, turns, cost,
                 record>>

\* A shared-write worker runs inside the call, which returns its result.
SpawnJoin ==
  /\ pc = "join" /\ wpc[This.job] = "done"
  /\ got' = This.job /\ pc' = "result"
  /\ UNCHANGED <<store, memory, ctx, calls, held, row, available, runs, turns, worker, record>>

\* job wait polls the job's status; it gives up when the context ends or after ten
\* minutes, and the job's handoff is then still to come.
WaitDelivered ==
  /\ pc = "wait" /\ ctx = "live" /\ job[This.job] = "finished"
  /\ deliveredJobs' = deliveredJobs \cup {This.job}
  /\ got' = This.job /\ pc' = "result"
  /\ UNCHANGED <<store, running, pendingHandoffs, steers, ctx, calls, held, row, available, runs,
                 turns, worker, record>>

\* Mutant: the job counts as delivered although it was still running.
WaitGivesUpMarking ==
  /\ pc = "wait" /\ (ctx = "ended" \/ job[This.job] # "finished")
  /\ deliveredJobs' = deliveredJobs \cup {This.job} /\ pc' = "result"
  /\ UNCHANGED <<store, running, pendingHandoffs, steers, ctx, calls, held, row, available, got,
                 runs, turns, worker, record>>

WaitGivesUp ==
  /\ pc = "wait" /\ (ctx = "ended" \/ job[This.job] # "finished")
  /\ pc' = "result"
  /\ UNCHANGED <<store, memory, ctx, calls, held, row, available, got, runs, turns, worker, record>>

\* endRun takes the run off the count.
RunsLeft == running - 1

EndRun ==
  /\ pc = "exit"
  /\ running' = RunsLeft
  /\ pc' = "lastDrain"
  /\ calls' = <<>> /\ row' = 0 /\ available' = 0 /\ ctx' = "ended"
  /\ UNCHANGED <<store, pendingHandoffs, deliveredJobs, steers, held, got, runs, turns, worker,
                 record>>

\* After endRun the queue is drained once more, under a context that cannot end.
LastDrain ==
  /\ pc = "lastDrain"
  /\ held' = Undelivered(pendingHandoffs) /\ pendingHandoffs' = <<>>
  /\ pc' = "lastWrite"
  /\ UNCHANGED <<store, running, deliveredJobs, steers, ctx, calls, row, available, got, runs,
                 turns, worker, record>>

-----------------------------------------------------------------------------
\* runJob: the worker spends some of its slice and ends.
RunJob(w) ==
  /\ wpc[w] = "run"
  /\ \E c \in 0..slice[w] : cost' = [cost EXCEPT ![w] = c]
  /\ wpc' = [wpc EXCEPT ![w] = "finish"]
  /\ UNCHANGED <<store, memory, run, record>>

\* finishJob: the job is finished, which gives back its slice, then its cost is charged.
FinishJob(w) ==
  /\ wpc[w] = "finish"
  /\ job' = [job EXCEPT ![w] = "finished"]
  /\ wpc' = [wpc EXCEPT ![w] = "charge"]
  /\ UNCHANGED <<history, spent, slice, memory, run, cost, record>>

ChargeJob(w) ==
  /\ wpc[w] = "charge"
  /\ spent' = spent + cost[w]
  /\ wpc' = [wpc EXCEPT ![w] = IF w \in Shared THEN "done" ELSE "deliver"]
  /\ UNCHANGED <<history, job, slice, memory, run, cost, record>>

\* What deliverHandoff takes for a run in flight.
InFlight == running > 0

\* Mutant: the worker waits for a run that will drain its handoff.
DeliverToRun(w) ==
  /\ wpc[w] = "deliver" /\ InFlight
  /\ pendingHandoffs' = Append(pendingHandoffs, w)
  /\ wpc' = [wpc EXCEPT ![w] = "done"]
  /\ UNCHANGED <<store, running, deliveredJobs, steers, run, cost, record>>

DeliverHandoff(w) ==
  /\ wpc[w] = "deliver"
  /\ IF InFlight
       THEN /\ pendingHandoffs' = Append(pendingHandoffs, w)
            /\ wpc' = [wpc EXCEPT ![w] = "done"]
       ELSE /\ wpc' = [wpc EXCEPT ![w] = IF w \in deliveredJobs THEN "done" ELSE "write"]
            /\ UNCHANGED pendingHandoffs
  /\ UNCHANGED <<store, running, deliveredJobs, steers, run, cost, record>>

\* The session was idle when the worker looked.
WriteToIdle(w) ==
  /\ wpc[w] = "write"
  /\ history' = Append(history, User(w))
  /\ wpc' = [wpc EXCEPT ![w] = "done"]
  /\ UNCHANGED <<spent, job, slice, memory, run, cost, record>>

\* A person's message is accepted while a run is in flight.
Steer(m) ==
  /\ m \notin {steered[k] : k \in DOMAIN steered}
  /\ running > 0
  /\ steers' = Append(steers, m) /\ steered' = Append(steered, m)
  /\ UNCHANGED <<store, running, pendingHandoffs, deliveredJobs, run, worker, returned, refused>>

\* The host takes back what no boundary delivered, once the run is over.
Unsteered ==
  /\ pc = "idle" /\ steers # <<>>
  /\ returned' = returned \cup {steers[k] : k \in DOMAIN steers} /\ steers' = <<>>
  /\ UNCHANGED <<store, running, pendingHandoffs, deliveredJobs, run, worker, steered, refused>>

Loop ==
  \/ LoopTop \/ LastDrain \/ WriteHandoff \/ WriteLastHandoff \/ DrainSteers \/ WriteSteer
  \/ ReadSession \/ CheckBudget \/ CallFails \/ (\E reply \in Replies : CallReplies(reply))
  \/ ChargeCall \/ WriteReply \/ Complete \/ ServeCall \/ WriteResult
  \/ SpawnRead \/ SpawnReserve \/ SpawnCreate \/ SpawnJoin \/ WaitDelivered \/ WaitGivesUp
  \/ EndRun

Worker(w) == RunJob(w) \/ FinishJob(w) \/ ChargeJob(w) \/ DeliverHandoff(w) \/ WriteToIdle(w)

Next ==
  \/ BeginRun \/ ContextEnds \/ Loop \/ Unsteered
  \/ \E w \in Workers : Worker(w)
  \/ \E m \in Messages : Steer(m)

Spec == Init /\ [][Next]_vars

\* The run's goroutine and the workers' goroutines keep moving.
Fairness == WF_vars(Loop) /\ \A w \in Workers : WF_vars(Worker(w))

FairSpec == Spec /\ Fairness

-----------------------------------------------------------------------------
\* One type invariant: the run, its workers and the store.
TypeOK ==
  /\ spent \in Nat /\ row \in Nat /\ available \in Nat
  /\ job \in [Workers -> {"absent", "running", "finished"}]
  /\ slice \in [Workers -> 0..Budget] /\ cost \in [Workers -> 0..Budget]
  /\ running \in {0, 1} /\ deliveredJobs \subseteq Workers
  /\ ctx \in {"live", "ended"} /\ got \in Workers \cup {None}
  /\ runs \in 0..MaxRuns /\ turns \in 0..MaxTurns
  /\ returned \subseteq Messages /\ refused \subseteq Workers \cup Messages

Bodies(seq) == {seq[k] : k \in DOMAIN seq}
Carried == {history[k].body : k \in {i \in DOMAIN history : history[i].role # "assistant"}}

\* The result of every finished background worker is in the session's history, on its way
\* there, or was in a write that an ended context refused (handoff.go, worker_job.go).
ResultsAccounted ==
  \A w \in Workers \ Shared :
    wpc[w] = "done" => w \in Carried \cup Bodies(pendingHandoffs) \cup Bodies(held) \cup {got} \cup refused

\* No handoff waits in the queue of a session without a run: a worker that saw the run in
\* flight queued before endRun, and the drain after endRun finds it (engine.go 1131-1136).
NoStrandedHandoff == pc = "idle" => pendingHandoffs = <<>>

\* A message Steer accepted is queued, being written, in the history, given back by
\* Unsteered or refused with the context, exactly one of them; and the delivered ones
\* stand in the order they were accepted (steer.go).
SteersAccounted ==
  /\ \A m \in Bodies(steered) :
       LET places == <<m \in Bodies(steers), m \in Bodies(held), m \in Carried, m \in returned, m \in refused>>
       IN Cardinality({k \in 1..5 : places[k]}) = 1
  /\ \A i, j \in DOMAIN history :
       history[i].role = "user" /\ history[j].role = "user" /\ i < j =>
         \A a, b \in DOMAIN steered : steered[a] = history[i].body /\ steered[b] = history[j].body => a < b

\* The result of a background worker reaches its session, unless an ended context refused
\* the write (worker_job.go: "its handoff arrives on completion either way").
ResultArrives == \A w \in Workers \ Shared : (job[w] = "running") ~> (w \in Carried \cup refused)

(* What workers and people sent is accounted for at every moment: results   *)
(* and steered messages are in the history, in a queue or in the hands of a *)
(* step, and no handoff waits in the queue of a session without a run.      *)
WorkersInv == TypeOK /\ ResultsAccounted /\ NoStrandedHandoff /\ SteersAccounted
=============================================================================
