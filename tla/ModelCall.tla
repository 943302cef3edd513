----------------------------- MODULE ModelCall ------------------------------
(***************************************************************************)
(* How a run gets a reply from some model: the routing of a turn with its  *)
(* wait for credentials (credential_wait.go), the call and its retries by  *)
(* failure class (engine.go:1348-1424, call_failure.go), the pool of keys  *)
(* with a backoff per route (internal/provider/provider.go, deadline.go),  *)
(* and the replies that are empty or cut off (engine.go:1457-1511).        *)
(*                                                                         *)
(* Time is what is left of each timer; a Tick takes one unit off all of    *)
(* them, between any two steps.  A route whose backoff stands at 0 ends    *)
(* its backoff now, at -1 it has ended.  Other sessions share the pool.    *)
(***************************************************************************)
EXTENDS Router, FiniteSetsExt

CONSTANTS
    Jobs,              \* hints, configuration and history of a run, with the bounds on it:
                       \* maxTools replies with tool calls, maxLimits backoffs begun, and
                       \* odd, whether there are replies that are empty, cut off or malformed
    NKeys,             \* how many keys each provider has
    Backoffs,          \* what backoffFor may return
    DefaultBackoff,    \* defaultCredentialBackoff
    MaxCredentialWait, MaxCredentialWaits, \* credential_wait.go
    TransportWindow,   \* maxTransportWait
    Retries,           \* failurePolicy: malformed and transient
    MaxEmpty,          \* the empty reply that drops a model
    DefaultCap, MaxCap \* turnmode.go

Provider(m) == Catalog[m].provider
Keys(m) == 0 .. NKeys[Provider(m)] - 1
NoStrikes == [malformed |-> 0, transient |-> 0]

ASSUME CallAssumption ==
    /\ \A m \in Models : NKeys[Provider(m)] \in Nat \ {0}
    /\ NoModel \notin Models
    /\ Backoffs \subseteq Nat /\ DefaultBackoff \in Nat \ {0}
    /\ {MaxCredentialWait, MaxCredentialWaits, TransportWindow, Retries, MaxEmpty, DefaultCap,
        MaxCap} \subseteq Nat

VARIABLES
    cool, nextKey,       \* pool.routes, what is left of each backoff; pool.next
    unavailable,         \* Registry.unavailable
    job,                 \* request hints, router configuration, size of the history
    excluded,            \* progress.excluded
    turnExcluded, outputCaps, emptyCompletions,
    available, exclude,  \* of RoutingState
    model,               \* decision.Model; until it is made, RoutingState.CurrentModel
    key,                 \* the key a call was sent with
    strikes, credentialWaits,
    since,               \* time since transportSince, -1 when it is zero
    patience,            \* time until decideWaiting's deadline
    sleep,               \* the timer of WaitForCredentials
    rerouting,           \* decideWaiting is called after a failed call
    recovered,           \* recoverOversizedHistory was tried in this turn
    class, pc,
    live,                \* the run's context is neither cancelled nor expired
    ended,               \* how the run ended
    recent,              \* history: models that failed since the last reply with work in it
    waited,              \* history: time spent in WaitForCredentials by one decideWaiting
    tools, limits

pool == <<cool, nextKey, unavailable>>
run == <<job, excluded, turnExcluded, outputCaps, emptyCompletions>>
routing == <<available, exclude, model>>
retrying == <<key, strikes, credentialWaits, since, rerouting, recovered, class>>
waiting == <<patience, sleep, waited>>
vars == <<pool, run, routing, retrying, waiting, pc, live, ended, recent, tools, limits>>

-----------------------------------------------------------------------------
(* The registry *)

\* pool.available, pool.readyAt: at the end of a backoff the route is available.
Available(m) == m \notin unavailable /\ \E k \in Keys(m) : cool[m][k] <= 0
AvailableIDs == {m \in Models : Available(m)}
Cooling(m) == m \notin unavailable /\ \A k \in Keys(m) : cool[m][k] > 0
ReadyIn(m) == Min({cool[m][k] : k \in Keys(m)})

\* pool.take: keys in turn from next on, and only those whose backoff is over.
InTurn(m, i) == (nextKey[Provider(m)] + i) % NKeys[Provider(m)]
Usable(m) == {i \in Keys(m) : cool[m][InTurn(m, i)] < 0}
UseKey(m, k) == nextKey' = [nextKey EXCEPT ![Provider(m)] = (k + 1) % NKeys[Provider(m)]]

\* pool.backoff
Backoff(k, m, d) == cool' = [cool EXCEPT ![m][k] = d]

Routing(av, ex) ==
    [available |-> av, exclude |-> ex, current |-> model, size |-> job.size, image |-> job.image,
     review |-> job.review, implementer |-> job.implementer, judgement |-> job.judgement,
     excludeFamilies |-> job.excludeFamilies, modelPin |-> job.modelPin, tierPin |-> job.tierPin,
     default |-> job.default, disableSwitch |-> job.disableSwitch]

\* Decide also writes the routing record, which an ended context refuses.
Routes(av, ex) == IF live THEN Decide(Routing(av, ex)) ELSE {}

Init ==
    /\ cool = [m \in Models |-> [k \in Keys(m) |-> -1]] /\ nextKey = [p \in DOMAIN NKeys |-> 0]
    /\ unavailable = {}
    /\ job \in Jobs
    /\ excluded = {} /\ turnExcluded = {} /\ emptyCompletions = 0
    /\ outputCaps = [m \in Models |-> DefaultCap]
    /\ model = NoModel
    /\ available = {} /\ exclude = {} /\ key = 0
    /\ strikes = [m \in Models |-> NoStrikes]
    /\ credentialWaits = 0 /\ since = -1 /\ rerouting = FALSE /\ recovered = FALSE
    /\ class = "none" /\ patience = 0 /\ sleep = 0 /\ waited = 0
    /\ pc = "turn" /\ live = TRUE /\ ended = "no" /\ recent = {}
    /\ tools = 0 /\ limits = 0

End(how) == pc' = "done" /\ ended' = how

-----------------------------------------------------------------------------
(* Routing a turn *)

\* The top of the loop.  AvailableIDs is read before the call of the classifier.
\* A compaction in the turn before makes routing forget the current model.
BeginTurn ==
    /\ pc = "turn"
    /\ \/ ~live /\ End("stopped") /\ UNCHANGED routing
       \/ /\ live /\ pc' = "classify"
          /\ available' = AvailableIDs /\ exclude' = excluded \cup turnExcluded
          /\ model' \in {model, NoModel}
          /\ UNCHANGED ended
    /\ UNCHANGED <<pool, run, retrying, waiting, live, recent, tools, limits>>

\* The classifier answered; decideWaiting begins and sets its deadline.
Classified ==
    /\ pc = "classify" /\ pc' = "decide" /\ patience' = MaxCredentialWait
    /\ UNCHANGED <<pool, run, routing, retrying, sleep, waited, live, ended, recent, tools, limits>>

\* decideWaiting, one round: route with the models that were available.
DecideRoute ==
    /\ pc = "decide"
    /\ LET eligible == Routes(available, exclude)
       IN IF eligible # {} THEN model' \in eligible /\ pc' = "call" /\ patience' = 0 /\ waited' = 0
                           ELSE pc' = "probe" /\ UNCHANGED <<model, patience, waited>>
    /\ UNCHANGED <<pool, run, available, exclude, retrying, sleep, live, ended, recent, tools, limits>>

\* Mutant: only the models routing prefers count.
FirstChoice ==
    LET cooling == {m \in Models : Cooling(m)}
    IN IF ~live THEN {}
       ELSE Compatible(Routing(available \cup cooling, exclude)) \cap cooling

\* The cooling models that routing would choose one after the other if they were
\* available.  Those of another family come first and are then excluded, so they stop
\* counting as an alternative for the reviewer.
Recovering ==
    LET cooling == {m \in Models : Cooling(m)}
        probe == Routing(available \cup cooling, exclude)
        others == {m \in cooling : Fits(m, probe) /\ Catalog[m].family # job.implementer}
    IN IF ~live THEN {}
       ELSE others \cup (Compatible([probe EXCEPT !.exclude = @ \cup others]) \cap cooling)

Largest == Max({0} \cup {Catalog[m].window : m \in available})

\* Routing failed.  At the start of a turn a history too large for every model is
\* shrunk, once; otherwise the person is asked.
RoutingFails ==
    IF ~rerouting /\ ~recovered /\ Largest > 0 /\ job.size > Largest
      THEN pc' = "recover" /\ UNCHANGED ended
      ELSE End("unrouted")

\* time.Until(deadline)
Patience == patience

\* decideWaiting with nothing to choose: wait for the earliest of the cooling models.
Probe ==
    /\ pc = "probe"
    /\ IF Recovering # {} /\ Min({ReadyIn(m) : m \in Recovering}) <= Patience
         THEN sleep' = Min({ReadyIn(m) : m \in Recovering}) + 1 /\ pc' = "wait" /\ UNCHANGED ended
         ELSE RoutingFails /\ UNCHANGED sleep
    /\ UNCHANGED <<pool, run, routing, retrying, patience, waited, live, recent, tools, limits>>

WaitEnds ==
    /\ pc = "wait"
    /\ \/ ~live /\ RoutingFails /\ UNCHANGED available
       \/ sleep = 0 /\ available' = AvailableIDs /\ pc' = "decide" /\ UNCHANGED ended
    /\ UNCHANGED <<pool, run, exclude, model, retrying, waiting, live, recent, tools, limits>>

\* recoverOversizedHistory: tool results are shortened, history is compacted, or neither.
RecoverHistory ==
    /\ pc = "recover"
    /\ \/ End("unrouted") /\ UNCHANGED <<job, patience, waited>>
       \/ /\ \E n \in 1 .. job.size : job' = [job EXCEPT !.size = n]
          /\ patience' = MaxCredentialWait /\ waited' = 0
          /\ pc' = "decide" /\ UNCHANGED ended
    /\ recovered' = TRUE
    /\ UNCHANGED <<pool, excluded, turnExcluded, outputCaps, emptyCompletions, routing, key,
                   strikes, credentialWaits, since, rerouting, class, sleep, live, recent, tools,
                   limits>>

-----------------------------------------------------------------------------
(* Calls and their failures *)

\* CompleteOne takes a key.  With none it fails with ErrCredentialsBackoff.
Take ==
    /\ pc = "call"
    /\ IF Usable(model) # {}
         THEN /\ key' = InTurn(model, Min(Usable(model))) /\ UseKey(model, key')
              /\ pc' = "flight" /\ UNCHANGED class
         ELSE /\ class' = "cooling" /\ pc' = "reroute"
              /\ UNCHANGED <<key, nextKey>>
    /\ UNCHANGED <<cool, unavailable, run, available, exclude, model, strikes, credentialWaits, since,
                   rerouting, recovered, waiting, live, ended, recent, tools, limits>>

\* The retries of a class are counted per model and turn.
Counted(c) ==
    /\ strikes' = [strikes EXCEPT ![model][c] = @ + 1]
    /\ pc' = IF strikes[model][c] >= Retries THEN "reroute"
             ELSE IF c = "transient" THEN "backoff" ELSE "call"
    /\ UNCHANGED since

\* Mutant: every failure starts the window again.
WindowRestarts ==
    /\ since' = 0
    /\ pc' = IF live THEN "backoff" ELSE "reroute"
    /\ UNCHANGED strikes

\* The window of a class counts from the first transport failure of the turn.
Windowed ==
    /\ since' = IF since = -1 THEN 0 ELSE since
    /\ pc' = IF live /\ since' < TransportWindow THEN "backoff" ELSE "reroute"
    /\ UNCHANGED strikes

\* failurePolicy
Fails(c) ==
    /\ class' = c
    /\ \/ c \in {"malformed", "transient"} /\ Counted(c)
       \/ c = "transport" /\ Windowed
       \/ c \in {"refused", "rejected", "cooling"} /\ pc' = "reroute" /\ UNCHANGED <<strikes, since>>

Calling == pc = "flight"
CallFrame ==
    /\ key' = 0
    /\ UNCHANGED <<nextKey, run, available, exclude, model, credentialWaits, rerouting, recovered,
                   waiting, live, recent, tools>>

\* Invalid arguments, a 4xx about this request, a network failure, a call cut by the deadline.
CallFails ==
    /\ Calling
    /\ \E c \in {"malformed", "rejected", "transport"} : (c = "malformed" => job.odd) /\ Fails(c)
    /\ UNCHANGED <<cool, unavailable, ended, limits>> /\ CallFrame

\* CompleteOne marks a refused model unavailable for the process.
CallRefused ==
    /\ Calling /\ Fails("refused") /\ unavailable' = unavailable \cup {model}
    /\ UNCHANGED <<cool, ended, limits>> /\ CallFrame

\* A bad key, a bad certificate, or the run was cancelled: routeFailureAfter.
CallFatal ==
    /\ Calling /\ End("fatal")
    /\ UNCHANGED <<cool, unavailable, strikes, since, class, limits>> /\ CallFrame

\* A rate limit or a server error cools the route, and the class is what is left of the pool.
CallLimited ==
    /\ Calling /\ limits < job.maxLimits /\ limits' = limits + 1
    /\ \E d \in Backoffs : Backoff(key, model, d)
    /\ Fails(IF \A k \in Keys(model) : cool'[model][k] > 0 THEN "cooling" ELSE "transient")
    /\ UNCHANGED <<unavailable, ended>> /\ CallFrame

\* A body that cannot be decoded.
CallGarbled ==
    /\ Calling /\ Fails(IF Cooling(model) THEN "cooling" ELSE "transient")
    /\ UNCHANGED <<cool, unavailable, ended, limits>> /\ CallFrame

\* sendWithDeadlines cools the route of a silent call, which is a transport failure.
CallStalls ==
    /\ Calling /\ limits < job.maxLimits /\ limits' = limits + 1
    /\ Backoff(key, model, DefaultBackoff) /\ Fails("transport")
    /\ UNCHANGED <<unavailable, ended>> /\ CallFrame

\* retryDelay
BackoffEnds ==
    /\ pc = "backoff"
    /\ \/ ~live /\ End("stopped")
       \/ pc' = "call" /\ UNCHANGED ended
    /\ UNCHANGED <<pool, run, routing, retrying, waiting, live, recent, tools, limits>>

\* No retry: set the model aside as its class says, and route again.
Reroute ==
    /\ pc = "reroute"
    /\ excluded' = IF class = "malformed" THEN excluded \cup {model} ELSE excluded
    /\ exclude' = IF class = "cooling" THEN exclude ELSE exclude \cup {model}
    /\ recent' = IF class = "cooling" THEN recent ELSE recent \cup {model}
    /\ available' = AvailableIDs
    /\ LET eligible == Routes(available', exclude')
       IN \/ /\ eligible # {} /\ model' \in eligible /\ pc' = "call"
             /\ UNCHANGED <<credentialWaits, rerouting, patience, waited, ended>>
          \/ /\ eligible = {} /\ class = "cooling" /\ credentialWaits < MaxCredentialWaits
             /\ credentialWaits' = credentialWaits + 1 /\ rerouting' = TRUE
             /\ patience' = MaxCredentialWait /\ waited' = 0 /\ pc' = "decide"
             /\ UNCHANGED <<model, ended>>
          \/ /\ eligible = {} /\ (class = "cooling" => credentialWaits = MaxCredentialWaits)
             /\ End("unrouted")
             /\ UNCHANGED <<model, credentialWaits, rerouting, patience, waited>>
    /\ class' = "none"
    /\ strikes' = IF class = "cooling" THEN strikes ELSE [strikes EXCEPT ![model] = NoStrikes]
    /\ UNCHANGED <<pool, job, turnExcluded, outputCaps, emptyCompletions, key, since,
                   recovered, sleep, live, tools, limits>>

-----------------------------------------------------------------------------
(* Replies *)

CanRaise == outputCaps[model] < MaxCap /\ outputCaps[model] < Catalog[model].maxOutput
Raise(m, cap) == outputCaps' = [outputCaps EXCEPT ![m] = cap]

RaiseCap == Raise(model, Min({2 * outputCaps[model], MaxCap}))

\* The third empty reply of the run drops the model that gave it.
CountEmpty ==
    /\ emptyCompletions' = (emptyCompletions + 1) % MaxEmpty
    /\ excluded' = IF emptyCompletions' = 0 THEN excluded \cup {model} ELSE excluded

\* Mutant: the models set aside for this turn stay aside.
KeepAside == turnExcluded' = turnExcluded /\ recent' = {}

\* Any reply but one cut off while empty completes the turn for routing.
Completes == turnExcluded' = {} /\ recent' = {}

\* The turn is over; its local variables end with it.
ReplyFrame ==
    /\ available' = {} /\ exclude' = {} /\ key' = 0
    /\ strikes' = [m \in Models |-> NoStrikes]
    /\ credentialWaits' = 0 /\ since' = -1 /\ rerouting' = FALSE /\ recovered' = FALSE
    /\ class' = "none" /\ patience' = 0 /\ sleep' = 0 /\ waited' = 0
    /\ UNCHANGED <<pool, job, model, live, limits>>

\* Tool calls are run, or the text is a result that the completion checks accept or send back.
ReplyWork ==
    /\ Calling /\ tools < job.maxTools /\ tools' = tools + 1 /\ Completes /\ pc' = "turn"
    /\ emptyCompletions' \in {0, emptyCompletions}
    /\ UNCHANGED <<excluded, outputCaps, ended>> /\ ReplyFrame

ReplyText ==
    /\ Calling /\ Completes /\ End("replied")
    /\ UNCHANGED <<excluded, outputCaps, emptyCompletions, tools>> /\ ReplyFrame

\* Text cut off at the limit gets more room; at the largest room it is taken as it is.
ReplyClipped ==
    /\ Calling /\ job.odd /\ CanRaise /\ Completes /\ RaiseCap /\ pc' = "turn"
    /\ UNCHANGED <<excluded, emptyCompletions, ended, tools>> /\ ReplyFrame

ReplyEmpty ==
    /\ Calling /\ job.odd /\ Completes /\ CountEmpty /\ pc' = "turn"
    /\ UNCHANGED <<outputCaps, ended, tools>> /\ ReplyFrame

\* Nothing but reasoning: another model, else more room, else an empty reply.
ReplyCut ==
    /\ Calling /\ job.odd /\ pc' = "turn"
    /\ LET others == Routes(AvailableIDs, exclude \cup {model})
       IN \/ /\ \E m \in others : Raise(m, Max({outputCaps[m], outputCaps[model]}))
             /\ turnExcluded' = turnExcluded \cup {model}
             /\ UNCHANGED <<excluded, emptyCompletions>>
          \/ /\ others = {} /\ CanRaise /\ RaiseCap
             /\ UNCHANGED <<excluded, emptyCompletions, turnExcluded>>
          \/ /\ others = {} /\ ~CanRaise /\ CountEmpty
             /\ UNCHANGED <<outputCaps, turnExcluded>>
    /\ recent' = recent \cup {model}
    /\ UNCHANGED <<ended, tools>> /\ ReplyFrame

-----------------------------------------------------------------------------
(* Time, the context, other sessions *)

Down(n) == IF n > -1 THEN n - 1 ELSE -1

Tick ==
    /\ pc # "done"
    /\ cool' = [m \in Models |-> [k \in Keys(m) |-> Down(cool[m][k])]]
    /\ since' = IF since = -1 THEN -1 ELSE Min({since + 1, TransportWindow})
    /\ patience' = Down(patience)
    /\ sleep' = IF sleep > 0 THEN sleep - 1 ELSE 0
    /\ waited' = IF pc = "wait" /\ sleep > 0 THEN waited + 1 ELSE waited
    /\ UNCHANGED <<nextKey, unavailable, run, routing, key, strikes, credentialWaits, rerouting,
                   recovered, class, pc, live, ended, recent, tools, limits>>

\* A stop of the person or of the process, or the run's time limit.
ContextEnds ==
    /\ pc # "done" /\ live /\ live' = FALSE
    /\ UNCHANGED <<pool, run, routing, retrying, waiting, pc, ended, recent, tools, limits>>

\* A call of another session uses the pool: the key moves on and a route may cool.
OtherSession ==
    /\ pc # "done" /\ limits < job.maxLimits /\ limits' = limits + 1
    /\ \E m \in Models, d \in Backoffs : \E k \in Keys(m) : Backoff(k, m, d) /\ UseKey(m, k)
    /\ UNCHANGED <<unavailable, run, routing, retrying, waiting, pc, live, ended, recent, tools>>

Step ==
    \/ BeginTurn \/ Classified \/ DecideRoute \/ Probe \/ WaitEnds \/ RecoverHistory
    \/ Take \/ CallFails \/ CallRefused \/ CallFatal \/ CallLimited \/ CallGarbled \/ CallStalls
    \/ BackoffEnds \/ Reroute
    \/ ReplyWork \/ ReplyText \/ ReplyClipped \/ ReplyEmpty \/ ReplyCut

Next == Step \/ Tick \/ ContextEnds \/ OtherSession

\* The loop goes on, a call returns, and time passes.
Spec == Init /\ [][Next]_vars /\ WF_vars(Step) /\ WF_vars(Tick)

-----------------------------------------------------------------------------
(* Properties *)

\* Every variable keeps its type: raised output limits stay within maxOutputCap, the
\* count of empty replies starts over when it drops a model, a run under way has a model.
TypeOK ==
    /\ \A m \in Models : \A k \in Keys(m) : cool[m][k] \in -1 .. Max(Backoffs \cup {DefaultBackoff})
    /\ \A m \in Models : nextKey[Provider(m)] \in Keys(m)
    /\ UNION {unavailable, excluded, turnExcluded, available, exclude, recent} \subseteq Models
    /\ model \in Models \cup {NoModel}
    /\ \A m \in Models : outputCaps[m] \in DefaultCap .. MaxCap
    /\ \A m \in Models : {strikes[m].malformed, strikes[m].transient} \subseteq 0 .. Retries + 1
    /\ emptyCompletions \in 0 .. MaxEmpty - 1 /\ credentialWaits \in 0 .. MaxCredentialWaits
    /\ since \in -1 .. TransportWindow /\ patience \in -1 .. MaxCredentialWait
    /\ class \in {"none", "malformed", "refused", "rejected", "transport", "cooling", "transient"}
    /\ pc \in {"turn", "classify", "decide", "probe", "wait", "recover", "call", "flight", "backoff",
              "reroute", "done"}
    /\ ended \in {"no", "stopped", "unrouted", "fatal", "replied"}
    /\ (pc = "done") = (ended # "no")
    /\ pc \in {"call", "flight", "backoff", "reroute"} => model \in Models

\* The person is asked for want of a model only when every compatible one among those
\* last seen available failed or was cut off since the last completed reply, or was
\* dropped from the run: no model stays aside for what it did in an earlier turn
\* (engine.go:1138-1140, 1457, 1402).
NoModelGivenUp ==
    ended = "unrouted" /\ live =>
        Compatible(Routing(available, excluded \cup recent)) = {}

\* Routing gives up waiting only when each route that could serve the turn once it
\* cooled off, a reviewer of the implementer's own family included, is later than the
\* time left (credential_wait.go:41-62).
WaitsForAnyRoute ==
    [][pc = "probe" /\ live /\ pc' \in {"recover", "done"} =>
         \A m \in Models : Cooling(m) /\ Fits(m, Routing(Models, exclude))
                             => ReadyIn(m) > patience]_vars

\* Waiting for credentials takes no longer than maxCredentialWait and the slack of one
\* timer, however often other sessions cool the awaited routes again meanwhile
\* (credential_wait.go:32, 57).
WaitBounded == waited <= MaxCredentialWait + 1

\* A reviewer of the implementer's family is called only when routing, with what it had
\* seen available and not set aside, had no other (router.go:295, 386-404).
ReviewerIndependent ==
    pc = "call" /\ job.review /\ Catalog[model].family = job.implementer =>
        \A m \in Models : Fits(m, Routing(available, exclude)) =>
                            Catalog[m].family = job.implementer

\* A run ends: retries, waits, reroutes and empty replies run out or meet a limit, as
\* long as calls return, time passes and providers stop rate limiting.
CallsEnd == <>(pc = "done")


(* At every moment of a turn's calls: no model is given up that could still *)
(* serve the turn, a reviewer is of another family where there is one, and  *)
(* a wait for credentials stays within its first deadline (engine.go:1457,  *)
(* router.go:386, credential_wait.go:57).                                   *)
CallsInv == TypeOK /\ NoModelGivenUp /\ ReviewerIndependent /\ WaitBounded
=============================================================================
