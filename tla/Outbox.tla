------------------------------- MODULE Outbox -------------------------------
(***************************************************************************)
(* Delivery of messages by the terminal client (internal/tui/model.go).    *)
(* Typed messages and prompts from the Squire control socket share one     *)
(* outbox, delivered one call at a time; the first call creates the        *)
(* session when there is none.  A call can fail before the engine took the *)
(* request, after it, or while the request is still on its way (the web    *)
(* handlers run on context.Background(), so a request whose caller gave up *)
(* may be taken later).                                                    *)
(*                                                                         *)
(* A submission is numbered when `deliver` queues it; that number is also  *)
(* its request id, because `deliver` draws one id per submission.          *)
(***************************************************************************)
EXTENDS Naturals, Sequences

CONSTANTS Texts,      \* messages a person types
          Prompts,    \* prompts that arrive over the control socket
          None,       \* no message, no call
          MaxFaults,  \* failures of backend calls and of Bind
          MaxKeys     \* submissions, resubmitted texts included

Message == [key: 1 .. MaxKeys, id: Nat, text: Texts \cup Prompts]
Request == [key: 1 .. MaxKeys, id: Nat, create: BOOLEAN]

ASSUME OutboxAssumption ==
    /\ Texts \cap Prompts = {} /\ None \notin Texts \cup Message
    /\ MaxFaults \in Nat /\ MaxKeys \in Nat

VARIABLES composer,   \* the editor: a text or None
          unsent,     \* texts nobody typed yet
          wiped,      \* texts cleared from the composer, or replaced in it
          outbox,     \* queued submissions: [key, text, id]
          inflight,   \* the submission whose backend call runs, or None
          stalled,
          creating,   \* the running call is Create
          session,    \* m.sessionID # ""
          harness,    \* the client runs under Squire
          bound,      \* the Squire binding is published
          told,       \* per prompt: "absent", "waiting", "ok" or "error"
          sent,       \* per prompt: answers put into its reply channel
          keys,       \* submissions so far
          call,       \* the running call: "none", "sent" or "answered"
          late,       \* requests of abandoned calls the engine may still take
          exists,     \* the engine has a session for the external identity
          receipts,   \* request ids with a receipt
          said,       \* keys in the order the conversation got them
          settled,    \* [key, text] in the order their delivery was reported
          faults

person == <<composer, unsent, wiped>>
queue == <<outbox, inflight, stalled, creating, call>>
engine == <<exists, receipts, said>>
outboxVars == <<person, queue, session, harness, bound, told, sent, keys, late,
                engine, settled, faults>>

Entries(q) == {q[i] : i \in DOMAIN q}

OutboxTypeOK ==
    /\ composer \in Texts \cup {None}
    /\ unsent \subseteq Texts /\ wiped \subseteq Texts
    /\ outbox \in Seq(Message)
    /\ inflight \in Message \cup {None}
    /\ {stalled, creating, session, harness, bound, exists} \subseteq BOOLEAN
    /\ told \in [Prompts -> {"absent", "waiting", "ok", "error"}]
    /\ sent \in [Prompts -> Nat]
    /\ keys \in 0 .. MaxKeys /\ faults \in 0 .. MaxFaults
    /\ call \in {"none", "sent", "answered"} /\ late \subseteq Request
    /\ receipts \subseteq Nat
    /\ said \in Seq(1 .. MaxKeys) /\ settled \in Seq([key: 1 .. MaxKeys, text: Texts \cup Prompts])

(* The client starts bound to a session of the server or without one.      *)
OutboxInit ==
    /\ composer = None /\ unsent = Texts /\ wiped = {}
    /\ outbox = <<>> /\ inflight = None /\ stalled = FALSE /\ creating = FALSE
    /\ session \in BOOLEAN /\ exists = session
    /\ harness \in BOOLEAN /\ bound = (session /\ harness)
    /\ told = [p \in Prompts |-> "absent"]
    /\ sent = [p \in Prompts |-> 0]
    /\ keys = 0 /\ call = "none" /\ late = {}
    /\ receipts = {} /\ said = <<>> /\ settled = <<>> /\ faults = 0

-----------------------------------------------------------------------------
(* The request id a call carries: fixed when the message was queued. *)
RequestId(o) == o.id

(* pump: with no call running and the outbox not stalled, the head of the  *)
(* queue q becomes the running call; `has` is m.sessionID # "".            *)
pump(q, stop, has) ==
    /\ stalled' = stop
    /\ IF stop \/ q = <<>>
       THEN /\ outbox' = q /\ inflight' = None
            /\ creating' = FALSE /\ call' = "none"
       ELSE /\ outbox' = Tail(q) /\ inflight' = Head(q)
            /\ creating' = ~has /\ call' = "sent"

(* Mutant: once there is a session a submission goes before those that wait. *)
InFront(o) == IF session THEN <<o>> \o outbox ELSE Append(outbox, o)

(* Submissions wait in the order they were made. *)
Behind(o) == Append(outbox, o)

(* deliver: queue a submission and pump. *)
deliver(text) ==
    LET q == Behind([key |-> keys + 1, id |-> keys + 1, text |-> text])
    IN  /\ keys < MaxKeys
        /\ keys' = keys + 1
        /\ IF inflight # None
           THEN /\ outbox' = q /\ stalled' = FALSE
                /\ UNCHANGED <<inflight, creating, call>>
           ELSE pump(q, FALSE, session)

Types(x) ==
    /\ composer = None /\ x \in unsent
    /\ composer' = x /\ unsent' = unsent \ {x}
    /\ UNCHANGED <<wiped, queue, session, harness, bound, told, sent, keys,
                   late, engine, settled, faults>>

(* ctrl+c with text in the editor. *)
Clears ==
    /\ composer # None
    /\ composer' = None /\ wiped' = wiped \cup {composer}
    /\ UNCHANGED <<unsent, queue, session, harness, bound, told, sent, keys,
                   late, engine, settled, faults>>

(* enter with text in the editor. *)
Submits ==
    /\ composer # None
    /\ deliver(composer)
    /\ composer' = None
    /\ UNCHANGED <<unsent, wiped, session, harness, bound, told, sent, late,
                   engine, settled, faults>>

(* enter in an empty editor while the outbox is stalled. *)
Retries ==
    /\ composer = None /\ stalled /\ inflight = None
    /\ pump(outbox, FALSE, session)
    /\ UNCHANGED <<person, session, harness, bound, told, sent, keys, late,
                   engine, settled, faults>>

PromptArrives(p) ==
    /\ harness /\ told[p] = "absent"
    /\ deliver(p)
    /\ told' = [told EXCEPT ![p] = "waiting"]
    /\ UNCHANGED <<person, session, harness, bound, sent, late, engine, settled,
                   faults>>

(* The control socket stops waiting after two minutes; the prompt stays.   *)
PromptGivesUp(p) ==
    /\ told[p] = "waiting" /\ sent[p] = 0 /\ faults < MaxFaults
    /\ told' = [told EXCEPT ![p] = "error"]
    /\ faults' = faults + 1
    /\ UNCHANGED <<person, queue, session, harness, bound, sent, keys,
                   late, engine, settled>>

-----------------------------------------------------------------------------
(* What the engine does with a request: Create for an external identity it *)
(* already has answers with that session and leaves the prompt out of it,  *)
(* Send is deduplicated by its request id.                                 *)
Accept(r) ==
    IF r.create
    THEN /\ exists' = TRUE
         /\ said' = IF exists THEN said ELSE Append(said, r.key)
         /\ UNCHANGED receipts
    ELSE /\ receipts' = receipts \cup {r.id}
         /\ said' = IF r.id \in receipts THEN said ELSE Append(said, r.key)
         /\ UNCHANGED exists

(* The request of the running call. *)
CurrentRequest ==
    [key |-> inflight.key, id |-> RequestId(inflight), create |-> creating]

EngineTakes ==
    /\ call = "sent"
    /\ call' = "answered"
    /\ Accept(CurrentRequest)
    /\ UNCHANGED <<person, outbox, inflight, stalled, creating, session, harness,
                   bound, told, sent, keys, late, settled, faults>>

EngineTakesLate(r) ==
    /\ late' = late \ {r}
    /\ Accept(r)
    /\ UNCHANGED <<person, queue, session, harness, bound, told, sent, keys,
                   settled, faults>>

(* Another client creates the session of the external identity. *)
CreatedElsewhere ==
    /\ ~exists /\ faults < MaxFaults
    /\ exists' = TRUE
    /\ faults' = faults + 1
    /\ UNCHANGED <<person, queue, session, harness, bound, told, sent, keys,
                   late, receipts, said, settled>>

(* Answers put into the reply channels of the prompts among the messages ms. *)
Reply(ms, answer) ==
    LET ps == {o.text : o \in ms} \cap Prompts
    IN  /\ sent' = [p \in Prompts |-> IF p \in ps THEN sent[p] + 1 ELSE sent[p]]
        /\ told' = [p \in Prompts |-> IF p \in ps /\ told[p] = "waiting"
                                      THEN answer ELSE told[p]]

(* The answer to the sender of a delivered prompt: an error if the Squire  *)
(* binding is still missing.                                               *)
Acknowledge(published) ==
    Reply({inflight}, IF published \/ ~harness THEN "ok" ELSE "error")

(* Mutant: onDelivered returns without pumping the rest of the outbox. *)
PumpNotAgain(q) ==
    /\ outbox' = q /\ inflight' = None /\ creating' = FALSE
    /\ call' = "none" /\ UNCHANGED stalled

(* The last step of onDelivered. *)
PumpOn(q) == pump(q, stalled, TRUE)

(* onDelivered with a result: the created session is adopted, the binding  *)
(* published unless it is or that fails, the sender answered, the outbox   *)
(* pumped on.                                                              *)
CallReturns ==
    /\ call = "answered"
    /\ session' = TRUE
    /\ \E bindFails \in BOOLEAN :
          /\ bindFails => harness /\ ~bound /\ faults < MaxFaults
          /\ bound' = (harness /\ ~bindFails)
          /\ faults' = IF bindFails THEN faults + 1 ELSE faults
          /\ Acknowledge(bound')
    /\ settled' = Append(settled, [key |-> inflight.key, text |-> inflight.text])
    /\ PumpOn(outbox)
    /\ UNCHANGED <<person, harness, keys, late, engine>>

(* The outbox after a failed call: typed text goes back to the front unless *)
(* the composer takes it.                                                   *)
KeepFailed(kept) ==
    IF inflight.text \in Prompts \/ (composer = None /\ kept = <<>>)
    THEN kept ELSE <<inflight>> \o kept

(* The messages of q that stay when a call failed, in order: prompts fail  *)
(* back to their sender.                                                   *)
TypedIn(q) ==
    LET typed[n \in 0 .. Len(q)] ==
            IF n = 0 THEN <<>>
            ELSE IF q[n].text \in Texts THEN Append(typed[n - 1], q[n]) ELSE typed[n - 1]
    IN  typed[Len(q)]

WaitingTyped == TypedIn(outbox)

(* onDelivered with an error, deliveryFailed included.  The request may    *)
(* have been refused, taken, or still be on its way.                       *)
CallFails ==
    /\ inflight # None /\ faults < MaxFaults
    /\ faults' = faults + 1
    /\ \E lost \in BOOLEAN :
          late' = IF lost \/ call = "answered" THEN late
                  ELSE late \cup {CurrentRequest}
    /\ Reply(Entries(outbox) \cup {inflight}, "error")
    /\ outbox' = KeepFailed(WaitingTyped)
    /\ composer' = IF composer = None /\ WaitingTyped = <<>> /\ inflight.text \in Texts
                   THEN inflight.text ELSE composer
    /\ stalled' = (outbox' # <<>>)
    /\ inflight' = None /\ creating' = FALSE /\ call' = "none"
    /\ UNCHANGED <<unsent, wiped, session, harness, bound, keys, engine, settled>>

OutboxNext ==
    \/ \E x \in Texts : Types(x)
    \/ Clears \/ Submits \/ Retries
    \/ \E p \in Prompts : PromptArrives(p) \/ PromptGivesUp(p)
    \/ EngineTakes
    \/ \E r \in late : EngineTakesLate(r)
    \/ CreatedElsewhere \/ CallReturns \/ CallFails

(* Backend calls end: the engine answers, or the call's deadline passes.   *)
OutboxFairness ==
    /\ WF_outboxVars(EngineTakes)
    /\ WF_outboxVars(CallReturns \/ CallFails)

OutboxSpec == OutboxInit /\ [][OutboxNext]_outboxVars /\ OutboxFairness

-----------------------------------------------------------------------------
(* No submission enters the conversation twice, however often its call was *)
(* repeated after an ambiguous failure (outgoing.requestID).               *)
SaidOnce == \A i, j \in DOMAIN said : said[i] = said[j] => i = j

(* Delivered messages stand in the conversation in the order they were     *)
(* submitted, through failures, retries and requests taken late: "later    *)
(* messages cannot overtake the failed one" (deliveryFailed).              *)
SubmissionOrder ==
    LET reported == {s.key : s \in Entries(settled)}
    IN  /\ \A i, j \in DOMAIN settled : i < j => settled[i].key < settled[j].key
        /\ \A i, j \in DOMAIN said :
              i < j /\ {said[i], said[j]} \subseteq reported => said[i] < said[j]

(* The submissions that still wait for their delivery. *)
Pending == Entries(outbox) \cup ({inflight} \ {None})

(* A typed message is in the composer, the outbox or the running call      *)
(* until its delivery is reported, unless the person cleared it.           *)
TypedIsKept ==
    \A x \in Texts :
       \/ x \in unsent \cup wiped \cup {composer}
       \/ \E o \in Pending \cup Entries(settled) : o.text = x

(* The update loop never blocks on a prompt's reply channel, which holds   *)
(* one answer, and a prompt still queued was not answered yet.             *)
OneReply ==
    \A p \in Prompts :
       /\ sent[p] <= 1
       /\ sent[p] = 1 => \A o \in Pending : o.text # p

(* A prompt is acknowledged only once the Squire binding is published      *)
(* (onDelivered).                                                          *)
AcknowledgedIsBound == \A p \in Prompts : told[p] = "ok" => bound

(* Every prompt over the control socket is answered, whatever fails before *)
(* it in the outbox.                                                       *)
PromptsAnswered == <>[](\A p \in Prompts : told[p] # "waiting")

(* Submissions enter the conversation once and in order, typed messages are *)
(* kept until they are delivered, and a prompt gets one answer, after its   *)
(* binding is published.                                                    *)
OutboxInv ==
    /\ OutboxTypeOK
    /\ SubmissionOrder /\ SaidOnce /\ TypedIsKept /\ OneReply /\ AcknowledgedIsBound
=============================================================================
