---------------------------- MODULE ClientProofs ----------------------------
(***************************************************************************)
(* Proofs about clients that share a connection: the language server       *)
(* client (Lsp), and the event feed (Feed) and the outbox (Outbox) of the  *)
(* terminal, for any calls, edits, log, batches, messages and failures.    *)
(***************************************************************************)
EXTENDS Feed, Lsp, Outbox, WellFoundedInduction, TLAPS

(* What is in a queue. *)
LEMMA QueueElement ==
    ASSUME NEW S, NEW q \in Seq(S), NEW i \in 1 .. Len(q)
    PROVE  q[i] \in S
  OBVIOUS

(* What is left of a queue when its head is taken. *)
LEMMA QueueHead ==
    ASSUME NEW S, NEW q \in Seq(S), q # <<>>
    PROVE  /\ Head(q) \in S /\ Head(q) = q[1] /\ 1 \in 1 .. Len(q)
           /\ Tail(q) \in Seq(S) /\ Len(Tail(q)) = Len(q) - 1
           /\ \A i \in 1 .. Len(Tail(q)) : i + 1 \in 1 .. Len(q) /\ Tail(q)[i] = q[i + 1]
  OBVIOUS

(* A queue that something is put behind. *)
LEMMA QueueAppend ==
    ASSUME NEW S, NEW q \in Seq(S), NEW e \in S
    PROVE  /\ Append(q, e) \in Seq(S) /\ Len(q) \in Nat /\ Len(Append(q, e)) = Len(q) + 1
           /\ Append(q, e)[Len(q) + 1] = e
           /\ \A i \in 1 .. Len(q) : Append(q, e)[i] = q[i]
           /\ \A i \in 1 .. Len(Append(q, e)) : i \in 1 .. Len(q) \/ i = Len(q) + 1
  OBVIOUS

(* A queue is empty when nothing is in it. *)
LEMMA QueueEmpty == ASSUME NEW S, NEW q \in Seq(S) PROVE q # <<>> <=> Len(q) # 0
  OBVIOUS

(* A queue that another is put behind. *)
LEMMA QueueConcat ==
    ASSUME NEW S, NEW q \in Seq(S), NEW p \in Seq(S)
    PROVE  /\ q \o p \in Seq(S) /\ Len(q) \in Nat /\ Len(p) \in Nat
           /\ Len(q \o p) = Len(q) + Len(p)
           /\ \A i \in 1 .. Len(q) + Len(p) :
                 (q \o p)[i] = IF i <= Len(q) THEN q[i] ELSE p[i - Len(q)]
  OBVIOUS

-----------------------------------------------------------------------------
(* A call that wrote its request holds the lock of its client until it      *)
(* leaves, so no other call writes to that client meanwhile.                *)
Holding(a) == askStep[a] \in {"looping", "reading"}

LocksHeld ==
    /\ \A a \in Askers : askStep[a] \in {"found", "looping", "reading"} => mine[a] # 0
    /\ \A a \in Askers : Holding(a) => mine[a] \in opLocked
    /\ \A a, b \in Askers : Holding(a) /\ Holding(b) /\ mine[a] = mine[b] => a = b

(* The client knows what its server knows, and a call that waits wants the  *)
(* text it opened.                                                          *)
SameDocument ==
    /\ opened = known
    /\ \A a \in Askers : Holding(a) => wanted[a] = known[mine[a]].text

(* Answers are typed, none is to a request that was not made, and one to    *)
(* the last request is about the document as the server still has it.       *)
RepliesMatch ==
    /\ pendingReqs \in [Clients -> SUBSET Nat]
    /\ replies \in [Clients -> Seq([id : Nat, text : Nat])]
    /\ \A c \in Clients : \A i \in 1 .. Len(replies[c]) :
           /\ replies[c][i].id <= nextReq[c]
           /\ replies[c][i].id = nextReq[c] => replies[c][i].text = known[c].text

Unanswered == \A a \in Askers : askStep[a] # "idle" => answer[a] = 0

(* A process that runs is in the map, was thrown away or is being closed.   *)
ProcessesFound ==
    /\ running \subseteq {mapped} \cup droppedClients \cup taken
    /\ closer = "idle" => taken = {}

LspIInv == /\ LspTypeOK /\ LocksHeld /\ SameDocument /\ RepliesMatch
           /\ Unanswered /\ AnswersCurrentText /\ ProcessesFound

-----------------------------------------------------------------------------
(* The invariant holds before the first call. *)
LEMMA LspInitially == LspInit => LspIInv
  BY LspAssumption
     DEF LspInit, LspIInv, LspTypeOK, LocksHeld, Holding, SameDocument, RepliesMatch,
         Unanswered, AnswersCurrentText, ProcessesFound, Clients, Unopened

(* The clients made so far are among those that may be made.                *)
LEMMA Startable ==
    ASSUME LspIInv
    PROVE  /\ started \in 0 .. MaxServers /\ started \in Nat /\ 1 .. started \subseteq Clients
           /\ mapped \in 0 .. started /\ running \subseteq 1 .. started /\ running \subseteq Clients
  <1>1. started \in 0 .. MaxServers /\ mapped \in 0 .. started /\ running \subseteq 1 .. started
    BY Zenon DEF LspIInv, LspTypeOK
  <1>. QED
    BY <1>1, LspAssumption DEF Clients

(* The types of what a client and its server exchange ...                   *)
WiresTyped ==
    /\ opened \in [Clients -> [text : Nat, version : Nat]]
    /\ known \in [Clients -> [text : Nat, version : Nat]]
    /\ nextReq \in [Clients -> Nat]
    /\ \A c \in Clients : pendingReqs[c] \subseteq 1 .. nextReq[c]

(* Every step keeps what is said of the wires. *)
LEMMA WiresKept ==
    ASSUME LspIInv, [LspNext]_lspVars
    PROVE  WiresTyped'
  <1>. USE DEF wires, theMap, closing
  <1>t. WiresTyped /\ text \in Nat /\ LocksHeld /\ RepliesMatch
    BY LspAssumption DEF LspIInv, LspTypeOK, WiresTyped
  <1>1. ASSUME NEW a \in Askers, OpenAndAsk(a) PROVE WiresTyped'
    <2>1. mine[a] \in Clients
      BY <1>1, Startable, Zenon DEF OpenAndAsk
    <2>2. /\ opened' \in [Clients -> [text : Nat, version : Nat]]
          /\ known' \in [Clients -> [text : Nat, version : Nat]]
      <3>1. opened[mine[a]].version + 1 \in Nat
        BY <1>t, <2>1 DEF WiresTyped
      <3>2. [text |-> text, version |-> opened[mine[a]].version + 1] \in [text : Nat, version : Nat]
        BY <1>t, <3>1, Zenon
      <3>3. CASE opened[mine[a]].text = text
        BY <1>t, <1>1, <3>3, Zenon DEF OpenAndAsk, open, WiresTyped
      <3>4. CASE opened[mine[a]].text # text
        <4>1. /\ opened' = [opened EXCEPT ![mine[a]] =
                              [text |-> text, version |-> opened[mine[a]].version + 1]]
              /\ known' = [known EXCEPT ![mine[a]] = opened'[mine[a]]]
          BY <1>1, <3>4, Zenon DEF OpenAndAsk, open
        <4>2. opened' \in [Clients -> [text : Nat, version : Nat]]
          BY <1>t, <4>1, <3>2, Zenon DEF WiresTyped
        <4>. QED
          BY <1>t, <2>1, <4>1, <4>2, Zenon DEF WiresTyped
      <3>. QED
        BY <3>3, <3>4, Zenon
    <2>3. nextReq[mine[a]] + 1 \in Nat /\ nextReq' = [nextReq EXCEPT ![mine[a]] = nextReq[mine[a]] + 1]
          /\ nextReq' \in [Clients -> Nat]
      BY <1>t, <1>1, <2>1 DEF OpenAndAsk, WiresTyped
    <2>4. ASSUME NEW c \in Clients PROVE pendingReqs'[c] \subseteq 1 .. nextReq'[c]
      <3>1. pendingReqs[c] \subseteq 1 .. nextReq[c] /\ nextReq[c] \in Nat
        BY <1>t, Zenon DEF WiresTyped
      <3>2. pendingReqs' = [pendingReqs EXCEPT ![mine[a]] = @ \cup {nextReq'[mine[a]]}]
        BY <1>1, Zenon DEF OpenAndAsk
      <3>3. CASE c = mine[a]
        <4>1. nextReq'[c] = nextReq[c] + 1 /\ pendingReqs'[c] = pendingReqs[c] \cup {nextReq[c] + 1}
          BY <1>t, <2>1, <2>3, <3>2, <3>3, Zenon DEF RepliesMatch, WiresTyped
        <4>. QED
          BY <3>1, <4>1
      <3>4. CASE c # mine[a]
        BY <1>t, <2>1, <2>3, <3>1, <3>2, <3>4, Zenon DEF RepliesMatch, WiresTyped
      <3>. QED
        BY <3>3, <3>4, Zenon
    <2>. QED
      BY <2>2, <2>3, <2>4, Zenon DEF WiresTyped
  <1>2. ASSUME NEW c \in Clients, NEW i \in pendingReqs[c], ServerReply(c, i) PROVE WiresTyped'
    BY <1>t, <1>2, Zenon DEF ServerReply, RepliesMatch, WiresTyped
  <1>3. CASE UNCHANGED <<opened, known, nextReq, pendingReqs>>
    BY <1>t, <1>3, Zenon DEF WiresTyped
  <1>. QED
    BY <1>1, <1>2, <1>3, Zenon DEF LspNext, lspVars, LspCall, StartProcess, AskFails, Looks, ReadReply,
       ReadFails, ServerEnds, CloseClient, Edits, CloseEnds, CloseTakes

(* A call that reads holds a client, and reads a typed answer.              *)
LEMMA ReadsOwn ==
    ASSUME LspIInv, NEW a \in Askers, Holding(a)
    PROVE  /\ mine[a] \in Clients
           /\ replies[mine[a]] \in Seq([id : Nat, text : Nat])
  <1>1. mine[a] # 0 /\ mine[a] \in 0 .. started
    BY Zenon DEF LspIInv, LspTypeOK, LocksHeld, Holding
  <1>2. mine[a] \in 1 .. started
    BY <1>1, Startable
  <1>3. mine[a] \in Clients
    BY <1>2, Startable, Zenon
  <1>. QED
    BY <1>3, Zenon DEF LspIInv, RepliesMatch

(* ... and of everything else.                                              *)
AskersTyped ==
    /\ opLocked \subseteq 1 .. started
    /\ askStep \in [Askers -> {"idle", "starting", "found", "looping", "reading"}]
    /\ mine \in [Askers -> 0 .. started]
    /\ wanted \in [Askers -> Nat] /\ answer \in [Askers -> Nat]

ServersTyped ==
    /\ text \in 1 .. MaxEdits + 1 /\ mapped \in 0 .. started /\ started \in 0 .. MaxServers
    /\ running \subseteq 1 .. started
    /\ closer \in {"idle", "close", "reconfigure"}
    /\ taken \subseteq 1 .. started /\ droppedClients \subseteq 1 .. started

(* Every step keeps what is said of the server processes. *)
LEMMA ServersKept ==
    ASSUME LspIInv, [LspNext]_lspVars
    PROVE  ServersTyped'
  <1>. USE DEF wires, theMap, closing
  <1>t. ServersTyped
    BY Zenon DEF LspIInv, LspTypeOK, ServersTyped
  <1>1. ASSUME NEW a \in Askers, StartProcess(a) PROVE ServersTyped'
    <2>1. started' \in 0 .. MaxServers /\ 1 .. started \subseteq 1 .. started'
          /\ 0 .. started \subseteq 0 .. started' /\ started' \in 1 .. started'
      BY <1>t, <1>1, LspAssumption DEF StartProcess, ServersTyped
    <2>2. mapped' \in {mapped, started'} /\ running' \subseteq running \cup {started'}
      BY <1>1, Zenon DEF StartProcess, RunningAfterStart
    <2>3. mapped' \in 0 .. started' /\ running' \subseteq 1 .. started'
      <3>1. mapped \in 0 .. started /\ running \subseteq 1 .. started
        BY Startable, Zenon
      <3>2. started' \in 0 .. started'
        BY <2>1
      <3>. QED
        BY <2>1, <2>2, <3>1, <3>2, Zenon
    <2>. QED
      BY <1>t, <1>1, <2>1, <2>3, Zenon DEF StartProcess, ServersTyped
  <1>2. ASSUME NEW c \in Clients, ServerEnds(c) \/ CloseClient(c) PROVE ServersTyped'
    BY <1>t, <1>2, Zenon DEF ServerEnds, CloseClient, ServersTyped
  <1>3. CASE Edits
    BY <1>t, <1>3, LspAssumption DEF Edits, ServersTyped
  <1>4. CASE CloseEnds
    <2>1. mapped' \in {mapped, 0} /\ droppedClients' \subseteq droppedClients \cup ({mapped} \ {0})
      BY <1>4, Zenon DEF CloseEnds
    <2>2. {mapped, 0} \subseteq 0 .. started /\ {mapped} \ {0} \subseteq 1 .. started
      BY Startable
    <2>. QED
      BY <1>t, <1>4, <2>1, <2>2, Zenon DEF CloseEnds, ServersTyped
  <1>5. ASSUME NEW how \in {"close", "reconfigure"}, CloseTakes(how) PROVE ServersTyped'
    BY <1>t, <1>5, LspAssumption DEF CloseTakes, ServersTyped
  <1>6. CASE UNCHANGED <<text, mapped, started, running, closer, taken, droppedClients>>
    BY <1>t, <1>6, Zenon DEF ServersTyped
  <1>. QED
    BY <1>1, <1>2, <1>3, <1>4, <1>5, <1>6, Zenon
       DEF LspNext, lspVars, LspCall, OpenAndAsk, ServerReply, AskFails, Looks, ReadReply, ReadFails

(* Every step keeps what is said of the calls. *)
LEMMA CallsKept ==
    ASSUME LspIInv, [LspNext]_lspVars
    PROVE  AskersTyped'
  <1>. USE DEF wires, theMap, closing, Steps, Leaves
  <1>t. AskersTyped /\ LocksHeld /\ RepliesMatch /\ text \in Nat
    BY LspAssumption DEF LspIInv, LspTypeOK, AskersTyped
  <1>0. started \in Nat /\ mapped \in 0 .. started /\ running \subseteq 1 .. started /\ 0 \in 0 .. started
    BY Startable
  <1>1. ASSUME NEW a \in Askers, LspCall(a) PROVE AskersTyped'
    BY <1>t, <1>0, <1>1, Zenon DEF LspCall, AskersTyped
  <1>2. ASSUME NEW a \in Askers, StartProcess(a) PROVE AskersTyped'
    <2>1. 1 .. started \subseteq 1 .. started' /\ 0 .. started \subseteq 0 .. started'
          /\ mapped' \in 0 .. started' /\ 0 \in 0 .. started'
      BY <1>0, <1>2 DEF StartProcess
    <2>. QED
      BY <1>t, <1>2, <2>1 DEF StartProcess, AskersTyped
  <1>3. ASSUME NEW a \in Askers, OpenAndAsk(a) PROVE AskersTyped'
    <2>1. mine[a] \in 1 .. started
      BY <1>0, <1>3, Zenon DEF OpenAndAsk
    <2>. QED
      BY <1>t, <1>3, <2>1, Zenon DEF OpenAndAsk, AskersTyped
  <1>4. ASSUME NEW a \in Askers, AskFails(a) PROVE AskersTyped'
    BY <1>t, <1>0, <1>4, Zenon DEF AskFails, AskersTyped
  <1>5. ASSUME NEW a \in Askers, Looks(a) PROVE AskersTyped'
    BY <1>t, <1>0, <1>5 DEF Looks, AskersTyped
  <1>6. ASSUME NEW a \in Askers, ReadReply(a) PROVE AskersTyped'
    <2>1. replies[mine[a]] \in Seq([id : Nat, text : Nat]) /\ replies[mine[a]] # <<>>
      BY <1>6, ReadsOwn, Zenon DEF ReadReply, Holding
    <2>h. Head(replies[mine[a]]) \in [id : Nat, text : Nat]
      BY <2>1, QueueHead, Zenon
    <2>2. Head(replies[mine[a]]).text \in Nat
      BY <2>h, Zenon
    <2>. QED
      BY <1>t, <1>0, <1>6, <2>2, Zenon DEF ReadReply, AskersTyped
  <1>7. ASSUME NEW a \in Askers, ReadFails(a) PROVE AskersTyped'
    BY <1>t, <1>0, <1>7, Zenon DEF ReadFails, AskersTyped
  <1>8. CASE UNCHANGED <<opLocked, started, askStep, mine, wanted, answer>>
    BY <1>t, <1>8, Zenon DEF AskersTyped
  <1>. QED
    BY <1>1, <1>2, <1>3, <1>4, <1>5, <1>6, <1>7, <1>8, Zenon
       DEF LspNext, lspVars, ServerReply, ServerEnds, CloseClient, Edits, CloseEnds, CloseTakes

(* A client has one call at a time: every step keeps the locks held.        *)
LEMMA LocksKept ==
    ASSUME LspIInv, [LspNext]_lspVars
    PROVE  LocksHeld'
  <1>. USE DEF wires, theMap, closing, Steps, Leaves, LocksHeld, Holding
  <1>t. LocksHeld /\ askStep \in [Askers -> {"idle", "starting", "found", "looping", "reading"}]
        /\ mine \in [Askers -> 0 .. started]
    BY Zenon DEF LspIInv, LspTypeOK
  <1>1. ASSUME NEW a \in Askers, LspCall(a) PROVE LocksHeld'
    BY <1>t, <1>1, Zenon DEF LspCall
  <1>2. ASSUME NEW a \in Askers, StartProcess(a) PROVE LocksHeld'
    <2>1. started + 1 # 0
      BY Startable
    <2>. QED
      BY <1>t, <1>2, <2>1 DEF StartProcess
  <1>3. ASSUME NEW a \in Askers, OpenAndAsk(a) PROVE LocksHeld'
    BY <1>t, <1>3, Zenon DEF OpenAndAsk
  <1>4. ASSUME NEW a \in Askers, AskFails(a) PROVE LocksHeld'
    BY <1>t, <1>4, Zenon DEF AskFails
  <1>5. ASSUME NEW a \in Askers, Looks(a) PROVE LocksHeld'
    BY <1>t, <1>5 DEF Looks
  <1>6. ASSUME NEW a \in Askers, ReadReply(a) PROVE LocksHeld'
    <2>1. CASE askStep[a] = "reading" /\ Leaves(a) /\ opLocked' = opLocked \ {mine[a]}
      BY <1>t, <2>1
    <2>2. CASE askStep[a] = "reading" /\ Steps(a, "looping") /\ UNCHANGED <<mine, opLocked>>
      BY <1>t, <2>2
    <2>. QED
      BY <1>6, <2>1, <2>2, Zenon DEF ReadReply
  <1>7. ASSUME NEW a \in Askers, ReadFails(a) PROVE LocksHeld'
    BY <1>t, <1>7, Zenon DEF ReadFails
  <1>8. CASE UNCHANGED <<opLocked, askStep, mine>>
    BY <1>t, <1>8, Zenon
  <1>. QED
    BY <1>1, <1>2, <1>3, <1>4, <1>5, <1>6, <1>7, <1>8, Zenon
       DEF LspNext, lspVars, ServerReply, ServerEnds, CloseClient, Edits, CloseEnds, CloseTakes

(* The document and the answers about it change under the lock only.        *)
LEMMA DocumentKept ==
    ASSUME LspIInv, [LspNext]_lspVars
    PROVE  SameDocument'
  <1>. USE DEF wires, theMap, closing, Steps, Leaves, Holding, SameDocument
  <1>t. /\ SameDocument /\ LocksHeld
        /\ askStep \in [Askers -> {"idle", "starting", "found", "looping", "reading"}]
        /\ mine \in [Askers -> 0 .. started] /\ wanted \in [Askers -> Nat]
        /\ known \in [Clients -> [text : Nat, version : Nat]]
    BY Zenon DEF LspIInv, LspTypeOK
  <1>1. ASSUME NEW a \in Askers, LspCall(a) PROVE SameDocument'
    BY <1>t, <1>1, Zenon DEF LspCall
  <1>2. ASSUME NEW a \in Askers, StartProcess(a) PROVE SameDocument'
    BY <1>t, <1>2, Zenon DEF StartProcess
  <1>3. ASSUME NEW a \in Askers, OpenAndAsk(a) PROVE SameDocument'
    <2>1. mine[a] \in Clients
      BY <1>3, Startable, Zenon DEF OpenAndAsk
    <2>2. opened' = known'
      BY <1>t, <1>3, <2>1 DEF OpenAndAsk, open
    <2>3. known'[mine[a]].text = text /\ \A c \in Clients : c # mine[a] => known'[c] = known[c]
      BY <1>t, <1>3, <2>1 DEF OpenAndAsk, open
    <2>4. ASSUME NEW b \in Askers, Holding(b)' PROVE wanted'[b] = known'[mine'[b]].text
      <3>1. CASE b = a
        BY <1>t, <1>3, <2>3, <3>1, Zenon DEF OpenAndAsk
      <3>2. CASE b # a
        <4>1. Holding(b) /\ wanted'[b] = wanted[b] /\ mine' = mine
          BY <1>t, <1>3, <2>4, <3>2, Zenon DEF OpenAndAsk
        <4>2. mine[b] # mine[a] /\ mine[b] \in Clients
          BY <1>3, <4>1, ReadsOwn, Zenon DEF OpenAndAsk, LspIInv, LocksHeld
        <4>. QED
          BY <1>t, <2>3, <4>1, <4>2, Zenon
      <3>. QED
        BY <3>1, <3>2, Zenon
    <2>. QED
      BY <2>2, <2>4, Zenon
  <1>4. ASSUME NEW a \in Askers, AskFails(a) PROVE SameDocument'
    BY <1>t, <1>4, Zenon DEF AskFails
  <1>5. ASSUME NEW a \in Askers, Looks(a) PROVE SameDocument'
    BY <1>t, <1>5, Zenon DEF Looks
  <1>6. ASSUME NEW a \in Askers, ReadReply(a) PROVE SameDocument'
    BY <1>t, <1>6, Zenon DEF ReadReply
  <1>7. ASSUME NEW a \in Askers, ReadFails(a) PROVE SameDocument'
    BY <1>t, <1>7, Zenon DEF ReadFails
  <1>8. CASE UNCHANGED <<opened, known, askStep, mine, wanted>>
    BY <1>t, <1>8, Zenon
  <1>. QED
    BY <1>1, <1>2, <1>3, <1>4, <1>5, <1>6, <1>7, <1>8, Zenon
       DEF LspNext, lspVars, ServerReply, ServerEnds, CloseClient, Edits, CloseEnds, CloseTakes

(* Every step keeps what is said of the replies under way. *)
LEMMA RepliesKept ==
    ASSUME LspIInv, [LspNext]_lspVars
    PROVE  RepliesMatch'
  <1>. USE DEF wires, theMap, closing
  <1>t. RepliesMatch /\ nextReq \in [Clients -> Nat] /\ known \in [Clients -> [text : Nat, version : Nat]]
    BY Zenon DEF LspIInv, LspTypeOK
  <1>1. ASSUME NEW a \in Askers, OpenAndAsk(a) PROVE RepliesMatch'
    <2>1. mine[a] \in Clients
      BY <1>1, Startable, Zenon DEF OpenAndAsk
    <2>2. /\ nextReq' = [nextReq EXCEPT ![mine[a]] = nextReq[mine[a]] + 1]
          /\ replies' = replies
          /\ pendingReqs' = [pendingReqs EXCEPT ![mine[a]] = pendingReqs[mine[a]] \cup {nextReq'[mine[a]]}]
      BY <1>1, Zenon DEF OpenAndAsk
    <2>3. nextReq'[mine[a]] = nextReq[mine[a]] + 1 /\ nextReq'[mine[a]] \in Nat
      BY <1>t, <2>1, <2>2
    <2>4. pendingReqs' \in [Clients -> SUBSET Nat]
      BY <1>t, <2>1, <2>2, <2>3, Zenon DEF RepliesMatch
    <2>5. \A c \in Clients : c # mine[a] => known'[c] = known[c] /\ nextReq'[c] = nextReq[c]
      BY <1>t, <1>1, <2>1, <2>2, Zenon DEF OpenAndAsk, open
    <2>6. ASSUME NEW c \in Clients, NEW i \in 1 .. Len(replies'[c])
          PROVE  /\ replies'[c][i].id <= nextReq'[c]
                 /\ replies'[c][i].id = nextReq'[c] => replies'[c][i].text = known'[c].text
      <3>a. replies[c] \in Seq([id : Nat, text : Nat]) /\ i \in 1 .. Len(replies[c])
        BY <1>t, <2>2, Zenon DEF RepliesMatch
      <3>b. replies[c][i] \in [id : Nat, text : Nat]
        BY <3>a, QueueElement, Zenon
      <3>1. replies[c][i].id \in Nat /\ replies[c][i].id <= nextReq[c]
        BY <1>t, <3>a, <3>b, Zenon DEF RepliesMatch
      <3>2. CASE c = mine[a]
        <4>1. replies[c][i].id < nextReq'[c]
          BY <1>t, <2>3, <3>1, <3>2
        <4>. QED
          BY <1>t, <2>2, <2>3, <3>1, <3>2, <4>1
      <3>3. CASE c # mine[a]
        BY <1>t, <2>2, <2>5, <3>3 DEF RepliesMatch
      <3>. QED
        BY <3>2, <3>3, Zenon
    <2>. QED
      BY <1>t, <2>2, <2>4, <2>6, Zenon DEF RepliesMatch
  <1>2. ASSUME NEW c \in Clients, NEW i \in pendingReqs[c], ServerReply(c, i) PROVE RepliesMatch'
    <2>1. i \in Nat /\ i <= nextReq[c]
      BY <1>t DEF LspIInv, LspTypeOK
    <2>2. [id |-> i, text |-> known[c].text] \in [id : Nat, text : Nat]
      BY <1>t, <2>1, Zenon
    <2>3. replies' = [replies EXCEPT ![c] = Append(replies[c], [id |-> i, text |-> known[c].text])]
      BY <1>2, Zenon DEF ServerReply
    <2>4. replies'[c] = Append(replies[c], [id |-> i, text |-> known[c].text])
          /\ replies[c] \in Seq([id : Nat, text : Nat])
      BY <1>t, <2>3, Zenon DEF RepliesMatch
    <2>5. /\ replies'[c] \in Seq([id : Nat, text : Nat]) /\ Len(replies'[c]) = Len(replies[c]) + 1
          /\ \A k \in 1 .. Len(replies[c]) : replies'[c][k] = replies[c][k]
          /\ replies'[c][Len(replies[c]) + 1] = [id |-> i, text |-> known[c].text]
      BY <2>2, <2>4
    <2>6. replies' \in [Clients -> Seq([id : Nat, text : Nat])]
      BY <1>t, <2>3, <2>4, <2>5, Zenon DEF RepliesMatch
    <2>7. pendingReqs' \in [Clients -> SUBSET Nat]
      BY <1>t, <1>2, Zenon DEF ServerReply, RepliesMatch
    <2>8. UNCHANGED <<nextReq, known>>
      BY <1>2, Zenon DEF ServerReply
    <2>9. ASSUME NEW d \in Clients, NEW k \in 1 .. Len(replies'[d])
          PROVE  /\ replies'[d][k].id <= nextReq[d]
                 /\ replies'[d][k].id = nextReq[d] => replies'[d][k].text = known[d].text
      <3>1. CASE d # c
        BY <1>t, <2>3, <3>1, Zenon DEF RepliesMatch
      <3>2. CASE d = c /\ k \in 1 .. Len(replies[c])
        BY <1>t, <2>5, <3>2, Zenon DEF RepliesMatch
      <3>3. CASE d = c /\ k = Len(replies[c]) + 1
        <4>1. replies'[d][k] = [id |-> i, text |-> known[c].text]
          BY <2>5, <3>3, Zenon
        <4>2. replies'[d][k].id = i /\ replies'[d][k].text = known[d].text
          BY <3>3, <4>1
        <4>. QED
          BY <2>1, <3>3, <4>2, Zenon
      <3>4. Len(replies[c]) \in Nat
        BY <2>4
      <3>. QED
        BY <2>5, <3>1, <3>2, <3>3, <3>4
    <2>. QED
      BY <2>6, <2>7, <2>8, <2>9, Zenon DEF RepliesMatch
  <1>3. ASSUME NEW a \in Askers, ReadReply(a) PROVE RepliesMatch'
    <2>1. mine[a] \in Clients /\ replies[mine[a]] \in Seq([id : Nat, text : Nat]) /\ replies[mine[a]] # <<>>
      BY <1>3, ReadsOwn, Zenon DEF ReadReply, Holding
    <2>2. replies' = [replies EXCEPT ![mine[a]] = Tail(replies[mine[a]])]
          /\ UNCHANGED <<known, nextReq, pendingReqs>>
      BY <1>3, Zenon DEF ReadReply
    <2>3. /\ Tail(replies[mine[a]]) \in Seq([id : Nat, text : Nat])
          /\ \A i \in 1 .. Len(Tail(replies[mine[a]])) :
                i + 1 \in 1 .. Len(replies[mine[a]]) /\ Tail(replies[mine[a]])[i] = replies[mine[a]][i + 1]
      BY <2>1, QueueHead, Zenon
    <2>4. replies' \in [Clients -> Seq([id : Nat, text : Nat])]
      BY <1>t, <2>2, <2>3, Zenon DEF RepliesMatch
    <2>5. ASSUME NEW c \in Clients, NEW i \in 1 .. Len(replies'[c])
          PROVE  \E k \in 1 .. Len(replies[c]) : replies'[c][i] = replies[c][k]
      <3>1. CASE c = mine[a]
        BY <1>t, <2>1, <2>2, <2>3, <3>1, Zenon DEF RepliesMatch
      <3>2. CASE c # mine[a]
        BY <1>t, <2>1, <2>2, <3>2, Zenon DEF RepliesMatch
      <3>. QED
        BY <3>1, <3>2, Zenon
    <2>6. ASSUME NEW c \in Clients, NEW i \in 1 .. Len(replies'[c])
          PROVE  /\ replies'[c][i].id <= nextReq[c]
                 /\ replies'[c][i].id = nextReq[c] => replies'[c][i].text = known[c].text
      <3>1. PICK k \in 1 .. Len(replies[c]) : replies'[c][i] = replies[c][k]
        BY <2>5, Zenon
      <3>. QED
        BY <1>t, <3>1, Zenon DEF RepliesMatch
    <2>. QED
      BY <1>t, <2>2, <2>4, <2>6 DEF RepliesMatch
  <1>4. CASE UNCHANGED <<pendingReqs, replies, nextReq, known>>
    BY <1>t, <1>4, Zenon DEF RepliesMatch
  <1>. QED
    BY <1>1, <1>2, <1>3, <1>4, Zenon
       DEF LspNext, lspVars, LspCall, StartProcess, AskFails, Looks, ReadFails, ServerEnds,
           CloseClient, Edits, CloseEnds, CloseTakes

(* An answer that is taken is about the text that was asked about.          *)
LEMMA AnswersKept ==
    ASSUME LspIInv, [LspNext]_lspVars
    PROVE  Unanswered' /\ AnswersCurrentText'
  <1>. USE DEF wires, theMap, closing, Steps, Leaves, Unanswered, AnswersCurrentText
  <1>t. /\ Unanswered /\ AnswersCurrentText
        /\ askStep \in [Askers -> {"idle", "starting", "found", "looping", "reading"}]
        /\ wanted \in [Askers -> Nat] /\ answer \in [Askers -> Nat]
    BY Zenon DEF LspIInv, LspTypeOK
  <1>1. ASSUME NEW a \in Askers, LspCall(a) PROVE Unanswered' /\ AnswersCurrentText'
    BY <1>t, <1>1, Zenon DEF LspCall
  <1>2. ASSUME NEW a \in Askers, StartProcess(a) PROVE Unanswered' /\ AnswersCurrentText'
    BY <1>t, <1>2, Zenon DEF StartProcess
  <1>3. ASSUME NEW a \in Askers, OpenAndAsk(a) PROVE Unanswered' /\ AnswersCurrentText'
    BY <1>t, <1>3, Zenon DEF OpenAndAsk
  <1>4. ASSUME NEW a \in Askers, AskFails(a) PROVE Unanswered' /\ AnswersCurrentText'
    BY <1>t, <1>4, Zenon DEF AskFails
  <1>5. ASSUME NEW a \in Askers, Looks(a) PROVE Unanswered' /\ AnswersCurrentText'
    BY <1>t, <1>5, Zenon DEF Looks
  <1>6. ASSUME NEW a \in Askers, ReadReply(a) PROVE Unanswered' /\ AnswersCurrentText'
    <2>1. Holding(a) /\ replies[mine[a]] # <<>>
      BY <1>6, Zenon DEF ReadReply, Holding
    <2>2. mine[a] \in Clients /\ replies[mine[a]] \in Seq([id : Nat, text : Nat])
      BY <2>1, ReadsOwn, Zenon
    <2>3. Head(replies[mine[a]]) = replies[mine[a]][1] /\ 1 \in 1 .. Len(replies[mine[a]])
      BY <2>1, <2>2, QueueHead, Zenon
    <2>4. IsReply(mine[a], Head(replies[mine[a]])) => Head(replies[mine[a]]).text = known[mine[a]].text
      BY <2>2, <2>3, Zenon DEF IsReply, LspIInv, RepliesMatch
    <2>5. wanted[a] = known[mine[a]].text
      BY <2>1, Zenon DEF LspIInv, SameDocument
    <2>6. CASE IsReply(mine[a], Head(replies[mine[a]]))
      BY <1>t, <1>6, <2>4, <2>5, <2>6 DEF ReadReply
    <2>7. CASE ~IsReply(mine[a], Head(replies[mine[a]]))
      BY <1>t, <1>6, <2>7, Zenon DEF ReadReply
    <2>. QED
      BY <2>6, <2>7, Zenon
  <1>7. ASSUME NEW a \in Askers, ReadFails(a) PROVE Unanswered' /\ AnswersCurrentText'
    BY <1>t, <1>7, Zenon DEF ReadFails
  <1>8. CASE UNCHANGED <<askStep, wanted, answer>>
    BY <1>t, <1>8, Zenon
  <1>. QED
    BY <1>1, <1>2, <1>3, <1>4, <1>5, <1>6, <1>7, <1>8, Zenon
       DEF LspNext, lspVars, ServerReply, ServerEnds, CloseClient, Edits, CloseEnds, CloseTakes

(* No process is lost sight of.                                             *)
LEMMA ProcessesKept ==
    ASSUME LspIInv, [LspNext]_lspVars
    PROVE  ProcessesFound'
  <1>. USE DEF wires, theMap, closing, ProcessesFound
  <1>t. ProcessesFound /\ 0 \notin running
    <2>1. running \subseteq 1 .. started
      BY Startable, Zenon
    <2>. QED
      BY <2>1 DEF LspIInv
  <1>1. ASSUME NEW a \in Askers, StartProcess(a) PROVE ProcessesFound'
    BY <1>t, <1>1, Zenon DEF StartProcess, RunningAfterStart
  <1>2. ASSUME NEW c \in Clients, ServerEnds(c) \/ CloseClient(c) PROVE ProcessesFound'
    BY <1>t, <1>2, Zenon DEF ServerEnds, CloseClient
  <1>3. CASE CloseEnds
    BY <1>t, <1>3, Zenon DEF CloseEnds
  <1>4. ASSUME NEW how \in {"close", "reconfigure"}, CloseTakes(how) PROVE ProcessesFound'
    BY <1>t, <1>4, Zenon DEF CloseTakes
  <1>5. CASE UNCHANGED <<mapped, running, closer, taken, droppedClients>>
    BY <1>t, <1>5, Zenon
  <1>. QED
    BY <1>1, <1>2, <1>3, <1>4, <1>5
       DEF LspNext, lspVars, LspCall, OpenAndAsk, AskFails, Looks, ReadReply, ReadFails,
           ServerReply, Edits

(* Calls that share a language server get answers about the text they       *)
(* asked about, and a server nothing uses can be found and closed           *)
(* (client.call, Manager.get, Manager.Close and Reconfigure).               *)
THEOREM AnswersAreCurrent == LspSpec => []LspInv
  <1>1. LspIInv /\ [LspNext]_lspVars => LspIInv'
    <2> SUFFICES ASSUME LspIInv, [LspNext]_lspVars PROVE LspIInv'
      BY Zenon
    <2>1. LspTypeOK'
      BY WiresKept, ServersKept, CallsKept, Zenon DEF WiresTyped, ServersTyped, AskersTyped, LspTypeOK
    <2>. QED
      BY <2>1, LocksKept, DocumentKept, RepliesKept, AnswersKept, ProcessesKept, Zenon DEF LspIInv
  <1>2. LspIInv => LspInv
    BY Zenon DEF LspIInv, LspInv, NoStrayServers, ProcessesFound
  <1>. QED
    BY <1>1, <1>2, LspInitially, PTL DEF LspSpec

-----------------------------------------------------------------------------
(* Events of consecutive numbers, the first after a. *)
Run(q, a) == \A i \in 1 .. Len(q) : q[i] = a + i

Events == 1 .. MaxLog

(* No events are consecutive. *)
LEMMA RunEmpty == ASSUME NEW a PROVE Run(<<>>, a) /\ Len(<<>>) = 0
  BY DEF Run

(* One more event, the next one. *)
LEMMA RunAppend ==
    ASSUME NEW q \in Seq(Events), NEW a \in Nat, Run(q, a), NEW e \in Events,
           e = a + Len(q) + 1
    PROVE  /\ Append(q, e) \in Seq(Events) /\ Len(Append(q, e)) = Len(q) + 1
           /\ Run(Append(q, e), a)
  <1>1. /\ Append(q, e) \in Seq(Events) /\ Len(q) \in Nat /\ Len(Append(q, e)) = Len(q) + 1
        /\ Append(q, e)[Len(q) + 1] = e
        /\ \A i \in 1 .. Len(q) : Append(q, e)[i] = q[i]
    BY QueueAppend
  <1>2. ASSUME NEW i \in 1 .. Len(Append(q, e)) PROVE Append(q, e)[i] = a + i
    <2>1. CASE i \in 1 .. Len(q)
      BY <1>1, <2>1, Zenon DEF Run
    <2>2. CASE i = Len(q) + 1
      BY <1>1, <2>2
    <2>. QED
      BY <1>1, <2>1, <2>2
  <1>. QED
    BY <1>1, <1>2, Zenon DEF Run

(* The first of consecutive events taken away. *)
LEMMA RunTail ==
    ASSUME NEW q \in Seq(Events), NEW a \in Nat, Run(q, a), q # <<>>
    PROVE  /\ q[1] = a + 1 /\ q[1] \in Events /\ Len(q) \in Nat /\ Len(q) # 0
           /\ Tail(q) \in Seq(Events) /\ Len(Tail(q)) = Len(q) - 1
           /\ Run(Tail(q), a + 1)
  <1>1. Len(q) \in Nat /\ Len(q) # 0
    OBVIOUS
  <1>2. q[1] = a + 1
    BY <1>1 DEF Run
  <1>3. q[1] \in Events
    BY <1>1, QueueElement
  <1>4. /\ Tail(q) \in Seq(Events) /\ Len(Tail(q)) = Len(q) - 1
        /\ \A i \in 1 .. Len(Tail(q)) : Tail(q)[i] = q[i + 1]
    BY QueueHead, Zenon
  <1>5. ASSUME NEW i \in 1 .. Len(Tail(q)) PROVE Tail(q)[i] = (a + 1) + i
    <2>1. i + 1 \in 1 .. Len(q)
      BY <1>1, <1>4
    <2>2. q[i + 1] = a + (i + 1)
      BY <2>1, Zenon DEF Run
    <2>. QED
      BY <1>4, <2>2
  <1>. QED
    BY <1>1, <1>2, <1>3, <1>4, <1>5, Zenon DEF Run

(* Events that follow on one another are consecutive together. *)
LEMMA RunConcat ==
    ASSUME NEW q \in Seq(Events), NEW p \in Seq(Events), NEW a \in Nat,
           Run(q, a), Run(p, a + Len(q))
    PROVE  /\ q \o p \in Seq(Events) /\ Len(q \o p) = Len(q) + Len(p)
           /\ Run(q \o p, a) /\ Len(q) \in Nat /\ Len(p) \in Nat
  <1>1. /\ q \o p \in Seq(Events) /\ Len(q) \in Nat /\ Len(p) \in Nat
        /\ Len(q \o p) = Len(q) + Len(p)
        /\ \A i \in 1 .. Len(q) + Len(p) :
              (q \o p)[i] = IF i <= Len(q) THEN q[i] ELSE p[i - Len(q)]
    BY QueueConcat, Zenon
  <1>2. ASSUME NEW i \in 1 .. Len(q \o p) PROVE (q \o p)[i] = a + i
    <2>1. CASE i <= Len(q)
      BY <1>1, <2>1 DEF Run
    <2>2. CASE ~(i <= Len(q))
      <3>1. i - Len(q) \in 1 .. Len(p)
        BY <1>1, <2>2
      <3>2. p[i - Len(q)] = (a + Len(q)) + (i - Len(q))
        BY <3>1, Zenon DEF Run
      <3>. QED
        BY <1>1, <2>2, <3>2
    <2>. QED
      BY <2>1, <2>2, Zenon
  <1>. QED
    BY <1>1, <1>2, Zenon DEF Run

(* The events a poll finds. *)
LEMMA EventsFound ==
    ASSUME FeedTypeOK, NEW n \in Nat, n <= written
    PROVE  /\ EventsAfter(n) \in Seq(Events) /\ Len(EventsAfter(n)) = written - n
           /\ Run(EventsAfter(n), n)
           /\ EventsAfter(n) # <<>> => written > n /\ EventsAfter(n)[Len(EventsAfter(n))] = written
  <1>0. written \in Nat /\ written <= MaxLog /\ MaxLog \in Nat
    BY FeedAssumption DEF FeedTypeOK
  <1>1. written - n \in Nat
    BY <1>0
  <1>2. EventsAfter(n) \in [1 .. (written - n) -> Events]
    BY <1>0 DEF EventsAfter, Events
  <1>3. EventsAfter(n) \in Seq(Events) /\ Len(EventsAfter(n)) = written - n
    BY <1>1, <1>2
  <1>4. \A i \in 1 .. (written - n) : EventsAfter(n)[i] = n + i
    BY Zenon DEF EventsAfter
  <1>5. Run(EventsAfter(n), n)
    BY <1>3, <1>4, Zenon DEF Run
  <1>6. EventsAfter(n) # <<>> => written > n /\ EventsAfter(n)[Len(EventsAfter(n))] = written
    <2>1. EventsAfter(n) # <<>> => Len(EventsAfter(n)) # 0
      BY <1>3
    <2>2. EventsAfter(n) # <<>> => written > n /\ written - n \in 1 .. (written - n)
      BY <1>0, <1>1, <1>3, <2>1
    <2>3. EventsAfter(n)[Len(EventsAfter(n))] = EventsAfter(n)[written - n]
      BY <1>3, Zenon
    <2>4. EventsAfter(n) # <<>> => EventsAfter(n)[written - n] = n + (written - n)
      BY <1>4, <2>2, Zenon
    <2>. QED
      BY <1>0, <2>2, <2>3, <2>4
  <1>. QED
    BY <1>3, <1>5, <1>6, Zenon

-----------------------------------------------------------------------------
(* What the update loop has or has taken. *)
Taken == Len(received) + Len(gathered)

(* The last event of a batch. *)
BatchEnd(b) == (b[1] + Len(b)) - 1

(* The batches in the channel follow on one another and on what was taken, *)
(* up to the reader's position.                                            *)
ChannelInOrder ==
    /\ \A k \in 1 .. Len(chan) : chan[k] # <<>> /\ Run(chan[k], chan[k][1] - 1)
    /\ chan # <<>> => chan[1][1] = Taken + 1
    /\ \A k \in 1 .. (Len(chan) - 1) : chan[k + 1][1] = BatchEnd(chan[k]) + 1
    /\ after = IF chan = <<>> THEN Taken ELSE BatchEnd(chan[Len(chan)])

(* The update loop has the log's first events, and has taken the next.     *)
TakenInOrder == Run(received, 0) /\ Run(gathered, Len(received))

(* On a connection the reader's batch follows on its position, and the     *)
(* frames on the way on the batch.                                          *)
ReaderInOrder ==
    /\ ~remote => conn = "down"
    /\ conn = "down" => batch = <<>> /\ ~flushing
    /\ conn = "broken" /\ ~flushing => batch = <<>>
    /\ conn # "down" => Run(batch, after) /\ last = after + Len(batch)
    /\ conn = "up" => Run(net, last) /\ srv = last + Len(net)
    /\ after <= written /\ last <= written /\ srv <= written

FeedIInv == FeedTypeOK /\ TakenInOrder /\ ChannelInOrder /\ ReaderInOrder

(* The types of the numbers, and of the sequences. *)
Numbered ==
    /\ {written, srv, after, last} \subseteq 0 .. MaxLog
    /\ {remote, flushing} \subseteq BOOLEAN
    /\ conn \in {"down", "up", "broken"} /\ breaks \in 0 .. MaxBreaks
Queued ==
    /\ net \in Seq(Events) /\ batch \in Seq(Events)
    /\ chan \in Seq(Seq(Events)) /\ Len(chan) <= ChanCap
    /\ gathered \in Seq(Events) /\ received \in Seq(Events)

(* The types, as numbers and as queues. *)
LEMMA FeedTypes == FeedTypeOK <=> Numbered /\ Queued
  BY Zenon DEF FeedTypeOK, Numbered, Queued, Events

-----------------------------------------------------------------------------
(* The invariant holds before the first event. *)
LEMMA FeedInitially == FeedInit => FeedIInv
  <1>. SUFFICES ASSUME FeedInit PROVE FeedIInv
    BY Zenon
  <1>1. Numbered
    <2>1. 0 \in 0 .. MaxLog /\ 0 \in 0 .. MaxBreaks
      BY FeedAssumption
    <2>. QED
      BY <2>1, Zenon DEF FeedInit, Numbered
  <1>2. Queued
    BY FeedAssumption DEF FeedInit, Queued
  <1>3. TakenInOrder /\ ChannelInOrder
    BY RunEmpty DEF FeedInit, TakenInOrder, ChannelInOrder, Taken
  <1>4. ReaderInOrder
    BY RunEmpty DEF FeedInit, ReaderInOrder
  <1>. QED
    BY <1>1, <1>2, <1>3, <1>4, FeedTypes, Zenon DEF FeedIInv

(* A batch that follows on the position is sent. *)
LEMMA SendStep ==
    ASSUME FeedIInv, NEW b \in Seq(Events), b # <<>>, Run(b, after),
           Len(chan) < ChanCap, chan' = Append(chan, b), after' = after + Len(b),
           UNCHANGED <<gathered, received>>
    PROVE  /\ chan' \in Seq(Seq(Events)) /\ Len(chan') <= ChanCap
           /\ ChannelInOrder'
  <1>1. /\ chan \in Seq(Seq(Events)) /\ after \in Nat /\ ChanCap \in Nat
        /\ gathered \in Seq(Events) /\ received \in Seq(Events)
    BY FeedTypes, FeedAssumption DEF FeedIInv, Queued, Numbered
  <1>2. /\ chan' \in Seq(Seq(Events)) /\ Len(chan) \in Nat /\ Len(chan') = Len(chan) + 1
        /\ chan'[Len(chan) + 1] = b
        /\ \A k \in 1 .. Len(chan) : chan'[k] = chan[k]
    BY <1>1, QueueAppend
  <1>3. Taken \in Nat /\ Taken' = Taken
    BY <1>1 DEF Taken
  <1>4. b[1] = after + 1 /\ Len(b) \in Nat /\ Len(b) # 0
    BY <1>1, RunTail, Zenon
  <1>5. BatchEnd(b) = after' /\ Run(b, b[1] - 1)
    <2>1. b[1] - 1 = after
      BY <1>1, <1>4
    <2>. QED
      BY <1>1, <1>4, <2>1 DEF BatchEnd
  <1>6. chan' # <<>>
    BY <1>2
  <1>7. ASSUME NEW k \in 1 .. Len(chan') PROVE chan'[k] # <<>> /\ Run(chan'[k], chan'[k][1] - 1)
    <2>1. CASE k \in 1 .. Len(chan)
      BY <1>2, <2>1, Zenon DEF FeedIInv, ChannelInOrder
    <2>2. CASE k = Len(chan) + 1
      BY <1>2, <1>5, <2>2, Zenon
    <2>. QED
      BY <1>2, <2>1, <2>2
  <1>8. chan'[1][1] = Taken' + 1
    <2>1. CASE chan = <<>>
      <3>1. Len(chan) = 0 /\ after = Taken
        BY <2>1, Zenon DEF FeedIInv, ChannelInOrder
      <3>. QED
        BY <1>2, <1>3, <1>4, <3>1
    <2>2. CASE chan # <<>>
      <3>1. Len(chan) # 0 /\ chan[1][1] = Taken + 1
        BY <1>1, <2>2 DEF FeedIInv, ChannelInOrder
      <3>2. chan'[1] = chan[1]
        BY <1>2, <3>1
      <3>. QED
        BY <1>3, <3>1, <3>2, Zenon
    <2>. QED
      BY <2>1, <2>2, Zenon
  <1>9. ASSUME NEW k \in 1 .. (Len(chan') - 1) PROVE chan'[k + 1][1] = BatchEnd(chan'[k]) + 1
    <2>0. k \in 1 .. Len(chan) /\ chan'[k] = chan[k]
      BY <1>2
    <2>1. CASE k \in 1 .. (Len(chan) - 1)
      <3>1. k + 1 \in 1 .. Len(chan)
        BY <1>2, <2>1
      <3>2. chan'[k + 1] = chan[k + 1]
        BY <1>2, <3>1, Zenon
      <3>3. chan[k + 1][1] = BatchEnd(chan[k]) + 1
        BY <2>1, Zenon DEF FeedIInv, ChannelInOrder
      <3>. QED
        BY <2>0, <3>2, <3>3, Zenon
    <2>2. CASE k = Len(chan)
      <3>1. chan # <<>>
        BY <1>2, <2>0
      <3>2. after = BatchEnd(chan[Len(chan)])
        BY <3>1, Zenon DEF FeedIInv, ChannelInOrder
      <3>. QED
        BY <1>2, <1>4, <2>0, <2>2, <3>2, Zenon
    <2>. QED
      BY <1>2, <2>0, <2>1, <2>2
  <1>10. after' = BatchEnd(chan'[Len(chan')])
    BY <1>2, <1>5, Zenon
  <1>11. Len(chan') <= ChanCap
    BY <1>1, <1>2
  <1>. QED
    BY <1>2, <1>6, <1>7, <1>8, <1>9, <1>10, <1>11, Zenon DEF ChannelInOrder

-----------------------------------------------------------------------------
(* Every step keeps the events in order. *)
LEMMA FeedStep ==
    ASSUME FeedIInv, [FeedNext]_feedVars
    PROVE  FeedIInv'
  <1>. USE DEF update, reader
  <1>a. Numbered /\ Queued /\ TakenInOrder /\ ChannelInOrder /\ ReaderInOrder /\ FeedTypeOK
    BY FeedTypes, Zenon DEF FeedIInv
  <1>b. /\ written \in Nat /\ srv \in Nat /\ after \in Nat /\ last \in Nat
        /\ MaxLog \in Nat /\ written <= MaxLog
        /\ after <= written /\ last <= written /\ srv <= written
    BY <1>a, FeedAssumption DEF Numbered, ReaderInOrder
  <1>c. /\ net \in Seq(Events) /\ batch \in Seq(Events) /\ chan \in Seq(Seq(Events))
        /\ gathered \in Seq(Events) /\ received \in Seq(Events)
    BY <1>a, Zenon DEF Queued
  <1>0. CASE UNCHANGED feedVars
    BY <1>a, <1>0, Zenon DEF feedVars, FeedIInv, FeedTypeOK, TakenInOrder, ChannelInOrder, ReaderInOrder,
                      Taken, Numbered, Queued
  <1>1. CASE Appends
    <2>1. Numbered'
      BY <1>a, <1>b, <1>1 DEF Appends, Numbered
    <2>2. Queued' /\ TakenInOrder' /\ ChannelInOrder'
      BY <1>a, <1>1, Zenon DEF Appends, Queued, TakenInOrder, ChannelInOrder, Taken
    <2>3. ReaderInOrder'
      BY <1>a, <1>b, <1>1 DEF Appends, ReaderInOrder
    <2>. QED
      BY <2>1, <2>2, <2>3, FeedTypes, Zenon DEF FeedIInv, FeedTypeOK, Numbered, Queued, Events
  <1>2. CASE LocalPoll
    <2>. DEFINE evs == EventsAfter(after)
    <2>1. /\ evs \in Seq(Events) /\ Len(evs) = written - after /\ Run(evs, after)
          /\ evs # <<>> => written > after /\ evs[Len(evs)] = written
      BY <1>a, <1>b, EventsFound, Zenon
    <2>2. /\ ~remote /\ evs # <<>> /\ Len(chan) < ChanCap /\ chan' = Append(chan, evs)
          /\ after' = evs[Len(evs)]
          /\ UNCHANGED <<written, remote, conn, srv, net, last, batch, flushing, gathered,
                         received, breaks>>
      BY <1>2, Zenon DEF LocalPoll
    <2>. HIDE DEF evs
    <2>3. after' = written /\ after' = after + Len(evs)
      BY <1>b, <2>1, <2>2
    <2>4. chan' \in Seq(Seq(Events)) /\ Len(chan') <= ChanCap /\ ChannelInOrder'
      BY <2>1, <2>2, <2>3, SendStep, Zenon
    <2>5. Numbered'
      BY <1>a, <2>2, <2>3, Zenon DEF Numbered
    <2>6. Queued' /\ TakenInOrder'
      BY <1>a, <2>2, <2>4, Zenon DEF Queued, TakenInOrder
    <2>7. ReaderInOrder'
      <3>1. conn = "down"
        BY <1>a, <2>2, Zenon DEF ReaderInOrder
      <3>. QED
        BY <1>a, <1>b, <2>2, <2>3, <3>1 DEF ReaderInOrder
    <2>. QED
      BY <2>4, <2>5, <2>6, <2>7, Zenon DEF FeedIInv, FeedTypeOK, Numbered, Queued, Events
  <1>3. CASE Connects
    <2>1. Numbered' /\ Queued' /\ TakenInOrder' /\ ChannelInOrder'
      BY <1>a, <1>3 DEF Connects, Numbered, Queued, TakenInOrder, ChannelInOrder, Taken
    <2>2. ReaderInOrder'
      BY <1>a, <1>b, <1>3, RunEmpty DEF Connects, ReaderInOrder
    <2>. QED
      BY <2>1, <2>2, Zenon DEF FeedIInv, FeedTypeOK, Numbered, Queued, Events
  <1>4. CASE ServerPoll
    <2>. DEFINE evs == EventsAfter(srv)
    <2>1. /\ evs \in Seq(Events) /\ Len(evs) = written - srv /\ Run(evs, srv)
          /\ evs # <<>> => written > srv /\ evs[Len(evs)] = written
      BY <1>a, <1>b, EventsFound, Zenon
    <2>2. /\ conn = "up" /\ evs # <<>> /\ net' = net \o evs /\ srv' = evs[Len(evs)]
          /\ UNCHANGED <<written, remote, conn, after, last, batch, flushing, chan, gathered,
                         received, breaks>>
      BY <1>4, Zenon DEF ServerPoll
    <2>. HIDE DEF evs
    <2>3. Run(net, last) /\ srv = last + Len(net)
      BY <1>a, <2>2, Zenon DEF ReaderInOrder
    <2>4. /\ net' \in Seq(Events) /\ Len(net') = Len(net) + Len(evs) /\ Run(net', last)
          /\ Len(net) \in Nat
      BY <1>b, <1>c, <2>1, <2>2, <2>3, RunConcat, Zenon
    <2>5. srv' = written /\ srv' = last + Len(net')
      BY <1>b, <2>1, <2>2, <2>3, <2>4
    <2>6. Numbered'
      BY <1>a, <2>2, <2>5, Zenon DEF Numbered
    <2>7. Queued' /\ TakenInOrder' /\ ChannelInOrder'
      BY <1>a, <2>2, <2>4, Zenon DEF Queued, TakenInOrder, ChannelInOrder, Taken
    <2>8. ReaderInOrder'
      BY <1>a, <1>b, <2>2, <2>4, <2>5 DEF ReaderInOrder
    <2>. QED
      BY <2>6, <2>7, <2>8, Zenon DEF FeedIInv, FeedTypeOK, Numbered, Queued, Events
  <1>5. CASE ReadFrame
    <2>1. /\ conn = "up" /\ ~flushing /\ net # <<>> /\ net' = Tail(net)
          /\ batch' = IF net[1] > last THEN Append(batch, net[1]) ELSE batch
          /\ last' = IF net[1] > last THEN net[1] ELSE last
          /\ flushing' \in BOOLEAN
          /\ UNCHANGED <<written, remote, conn, srv, after, chan, gathered, received, breaks>>
      BY <1>5, Zenon DEF ReadFrame
    <2>2. /\ Run(net, last) /\ srv = last + Len(net)
          /\ Run(batch, after) /\ last = after + Len(batch)
      BY <1>a, <2>1, Zenon DEF ReaderInOrder
    <2>3. /\ net[1] = last + 1 /\ net[1] \in Events /\ Len(net) \in Nat /\ Len(net) # 0
          /\ Tail(net) \in Seq(Events) /\ Len(Tail(net)) = Len(net) - 1
          /\ Run(Tail(net), last + 1)
      BY <1>b, <1>c, <2>1, <2>2, RunTail, Zenon
    <2>4. batch' = Append(batch, net[1]) /\ last' = last + 1
      BY <1>b, <2>1, <2>3
    <2>5. /\ batch' \in Seq(Events) /\ Len(batch') = Len(batch) + 1 /\ Run(batch', after)
          /\ Len(batch) \in Nat
      <3>1. net[1] = after + Len(batch) + 1 /\ Len(batch) \in Nat
        BY <1>b, <1>c, <2>2, <2>3
      <3>. QED
        BY <1>b, <1>c, <2>2, <2>3, <2>4, <3>1, RunAppend, Zenon
    <2>6. /\ last' <= written /\ last' \in 0 .. MaxLog /\ last' = after + Len(batch')
          /\ srv = last' + Len(net')
      BY <1>b, <2>1, <2>2, <2>3, <2>4, <2>5
    <2>7. Numbered'
      BY <1>a, <2>1, <2>6, Zenon DEF Numbered
    <2>8. Queued' /\ TakenInOrder' /\ ChannelInOrder'
      BY <1>a, <2>1, <2>3, <2>5, Zenon DEF Queued, TakenInOrder, ChannelInOrder, Taken
    <2>9. ReaderInOrder'
      BY <1>a, <1>b, <2>1, <2>3, <2>4, <2>5, <2>6, Zenon DEF ReaderInOrder
    <2>. QED
      BY <2>7, <2>8, <2>9, Zenon DEF FeedIInv, FeedTypeOK, Numbered, Queued, Events
  <1>6. CASE Breaks
    <2>1. Numbered'
      BY <1>a, <1>6, FeedAssumption DEF Breaks, Numbered
    <2>2. Queued' /\ TakenInOrder' /\ ChannelInOrder'
      BY <1>a, <1>6 DEF Breaks, Queued, TakenInOrder, ChannelInOrder, Taken
    <2>3. ReaderInOrder'
      BY <1>a, <1>6, Zenon DEF Breaks, ReaderInOrder
    <2>. QED
      BY <2>1, <2>2, <2>3, Zenon DEF FeedIInv, FeedTypeOK, Numbered, Queued, Events
  <1>7. CASE Flush
    <2>1. /\ flushing /\ (batch # <<>> => Len(chan) < ChanCap)
          /\ chan' = IF batch = <<>> THEN chan ELSE Append(chan, batch)
          /\ after' = (IF batch = <<>> THEN after ELSE last)
          /\ batch' = <<>> /\ flushing' = FALSE
          /\ UNCHANGED <<written, remote, conn, srv, net, last, gathered, received, breaks>>
      BY <1>7, Zenon DEF Flush, ResumeAfter
    <2>2. conn # "down" /\ Run(batch, after) /\ last = after + Len(batch)
      BY <1>a, <2>1, Zenon DEF ReaderInOrder
    <2>3. after' = last
      BY <1>b, <2>1, <2>2
    <2>4. chan' \in Seq(Seq(Events)) /\ Len(chan') <= ChanCap /\ ChannelInOrder'
      <3>1. CASE batch = <<>>
        <4>1. UNCHANGED <<chan, after, gathered, received>>
          BY <2>1, <3>1, Zenon
        <4>. QED
          BY <1>a, <4>1, Zenon DEF Queued, ChannelInOrder, Taken
      <3>2. CASE batch # <<>>
        <4>1. /\ Len(chan) < ChanCap /\ chan' = Append(chan, batch)
              /\ after' = after + Len(batch) /\ UNCHANGED <<gathered, received>>
          BY <2>1, <2>2, <2>3, <3>2, Zenon
        <4>. QED
          BY <1>c, <2>2, <3>2, <4>1, SendStep, Zenon
      <3>. QED
        BY <3>1, <3>2, Zenon
    <2>5. Numbered'
      BY <1>a, <2>1, <2>3, Zenon DEF Numbered
    <2>6. Queued' /\ TakenInOrder'
      BY <1>a, <2>1, <2>4 DEF Queued, TakenInOrder
    <2>7. ReaderInOrder'
      BY <1>a, <1>b, <2>1, <2>2, <2>3, RunEmpty DEF ReaderInOrder
    <2>. QED
      BY <2>4, <2>5, <2>6, <2>7, Zenon DEF FeedIInv, FeedTypeOK, Numbered, Queued, Events
  <1>8. CASE BacksOff
    <2>1. Numbered' /\ Queued' /\ TakenInOrder' /\ ChannelInOrder'
      BY <1>a, <1>8, Zenon DEF BacksOff, Numbered, Queued, TakenInOrder, ChannelInOrder, Taken
    <2>2. ReaderInOrder'
      BY <1>a, <1>8, Zenon DEF BacksOff, ReaderInOrder
    <2>. QED
      BY <2>1, <2>2, Zenon DEF FeedIInv, FeedTypeOK, Numbered, Queued, Events
  <1>9. CASE WaitEvents
    <2>1. /\ chan # <<>> /\ gathered' = gathered \o Head(chan) /\ chan' = Tail(chan)
          /\ UNCHANGED <<written, remote, conn, srv, net, after, last, batch, flushing,
                         received, breaks>>
      BY <1>9, Zenon DEF WaitEvents
    <2>2. Len(chan) \in Nat /\ Len(chan) # 0
      BY <1>c, <2>1
    <2>3. /\ Head(chan) = chan[1] /\ chan' \in Seq(Seq(Events)) /\ Len(chan') = Len(chan) - 1
          /\ \A k \in 1 .. Len(chan') : k + 1 \in 1 .. Len(chan) /\ chan'[k] = chan[k + 1]
      BY <1>c, <2>1, QueueHead, Zenon
    <2>4. chan[1] \in Seq(Events)
      BY <1>c, <2>2, QueueElement
    <2>5. /\ chan[1] # <<>> /\ Run(chan[1], chan[1][1] - 1) /\ chan[1][1] = Taken + 1
      BY <1>a, <2>1, <2>2 DEF ChannelInOrder
    <2>6. Len(received) \in Nat /\ Len(gathered) \in Nat /\ Taken \in Nat
          /\ Taken = Len(received) + Len(gathered)
      BY <1>c DEF Taken
    <2>7. Run(chan[1], Len(received) + Len(gathered))
      <3>1. chan[1][1] - 1 = Len(received) + Len(gathered)
        BY <2>5, <2>6
      <3>. QED
        BY <2>5, <3>1, Zenon
    <2>8. /\ gathered' \in Seq(Events) /\ Len(gathered') = Len(gathered) + Len(chan[1])
          /\ Run(gathered', Len(received)) /\ Len(chan[1]) \in Nat
      BY <1>a, <1>c, <2>1, <2>3, <2>4, <2>6, <2>7, RunConcat DEF TakenInOrder
    <2>9. Taken' = Taken + Len(chan[1]) /\ Taken' \in Nat
      <3>1. Taken' = Len(received) + Len(gathered')
        BY <2>1, Zenon DEF Taken
      <3>2. PICK n \in Nat : n = Len(chan[1])
        BY <2>8, Zenon
      <3>3. Len(gathered') = Len(gathered) + n
        BY <2>8, <3>2, Zenon
      <3>4. Taken' = Taken + n /\ Taken' \in Nat
        BY <2>6, <3>1, <3>3
      <3>. QED
        BY <3>2, <3>4, Zenon
    <2>10. BatchEnd(chan[1]) = Taken'
      <3>1. PICK n \in Nat : n = Len(chan[1])
        BY <2>8, Zenon
      <3>2. BatchEnd(chan[1]) = ((Taken + 1) + n) - 1
        BY <2>5, <3>1, Zenon DEF BatchEnd
      <3>3. Taken' = Taken + n
        BY <2>9, <3>1, Zenon
      <3>. QED
        BY <2>6, <3>2, <3>3
    <2>11. ChannelInOrder'
      <3>1. ASSUME NEW k \in 1 .. Len(chan')
            PROVE  chan'[k] # <<>> /\ Run(chan'[k], chan'[k][1] - 1)
        <4>1. k + 1 \in 1 .. Len(chan) /\ chan'[k] = chan[k + 1]
          BY <2>3, Zenon
        <4>. QED
          BY <1>a, <4>1, Zenon DEF ChannelInOrder
      <3>2. ASSUME chan' # <<>> PROVE chan'[1][1] = Taken' + 1
        <4>1. Len(chan') # 0
          BY <2>3, <3>2, QueueEmpty, Zenon
        <4>2. 1 \in 1 .. (Len(chan) - 1) /\ chan'[1] = chan[1 + 1]
          BY <2>2, <2>3, <4>1
        <4>3. chan[1 + 1][1] = BatchEnd(chan[1]) + 1
          BY <1>a, <4>2, Zenon DEF ChannelInOrder
        <4>. QED
          BY <2>10, <4>2, <4>3, Zenon
      <3>3. ASSUME NEW k \in 1 .. (Len(chan') - 1) PROVE chan'[k + 1][1] = BatchEnd(chan'[k]) + 1
        <4>1. /\ k + 1 \in 1 .. (Len(chan) - 1) /\ k \in 1 .. Len(chan')
              /\ k + 1 \in 1 .. Len(chan')
          BY <2>2, <2>3
        <4>2. chan'[k] = chan[k + 1] /\ chan'[k + 1] = chan[(k + 1) + 1]
          BY <2>3, <4>1, Zenon
        <4>3. chan[(k + 1) + 1][1] = BatchEnd(chan[k + 1]) + 1
          BY <1>a, <4>1, Zenon DEF ChannelInOrder
        <4>. QED
          BY <4>2, <4>3, Zenon
      <3>4. after' = IF chan' = <<>> THEN Taken' ELSE BatchEnd(chan'[Len(chan')])
        <4>0. after' = BatchEnd(chan[Len(chan)])
          BY <1>a, <2>1, Zenon DEF ChannelInOrder
        <4>1. CASE chan' = <<>>
          <5>1. Len(chan) = 1
            BY <2>2, <2>3, <4>1, QueueEmpty
          <5>. QED
            BY <2>10, <4>0, <4>1, <5>1, Zenon
        <4>2. CASE chan' # <<>>
          <5>1. Len(chan') # 0
            BY <2>3, <4>2, QueueEmpty, Zenon
          <5>2. chan'[Len(chan')] = chan[Len(chan)]
            BY <2>2, <2>3, <5>1
          <5>. QED
            BY <4>0, <4>2, <5>2, Zenon
        <4>. QED
          BY <4>1, <4>2, Zenon
      <3>. QED
        BY <3>1, <3>2, <3>3, <3>4, Zenon DEF ChannelInOrder
    <2>12. TakenInOrder'
      BY <1>a, <2>1, <2>8, Zenon DEF TakenInOrder
    <2>13. Queued'
      BY <1>a, <2>1, <2>2, <2>3, <2>8, FeedAssumption DEF Queued
    <2>14. Numbered' /\ ReaderInOrder'
      BY <1>a, <2>1, Zenon DEF Numbered, ReaderInOrder
    <2>. QED
      BY <2>11, <2>12, <2>13, <2>14, Zenon DEF FeedIInv, FeedTypeOK, Numbered, Queued, Events
  <1>10. CASE OnEvents
    <2>1. /\ chan = <<>> /\ received' = received \o gathered /\ gathered' = <<>>
          /\ UNCHANGED <<written, remote, conn, srv, net, after, last, batch, flushing,
                         chan, breaks>>
      BY <1>10, Zenon DEF OnEvents
    <2>2. Run(received, 0) /\ Run(gathered, 0 + Len(received)) /\ Len(received) \in Nat
      BY <1>a, <1>c DEF TakenInOrder
    <2>3. /\ received' \in Seq(Events) /\ Len(received') = Len(received) + Len(gathered)
          /\ Run(received', 0) /\ Len(gathered) \in Nat
      BY <1>c, <2>1, <2>2, RunConcat, Zenon
    <2>4. Taken' = Taken
      BY <2>1, <2>2, <2>3, RunEmpty DEF Taken
    <2>5. TakenInOrder'
      BY <2>1, <2>3, RunEmpty, Zenon DEF TakenInOrder
    <2>6. ChannelInOrder'
      BY <1>a, <2>1, <2>4, Zenon DEF ChannelInOrder
    <2>7. Numbered' /\ ReaderInOrder' /\ Queued'
      BY <1>a, <2>1, <2>3 DEF Numbered, ReaderInOrder, Queued
    <2>. QED
      BY <2>5, <2>6, <2>7, Zenon DEF FeedIInv, FeedTypeOK, Numbered, Queued, Events
  <1>. QED
    BY <1>0, <1>1, <1>2, <1>3, <1>4, <1>5, <1>6, <1>7, <1>8, <1>9, <1>10, Zenon DEF FeedNext

(* The update loop gets the log's first events, in order, none missing and  *)
(* none twice, for any log, batches, channel and broken connections         *)
(* (Remote.stream, Local.Stream and waitEvents).                            *)
THEOREM FeedIsTheLog == FeedSpec => []FeedInv
  <1>1. FeedIInv /\ [FeedNext]_feedVars => FeedIInv'
    BY FeedStep, Zenon
  <1>2. FeedIInv => FeedInv
    <2>. SUFFICES ASSUME FeedIInv PROVE FeedInv
      BY Zenon
    <2>1. received \in Seq(Events) /\ Run(received, 0)
      BY FeedTypes, Zenon DEF FeedIInv, Queued, TakenInOrder
    <2>2. \A i \in DOMAIN received : received[i] = i
      BY <2>1 DEF Run
    <2>3. ReceivedIsPrefix
      BY <2>1, <2>2 DEF ReceivedIsPrefix
    <2>. QED
      BY <2>3, Zenon DEF FeedIInv, FeedInv
  <1>. QED
    BY <1>1, <1>2, FeedInitially, PTL DEF FeedSpec

-----------------------------------------------------------------------------
(* That the terminal delivers messages once and in order.                   *)
(*                                                                          *)
(* What is said twice would be a request that arrives after another of the  *)
(* same submission.  A Send is deduplicated by its receipt, so the argument *)
(* is about the one message that has none, the one that created the         *)
(* session: once the client knows of the session, nothing that waits and no *)
(* Send on its way is of that submission (Received), and a Create on its    *)
(* way finds the session (Founded).  The order holds because the running    *)
(* call is of the first submission that waits (Lined), requests on their    *)
(* way are not of a later one (Trailing), and those of a reported one have  *)
(* a receipt.                                                               *)
(*                                                                          *)
(* What a failed call leaves of the queue is a recursive function of it; the *)
(* facts about it are by induction on the length, from the well-foundedness *)
(* of the numbers (NumbersReached).                                         *)

(* A set of numbers that has zero and every successor has every number.     *)
LEMMA NumbersReached ==
    ASSUME NEW S \in SUBSET Nat, 0 \in S, \A n \in S : n + 1 \in S
    PROVE  Nat \subseteq S
  <1>. DEFINE T == Nat \ S
  <1>. SUFFICES ASSUME T # {} PROVE FALSE
    BY Zenon
  <1>1. PICK x \in T : \A y \in T : <<y, x>> \notin OpToRel(<, Nat)
    BY NatLessThanWellFounded, WFMin, T \subseteq Nat, Zenon
  <1>2. x \in Nat /\ x # 0 /\ x \notin S
    BY Zenon
  <1>3. x - 1 \in Nat /\ x - 1 < x /\ (x - 1) + 1 = x
    BY <1>2
  <1>4. x - 1 \in T => <<x - 1, x>> \in OpToRel(<, Nat)
    BY <1>2, <1>3 DEF OpToRel
  <1>5. x - 1 \in S
    BY <1>1, <1>3, <1>4, Zenon
  <1>. QED
    BY <1>2, <1>3, <1>5, Zenon

Rising(q) == \A i, j \in DOMAIN q : i < j => q[i].key < q[j].key

-----------------------------------------------------------------------------
(* What stays in the queue when a call failed. *)
Typing(f, q) ==
    [n \in 0 .. Len(q) |->
        IF n = 0 THEN <<>>
        ELSE IF q[n].text \in Texts THEN Append(f[n - 1], q[n]) ELSE f[n - 1]]

(* The first n messages can be gone through. *)
LEMMA TypedReached ==
    ASSUME NEW q \in Seq(Message)
    PROVE  \E f : f = Typing(f, q)
  <1>. DEFINE Upto(m, f) ==
                 \A n \in 0 .. m :
                    f[n] = IF n = 0 THEN <<>>
                           ELSE IF q[n].text \in Texts THEN Append(f[n - 1], q[n]) ELSE f[n - 1]
              S == {m \in Nat : \E f : f = [n \in 0 .. m |-> f[n]] /\ Upto(m, f)}
  <1>1. 0 \in S
    <2>1. [n \in 0 .. 0 |-> <<>>] = [k \in 0 .. 0 |-> [n \in 0 .. 0 |-> <<>>][k]]
      OBVIOUS
    <2>2. Upto(0, [n \in 0 .. 0 |-> <<>>])
      OBVIOUS
    <2>. QED
      BY <2>1, <2>2
  <1>2. ASSUME NEW m \in S PROVE m + 1 \in S
    <2>1. PICK f : f = [n \in 0 .. m |-> f[n]] /\ Upto(m, f)
      OBVIOUS
    <2>. DEFINE more == IF q[m + 1].text \in Texts THEN Append(f[m], q[m + 1]) ELSE f[m]
                g == [n \in 0 .. m + 1 |-> IF n = m + 1 THEN more ELSE f[n]]
    <2>2. /\ m \in Nat /\ m + 1 \in Nat /\ m + 1 # 0 /\ (m + 1) - 1 = m
          /\ m + 1 \in 0 .. m + 1 /\ \A n \in 0 .. m : n \in 0 .. m + 1 /\ n # m + 1
      OBVIOUS
    <2>. HIDE DEF more
    <2>3. g[m + 1] = more /\ \A n \in 0 .. m : g[n] = f[n]
      BY <2>2, Zenon
    <2>4. Upto(m + 1, g)
      <3>. SUFFICES ASSUME NEW n \in 0 .. m + 1
                    PROVE  g[n] = IF n = 0 THEN <<>>
                                  ELSE IF q[n].text \in Texts THEN Append(g[n - 1], q[n]) ELSE g[n - 1]
        OBVIOUS
      <3>. HIDE DEF g
      <3>1. CASE n = m + 1
        <4>1. g[m] = f[m]
          BY <2>2, <2>3
        <4>. QED
          BY <3>1, <4>1, <2>2, <2>3, Zenon DEF more
      <3>2. CASE n # m + 1
        <4>1. n \in 0 .. m /\ (n # 0 => n - 1 \in 0 .. m)
          BY <2>2, <3>2
        <4>. QED
          BY <2>1, <2>3, <4>1, Zenon
      <3>. QED
        BY <3>1, <3>2
    <2>5. g = [n \in 0 .. m + 1 |-> g[n]]
      BY Zenon
    <2>. QED
      BY <2>2, <2>4, <2>5, Zenon
  <1>3. S \in SUBSET Nat
    BY Zenon
  <1>4. Len(q) \in S
    <2>. HIDE DEF S
    <2>. QED
      BY <1>1, <1>2, <1>3, NumbersReached
  <1>5. PICK f : f = [n \in 0 .. Len(q) |-> f[n]] /\ Upto(Len(q), f)
    BY <1>4, Zenon
  <1>6. f = Typing(f, q)
    BY <1>5, Zenon DEF Typing
  <1>. QED
    BY <1>6, Zenon

(* A message, or the report of one, behind the others. *)
LEMMA QueueBehind ==
    ASSUME NEW T, NEW q \in Seq(T), Rising(q), NEW o \in T, \A u \in Entries(q) : u.key < o.key
    PROVE  /\ Append(q, o) \in Seq(T) /\ Rising(Append(q, o)) /\ Append(q, o) # <<>>
           /\ Entries(Append(q, o)) = Entries(q) \cup {o}
  <1>1. /\ Append(q, o) \in Seq(T) /\ Len(q) \in Nat /\ DOMAIN q = 1 .. Len(q)
        /\ DOMAIN Append(q, o) = 1 .. Len(q) + 1 /\ Append(q, o)[Len(q) + 1] = o
        /\ \A i \in 1 .. Len(q) : Append(q, o)[i] = q[i]
    OBVIOUS
  <1>2. /\ \A i \in DOMAIN q : i \in DOMAIN Append(q, o) /\ Append(q, o)[i] = q[i]
        /\ \A i \in DOMAIN Append(q, o) : i \in DOMAIN q \/ i = Len(q) + 1
        /\ \A i, j \in DOMAIN Append(q, o) : i < j => i \in DOMAIN q
        /\ Len(q) + 1 \in DOMAIN Append(q, o) /\ Append(q, o) # <<>>
    <2>. DEFINE w == Append(q, o)
    <2>1. w # <<>>
      BY <1>1
    <2>. HIDE DEF w
    <2>2. /\ Len(q) \in Nat /\ DOMAIN q = 1 .. Len(q) /\ DOMAIN w = 1 .. Len(q) + 1
          /\ \A i \in 1 .. Len(q) : w[i] = q[i]
      BY <1>1, Zenon DEF w
    <2>3. \A i \in DOMAIN q : i \in DOMAIN w /\ w[i] = q[i]
      BY <2>2
    <2>4. \A i \in DOMAIN w : i \in DOMAIN q \/ i = Len(q) + 1
      BY <2>2
    <2>5. \A i, j \in DOMAIN w : i < j => i \in DOMAIN q
      BY <2>2
    <2>6. Len(q) + 1 \in DOMAIN w
      BY <2>2
    <2>. QED
      BY <2>1, <2>3, <2>4, <2>5, <2>6, Zenon DEF w
  <1>3. \A i \in DOMAIN q : q[i].key < o.key
    BY Zenon DEF Entries
  <1>4. Rising(Append(q, o))
    BY <1>1, <1>2, <1>3, Zenon DEF Rising
  <1>5. Entries(Append(q, o)) = Entries(q) \cup {o}
    BY <1>1, <1>2, Zenon DEF Entries
  <1>. QED
    BY <1>1, <1>2, <1>4, <1>5, Zenon

(* What is kept of a queue is what is typed, in order. *)
LEMMA TypedKept ==
    ASSUME NEW q \in Seq(Message), Rising(q)
    PROVE  /\ TypedIn(q) \in Seq(Message) /\ Rising(TypedIn(q))
           /\ Entries(TypedIn(q)) = {o \in Entries(q) : o.text \in Texts}
  <1>1. PICK f : f = Typing(f, q) /\ TypedIn(q) = f[Len(q)]
    BY TypedReached, Zenon DEF TypedIn, Typing
  <1>. DEFINE Typed(n) == {q[i] : i \in {k \in 1 .. n : q[k].text \in Texts}}
              Stays(n) == f[n] \in Seq(Message) /\ Rising(f[n]) /\ Entries(f[n]) = Typed(n)
              S == {n \in Nat : n <= Len(q) => Stays(n)}
  <1>2. \A n \in 0 .. Len(q) :
           f[n] = IF n = 0 THEN <<>>
                  ELSE IF q[n].text \in Texts THEN Append(f[n - 1], q[n]) ELSE f[n - 1]
    BY <1>1, Zenon DEF Typing
  <1>3. 0 \in S
    <2>1. f[0] = <<>>
      BY <1>2
    <2>2. <<>> \in Seq(Message) /\ DOMAIN <<>> = {} /\ 1 .. 0 = {} /\ 0 \in Nat
      OBVIOUS
    <2>3. Rising(<<>>) /\ Entries(<<>>) = {} /\ Typed(0) = {}
      BY <2>2, Zenon DEF Rising, Entries
    <2>. QED
      BY <2>1, <2>2, <2>3, Zenon
  <1>4. ASSUME NEW n \in S PROVE n + 1 \in S
    <2>1. n \in Nat /\ n + 1 \in Nat
      OBVIOUS
    <2>. SUFFICES ASSUME n + 1 <= Len(q) PROVE Stays(n + 1)
      BY <2>1, Zenon
    <2>2. /\ n <= Len(q) /\ n + 1 \in 1 .. Len(q) /\ n + 1 \in 0 .. Len(q) /\ (n + 1) - 1 = n /\ n + 1 # 0
          /\ DOMAIN q = 1 .. Len(q) /\ q[n + 1] \in Message
          /\ 1 .. n + 1 = (1 .. n) \cup {n + 1} /\ \A i \in 1 .. n : i \in 1 .. Len(q) /\ i < n + 1
      BY <2>1
    <2>3. Stays(n)
      BY <2>2, Zenon
    <2>4. f[n + 1] = IF q[n + 1].text \in Texts THEN Append(f[n], q[n + 1]) ELSE f[n]
      BY <1>2, <2>2, Zenon
    <2>5. \A u \in Typed(n) : u.key < q[n + 1].key
      BY <2>2, Zenon DEF Rising
    <2>6. CASE q[n + 1].text \in Texts
      <3>1. f[n + 1] = Append(f[n], q[n + 1])
        BY <2>4, <2>6, Zenon
      <3>2. /\ f[n + 1] \in Seq(Message) /\ Rising(f[n + 1])
            /\ Entries(f[n + 1]) = Entries(f[n]) \cup {q[n + 1]}
        <4>1. PICK w, o : w = f[n] /\ o = q[n + 1]
          BY Zenon
        <4>2. w \in Seq(Message) /\ Rising(w) /\ o \in Message /\ \A u \in Entries(w) : u.key < o.key
          BY <2>2, <2>3, <2>5, <4>1, Zenon
        <4>3. Append(w, o) \in Seq(Message) /\ Rising(Append(w, o)) /\ Entries(Append(w, o)) = Entries(w) \cup {o}
          BY <4>2, QueueBehind
        <4>. QED
          BY <3>1, <4>1, <4>3, Zenon
      <3>3. Typed(n + 1) = Typed(n) \cup {q[n + 1]}
        BY <2>2, <2>6, Zenon
      <3>. QED
        BY <2>3, <3>2, <3>3, Zenon
    <2>7. CASE q[n + 1].text \notin Texts
      <3>1. f[n + 1] = f[n]
        BY <2>4, <2>7, Zenon
      <3>2. Typed(n + 1) = Typed(n)
        BY <2>2, <2>7, Zenon
      <3>. QED
        BY <2>3, <3>1, <3>2, Zenon
    <2>. QED
      BY <2>6, <2>7, Zenon
  <1>5. Stays(Len(q))
    <2>1. S \in SUBSET Nat
      BY Zenon
    <2>2. Len(q) \in Nat /\ Len(q) <= Len(q)
      OBVIOUS
    <2>3. Len(q) \in S
      <3>. HIDE DEF S
      <3>. QED
        BY <1>3, <1>4, <2>1, <2>2, NumbersReached, Zenon
    <2>. QED
      BY <2>2, <2>3, Zenon
  <1>6. DOMAIN q = 1 .. Len(q)
    OBVIOUS
  <1>7. Typed(Len(q)) = {o \in Entries(q) : o.text \in Texts}
    BY <1>6, Zenon DEF Entries
  <1>. QED
    BY <1>1, <1>5, <1>7, Zenon

-----------------------------------------------------------------------------
(* What the conversation owes to the submissions: P the numbers of those    *)
(* that wait, R of those reported, n how many there were.                   *)

(* Submissions are reported before those that wait.                         *)
Ahead(P, R, n) == (\A p \in P : p <= n) /\ (\A k \in R : k <= n /\ \A p \in P : k < p)

(* Nothing is sent, and nothing reported, before there is a session.        *)
Founded(R, se, ex, rc, sd, lt) ==
    /\ se => ex
    /\ ~ex => sd = <<>>
    /\ ~se => rc = {} /\ R = {} /\ \A r \in lt : r.create

(* A request on its way is not of a later submission than one that waits,   *)
(* and one that was reported is deduplicated.                               *)
Trailing(P, R, n, se, rc, lt) ==
    \A r \in lt :
        /\ r.id = r.key /\ r.key <= n
        /\ \A p \in P : r.key <= p /\ (r.create /\ se => r.key < p)
        /\ \A q \in lt : r.create /\ ~q.create => r.key < q.key
        /\ ~r.create /\ r.key \in R => r.key \in rc

(* What was said is of a submission that is not later than those that wait, *)
(* and has a receipt unless it created the session.                         *)
Received(P, n, se, rc, sd, lt) ==
    \A i \in DOMAIN sd :
        /\ sd[i] <= n
        /\ \A p \in P : sd[i] <= p
        /\ sd[i] \notin rc => /\ se => \A p \in P : sd[i] < p
                              /\ \A q \in lt : ~q.create => sd[i] < q.key

(* Nothing was said twice, and of what is or may be reported nothing in     *)
(* another order.                                                           *)
Ordered(P, R, sd) ==
    \A i, j \in DOMAIN sd :
        /\ sd[i] = sd[j] => i = j
        /\ i < j /\ sd[i] \in R \cup P /\ sd[j] \in R \cup P => sd[i] < sd[j]

Conversation(P, R, n, se, ex, rc, sd, lt) ==
    /\ Ahead(P, R, n) /\ Founded(R, se, ex, rc, sd, lt) /\ Trailing(P, R, n, se, rc, lt)
    /\ Received(P, n, se, rc, sd, lt) /\ Ordered(P, R, sd)

(* A number that is said last. *)
LEMMA SayNext ==
    ASSUME NEW sd \in Seq(Nat), NEW k \in Nat
    PROVE  /\ Append(sd, k) \in Seq(Nat) /\ Len(sd) \in Nat /\ DOMAIN sd = 1 .. Len(sd)
           /\ DOMAIN Append(sd, k) = 1 .. Len(sd) + 1 /\ Append(sd, k)[Len(sd) + 1] = k
           /\ \A i \in DOMAIN sd : /\ sd[i] \in Nat /\ Append(sd, k)[i] = sd[i]
                                   /\ i \in DOMAIN Append(sd, k) /\ i < Len(sd) + 1
           /\ \A i \in DOMAIN Append(sd, k) : i \in DOMAIN sd \/ i = Len(sd) + 1
           /\ \A i, j \in DOMAIN Append(sd, k) : i < j => i \in DOMAIN sd
  OBVIOUS

(* The number of a request. *)
LEMMA RequestNumber == ASSUME NEW r \in Request PROVE r.key \in Nat /\ r.create \in BOOLEAN
  BY OutboxAssumption DEF Request

(* Fewer submissions wait. *)
LEMMA FewerWait ==
    ASSUME NEW P, NEW R, NEW n, NEW se, NEW ex, NEW rc, NEW sd, NEW lt, NEW W \in SUBSET P,
           Conversation(P, R, n, se, ex, rc, sd, lt)
    PROVE  Conversation(W, R, n, se, ex, rc, sd, lt)
  BY Zenon DEF Conversation, Ahead, Founded, Trailing, Received, Ordered

(* Another submission waits. *)
LEMMA AnotherWaits ==
    ASSUME NEW P \in SUBSET Nat, NEW R \in SUBSET Nat, NEW n \in Nat, NEW se, NEW ex, NEW rc,
           NEW sd \in Seq(Nat), NEW lt \in SUBSET Request,
           Conversation(P, R, n, se, ex, rc, sd, lt)
    PROVE  Conversation(P \cup {n + 1}, R, n + 1, se, ex, rc, sd, lt)
  <1>. DEFINE W == P \cup {n + 1}
  <1>0. n + 1 \in Nat /\ \A k \in Nat : k <= n => k <= n + 1 /\ k < n + 1 /\ k # n + 1
    OBVIOUS
  <1>1. \A r \in lt : r.key \in Nat
    BY RequestNumber, Zenon
  <1>2. \A i \in DOMAIN sd : sd[i] \in Nat
    OBVIOUS
  <1>3. n + 1 <= n + 1
    BY <1>0
  <1>4. Ahead(W, R, n + 1)
    BY <1>0, <1>3, Zenon DEF Conversation, Ahead
  <1>5. Founded(R, se, ex, rc, sd, lt)
    BY Zenon DEF Conversation
  <1>6. Trailing(W, R, n + 1, se, rc, lt)
    BY <1>0, <1>1, Zenon DEF Conversation, Trailing
  <1>7. Received(W, n + 1, se, rc, sd, lt)
    BY <1>0, <1>2, Zenon DEF Conversation, Received
  <1>8. Ordered(W, R, sd)
    <2>1. \A i \in DOMAIN sd : sd[i] # n + 1
      BY <1>0, <1>2, Zenon DEF Conversation, Received
    <2>. QED
      BY <2>1, Zenon DEF Conversation, Ordered
  <1>. QED
    BY <1>4, <1>5, <1>6, <1>7, <1>8, Zenon DEF Conversation

(* The first submission that waits is reported. *)
LEMMA FirstReported ==
    ASSUME NEW P \in SUBSET Nat, NEW R \in SUBSET Nat, NEW n \in Nat, NEW se \in BOOLEAN,
           NEW ex \in BOOLEAN, NEW rc, NEW sd \in Seq(Nat), NEW lt \in SUBSET Request,
           Conversation(P, R, n, se, ex, rc, sd, lt), NEW k \in P, NEW W \in SUBSET P,
           k \notin W, \A p \in W : k < p, ex = TRUE, se = TRUE => k \in rc
    PROVE  Conversation(W, R \cup {k}, n, TRUE, ex, rc, sd, lt)
  <1>. DEFINE Q == R \cup {k}
  <1>0. ex /\ (se => k \in rc)
    OBVIOUS
  <1>1. \A r \in lt : r.key \in Nat /\ r.create \in BOOLEAN
    BY RequestNumber, Zenon
  <1>2. \A i \in DOMAIN sd : sd[i] \in Nat
    OBVIOUS
  <1>3. k \in Nat /\ \A m \in Nat : \A p \in W : m <= k => m < p
    OBVIOUS
  <1>4. Ahead(W, Q, n)
    BY Zenon DEF Conversation, Ahead
  <1>5. Founded(Q, TRUE, ex, rc, sd, lt)
    BY <1>0, Zenon DEF Conversation, Founded
  <1>6. Trailing(W, Q, n, TRUE, rc, lt)
    BY <1>0, <1>1, <1>3, Zenon DEF Conversation, Trailing, Founded
  <1>7. Received(W, n, TRUE, rc, sd, lt)
    BY <1>0, <1>2, <1>3, Zenon DEF Conversation, Received
  <1>8. Ordered(W, Q, sd)
    BY Zenon DEF Conversation, Ordered
  <1>. QED
    BY <1>4, <1>5, <1>6, <1>7, <1>8, Zenon DEF Conversation

(* A call is given up and its request may still arrive. *)
LEMMA AnotherTrails ==
    ASSUME NEW P \in SUBSET Nat, NEW R \in SUBSET Nat, NEW n \in Nat, NEW se \in BOOLEAN,
           NEW ex, NEW rc, NEW sd \in Seq(Nat), NEW lt \in SUBSET Request,
           Conversation(P, R, n, se, ex, rc, sd, lt), NEW r \in Request,
           r.id = r.key, r.key \in P, \A p \in P : r.key <= p, r.create = ~se
    PROVE  Conversation(P, R, n, se, ex, rc, sd, lt \cup {r})
  <1>. DEFINE L == lt \cup {r}
  <1>1. \A q \in L : q.key \in Nat /\ q.create \in BOOLEAN
    BY RequestNumber, Zenon
  <1>2. r.key \notin R /\ r.key <= n
    <2>1. \A m \in Nat : ~(m < m)
      OBVIOUS
    <2>. QED
      BY <1>1, <2>1, Zenon DEF Conversation, Ahead
  <1>5. Founded(R, se, ex, rc, sd, L)
    BY Zenon DEF Conversation, Founded
  <1>6. Trailing(P, R, n, se, rc, L)
    BY <1>1, <1>2, Zenon DEF Conversation, Trailing, Founded
  <1>7. Received(P, n, se, rc, sd, L)
    BY <1>1, Zenon DEF Conversation, Received
  <1>. QED
    BY <1>5, <1>6, <1>7, Zenon DEF Conversation

(* The conversation once the engine took the request r. *)
TakenUp(r, P, R, n, se, ex, rc, sd, lt) ==
    /\ r.create = TRUE /\ ex = FALSE => Conversation(P, R, n, se, TRUE, rc, Append(sd, r.key), lt)
    /\ r.create = TRUE /\ ex = TRUE => Conversation(P, R, n, se, TRUE, rc, sd, lt)
    /\ r.create = FALSE /\ r.id \in rc => Conversation(P, R, n, se, ex, rc \cup {r.id}, sd, lt)
    /\ r.create = FALSE /\ r.id \notin rc =>
          Conversation(P, R, n, se, ex, rc \cup {r.id}, Append(sd, r.key), lt)

(* The engine takes a request. *)
LEMMA RequestTaken ==
    ASSUME NEW P \in SUBSET Nat, NEW R \in SUBSET Nat, NEW n \in Nat, NEW se \in BOOLEAN,
           NEW ex \in BOOLEAN, NEW rc \in SUBSET Nat, NEW sd \in Seq(Nat), NEW lt \in SUBSET Request,
           Conversation(P, R, n, se, ex, rc, sd, lt), NEW r \in Request, NEW L \in SUBSET lt,
           r.id = r.key, r.key <= n, \A p \in P : r.key <= p,
           r.create = FALSE => /\ se = TRUE
                               /\ r.key \in R => r.key \in rc
                               /\ \A i \in DOMAIN sd : sd[i] \notin rc => sd[i] < r.key
    PROVE  TakenUp(r, P, R, n, se, ex, rc, sd, L)
  <1>. USE DEF TakenUp
  <1>1. r.key \in Nat /\ r.create \in BOOLEAN
    BY RequestNumber, Zenon
  <1>. DEFINE more == Append(sd, r.key)
  <1>2. /\ DOMAIN more = 1 .. Len(sd) + 1 /\ more[Len(sd) + 1] = r.key
        /\ \A i \in DOMAIN sd : sd[i] \in Nat /\ more[i] = sd[i] /\ i \in DOMAIN more /\ i < Len(sd) + 1
        /\ \A i \in DOMAIN more : i \in DOMAIN sd \/ i = Len(sd) + 1
        /\ \A i, j \in DOMAIN more : i < j => i \in DOMAIN sd
    BY <1>1, SayNext, Zenon
  <1>3. Conversation(P, R, n, se, ex, rc, sd, L)
    BY Zenon DEF Conversation, Ahead, Founded, Trailing, Received, Ordered
  <1>. HIDE DEF more
  <1>4. CASE r.create = TRUE /\ ex = FALSE
    <2>1. ~se /\ rc = {} /\ R = {} /\ (\A q \in L : q.create) /\ DOMAIN sd = {}
      BY <1>3, <1>4 DEF Conversation, Founded
    <2>2. \A i \in DOMAIN more : i = Len(sd) + 1
      BY <1>2, <2>1, Zenon
    <2>3. Founded(R, se, TRUE, rc, more, L)
      BY <2>1, Zenon DEF Founded
    <2>4. Received(P, n, se, rc, more, L)
      BY <1>2, <2>1, <2>2, Zenon DEF Received
    <2>5. Ordered(P, R, more)
      <3>1. \A i, j \in DOMAIN more : i = j /\ ~(i < j)
        BY <1>2, <2>1, <2>2, Zenon
      <3>. QED
        BY <3>1, Zenon DEF Ordered
    <2>. QED
      BY <1>3, <1>4, <2>3, <2>4, <2>5, Zenon DEF Conversation, more
  <1>5. CASE r.create = TRUE /\ ex = TRUE
    BY <1>3, <1>5, Zenon
  <1>6. CASE r.create = FALSE
    <2>. DEFINE ids == rc \cup {r.id}
    <2>1. se /\ ex
      BY <1>3, <1>6 DEF Conversation, Founded
    <2>2. Trailing(P, R, n, se, ids, L)
      BY <1>3, Zenon DEF Conversation, Trailing
    <2>3. CASE r.id \in rc
      <3>1. ids = rc
        BY <2>3, Zenon
      <3>. QED
        BY <1>3, <1>6, <2>3, <3>1, Zenon
    <2>4. CASE r.id \notin rc
      <3>1. Received(P, n, se, ids, more, L)
        BY <1>2, <1>3, Zenon DEF Conversation, Received
      <3>2. \A i \in DOMAIN sd : sd[i] # r.key
        <4>1. \A m \in Nat : ~(m < m)
          OBVIOUS
        <4>. QED
          BY <1>1, <1>6, <2>4, <4>1, Zenon
      <3>3. \A i \in DOMAIN sd : r.key \in R \cup P /\ sd[i] \in R \cup P => sd[i] < r.key
        <4>. SUFFICES ASSUME NEW i \in DOMAIN sd, r.key \in R \cup P, sd[i] \in R \cup P
                      PROVE  sd[i] < r.key
          BY Zenon
        <4>1. r.key \in P
          BY <1>6, <2>4, Zenon
        <4>2. sd[i] \in R => sd[i] < r.key
          BY <1>3, <4>1, Zenon DEF Conversation, Ahead
        <4>3. sd[i] <= r.key /\ sd[i] \in Nat
          BY <1>2, <1>3, <4>1, Zenon DEF Conversation, Received
        <4>. QED
          BY <1>1, <3>2, <4>3
      <3>4. Ordered(P, R, more)
        <4>1. ASSUME NEW i \in DOMAIN more, NEW j \in DOMAIN more, more[i] = more[j] PROVE i = j
          <5>1. CASE i \in DOMAIN sd /\ j \in DOMAIN sd
            BY <1>2, <1>3, <4>1, <5>1, Zenon DEF Conversation, Ordered
          <5>2. CASE i \notin DOMAIN sd \/ j \notin DOMAIN sd
            BY <1>2, <3>2, <4>1, <5>2, Zenon
          <5>. QED
            BY <5>1, <5>2, Zenon
        <4>2. ASSUME NEW i \in DOMAIN more, NEW j \in DOMAIN more, i < j,
                     more[i] \in R \cup P, more[j] \in R \cup P
              PROVE  more[i] < more[j]
          BY <1>2, <1>3, <3>3, <4>2, Zenon DEF Conversation, Ordered
        <4>. QED
          BY <4>1, <4>2, Zenon DEF Ordered
      <3>5. Founded(R, se, ex, ids, more, L)
        BY <2>1, Zenon DEF Founded
      <3>. QED
        BY <1>3, <1>6, <2>2, <2>4, <3>1, <3>4, <3>5, Zenon DEF Conversation, more
    <2>. QED
      BY <2>3, <2>4, Zenon
  <1>. QED
    BY <1>1, <1>4, <1>5, <1>6, Zenon

-----------------------------------------------------------------------------
(* The queue waits in order behind the running call. *)
Lined == Rising(outbox) /\ (inflight # None => \A o \in Entries(outbox) : inflight.key < o.key)

Marked(P) == \A o \in P : o.id = o.key

(* A call runs for the message in flight, and the engine took what it       *)
(* answered.                                                                *)
Calling(inf, cl, cr, se, ex, rc) ==
    /\ inf = None => cl = "none" /\ ~cr
    /\ inf # None => cl \in {"sent", "answered"} /\ (cr <=> ~se)
    /\ cl = "answered" => IF cr THEN ex ELSE inf.key \in rc

(* A prompt waits once, until it is answered.                               *)
Prompting(P, tl, sn, ha, bo) ==
    /\ bo => ha
    /\ \A o, u \in P : o.text \in Prompts /\ o.text = u.text => o = u
    /\ \A p \in Prompts :
          /\ sn[p] \in {0, 1}
          /\ sn[p] = 1 => \A o \in P : o.text # p
          /\ tl[p] = "absent" => sn[p] = 0 /\ \A o \in P : o.text # p
          /\ tl[p] # "absent" => ha
          /\ tl[p] = "ok" => bo

Kept(P, S, un, wi, co) ==
    \A x \in Texts : x \in un \cup wi \cup {co} \/ \E o \in P \cup Entries(S) : o.text = x

PendingKeys == {o.key : o \in Pending}
Reported == {s.key : s \in Entries(settled)}

OutboxIInv ==
    /\ OutboxTypeOK /\ Lined /\ Marked(Pending) /\ Rising(settled)
    /\ Calling(inflight, call, creating, session, exists, receipts)
    /\ Conversation(PendingKeys, Reported, keys, session, exists, receipts, said, late)
    /\ Prompting(Pending, told, sent, harness, bound)
    /\ Kept(Pending, settled, unsent, wiped, composer)

(* The types, in the groups the steps touch together.                       *)
PersonTyped == composer \in Texts \cup {None} /\ unsent \subseteq Texts /\ wiped \subseteq Texts
QueueTyped ==
    /\ outbox \in Seq(Message) /\ inflight \in Message \cup {None}
    /\ stalled \in BOOLEAN /\ creating \in BOOLEAN /\ call \in {"none", "sent", "answered"}
FlagsTyped == session \in BOOLEAN /\ harness \in BOOLEAN /\ bound \in BOOLEAN
AnswersTyped == told \in [Prompts -> {"absent", "waiting", "ok", "error"}] /\ sent \in [Prompts -> Nat]
CountsTyped == keys \in 0 .. MaxKeys /\ faults \in 0 .. MaxFaults
EngineTyped == exists \in BOOLEAN /\ receipts \subseteq Nat /\ said \in Seq(1 .. MaxKeys)
WireTyped == late \subseteq Request
RecordTyped == settled \in Seq([key: 1 .. MaxKeys, text: Texts \cup Prompts])

LEMMA OutboxTypes ==
    OutboxTypeOK <=> /\ PersonTyped /\ QueueTyped /\ FlagsTyped /\ AnswersTyped /\ CountsTyped
                     /\ EngineTyped /\ WireTyped /\ RecordTyped
  BY Zenon DEF OutboxTypeOK, PersonTyped, QueueTyped, FlagsTyped, AnswersTyped, CountsTyped,
               EngineTyped, WireTyped, RecordTyped

(* The fields of a message. *)
LEMMA MessageFields ==
    ASSUME NEW o \in Message
    PROVE  o.key \in 1 .. MaxKeys /\ o.key \in Nat /\ o.text \in Texts \cup Prompts /\ o # None
  BY OutboxAssumption DEF Message

(* What waits is messages, and their numbers are numbers. *)
LEMMA PendingTyped ==
    ASSUME QueueTyped
    PROVE  /\ Entries(outbox) \subseteq Message /\ Pending \subseteq Message /\ PendingKeys \subseteq Nat
           /\ inflight # None => inflight \in Message /\ inflight \in Pending
  <1>1. Entries(outbox) \subseteq Message
    BY DEF QueueTyped, Entries
  <1>2. Pending \subseteq Message /\ (inflight # None => inflight \in Message /\ inflight \in Pending)
    BY <1>1, Zenon DEF Pending, QueueTyped
  <1>. QED
    BY <1>1, <1>2, MessageFields, Zenon DEF PendingKeys

LEMMA ReportedTyped == ASSUME RecordTyped PROVE Reported \subseteq Nat
  <1>1. \A s \in [key: 1 .. MaxKeys, text: Texts \cup Prompts] : s.key \in Nat
    BY OutboxAssumption
  <1>2. \A i \in DOMAIN settled : settled[i] \in [key: 1 .. MaxKeys, text: Texts \cup Prompts]
    <2>. DEFINE T == [key: 1 .. MaxKeys, text: Texts \cup Prompts]
    <2>. HIDE DEF T
    <2>1. settled \in Seq(T)
      BY Zenon DEF RecordTyped, T
    <2>2. \A i \in DOMAIN settled : settled[i] \in T
      BY <2>1
    <2>. QED
      BY <2>2, Zenon DEF T
  <1>. QED
    BY <1>1, <1>2, Zenon DEF Reported, Entries

LEMMA SaidTyped == ASSUME EngineTyped PROVE said \in Seq(Nat)
  BY OutboxAssumption DEF EngineTyped

(* The head of a queue in order. *)
LEMMA QueueParts ==
    ASSUME NEW q \in Seq(Message), Rising(q), q # <<>>
    PROVE  /\ Head(q) \in Message /\ Tail(q) \in Seq(Message) /\ Rising(Tail(q))
           /\ \A o \in Entries(Tail(q)) : Head(q).key < o.key
           /\ Entries(q) = Entries(Tail(q)) \cup {Head(q)}
  <1>1. /\ Head(q) \in Message /\ Head(q) = q[1] /\ Tail(q) \in Seq(Message)
        /\ Len(q) \in Nat /\ Len(q) # 0 /\ Len(Tail(q)) = Len(q) - 1
        /\ DOMAIN q = 1 .. Len(q) /\ DOMAIN Tail(q) = 1 .. Len(q) - 1
        /\ \A i \in 1 .. Len(q) - 1 : Tail(q)[i] = q[i + 1]
    OBVIOUS
  <1>2. \A i \in DOMAIN Tail(q) : i \in Nat /\ i + 1 \in DOMAIN q /\ 1 < i + 1 /\ Tail(q)[i] = q[i + 1]
    BY <1>1
  <1>3. Rising(Tail(q))
    BY <1>1, <1>2 DEF Rising
  <1>4. 1 \in DOMAIN q
    BY <1>1
  <1>5. \A o \in Entries(Tail(q)) : Head(q).key < o.key
    BY <1>1, <1>2, <1>4, Zenon DEF Rising, Entries
  <1>6. \A i \in DOMAIN q : i = 1 \/ (i - 1 \in DOMAIN Tail(q) /\ q[i] = Tail(q)[i - 1])
    BY <1>1
  <1>7. Entries(q) = Entries(Tail(q)) \cup {Head(q)}
    <2>1. ASSUME NEW i \in DOMAIN q PROVE q[i] \in Entries(Tail(q)) \cup {Head(q)}
      <3>1. CASE i = 1
        BY <1>1, <3>1, Zenon
      <3>2. CASE i - 1 \in DOMAIN Tail(q) /\ q[i] = Tail(q)[i - 1]
        <4>1. PICK k \in DOMAIN Tail(q) : q[i] = Tail(q)[k]
          BY <3>2, Zenon
        <4>. QED
          BY <4>1, Zenon DEF Entries
      <3>. QED
        BY <1>6, <3>1, <3>2, Zenon
    <2>2. \A o \in Entries(Tail(q)) \cup {Head(q)} : o \in Entries(q)
      BY <1>1, <1>2, <1>4 DEF Entries
    <2>3. \A o \in Entries(q) : o \in Entries(Tail(q)) \cup {Head(q)}
      BY <2>1, Zenon DEF Entries
    <2>. QED
      BY <2>2, <2>3, Zenon
  <1>. QED
    BY <1>1, <1>3, <1>5, <1>7, Zenon

(* A message before the others. *)
LEMMA QueueBefore ==
    ASSUME NEW q \in Seq(Message), Rising(q), NEW o \in Message, \A u \in Entries(q) : o.key < u.key
    PROVE  /\ <<o>> \o q \in Seq(Message) /\ Rising(<<o>> \o q)
           /\ Entries(<<o>> \o q) = Entries(q) \cup {o}
  <1>. DEFINE w == <<o>> \o q
  <1>1. /\ w \in Seq(Message) /\ Len(q) \in Nat /\ DOMAIN q = 1 .. Len(q)
        /\ DOMAIN w = 1 .. Len(q) + 1 /\ w[1] = o
        /\ \A i \in 1 .. Len(q) : w[i + 1] = q[i]
    OBVIOUS
  <1>. HIDE DEF w
  <1>2. /\ \A i \in DOMAIN q : i + 1 \in DOMAIN w /\ w[i + 1] = q[i]
        /\ \A i \in DOMAIN w : i = 1 \/ (i - 1 \in DOMAIN q /\ w[i] = q[i - 1])
        /\ 1 \in DOMAIN w
    BY <1>1
  <1>3. \A i \in DOMAIN q : o.key < q[i].key
    BY Zenon DEF Entries
  <1>4. Rising(w)
    <2>. SUFFICES ASSUME NEW i \in DOMAIN w, NEW j \in DOMAIN w, i < j PROVE w[i].key < w[j].key
      BY Zenon DEF Rising
    <2>1. j # 1 /\ j - 1 \in DOMAIN q /\ w[j] = q[j - 1] /\ (i # 1 => i - 1 < j - 1)
      BY <1>1, <1>2
    <2>. QED
      BY <1>1, <1>2, <1>3, <2>1, Zenon DEF Rising
  <1>5. Entries(w) = Entries(q) \cup {o}
    <2>1. \A u \in Entries(w) : u \in Entries(q) \cup {o}
      BY <1>1, <1>2 DEF Entries
    <2>2. ASSUME NEW u \in Entries(q) \cup {o} PROVE u \in Entries(w)
      <3>1. CASE u = o
        BY <1>1, <1>2, <3>1, Zenon DEF Entries
      <3>2. CASE u \in Entries(q)
        <4>1. PICK i \in DOMAIN q : u = q[i]
          BY <3>2, Zenon DEF Entries
        <4>2. PICK k \in DOMAIN w : w[k] = u
          BY <1>2, <4>1, Zenon
        <4>. QED
          BY <4>2, Zenon DEF Entries
      <3>. QED
        BY <3>1, <3>2, Zenon
    <2>. QED
      BY <2>1, <2>2, Zenon
  <1>. QED
    BY <1>1, <1>4, <1>5, Zenon DEF w

(* pump starts the next call. *)
LEMMA Pumped ==
    ASSUME NEW q \in Seq(Message), Rising(q), NEW stop \in BOOLEAN, NEW has \in BOOLEAN,
           pump(q, stop, has)
    PROVE  /\ QueueTyped' /\ Lined' /\ Pending' = Entries(q)
           /\ inflight' = None => call' = "none" /\ ~creating'
           /\ inflight' # None => call' = "sent" /\ (creating' <=> ~has)
  <1>1. CASE stop \/ q = <<>>
    <2>1. outbox' = q /\ inflight' = None /\ creating' = FALSE /\ call' = "none" /\ stalled' = stop
      BY <1>1, Zenon DEF pump
    <2>. QED
      BY <2>1, Zenon DEF QueueTyped, Lined, Pending
  <1>2. CASE ~(stop \/ q = <<>>)
    <2>1. /\ outbox' = Tail(q) /\ inflight' = Head(q) /\ creating' = ~has /\ call' = "sent"
          /\ stalled' = stop /\ q # <<>>
      BY <1>2, Zenon DEF pump
    <2>2. Head(q) # None
      BY <2>1, QueueParts, MessageFields, Zenon
    <2>3. QueueTyped' /\ Lined'
      BY <2>1, QueueParts, Zenon DEF QueueTyped, Lined
    <2>4. Pending' = Entries(q)
      BY <2>1, <2>2, QueueParts, Zenon DEF Pending
    <2>. QED
      BY <2>1, <2>2, <2>3, <2>4, Zenon
  <1>. QED
    BY <1>1, <1>2, Zenon

-----------------------------------------------------------------------------
(* The invariant holds before anything was typed. *)
LEMMA OutboxInitially == OutboxInit => OutboxIInv
  <1>. SUFFICES ASSUME OutboxInit PROVE OutboxIInv
    BY Zenon
  <1>1. DOMAIN <<>> = {} /\ Entries(<<>>) = {}
    BY DEF Entries
  <1>2. Pending = {} /\ PendingKeys = {} /\ Reported = {}
    BY <1>1, Zenon DEF OutboxInit, Pending, PendingKeys, Reported
  <1>3. OutboxTypeOK
    <2>1. /\ <<>> \in Seq(Message) /\ <<>> \in Seq(1 .. MaxKeys)
          /\ <<>> \in Seq([key: 1 .. MaxKeys, text: Texts \cup Prompts])
          /\ 0 \in Nat /\ 0 \in 0 .. MaxKeys /\ 0 \in 0 .. MaxFaults
      BY OutboxAssumption
    <2>2. PersonTyped /\ QueueTyped /\ FlagsTyped /\ CountsTyped /\ EngineTyped /\ WireTyped /\ RecordTyped
      BY <2>1, Zenon DEF OutboxInit, PersonTyped, QueueTyped, FlagsTyped, CountsTyped, EngineTyped,
                         WireTyped, RecordTyped
    <2>3. AnswersTyped
      BY <2>1, Zenon DEF OutboxInit, AnswersTyped
    <2>. QED
      BY <2>2, <2>3, OutboxTypes, Zenon
  <1>4. Lined /\ Marked(Pending) /\ Rising(settled)
    BY <1>1, <1>2, Zenon DEF OutboxInit, Lined, Marked, Rising
  <1>5. Calling(inflight, call, creating, session, exists, receipts)
    BY DEF OutboxInit, Calling
  <1>6. Conversation(PendingKeys, Reported, keys, session, exists, receipts, said, late)
    BY <1>1, <1>2, Zenon
       DEF OutboxInit, Conversation, Ahead, Founded, Trailing, Received, Ordered
  <1>7. Prompting(Pending, told, sent, harness, bound)
    BY <1>2 DEF OutboxInit, Prompting
  <1>8. Kept(Pending, settled, unsent, wiped, composer)
    BY Zenon DEF OutboxInit, Kept
  <1>. QED
    BY <1>3, <1>4, <1>5, <1>6, <1>7, <1>8, Zenon DEF OutboxIInv

(* deliver puts one submission behind those that wait. *)
LEMMA DeliverStep ==
    ASSUME OutboxIInv, NEW x \in Texts \cup Prompts, deliver(x),
           UNCHANGED <<session, exists, receipts, said, late, settled>>
    PROVE  /\ QueueTyped' /\ keys' \in 0 .. MaxKeys /\ Lined' /\ Marked(Pending)'
           /\ Calling(inflight, call, creating, session, exists, receipts)'
           /\ Conversation(PendingKeys, Reported, keys, session, exists, receipts, said, late)'
           /\ \E o \in Message : o.text = x /\ Pending' = Pending \cup {o}
  <1>. DEFINE new == [key |-> keys + 1, id |-> keys + 1, text |-> x]
              q == Append(outbox, new)
  <1>0. /\ QueueTyped /\ FlagsTyped /\ CountsTyped /\ EngineTyped /\ WireTyped /\ RecordTyped
        /\ Lined /\ Marked(Pending)
        /\ Calling(inflight, call, creating, session, exists, receipts)
        /\ Conversation(PendingKeys, Reported, keys, session, exists, receipts, said, late)
    BY OutboxTypes, Zenon DEF OutboxIInv
  <1>1. keys \in Nat /\ keys < MaxKeys /\ keys + 1 \in 1 .. MaxKeys /\ keys' = keys + 1
        /\ keys' \in 0 .. MaxKeys /\ keys + 1 \in Nat
    BY <1>0, OutboxAssumption DEF deliver, CountsTyped
  <1>2. new \in Message /\ new.key = keys + 1 /\ new.id = new.key /\ new.text = x
    BY <1>1 DEF Message
  <1>3. IF inflight # None
        THEN outbox' = q /\ stalled' = FALSE /\ UNCHANGED <<inflight, creating, call>>
        ELSE pump(q, FALSE, session)
    BY Zenon DEF deliver, Behind
  <1>. HIDE DEF new
  <1>4. \A u \in Pending : u.key < new.key
    <2>1. \A u \in Pending : u.key <= keys /\ u.key \in Nat
      BY <1>0, PendingTyped, Zenon DEF Conversation, Ahead, PendingKeys
    <2>. QED
      BY <1>1, <1>2, <2>1
  <1>5. outbox \in Seq(Message) /\ Rising(outbox) /\ Entries(outbox) \subseteq Pending
    BY <1>0, Zenon DEF QueueTyped, Lined, Pending
  <1>6. q \in Seq(Message) /\ Rising(q) /\ Entries(q) = Entries(outbox) \cup {new}
    <2>1. \A u \in Entries(outbox) : u.key < new.key
      BY <1>4, <1>5, Zenon
    <2>. QED
      BY <1>2, <1>5, <2>1, QueueBehind
  <1>. HIDE DEF q
  <1>7. /\ QueueTyped' /\ Lined' /\ Pending' = Pending \cup {new}
        /\ Calling(inflight, call, creating, session, exists, receipts)'
    <2>1. CASE inflight # None
      <3>1. outbox' = q /\ stalled' = FALSE /\ UNCHANGED <<inflight, creating, call>>
        BY <1>3, <2>1, Zenon
      <3>2. QueueTyped'
        BY <1>0, <1>6, <3>1, Zenon DEF QueueTyped
      <3>3. inflight.key < new.key
        BY <1>4, <2>1, Zenon DEF Pending
      <3>4. Lined'
        BY <1>0, <1>6, <2>1, <3>1, <3>3, Zenon DEF Lined
      <3>5. Pending' = Pending \cup {new}
        BY <1>6, <3>1, Zenon DEF Pending
      <3>. QED
        BY <1>0, <3>1, <3>2, <3>4, <3>5, Zenon
    <2>2. CASE inflight = None
      <3>1. pump(q, FALSE, session) /\ session \in BOOLEAN /\ FALSE \in BOOLEAN
        BY <1>0, <1>3, <2>2, Zenon DEF FlagsTyped
      <3>2. /\ QueueTyped' /\ Lined' /\ Pending' = Entries(q)
            /\ inflight' = None => call' = "none" /\ ~creating'
            /\ inflight' # None => call' = "sent" /\ (creating' <=> ~session)
        BY <1>6, <3>1, Pumped, Zenon
      <3>3. Pending' = Pending \cup {new}
        BY <1>6, <2>2, <3>2, Zenon DEF Pending
      <3>4. call' # "answered"
        BY <3>2
      <3>. QED
        BY <3>2, <3>3, <3>4, Zenon DEF Calling
    <2>. QED
      BY <2>1, <2>2, Zenon
  <1>8. PendingKeys' = PendingKeys \cup {keys + 1} /\ Reported' = Reported
    BY <1>2, <1>7, Zenon DEF PendingKeys, Reported
  <1>9. Conversation(PendingKeys, Reported, keys, session, exists, receipts, said, late)'
    <2>1. Conversation(PendingKeys \cup {keys + 1}, Reported, keys + 1, session, exists, receipts,
                       said, late)
      BY <1>0, <1>1, PendingTyped, ReportedTyped, SaidTyped, AnotherWaits, Zenon DEF WireTyped
    <2>. QED
      BY <1>1, <1>8, <2>1, Zenon
  <1>10. Marked(Pending)'
    BY <1>0, <1>2, <1>7, Zenon DEF Marked
  <1>. QED
    BY <1>1, <1>2, <1>7, <1>9, <1>10, Zenon

(* enter with text in the editor. *)
LEMMA SubmitsStep == ASSUME OutboxIInv, Submits PROVE OutboxIInv'
  <1>0. /\ PersonTyped /\ QueueTyped /\ FlagsTyped /\ AnswersTyped /\ CountsTyped /\ EngineTyped
        /\ WireTyped /\ RecordTyped /\ Rising(settled)
        /\ Prompting(Pending, told, sent, harness, bound)
        /\ Kept(Pending, settled, unsent, wiped, composer)
    BY OutboxTypes, Zenon DEF OutboxIInv
  <1>1. /\ composer \in Texts /\ deliver(composer) /\ composer' = None
        /\ UNCHANGED <<unsent, wiped, session, harness, bound, told, sent, late, exists, receipts,
                       said, settled, faults>>
    BY <1>0, Zenon DEF Submits, engine, PersonTyped
  <1>2. PICK o \in Message :
           /\ QueueTyped' /\ keys' \in 0 .. MaxKeys /\ Lined' /\ Marked(Pending)'
           /\ Calling(inflight, call, creating, session, exists, receipts)'
           /\ Conversation(PendingKeys, Reported, keys, session, exists, receipts, said, late)'
           /\ o.text = composer /\ Pending' = Pending \cup {o}
    BY <1>1, DeliverStep, Zenon
  <1>3. OutboxTypeOK'
    <2>1. /\ PersonTyped' /\ FlagsTyped' /\ AnswersTyped' /\ CountsTyped' /\ EngineTyped' /\ WireTyped'
          /\ RecordTyped'
      BY <1>0, <1>1, <1>2, Zenon DEF PersonTyped, FlagsTyped, AnswersTyped, CountsTyped,
                                     EngineTyped, WireTyped, RecordTyped
    <2>. QED
      BY <1>2, <2>1, OutboxTypes, Zenon DEF OutboxTypeOK, PersonTyped, QueueTyped, FlagsTyped,
            AnswersTyped, CountsTyped, EngineTyped, WireTyped, RecordTyped
  <1>4. Prompting(Pending, told, sent, harness, bound)'
    <2>1. o.text \notin Prompts
      BY <1>1, <1>2, OutboxAssumption, Zenon
    <2>. QED
      BY <1>0, <1>1, <1>2, <2>1, Zenon DEF Prompting
  <1>5. Kept(Pending, settled, unsent, wiped, composer)'
    BY <1>0, <1>1, <1>2, Zenon DEF Kept
  <1>6. Rising(settled)'
    BY <1>0, <1>1, Zenon
  <1>. QED
    BY <1>2, <1>3, <1>4, <1>5, <1>6, Zenon DEF OutboxIInv

(* A prompt arrives over the control socket. *)
LEMMA PromptArrivesStep ==
    ASSUME OutboxIInv, NEW p \in Prompts, PromptArrives(p) PROVE OutboxIInv'
  <1>0. /\ PersonTyped /\ QueueTyped /\ FlagsTyped /\ AnswersTyped /\ CountsTyped /\ EngineTyped
        /\ WireTyped /\ RecordTyped /\ Rising(settled)
        /\ Prompting(Pending, told, sent, harness, bound)
        /\ Kept(Pending, settled, unsent, wiped, composer)
    BY OutboxTypes, Zenon DEF OutboxIInv
  <1>1. /\ harness /\ told[p] = "absent" /\ deliver(p)
        /\ told' = [told EXCEPT ![p] = "waiting"]
        /\ UNCHANGED <<composer, unsent, wiped, session, harness, bound, sent, late, exists,
                       receipts, said, settled, faults>>
    BY Zenon DEF PromptArrives, engine, person
  <1>2. PICK o \in Message :
           /\ QueueTyped' /\ keys' \in 0 .. MaxKeys /\ Lined' /\ Marked(Pending)'
           /\ Calling(inflight, call, creating, session, exists, receipts)'
           /\ Conversation(PendingKeys, Reported, keys, session, exists, receipts, said, late)'
           /\ o.text = p /\ Pending' = Pending \cup {o}
    BY <1>1, DeliverStep, Zenon
  <1>3. OutboxTypeOK'
    <2>1. /\ PersonTyped' /\ FlagsTyped' /\ AnswersTyped' /\ CountsTyped' /\ EngineTyped' /\ WireTyped'
          /\ RecordTyped'
      BY <1>0, <1>1, <1>2, Zenon DEF PersonTyped, FlagsTyped, AnswersTyped, CountsTyped,
                                     EngineTyped, WireTyped, RecordTyped
    <2>. QED
      BY <1>2, <2>1, Zenon DEF OutboxTypeOK, PersonTyped, QueueTyped, FlagsTyped,
            AnswersTyped, CountsTyped, EngineTyped, WireTyped, RecordTyped
  <1>4. Prompting(Pending, told, sent, harness, bound)'
    <2>1. told'[p] = "waiting" /\ \A r \in Prompts : r # p => told'[r] = told[r]
      BY <1>0, <1>1, Zenon DEF AnswersTyped
    <2>2. \A u \in Pending : u.text # p
      BY <1>0, <1>1, Zenon DEF Prompting
    <2>3. sent[p] = 0 /\ 0 # 1
      <3>1. sent[p] = 0
        BY <1>0, <1>1, Zenon DEF Prompting
      <3>. QED
        BY <3>1
    <2>4. \A u, v \in Pending' : u.text \in Prompts /\ u.text = v.text => u = v
      BY <1>0, <1>2, <2>2, Zenon DEF Prompting
    <2>5. "waiting" # "absent" /\ "waiting" # "ok"
      OBVIOUS
    <2>6. ASSUME NEW r \in Prompts
          PROVE  /\ sent'[r] \in {0, 1}
                 /\ sent'[r] = 1 => \A u \in Pending' : u.text # r
                 /\ told'[r] = "absent" => sent'[r] = 0 /\ \A u \in Pending' : u.text # r
                 /\ told'[r] # "absent" => harness'
                 /\ told'[r] = "ok" => bound'
      BY <1>0, <1>1, <1>2, <2>1, <2>3, <2>5, Zenon DEF Prompting
    <2>. QED
      BY <1>0, <1>1, <2>4, <2>6, Zenon DEF Prompting
  <1>5. Kept(Pending, settled, unsent, wiped, composer)'
    BY <1>0, <1>1, <1>2, Zenon DEF Kept
  <1>6. Rising(settled)'
    BY <1>0, <1>1, Zenon
  <1>. QED
    BY <1>2, <1>3, <1>4, <1>5, <1>6, Zenon DEF OutboxIInv

(* The types of the next state, from their groups. *)
LEMMA OutboxTypesNext ==
    ASSUME PersonTyped', QueueTyped', FlagsTyped', AnswersTyped', CountsTyped', EngineTyped',
           WireTyped', RecordTyped'
    PROVE  OutboxTypeOK'
  BY Zenon DEF OutboxTypeOK, PersonTyped, QueueTyped, FlagsTyped, AnswersTyped, CountsTyped,
               EngineTyped, WireTyped, RecordTyped

(* The steps that leave the queue and the conversation alone. *)
LEMMA AsideStep ==
    ASSUME OutboxIInv, UNCHANGED <<queue, session, harness, bound, sent, keys, late, receipts, said,
                                   settled>>,
           PersonTyped', AnswersTyped', faults' \in 0 .. MaxFaults, exists' \in BOOLEAN,
           exists => exists',
           \A p \in Prompts : told'[p] = told[p] \/ (told[p] = "waiting" /\ told'[p] = "error"),
           unsent \cup wiped \cup ({composer} \ {None}) \subseteq unsent' \cup wiped' \cup {composer'}
    PROVE  OutboxIInv'
  <1>0. /\ QueueTyped /\ FlagsTyped /\ CountsTyped /\ EngineTyped /\ WireTyped /\ RecordTyped
        /\ Lined /\ Marked(Pending) /\ Rising(settled)
        /\ Calling(inflight, call, creating, session, exists, receipts)
        /\ Conversation(PendingKeys, Reported, keys, session, exists, receipts, said, late)
        /\ Prompting(Pending, told, sent, harness, bound)
        /\ Kept(Pending, settled, unsent, wiped, composer)
    BY OutboxTypes, Zenon DEF OutboxIInv
  <1>1. UNCHANGED <<outbox, inflight, stalled, creating, call, Pending, PendingKeys, Reported>>
    BY Zenon DEF queue, Pending, PendingKeys, Reported
  <1>2. OutboxTypeOK'
    <2>1. QueueTyped' /\ FlagsTyped' /\ CountsTyped' /\ EngineTyped' /\ WireTyped' /\ RecordTyped'
      BY <1>0, <1>1, Zenon DEF QueueTyped, FlagsTyped, CountsTyped, EngineTyped, WireTyped, RecordTyped
    <2>. QED
      BY <2>1, OutboxTypesNext, Zenon
  <1>3. Lined' /\ Marked(Pending)' /\ Rising(settled)'
    BY <1>0, <1>1, Zenon DEF Lined
  <1>4. Calling(inflight, call, creating, session, exists, receipts)'
    BY <1>0, <1>1, Zenon DEF Calling
  <1>5. Conversation(PendingKeys, Reported, keys, session, exists, receipts, said, late)'
    BY <1>0, <1>1, Zenon DEF Conversation, Founded
  <1>6. Prompting(Pending, told, sent, harness, bound)'
    <2>1. "waiting" # "absent" /\ "error" # "absent" /\ "error" # "ok"
      OBVIOUS
    <2>. QED
      BY <1>0, <1>1, <2>1, Zenon DEF Prompting
  <1>7. Kept(Pending, settled, unsent, wiped, composer)'
    BY <1>0, <1>1, OutboxAssumption, Zenon DEF Kept
  <1>. QED
    BY <1>2, <1>3, <1>4, <1>5, <1>6, <1>7, Zenon DEF OutboxIInv

LEMMA TypesStep == ASSUME OutboxIInv, NEW x \in Texts, Types(x) PROVE OutboxIInv'
  <1>1. PersonTyped /\ AnswersTyped /\ CountsTyped /\ EngineTyped
    BY OutboxTypes, Zenon DEF OutboxIInv
  <1>2. PersonTyped' /\ AnswersTyped' /\ faults' \in 0 .. MaxFaults /\ exists' \in BOOLEAN
    BY <1>1, Zenon DEF Types, PersonTyped, AnswersTyped, CountsTyped, EngineTyped, engine
  <1>3. unsent \cup wiped \cup ({composer} \ {None}) \subseteq unsent' \cup wiped' \cup {composer'}
    BY Zenon DEF Types
  <1>4. /\ UNCHANGED <<queue, session, harness, bound, sent, keys, late, receipts, said, settled>>
        /\ exists' = exists /\ told' = told
    BY Zenon DEF Types, engine
  <1>. QED
    BY <1>2, <1>3, <1>4, AsideStep, Zenon

LEMMA ClearsStep == ASSUME OutboxIInv, Clears PROVE OutboxIInv'
  <1>1. PersonTyped /\ AnswersTyped /\ CountsTyped /\ EngineTyped
    BY OutboxTypes, Zenon DEF OutboxIInv
  <1>2. PersonTyped' /\ AnswersTyped' /\ faults' \in 0 .. MaxFaults /\ exists' \in BOOLEAN
    BY <1>1, Zenon DEF Clears, PersonTyped, AnswersTyped, CountsTyped, EngineTyped, engine
  <1>3. unsent \cup wiped \cup ({composer} \ {None}) \subseteq unsent' \cup wiped' \cup {composer'}
    BY Zenon DEF Clears
  <1>4. /\ UNCHANGED <<queue, session, harness, bound, sent, keys, late, receipts, said, settled>>
        /\ exists' = exists /\ told' = told
    BY Zenon DEF Clears, engine
  <1>. QED
    BY <1>2, <1>3, <1>4, AsideStep, Zenon

LEMMA PromptGivesUpStep ==
    ASSUME OutboxIInv, NEW p \in Prompts, PromptGivesUp(p) PROVE OutboxIInv'
  <1>1. PersonTyped /\ AnswersTyped /\ CountsTyped /\ EngineTyped
    BY OutboxTypes, Zenon DEF OutboxIInv
  <1>2. faults' \in 0 .. MaxFaults
    <2>1. faults \in 0 .. MaxFaults /\ faults < MaxFaults /\ faults' = faults + 1
      BY <1>1, Zenon DEF PromptGivesUp, CountsTyped
    <2>. QED
      BY <2>1, OutboxAssumption
  <1>3. /\ UNCHANGED <<composer, unsent, wiped, queue, session, harness, bound, sent, keys, late,
                       exists, receipts, said, settled>>
        /\ told' = [told EXCEPT ![p] = "error"] /\ told[p] = "waiting"
    BY Zenon DEF PromptGivesUp, engine, person
  <1>4. PersonTyped' /\ AnswersTyped' /\ exists' \in BOOLEAN
    BY <1>1, <1>3, Zenon DEF PersonTyped, AnswersTyped, EngineTyped
  <1>5. \A r \in Prompts : told'[r] = told[r] \/ (told[r] = "waiting" /\ told'[r] = "error")
    BY <1>1, <1>3, Zenon DEF AnswersTyped
  <1>6. unsent \cup wiped \cup ({composer} \ {None}) \subseteq unsent' \cup wiped' \cup {composer'}
    BY <1>3, Zenon
  <1>7. UNCHANGED <<queue, session, harness, bound, sent, keys, late, receipts, said, settled>>
        /\ (exists => exists')
    BY <1>3, Zenon
  <1>. QED
    BY <1>2, <1>4, <1>5, <1>6, <1>7, AsideStep, Zenon

LEMMA CreatedElsewhereStep == ASSUME OutboxIInv, CreatedElsewhere PROVE OutboxIInv'
  <1>1. PersonTyped /\ AnswersTyped /\ CountsTyped /\ EngineTyped
    BY OutboxTypes, Zenon DEF OutboxIInv
  <1>2. faults' \in 0 .. MaxFaults
    <2>1. faults \in 0 .. MaxFaults /\ faults < MaxFaults /\ faults' = faults + 1
      BY <1>1, Zenon DEF CreatedElsewhere, CountsTyped
    <2>. QED
      BY <2>1, OutboxAssumption
  <1>3. /\ UNCHANGED <<composer, unsent, wiped, queue, session, harness, bound, told, sent, keys,
                       late, receipts, said, settled>>
        /\ exists' = TRUE
    BY Zenon DEF CreatedElsewhere, person
  <1>4. PersonTyped' /\ AnswersTyped' /\ exists' \in BOOLEAN
    BY <1>1, <1>3, Zenon DEF PersonTyped, AnswersTyped
  <1>5. unsent \cup wiped \cup ({composer} \ {None}) \subseteq unsent' \cup wiped' \cup {composer'}
    BY <1>3, Zenon
  <1>6. /\ UNCHANGED <<queue, session, harness, bound, sent, keys, late, receipts, said, settled>>
        /\ (exists => exists') /\ told' = told
    BY <1>3, Zenon
  <1>. QED
    BY <1>2, <1>4, <1>5, <1>6, AsideStep, Zenon

(* enter in an empty editor goes on with a stalled queue. *)
LEMMA RetriesStep == ASSUME OutboxIInv, Retries PROVE OutboxIInv'
  <1>0. /\ PersonTyped /\ QueueTyped /\ FlagsTyped /\ AnswersTyped /\ CountsTyped /\ EngineTyped
        /\ WireTyped /\ RecordTyped /\ Lined /\ Marked(Pending) /\ Rising(settled)
        /\ Conversation(PendingKeys, Reported, keys, session, exists, receipts, said, late)
        /\ Prompting(Pending, told, sent, harness, bound)
        /\ Kept(Pending, settled, unsent, wiped, composer)
    BY OutboxTypes, Zenon DEF OutboxIInv
  <1>1. /\ inflight = None /\ pump(outbox, FALSE, session)
        /\ UNCHANGED <<composer, unsent, wiped, session, harness, bound, told, sent, keys, late,
                       exists, receipts, said, settled, faults>>
    BY Zenon DEF Retries, engine, person
  <1>2. /\ QueueTyped' /\ Lined' /\ Pending' = Entries(outbox)
        /\ inflight' = None => call' = "none" /\ ~creating'
        /\ inflight' # None => call' = "sent" /\ (creating' <=> ~session)
    BY <1>0, <1>1, Pumped, Zenon DEF QueueTyped, Lined, FlagsTyped
  <1>3. Pending' = Pending /\ PendingKeys' = PendingKeys /\ Reported' = Reported
    BY <1>1, <1>2, Zenon DEF Pending, PendingKeys, Reported
  <1>4. OutboxTypeOK'
    <2>1. /\ PersonTyped' /\ FlagsTyped' /\ AnswersTyped' /\ CountsTyped' /\ EngineTyped' /\ WireTyped'
          /\ RecordTyped'
      BY <1>0, <1>1, Zenon DEF PersonTyped, FlagsTyped, AnswersTyped, CountsTyped, EngineTyped,
                               WireTyped, RecordTyped
    <2>. QED
      BY <1>2, <2>1, OutboxTypesNext, Zenon
  <1>5. Calling(inflight, call, creating, session, exists, receipts)'
    <2>1. call' # "answered"
      BY <1>2
    <2>. QED
      BY <1>1, <1>2, <2>1, Zenon DEF Calling
  <1>6. /\ Conversation(PendingKeys, Reported, keys, session, exists, receipts, said, late)'
        /\ Prompting(Pending, told, sent, harness, bound)'
        /\ Kept(Pending, settled, unsent, wiped, composer)' /\ Marked(Pending)' /\ Rising(settled)'
    BY <1>0, <1>1, <1>3, Zenon
  <1>. QED
    BY <1>2, <1>4, <1>5, <1>6, Zenon DEF OutboxIInv

-----------------------------------------------------------------------------
(* The running call's message is the first that waits. *)
LEMMA FirstWaits ==
    ASSUME QueueTyped, Lined, Marked(Pending), inflight # None
    PROVE  /\ inflight \in Message /\ inflight \in Pending /\ inflight.key \in PendingKeys
           /\ inflight.id = inflight.key
           /\ Pending = Entries(outbox) \cup {inflight} /\ inflight \notin Entries(outbox)
           /\ \A p \in PendingKeys : inflight.key <= p
  <1>1. inflight \in Message /\ inflight \in Pending
    BY PendingTyped, Zenon
  <1>2. \A o \in Entries(outbox) : inflight.key < o.key
    BY Zenon DEF Lined
  <1>3. Pending = Entries(outbox) \cup {inflight}
    BY Zenon DEF Pending
  <1>4. inflight.key \in Nat /\ \A o \in Entries(outbox) : o.key \in Nat
    BY <1>1, PendingTyped, MessageFields, Zenon
  <1>5. inflight \notin Entries(outbox) /\ \A o \in Pending : inflight.key <= o.key
    BY <1>2, <1>3, <1>4
  <1>. QED
    BY <1>1, <1>3, <1>5, Zenon DEF PendingKeys, Marked

(* The request of the running call. *)
LEMMA RequestOfCall ==
    ASSUME QueueTyped, Lined, Marked(Pending), inflight # None
    PROVE  /\ CurrentRequest \in Request /\ CurrentRequest.key = inflight.key
           /\ CurrentRequest.id = inflight.key /\ CurrentRequest.create = creating
  <1>1. inflight.key \in 1 .. MaxKeys /\ inflight.id = inflight.key /\ inflight.key \in Nat
    BY FirstWaits, MessageFields, Zenon
  <1>2. creating \in BOOLEAN
    BY Zenon DEF QueueTyped
  <1>. QED
    BY <1>1, <1>2 DEF CurrentRequest, RequestId, Request

(* What the engine does with a request keeps the conversation. *)
LEMMA AcceptStep ==
    ASSUME OutboxIInv, NEW r \in Request, Accept(r), NEW L \in SUBSET late,
           r.id = r.key, r.key <= keys, \A p \in PendingKeys : r.key <= p,
           ~r.create => /\ session
                        /\ r.key \in Reported => r.key \in receipts
                        /\ \A i \in DOMAIN said : said[i] \notin receipts => said[i] < r.key
    PROVE  /\ EngineTyped' /\ (exists => exists') /\ receipts \subseteq receipts'
           /\ r.create => exists'
           /\ ~r.create => r.key \in receipts'
           /\ Conversation(PendingKeys, Reported, keys, session, exists', receipts', said', L)
  <1>0. /\ QueueTyped /\ FlagsTyped /\ CountsTyped /\ EngineTyped /\ WireTyped /\ RecordTyped
        /\ Conversation(PendingKeys, Reported, keys, session, exists, receipts, said, late)
    BY OutboxTypes, Zenon DEF OutboxIInv
  <1>1. r.key \in Nat /\ r.create \in BOOLEAN /\ r.key \in 1 .. MaxKeys
    BY RequestNumber, Zenon DEF Request
  <1>2. keys \in Nat
    BY <1>0, OutboxAssumption DEF CountsTyped
  <1>3. Append(said, r.key) \in Seq(1 .. MaxKeys)
    BY <1>0, <1>1 DEF EngineTyped
  <1>4. /\ r.create = TRUE /\ exists = FALSE =>
              Conversation(PendingKeys, Reported, keys, session, TRUE, receipts, Append(said, r.key), L)
        /\ r.create = TRUE /\ exists = TRUE =>
              Conversation(PendingKeys, Reported, keys, session, TRUE, receipts, said, L)
        /\ r.create = FALSE /\ r.id \in receipts =>
              Conversation(PendingKeys, Reported, keys, session, exists, receipts \cup {r.id}, said, L)
        /\ r.create = FALSE /\ r.id \notin receipts =>
              Conversation(PendingKeys, Reported, keys, session, exists, receipts \cup {r.id},
                           Append(said, r.key), L)
    <2>1. /\ PendingKeys \in SUBSET Nat /\ Reported \in SUBSET Nat /\ said \in Seq(Nat)
          /\ session \in BOOLEAN /\ exists \in BOOLEAN /\ receipts \in SUBSET Nat
          /\ late \in SUBSET Request
      BY <1>0, PendingTyped, ReportedTyped, SaidTyped, Zenon DEF FlagsTyped, EngineTyped, WireTyped
    <2>2. r.create = FALSE => /\ session = TRUE
                              /\ r.key \in Reported => r.key \in receipts
                              /\ \A i \in DOMAIN said : said[i] \notin receipts => said[i] < r.key
      BY <2>1
    <2>3. Conversation(PendingKeys, Reported, keys, session, exists, receipts, said, late)
      BY <1>0, Zenon
    <2>4. TakenUp(r, PendingKeys, Reported, keys, session, exists, receipts, said, L)
      BY <1>2, <2>1, <2>2, <2>3, RequestTaken, Zenon
    <2>. QED
      BY <2>4, Zenon DEF TakenUp
  <1>5. CASE r.create = TRUE
    <2>1. exists \in BOOLEAN /\ receipts \subseteq Nat /\ said \in Seq(1 .. MaxKeys)
      BY <1>0, Zenon DEF EngineTyped
    <2>2. /\ exists' = TRUE /\ receipts' = receipts
          /\ said' = IF exists THEN said ELSE Append(said, r.key)
      BY <1>5, Zenon DEF Accept
    <2>3. EngineTyped'
      BY <1>3, <2>1, <2>2, Zenon DEF EngineTyped
    <2>4. CASE exists = TRUE
      BY <1>4, <1>5, <2>2, <2>3, <2>4, Zenon
    <2>5. CASE exists = FALSE
      BY <1>4, <1>5, <2>2, <2>3, <2>5, Zenon
    <2>. QED
      BY <2>1, <2>4, <2>5, Zenon
  <1>6. CASE r.create = FALSE
    <2>1. exists \in BOOLEAN /\ receipts \subseteq Nat /\ said \in Seq(1 .. MaxKeys)
      BY <1>0, Zenon DEF EngineTyped
    <2>2. /\ exists' = exists /\ receipts' = receipts \cup {r.id}
          /\ said' = IF r.id \in receipts THEN said ELSE Append(said, r.key)
      BY <1>6, Zenon DEF Accept
    <2>3. EngineTyped' /\ r.key \in receipts' /\ receipts \subseteq receipts'
      BY <1>1, <1>3, <2>1, <2>2, Zenon DEF EngineTyped
    <2>4. CASE r.id \in receipts
      BY <1>4, <1>6, <2>2, <2>3, <2>4, Zenon
    <2>5. CASE r.id \notin receipts
      BY <1>4, <1>6, <2>2, <2>3, <2>5, Zenon
    <2>. QED
      BY <2>4, <2>5, Zenon
  <1>. QED
    BY <1>1, <1>5, <1>6, Zenon

(* The engine takes a request that its caller gave up. *)
LEMMA EngineTakesLateStep ==
    ASSUME OutboxIInv, NEW r \in late, EngineTakesLate(r) PROVE OutboxIInv'
  <1>0. /\ PersonTyped /\ QueueTyped /\ FlagsTyped /\ AnswersTyped /\ CountsTyped /\ EngineTyped
        /\ WireTyped /\ RecordTyped /\ Lined /\ Marked(Pending) /\ Rising(settled)
        /\ Calling(inflight, call, creating, session, exists, receipts)
        /\ Conversation(PendingKeys, Reported, keys, session, exists, receipts, said, late)
        /\ Prompting(Pending, told, sent, harness, bound)
        /\ Kept(Pending, settled, unsent, wiped, composer)
    BY OutboxTypes, Zenon DEF OutboxIInv
  <1>1. /\ late' = late \ {r} /\ Accept(r)
        /\ UNCHANGED <<composer, unsent, wiped, outbox, inflight, stalled, creating, call, session,
                       harness, bound, told, sent, keys, settled, faults>>
    BY Zenon DEF EngineTakesLate, person, queue
  <1>2. UNCHANGED <<Pending, PendingKeys, Reported>>
    BY <1>1, Zenon DEF Pending, PendingKeys, Reported
  <1>3. /\ r \in Request /\ r.id = r.key /\ r.key <= keys /\ \A p \in PendingKeys : r.key <= p
        /\ ~r.create => /\ session
                        /\ r.key \in Reported => r.key \in receipts
                        /\ \A i \in DOMAIN said : said[i] \notin receipts => said[i] < r.key
    BY <1>0, Zenon DEF WireTyped, Conversation, Trailing, Founded, Received
  <1>4. /\ EngineTyped' /\ (exists => exists') /\ receipts \subseteq receipts'
        /\ Conversation(PendingKeys, Reported, keys, session, exists', receipts', said', late \ {r})
    BY <1>1, <1>3, AcceptStep, Zenon
  <1>5. OutboxTypeOK'
    <2>1. /\ PersonTyped' /\ QueueTyped' /\ FlagsTyped' /\ AnswersTyped' /\ CountsTyped' /\ WireTyped'
          /\ RecordTyped'
      BY <1>0, <1>1, Zenon DEF PersonTyped, QueueTyped, FlagsTyped, AnswersTyped, CountsTyped,
                               WireTyped, RecordTyped
    <2>. QED
      BY <1>4, <2>1, OutboxTypesNext, Zenon
  <1>6. Lined' /\ Marked(Pending)' /\ Rising(settled)'
    BY <1>0, <1>1, <1>2, Zenon DEF Lined
  <1>7. Calling(inflight, call, creating, session, exists, receipts)'
    BY <1>0, <1>1, <1>4, Zenon DEF Calling
  <1>8. Conversation(PendingKeys, Reported, keys, session, exists, receipts, said, late)'
    BY <1>1, <1>2, <1>4, Zenon
  <1>9. /\ Prompting(Pending, told, sent, harness, bound)'
        /\ Kept(Pending, settled, unsent, wiped, composer)'
    BY <1>0, <1>1, <1>2, Zenon
  <1>. QED
    BY <1>5, <1>6, <1>7, <1>8, <1>9, Zenon DEF OutboxIInv

(* The engine takes the request of the running call. *)
LEMMA EngineTakesStep == ASSUME OutboxIInv, EngineTakes PROVE OutboxIInv'
  <1>0. /\ PersonTyped /\ QueueTyped /\ FlagsTyped /\ AnswersTyped /\ CountsTyped /\ EngineTyped
        /\ WireTyped /\ RecordTyped /\ Lined /\ Marked(Pending) /\ Rising(settled)
        /\ Calling(inflight, call, creating, session, exists, receipts)
        /\ Conversation(PendingKeys, Reported, keys, session, exists, receipts, said, late)
        /\ Prompting(Pending, told, sent, harness, bound)
        /\ Kept(Pending, settled, unsent, wiped, composer)
    BY OutboxTypes, Zenon DEF OutboxIInv
  <1>1. /\ call = "sent" /\ call' = "answered" /\ Accept(CurrentRequest)
        /\ UNCHANGED <<composer, unsent, wiped, outbox, inflight, stalled, creating, session,
                       harness, bound, told, sent, keys, late, settled, faults>>
    BY Zenon DEF EngineTakes, person
  <1>2. UNCHANGED <<Pending, PendingKeys, Reported>>
    BY <1>1, Zenon DEF Pending, PendingKeys, Reported
  <1>3. inflight # None /\ (creating <=> ~session)
    <2>1. call # "none"
      BY <1>1
    <2>. QED
      BY <1>0, <2>1, Zenon DEF Calling
  <1>. DEFINE r == CurrentRequest
  <1>4. r \in Request /\ r.key = inflight.key /\ r.id = inflight.key /\ r.create = creating
    BY <1>0, <1>3, RequestOfCall, Zenon
  <1>5. r.key \in PendingKeys /\ \A p \in PendingKeys : r.key <= p
    BY <1>0, <1>3, <1>4, FirstWaits, Zenon
  <1>6. r.key <= keys /\ r.key \notin Reported
    <2>1. r.key <= keys /\ (r.key \in Reported => r.key < r.key)
      BY <1>0, <1>5, Zenon DEF Conversation, Ahead
    <2>2. r.key \in Nat
      BY <1>4, RequestNumber, Zenon
    <2>3. ~(r.key < r.key)
      BY <2>2
    <2>. QED
      BY <2>1, <2>3, Zenon
  <1>7. ~r.create => session /\ \A i \in DOMAIN said : said[i] \notin receipts => said[i] < r.key
    BY <1>0, <1>3, <1>4, <1>5, Zenon DEF Conversation, Received
  <1>8. /\ EngineTyped' /\ (exists => exists') /\ receipts \subseteq receipts'
        /\ r.create => exists'
        /\ ~r.create => r.key \in receipts'
        /\ Conversation(PendingKeys, Reported, keys, session, exists', receipts', said', late)
    <2>. HIDE DEF r
    <2>1. Accept(r) /\ late \in SUBSET late /\ r.id = r.key
      BY <1>1, <1>4, Zenon DEF r
    <2>. QED
      BY <2>1, <1>4, <1>5, <1>6, <1>7, AcceptStep, Zenon
  <1>. HIDE DEF r
  <1>9. OutboxTypeOK'
    <2>1. /\ PersonTyped' /\ QueueTyped' /\ FlagsTyped' /\ AnswersTyped' /\ CountsTyped' /\ WireTyped'
          /\ RecordTyped'
      BY <1>0, <1>1, Zenon DEF PersonTyped, QueueTyped, FlagsTyped, AnswersTyped, CountsTyped,
                               WireTyped, RecordTyped
    <2>. QED
      BY <1>8, <2>1, OutboxTypesNext, Zenon
  <1>10. Lined' /\ Marked(Pending)' /\ Rising(settled)'
    BY <1>0, <1>1, <1>2, Zenon DEF Lined
  <1>11. Calling(inflight, call, creating, session, exists, receipts)'
    BY <1>0, <1>1, <1>3, <1>4, <1>8, Zenon DEF Calling
  <1>12. Conversation(PendingKeys, Reported, keys, session, exists, receipts, said, late)'
    BY <1>1, <1>2, <1>8, Zenon
  <1>13. /\ Prompting(Pending, told, sent, harness, bound)'
         /\ Kept(Pending, settled, unsent, wiped, composer)'
    BY <1>0, <1>1, <1>2, Zenon
  <1>. QED
    BY <1>9, <1>10, <1>11, <1>12, <1>13, Zenon DEF OutboxIInv

-----------------------------------------------------------------------------
(* Prompts among the messages ms are answered, and the messages W still     *)
(* wait: none of them is a prompt that was answered.                        *)
LEMMA Replied ==
    ASSUME NEW P, NEW W \in SUBSET P, NEW ms \in SUBSET P, NEW bo \in BOOLEAN,
           NEW word \in {"ok", "error"},
           AnswersTyped, Prompting(P, told, sent, harness, bound), Reply(ms, word),
           \A o \in W, u \in ms : o.text \in Prompts => o.text # u.text,
           word = "ok" => bo \/ ~harness, bound => bo, bo => harness
    PROVE  AnswersTyped' /\ Prompting(W, told', sent', harness, bo)
  <1>. DEFINE ps == {o.text : o \in ms} \cap Prompts
  <1>1. /\ sent' = [p \in Prompts |-> IF p \in ps THEN sent[p] + 1 ELSE sent[p]]
        /\ told' = [p \in Prompts |-> IF p \in ps /\ told[p] = "waiting" THEN word ELSE told[p]]
    BY Zenon DEF Reply
  <1>2. /\ \A p \in ps : \E u \in ms : u.text = p
        /\ \A o \in W : o.text \notin ps
    BY Zenon
  <1>. HIDE DEF ps
  <1>3. AnswersTyped'
    <2>1. \A p \in Prompts : sent[p] \in Nat /\ sent[p] + 1 \in Nat
      BY DEF AnswersTyped
    <2>2. \A p \in Prompts : told[p] \in {"absent", "waiting", "ok", "error"}
      BY Zenon DEF AnswersTyped
    <2>. QED
      BY <1>1, <2>1, <2>2, Zenon DEF AnswersTyped
  <1>4. "waiting" # "absent" /\ "ok" # "absent" /\ "error" # "absent" /\ "error" # "ok" /\ 0 # 1 /\ 0 + 1 = 1
    OBVIOUS
  <1>5. ASSUME NEW p \in Prompts
        PROVE  /\ sent'[p] \in {0, 1}
               /\ sent'[p] = 1 => \A o \in W : o.text # p
               /\ told'[p] = "absent" => sent'[p] = 0 /\ \A o \in W : o.text # p
               /\ told'[p] # "absent" => harness
               /\ told'[p] = "ok" => bo
    <2>1. CASE p \in ps
      <3>1. told[p] # "absent" /\ sent[p] = 0 /\ harness /\ (told[p] = "ok" => bo)
        BY <1>2, <2>1, Zenon DEF Prompting
      <3>2. sent'[p] = 1 /\ told'[p] = IF told[p] = "waiting" THEN word ELSE told[p]
        BY <1>1, <1>4, <2>1, <3>1, Zenon
      <3>. QED
        BY <1>2, <1>4, <2>1, <3>1, <3>2, Zenon
    <2>2. CASE p \notin ps
      <3>1. sent'[p] = sent[p] /\ told'[p] = told[p]
        BY <1>1, <2>2, Zenon
      <3>. QED
        BY <3>1, Zenon DEF Prompting
    <2>. QED
      BY <2>1, <2>2, Zenon
  <1>6. \A o, u \in W : o.text \in Prompts /\ o.text = u.text => o = u
    BY Zenon DEF Prompting
  <1>. QED
    BY <1>3, <1>5, <1>6, Zenon DEF Prompting

(* onDelivered with a result. *)
LEMMA CallReturnsStep == ASSUME OutboxIInv, CallReturns PROVE OutboxIInv'
  <1>0. /\ PersonTyped /\ QueueTyped /\ FlagsTyped /\ AnswersTyped /\ CountsTyped /\ EngineTyped
        /\ WireTyped /\ RecordTyped /\ Lined /\ Marked(Pending) /\ Rising(settled)
        /\ Calling(inflight, call, creating, session, exists, receipts)
        /\ Conversation(PendingKeys, Reported, keys, session, exists, receipts, said, late)
        /\ Prompting(Pending, told, sent, harness, bound)
        /\ Kept(Pending, settled, unsent, wiped, composer)
    BY OutboxTypes, Zenon DEF OutboxIInv
  <1>. DEFINE report == [key |-> inflight.key, text |-> inflight.text]
  <1>1. /\ call = "answered" /\ session' = TRUE
        /\ settled' = Append(settled, report) /\ pump(outbox, stalled, TRUE)
        /\ UNCHANGED <<composer, unsent, wiped, harness, keys, late, exists, receipts, said>>
    BY Zenon DEF CallReturns, PumpOn, engine, person
  <1>2. PICK bindFails \in BOOLEAN :
           /\ bindFails => harness /\ ~bound /\ faults < MaxFaults
           /\ bound' = (harness /\ ~bindFails)
           /\ faults' = IF bindFails THEN faults + 1 ELSE faults
           /\ Reply({inflight}, IF bound' \/ ~harness THEN "ok" ELSE "error")
    BY Zenon DEF CallReturns, Acknowledge
  <1>3. inflight # None /\ (creating <=> ~session)
    <2>1. call # "none"
      BY <1>1
    <2>. QED
      BY <1>0, <2>1, Zenon DEF Calling
  <1>4. exists /\ (session => inflight.key \in receipts)
    BY <1>0, <1>1, <1>3, Zenon DEF Calling, Conversation, Founded
  <1>5. /\ inflight \in Message /\ inflight \in Pending /\ inflight.key \in PendingKeys
        /\ Pending = Entries(outbox) \cup {inflight} /\ inflight \notin Entries(outbox)
        /\ inflight.key \in 1 .. MaxKeys /\ inflight.text \in Texts \cup Prompts
    BY <1>0, <1>3, FirstWaits, MessageFields, Zenon
  <1>6. /\ QueueTyped' /\ Lined' /\ Pending' = Entries(outbox)
        /\ inflight' = None => call' = "none" /\ ~creating'
        /\ inflight' # None => call' = "sent" /\ (creating' <=> ~TRUE)
    BY <1>0, <1>1, Pumped, Zenon DEF QueueTyped, Lined
  <1>7. /\ RecordTyped' /\ Rising(settled)' /\ Entries(settled)' = Entries(settled) \cup {report}
    <2>1. report \in [key: 1 .. MaxKeys, text: Texts \cup Prompts] /\ report.key = inflight.key
      BY <1>5
    <2>2. \A s \in Entries(settled) : s.key < report.key
      BY <1>0, <1>5, <2>1, Zenon DEF Conversation, Ahead, Reported
    <2>. HIDE DEF report
    <2>3. settled \in Seq([key: 1 .. MaxKeys, text: Texts \cup Prompts]) /\ Rising(settled)
      BY <1>0, Zenon DEF RecordTyped
    <2>4. /\ Append(settled, report) \in Seq([key: 1 .. MaxKeys, text: Texts \cup Prompts])
          /\ Rising(Append(settled, report))
          /\ Entries(Append(settled, report)) = Entries(settled) \cup {report}
      <3>1. PICK T : T = [key: 1 .. MaxKeys, text: Texts \cup Prompts]
        BY Zenon
      <3>2. settled \in Seq(T) /\ report \in T
        BY <2>1, <2>3, <3>1, Zenon
      <3>3. /\ Append(settled, report) \in Seq(T) /\ Rising(Append(settled, report))
            /\ Entries(Append(settled, report)) = Entries(settled) \cup {report}
        BY <2>2, <2>3, <3>2, QueueBehind
      <3>. QED
        BY <3>1, <3>3, Zenon
    <2>. QED
      BY <1>1, <2>4, Zenon DEF RecordTyped
  <1>8. /\ Reported' = Reported \cup {inflight.key} /\ PendingKeys' \subseteq PendingKeys
        /\ inflight.key \notin PendingKeys' /\ \A p \in PendingKeys' : inflight.key < p
    <2>1. report.key = inflight.key
      OBVIOUS
    <2>. HIDE DEF report
    <2>2. Reported' = Reported \cup {inflight.key}
      BY <1>7, <2>1, Zenon DEF Reported
    <2>3. PendingKeys' \subseteq PendingKeys
      BY <1>5, <1>6, Zenon DEF PendingKeys
    <2>4. \A p \in PendingKeys' : inflight.key < p
      BY <1>0, <1>3, <1>6, Zenon DEF PendingKeys, Lined
    <2>5. inflight.key \in Nat /\ ~(inflight.key < inflight.key)
      BY <1>5
    <2>. QED
      BY <2>2, <2>3, <2>4, <2>5, Zenon
  <1>9. Conversation(PendingKeys, Reported, keys, session, exists, receipts, said, late)'
    <2>1. /\ PendingKeys \in SUBSET Nat /\ Reported \in SUBSET Nat /\ said \in Seq(Nat)
          /\ session \in BOOLEAN /\ exists \in BOOLEAN /\ late \in SUBSET Request
      BY <1>0, PendingTyped, ReportedTyped, SaidTyped, Zenon DEF FlagsTyped, EngineTyped, WireTyped
    <2>2. keys \in Nat
      BY <1>0, OutboxAssumption DEF CountsTyped
    <2>3. Conversation(PendingKeys', Reported \cup {inflight.key}, keys, TRUE, exists, receipts, said, late)
      <3>1. PICK W \in SUBSET PendingKeys, k \in PendingKeys : W = PendingKeys' /\ k = inflight.key
        BY <1>5, <1>8, Zenon
      <3>2. k \notin W /\ (\A p \in W : k < p) /\ exists = TRUE /\ (session = TRUE => k \in receipts)
        BY <1>4, <1>8, <2>1, <3>1
      <3>3. Conversation(W, Reported \cup {k}, keys, TRUE, exists, receipts, said, late)
        BY <1>0, <2>1, <2>2, <3>2, FirstReported, Zenon
      <3>. QED
        BY <3>1, <3>3, Zenon
    <2>. QED
      BY <1>1, <1>8, <2>3, Zenon
  <1>10. AnswersTyped' /\ Prompting(Pending, told, sent, harness, bound)'
    <2>1. /\ bound' \in BOOLEAN /\ (bound => bound') /\ (bound' => harness)
          /\ bound \in BOOLEAN /\ harness \in BOOLEAN
      BY <1>0, <1>2, Zenon DEF FlagsTyped, Prompting
    <2>2. PICK word \in {"ok", "error"} :
             /\ word = IF bound' \/ ~harness THEN "ok" ELSE "error"
             /\ word = "ok" => bound' \/ ~harness
      OBVIOUS
    <2>3. Reply({inflight}, word)
      BY <1>2, <2>2, Zenon
    <2>4. \A o \in Entries(outbox), u \in {inflight} : o.text \in Prompts => o.text # u.text
      BY <1>0, <1>5, Zenon DEF Prompting
    <2>5. Entries(outbox) \in SUBSET Pending /\ {inflight} \in SUBSET Pending
      BY <1>5, Zenon
    <2>6. AnswersTyped' /\ Prompting(Entries(outbox), told', sent', harness, bound')
      BY <1>0, <2>1, <2>2, <2>3, <2>4, <2>5, Replied, Zenon
    <2>. QED
      BY <1>1, <1>6, <2>6, Zenon
  <1>11. OutboxTypeOK'
    <2>1. faults' \in 0 .. MaxFaults
      BY <1>0, <1>2, OutboxAssumption DEF CountsTyped
    <2>2. PersonTyped' /\ FlagsTyped' /\ CountsTyped' /\ EngineTyped' /\ WireTyped'
      BY <1>0, <1>1, <1>2, <2>1, Zenon DEF PersonTyped, FlagsTyped, CountsTyped, EngineTyped, WireTyped
    <2>. QED
      BY <1>6, <1>7, <1>10, <2>2, OutboxTypesNext, Zenon
  <1>12. Calling(inflight, call, creating, session, exists, receipts)'
    <2>1. call' # "answered"
      BY <1>6
    <2>. QED
      BY <1>1, <1>6, <2>1, Zenon DEF Calling
  <1>13. Kept(Pending, settled, unsent, wiped, composer)'
    <2>1. report.text = inflight.text
      OBVIOUS
    <2>. HIDE DEF report
    <2>. QED
      BY <1>0, <1>1, <1>5, <1>6, <1>7, <2>1, Zenon DEF Kept
  <1>14. Marked(Pending)'
    BY <1>0, <1>5, <1>6, Zenon DEF Marked
  <1>. QED
    BY <1>6, <1>7, <1>9, <1>10, <1>11, <1>12, <1>13, <1>14, Zenon DEF OutboxIInv

(* onDelivered with an error: the queue keeps what was typed. *)
LEMMA FailureKeeps ==
    ASSUME QueueTyped, Lined, Marked(Pending), inflight # None, outbox' = KeepFailed(WaitingTyped)
    PROVE  /\ outbox' \in Seq(Message) /\ Rising(outbox')
           /\ Entries(outbox') \subseteq Pending
           /\ \A o \in Entries(outbox') : o.text \notin Prompts
           /\ \A o \in Entries(outbox) : o.text \in Texts => o \in Entries(outbox')
           /\ inflight.text \in Texts => \/ inflight \in Entries(outbox')
                                         \/ composer = None /\ WaitingTyped = <<>>
  <1>. DEFINE w == WaitingTyped
  <1>1. outbox \in Seq(Message) /\ Rising(outbox)
    BY Zenon DEF QueueTyped, Lined
  <1>2. /\ w \in Seq(Message) /\ Rising(w)
        /\ Entries(w) = {o \in Entries(outbox) : o.text \in Texts}
    BY <1>1, TypedKept, Zenon DEF WaitingTyped
  <1>. HIDE DEF w
  <1>3. /\ inflight \in Message /\ inflight.text \in Texts \cup Prompts
        /\ Pending = Entries(outbox) \cup {inflight}
    BY FirstWaits, MessageFields, Zenon
  <1>4. \A o \in Entries(w) : inflight.key < o.key /\ o.text \notin Prompts
    BY <1>2, OutboxAssumption, Zenon DEF Lined
  <1>5. outbox' = IF inflight.text \in Prompts \/ (composer = None /\ w = <<>>)
                  THEN w ELSE <<inflight>> \o w
    BY Zenon DEF KeepFailed, w
  <1>6. CASE inflight.text \in Prompts \/ (composer = None /\ w = <<>>)
    <2>1. outbox' = w
      BY <1>5, <1>6, Zenon
    <2>2. inflight.text \in Texts => composer = None /\ w = <<>>
      BY <1>6, OutboxAssumption, Zenon
    <2>. QED
      BY <1>2, <1>3, <1>4, <2>1, <2>2, Zenon DEF w
  <1>7. CASE ~(inflight.text \in Prompts \/ (composer = None /\ w = <<>>))
    <2>1. outbox' = <<inflight>> \o w /\ inflight.text \notin Prompts
      BY <1>5, <1>7, Zenon
    <2>2. /\ outbox' \in Seq(Message) /\ Rising(outbox')
          /\ Entries(outbox') = Entries(w) \cup {inflight}
      BY <1>2, <1>3, <1>4, <2>1, QueueBefore, Zenon
    <2>. QED
      BY <1>2, <1>3, <1>4, <2>1, <2>2, Zenon
  <1>. QED
    BY <1>6, <1>7, Zenon

(* onDelivered with an error. *)
LEMMA CallFailsStep == ASSUME OutboxIInv, CallFails PROVE OutboxIInv'
  <1>0. /\ PersonTyped /\ QueueTyped /\ FlagsTyped /\ AnswersTyped /\ CountsTyped /\ EngineTyped
        /\ WireTyped /\ RecordTyped /\ Lined /\ Marked(Pending) /\ Rising(settled)
        /\ Calling(inflight, call, creating, session, exists, receipts)
        /\ Conversation(PendingKeys, Reported, keys, session, exists, receipts, said, late)
        /\ Prompting(Pending, told, sent, harness, bound)
        /\ Kept(Pending, settled, unsent, wiped, composer)
    BY OutboxTypes, Zenon DEF OutboxIInv
  <1>1. /\ inflight # None /\ faults < MaxFaults /\ faults' = faults + 1
        /\ late' = late \/ late' = late \cup {CurrentRequest}
        /\ Reply(Entries(outbox) \cup {inflight}, "error")
        /\ outbox' = KeepFailed(WaitingTyped)
        /\ composer' = IF composer = None /\ WaitingTyped = <<>> /\ inflight.text \in Texts
                       THEN inflight.text ELSE composer
        /\ stalled' = (outbox' # <<>>) /\ inflight' = None /\ creating' = FALSE /\ call' = "none"
        /\ UNCHANGED <<unsent, wiped, session, harness, bound, keys, exists, receipts, said, settled>>
    BY Zenon DEF CallFails, engine
  <1>2. /\ outbox' \in Seq(Message) /\ Rising(outbox')
        /\ Entries(outbox') \subseteq Pending
        /\ \A o \in Entries(outbox') : o.text \notin Prompts
        /\ \A o \in Entries(outbox) : o.text \in Texts => o \in Entries(outbox')
        /\ inflight.text \in Texts => \/ inflight \in Entries(outbox')
                                      \/ composer = None /\ WaitingTyped = <<>>
    BY <1>0, <1>1, FailureKeeps, Zenon
  <1>3. Pending = Entries(outbox) \cup {inflight} /\ (creating <=> ~session) /\ creating \in BOOLEAN
    BY <1>0, <1>1, FirstWaits, Zenon DEF Calling, QueueTyped
  <1>4. QueueTyped' /\ Lined' /\ Pending' = Entries(outbox')
    BY <1>1, <1>2, Zenon DEF QueueTyped, Lined, Pending
  <1>5. PendingKeys' \subseteq PendingKeys /\ Reported' = Reported
    BY <1>1, <1>2, <1>4, Zenon DEF PendingKeys, Reported
  <1>6. WireTyped' /\ Conversation(PendingKeys, Reported, keys, session, exists, receipts, said, late)'
    <2>1. /\ PendingKeys \in SUBSET Nat /\ Reported \in SUBSET Nat /\ said \in Seq(Nat)
          /\ session \in BOOLEAN /\ late \in SUBSET Request
      BY <1>0, PendingTyped, ReportedTyped, SaidTyped, Zenon DEF FlagsTyped, WireTyped
    <2>2. keys \in Nat
      BY <1>0, OutboxAssumption DEF CountsTyped
    <2>3. /\ CurrentRequest \in Request /\ CurrentRequest.key = inflight.key
          /\ CurrentRequest.id = inflight.key /\ CurrentRequest.create = creating
          /\ inflight.key \in PendingKeys /\ \A p \in PendingKeys : inflight.key <= p
      BY <1>0, <1>1, RequestOfCall, FirstWaits, Zenon
    <2>4. CurrentRequest.create = ~session
      BY <1>3, <2>1, <2>3
    <2>5. Conversation(PendingKeys, Reported, keys, session, exists, receipts, said,
                       late \cup {CurrentRequest})
      <3>1. PICK r \in Request : r = CurrentRequest
        BY <2>3, Zenon
      <3>2. /\ r.id = r.key /\ r.key \in PendingKeys /\ (\A p \in PendingKeys : r.key <= p)
            /\ r.create = ~session
        BY <2>3, <2>4, <3>1, Zenon
      <3>. QED
        BY <1>0, <2>1, <2>2, <3>1, <3>2, AnotherTrails, Zenon
    <2>6. Conversation(PendingKeys, Reported, keys, session, exists, receipts, said, late')
      BY <1>0, <1>1, <2>5, Zenon
    <2>7. Conversation(PendingKeys', Reported, keys, session, exists, receipts, said, late')
      BY <1>5, <2>6, FewerWait, Zenon
    <2>8. WireTyped'
      BY <1>1, <2>1, <2>3, Zenon DEF WireTyped
    <2>. QED
      BY <1>1, <1>5, <2>7, <2>8, Zenon
  <1>7. AnswersTyped' /\ Prompting(Pending, told, sent, harness, bound)'
    <2>1. /\ "error" \in {"ok", "error"} /\ "error" # "ok" /\ bound \in BOOLEAN /\ (bound => harness)
      BY <1>0 DEF FlagsTyped, Prompting
    <2>2. AnswersTyped' /\ Prompting(Entries(outbox'), told', sent', harness, bound)
      <3>. DEFINE ms == Entries(outbox) \cup {inflight}
      <3>1. ms \in SUBSET Pending /\ Entries(outbox') \in SUBSET Pending
        BY <1>2, <1>3, Zenon
      <3>2. \A o \in Entries(outbox'), u \in ms : o.text \in Prompts => o.text # u.text
        BY <1>2, Zenon
      <3>3. Reply(ms, "error")
        BY <1>1, Zenon
      <3>. HIDE DEF ms
      <3>. QED
        BY <1>0, <2>1, <3>1, <3>2, <3>3, Replied, Zenon
    <2>. QED
      BY <1>1, <1>4, <2>2, Zenon
  <1>8. OutboxTypeOK'
    <2>1. faults' \in 0 .. MaxFaults
      BY <1>0, <1>1, OutboxAssumption DEF CountsTyped
    <2>2. PersonTyped' /\ FlagsTyped' /\ CountsTyped' /\ EngineTyped' /\ RecordTyped'
      BY <1>0, <1>1, <2>1, Zenon DEF PersonTyped, FlagsTyped, CountsTyped, EngineTyped, RecordTyped
    <2>. QED
      BY <1>4, <1>6, <1>7, <2>2, OutboxTypesNext, Zenon
  <1>9. Calling(inflight, call, creating, session, exists, receipts)'
    <2>1. call' # "answered"
      BY <1>1
    <2>. QED
      BY <1>1, <2>1, Zenon DEF Calling
  <1>10. Kept(Pending, settled, unsent, wiped, composer)'
    <2>. SUFFICES ASSUME NEW x \in Texts
                  PROVE  \/ x \in unsent' \cup wiped' \cup {composer'}
                         \/ \E o \in Pending' \cup Entries(settled') : o.text = x
      BY Zenon DEF Kept
    <2>1. CASE x \in unsent \cup wiped \cup {composer}
      <3>1. x # None
        BY OutboxAssumption, Zenon
      <3>. QED
        BY <1>1, <2>1, <3>1, Zenon
    <2>2. CASE \E o \in Entries(outbox) \cup Entries(settled) : o.text = x
      BY <1>1, <1>2, <1>4, <2>2, Zenon
    <2>3. CASE inflight.text = x
      BY <1>1, <1>2, <1>4, <2>3, Zenon
    <2>. QED
      BY <1>0, <1>3, <2>1, <2>2, <2>3, Zenon DEF Kept
  <1>11. Marked(Pending)' /\ Rising(settled)'
    BY <1>0, <1>1, <1>2, <1>4, Zenon DEF Marked
  <1>. QED
    BY <1>4, <1>6, <1>7, <1>8, <1>9, <1>10, <1>11, Zenon DEF OutboxIInv

-----------------------------------------------------------------------------
(* The inductive invariant has what the component promises. *)
LEMMA OutboxPromised == OutboxIInv => OutboxInv
  <1>. SUFFICES ASSUME OutboxIInv PROVE OutboxInv
    BY Zenon
  <1>1. /\ OutboxTypeOK /\ Rising(settled) /\ Ordered(PendingKeys, Reported, said)
        /\ Prompting(Pending, told, sent, harness, bound)
        /\ Kept(Pending, settled, unsent, wiped, composer)
    BY Zenon DEF OutboxIInv, Conversation
  <1>2. SubmissionOrder
    BY <1>1, Zenon DEF SubmissionOrder, Rising, Ordered, Reported
  <1>3. SaidOnce
    BY <1>1, Zenon DEF SaidOnce, Ordered
  <1>4. TypedIsKept
    BY <1>1, Zenon DEF TypedIsKept, Kept
  <1>5. OneReply
    <2>1. \A p \in Prompts : sent[p] \in {0, 1} => sent[p] <= 1
      OBVIOUS
    <2>. QED
      BY <1>1, <2>1, Zenon DEF OneReply, Prompting
  <1>6. AcknowledgedIsBound
    BY <1>1, Zenon DEF AcknowledgedIsBound, Prompting
  <1>. QED
    BY <1>1, <1>2, <1>3, <1>4, <1>5, <1>6, Zenon DEF OutboxInv

(* Every step of the client and of the engine keeps the invariant. *)
LEMMA OutboxStep == OutboxIInv /\ [OutboxNext]_outboxVars => OutboxIInv'
  <1>. SUFFICES ASSUME OutboxIInv, [OutboxNext]_outboxVars PROVE OutboxIInv'
    BY Zenon
  <1>1. CASE UNCHANGED outboxVars
    <2>1. /\ UNCHANGED <<queue, session, harness, bound, sent, keys, late, receipts, said, settled>>
          /\ UNCHANGED <<composer, unsent, wiped, told, exists, faults>>
      BY <1>1, Zenon DEF outboxVars, person, engine
    <2>2. PersonTyped /\ AnswersTyped /\ CountsTyped /\ EngineTyped
      BY OutboxTypes, Zenon DEF OutboxIInv
    <2>3. PersonTyped' /\ AnswersTyped' /\ faults' \in 0 .. MaxFaults /\ exists' \in BOOLEAN
      BY <2>1, <2>2, Zenon DEF PersonTyped, AnswersTyped, CountsTyped, EngineTyped
    <2>4. unsent \cup wiped \cup ({composer} \ {None}) \subseteq unsent' \cup wiped' \cup {composer'}
      BY <2>1, Zenon
    <2>. QED
      BY <2>1, <2>3, <2>4, AsideStep, Zenon
  <1>2. CASE OutboxNext
    BY <1>2, TypesStep, ClearsStep, SubmitsStep, RetriesStep, PromptArrivesStep, PromptGivesUpStep,
       EngineTakesStep, EngineTakesLateStep, CreatedElsewhereStep, CallReturnsStep, CallFailsStep,
       Zenon DEF OutboxNext
  <1>. QED
    BY <1>1, <1>2, Zenon

(* Whatever fails on the way, and whenever a request that was given up      *)
(* still arrives: a message the terminal client delivers enters the         *)
(* conversation once and in the order of submission, typed text is kept     *)
(* until it is delivered, and a prompt of the control socket is answered    *)
(* once, with success only when the binding is published.                   *)
THEOREM OutboxDelivers == OutboxSpec => []OutboxInv
  <1>1. OutboxSpec => []OutboxIInv
    BY OutboxInitially, OutboxStep, PTL DEF OutboxSpec
  <1>. QED
    BY <1>1, OutboxPromised, PTL
=============================================================================
