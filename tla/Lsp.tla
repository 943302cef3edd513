-------------------------------- MODULE Lsp ---------------------------------
(***************************************************************************)
(* Language servers (internal/lsp/client.go): the manager's map of clients, *)
(* for one workspace and one configured server, and the calls that share a *)
(* client.  A call finds or starts a client, takes its opMu, brings the     *)
(* document up to date and sends one request; Close and Reconfigure empty   *)
(* the map and close what they took from it.  One document, whose text is a *)
(* number that edits of the workspace increase.                             *)
(***************************************************************************)
EXTENDS Naturals, Sequences

CONSTANTS Askers,       \* goroutines that call the manager
          MaxServers,   \* server processes started
          MaxEdits,
          MaxAsks,      \* calls made by all askers
          MaxCuts,      \* calls cancelled, servers that die
          MaxCloses

ASSUME LspAssumption == MaxServers \in Nat /\ MaxEdits \in Nat

VARIABLES text,         \* the document on disk
          mapped,       \* the client in Manager.clients, 0 when there is none
          started,      \* clients made so far
          running,      \* clients whose process runs
          opLocked,     \* clients whose opMu a call holds
          opened,       \* per client: openDocument, version 0 before didOpen
          known,        \* per server: the document as the server has it
          nextReq,      \* per client: client.next
          pendingReqs,  \* per server: requests it has not answered
          replies,      \* per client: answers it has not read
          askStep,      \* per asker
          mine,         \* per asker: its client
          wanted,       \* per asker: the text its call is about
          answer,       \* per asker: the text its last answer is about
          closer,       \* "idle", "close" or "reconfigure"
          taken,        \* clients the closer took from the map
          droppedClients, \* clients Reconfigure threw away without closing them
          asks, cuts, closes

lspVars == <<text, mapped, started, running, opLocked, opened, known, nextReq,
             pendingReqs, replies, askStep, mine, wanted, answer, closer, taken,
             droppedClients, asks, cuts, closes>>

Clients == 1 .. MaxServers
Unopened == [text |-> 0, version |-> 0]

LspTypeOK ==
    /\ text \in 1 .. MaxEdits + 1 /\ mapped \in 0 .. started /\ started \in 0 .. MaxServers
    /\ running \subseteq 1 .. started /\ opLocked \subseteq 1 .. started
    /\ opened \in [Clients -> [text : Nat, version : Nat]]
    /\ known \in [Clients -> [text : Nat, version : Nat]]
    /\ nextReq \in [Clients -> Nat]
    /\ \A c \in Clients : pendingReqs[c] \subseteq 1 .. nextReq[c]
    /\ askStep \in [Askers -> {"idle", "starting", "found", "looping", "reading"}]
    /\ mine \in [Askers -> 0 .. started]
    /\ wanted \in [Askers -> Nat] /\ answer \in [Askers -> Nat]
    /\ closer \in {"idle", "close", "reconfigure"}
    /\ taken \subseteq 1 .. started /\ droppedClients \subseteq 1 .. started

LspInit ==
    /\ text = 1 /\ mapped = 0 /\ started = 0 /\ running = {} /\ opLocked = {}
    /\ opened = [c \in Clients |-> Unopened] /\ known = [c \in Clients |-> Unopened]
    /\ nextReq = [c \in Clients |-> 0] /\ pendingReqs = [c \in Clients |-> {}]
    /\ replies = [c \in Clients |-> <<>>]
    /\ askStep = [a \in Askers |-> "idle"] /\ mine = [a \in Askers |-> 0]
    /\ wanted = [a \in Askers |-> 0] /\ answer = [a \in Askers |-> 0]
    /\ closer = "idle" /\ taken = {} /\ droppedClients = {}
    /\ asks = 0 /\ cuts = 0 /\ closes = 0

wires == <<opened, known, nextReq, pendingReqs, replies>>
theMap == <<mapped, started, running>>
closing == <<closer, taken, droppedClients, closes>>

Steps(a, s) == askStep' = [askStep EXCEPT ![a] = s]
Leaves(a) == Steps(a, "idle") /\ mine' = [mine EXCEPT ![a] = 0]

-----------------------------------------------------------------------------
(* Call: selectServer, and get up to its first look at the map. *)
LspCall(a) ==
    /\ askStep[a] = "idle" /\ asks < MaxAsks
    /\ asks' = asks + 1
    /\ Steps(a, IF mapped # 0 THEN "found" ELSE "starting")
    /\ mine' = [mine EXCEPT ![a] = mapped]
    /\ answer' = [answer EXCEPT ![a] = 0] /\ wanted' = [wanted EXCEPT ![a] = 0]
    /\ UNCHANGED <<text, theMap, opLocked, wires, closing, cuts>>

(* get after start: the first client stays, a later one is closed. *)
RunningAfterStart(c) == IF mapped = 0 THEN running \cup {c} ELSE running

(* start, then get's second look at the map; a start that fails ends the call. *)
StartProcess(a) ==
    /\ askStep[a] = "starting" /\ started < MaxServers
    /\ started' = started + 1
    /\ \/ /\ running' = RunningAfterStart(started')
          /\ mapped' = IF mapped = 0 THEN started' ELSE mapped
          /\ mine' = [mine EXCEPT ![a] = mapped'] /\ Steps(a, "found")
       \/ UNCHANGED <<running, mapped>> /\ Leaves(a)
    /\ UNCHANGED <<text, opLocked, wires, wanted, answer, closing, asks, cuts>>

(* Mutant: a document that was opened once is not sent again. *)
OpenOnce(c) ==
    IF opened[c].version # 0 THEN UNCHANGED <<opened, known>>
    ELSE /\ opened' = [opened EXCEPT ![c] = [text |-> text, version |-> 1]]
         /\ known' = [known EXCEPT ![c] = opened'[c]]

(* open: didOpen, didChange with the next version, or nothing. *)
open(c) ==
    IF opened[c].text = text THEN UNCHANGED <<opened, known>>
    ELSE /\ opened' = [opened EXCEPT
                         ![c] = [text |-> text, version |-> opened[c].version + 1]]
         /\ known' = [known EXCEPT ![c] = opened'[c]]

(* Call under opMu: open the document, then write the request. *)
OpenAndAsk(a) ==
    LET c == mine[a] IN
    /\ askStep[a] = "found" /\ c \notin opLocked /\ c \in running
    /\ open(c)
    /\ opLocked' = opLocked \cup {c}
    /\ nextReq' = [nextReq EXCEPT ![c] = @ + 1]
    /\ pendingReqs' = [pendingReqs EXCEPT ![c] = @ \cup {nextReq'[c]}]
    /\ wanted' = [wanted EXCEPT ![a] = text]
    /\ Steps(a, "looping")
    /\ UNCHANGED <<text, theMap, replies, mine, answer, closing, asks, cuts>>

(* Writing to a process that ended fails, in open or in request. *)
AskFails(a) ==
    /\ askStep[a] = "found" /\ mine[a] \notin opLocked /\ mine[a] \notin running
    /\ Leaves(a)
    /\ UNCHANGED <<text, theMap, opLocked, wires, wanted, answer, closing, asks, cuts>>

(* request's loop looks at the context before each read, and only there. *)
Looks(a) ==
    /\ askStep[a] = "looping"
    /\ \/ Steps(a, "reading") /\ UNCHANGED <<mine, opLocked, cuts>>
       \/ /\ cuts < MaxCuts /\ cuts' = cuts + 1
          /\ Leaves(a) /\ opLocked' = opLocked \ {mine[a]}
    /\ UNCHANGED <<text, theMap, wires, wanted, answer, closing, asks>>

ServerReply(c, i) ==
    /\ c \in running /\ i \in pendingReqs[c]
    /\ pendingReqs' = [pendingReqs EXCEPT ![c] = @ \ {i}]
    /\ replies' = [replies EXCEPT ![c] = Append(@, [id |-> i, text |-> known[c].text])]
    /\ UNCHANGED <<text, theMap, opLocked, opened, known, nextReq, askStep, mine, wanted,
                   answer, closing, asks, cuts>>

(* The answer to the request that this client sent last. *)
IsReply(c, reply) == reply.id = nextReq[c]

ReadReply(a) ==
    LET c == mine[a]
        reply == Head(replies[c])
    IN  /\ askStep[a] = "reading" /\ replies[c] # <<>>
        /\ replies' = [replies EXCEPT ![c] = Tail(@)]
        /\ IF IsReply(c, reply)
           THEN /\ Leaves(a) /\ opLocked' = opLocked \ {c}
                /\ answer' = [answer EXCEPT ![a] = reply.text]
           ELSE Steps(a, "looping") /\ UNCHANGED <<mine, opLocked, answer>>
        /\ UNCHANGED <<text, theMap, opened, known, nextReq, pendingReqs, wanted, closing,
                       asks, cuts>>

ReadFails(a) ==
    /\ askStep[a] = "reading" /\ mine[a] \notin running /\ replies[mine[a]] = <<>>
    /\ Leaves(a) /\ opLocked' = opLocked \ {mine[a]}
    /\ UNCHANGED <<text, theMap, wires, wanted, answer, closing, asks, cuts>>

-----------------------------------------------------------------------------
Edits ==
    /\ text <= MaxEdits /\ text' = text + 1
    /\ UNCHANGED <<theMap, opLocked, wires, askStep, mine, wanted, answer, closing, asks,
                   cuts>>

ServerEnds(c) ==
    /\ c \in running /\ cuts < MaxCuts
    /\ cuts' = cuts + 1 /\ running' = running \ {c}
    /\ UNCHANGED <<text, mapped, started, opLocked, wires, askStep, mine, wanted, answer,
                   closing, asks>>

(* Close takes the map; Reconfigure starts with Close. *)
CloseTakes(how) ==
    /\ closer = "idle" /\ closes < MaxCloses
    /\ closes' = closes + 1 /\ closer' = how
    /\ taken' = {mapped} \ {0} /\ mapped' = 0
    /\ UNCHANGED <<text, started, running, opLocked, wires, askStep, mine, wanted, answer,
                   droppedClients, asks, cuts>>

(* client.close waits for the client's opMu. *)
CloseClient(c) ==
    /\ c \in taken /\ c \notin opLocked
    /\ taken' = taken \ {c} /\ running' = running \ {c}
    /\ UNCHANGED <<text, mapped, started, opLocked, wires, askStep, mine, wanted, answer,
                   closer, droppedClients, closes, asks, cuts>>

(* Reconfigure empties the map a second time, with what a call put there. *)
CloseEnds ==
    /\ closer # "idle" /\ taken = {}
    /\ closer' = "idle"
    /\ IF closer = "reconfigure"
       THEN mapped' = 0 /\ droppedClients' = droppedClients \cup ({mapped} \ {0})
       ELSE UNCHANGED <<mapped, droppedClients>>
    /\ UNCHANGED <<text, started, running, opLocked, wires, askStep, mine, wanted, answer,
                   taken, closes, asks, cuts>>

LspNext ==
    \/ \E a \in Askers :
           \/ LspCall(a) \/ StartProcess(a) \/ OpenAndAsk(a) \/ AskFails(a) \/ Looks(a)
           \/ ReadReply(a) \/ ReadFails(a)
    \/ \E c \in Clients :
           \/ ServerEnds(c) \/ CloseClient(c)
           \/ \E i \in pendingReqs[c] : ServerReply(c, i)
    \/ Edits \/ CloseEnds
    \/ \E how \in {"close", "reconfigure"} : CloseTakes(how)

LspSpec == LspInit /\ [][LspNext]_lspVars

-----------------------------------------------------------------------------
(* A call's answer is about the text the document had when the call opened *)
(* it, whatever other calls, cancelled requests and their late answers did *)
(* to the shared client before.                                            *)
AnswersCurrentText == \A a \in Askers : answer[a] # 0 => answer[a] = wanted[a]

(* When nothing is going on, every server process that runs can be found in *)
(* the map, except one that a Reconfigure overlapping a call threw away.    *)
NoStrayServers ==
    closer = "idle" /\ (\A a \in Askers : askStep[a] = "idle")
        => running \subseteq {mapped} \cup droppedClients

(* Answers are about the text that was asked about, and no server process   *)
(* is left that nothing can close.                                          *)
LspInv == LspTypeOK /\ AnswersCurrentText /\ NoStrayServers
=============================================================================
