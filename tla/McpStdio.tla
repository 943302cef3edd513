------------------------------ MODULE McpStdio ------------------------------
(***************************************************************************)
(* Calls to an MCP server over its standard input and output               *)
(* (stdioClient in internal/mcp/client.go).  A call holds the client's     *)
(* lock, writes its request and starts a goroutine that reads lines until  *)
(* one carries its id.  A cancelled call returns and releases the lock,    *)
(* but its goroutine reads on: from then on several goroutines share one   *)
(* buffered reader without a lock, and a line they race for may reach one  *)
(* of them, all of them, or none.                                          *)
(***************************************************************************)
EXTENDS Naturals, Sequences

CONSTANTS Calls,        \* calls, each made once
          MaxNotes,     \* notifications the server sends on its own
          MaxCancels

ASSUME StdioAssumption == {MaxNotes, MaxCancels} \subseteq Nat

VARIABLES holder,       \* the calls that hold the lock (at most one)
          alive,        \* the server's process runs
          phase,        \* per call: "idle", "waiting", "returned", "failed" or
                        \* "cancelled"
          nextId,
          callId,       \* the request id of a call, 0 before it has one
          asked,        \* requests the server has not answered
          lines,        \* lines in the pipe: a request id, or 0 for a notification
          readers,      \* request ids of the goroutines that read
          slot,         \* per call: the line its goroutine handed over, or 0
          notes,
          cancels

stdioVars == <<holder, alive, phase, nextId, callId, asked, lines, readers, slot, notes,
               cancels>>

StdioTypeOK ==
    /\ holder \subseteq Calls /\ alive \in BOOLEAN
    /\ phase \in [Calls -> {"idle", "waiting", "returned", "failed", "cancelled"}]
    /\ nextId \in Nat
    /\ callId \in [Calls -> Nat] /\ slot \in [Calls -> Nat]
    /\ asked \subseteq 1 .. nextId /\ readers \subseteq 1 .. nextId
    /\ lines \in Seq(0 .. nextId)
    /\ notes \in 0 .. MaxNotes /\ cancels \in 0 .. MaxCancels

StdioInit ==
    /\ holder = {} /\ alive = TRUE /\ phase = [c \in Calls |-> "idle"]
    /\ nextId = 0 /\ callId = [c \in Calls |-> 0] /\ slot = [c \in Calls |-> 0]
    /\ asked = {} /\ lines = <<>> /\ readers = {} /\ notes = 0 /\ cancels = 0

(* Call up to the select: lock, write, start the reading goroutine. *)
StdioCall(c) ==
    /\ phase[c] = "idle" /\ holder = {} /\ alive
    /\ holder' = {c}
    /\ nextId' = nextId + 1
    /\ callId' = [callId EXCEPT ![c] = nextId']
    /\ asked' = asked \cup {nextId'}
    /\ readers' = readers \cup {nextId'}
    /\ phase' = [phase EXCEPT ![c] = "waiting"]
    /\ UNCHANGED <<alive, lines, slot, notes, cancels>>

(* A write to a process that is gone fails. *)
StdioWriteFails(c) ==
    /\ phase[c] = "idle" /\ holder = {} /\ ~alive
    /\ phase' = [phase EXCEPT ![c] = "failed"]
    /\ UNCHANGED <<holder, alive, nextId, callId, asked, lines, readers, slot, notes,
                   cancels>>

ServerAnswers(i) ==
    /\ i \in asked /\ alive
    /\ asked' = asked \ {i} /\ lines' = Append(lines, i)
    /\ UNCHANGED <<holder, alive, phase, nextId, callId, readers, slot, notes, cancels>>

ServerNotifies ==
    /\ notes < MaxNotes /\ alive
    /\ notes' = notes + 1 /\ lines' = Append(lines, 0)
    /\ UNCHANGED <<holder, alive, phase, nextId, callId, asked, readers, slot, cancels>>

(* Mutant: a goroutine hands over whatever line it reads. *)
AnyLine(line, i) == TRUE

(* The goroutine of request i skips lines that do not carry its id. *)
OwnLine(line, i) == line = i

(* The goroutines that go on reading: all but those that handed a line over. *)
StillReading(got, taken) == readers \ taken

(* The next line reaches the goroutines `got`: one, or with a race any set. *)
ReadLine(got) ==
    LET line == Head(lines)
        taken == {i \in got : OwnLine(line, i)}
    IN  /\ got \subseteq readers /\ readers # {} /\ lines # <<>>
        /\ \A i \in readers : readers = {i} => got = readers
        /\ lines' = Tail(lines)
        /\ readers' = StillReading(got, taken)
        /\ slot' = [c \in Calls |-> IF callId[c] \in taken THEN line ELSE slot[c]]
        /\ UNCHANGED <<holder, alive, phase, nextId, callId, asked, notes, cancels>>

(* The process ends, or Close kills it: every goroutine meets the end of the *)
(* output once the lines before it are read.                                *)
ServerDies ==
    /\ alive
    /\ alive' = FALSE /\ asked' = {}
    /\ UNCHANGED <<holder, phase, nextId, callId, lines, readers, slot, notes,
                   cancels>>

ReadEnd(i) ==
    /\ ~alive /\ lines = <<>>
    /\ readers' = readers \ {i}
    /\ UNCHANGED <<holder, alive, phase, nextId, callId, asked, lines, slot, notes,
                   cancels>>

(* The select takes what the goroutine sent: a line, or the read's error. *)
StdioReturns(c) ==
    /\ phase[c] = "waiting" /\ callId[c] \notin readers
    /\ phase' = [phase EXCEPT ![c] = IF slot[c] = 0 THEN "failed" ELSE "returned"]
    /\ holder' = {}
    /\ UNCHANGED <<alive, nextId, callId, asked, lines, readers, slot, notes, cancels>>

StdioCancelled(c) ==
    /\ phase[c] = "waiting" /\ cancels < MaxCancels
    /\ cancels' = cancels + 1
    /\ phase' = [phase EXCEPT ![c] = "cancelled"]
    /\ holder' = {}
    /\ UNCHANGED <<alive, nextId, callId, asked, lines, readers, slot, notes>>

StdioNext ==
    \/ \E c \in Calls : StdioCall(c) \/ StdioReturns(c) \/ StdioCancelled(c)
    \/ \E i \in asked : ServerAnswers(i)
    \/ \E c \in Calls : StdioWriteFails(c)
    \/ ServerNotifies \/ ServerDies
    \/ \E i \in readers : ReadEnd(i)
    \/ \E got \in SUBSET readers : ReadLine(got)

(* A server that lives answers, and the goroutines are scheduled. *)
StdioFairness ==
    /\ WF_stdioVars(\E i \in asked : ServerAnswers(i))
    /\ WF_stdioVars(\E got \in SUBSET readers : ReadLine(got))
    /\ WF_stdioVars(\E i \in readers : ReadEnd(i))
    /\ \A c \in Calls : WF_stdioVars(StdioReturns(c))

StdioSpec == StdioInit /\ [][StdioNext]_stdioVars /\ StdioFairness

-----------------------------------------------------------------------------
(* A call that returns has the answer to its own request, also after       *)
(* cancelled calls whose late answers and goroutines are still around.     *)
OwnAnswer == \A c \in Calls : phase[c] = "returned" => slot[c] = callId[c]

(* Every call ends: with its answer while the server lives and no call was *)
(* cancelled, and in any case once the process has ended.  (After a        *)
(* cancellation the goroutine left behind may take the answer of a later   *)
(* call, which then waits for its own deadline.)                           *)
AnsweredReturns ==
    <>[](\A c \in Calls :
             \/ phase[c] \in {"idle", "returned", "cancelled"}
             \/ phase[c] = "failed" /\ ~alive
             \/ cancels > 0 /\ alive)

(* The transport's variables keep their types, and no call gets the answer  *)
(* to another.                                                              *)
StdioInv == StdioTypeOK /\ OwnAnswer
=============================================================================
