------------------------------ MODULE Assembly ------------------------------
(***************************************************************************)
(* Assembly of a streamed model response (internal/provider/stream.go).    *)
(* A provider sends the parts of a response (text, tool calls) piece by    *)
(* piece, interleaved by index; the assembler folds the events into one    *)
(* response.  The stream may carry an error event, and may be cut at any   *)
(* byte: between two events, or inside one.                                *)
(***************************************************************************)
EXTENDS Naturals, Sequences, FiniteSets

CONSTANTS Indexes,     \* indexes of the parts, a set of naturals
          MaxPieces    \* pieces of one part

ASSUME AssemblyAssumption == MaxPieces \in Nat

VARIABLES dialect,     \* "anthropic", "chat" or "responses"
          plan,        \* the response the provider generates: pieces per part
          sentParts,   \* pieces sent per part
          begun,       \* parts announced (content_block_start)
          ended,       \* the provider closed the stream, or it was cut
          stream,      \* events on the way
          blocks,      \* part -> pieces, as the assembler holds them
          usage,       \* token counts reported: a subset of {"in", "out"}
          outcome,     \* "none", "ok" or "error"
          result

assemblyVars == <<dialect, plan, sentParts, begun, ended, stream, blocks, usage, outcome,
                  result>>
provider == <<dialect, plan, sentParts, begun, ended>>

EventType == {"start", "block", "delta", "usage", "stop", "failed", "torn"}

AssemblyTypeOK ==
    /\ dialect \in {"anthropic", "chat", "responses"}
    /\ plan \in [Indexes -> 0 .. MaxPieces] /\ sentParts \in [Indexes -> 0 .. MaxPieces]
    /\ begun \subseteq Indexes /\ ended \in BOOLEAN
    /\ \A i \in DOMAIN stream : stream[i].type \in EventType
    /\ DOMAIN blocks \subseteq Indexes
    /\ usage \subseteq {"in", "out"}
    /\ outcome \in {"none", "ok", "error"}

AssemblyInit ==
    /\ dialect \in {"anthropic", "chat", "responses"}
    /\ plan \in [Indexes -> 0 .. MaxPieces]
    /\ sentParts = [i \in Indexes |-> 0] /\ begun = {} /\ ended = FALSE
    /\ stream = <<[type |-> "start", index |-> 0, piece |-> 0]>>
    /\ blocks = << >> /\ usage = {} /\ outcome = "none" /\ result = <<>>

-----------------------------------------------------------------------------
(* The provider. *)
Sends(e) == ended = FALSE /\ stream' = Append(stream, e)

AnnouncesPart(i) ==
    /\ dialect = "anthropic" /\ i \notin begun
    /\ Sends([type |-> "block", index |-> i, piece |-> 0])
    /\ begun' = begun \cup {i}
    /\ UNCHANGED <<dialect, plan, sentParts, ended, blocks, usage, outcome, result>>

SendsPiece(i) ==
    /\ sentParts[i] < plan[i]
    /\ dialect = "anthropic" => i \in begun
    /\ Sends([type |-> "delta", index |-> i, piece |-> sentParts[i] + 1])
    /\ sentParts' = [sentParts EXCEPT ![i] = @ + 1]
    /\ UNCHANGED <<dialect, plan, begun, ended, blocks, usage, outcome, result>>

Finishes ==
    /\ sentParts = plan /\ ~ended
    /\ dialect = "anthropic" => begun = Indexes
    /\ stream' = stream \o <<[type |-> "usage", index |-> 0, piece |-> 0],
                             [type |-> "stop", index |-> 0, piece |-> 0]>>
    /\ ended' = TRUE
    /\ UNCHANGED <<dialect, plan, sentParts, begun, blocks, usage, outcome, result>>

ReportsError ==
    /\ Sends([type |-> "failed", index |-> 0, piece |-> 0])
    /\ ended' = TRUE
    /\ UNCHANGED <<dialect, plan, sentParts, begun, blocks, usage, outcome, result>>

(* The connection is cut: only a prefix arrives, its last event perhaps    *)
(* torn in the middle.                                                     *)
Cut ==
    /\ outcome = "none"
    /\ \E n \in 0 .. Len(stream), torn \in BOOLEAN :
          /\ n < Len(stream) \/ ~ended
          /\ torn => n < Len(stream)
          /\ stream' = SubSeq(stream, 1, n) \o
                       IF torn THEN <<[type |-> "torn", index |-> 0, piece |-> 0]>> ELSE <<>>
    /\ ended' = TRUE
    /\ UNCHANGED <<dialect, plan, sentParts, begun, blocks, usage, outcome, result>>

-----------------------------------------------------------------------------
(* The assembled response: the parts in the order of their indexes; a tool *)
(* call without arguments gets an empty object (piece 0).                  *)
Assembled(bs) ==
    LET order == CHOOSE s \in [1 .. Cardinality(DOMAIN bs) -> DOMAIN bs] :
                   \A m, n \in DOMAIN s : m < n => s[m] < s[n]
    IN  [n \in DOMAIN order |->
           [index |-> order[n],
            body |-> IF bs[order[n]] = <<>> THEN <<0>> ELSE bs[order[n]]]]

(* A delta is appended to its block. *)
ExtendBlock(i, piece) == Append(blocks[i], piece)

(* assembleAnthropic: deltas of a block that never started are ignored. *)
assembleAnthropic(e) ==
    /\ blocks' = CASE e.type = "block" ->
                        [i \in DOMAIN blocks \cup {e.index} |->
                           IF i = e.index THEN <<>> ELSE blocks[i]]
                   [] e.type = "delta" /\ e.index \in DOMAIN blocks ->
                        [blocks EXCEPT ![e.index] = ExtendBlock(e.index, e.piece)]
                   [] OTHER -> blocks
    /\ usage' = CASE e.type = "start" -> usage \cup {"in"}
                  [] e.type = "usage" -> usage \cup {"out"}
                  [] OTHER -> usage

(* assembleChat: the first delta of an index creates the call; one usage   *)
(* object comes with the last chunk.                                       *)
assembleChat(e) ==
    /\ blocks' = IF e.type # "delta" THEN blocks
                 ELSE [i \in DOMAIN blocks \cup {e.index} |->
                         IF i # e.index THEN blocks[i]
                         ELSE IF i \in DOMAIN blocks THEN ExtendBlock(i, e.piece)
                         ELSE <<e.piece>>]
    /\ usage' = IF e.type = "usage" THEN {"in", "out"} ELSE usage

(* assembleResponses: the final event carries the whole response. *)
assembleResponses(e) ==
    /\ blocks' = IF e.type = "stop"
                 THEN [i \in {j \in Indexes : plan[j] > 0} |-> [n \in 1 .. plan[i] |-> n]]
                 ELSE blocks
    /\ usage' = IF e.type = "stop" THEN {"in", "out"} ELSE usage

(* One event of readSSE: an error event or a torn one ends the call with   *)
(* an error, the final event with the response.                            *)
ReadEvent ==
    /\ outcome = "none" /\ stream # <<>>
    /\ LET e == Head(stream)
       IN  /\ stream' = Tail(stream)
           /\ IF e.type \in {"failed", "torn"}
              THEN outcome' = "error" /\ UNCHANGED <<blocks, usage, result>>
              ELSE /\ CASE dialect = "anthropic" -> assembleAnthropic(e)
                        [] dialect = "chat" -> assembleChat(e)
                        [] OTHER -> assembleResponses(e)
                   /\ outcome' = IF e.type = "stop" THEN "ok" ELSE "none"
                   /\ result' = IF e.type = "stop" THEN Assembled(blocks') ELSE result
    /\ UNCHANGED provider

(* Mutant: a stream that just ends is taken for complete. *)
EndIsDone == "ok"

(* readSSE's verdict on a stream that ends before the final event. *)
EndIsEarly == "error"

StreamEnds ==
    /\ outcome = "none" /\ stream = <<>> /\ ended
    /\ outcome' = EndIsEarly
    /\ result' = Assembled(blocks)
    /\ UNCHANGED <<provider, stream, blocks, usage>>

AssemblyNext ==
    \/ \E i \in Indexes : AnnouncesPart(i) \/ SendsPiece(i)
    \/ Finishes \/ ReportsError \/ Cut \/ ReadEvent \/ StreamEnds

AssemblySpec == AssemblyInit /\ [][AssemblyNext]_assemblyVars

-----------------------------------------------------------------------------
(* The response as generated; chat and Responses streams announce no part  *)
(* that has no piece.                                                      *)
Generated ==
    LET parts == IF dialect = "anthropic" THEN Indexes ELSE {i \in Indexes : plan[i] > 0}
    IN  Assembled([i \in parts |-> [n \in 1 .. plan[i] |-> n]])

(* A response is returned only when it is the whole generated response,    *)
(* parts in index order, pieces in order, with its usage: a cut stream is  *)
(* an error, never a short answer (readSSE's "stream ended early").        *)
WholeOrError == outcome = "ok" => result = Generated /\ usage = {"in", "out"}

(* The assembled parts keep their types, and a response is whole or an      *)
(* error.                                                                   *)
AssemblyInv == AssemblyTypeOK /\ WholeOrError
=============================================================================
