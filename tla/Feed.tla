-------------------------------- MODULE Feed --------------------------------
(***************************************************************************)
(* How the events of a session reach the terminal client: the server-sent  *)
(* event handler of internal/web/server.go, the reconnecting reader of     *)
(* internal/tui/remote.go, the polling reader of internal/tui/local.go and *)
(* the channel the update loop drains (internal/tui/model.go).             *)
(*                                                                         *)
(* An event is its sequence number; the log holds 1 .. written.            *)
(***************************************************************************)
EXTENDS Naturals, Sequences

CONSTANTS MaxLog,      \* events in the log
          MaxBatch,    \* remoteMaxBatch
          ChanCap,     \* capacity of the events channel
          MaxBreaks    \* connections that break

ASSUME FeedAssumption == MaxLog \in Nat /\ ChanCap \in Nat /\ MaxBreaks \in Nat

VARIABLES written,
          remote,      \* the client follows a server, not its own engine
          conn,        \* "down", "up" or "broken" (the reader met the end)
          srv,         \* the handler's `after`
          net,         \* frames on the connection the reader has not read
          after,       \* the reader's position: last sequence delivered
          last,        \* last sequence read on this connection
          batch,       \* events read and not delivered
          flushing,    \* the reader is sending the batch
          chan,        \* batches in the events channel
          gathered,    \* events waitEvents took from it
          received,    \* events the update loop got, in order
          breaks

feedVars == <<written, remote, conn, srv, net, after, last, batch, flushing, chan,
              gathered, received, breaks>>
update == <<gathered, received>>
reader == <<srv, net, after, last, batch, flushing>>

FeedTypeOK ==
    /\ {written, srv, after, last} \subseteq 0 .. MaxLog
    /\ {remote, flushing} \subseteq BOOLEAN
    /\ conn \in {"down", "up", "broken"}
    /\ net \in Seq(1 .. MaxLog) /\ batch \in Seq(1 .. MaxLog)
    /\ chan \in Seq(Seq(1 .. MaxLog)) /\ Len(chan) <= ChanCap
    /\ gathered \in Seq(1 .. MaxLog) /\ received \in Seq(1 .. MaxLog)
    /\ breaks \in 0 .. MaxBreaks

FeedInit ==
    /\ written = 0 /\ remote \in BOOLEAN
    /\ conn = "down" /\ srv = 0 /\ net = <<>>
    /\ after = 0 /\ last = 0 /\ batch = <<>> /\ flushing = FALSE
    /\ chan = <<>> /\ gathered = <<>> /\ received = <<>> /\ breaks = 0

Appends ==
    /\ written < MaxLog
    /\ written' = written + 1
    /\ UNCHANGED <<remote, conn, reader, chan, update, breaks>>

(* Mutant: the query returns the event at the given sequence again. *)
EventsFrom(n) == [i \in 1 .. (written - (IF n = 0 THEN 0 ELSE n - 1))
                    |-> (IF n = 0 THEN 0 ELSE n - 1) + i]

(* Store.EventsAfter: the events with a greater sequence number, in order. *)
EventsAfter(n) == [i \in 1 .. (written - n) |-> n + i]

(* Local.Stream: one poll, its events sent as one batch. *)
LocalPoll ==
    LET evs == EventsAfter(after)
    IN  /\ ~remote /\ evs # <<>> /\ Len(chan) < ChanCap
        /\ chan' = Append(chan, evs)
        /\ after' = evs[Len(evs)]
        /\ UNCHANGED <<written, remote, conn, srv, net, last, batch, flushing,
                       update, breaks>>

(* Remote.stream asks for the events after the last delivered one. *)
Connects ==
    /\ remote /\ conn = "down"
    /\ conn' = "up" /\ srv' = after /\ last' = after
    /\ net' = <<>> /\ batch' = <<>>
    /\ UNCHANGED <<written, remote, after, flushing, chan, update, breaks>>

(* One turn of the handler's loop: every newer event is written out. *)
ServerPoll ==
    LET evs == EventsAfter(srv)
    IN  /\ conn = "up" /\ evs # <<>>
        /\ net' = net \o evs
        /\ srv' = evs[Len(evs)]
        /\ UNCHANGED <<written, remote, conn, after, last, batch, flushing, chan,
                       update, breaks>>

(* A frame is read; a batch goes on while complete frames are buffered and *)
(* it is not full.                                                         *)
ReadFrame ==
    LET new == net[1] > last
    IN  /\ conn = "up" /\ ~flushing /\ net # <<>>
        /\ net' = Tail(net)
        /\ batch' = IF new THEN Append(batch, net[1]) ELSE batch
        /\ last' = IF new THEN net[1] ELSE last
        /\ \E more \in BOOLEAN :
              /\ more => net' # <<>> /\ Len(batch') < MaxBatch
              /\ flushing' = ~more
        /\ UNCHANGED <<written, remote, conn, srv, after, chan, update, breaks>>

(* The connection breaks: what was read is delivered, the rest is lost. *)
Breaks ==
    /\ conn = "up" /\ ~flushing /\ breaks < MaxBreaks
    /\ conn' = "broken" /\ net' = <<>> /\ flushing' = TRUE
    /\ breaks' = breaks + 1
    /\ UNCHANGED <<written, remote, srv, after, last, batch, chan, update>>

(* The position after a delivered batch. *)
ResumeAfter == IF batch = <<>> THEN after ELSE last

(* flush, which waits for room in the channel. *)
Flush ==
    /\ flushing
    /\ batch # <<>> => Len(chan) < ChanCap
    /\ chan' = IF batch = <<>> THEN chan ELSE Append(chan, batch)
    /\ after' = ResumeAfter
    /\ batch' = <<>> /\ flushing' = FALSE
    /\ UNCHANGED <<written, remote, conn, srv, net, last, update, breaks>>

(* Stream's loop: after the backoff the reader connects again. *)
BacksOff ==
    /\ conn = "broken" /\ ~flushing
    /\ conn' = "down"
    /\ UNCHANGED <<written, remote, reader, chan, update, breaks>>

(* waitEvents takes batch after batch while the channel holds any ... *)
WaitEvents ==
    /\ chan # <<>>
    /\ gathered' = gathered \o Head(chan) /\ chan' = Tail(chan)
    /\ UNCHANGED <<written, remote, conn, reader, received, breaks>>

(* ... and onEvents gets them in order. *)
OnEvents ==
    /\ gathered # <<>> /\ chan = <<>>
    /\ received' = received \o gathered /\ gathered' = <<>>
    /\ UNCHANGED <<written, remote, conn, reader, chan, breaks>>

FeedNext == \/ Appends \/ LocalPoll \/ Connects \/ ServerPoll \/ ReadFrame
            \/ Breaks \/ Flush \/ BacksOff \/ WaitEvents \/ OnEvents

(* Timers fire and the network delivers; events need not be written and    *)
(* connections need not break.                                             *)
FeedFairness ==
    /\ WF_feedVars(LocalPoll) /\ WF_feedVars(Connects) /\ WF_feedVars(ServerPoll)
    /\ WF_feedVars(ReadFrame) /\ WF_feedVars(Flush) /\ WF_feedVars(BacksOff)
    /\ WF_feedVars(WaitEvents) /\ WF_feedVars(OnEvents)

FeedSpec == FeedInit /\ [][FeedNext]_feedVars /\ FeedFairness

-----------------------------------------------------------------------------
(* The update loop gets the log from its first event, in order, with no    *)
(* event missing and none twice, whatever connections break; the Squire    *)
(* journal, which Record appends the same batches to, mirrors the log.     *)
ReceivedIsPrefix == received = [i \in DOMAIN received |-> i]

(* Every event written reaches the update loop. *)
AllReceived == <>[](Len(received) = written)

(* The feed's variables keep their types and bounds, and what it delivered  *)
(* is a prefix of the log.                                                  *)
FeedInv == FeedTypeOK /\ ReceivedIsPrefix
=============================================================================
