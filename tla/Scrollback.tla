----------------------------- MODULE Scrollback -----------------------------
(***************************************************************************)
(* How the terminal client prints the transcript above its live region     *)
(* (internal/tui/model.go): blocks are rendered at the current width and   *)
(* toggles, split into chunks that fit the screen and printed one at a     *)
(* time; a change of width or of a toggle repaints everything.             *)
(*                                                                         *)
(* A line is a block and the style it was rendered in; block 0 is the      *)
(* banner and every block takes one line.                                  *)
(***************************************************************************)
EXTENDS Naturals, Sequences, SequencesExt

CONSTANTS MaxBlocks,   \* blocks committed
          MaxStyles,   \* changes of width or of a toggle
          Rooms,       \* lines between the top of the screen and the live region
          MaxRedraws   \* redraws asked for by key

VARIABLES history,     \* blocks committed so far: 1 .. history
          style,       \* the current width and toggles
          room,
          ready,       \* the first window size arrived
          printQueue,  \* chunks to print: [clear, lines]
          printing,    \* "no", "chunk" (being printed), "settle" (screen being
                       \* cleared) or "done" (printedMsg on its way)
          chunk,       \* the chunk being printed
          redraw,
          timers,      \* resize timers on their way, by generation
          resizeGen,
          screen,      \* lines in scrollback
          redraws

scrollVars == <<history, style, room, ready, printQueue, printing, chunk, redraw,
                timers, resizeGen, screen, redraws>>
printer == <<printQueue, printing, chunk, redraw>>

Line == [block: 0 .. MaxBlocks, style: 0 .. MaxStyles]
Chunk == [clear: BOOLEAN, lines: Seq(Line)]
NoChunk == [clear |-> FALSE, lines |-> <<>>]

ScrollTypeOK ==
    /\ history \in 0 .. MaxBlocks /\ style \in 0 .. MaxStyles /\ room \in Rooms
    /\ {ready, redraw} \subseteq BOOLEAN
    /\ printQueue \in Seq(Chunk) /\ chunk \in Chunk
    /\ printing \in {"no", "chunk", "settle", "done"}
    /\ timers \subseteq 0 .. MaxStyles /\ resizeGen \in 0 .. MaxStyles
    /\ screen \in Seq(Line) /\ redraws \in 0 .. MaxRedraws

ScrollInit ==
    /\ history = 0 /\ style = 0 /\ room \in Rooms /\ ready = FALSE
    /\ printQueue = <<>> /\ printing = "no" /\ chunk = NoChunk /\ redraw = FALSE
    /\ timers = {} /\ resizeGen = 0 /\ screen = <<>> /\ redraws = 0

-----------------------------------------------------------------------------
Rendered(a, b, st) == [i \in 1 .. (b + 1 - a) |-> [block |-> a + i - 1, style |-> st]]
renderAll(n, st) == Rendered(0, n, st)

(* chunks: pieces of at most `size` lines. *)
chunks(lines, size) ==
    [i \in 1 .. ((Len(lines) + size - 1) \div size) |->
       [clear |-> FALSE,
        lines |-> SubSeq(lines, (i - 1) * size + 1,
                         IF i * size < Len(lines) THEN i * size ELSE Len(lines))]]

(* flushPrint: the next chunk is printed when none is being printed. *)
flushPrint(q) ==
    IF q = <<>>
    THEN printQueue' = q /\ printing' = "no" /\ chunk' = NoChunk
    ELSE printQueue' = Tail(q) /\ printing' = "chunk" /\ chunk' = Head(q)

print(lines, size) ==
    LET q == printQueue \o chunks(lines, size)
    IN  IF printing # "no" THEN printQueue' = q /\ UNCHANGED <<printing, chunk>>
        ELSE flushPrint(q)

(* repaint: the screen is cleared, and cleared again with the first chunk. *)
repaint(n, st) ==
    /\ printQueue' = [chunks(renderAll(n, st), room) EXCEPT ![1].clear = TRUE]
    /\ printing' = "settle" /\ chunk' = NoChunk

(* rerender: at once, or when the chunk being printed has landed. *)
rerender(st) ==
    IF printing # "no"
    THEN printQueue' = <<>> /\ redraw' = TRUE /\ UNCHANGED <<printing, chunk>>
    ELSE repaint(history, st) /\ UNCHANGED redraw

(* Mutant: blocks are printed before the first window size is known. *)
PrintEarly(n) == print(Rendered(history + 1, history + n, style), room)

(* What commit prints of n new blocks: nothing before the window is known. *)
PrintNew(n) ==
    IF ready THEN print(Rendered(history + 1, history + n, style), room)
    ELSE UNCHANGED <<printQueue, printing, chunk>>

Commit(n) ==
    /\ history + n <= MaxBlocks
    /\ history' = history + n
    /\ PrintNew(n)
    /\ UNCHANGED <<style, room, ready, redraw, timers, resizeGen, screen, redraws>>

(* The first window size prints the transcript. *)
FirstSize ==
    /\ ~ready
    /\ ready' = TRUE
    /\ room' \in Rooms
    /\ print(renderAll(history, style), room')
    /\ UNCHANGED <<history, style, redraw, timers, resizeGen, screen, redraws>>

(* A later one: a new width is repainted once the resizing pauses. *)
Resize ==
    /\ ready
    /\ room' \in Rooms
    /\ \/ UNCHANGED <<style, resizeGen, timers>> /\ room' # room
       \/ /\ style < MaxStyles /\ style' = style + 1
          /\ resizeGen' = resizeGen + 1
          /\ timers' = timers \cup {resizeGen'}
    /\ redraws < MaxRedraws /\ redraws' = redraws + 1
    /\ UNCHANGED <<history, ready, printer, screen>>

(* Only the timer of the latest resize repaints. *)
LatestTimer(g) == g = resizeGen

TimerFires(g) ==
    /\ g \in timers /\ timers' = timers \ {g}
    /\ IF LatestTimer(g) THEN rerender(style) ELSE UNCHANGED printer
    /\ UNCHANGED <<history, style, room, ready, resizeGen, screen, redraws>>

(* ctrl+o and ctrl+t change a toggle, ctrl+l only redraws. *)
Toggles ==
    /\ ready /\ redraws < MaxRedraws
    /\ redraws' = redraws + 1
    /\ style' \in {s \in {style, style + 1} : s <= MaxStyles}
    /\ rerender(style')
    /\ UNCHANGED <<history, room, ready, timers, resizeGen, screen>>

(* The terminal: a chunk is inserted, the cleared screen is shown. *)
Lands ==
    /\ printing \in {"chunk", "settle"}
    /\ screen' = IF printing = "settle" THEN <<>>
                 ELSE IF chunk.clear THEN chunk.lines ELSE screen \o chunk.lines
    /\ printing' = "done" /\ chunk' = NoChunk
    /\ UNCHANGED <<history, style, room, ready, printQueue, redraw, timers,
                   resizeGen, redraws>>

(* A repaint serves the request. *)
RedrawServed == FALSE

(* printedMsg: a pending repaint goes first, else the next chunk. *)
Printed ==
    /\ printing = "done"
    /\ IF redraw THEN repaint(history, style) ELSE flushPrint(printQueue)
    /\ redraw' = RedrawServed
    /\ UNCHANGED <<history, style, room, ready, timers, resizeGen, screen, redraws>>

ScrollNext ==
    \/ \E n \in 1 .. MaxBlocks : Commit(n)
    \/ FirstSize \/ Resize \/ Toggles \/ Lands \/ Printed
    \/ \E g \in timers : TimerFires(g)

(* The terminal prints, messages arrive, timers fire. *)
ScrollFairness ==
    /\ WF_scrollVars(Lands) /\ WF_scrollVars(Printed) /\ WF_scrollVars(FirstSize)
    /\ WF_scrollVars(\E g \in timers : TimerFires(g))

ScrollSpec == ScrollInit /\ [][ScrollNext]_scrollVars /\ ScrollFairness

-----------------------------------------------------------------------------
BlocksOf(lines) == [i \in DOMAIN lines |-> lines[i].block]
Queued == FlattenSeq([i \in DOMAIN printQueue |-> printQueue[i].lines])

(* What scrollback holds once everything queued is printed. *)
Coming ==
    IF chunk.clear THEN chunk.lines \o Queued
    ELSE IF printQueue # <<>> /\ printQueue[1].clear THEN Queued
    ELSE screen \o chunk.lines \o Queued

(* At every moment, printed and queued lines together are the banner and   *)
(* each committed block once, in order, unless a repaint is pending.       *)
TranscriptOnce ==
    ready /\ ~redraw => BlocksOf(Coming) = [i \in 1 .. history + 1 |-> i - 1]

(* When the printer rests and no resize timer runs, scrollback is the      *)
(* whole transcript in the current style.                                  *)
RestsExact ==
    ready /\ printing = "no" /\ timers = {} => screen = renderAll(history, style)

(* Once the window's size is known, the transcript is eventually on screen *)
(* as it should be, through resizes and toggles in the middle of printing. *)
EventuallyPrinted == <>[](~ready \/ screen = renderAll(history, style))

(* Scrollback holds the transcript: every line once while printing, and the *)
(* whole of it in the current style when the printer rests.                 *)
ScrollbackInv == ScrollTypeOK /\ TranscriptOnce /\ RestsExact
=============================================================================
