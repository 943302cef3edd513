----------------------------- MODULE Hashline -----------------------------
(* Hashline anchors and patches: which line an anchor names, where a hunk   *)
(* lands, what applying a patch yields, and which line of the present file  *)
(* is the one an anchor of an earlier version named.                        *)
(*                                                                          *)
(* A file is a sequence of lines; positions count from 1.  A hash is taken  *)
(* to identify what it hashes: the line, or in the contextual dialect the   *)
(* line with its neighbours.                                                *)
EXTENDS Integers, Sequences, SequencesExt, FiniteSetsExt

CONSTANTS
    Contextual,      \* anchors hash the neighbours too
    lineTolerance,   \* how far a line hint may be off
    NoLine           \* the neighbour beyond either end, and the anchor of a new file

ASSUME HashlineAssumption == Contextual \in BOOLEAN /\ lineTolerance \in Nat

AnchorAt(lines, i) ==
    IF ~Contextual THEN lines[i]
    ELSE <<IF i > 1 THEN lines[i - 1] ELSE NoLine, lines[i],
           IF i < Len(lines) THEN lines[i + 1] ELSE NoLine>>

Occurrences(lines, anchor) == {i \in DOMAIN lines : AnchorAt(lines, i) = anchor}

(* pickOccurrence settles an ambiguous anchor by the line hint (0: none),   *)
(* or gives 0: the exact line; the only one within tolerance; and, for an   *)
(* insert alone, one clearly nearer than the next.                          *)
Distance(m, n) == IF m < n THEN n - m ELSE m - n

pickOccurrence(occurrences, line, deleting) ==
    LET within == {i \in occurrences : Distance(i, line) <= lineTolerance}
        clear == {i \in within : \A k \in occurrences \ {i} :
                                     2 * Distance(i, line) < Distance(k, line)}
    IN  CASE line = 0 -> 0
          [] line # 0 /\ line \in occurrences -> line
          [] line # 0 /\ line \notin occurrences /\ Cardinality(within) = 1 -> Min(within)
          [] OTHER -> IF deleting \/ clear = {} THEN 0 ELSE Min(clear)

(* Where a hunk lands: a position in 1..Len(lines) + 1, or an error.        *)
Error(why) == [ok |-> FALSE, why |-> why]
InBounds(lines, i, h) == i + h.offset \in 1..(Len(lines) + 1) /\ i + h.offset + h.delete <= Len(lines) + 1

NewFileHunk(lines, h) == lines = <<>> /\ h.anchor = NoLine /\ h.offset = 0 /\ h.delete = 0

Locate(lines, h) ==
    LET all == IF NewFileHunk(lines, h) THEN {1} ELSE Occurrences(lines, h.anchor)
        pick == IF Cardinality(all) > 1 THEN pickOccurrence(all, h.line, h.delete > 0) ELSE 0
        named == IF pick # 0 THEN {pick} ELSE all
        valid == {i \in named : InBounds(lines, i, h)}
    IN  CASE all = {} -> Error("stale")
          [] Cardinality(named) > 1 /\ h.delete > 0 -> Error("ambiguous")
          [] all # {} /\ ~(Cardinality(named) > 1 /\ h.delete > 0) /\ valid = {} -> Error("stale")
          [] OTHER -> IF Cardinality(valid) > 1 THEN Error("ambiguous")
                      ELSE [ok |-> TRUE, at |-> Min(valid) + h.offset]

(* ApplyLines: every hunk is located in the same snapshot; in file order    *)
(* they may not overlap; they are spliced in from the bottom up.  The       *)
(* regions are where the inserted lines are in the new file: from after     *)
(* start to end.                                                            *)
Before(x, y) == x.at < y.at \/ (x.at = y.at /\ x.n < y.n)

Located(lines, hunks) ==
    SetToSortSeq({[at |-> Locate(lines, hunks[n]).at, n |-> n, h |-> hunks[n]] : n \in DOMAIN hunks},
                 Before)

Overlaps(loc) == \E n \in 2..Len(loc) : loc[n].at < loc[n - 1].at + loc[n - 1].h.delete

Splice(raw, x) ==
    SubSeq(raw, 1, x.at - 1) \o x.h.insert \o SubSeq(raw, x.at + x.h.delete, Len(raw))

\* Mutant: hunks are spliced in from the top.
SplicedTopDown(lines, loc) == FoldLeft(Splice, lines, loc)
Spliced(lines, loc) == FoldLeft(Splice, lines, Reverse(loc))

Growth(x) == Len(x.h.insert) - x.h.delete

Affected(loc) ==
    [n \in DOMAIN loc |->
        LET start == loc[n].at - 1 + FoldLeft(LAMBDA d, x : d + Growth(x), 0, SubSeq(loc, 1, n - 1))
        IN  [start |-> start, end |-> start + Len(loc[n].h.insert)]]

ApplyLines(lines, hunks) ==
    LET failing == {n \in DOMAIN hunks : ~Locate(lines, hunks[n]).ok}
        loc == Located(lines, hunks)
        new == Spliced(lines, loc)
    IN  IF failing # {} THEN Locate(lines, hunks[Min(failing)])
        ELSE IF Overlaps(loc) THEN Error("overlap")
        ELSE IF new = lines THEN Error("noop")
        ELSE [ok |-> TRUE, lines |-> new, affected |-> Affected(loc)]

-----------------------------------------------------------------------------
(* retainedLine: the position now of line old of an earlier version, or 0:  *)
(* by the common start, the common end, or a longest common subsequence of  *)
(* the rest.                                                                *)
CommonStart(b, a) ==
    Max({n \in 0..Len(b) : n <= Len(a) /\ SubSeq(b, 1, n) = SubSeq(a, 1, n)})

CommonEnd(b, a) == CommonStart(Reverse(b), Reverse(a))

Aligned(b, a, old) ==
    LET lcs[i \in 1..(Len(b) + 1), j \in 1..(Len(a) + 1)] ==
            IF i > Len(b) \/ j > Len(a) THEN 0
            ELSE IF b[i] = a[j] THEN lcs[i + 1, j + 1] + 1
            ELSE LET down == lcs[i + 1, j] right == lcs[i, j + 1]
                 IN  IF down > right THEN down ELSE right
        walk[i \in 1..(Len(b) + 1), j \in 1..(Len(a) + 1)] ==
            IF i > Len(b) \/ j > Len(a) THEN 0
            ELSE IF b[i] = a[j] THEN IF i = old THEN j ELSE walk[i + 1, j + 1]
            ELSE IF lcs[i + 1, j] >= lcs[i, j + 1]
            THEN IF i = old THEN 0 ELSE walk[i + 1, j]
            ELSE walk[i, j + 1]
    IN  walk[1, 1]

FromEnd(before, after, old) == old - Len(before) + Len(after)

retainedLine(before, after, old) ==
    LET prefix == CommonStart(before, after)
        rest(s) == SubSeq(s, prefix + 1, Len(s))
        suffix == CommonEnd(rest(before), rest(after))
        middle(s) == SubSeq(s, prefix + 1, Len(s) - suffix)
        at == Aligned(middle(before), middle(after), old - prefix)
    IN  IF old <= prefix THEN old
        ELSE IF old > Len(before) - suffix THEN FromEnd(before, after, old)
        ELSE IF at = 0 THEN 0 ELSE prefix + at
=============================================================================
