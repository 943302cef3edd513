----------------------------- MODULE ReviewPlan -----------------------------
(***************************************************************************)
(* How a diff becomes a review (internal/review/diff.go and plan.go): the  *)
(* diff is split into files, each file is shown or summarised, and the     *)
(* files shown are packed into shards, one per reviewer, MaxReviewers at   *)
(* most.                                                                   *)
(*                                                                         *)
(* A line of a diff is its prefix, as far as ParseDiff looks at it, with   *)
(* the path it names; a path stands for its file.                          *)
(***************************************************************************)
EXTENDS Integers, Sequences, FiniteSets, SequencesExt

CONSTANTS Paths,
          NoPath,       \* no old path, /dev/null
          Inputs,       \* the reviews to plan: [changes, dir, class, size, score]
          ShardChars,   \* patch budget of a reviewer
          Marker,       \* length of the note that ends a truncated patch
          MaxReviewers, \* Options.MaxShards
          Cutoff,       \* NeedsReviewCutoff
          MarkerLines   \* added lines searched for a generator's marker (5)

VARIABLES input, stage,
          parsed,       \* what ParseDiff returns
          included,     \* files shown in full, in diff order
          dropped,      \* files summarised to keep within MaxReviewers, in order
          planned

planVars == <<input, stage, parsed, included, dropped, planned>>

FileStatuses == {"added", "modified", "deleted", "renamed"}
File == [path: Paths, old: Paths \cup {NoPath}, status: FileStatuses, added: Nat, removed: Nat,
         binary: BOOLEAN, hunk: Seq([k: STRING, p: Paths \cup {NoPath}])]
Shard == [files: Seq(Paths), chars: Nat, truncated: SUBSET Paths]

PlanTypeOK ==
    /\ stage \in {"diff", "parsed", "packing", "done"}
    /\ parsed \in Seq(File)
    /\ included \in Seq(Paths) /\ dropped \in Seq(Paths)
    /\ planned \in Seq(Shard)

PlanOf(x) ==
    /\ input = x /\ stage = "diff"
    /\ parsed = <<>> /\ included = <<>> /\ dropped = <<>> /\ planned = <<>>

PlanInit == \E x \in Inputs : PlanOf(x)

-----------------------------------------------------------------------------
(* What git writes for a change (and the harness for an untracked file):   *)
(* header lines, then a hunk.  A removed line may itself begin with "--",  *)
(* an added one with "++", and then reads like a header.                   *)
Line(k, p) == [k |-> k, p |-> p]

Written(c) ==
    LET old == IF c.status = "renamed" THEN c.old ELSE c.path
    IN  <<[k |-> "diff --git", p |-> c.path, old |-> old]>>
        \o (CASE c.status = "added" -> <<Line("new file mode", NoPath)>>
              [] c.status = "deleted" -> <<Line("deleted file mode", NoPath)>>
              [] c.status = "renamed" -> <<Line("rename from ", c.old), Line("rename to ", c.path)>>
              [] OTHER -> <<>>)
        \o (IF c.binary THEN <<Line("Binary files ", NoPath)>>
            ELSE IF c.hunk = <<>> THEN <<>>
            ELSE <<Line("--- ", IF c.status = "added" THEN NoPath ELSE old),
                   Line("+++ ", IF c.status = "deleted" THEN NoPath ELSE c.path),
                   Line("@@", NoPath)>> \o c.hunk)

Diff(changes) == FlattenSeq([i \in DOMAIN changes |-> Written(changes[i])])

Plus == {"+", "+++ ", "+generated", "+omitted"}   \* the prefixes of added lines
Minus == {"-", "--- "}

(* Inside a hunk every line is content; one added line says that the       *)
(* harness left out a binary file.                                         *)
HunkLine(f, l) ==
    [f EXCEPT !.added = @ + (IF l.k \in Plus THEN 1 ELSE 0),
              !.removed = @ + (IF l.k \in Minus THEN 1 ELSE 0),
              !.binary = @ \/ l.k = "+omitted",
              !.hunk = Append(@, l)]

Header(f, l) ==
    CASE l.k = "new file mode" -> [f EXCEPT !.status = "added"]
      [] l.k = "deleted file mode" -> [f EXCEPT !.status = "deleted"]
      [] l.k = "rename from " -> [f EXCEPT !.status = "renamed", !.old = l.p]
      [] l.k = "rename to " -> [f EXCEPT !.path = l.p]
      [] l.k = "Binary files " -> [f EXCEPT !.binary = TRUE]
      [] l.k = "+++ " /\ l.p # NoPath -> [f EXCEPT !.path = l.p]
      [] OTHER -> f

LineOf(f, l, inHunk) == IF inHunk THEN HunkLine(f, l) ELSE Header(f, l)

(* ParseDiff, line by line: a file begins at its "diff --git" line. *)
ParseLine(s, l) ==
    IF l.k = "diff --git"
    THEN [files |-> Append(s.files, [path |-> l.p, old |-> l.old, status |-> "modified",
                                     added |-> 0, removed |-> 0, binary |-> FALSE,
                                     hunk |-> <<>>]),
          inHunk |-> FALSE]
    ELSE [files |-> [s.files EXCEPT ![Len(s.files)] = LineOf(@, l, s.inHunk)],
          inHunk |-> s.inHunk \/ l.k = "@@"]

ParseDiff(lines) == FoldLeft(ParseLine, [files |-> <<>>, inHunk |-> FALSE], lines).files

Parses ==
    /\ stage = "diff"
    /\ parsed' = ParseDiff(Diff(input.changes))
    /\ stage' = "parsed"
    /\ UNCHANGED <<input, included, dropped, planned>>

-----------------------------------------------------------------------------
(* generated: by its name, or by a marker in its first added lines. *)
Generated(f) ==
    LET plus == SelectSeq(f.hunk, LAMBDA l : l.k \in Plus \ {"+++ "})
    IN  \E i \in DOMAIN plus : i <= MarkerLines /\ plus[i].k = "+generated"

(* Classify: "summarised" stands for binary files, lockfiles, assets and   *)
(* generated files, which Build treats alike.                              *)
Classify(f) ==
    IF f.binary \/ Generated(f) THEN "summarised" ELSE input.class[f.path]

ClassOf(p) == Classify(parsed[CHOOSE i \in DOMAIN parsed : parsed[i].path = p])

(* A score decides only where a classifier answered without an error. *)
Scored(p) == ClassOf(p) = "other" /\ input.scored

(* Build: code is shown, summarised files are not, other files unless      *)
(* deleted or scored too low.                                              *)
Shows(f) ==
    CASE Classify(f) = "code" -> TRUE
      [] Classify(f) = "summarised" -> FALSE
      [] OTHER -> f.status # "deleted" /\ (Scored(f.path) => input.score[f.path] >= Cutoff)

Builds ==
    LET shown == SelectSeq(parsed, Shows)
    IN  /\ stage = "parsed"
        /\ included' = [i \in DOMAIN shown |-> shown[i].path]
        /\ stage' = IF shown = <<>> THEN "done" ELSE "packing"
        /\ UNCHANGED <<input, parsed, dropped, planned>>

Fresh == [files |-> <<>>, chars |-> 0, truncated |-> {}]

(* The patch as a reviewer gets it: cut to the budget, with a note. *)
Oversized(p) == input.size[p] > ShardChars
PatchLen(p) == IF Oversized(p) THEN ShardChars + Marker ELSE input.size[p]

Overflows(ss, n) == ss = <<>> \/ Last(ss).chars + n > ShardChars

(* pack's add: the file goes to the last shard, or to a new one. *)
add(ss, p) ==
    LET open == IF Overflows(ss, PatchLen(p)) THEN Append(ss, Fresh) ELSE ss
    IN  [open EXCEPT ![Len(open)] =
            [files |-> Append(@.files, p), chars |-> @.chars + PatchLen(p),
             truncated |-> IF Oversized(p) THEN @.truncated \cup {p} ELSE @.truncated]]

(* A directory that fits a shard but not the rest of this one gets its own. *)
OpensShard(ss, n) == ss # <<>> /\ Last(ss).chars + n > ShardChars /\ n <= ShardChars

SumOf(ns) == FoldLeft(LAMBDA a, b : a + b, 0, ns)

(* pack's first part: directory by directory, in the order they come up. *)
Packed ==
    LET dirOf == [i \in DOMAIN included |-> input.dir[included[i]]]
        first == SelectSeq([i \in DOMAIN included |-> i],
                           LAMBDA i : \A j \in 1 .. i - 1 : dirOf[j] # dirOf[i])
        Group(d) == SelectSeq(included, LAMBDA p : input.dir[p] = d)
        Least(p) == IF Oversized(p) THEN ShardChars ELSE input.size[p]
        AddDir(ss, i) ==
            LET g == Group(dirOf[i])
                n == SumOf([j \in DOMAIN g |-> Least(g[j])])
            IN  FoldLeft(add, IF OpensShard(ss, n) THEN Append(ss, Fresh) ELSE ss, g)
    IN  SelectSeq(FoldLeft(AddDir, <<>>, first), LAMBDA s : s.files # <<>>)

ScoreOf(p) == IF Scored(p) THEN input.score[p] ELSE 100

Candidates == {i \in DOMAIN included : ClassOf(included[i]) # "code"}

(* The candidate with the lowest score, the first of several. *)
LeastLikely ==
    CHOOSE i \in Candidates : \A j \in Candidates :
       \/ ScoreOf(included[i]) < ScoreOf(included[j])
       \/ ScoreOf(included[i]) = ScoreOf(included[j]) /\ i <= j

(* Mutant: the shards beyond the limit are left out. *)
CutOff(ss) == SubSeq(ss, 1, MaxReviewers)

(* Code beyond the limit is named in the last shard, without its patch. *)
Merged(ss) ==
    LET rest == FlattenSeq([i \in 1 .. Len(ss) - MaxReviewers |-> ss[MaxReviewers + i].files])
    IN  [SubSeq(ss, 1, MaxReviewers) EXCEPT ![MaxReviewers] =
            [@ EXCEPT !.files = @ \o rest, !.truncated = @ \cup ToSet(rest)]]

(* One level of pack's recursion. *)
Packs ==
    LET ss == Packed
    IN  /\ stage = "packing"
        /\ IF Len(ss) > MaxReviewers /\ Candidates # {}
           THEN /\ dropped' = Append(dropped, included[LeastLikely])
                /\ included' = RemoveAt(included, LeastLikely)
                /\ UNCHANGED <<stage, planned>>
           ELSE /\ planned' = IF Len(ss) > MaxReviewers THEN Merged(ss) ELSE ss
                /\ stage' = "done"
                /\ UNCHANGED <<included, dropped>>
        /\ UNCHANGED <<input, parsed>>

PlanNext == Parses \/ Builds \/ Packs

PlanSpec == PlanInit /\ [][PlanNext]_planVars

-----------------------------------------------------------------------------
(* ParseDiff finds the files that were changed, and how, also when removed *)
(* or added lines read like headers.                                       *)
ParsedAsWritten ==
    stage # "diff" =>
       /\ Len(parsed) = Len(input.changes)
       /\ \A i \in DOMAIN parsed :
             LET c == input.changes[i]
                 Count(ks) == Len(SelectSeq(c.hunk, LAMBDA l : l.k \in ks))
             IN  /\ parsed[i].path = c.path /\ parsed[i].status = c.status
                 /\ parsed[i].binary = (c.binary \/ Count({"+omitted"}) > 0)
                 /\ c.status = "renamed" => parsed[i].old = c.old
                 /\ ~c.binary => /\ parsed[i].hunk = c.hunk
                                 /\ parsed[i].added = Count(Plus)
                                 /\ parsed[i].removed = Count(Minus)

ShardsOf(p) == {k \in DOMAIN planned : p \in ToSet(planned[k].files)}

(* Every file of the diff reaches one reviewer, or is summarised for all   *)
(* of them; code always reaches one ("Code is never dropped", plan.go).    *)
EveryFileReviewed ==
    stage = "done" =>
       \A i \in DOMAIN parsed :
          LET p == parsed[i].path
          IN  /\ Cardinality(ShardsOf(p)) = IF p \in ToSet(included) THEN 1 ELSE 0
              /\ Classify(parsed[i]) = "code" => p \in ToSet(included)

(* The review stays within its reviewers and each reviewer within the      *)
(* budget, but for the note on one truncated patch.                        *)
WithinBudget ==
    /\ Len(planned) <= MaxReviewers
    /\ \A k \in DOMAIN planned :
          /\ planned[k].files # <<>>
          /\ planned[k].chars <= ShardChars + Marker
          /\ planned[k].chars > ShardChars => Len(planned[k].files) = 1 \/ k = MaxReviewers

(* A reviewer gets the whole patch of every file of the shard, or is told  *)
(* which ones to read: the patches not named as truncated are those the    *)
(* shard's size counts.                                                    *)
CutIsNamed ==
    \A k \in DOMAIN planned :
       LET whole == SelectSeq(planned[k].files, LAMBDA p : p \notin planned[k].truncated)
       IN  /\ \A i \in DOMAIN whole : ~Oversized(whole[i])
           /\ SumOf([i \in DOMAIN whole |-> input.size[whole[i]]]) <= planned[k].chars

(* "Related changes stay together": a directory that fits one reviewer is  *)
(* read by one.                                                            *)
DirectoriesTogether ==
    stage = "done" =>
       \A d \in {input.dir[p] : p \in ToSet(included)} :
          LET g == SelectSeq(included, LAMBDA p : input.dir[p] = d)
          IN  SumOf([i \in DOMAIN g |-> input.size[g[i]]]) <= ShardChars =>
                 \A p, q \in ToSet(g) : ShardsOf(p) = ShardsOf(q)

(* Files are given up for the budget from the least likely to need a       *)
(* review, so none that stays scores below one that went.                  *)
LeastLikelyFirst ==
    \A i \in DOMAIN dropped :
       /\ ClassOf(dropped[i]) # "code"
       /\ \A p \in ToSet(included) :
             ClassOf(p) # "code" => ScoreOf(p) >= ScoreOf(dropped[i])

(* The plan of a review is right, for every diff: it is of the files that   *)
(* were changed, every one of them is reviewed or summarised, within the    *)
(* budget, with cuts named, directories together and the least likely files *)
(* given up first (ParseDiff, Build, pack and merge).                       *)
PlanInv ==
    /\ PlanTypeOK
    /\ ParsedAsWritten /\ EveryFileReviewed /\ WithinBudget /\ CutIsNamed
    /\ DirectoriesTogether /\ LeastLikelyFirst
=============================================================================
