---------------------------- MODULE MCCompletion ----------------------------
(* Small instances of Completion, with two contents besides the committed  *)
(* one, and of ReviewPlan, side by side: a behaviour is one of one of      *)
(* them, with the variables of the other at rest.                          *)
EXTENDS Completion, ReviewPlan

CONSTANTS f1, f2, f3, f4

VARIABLE part

MCContents == 0 .. 2

(* Diffs of two files: every kind of change to f1 and f2, with a hunk of   *)
(* plain lines, one whose lines look like headers, one with a generator's  *)
(* marker behind the lines searched for it, and one that stands for a      *)
(* binary file.                                                            *)
Hunks ==
    { <<>>,
      <<Line("-", NoPath), Line("+", NoPath)>>,
      <<Line("--- ", NoPath), Line("+++ ", f4), Line(" ", NoPath)>>,
      <<Line("+", NoPath), Line("+generated", NoPath)>>,
      <<Line("+generated", NoPath)>>,
      <<Line("+omitted", NoPath)>> }

Change(p, status, hunk, binary) ==
    [path |-> p, old |-> IF status = "renamed" THEN f4 ELSE NoPath, status |-> status,
     hunk |-> hunk, binary |-> binary]

ChangesOf(p) == {Change(p, s, h, b) : s \in FileStatuses, h \in Hunks, b \in BOOLEAN}

DiffInputs ==
    {[changes |-> q, dir |-> [p \in Paths |-> "a"], class |-> [p \in Paths |-> c],
      size |-> [p \in Paths |-> 1], score |-> [p \in Paths |-> 0], scored |-> FALSE]
        : q \in ChangesOf(f1) \X ChangesOf(f2), c \in {"code", "other"}}

(* Plans of four files in two directories: every mix of code and other     *)
(* files, of patches that share a shard, fill it or exceed it, and scores  *)
(* in three orders, or none.                                               *)
Four == <<f1, f2, f3, f4>>
ScoresOf(s) == [p \in Paths |-> s[CHOOSE i \in 1 .. 4 : Four[i] = p]]

PackInput(sizes, scores, scored) ==
    [changes : {[i \in 1 .. 4 |-> Change(Four[i], "modified", <<Line("+", NoPath)>>, FALSE)]},
     dir : {d \in [Paths -> {"a", "b"}] : d[f1] = "a"},
     class : [Paths -> {"code", "other"}],
     size : [Paths -> sizes], score : {ScoresOf(scores)}, scored : {scored}]

PackInputs ==
    PackInput({1, 2, 4}, <<2, 1, 1, 3>>, TRUE)
    \cup PackInput({2}, <<0, 3, 2, 1>>, TRUE) \cup PackInput({1, 4}, <<0, 0, 0, 0>>, FALSE)

MCInputs == DiffInputs \cup PackInputs

(* Only the gate of a root session looks at the todo plan, so only there it *)
(* makes a difference that the plan has open items when the run begins.     *)
ReviewInit ==
    \/ /\ part = "completion" /\ Init /\ (open => root)
       /\ PlanOf(<<>>)
    \/ /\ part = "plan" /\ PlanInit /\ Init
       /\ ~root /\ ~depth /\ ~git /\ ~open /\ model = CHOOSE m \in Models : TRUE

(* The two contents that are not committed are interchangeable: when the    *)
(* first write makes one of them, it is content 1.                          *)
FirstContentFirst == tools' + outside' = 1 => tree' # 2

ReviewNext ==
    /\ UNCHANGED part
    /\ \/ part = "completion" /\ Next /\ FirstContentFirst /\ UNCHANGED planVars
       \/ part = "plan" /\ PlanNext /\ UNCHANGED vars

ReviewSpec ==
    /\ ReviewInit /\ [][ReviewNext]_<<part, vars, planVars>>
    /\ WF_vars(part = "completion" /\ RunStep)

(* The gates refuse a bounded number of times: an agent that stops calling *)
(* tools and only repeats its final answer ends the run, with a pass or a  *)
(* question, whatever reviewers, checks and schema say.                    *)
RunEnds == (part = "completion") ~> (pc = "done")
=============================================================================
