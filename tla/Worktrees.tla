----------------------------- MODULE Worktrees -----------------------------
(***************************************************************************)
(* Isolated workers of a run on disk (internal/core/worktree.go and        *)
(* spawn's use of it): each gets a git worktree that starts as the         *)
(* checkout is, uncommitted changes included, and its work is applied to   *)
(* the checkout when it ends, while the run and the other workers go on.   *)
(*                                                                         *)
(* A region is a part of a file that a patch changes as one: git applies a *)
(* patch when every region it changes is as the patch expects.  Gone is    *)
(* the content of a file that is not there.                                *)
(***************************************************************************)
EXTENDS Integers

CONSTANTS Regions, Contents, Gone,
          Isolated,
          Heads, Checkouts,   \* what is committed, and what is checked out, at first
          MaxEdits,           \* bound on the run's edits
          MaxWork,            \* and on a worker's
          MaxTroubles         \* and on writes and commits that fail

VARIABLES head, checkout, edits, troubles,
          stage,       \* of each worker
          wt,          \* its worktree
          todo,        \* regions createIsolatedWorktree has not copied yet
          base,        \* the commit its work is compared with
          branch,      \* its branch; NoTree when there is none
          merged,      \* what its result says
          work,
          ours         \* the checkout as the copy shows it, Gone where it does not (history)

treeVars == <<head, checkout, edits, troubles, stage, wt, todo, base, branch, merged, work, ours>>

Tree == [Regions -> Contents \cup {Gone}]
NoTree == [r \in {} |-> Gone]

ASSUME TreesAssumption ==
    /\ Regions # {}
    /\ Heads \subseteq Tree /\ Checkouts \subseteq Tree
    /\ {MaxEdits, MaxWork, MaxTroubles} \subseteq Nat

Stages == {"none", "copying", "working", "committed", "applied", "removed", "failed", "orphaned"}

WorktreesTypeOK ==
    /\ head \in Tree /\ checkout \in Tree
    /\ edits \in 0 .. MaxEdits /\ troubles \in 0 .. MaxTroubles
    /\ stage \in [Isolated -> Stages]
    /\ \A w \in Isolated :
          /\ {wt[w], base[w], branch[w], ours[w]} \subseteq Tree \cup {NoTree}
          /\ todo[w] \subseteq Regions /\ merged[w] \in {"none", "yes", "no"}
          /\ work[w] \in 0 .. MaxWork
          /\ stage[w] \in {"none", "removed"} <=> wt[w] = NoTree

TreesInit ==
    /\ head \in Heads /\ checkout \in Checkouts
    /\ edits = 0 /\ troubles = 0
    /\ stage = [w \in Isolated |-> "none"]
    /\ wt = [w \in Isolated |-> NoTree] /\ base = wt /\ branch = wt /\ ours = wt
    /\ todo = [w \in Isolated |-> {}]
    /\ merged = [w \in Isolated |-> "none"] /\ work = [w \in Isolated |-> 0]

-----------------------------------------------------------------------------
(* The run's own tools change the checkout at any time. *)
Edits(r, c) ==
    /\ edits < MaxEdits /\ checkout[r] # c
    /\ checkout' = [checkout EXCEPT ![r] = c] /\ edits' = edits + 1
    /\ UNCHANGED <<head, troubles, stage, wt, todo, base, branch, merged, work, ours>>

(* git worktree add -b branch path HEAD. *)
AddsWorktree(w) ==
    /\ stage[w] = "none"
    /\ stage' = [stage EXCEPT ![w] = "copying"]
    /\ wt' = [wt EXCEPT ![w] = head] /\ branch' = [branch EXCEPT ![w] = head]
    /\ todo' = [todo EXCEPT ![w] = Regions] /\ ours' = [ours EXCEPT ![w] = checkout]
    /\ UNCHANGED <<head, checkout, edits, troubles, base, merged, work>>

(* One file of the walk: a file that is not there is not visited, so the   *)
(* worktree keeps the committed one.                                       *)
Copies(w, r) ==
    /\ stage[w] = "copying" /\ r \in todo[w]
    /\ todo' = [todo EXCEPT ![w] = @ \ {r}]
    /\ wt' = [wt EXCEPT ![w][r] = IF checkout[r] = Gone THEN @ ELSE checkout[r]]
    /\ ours' = [ours EXCEPT ![w][r] = checkout[r]]
    /\ UNCHANGED <<head, checkout, edits, troubles, stage, base, branch, merged, work>>

(* A write that fails ends the walk, and its error is dropped. *)
WalkStops(w) ==
    /\ stage[w] = "copying" /\ todo[w] # {} /\ troubles < MaxTroubles
    /\ todo' = [todo EXCEPT ![w] = {}] /\ troubles' = troubles + 1
    /\ ours' = [ours EXCEPT ![w] = [r \in Regions |-> IF r \in todo[w] THEN Gone ELSE @[r]]]
    /\ UNCHANGED <<head, checkout, edits, stage, wt, base, branch, merged, work>>

(* spawn reads the base with rev-parse after the copy is committed. *)
BaseOf(w) == wt[w]

CommitsBase(w) ==
    /\ stage[w] = "copying" /\ todo[w] = {}
    /\ stage' = [stage EXCEPT ![w] = "working"]
    /\ base' = [base EXCEPT ![w] = BaseOf(w)] /\ branch' = [branch EXCEPT ![w] = wt[w]]
    /\ UNCHANGED <<head, checkout, edits, troubles, wt, todo, merged, work, ours>>

(* git refuses (a hook, no identity): spawn fails, the worktree stays. *)
SpawnFails(w) ==
    /\ stage[w] = "copying" /\ todo[w] = {} /\ wt[w] # head /\ troubles < MaxTroubles
    /\ stage' = [stage EXCEPT ![w] = "failed"] /\ troubles' = troubles + 1
    /\ UNCHANGED <<head, checkout, edits, wt, todo, base, branch, merged, work, ours>>

Works(w, r, c) ==
    /\ stage[w] = "working" /\ work[w] < MaxWork /\ wt[w][r] # c
    /\ wt' = [wt EXCEPT ![w][r] = c] /\ work' = [work EXCEPT ![w] = @ + 1]
    /\ UNCHANGED <<head, checkout, edits, troubles, stage, todo, base, branch, merged, ours>>

(* finalizeIsolatedJob commits what the worker left ... *)
Ends(w) ==
    /\ stage[w] = "working"
    /\ stage' = [stage EXCEPT ![w] = "committed"]
    /\ branch' = [branch EXCEPT ![w] = wt[w]]
    /\ UNCHANGED <<head, checkout, edits, troubles, wt, todo, base, merged, work, ours>>

(* ... and ignores that the commit was refused. *)
EndsUncommitted(w) ==
    /\ stage[w] = "working" /\ wt[w] # base[w] /\ troubles < MaxTroubles
    /\ stage' = [stage EXCEPT ![w] = "committed"] /\ troubles' = troubles + 1
    /\ UNCHANGED <<head, checkout, edits, wt, todo, base, branch, merged, work, ours>>

Changed(w) == {r \in Regions : branch[w][r] # base[w][r]}

(* Mutant: the worker's files replace those of the checkout. *)
Overwrites(w) == TRUE

(* git apply: every region as the patch expects it, or nothing. *)
Applicable(w) == \A r \in Changed(w) : checkout[r] = base[w][r]

Applies(w) ==
    /\ stage[w] = "committed"
    /\ stage' = [stage EXCEPT ![w] = "applied"]
    /\ checkout' = IF Applicable(w)
                   THEN [r \in Regions |-> IF r \in Changed(w) THEN branch[w][r] ELSE checkout[r]]
                   ELSE checkout
    /\ merged' = [merged EXCEPT ![w] = IF Applicable(w) THEN "yes" ELSE "no"]
    /\ UNCHANGED <<head, edits, troubles, wt, todo, base, branch, work, ours>>

(* Mutant: the branch goes with the worktree. *)
KeepsNone(w) == FALSE

KeepsBranch(w) == merged[w] = "no"

(* The worktree is removed, the branch only after a merge. *)
Removes(w) ==
    /\ stage[w] = "applied"
    /\ stage' = [stage EXCEPT ![w] = "removed"]
    /\ wt' = [wt EXCEPT ![w] = NoTree]
    /\ branch' = IF KeepsBranch(w) THEN branch ELSE [branch EXCEPT ![w] = NoTree]
    /\ UNCHANGED <<head, checkout, edits, troubles, todo, base, merged, work, ours>>

(* The process stops: what the workers had stays on disk. *)
Restarts ==
    /\ troubles < MaxTroubles /\ troubles' = troubles + 1
    /\ stage' = [w \in Isolated |-> IF stage[w] \in {"none", "removed", "failed", "orphaned"}
                                   THEN stage[w] ELSE "orphaned"]
    /\ stage' # stage
    /\ todo' = [w \in Isolated |-> {}]
    /\ UNCHANGED <<head, checkout, edits, wt, base, branch, merged, work, ours>>

TreesNext ==
    \/ \E r \in Regions, c \in Contents \cup {Gone} : Edits(r, c)
    \/ Restarts
    \/ \E w \in Isolated :
          \/ AddsWorktree(w) \/ WalkStops(w) \/ CommitsBase(w) \/ SpawnFails(w)
          \/ Ends(w) \/ EndsUncommitted(w) \/ Applies(w) \/ Removes(w)
          \/ \E r \in Regions : Copies(w, r)
          \/ \E r \in Regions, c \in Contents : Works(w, r, c)

TreesSpec == TreesInit /\ [][TreesNext]_treeVars

-----------------------------------------------------------------------------
(* The work outlives the worktree: when it goes, what the worker changed   *)
(* is in the checkout, or on the branch the result names.  Only a refused  *)
(* commit is not noticed: the branch is then still at the base.            *)
NoLostWork ==
    [][\A w \in Isolated :
          stage[w] = "applied" /\ stage'[w] = "removed" /\ branch[w] = wt[w] =>
             merged[w] = "yes" \/ branch'[w] = wt[w]]_treeVars

(* "On a conflict the parent is left untouched", and a conflict is one: the*)
(* run or another worker changed a region of the worker's since its copy   *)
(* was made, or the copy could not show the worker the checkout, for a     *)
(* file deleted in it or a write that failed.                              *)
ConflictIsReal ==
    \A w \in Isolated :
       stage[w] = "committed" /\ stage'[w] = "applied" /\ merged'[w] = "no" =>
          /\ checkout' = checkout
          /\ \E r \in Regions :
                /\ branch[w][r] # base[w][r]
                /\ ours[w][r] = Gone \/ checkout[r] # ours[w][r]

(* A merge undoes nothing: where the checkout is not as the worker saw it, *)
(* it stays as it is.                                                      *)
MergeKeepsCheckout ==
    \A w \in Isolated :
       stage[w] = "committed" /\ stage'[w] = "applied" =>
          \A r \in Regions : checkout'[r] # checkout[r] =>
             /\ checkout[r] = base[w][r] /\ checkout'[r] = wt[w][r]

(* What a merge never does: undo what the checkout has, or refuse without a *)
(* conflict (finalizeIsolatedJob).                                          *)
CheckoutRespected == [][ConflictIsReal /\ MergeKeepsCheckout]_treeVars
=============================================================================
