-------------------------- MODULE IsolationProofs ---------------------------
(***************************************************************************)
(* Proofs about isolated workers: git worktrees (Worktrees) and trees in   *)
(* memory (VirtualFS).  No work is lost, a merge respects what it is merged *)
(* into, and a tree in memory stays a tree, for any workers, regions, paths *)
(* and failures.                                                           *)
(***************************************************************************)
EXTENDS Worktrees, VirtualFS, TLAPS

-----------------------------------------------------------------------------
(* That isolated workers lose no work and respect the checkout, for every   *)
(* set of workers and regions and any number of edits and failures.         *)
(*                                                                          *)
(* A conflict is real because the copy a worker starts from shows the       *)
(* checkout: what the walk has copied is what the checkout held then        *)
(* (CopyShows), and the base the worker's changes are compared with is that *)
(* copy (BaseShows).  What is applied is the worker's own tree because its  *)
(* branch is either that tree or, after a refused commit, still the base    *)
(* (BranchIs).                                                              *)
TreesTyped ==
    /\ head \in Tree /\ checkout \in Tree
    /\ edits \in 0 .. MaxEdits /\ troubles \in 0 .. MaxTroubles
    /\ stage \in [Isolated -> Stages]
    /\ wt \in [Isolated -> Tree \cup {NoTree}] /\ base \in [Isolated -> Tree \cup {NoTree}]
    /\ branch \in [Isolated -> Tree \cup {NoTree}] /\ ours \in [Isolated -> Tree \cup {NoTree}]
    /\ todo \in [Isolated -> SUBSET Regions]
    /\ merged \in [Isolated -> {"none", "yes", "no"}]
    /\ work \in [Isolated -> 0 .. MaxWork]

HasWorktree(w) == stage[w] \in {"none", "removed"} <=> wt[w] = NoTree

HasCopy(w) ==
    /\ stage[w] \in {"copying", "working", "committed"} => ours[w] \in Tree
    /\ stage[w] \in {"working", "committed"} => base[w] \in Tree /\ branch[w] \in Tree

CopyShows(w) ==
    stage[w] = "copying" =>
        \A r \in Regions \ todo[w] : ours[w][r] # Gone => wt[w][r] = ours[w][r]

BaseShows(w) ==
    stage[w] \in {"working", "committed"} =>
        \A r \in Regions : ours[w][r] # Gone => base[w][r] = ours[w][r]

BranchIs(w) ==
    /\ stage[w] = "working" => branch[w] = base[w]
    /\ stage[w] = "committed" => branch[w] \in {base[w], wt[w]}

ResultKnown(w) == stage[w] = "applied" => merged[w] \in {"yes", "no"}

Sound(w) ==
    /\ HasWorktree(w) /\ HasCopy(w) /\ CopyShows(w) /\ BaseShows(w) /\ BranchIs(w)
    /\ ResultKnown(w)

TreesInv == TreesTyped /\ \A w \in Isolated : Sound(w)

-----------------------------------------------------------------------------
(* The absent tree is not a tree. *)
LEMMA NoTreeIsNone == NoTree \notin Tree
  BY TreesAssumption, Zenon DEF NoTree, Tree

(* The invariant holds before the first worker. *)
LEMMA TreesInitially == TreesInit => TreesInv
  <1> SUFFICES ASSUME TreesInit PROVE TreesInv
    BY Zenon
  <1>1. TreesTyped
    BY TreesAssumption DEF TreesInit, TreesTyped, Stages
  <1>2. ASSUME NEW w \in Isolated PROVE Sound(w)
    BY Zenon DEF TreesInit, Sound, HasWorktree, HasCopy, CopyShows, BaseShows, BranchIs, ResultKnown
  <1>. QED
    BY <1>1, <1>2, Zenon DEF TreesInv

(* A step keeps the types. *)
LEMMA TreesTypedKept ==
    ASSUME TreesInv, [TreesNext]_treeVars
    PROVE  TreesTyped'
  <1>1. TreesTyped /\ \A w \in Isolated : HasWorktree(w) /\ HasCopy(w)
    BY Zenon DEF TreesInv, Sound
  <1>. USE TreesAssumption
  <1>2. CASE UNCHANGED treeVars
    BY <1>1, <1>2, Zenon DEF TreesTyped, treeVars
  <1>3. ASSUME NEW r \in Regions, NEW c \in Contents \cup {Gone}, Edits(r, c)
        PROVE  TreesTyped'
    BY <1>1, <1>3 DEF TreesTyped, Edits, Tree
  <1>4. CASE Restarts
    BY <1>1, <1>4 DEF TreesTyped, Restarts, Stages
  <1>5. ASSUME NEW w \in Isolated, AddsWorktree(w) PROVE TreesTyped'
    BY <1>1, <1>5, Zenon DEF TreesTyped, AddsWorktree, Stages
  <1>6. ASSUME NEW w \in Isolated, NEW r \in Regions, Copies(w, r) PROVE TreesTyped'
    <2>1. wt[w] \in Tree /\ ours[w] \in Tree
      BY <1>1, <1>6, Zenon DEF TreesTyped, Copies, HasWorktree, HasCopy
    <2>2. [wt[w] EXCEPT ![r] = IF checkout[r] = Gone THEN @ ELSE checkout[r]] \in Tree
      BY <1>1, <2>1, Zenon DEF TreesTyped, Tree
    <2>3. [ours[w] EXCEPT ![r] = checkout[r]] \in Tree
      BY <1>1, <2>1, Zenon DEF TreesTyped, Tree
    <2>. QED
      BY <1>1, <1>6, <2>2, <2>3, Zenon DEF TreesTyped, Copies
  <1>7. ASSUME NEW w \in Isolated, WalkStops(w) PROVE TreesTyped'
    <2>1. [r \in Regions |-> IF r \in todo[w] THEN Gone ELSE ours[w][r]] \in Tree
      BY <1>1, <1>7, Zenon DEF TreesTyped, WalkStops, HasCopy, Tree
    <2>. QED
      BY <1>1, <1>7, <2>1 DEF TreesTyped, WalkStops
  <1>8. ASSUME NEW w \in Isolated, CommitsBase(w) PROVE TreesTyped'
    BY <1>1, <1>8, Zenon DEF TreesTyped, CommitsBase, BaseOf, Stages
  <1>9. ASSUME NEW w \in Isolated, SpawnFails(w) PROVE TreesTyped'
    BY <1>1, <1>9 DEF TreesTyped, SpawnFails, Stages
  <1>10. ASSUME NEW w \in Isolated, NEW r \in Regions, NEW c \in Contents, Works(w, r, c)
         PROVE  TreesTyped'
    <2>1. wt[w] \in Tree
      BY <1>1, <1>10, Zenon DEF TreesTyped, Works, HasWorktree
    <2>2. [wt[w] EXCEPT ![r] = c] \in Tree
      BY <2>1, Zenon DEF Tree
    <2>. QED
      BY <1>1, <1>10, <2>2 DEF TreesTyped, Works
  <1>11. ASSUME NEW w \in Isolated, Ends(w) PROVE TreesTyped'
    BY <1>1, <1>11, Zenon DEF TreesTyped, Ends, Stages
  <1>12. ASSUME NEW w \in Isolated, EndsUncommitted(w) PROVE TreesTyped'
    BY <1>1, <1>12 DEF TreesTyped, EndsUncommitted, Stages
  <1>13. ASSUME NEW w \in Isolated, Applies(w) PROVE TreesTyped'
    <2>1. branch[w] \in Tree
      BY <1>1, <1>13, Zenon DEF Applies, HasCopy
    <2>2. checkout' \in Tree
      BY <1>1, <1>13, <2>1, Zenon DEF TreesTyped, Applies, Tree
    <2>. QED
      BY <1>1, <1>13, <2>2, Zenon DEF TreesTyped, Applies, Stages
  <1>14. ASSUME NEW w \in Isolated, Removes(w) PROVE TreesTyped'
    BY <1>1, <1>14, Zenon DEF TreesTyped, Removes, Stages
  <1>. QED
    BY <1>2, <1>3, <1>4, <1>5, <1>6, <1>7, <1>8, <1>9, <1>10, <1>11, <1>12, <1>13, <1>14, Zenon
       DEF TreesNext

(* A step keeps every worker sound: its own steps, and those of others,     *)
(* which do not touch its variables.                                        *)
LEMMA SoundKept ==
    ASSUME TreesInv, [TreesNext]_treeVars, NEW v \in Isolated
    PROVE  Sound(v)'
  <1>1. TreesTyped /\ Sound(v)
    BY Zenon DEF TreesInv
  <1>. USE TreesAssumption, NoTreeIsNone
       DEF Sound, HasWorktree, HasCopy, CopyShows, BaseShows, BranchIs, ResultKnown
  <1>2. CASE UNCHANGED treeVars
    BY <1>1, <1>2, Zenon DEF treeVars
  <1>3. ASSUME NEW r \in Regions, NEW c \in Contents \cup {Gone}, Edits(r, c)
        PROVE  Sound(v)'
    BY <1>1, <1>3, Zenon DEF Edits
  <1>4. CASE Restarts
    BY <1>1, <1>4, Zenon DEF TreesTyped, Restarts, Stages
  <1>5. ASSUME NEW w \in Isolated, AddsWorktree(w) PROVE Sound(v)'
    BY <1>1, <1>5 DEF TreesTyped, AddsWorktree
  <1>6. ASSUME NEW w \in Isolated, NEW r \in Regions, Copies(w, r) PROVE Sound(v)'
    <2>1. CASE v # w
      BY <1>1, <1>6, <2>1, Zenon DEF TreesTyped, Copies
    <2>2. CASE v = w
      <3>1. wt[w] \in Tree /\ ours[w] \in Tree
        BY <1>1, <1>6, <2>2, Zenon DEF TreesTyped, Copies
      <3>2. wt'[w] = [wt[w] EXCEPT ![r] = IF checkout[r] = Gone THEN @ ELSE checkout[r]]
        BY <1>1, <1>6, Zenon DEF TreesTyped, Copies
      <3>3. ours'[w] = [ours[w] EXCEPT ![r] = checkout[r]]
        BY <1>1, <1>6, Zenon DEF TreesTyped, Copies
      <3>4. wt'[w] \in Tree /\ ours'[w] \in Tree
        BY <1>1, <3>1, <3>2, <3>3 DEF TreesTyped, Tree
      <3>5. stage'[w] = "copying" /\ todo'[w] = todo[w] \ {r}
        BY <1>1, <1>6, Zenon DEF TreesTyped, Copies
      <3>6. ASSUME NEW q \in Regions \ todo'[w], ours'[w][q] # Gone
            PROVE  wt'[w][q] = ours'[w][q]
        BY <1>1, <1>6, <2>2, <3>1, <3>2, <3>3, <3>5, <3>6 DEF Copies, Tree
      <3>. QED
        BY <2>2, <3>4, <3>5, <3>6, Zenon
    <2>. QED
      BY <2>1, <2>2, Zenon
  <1>7. ASSUME NEW w \in Isolated, WalkStops(w) PROVE Sound(v)'
    <2>1. CASE v # w
      BY <1>1, <1>7, <2>1, Zenon DEF TreesTyped, WalkStops
    <2>2. CASE v = w
      <3>1. ours'[w] = [r \in Regions |-> IF r \in todo[w] THEN Gone ELSE ours[w][r]]
        BY <1>1, <1>7, Zenon DEF TreesTyped, WalkStops
      <3>2. ours'[w] \in Tree
        BY <1>1, <1>7, <2>2, <3>1 DEF WalkStops, Tree
      <3>. QED
        BY <1>1, <1>7, <2>2, <3>1, <3>2, Zenon DEF TreesTyped, WalkStops
    <2>. QED
      BY <2>1, <2>2, Zenon
  <1>8. ASSUME NEW w \in Isolated, CommitsBase(w) PROVE Sound(v)'
    BY <1>1, <1>8, Zenon DEF TreesTyped, CommitsBase, BaseOf
  <1>9. ASSUME NEW w \in Isolated, SpawnFails(w) PROVE Sound(v)'
    BY <1>1, <1>9, Zenon DEF TreesTyped, SpawnFails
  <1>10. ASSUME NEW w \in Isolated, NEW r \in Regions, NEW c \in Contents, Works(w, r, c)
         PROVE  Sound(v)'
    <2>1. CASE v # w
      BY <1>1, <1>10, <2>1, Zenon DEF TreesTyped, Works
    <2>2. CASE v = w
      <3>1. wt[w] \in Tree
        BY <1>1, <1>10, <2>2, Zenon DEF TreesTyped, Works
      <3>2. wt'[w] \in Tree
        BY <1>1, <1>10, <3>1, Zenon DEF TreesTyped, Works, Tree
      <3>. QED
        BY <1>1, <1>10, <2>2, <3>2, Zenon DEF TreesTyped, Works
    <2>. QED
      BY <2>1, <2>2, Zenon
  <1>11. ASSUME NEW w \in Isolated, Ends(w) PROVE Sound(v)'
    BY <1>1, <1>11, Zenon DEF TreesTyped, Ends
  <1>12. ASSUME NEW w \in Isolated, EndsUncommitted(w) PROVE Sound(v)'
    BY <1>1, <1>12, Zenon DEF TreesTyped, EndsUncommitted
  <1>13. ASSUME NEW w \in Isolated, Applies(w) PROVE Sound(v)'
    BY <1>1, <1>13, Zenon DEF TreesTyped, Applies
  <1>14. ASSUME NEW w \in Isolated, Removes(w) PROVE Sound(v)'
    BY <1>1, <1>14, Zenon DEF TreesTyped, Removes
  <1>. QED
    BY <1>2, <1>3, <1>4, <1>5, <1>6, <1>7, <1>8, <1>9, <1>10, <1>11, <1>12, <1>13, <1>14, Zenon
       DEF TreesNext

(* The worktrees are sound in every reachable state. *)
THEOREM TreesSound == TreesSpec => []TreesInv
  <1>1. TreesInv /\ [TreesNext]_treeVars => TreesInv'
    <2> SUFFICES ASSUME TreesInv, [TreesNext]_treeVars PROVE TreesInv'
      BY Zenon
    <2>1. TreesTyped'
      BY TreesTypedKept, Zenon
    <2>2. ASSUME NEW v \in Isolated PROVE Sound(v)'
      BY <2>2, SoundKept, Zenon
    <2>. QED
      BY <2>1, <2>2, Zenon DEF TreesInv
  <1>. QED
    BY <1>1, TreesInitially, PTL DEF TreesSpec

-----------------------------------------------------------------------------
(* A worker's stage moves to "applied" and to "removed" only in these steps.*)
LEMMA WhoApplies ==
    ASSUME TreesInv, TreesNext, NEW w \in Isolated,
           stage[w] = "committed", stage'[w] = "applied"
    PROVE  Applies(w)
  <1>1. stage \in [Isolated -> Stages]
    BY Zenon DEF TreesInv, TreesTyped
  <1>2. ASSUME NEW r \in Regions, NEW c \in Contents \cup {Gone}, Edits(r, c) PROVE Applies(w)
    BY <1>2, Zenon DEF Edits
  <1>3. CASE Restarts
    BY <1>1, <1>3, Zenon DEF Restarts
  <1>4. ASSUME NEW v \in Isolated,
               \/ AddsWorktree(v) \/ WalkStops(v) \/ CommitsBase(v) \/ SpawnFails(v)
               \/ Ends(v) \/ EndsUncommitted(v) \/ Removes(v)
        PROVE  Applies(w)
    BY <1>1, <1>4, Zenon DEF AddsWorktree, WalkStops, CommitsBase, SpawnFails, Ends, EndsUncommitted, Removes
  <1>5. ASSUME NEW v \in Isolated, Applies(v) PROVE Applies(w)
    BY <1>1, <1>5, Zenon DEF Applies
  <1>6. ASSUME NEW v \in Isolated, NEW r \in Regions, Copies(v, r) PROVE Applies(w)
    BY <1>1, <1>6, Zenon DEF Copies
  <1>7. ASSUME NEW v \in Isolated, NEW r \in Regions, NEW c \in Contents, Works(v, r, c)
        PROVE  Applies(w)
    BY <1>1, <1>7, Zenon DEF Works
  <1>. QED
    BY <1>2, <1>3, <1>4, <1>5, <1>6, <1>7, Zenon DEF TreesNext

(* Only Removes takes a worker from applied to removed. *)
LEMMA WhoRemoves ==
    ASSUME TreesInv, TreesNext, NEW w \in Isolated,
           stage[w] = "applied", stage'[w] = "removed"
    PROVE  Removes(w)
  <1>1. stage \in [Isolated -> Stages]
    BY Zenon DEF TreesInv, TreesTyped
  <1>2. ASSUME NEW r \in Regions, NEW c \in Contents \cup {Gone}, Edits(r, c) PROVE Removes(w)
    BY <1>2, Zenon DEF Edits
  <1>3. CASE Restarts
    BY <1>1, <1>3, Zenon DEF Restarts
  <1>4. ASSUME NEW v \in Isolated,
               \/ AddsWorktree(v) \/ WalkStops(v) \/ CommitsBase(v) \/ SpawnFails(v)
               \/ Ends(v) \/ EndsUncommitted(v) \/ Applies(v)
        PROVE  Removes(w)
    BY <1>1, <1>4, Zenon DEF AddsWorktree, WalkStops, CommitsBase, SpawnFails, Ends, EndsUncommitted, Applies
  <1>5. ASSUME NEW v \in Isolated, Removes(v) PROVE Removes(w)
    BY <1>1, <1>5, Zenon DEF Removes
  <1>6. ASSUME NEW v \in Isolated, NEW r \in Regions, Copies(v, r) PROVE Removes(w)
    BY <1>1, <1>6, Zenon DEF Copies
  <1>7. ASSUME NEW v \in Isolated, NEW r \in Regions, NEW c \in Contents, Works(v, r, c)
        PROVE  Removes(w)
    BY <1>1, <1>7, Zenon DEF Works
  <1>. QED
    BY <1>2, <1>3, <1>4, <1>5, <1>6, <1>7, Zenon DEF TreesNext

(* No work is lost when a worktree is removed (finalizeIsolatedJob): it is  *)
(* merged or its branch stays.                                              *)
THEOREM WorkIsKept == TreesSpec => NoLostWork
  <1>1. ASSUME TreesInv, TreesNext, NEW w \in Isolated,
               stage[w] = "applied", stage'[w] = "removed", branch[w] = wt[w]
        PROVE  merged[w] = "yes" \/ branch'[w] = wt[w]
    <2>1. Removes(w)
      BY <1>1, WhoRemoves, Zenon
    <2>2. merged[w] \in {"yes", "no"}
      BY <1>1, Zenon DEF TreesInv, Sound, ResultKnown
    <2>. QED
      BY <1>1, <2>1, <2>2, Zenon DEF Removes, KeepsBranch
  <1>2. TreesInv /\ [TreesNext]_treeVars =>
          [\A w \in Isolated :
              stage[w] = "applied" /\ stage'[w] = "removed" /\ branch[w] = wt[w] =>
                 merged[w] = "yes" \/ branch'[w] = wt[w]]_treeVars
    BY <1>1, Zenon
  <1>. QED
    BY <1>2, TreesSound, PTL DEF TreesSpec, NoLostWork

(* A merge takes only what the checkout still holds as the worker saw it,   *)
(* and is refused only for a real conflict (finalizeIsolatedJob).           *)
THEOREM MergesRespectCheckout == TreesSpec => CheckoutRespected
  <1>1. ASSUME TreesInv, TreesNext, NEW w \in Isolated,
               stage[w] = "committed", stage'[w] = "applied"
        PROVE  /\ Applies(w) /\ checkout \in Tree /\ base[w] \in Tree /\ Sound(w)
               /\ merged'[w] = IF Applicable(w) THEN "yes" ELSE "no"
    <2>1. Applies(w)
      BY <1>1, WhoApplies, Zenon
    <2>2. TreesTyped /\ Sound(w)
      BY <1>1, Zenon DEF TreesInv
    <2>3. checkout \in Tree /\ base[w] \in Tree
      BY <1>1, <2>2, Zenon DEF TreesTyped, Sound, HasCopy
    <2>4. merged'[w] = IF Applicable(w) THEN "yes" ELSE "no"
      BY <2>1, <2>2, Zenon DEF TreesTyped, Applies
    <2>. QED
      BY <2>1, <2>2, <2>3, <2>4, Zenon
  <1>2. ASSUME TreesInv, TreesNext, NEW w \in Isolated,
               stage[w] = "committed", stage'[w] = "applied", merged'[w] = "no"
        PROVE  /\ checkout' = checkout
               /\ \E r \in Regions :
                     /\ branch[w][r] # base[w][r]
                     /\ ours[w][r] = Gone \/ checkout[r] # ours[w][r]
    <2>1. ~Applicable(w) /\ Applies(w) /\ Sound(w)
      BY <1>1, <1>2, Zenon
    <2>2. PICK r \in Changed(w) : checkout[r] # base[w][r]
      BY <2>1, Zenon DEF Applicable
    <2>3. r \in Regions /\ branch[w][r] # base[w][r]
      BY <2>2, Zenon DEF Changed
    <2>4. ours[w][r] # Gone => base[w][r] = ours[w][r]
      BY <1>2, <2>1, <2>3, Zenon DEF Sound, BaseShows
    <2>5. checkout' = checkout
      BY <2>1, Zenon DEF Applies
    <2>. QED
      BY <2>2, <2>3, <2>4, <2>5, Zenon
  <1>3. ASSUME TreesInv, TreesNext, NEW w \in Isolated,
               stage[w] = "committed", stage'[w] = "applied",
               NEW r \in Regions, checkout'[r] # checkout[r]
        PROVE  checkout[r] = base[w][r] /\ checkout'[r] = wt[w][r]
    <2>1. Applies(w) /\ Sound(w)
      BY <1>1, <1>3, Zenon
    <2>2. Applicable(w) /\ r \in Changed(w) /\ checkout'[r] = branch[w][r]
      BY <1>3, <2>1, Zenon DEF Applies
    <2>3. branch[w][r] # base[w][r] /\ checkout[r] = base[w][r]
      BY <2>2, Zenon DEF Applicable, Changed
    <2>4. branch[w] = wt[w]
      BY <1>3, <2>1, <2>3, Zenon DEF Sound, BranchIs
    <2>. QED
      BY <2>2, <2>3, <2>4, Zenon
  <1>4. TreesInv /\ [TreesNext]_treeVars => [ConflictIsReal /\ MergeKeepsCheckout]_treeVars
    BY <1>2, <1>3, Zenon DEF ConflictIsReal, MergeKeepsCheckout
  <1>. QED
    BY <1>4, TreesSound, PTL DEF TreesSpec, CheckoutRespected

-----------------------------------------------------------------------------
(* That trees in memory stay trees, and that a merge is all or nothing, for *)
(* every set of workers, of names and of paths and any number of changes.   *)
(*                                                                          *)
(* The merge is the step that needs the argument.  It puts paths of the     *)
(* worker's tree into the parent's: a path and the directory that holds it  *)
(* may come from different trees.  Conflicts makes that harmless, since it  *)
(* takes a change of a directory and one of a path inside it for a conflict *)
(* (MergeClosed).  The invariant says of the copy, and of the worker's tree *)
(* as finish read it, what it says of the trees.                            *)
Closed(t) ==
    /\ DOMAIN t \subseteq AllPaths
    /\ \A p \in DOMAIN t : IsDir(t, DirOf(p))

VfsInv ==
    /\ tree = [o \in Holders |-> tree[o]] /\ \A o \in Holders : Closed(tree[o])
    /\ copied = [j \in Jobs |-> copied[j]] /\ \A j \in Jobs : Closed(copied[j])
    /\ ended = [j \in Jobs |-> ended[j]] /\ \A j \in Jobs : Closed(ended[j])
    /\ parent \in [Jobs -> Holders]
    /\ phase \in [Holders -> {"none", "working", "read", "merged", "kept"}]
    /\ changes \in [Holders -> 0 .. MaxChanges]
    /\ \A j \in Jobs : phase[j] # "read" => ended[j] = EmptyTree

-----------------------------------------------------------------------------
(* Paths *)

(* A path is a sequence of names. *)
LEMMA PathIsSeq ==
    ASSUME NEW p \in AllPaths
    PROVE  p \in Seq(Names) /\ Len(p) \in 1 .. Depth
  <1>1. PICK n \in 1 .. Depth : p \in [1 .. n -> Names]
    BY Zenon DEF AllPaths
  <1>. QED
    BY <1>1, VfsAssumption

(* A short sequence of names is a path. *)
LEMMA SeqIsPath ==
    ASSUME NEW p \in Seq(Names), Len(p) \in 1 .. Depth
    PROVE  p \in AllPaths
  <1>1. p \in [1 .. Len(p) -> Names]
    OBVIOUS
  <1>. QED
    BY <1>1, Zenon DEF AllPaths

(* The elements of a prefix. *)
LEMMA PrefixOf ==
    ASSUME NEW p \in Seq(Names), NEW n \in 0 .. Len(p)
    PROVE  /\ SubSeq(p, 1, n) \in Seq(Names) /\ Len(SubSeq(p, 1, n)) = n
           /\ \A i \in 1 .. n : SubSeq(p, 1, n)[i] = p[i]
  OBVIOUS

(* The directory of a path below the root is a path. *)
LEMMA DirOfPath ==
    ASSUME NEW p \in AllPaths
    PROVE  /\ DirOf(p) \in Seq(Names) /\ Len(DirOf(p)) = Len(p) - 1
           /\ \A i \in 1 .. Len(p) - 1 : DirOf(p)[i] = p[i]
  <1>1. p \in Seq(Names) /\ Len(p) \in 1 .. Depth
    BY PathIsSeq, Zenon
  <1>2. Len(p) - 1 \in 0 .. Len(p)
    BY <1>1, VfsAssumption
  <1>. QED
    BY <1>1, <1>2, PrefixOf, Zenon DEF DirOf

(* Sequences are equal when they agree everywhere. *)
LEMMA SameSeq ==
    ASSUME NEW p \in Seq(Names), NEW q \in Seq(Names), Len(p) = Len(q),
           \A i \in 1 .. Len(p) : p[i] = q[i]
    PROVE  p = q
  OBVIOUS

(* A path is inside the directory that holds it ... *)
LEMMA InsideDir ==
    ASSUME NEW p \in AllPaths
    PROVE  Inside(p, DirOf(p))
  <1>1. p \in Seq(Names) /\ Len(p) \in Nat /\ Len(p) >= 1
    BY PathIsSeq, VfsAssumption
  <1>2. Len(DirOf(p)) = Len(p) - 1
    BY DirOfPath, Zenon
  <1>. QED
    BY <1>1, <1>2 DEF Inside, DirOf

(* ... and inside what that directory is inside of. *)
LEMMA InsideOuter ==
    ASSUME NEW q \in AllPaths, NEW p \in AllPaths, Inside(DirOf(q), p)
    PROVE  Inside(q, p)
  <1>1. p \in Seq(Names) /\ q \in Seq(Names) /\ DirOf(q) \in Seq(Names)
    BY PathIsSeq, DirOfPath, Zenon
  <1>2. Len(p) < Len(q) - 1 /\ Len(DirOf(q)) = Len(q) - 1 /\ Len(p) \in Nat /\ Len(q) \in Nat
    BY <1>1, DirOfPath DEF Inside
  <1>3. SubSeq(DirOf(q), 1, Len(p)) = p
    BY Zenon DEF Inside
  <1>f. \A k \in 1 .. (Len(q) - 1) : DirOf(q)[k] = q[k]
    BY DirOfPath, Zenon
  <1>4. ASSUME NEW i \in 1 .. Len(p) PROVE SubSeq(q, 1, Len(p))[i] = p[i]
    <2>1. SubSeq(q, 1, Len(p))[i] = q[i]
      BY <1>1, <1>2, PrefixOf
    <2>2. SubSeq(DirOf(q), 1, Len(p))[i] = DirOf(q)[i]
      BY <1>1, <1>2, PrefixOf
    <2>3. i \in 1 .. (Len(q) - 1)
      BY <1>2
    <2>4. DirOf(q)[i] = q[i]
      BY <1>f, <2>3, Zenon
    <2>. QED
      BY <1>3, <2>1, <2>2, <2>4, Zenon
  <1>5. SubSeq(q, 1, Len(p)) \in Seq(Names) /\ Len(SubSeq(q, 1, Len(p))) = Len(p)
    BY <1>1, <1>2, PrefixOf
  <1>6. SubSeq(q, 1, Len(p)) = p
    BY <1>1, <1>4, <1>5, SameSeq, Zenon
  <1>. QED
    BY <1>2, <1>6 DEF Inside

-----------------------------------------------------------------------------
(* The operations on one tree *)

(* Writing into a directory keeps a tree closed. *)
LEMMA PutClosed ==
    ASSUME NEW t, Closed(t), NEW p \in AllPaths, NEW e,
           IsDir(t, DirOf(p)), ~IsDir(t, p)
    PROVE  Closed(Put(t, p, e))
  <1>1. ASSUME NEW q \in DOMAIN t \cup {p} PROVE IsDir(Put(t, p, e), DirOf(q))
    <2>1. IsDir(t, DirOf(q))
      BY <1>1, Zenon DEF Closed
    <2>2. DirOf(q) # p
      BY <2>1, Zenon
    <2>. QED
      BY <2>1, <2>2, Zenon DEF IsDir, Put
  <1>. QED
    BY <1>1, Zenon DEF Closed, Put

(* Removing what no entry is inside of keeps a tree closed. *)
LEMMA RemoveClosed ==
    ASSUME NEW t, Closed(t), NEW S \in SUBSET (DOMAIN t),
           \A q \in S : DirOf(q) \in S \/ DirOf(q) = <<>>
    PROVE  Closed(Only(t, S))
  <1>1. ASSUME NEW q \in S PROVE IsDir(Only(t, S), DirOf(q))
    <2>1. IsDir(t, DirOf(q))
      BY <1>1, Zenon DEF Closed
    <2>. QED
      BY <2>1, Zenon DEF IsDir, Only
  <1>. QED
    BY <1>1, Zenon DEF Closed, Only

(* Remove keeps a tree closed. *)
LEMMA RemoveEntryClosed ==
    ASSUME NEW t, Closed(t), NEW p \in DOMAIN t,
           IsDir(t, p) => \A q \in DOMAIN t : DirOf(q) # p
    PROVE  Closed(Only(t, DOMAIN t \ {p}))
  <1>1. ASSUME NEW q \in DOMAIN t \ {p}
        PROVE  DirOf(q) \in DOMAIN t \ {p} \/ DirOf(q) = <<>>
    <2>1. IsDir(t, DirOf(q))
      BY Zenon DEF Closed
    <2>. QED
      BY <2>1, Zenon DEF IsDir
  <1>. QED
    BY <1>1, RemoveClosed, Zenon

(* RemoveAll keeps a tree closed. *)
LEMMA RemoveAllClosed ==
    ASSUME NEW t, Closed(t), NEW p \in AllPaths
    PROVE  Closed(Only(t, {q \in DOMAIN t : q # p /\ ~Inside(q, p)}))
  <1>. DEFINE S == {q \in DOMAIN t : q # p /\ ~Inside(q, p)}
  <1>1. ASSUME NEW q \in S PROVE DirOf(q) \in S \/ DirOf(q) = <<>>
    <2>1. q \in AllPaths /\ IsDir(t, DirOf(q))
      BY Zenon DEF Closed
    <2>2. DirOf(q) # p
      BY <2>1, InsideDir, Zenon
    <2>3. ~Inside(DirOf(q), p)
      BY <2>1, InsideOuter, Zenon
    <2>. QED
      BY <2>1, <2>2, <2>3, Zenon DEF IsDir
  <1>. QED
    BY <1>1, RemoveClosed, Zenon

(* MkdirAll keeps a tree closed. *)
LEMMA MkdirClosed ==
    ASSUME NEW t, Closed(t), NEW p \in AllPaths, NEW made,
           made \subseteq {SubSeq(p, 1, n) : n \in 1 .. Len(p)},
           \A n \in 1 .. Len(p) : SubSeq(p, 1, n) \in made =>
              \A k \in 1 .. n : SubSeq(p, 1, k) \in made
                                /\ (SubSeq(p, 1, k) \in DOMAIN t => t[SubSeq(p, 1, k)] = Dir)
    PROVE  Closed([q \in DOMAIN t \cup made |-> IF q \in DOMAIN t THEN t[q] ELSE Dir])
  <1>. DEFINE T == [q \in DOMAIN t \cup made |-> IF q \in DOMAIN t THEN t[q] ELSE Dir]
  <1>1. p \in Seq(Names) /\ Len(p) \in 1 .. Depth
    BY PathIsSeq, Zenon
  <1>2. ASSUME NEW n \in 1 .. Len(p)
        PROVE  /\ SubSeq(p, 1, n) \in AllPaths
               /\ DirOf(SubSeq(p, 1, n)) = SubSeq(p, 1, n - 1)
    <2>1. SubSeq(p, 1, n) \in Seq(Names) /\ Len(SubSeq(p, 1, n)) = n
      BY <1>1, PrefixOf, VfsAssumption
    <2>2. SubSeq(p, 1, n) \in AllPaths
      <3>1. Len(SubSeq(p, 1, n)) \in 1 .. Depth
        BY <1>1, <2>1, VfsAssumption
      <3>. QED
        BY <2>1, <3>1, SeqIsPath, Zenon
    <2>3. SubSeq(p, 1, n - 1) \in Seq(Names) /\ Len(SubSeq(p, 1, n - 1)) = n - 1
      BY <1>1, PrefixOf, VfsAssumption
    <2>4. DirOf(SubSeq(p, 1, n)) \in Seq(Names) /\ Len(DirOf(SubSeq(p, 1, n))) = n - 1
      BY <2>1, <2>2, DirOfPath, Zenon
    <2>5. ASSUME NEW i \in 1 .. n - 1
          PROVE  DirOf(SubSeq(p, 1, n))[i] = SubSeq(p, 1, n - 1)[i]
      <3>1. DirOf(SubSeq(p, 1, n))[i] = SubSeq(p, 1, n)[i]
        BY <2>1, <2>2, DirOfPath, Zenon
      <3>2. SubSeq(p, 1, n)[i] = p[i] /\ SubSeq(p, 1, n - 1)[i] = p[i]
        BY <1>1, PrefixOf, VfsAssumption
      <3>. QED
        BY <3>1, <3>2, Zenon
    <2>6. DirOf(SubSeq(p, 1, n)) = SubSeq(p, 1, n - 1)
      BY <2>3, <2>4, <2>5, SameSeq, Zenon
    <2>. QED
      BY <2>2, <2>6, Zenon
  <1>3. DOMAIN T \subseteq AllPaths
    BY <1>2, Zenon DEF Closed
  <1>4. ASSUME NEW q \in DOMAIN T PROVE IsDir(T, DirOf(q))
    <2>1. CASE q \in DOMAIN t
      BY <2>1, Zenon DEF Closed, IsDir
    <2>2. CASE q \notin DOMAIN t
      <3>1. PICK n \in 1 .. Len(p) : q = SubSeq(p, 1, n) /\ q \in made
        BY <1>4, <2>2, Zenon
      <3>2. DirOf(q) = SubSeq(p, 1, n - 1)
        BY <1>2, <3>1, Zenon
      <3>3. CASE n = 1
        BY <1>1, <3>2, <3>3 DEF IsDir
      <3>4. CASE n # 1
        <4>1. n - 1 \in 1 .. n
          BY <1>1, <3>4, VfsAssumption
        <4>2. DirOf(q) \in made /\ (DirOf(q) \in DOMAIN t => t[DirOf(q)] = Dir)
          BY <3>1, <3>2, <4>1, Zenon
        <4>. QED
          BY <4>2, Zenon DEF IsDir
      <3>. QED
        BY <3>3, <3>4, Zenon
    <2>. QED
      BY <2>1, <2>2, Zenon
  <1>. QED
    BY <1>3, <1>4, Zenon DEF Closed

-----------------------------------------------------------------------------
(* The merge *)

(* Where nothing conflicts, the trees agree with the copy around every      *)
(* change of the other.                                                     *)
LEMMA NoConflict ==
    ASSUME NEW changed, NEW other, Conflicts(changed, other) = {},
           NEW p \in changed, NEW q \in other
    PROVE  p # q /\ ~Inside(p, q) /\ ~Inside(q, p)
  BY Zenon DEF Conflicts

(* Where a path is unchanged the two trees agree on it. *)
LEMMA Agrees ==
    ASSUME NEW c, NEW t, NEW p, p \notin changedPaths(c, t)
    PROVE  (p \in DOMAIN c <=> p \in DOMAIN t) /\ (p \in DOMAIN c => c[p] = t[p])
  BY Zenon DEF changedPaths

(* A merge without conflicts keeps a tree closed. *)
LEMMA MergeClosed ==
    ASSUME NEW c, NEW e, NEW t, Closed(c), Closed(e), Closed(t),
           Conflicts(changedPaths(c, e), changedPaths(c, t)) = {}
    PROVE  Closed(MergedTree(t, e, changedPaths(c, e), {}))
  <1>. DEFINE mine == changedPaths(c, e)
              own == changedPaths(c, t)
              m == MergedTree(t, e, mine, {})
  <1>1. m = [p \in (DOMAIN t \ mine) \cup (DOMAIN e \cap mine) |->
                IF p \in mine THEN e[p] ELSE t[p]]
    BY Zenon DEF MergedTree
  <1>2. DOMAIN m \subseteq AllPaths
    BY <1>1, Zenon DEF Closed
  <1>3. ASSUME NEW p \in DOMAIN m, DirOf(p) # <<>>
        PROVE  DirOf(p) \in DOMAIN m /\ m[DirOf(p)] = Dir
    <2>. DEFINE f == DirOf(p)
    <2>1. Inside(p, f)
      BY <1>2, InsideDir, Zenon
    <2>2. CASE p \in mine
      <3>1. p \in DOMAIN e
        BY <1>1, <2>2, Zenon
      <3>2. f \in DOMAIN e /\ e[f] = Dir
        BY <1>3, <3>1, Zenon DEF Closed, IsDir
      <3>3. CASE f \in mine
        BY <1>1, <3>2, <3>3, Zenon
      <3>4. CASE f \notin mine
        <4>1. f \notin own
          BY <2>1, <2>2, NoConflict, Zenon
        <4>2. f \in DOMAIN c /\ c[f] = Dir
          BY <3>2, <3>4, Agrees, Zenon
        <4>3. f \in DOMAIN t /\ t[f] = Dir
          BY <4>1, <4>2, Agrees
        <4>. QED
          BY <1>1, <3>4, <4>3, Zenon
      <3>. QED
        BY <3>3, <3>4, Zenon
    <2>3. CASE p \notin mine
      <3>1. p \in DOMAIN t
        BY <1>1, <2>3, Zenon
      <3>2. f \in DOMAIN t /\ t[f] = Dir
        BY <1>3, <3>1, Zenon DEF Closed, IsDir
      <3>3. CASE f \notin mine
        BY <1>1, <3>2, <3>3, Zenon
      <3>4. CASE f \in mine
        <4>1. p \notin own
          BY <2>1, <3>4, NoConflict, Zenon
        <4>2. p \in DOMAIN e
          BY <2>3, <3>1, <4>1, Agrees, Zenon
        <4>3. f \in DOMAIN e /\ e[f] = Dir
          BY <1>3, <4>2, Zenon DEF Closed, IsDir
        <4>. QED
          BY <1>1, <3>4, <4>3, Zenon
      <3>. QED
        BY <3>3, <3>4, Zenon
    <2>. QED
      BY <2>2, <2>3, Zenon
  <1>. QED
    BY <1>2, <1>3, Zenon DEF Closed, IsDir

(* What a merge without conflicts changes is what the worker changed.       *)
LEMMA MergeChanges ==
    ASSUME NEW c, NEW e, NEW t,
           Conflicts(changedPaths(c, e), changedPaths(c, t)) = {}
    PROVE  /\ changedPaths(t, MergedTree(t, e, changedPaths(c, e), {})) = changedPaths(c, e)
           /\ changedPaths(c, e) \cap changedPaths(c, t) = {}
  <1>. DEFINE mine == changedPaths(c, e)
              own == changedPaths(c, t)
              m == MergedTree(t, e, mine, {})
  <1>1. m = [p \in (DOMAIN t \ mine) \cup (DOMAIN e \cap mine) |->
                IF p \in mine THEN e[p] ELSE t[p]]
    BY Zenon DEF MergedTree
  <1>2. mine \cap own = {}
    BY NoConflict, Zenon
  <1>3. ASSUME NEW p \in mine PROVE p \in changedPaths(t, m)
    <2>1. (p \in DOMAIN c <=> p \in DOMAIN t) /\ (p \in DOMAIN c => c[p] = t[p])
      BY <1>2, Agrees, Zenon
    <2>2. \/ p \in DOMAIN c /\ (p \notin DOMAIN e \/ c[p] # e[p])
          \/ p \in DOMAIN e /\ p \notin DOMAIN c
      BY Zenon DEF changedPaths
    <2>3. (p \in DOMAIN m <=> p \in DOMAIN e) /\ (p \in DOMAIN m => m[p] = e[p])
      BY <1>1, Zenon
    <2>. QED
      BY <2>1, <2>2, <2>3, Zenon DEF changedPaths
  <1>4. ASSUME NEW p \in changedPaths(t, m), p \notin mine PROVE FALSE
    <2>1. (p \in DOMAIN m <=> p \in DOMAIN t) /\ (p \in DOMAIN m => m[p] = t[p])
      BY <1>1, <1>4, Zenon
    <2>. QED
      BY <1>4, <2>1, Zenon DEF changedPaths
  <1>. QED
    BY <1>2, <1>3, <1>4, Zenon

-----------------------------------------------------------------------------
(* The invariant holds before the first operation. *)
LEMMA VfsInitially == VfsInit => VfsInv
  <1> SUFFICES ASSUME VfsInit PROVE VfsInv
    BY Zenon
  <1>1. Closed(EmptyTree)
    BY Zenon DEF Closed, EmptyTree
  <1>2. ASSUME NEW t \in FirstTrees PROVE Closed(t)
    BY VfsAssumption, Zenon DEF Closed
  <1>3. PICK t \in FirstTrees :
          tree = [o \in Holders |-> IF o = Owner THEN t ELSE EmptyTree]
    BY Zenon DEF VfsInit
  <1>4. tree = [o \in Holders |-> tree[o]] /\ \A o \in Holders : Closed(tree[o])
    BY <1>1, <1>2, <1>3, Zenon
  <1>5. Owner \in Holders
    BY Zenon DEF Holders
  <1>. QED
    BY <1>1, <1>4, <1>5, VfsAssumption DEF VfsInit, VfsInv

(* A holder's own change leaves trees where the new tree is one.            *)
LEMMA ChangesKeep ==
    ASSUME VfsInv, NEW o \in Holders, NEW t, Closed(t), Changes(o, t)
    PROVE  VfsInv'
  <1>1. tree' = [h \in Holders |-> IF h = o THEN t ELSE tree[h]]
    BY Zenon DEF VfsInv, Changes
  <1>2. tree' = [h \in Holders |-> tree'[h]] /\ \A h \in Holders : Closed(tree'[h])
    BY <1>1, Zenon DEF VfsInv
  <1>3. changes' \in [Holders -> 0 .. MaxChanges]
    BY VfsAssumption DEF VfsInv, Changes
  <1>. QED
    BY <1>2, <1>3, Zenon DEF VfsInv, Changes

(* An operation on a tree keeps it. *)
LEMMA OperatesKeep ==
    ASSUME VfsInv, NEW o \in Holders, Operates(o)
    PROVE  VfsInv'
  <1>1. Closed(tree[o])
    BY Zenon DEF VfsInv
  <1>2. PICK p \in AllPaths : \/ \E d \in Data : WriteFile(o, p, d)
                              \/ MkdirAll(o, p) \/ RemoveEntry(o, p) \/ RemoveAll(o, p)
    BY Zenon DEF Operates
  <1>3. ASSUME NEW d \in Data, WriteFile(o, p, d) PROVE VfsInv'
    BY <1>1, <1>3, PutClosed, ChangesKeep, Zenon DEF WriteFile
  <1>4. CASE MkdirAll(o, p)
    <2>. DEFINE t == tree[o]
                Made(n) == SubSeq(p, 1, n)
                stop == {n \in 1 .. Len(p) : Made(n) \in DOMAIN t /\ t[Made(n)] # Dir}
                made == {Made(n) : n \in {k \in 1 .. Len(p) : \A s \in stop : k < s}}
                T == [q \in DOMAIN t \cup made |-> IF q \in DOMAIN t THEN t[q] ELSE Dir]
    <2>1. Changes(o, T)
      BY <1>4, Zenon DEF MkdirAll
    <2>2. p \in Seq(Names) /\ Len(p) \in Nat
      BY PathIsSeq
    <2>3. ASSUME NEW n \in 1 .. Len(p), Made(n) \in made, NEW k \in 1 .. n
          PROVE  Made(k) \in made /\ (Made(k) \in DOMAIN t => t[Made(k)] = Dir)
      <3>1. PICK i \in 1 .. Len(p) : Made(i) = Made(n) /\ \A s \in stop : i < s
        BY <2>3, Zenon
      <3>2. i = n
        <4>1. Len(Made(i)) = i /\ Len(Made(n)) = n
          BY <2>2, PrefixOf
        <4>. QED
          BY <3>1, <4>1, Zenon
      <3>3. k \in 1 .. Len(p) /\ k <= n
        BY <2>2
      <3>4. \A s \in stop : k < s
        BY <2>2, <3>1, <3>2, <3>3
      <3>5. k \notin stop
        BY <3>3, <3>4
      <3>. QED
        BY <3>3, <3>4, <3>5, Zenon
    <2>4. made \subseteq {SubSeq(p, 1, n) : n \in 1 .. Len(p)}
      BY Zenon
    <2>5. Closed(T)
      <3>. HIDE DEF made
      <3>. QED
        BY <1>1, <2>3, <2>4, MkdirClosed, Zenon
    <2>. HIDE DEF T
    <2>. QED
      BY <2>1, <2>5, ChangesKeep, Zenon
  <1>5. CASE RemoveEntry(o, p)
    BY <1>1, <1>5, RemoveEntryClosed, ChangesKeep, Zenon DEF RemoveEntry
  <1>6. CASE RemoveAll(o, p)
    BY <1>1, <1>6, RemoveAllClosed, ChangesKeep, Zenon DEF RemoveAll
  <1>. QED
    BY <1>2, <1>3, <1>4, <1>5, <1>6, Zenon

(* A merge keeps it. *)
LEMMA MergesKeep ==
    ASSUME VfsInv, NEW j \in Jobs, Merges(j)
    PROVE  VfsInv'
  <1>. DEFINE o == parent[j]
              mine == changedPaths(copied[j], ended[j])
              conflicting == Conflicts(mine, changedPaths(copied[j], tree[o]))
              m == MergedTree(tree[o], ended[j], mine, conflicting)
  <1>1. o \in Holders /\ j \in Holders /\ Closed(tree[o]) /\ Closed(copied[j]) /\ Closed(ended[j])
    BY Zenon DEF VfsInv, Holders
  <1>2. Closed(m)
    <2>1. CASE conflicting = {}
      BY <1>1, <2>1, MergeClosed, Zenon
    <2>2. CASE conflicting # {}
      BY <1>1, <2>2, Zenon DEF MergedTree
    <2>. QED
      BY <2>1, <2>2, Zenon
  <1>3. /\ tree' = [tree EXCEPT ![o] = m]
        /\ phase' = [phase EXCEPT ![j] = Outcome(conflicting)]
        /\ ended' = [ended EXCEPT ![j] = EmptyTree]
        /\ UNCHANGED <<parent, copied, marked, changes>>
    BY <1>1, Zenon DEF Merges, VfsInv
  <1>4. Outcome(conflicting) \in {"merged", "kept"}
    BY Zenon DEF Outcome
  <1>5. Closed(EmptyTree)
    BY Zenon DEF Closed, EmptyTree
  <1>. HIDE DEF o, mine, conflicting, m
  <1>6. tree' = [h \in Holders |-> tree'[h]] /\ \A h \in Holders : Closed(tree'[h])
    BY <1>1, <1>2, <1>3, Zenon DEF VfsInv
  <1>7. ended' = [k \in Jobs |-> ended'[k]] /\ \A k \in Jobs : Closed(ended'[k])
    BY <1>3, <1>5, Zenon DEF VfsInv
  <1>8. \A k \in Jobs : phase'[k] # "read" => ended'[k] = EmptyTree
    BY <1>1, <1>3, <1>4, Zenon DEF VfsInv, Holders
  <1>. QED
    BY <1>1, <1>3, <1>4, <1>6, <1>7, <1>8, Zenon DEF VfsInv

(* Every step keeps it. *)
LEMMA VfsStep ==
    ASSUME VfsInv, [VfsNext]_vfsVars
    PROVE  VfsInv'
  <1>1. CASE UNCHANGED vfsVars
    BY <1>1, Zenon DEF VfsInv, vfsVars
  <1>2. ASSUME NEW o \in Holders, Operates(o) PROVE VfsInv'
    BY <1>2, OperatesKeep, Zenon
  <1>3. ASSUME NEW o \in Holders, NEW j \in Jobs, Isolate(o, j) PROVE VfsInv'
    <2>1. j \in Holders
      BY Zenon DEF Holders
    <2>2. tree' = [h \in Holders |-> tree'[h]] /\ \A h \in Holders : Closed(tree'[h])
      BY <1>3, <2>1, Zenon DEF VfsInv, Isolate
    <2>3. copied' = [k \in Jobs |-> copied'[k]] /\ \A k \in Jobs : Closed(copied'[k])
      BY <1>3, Zenon DEF VfsInv, Isolate
    <2>4. \A k \in Jobs : phase'[k] # "read" => ended'[k] = EmptyTree
      BY <1>3, <2>1, Zenon DEF VfsInv, Isolate, Holders
    <2>. QED
      BY <1>3, <2>1, <2>2, <2>3, <2>4, Zenon DEF VfsInv, Isolate
  <1>4. CASE Mark
    BY <1>4, Zenon DEF VfsInv, Mark
  <1>5. ASSUME NEW j \in Jobs, Reads(j) PROVE VfsInv'
    <2>1. j \in Holders
      BY Zenon DEF Holders
    <2>2. ended' = [k \in Jobs |-> ended'[k]] /\ \A k \in Jobs : Closed(ended'[k])
      BY <1>5, <2>1, Zenon DEF VfsInv, Reads
    <2>3. \A k \in Jobs : phase'[k] # "read" => ended'[k] = EmptyTree
      BY <1>5, <2>1, Zenon DEF VfsInv, Reads, Holders
    <2>. QED
      BY <1>5, <2>1, <2>2, <2>3, Zenon DEF VfsInv, Reads
  <1>6. ASSUME NEW j \in Jobs, Merges(j) PROVE VfsInv'
    BY <1>6, MergesKeep, Zenon
  <1>. QED
    BY <1>1, <1>2, <1>3, <1>4, <1>5, <1>6, Zenon DEF VfsNext

(* The trees in memory are sound in every reachable state (memory.go). *)
THEOREM VfsSound == VfsSpec => []VfsInv
  <1>1. VfsInv /\ [VfsNext]_vfsVars => VfsInv'
    BY VfsStep, Zenon
  <1>. QED
    BY <1>1, VfsInitially, PTL DEF VfsSpec

(* Every tree in memory is a tree at every moment, merges of concurrent     *)
(* workers included (memory.go, merge).                                     *)
THEOREM TreesStayTrees == VfsSpec => [](VfsTypeOK /\ TreeClosed)
  <1>1. VfsInv => VfsTypeOK /\ TreeClosed
    BY Zenon DEF VfsInv, VfsTypeOK, TreeClosed, Closed
  <1>. QED
    BY <1>1, VfsSound, PTL

(* A merge is all or nothing: it changes exactly what the worker changed    *)
(* and nothing the parent changed meanwhile, or it changes nothing.         *)
THEOREM MergesAreWhole == VfsSpec => MergeIsWhole
  <1>. DEFINE Whole(j) ==
             LET o == parent[j]
                 own == changedPaths(copied[j], tree[o])
                 mine == changedPaths(copied[j], ended[j])
                 done == changedPaths(tree[o], tree'[o])
             IN  IF phase'[j] = "merged"
                 THEN done \cap own = {} /\ done = mine
                 ELSE done = {} /\ tree'[j] = tree[j]
  <1>1. ASSUME VfsInv, VfsNext, NEW j \in Jobs, phase[j] = "read", phase'[j] # "read"
        PROVE  Merges(j)
    <2>1. j \in Holders /\ j # Owner
      BY VfsAssumption, Zenon DEF Holders
    <2>2. ASSUME NEW o \in Holders, Operates(o) PROVE FALSE
      BY <1>1, <2>2, Zenon DEF Operates, WriteFile, MkdirAll, RemoveEntry, RemoveAll, Changes
    <2>3. ASSUME NEW o \in Holders, NEW k \in Jobs, Isolate(o, k) PROVE FALSE
      BY <1>1, <2>1, <2>3, Zenon DEF Isolate, VfsInv
    <2>4. ~Mark
      BY <1>1, Zenon DEF Mark
    <2>5. ASSUME NEW k \in Jobs, Reads(k) PROVE FALSE
      BY <1>1, <2>1, <2>5, Zenon DEF Reads, VfsInv
    <2>6. ASSUME NEW k \in Jobs, Merges(k) PROVE k = j
      BY <1>1, <2>1, <2>6, Zenon DEF Merges, VfsInv
    <2>. QED
      BY <1>1, <2>2, <2>3, <2>4, <2>5, <2>6, Zenon DEF VfsNext
  <1>2. ASSUME VfsInv, NEW j \in Jobs, Merges(j)
        PROVE  Whole(j)
    <2>. DEFINE o == parent[j]
                mine == changedPaths(copied[j], ended[j])
                own == changedPaths(copied[j], tree[o])
                conflicting == Conflicts(mine, own)
                m == MergedTree(tree[o], ended[j], mine, conflicting)
    <2>1. o \in Holders /\ j \in Holders
      BY <1>2, Zenon DEF VfsInv, Holders
    <2>2. tree' = [tree EXCEPT ![o] = m] /\ phase' = [phase EXCEPT ![j] = Outcome(conflicting)]
      BY <1>2, Zenon DEF Merges
    <2>3. tree'[o] = m /\ phase'[j] = Outcome(conflicting)
      <3>1. tree = [x \in Holders |-> tree[x]] /\ DOMAIN phase = Holders
        BY <1>2, Zenon DEF VfsInv
      <3>. HIDE DEF m, conflicting, o
      <3>. QED
        BY <2>1, <2>2, <3>1, Zenon
    <2>4. CASE conflicting = {}
      <3>1. changedPaths(tree[o], m) = mine /\ mine \cap own = {}
        BY <2>4, MergeChanges
      <3>2. phase'[j] = "merged"
        BY <2>3, <2>4, Zenon DEF Outcome
      <3>. QED
        BY <2>3, <3>1, <3>2, Zenon
    <2>5. CASE conflicting # {}
      <3>1. m = tree[o] /\ phase'[j] = "kept"
        BY <2>3, <2>5, Zenon DEF MergedTree, Outcome
      <3>2. tree'[j] = tree[j]
        BY <1>2, <2>1, <2>2, <3>1, Zenon DEF VfsInv
      <3>3. changedPaths(tree[o], tree'[o]) = {}
        BY <2>3, <3>1, Zenon DEF changedPaths
      <3>. QED
        BY <3>1, <3>2, <3>3, Zenon
    <2>. QED
      BY <2>4, <2>5, Zenon
  <1>3. VfsInv /\ [VfsNext]_vfsVars =>
          [\A j \in Jobs : phase[j] = "read" /\ phase'[j] # "read" => Whole(j)]_vfsVars
    BY <1>1, <1>2, Zenon
  <1>. QED
    BY <1>3, VfsSound, PTL DEF VfsSpec, MergeIsWhole
=============================================================================
