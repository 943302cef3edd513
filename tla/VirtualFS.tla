----------------------------- MODULE VirtualFS -----------------------------
(***************************************************************************)
(* A workspace held in memory (workspace/memory.go) and the copies its     *)
(* isolated workers get (Isolate, and finalizeVirtualJob in                *)
(* internal/core/worktree.go): a run and its workers change their trees at *)
(* once, a worker may isolate workers of its own, and every copy ends with *)
(* a merge into the tree it was copied from.                               *)
(*                                                                         *)
(* A path is the sequence of its names, a tree a function from the paths   *)
(* it holds (but for the root, which it always holds) to Dir or the data   *)
(* of a file.                                                              *)
(***************************************************************************)
EXTENDS Integers, Sequences

CONSTANTS Names, Depth,
          Data, Dir,
          FirstTrees,     \* the workspace as the run finds it
          Owner,          \* the run that has the workspace itself
          Jobs,           \* its isolated workers
          MaxChanges      \* bound on the changes of each of them

VARIABLES tree,           \* the tree of the run and of every worker
          parent,         \* whose tree a worker's was copied from
          copied,         \* what Isolate copied
          ended,          \* the worker's tree as finish read it
          phase,          \* of a worker; "working" for the run
          marked,         \* the tree at Mark
          changes

vfsVars == <<tree, parent, copied, ended, phase, marked, changes>>

Holders == {Owner} \cup Jobs
AllPaths == UNION {[1 .. n -> Names] : n \in 1 .. Depth}
EmptyTree == [p \in {} |-> Dir]

VfsTypeOK ==
    /\ \A o \in Holders : DOMAIN tree[o] \subseteq AllPaths
    /\ parent \in [Jobs -> Holders]
    /\ phase \in [Holders -> {"none", "working", "read", "merged", "kept"}]
    /\ changes \in [Holders -> 0 .. MaxChanges]
    /\ \A j \in Jobs : phase[j] # "read" => ended[j] = EmptyTree

DirOf(p) == SubSeq(p, 1, Len(p) - 1)
Only(t, S) == [q \in S |-> t[q]]
IsDir(t, p) == p = <<>> \/ (p \in DOMAIN t /\ t[p] = Dir)
Inside(q, p) == Len(p) < Len(q) /\ SubSeq(q, 1, Len(p)) = p
Put(t, p, e) == [q \in DOMAIN t \cup {p} |-> IF q = p THEN e ELSE t[q]]

ASSUME VfsAssumption ==
    /\ Depth \in Nat /\ MaxChanges \in Nat /\ Owner \notin Jobs
    /\ \A t \in FirstTrees :
          /\ DOMAIN t \subseteq AllPaths
          /\ \A p \in DOMAIN t : IsDir(t, DirOf(p))

VfsInit ==
    /\ tree \in {[o \in Holders |-> IF o = Owner THEN t ELSE EmptyTree] : t \in FirstTrees}
    /\ parent = [j \in Jobs |-> Owner]
    /\ copied = [j \in Jobs |-> EmptyTree] /\ ended = [j \in Jobs |-> EmptyTree]
    /\ phase = [o \in Holders |-> IF o = Owner THEN "working" ELSE "none"]
    /\ marked = tree[Owner]
    /\ changes = [o \in Holders |-> 0]

-----------------------------------------------------------------------------
Changes(o, t) ==
    /\ phase[o] = "working" /\ changes[o] < MaxChanges
    /\ tree' = [tree EXCEPT ![o] = t]
    /\ changes' = [changes EXCEPT ![o] = @ + 1]
    /\ UNCHANGED <<parent, copied, ended, phase, marked>>

WriteFile(o, p, d) ==
    /\ IsDir(tree[o], DirOf(p)) /\ ~IsDir(tree[o], p)
    /\ Changes(o, Put(tree[o], p, d))

(* MkdirAll creates from the top and stops at a file: what it has created  *)
(* by then stays.                                                          *)
MkdirAll(o, p) ==
    LET t == tree[o]
        Made(n) == SubSeq(p, 1, n)
        stop == {n \in 1 .. Len(p) : Made(n) \in DOMAIN t /\ t[Made(n)] # Dir}
        made == {Made(n) : n \in {k \in 1 .. Len(p) : \A s \in stop : k < s}}
    IN  Changes(o, [q \in DOMAIN t \cup made |-> IF q \in DOMAIN t THEN t[q] ELSE Dir])

RemoveEntry(o, p) ==
    /\ p \in DOMAIN tree[o]
    /\ IsDir(tree[o], p) => \A q \in DOMAIN tree[o] : DirOf(q) # p
    /\ Changes(o, Only(tree[o], DOMAIN tree[o] \ {p}))

RemoveAll(o, p) ==
    Changes(o, Only(tree[o], {q \in DOMAIN tree[o] : q # p /\ ~Inside(q, p)}))

(* Mark, as every run on a virtual workspace begins. *)
Mark == /\ changes[Owner] < MaxChanges /\ marked # tree[Owner]
        /\ marked' = tree[Owner]
        /\ UNCHANGED <<tree, parent, copied, ended, phase, changes>>

Isolate(o, j) ==
    /\ phase[j] = "none" /\ phase[o] = "working" /\ o # j
    /\ copied' = [copied EXCEPT ![j] = tree[o]]
    /\ tree' = [tree EXCEPT ![j] = tree[o]]
    /\ parent' = [parent EXCEPT ![j] = o]
    /\ phase' = [phase EXCEPT ![j] = "working"]
    /\ UNCHANGED <<ended, marked, changes>>

changedPaths(a, b) ==
    {p \in DOMAIN a : p \notin DOMAIN b \/ a[p] # b[p]} \cup (DOMAIN b \ DOMAIN a)

(* Mutant: only the same path conflicts. *)
SamePath(changed, other) == changed \cap other

Conflicts(changed, other) ==
    {p \in changed : \E q \in other : p = q \/ Inside(q, p) \/ Inside(p, q)}

(* finish reads the worker's tree under one lock ... *)
Reads(j) ==
    /\ phase[j] = "working" /\ j # Owner
    /\ ended' = [ended EXCEPT ![j] = tree[j]]
    /\ phase' = [phase EXCEPT ![j] = "read"]
    /\ UNCHANGED <<tree, parent, copied, marked, changes>>

(* Mutant: the paths that do not conflict are merged all the same. *)
MergedRest(t, worker, changed, conflicting) ==
    LET good == changed \ conflicting
    IN  [p \in (DOMAIN t \ good) \cup (DOMAIN worker \cap good) |->
            IF p \in good THEN worker[p] ELSE t[p]]

MergedTree(t, worker, changed, conflicting) ==
    IF conflicting # {} THEN t
    ELSE [p \in (DOMAIN t \ changed) \cup (DOMAIN worker \cap changed) |->
             IF p \in changed THEN worker[p] ELSE t[p]]

(* What finalizeVirtualJob reports. *)
Outcome(conflicting) == IF conflicting = {} THEN "merged" ELSE "kept"

(* ... and merges under the other's, all or nothing. *)
Merges(j) ==
    LET o == parent[j]
        changed == changedPaths(copied[j], ended[j])
        conflicting == Conflicts(changed, changedPaths(copied[j], tree[o]))
    IN  /\ phase[j] = "read"
        /\ tree' = [tree EXCEPT ![o] = MergedTree(@, ended[j], changed, conflicting)]
        /\ phase' = [phase EXCEPT ![j] = Outcome(conflicting)]
        /\ ended' = [ended EXCEPT ![j] = EmptyTree]
        /\ UNCHANGED <<parent, copied, marked, changes>>

Operates(o) == \E p \in AllPaths :
    (\E d \in Data : WriteFile(o, p, d)) \/ MkdirAll(o, p) \/ RemoveEntry(o, p) \/ RemoveAll(o, p)

VfsNext ==
    \/ \E o \in Holders : Operates(o) \/ (\E j \in Jobs : Isolate(o, j))
    \/ Mark
    \/ \E j \in Jobs : Reads(j) \/ Merges(j)

VfsSpec == VfsInit /\ [][VfsNext]_vfsVars

-----------------------------------------------------------------------------
(* Every tree is a tree: what holds a path is a directory of the same tree.*)
(* Each operation sees to it for one tree, but a merge puts paths of one   *)
(* into another: it relies on Conflicts taking a path and one inside it    *)
(* for the same change.                                                    *)
TreeClosed == \A o \in Holders : \A p \in DOMAIN tree[o] : IsDir(tree[o], DirOf(p))

(* The changes ChangedSince reports to a review, from the mark to the tree *)
(* as it is: at a path that is a directory in either it reports nothing.   *)
ChangedSince ==
    {p \in changedPaths(marked, tree[Owner]) :
        /\ p \in DOMAIN marked => marked[p] # Dir
        /\ p \in DOMAIN tree[Owner] => tree[Owner][p] # Dir}

FilesOf(t) == {p \in DOMAIN t : t[p] # Dir}

(* A review misses no file: the marked tree with the reported changes has  *)
(* the files of the tree as it is, merged workers' files among them, but   *)
(* where a file became a directory or a directory a file.                  *)
ReviewSeesChanges ==
    LET now == tree[Owner]
        Kind(t, p) == IF p \notin DOMAIN t THEN "none" ELSE IF t[p] = Dir THEN "dir" ELSE "file"
        turned == {p \in DOMAIN now \cap DOMAIN marked : Kind(now, p) # Kind(marked, p)}
    IN  \A p \in (FilesOf(now) \cup FilesOf(marked)) \ turned :
           p \in ChangedSince \/ (p \in DOMAIN now /\ p \in DOMAIN marked /\ now[p] = marked[p])

(* "All or nothing": a merge changes the parent at every path the worker   *)
(* changed and at no path the parent itself changed since the copy, or     *)
(* nowhere.                                                                *)
MergeIsWhole ==
    [][\A j \in Jobs :
          phase[j] = "read" /\ phase'[j] # "read" =>
             LET o == parent[j]
                 own == changedPaths(copied[j], tree[o])
                 work == changedPaths(copied[j], ended[j])
                 done == changedPaths(tree[o], tree'[o])
             IN  IF phase'[j] = "merged"
                 THEN done \cap own = {} /\ done = work
                 ELSE done = {} /\ tree'[j] = tree[j]]_vfsVars
=============================================================================
