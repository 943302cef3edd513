----------------------------- MODULE MCWorkers -----------------------------
(* Small instances of the modules about workers: a session's runs and the  *)
(* workers it spawns (Workers), and isolated workers in git worktrees      *)
(* (Worktrees) and in copies of a tree in memory (VirtualFS).  A behaviour *)
(* is one of one of them, with the variables of the others at rest.        *)
EXTENDS Transcript, Worktrees, VirtualFS, TLC

CONSTANTS w1, w2, m1, m2, d1, d2,
          g1, i1, i2, j1, j2   \* a region, and the isolated workers of either kind

VARIABLE part

\* A final answer, a spawn with the wait in the same reply, a spawn behind which an ask
\* leaves calls without results, a wait, and a plain tool.
AllReplies ==
  { <<>>,
    <<Call("spawn", w1), Call("wait", w1)>>,
    <<Call("spawn", w2)>>,
    <<Call("ask", None), Call("wait", w1)>>,
    <<Call("other", None), Call("wait", w2)>> }

\* A clean region is as committed, a dirty one is not; a file may be deleted.  Regions are
\* interchangeable: the first is clean.
MCHeads == {[r \in Regions |-> 1]}
MCCheckouts == {t \in [Regions -> {1, 2, Gone}] : t[g1] = 1}

\* A file in a directory, and a file beside an empty one.
MCTrees == {<<d1>> :> Dir @@ <<d1, d2>> :> 1, <<d1>> :> 1 @@ <<d2>> :> Dir}

\* Isolated workers are interchangeable: they begin in this order.
FirstTreeFirst == stage'[i2] # "none" => stage'[i1] # "none"
FirstCopyFirst == phase'[j2] # "none" => phase'[j1] # "none"

\* A bound on the run's edits and on what goes wrong with the worktrees, taken together.
MaxEvents == 2
FewEvents == edits' + troubles' <= MaxEvents

parts == <<part, vars, treeVars, vfsVars>>

JobsInit ==
    /\ part \in {"workers", "worktrees", "virtual"}
    /\ Init /\ TreesInit /\ VfsInit
    /\ part # "worktrees" => checkout = head
    /\ part # "virtual" => tree[Owner] = CHOOSE t \in MCTrees : TRUE

JobsNext ==
    /\ UNCHANGED part
    /\ \/ part = "workers" /\ Next /\ UNCHANGED <<treeVars, vfsVars>>
       \/ /\ part = "worktrees" /\ TreesNext /\ FirstTreeFirst /\ FewEvents
          /\ UNCHANGED <<vars, vfsVars>>
       \/ part = "virtual" /\ VfsNext /\ FirstCopyFirst /\ UNCHANGED <<vars, treeVars>>

JobsFairness ==
    /\ WF_vars(part = "workers" /\ Loop)
    /\ \A w \in Workers : WF_vars(part = "workers" /\ Worker(w))

JobsSpec == JobsInit /\ [][JobsNext]_parts /\ JobsFairness

(* Worktrees and trees in memory keep their types, every tree in memory is *)
(* a tree, and a review of one misses no change.                           *)
IsolationInv == WorktreesTypeOK /\ VfsTypeOK /\ TreeClosed /\ ReviewSeesChanges
=============================================================================
