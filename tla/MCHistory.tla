----------------------------- MODULE MCHistory ------------------------------
(* Small instances of what a session's turns carry along, side by side: a   *)
(* behaviour is one of History or one of Instructions, with the variables   *)
(* of the other at rest.                                                    *)
(*                                                                          *)
(* History has one task: plans of up to two todos, and four scenarios: a    *)
(* new session that works through two plans over two requests, one in which *)
(* a client takes part, a session with an answered request that a client    *)
(* operates on twice, and one whose turn compacts.                          *)
EXTENDS History, Instructions

VARIABLE part

T(task, status) == [task |-> task, status |-> status]

MCPlans ==
    LET a == CHOOSE t \in Tasks : TRUE
    IN  {<<T(a, "in_progress")>>, <<T(a, "completed")>>,
         <<T(a, "completed"), T(a, "pending")>>}

Answered == <<"user", "assistant", "tool", "assistant">>

MCScenarios ==
    {[start |-> <<>>, msgs |-> 7, ops |-> 0, plans |-> 2, compactions |-> 0],
     [start |-> <<>>, msgs |-> 5, ops |-> 1, plans |-> 2, compactions |-> 0],
     [start |-> Answered, msgs |-> 3, ops |-> 2, plans |-> 1, compactions |-> 0],
     [start |-> Answered, msgs |-> 3, ops |-> 1, plans |-> 0, compactions |-> 1]}

(* A bound on the handoffs in the live history; what the guard over an open *)
(* plan says is not one.                                                    *)
MaxHandoffs == 1
FewHandoffs ==
    used'.msgs > used.msgs /\ Last(msgs').role = "harness" /\ turn.at # "final" =>
        Cardinality({i \in DOMAIN msgs' : msgs'[i].role = "harness"}) <= MaxHandoffs

(* A directory in a directory, whose file is what is to be edited, one      *)
(* beside it, and instructions that together exceed the budget.             *)
MCDirs == {<<>>, <<"d">>, <<"d", "e">>, <<"k">>}
MCGoal == <<"d", "e">>
MCSize == [d \in MCDirs |-> IF d = <<"d">> THEN 2 ELSE 1]

SessionInit ==
    /\ part \in {"history", "instructions"}
    /\ Init /\ InstrInit
    /\ part = "history" =>
          /\ disk = [d \in Dirs |-> IF d = Goal THEN "bad" ELSE "none"] /\ shared = {}
    /\ part = "instructions" => msgs = <<>> /\ left.msgs = 5

SessionNext ==
    /\ UNCHANGED part
    /\ \/ part = "history" /\ Next /\ FewHandoffs /\ UNCHANGED instrVars
       \/ part = "instructions" /\ InstrNext /\ UNCHANGED vars

SessionSpec ==
    /\ SessionInit /\ [][SessionNext]_<<part, vars, instrVars>>
    /\ WF_instrVars(part = "instructions" /\ \E requested \in SUBSET Skills : Discovers(requested))
    /\ WF_instrVars(part = "instructions" /\ Responds)
    /\ WF_instrVars(part = "instructions" /\ Insists)

(* The history is sound at every moment, and what is known of instructions *)
(* keeps its type.                                                         *)
SessionInv == HistoryInv /\ InstrTypeOK
=============================================================================
