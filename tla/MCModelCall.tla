---------------------------- MODULE MCModelCall -----------------------------
(***************************************************************************)
(* ModelCall with a frontier model x that has two keys and a tiny model y  *)
(* of another family that has one.                                         *)
(***************************************************************************)
EXTENDS ModelCall, TLC

CONSTANTS x, y

MCCatalog ==
    x :> [provider |-> "P", family |-> "A", tier |-> "frontier", explicitOnly |-> FALSE, image |-> TRUE,
          window |-> 2, maxOutput |-> 4]
    @@ y :> [provider |-> "Q", family |-> "B", tier |-> "tiny", explicitOnly |-> FALSE, image |-> FALSE,
             window |-> 1, maxOutput |-> 2]

MCNKeys == "P" :> 2 @@ "Q" :> 1

Job == [size |-> 1, image |-> FALSE, review |-> FALSE, implementer |-> "none", judgement |-> FALSE,
        excludeFamilies |-> {}, modelPin |-> NoModel, tierPin |-> "any", default |-> NoModel,
        disableSwitch |-> FALSE, maxTools |-> 0, maxLimits |-> 3,
        odd |-> FALSE]

\* A review of a change of family A that meets rate limits; a history too large for any
\* model, with odd replies; and a session that stays on its default model.
MCJobs ==
    {[Job EXCEPT !.review = TRUE, !.implementer = "A"],
     [Job EXCEPT !.size = 3, !.odd = TRUE, !.maxTools = 1, !.maxLimits = 0],
     [Job EXCEPT !.default = x, !.disableSwitch = TRUE]}

=============================================================================
