------------------------------- MODULE Router -------------------------------
(***************************************************************************)
(* Which models routing may choose (internal/router/router.go, V1.Decide). *)
(* Eligibility is hard filters, the rule that a reviewer is of another     *)
(* family than the implementer, and two floors that yield when nothing is  *)
(* left.  What Decide ranks by (cost, time, cache, exploration) is left    *)
(* out: any eligible model may win.                                        *)
(*                                                                         *)
(* A routing state s has the models to choose from (available, exclude),   *)
(* the size of the prompt, the current model, and the hints of the job.    *)
(***************************************************************************)
EXTENDS Integers

CONSTANTS
    Models,
    Catalog,    \* family, tier, explicitOnly, image, window and maxOutput of a model
    NoModel     \* no pin, no default model, no current model

\* The model is named by a pin or is the configured default.
Named(m, s) == s.modelPin # NoModel \/ m = s.default

\* The filters a model must pass whatever the decision is for.
Fits(m, s) ==
    /\ s.modelPin # NoModel => m = s.modelPin
    /\ s.disableSwitch /\ s.default # NoModel => m = s.default
    /\ Catalog[m].explicitOnly => Named(m, s)
    /\ m \in s.available \ s.exclude
    /\ s.image => Catalog[m].image
    /\ s.size <= Catalog[m].window
    /\ Catalog[m].family \notin s.excludeFamilies
    /\ s.tierPin # "any" => Catalog[m].tier = s.tierPin
    /\ s.disableSwitch /\ s.current # NoModel => m = s.current

\* reviewHasAlternateFamily looks for a model of another family with filters of its own.
HasAlternate(s) ==
    /\ s.review /\ s.implementer # "none"
    /\ \E m \in s.available \ s.exclude :
         /\ Catalog[m].family \notin s.excludeFamilies \cup {s.implementer}
         /\ s.image => Catalog[m].image
         /\ s.size <= Catalog[m].window
         /\ s.tierPin # "any" => Catalog[m].tier = s.tierPin
         /\ s.disableSwitch /\ s.default # NoModel => m = s.default

FamilyRule(m, s) == HasAlternate(s) => Catalog[m].family # s.implementer

Compatible(s) == {m \in Models : Fits(m, s) /\ FamilyRule(m, s)}

\* The floors: judgement needs a frontier model, and tiny models are a last resort.
AboveFloors(m, s) ==
    s.modelPin # NoModel \/ s.tierPin # "any" \/ (s.disableSwitch /\ s.default # NoModel)
    \/ IF s.judgement \/ s.review THEN Catalog[m].tier = "frontier" ELSE Catalog[m].tier # "tiny"

\* The candidates Decide ranks; none is NoCompatibleError.
Decide(s) ==
    LET best == {m \in Compatible(s) : AboveFloors(m, s)}
    IN IF best # {} THEN best ELSE Compatible(s)

=============================================================================
