-------------------------- MODULE CompletionProofs --------------------------
(***************************************************************************)
(* Proof of CompletionInv: for any contents, models and limits, however    *)
(* tools, reviewers, gates and other writers interleave, a run is accepted *)
(* with content that reviewers were given and did not reject, and the      *)
(* evidence they were shown is about that content.                         *)
(***************************************************************************)
EXTENDS Completion, TLAPS

(* The content the tracker answers for: what git listed when the run last  *)
(* looked, or the file itself where there is no git to ask.                *)
Target == IF git THEN progress.workspaceHash ELSE tree

(* Nobody wrote where the run cannot notice it.                            *)
Clean == ~torn /\ (git \/ ~stray)

Ended == (pc = "done") <=> (result # "running")

(* The tracker knows the file as it is, unless somebody else wrote it.     *)
InSync ==
    git /\ ~stray =>
        IF Changed(head, tree) THEN progress.workspaceHash = tree
        ELSE progress.workspaceHash \notin Contents

(* A change is noticed: the run counts as one that edited.                 *)
Noticed ==
    /\ git /\ progress.workspaceHash \in Contents => progress.edited
    /\ ~git /\ ~stray /\ tree # base => progress.edited

(* Between the sync and the last read, whoever writes tears the reads.     *)
Untorn == git /\ ~torn /\ pc \in {"hash", "collect", "unchanged"} => ~stray

(* A diff that is offered again is one.                                    *)
Named == pc = "unchanged" => diff # NoDiff

(* What is offered again, and what reviewers hold, is the target.          *)
Disputed == Clean /\ pc = "unchanged" => Content(diff) = Target
InView ==
    Clean /\ pc \in {"cascade", "full", "retry", "adjudicate"} =>
        seen # NoDiff /\ Content(seen) = Target

(* The tracker's "reviewed" is about the target, and so is its evidence.   *)
Standing == Clean /\ progress.reviewed /\ Target \in Contents => Reviewed(Target)
Fresh == Clean /\ Target \in Contents => progress.checks \subseteq {Target}

(* What has passed the review gate was reviewed.                           *)
Passing ==
    /\ pc = "schema" \/ result = "pass"
    /\ depth /\ Clean /\ Target \in Contents
    /\ ~git => tree # base
    => Reviewed(Target)

GateInv ==
    /\ TypeOK /\ Ended /\ Named
    /\ InSync /\ Noticed /\ Untorn /\ Disputed /\ InView /\ Standing /\ Fresh /\ Passing

-----------------------------------------------------------------------------
(* Lemmas about the tracker.                                               *)

(* What syncWorkspaceChanges leaves: outside git nothing happens; in git   *)
(* the hash is that of the file, and a change of it takes back the review  *)
(* and the evidence.                                                       *)
LEMMA SyncedFacts ==
    ASSUME NEW p \in Progress, NEW h \in Contents, NEW t \in Contents, git \in BOOLEAN
    PROVE  /\ Synced(p, h, t) \in Progress
           /\ ~git => Synced(p, h, t) = p
           /\ git => Synced(p, h, t).workspaceHash = IF Changed(h, t) THEN t ELSE NoDiff
           /\ git /\ Changed(h, t) =>
                 \/ Synced(p, h, t) = p
                 \/ /\ Synced(p, h, t).edited /\ ~Synced(p, h, t).reviewed
                    /\ Synced(p, h, t).checks = {}
BY ConstantsAssumption DEF Synced, Progress

(* observe of an edit takes back the review and the evidence.              *)
LEMMA EditFacts ==
    ASSUME NEW p \in Progress
    PROVE  /\ ObserveEdit(p) \in Progress
           /\ ObserveEdit(p).workspaceHash = p.workspaceHash
           /\ ObserveEdit(p).edited /\ ~ObserveEdit(p).reviewed /\ ObserveEdit(p).checks = {}
BY Zenon DEF ObserveEdit, Progress

(* observe of a command adds evidence and nothing else.                    *)
LEMMA ExecFacts ==
    ASSUME NEW p \in Progress, NEW t \in Contents
    PROVE  /\ ObserveExec(p, t) \in Progress
           /\ ObserveExec(p, t).workspaceHash = p.workspaceHash
           /\ ObserveExec(p, t).edited = p.edited /\ ObserveExec(p, t).reviewed = p.reviewed
           /\ ObserveExec(p, t).checks \subseteq p.checks \cup {t}
BY Zenon DEF ObserveExec, Progress

(* The limits are numbers.                                                 *)
LEMMA Limits ==
    /\ MaxReviewRejections \in Nat /\ MaxAnswerRejections \in Nat
    /\ MaxFinalRejections \in Nat /\ MaxTodoRejections \in Nat
    /\ MaxStrikes \in Nat /\ MaxTools \in Nat /\ MaxOutside \in Nat
BY ConstantsAssumption, Zenon

(* The counter of rejections stops at its limit.                           *)
LEMMA CountedType ==
    ASSUME NEW n \in 0 .. MaxReviewRejections
    PROVE  Counted(n) \in 0 .. MaxReviewRejections
BY Limits DEF Counted

(* What a verdict writes keeps its types.                                  *)
LEMMA ConcludeType ==
    ASSUME TypeOK, seen' \in Diffs \cup {NoDiff}, LetThrough \/ Reject
    PROVE  /\ progress' \in Progress
           /\ verdict' \in [Contents -> {"none", "through", "rejected", "disputed"}]
           /\ pc' \in {"schema", "boundary"}
<1>1. seen' # NoDiff => Content(seen') \in Contents
  BY Zenon DEF Content, Diffs
<1>2. verdict' \in [Contents -> {"none", "through", "rejected", "disputed"}]
  BY <1>1, Zenon DEF TypeOK, LetThrough, Reject, Record
<1>3. CASE LetThrough
  BY <1>2, <1>3, Zenon DEF TypeOK, LetThrough, Progress
<1>4. CASE Reject
  BY <1>2, <1>4, CountedType, Zenon DEF TypeOK, Reject, Progress
<1>5. QED  BY <1>3, <1>4, Zenon

(* The diff a review is given is the file with what is committed, or none. *)
LEMMA ReviewDiffType ==
    ASSUME TypeOK
    PROVE  /\ ReviewDiff \in Diffs \cup {NoDiff}
           /\ ReviewDiff # NoDiff => Content(ReviewDiff) = tree
           /\ ~git \/ Changed(head, tree) => ReviewDiff # NoDiff
           /\ git /\ ReviewDiff # NoDiff => Changed(head, tree)
BY ConstantsAssumption DEF TypeOK, ReviewDiff, Diffs, Content

(* Every step keeps the types.                                             *)
LEMMA TypeStep == TypeOK /\ Named /\ [Next]_vars => TypeOK'
<1> SUFFICES ASSUME TypeOK, Named, [Next]_vars PROVE TypeOK'
  BY Zenon
<1> USE ConstantsAssumption DEF run, files, routing, local, bounds, history, Review, Gate, End, Tool
<1>1. CASE UNCHANGED vars
  BY <1>1 DEF TypeOK, vars
<1>2. CASE Interrupted \/ AskAboutReview \/ NoModelLeft \/ BeginTurn
  BY <1>2 DEF TypeOK, Interrupted, AskAboutReview, NoModelLeft, BeginTurn
<1>3. CASE EditTool
  <2>1. PICK t \in Contents : tree' = t /\ progress' = ObserveEdit(Synced(progress, head, t))
    BY <1>3, Zenon DEF EditTool
  <2>2. progress' \in Progress
    BY <2>1, SyncedFacts, EditFacts, Zenon DEF TypeOK
  <2>3. QED  BY <1>3, <2>1, <2>2 DEF TypeOK, EditTool
<1>4. CASE ExecTool
  <2>1. PICK t \in Contents, h \in {head, tree}, ok \in BOOLEAN :
           /\ tree' = t /\ head' = h
           /\ progress' = IF ok THEN ObserveExec(Synced(progress, h, t), t)
                          ELSE Synced(progress, h, t)
    BY <1>4, Zenon DEF ExecTool
  <2>2. progress' \in Progress
    BY <2>1, SyncedFacts, ExecFacts, Zenon DEF TypeOK
  <2>3. QED  BY <1>4, <2>1, <2>2 DEF TypeOK, ExecTool
<1>5. CASE JobTool \/ Sync
  <2>1. progress' \in Progress
    BY <1>5, SyncedFacts DEF TypeOK, JobTool, Sync
  <2>2. CASE JobTool
    BY <2>1, <2>2 DEF TypeOK, JobTool
  <2>3. CASE Sync
    BY <2>1, <2>3 DEF TypeOK, Sync
  <2>4. QED  BY <1>5, <2>2, <2>3, Zenon
<1>6. CASE TodoTool
  BY <1>6 DEF TypeOK, TodoTool
<1>7. CASE AnswerOffTopic \/ FinalCheckRefuses \/ FinalReply \/ TodosRefuse
  <2>1. progress' \in Progress
    <3>1. CASE AnswerOffTopic
      <4>1. progress.answerRejections + 1 \in 0 .. MaxAnswerRejections
        BY <3>1, Limits, SMTT(60) DEF TypeOK, Progress, AnswerOffTopic
      <4>2. QED  BY <3>1, <4>1, Zenon DEF TypeOK, Progress, AnswerOffTopic
    <3>2. CASE FinalCheckRefuses
      <4>1. progress.finalRejections + 1 \in 0 .. MaxFinalRejections
        BY <3>2, Limits DEF TypeOK, Progress, FinalCheckRefuses
      <4>2. QED  BY <3>2, <4>1, Zenon DEF TypeOK, Progress, FinalCheckRefuses
    <3>3. CASE FinalReply
      BY <3>3, Zenon DEF TypeOK, FinalReply
    <3>4. CASE TodosRefuse
      <4>1. progress.todoRejections + 1 \in 0 .. MaxTodoRejections
        BY <3>4, Limits, SMTT(60) DEF TypeOK, Progress, TodosRefuse, MayRefuseTodos
      <4>2. QED  BY <3>4, <4>1, Zenon DEF TypeOK, Progress, TodosRefuse
    <3>5. QED  BY <1>7, <3>1, <3>2, <3>3, <3>4, Zenon
  <2>2. QED
    BY <1>7, <2>1 DEF TypeOK, AnswerOffTopic, FinalCheckRefuses, FinalReply, TodosRefuse
<1>8. CASE HashDiff
  BY <1>8, ReviewDiffType DEF TypeOK, HashDiff
<1>9. CASE SchemaFails
  BY <1>9 DEF TypeOK, SchemaFails
<1>10. CASE Accept \/ AskAboutDispute
  BY <1>10, Zenon DEF TypeOK, Accept, AskAboutDispute
<1>11. CASE CollectNothing
  BY <1>11, ReviewDiffType, ConcludeType DEF TypeOK, CollectNothing
<1>12. CASE CollectDiff
  BY <1>12, ReviewDiffType DEF TypeOK, CollectDiff
<1>13. CASE LightReview \/ Adjudicated \/ SkipReview
  <2>1. LetThrough \/ Reject
    BY <1>13, Zenon DEF LightReview, Adjudicated, SkipReview, Conclude
  <2>2. QED
    BY <1>13, <2>1, ConcludeType DEF TypeOK, LightReview, Adjudicated, SkipReview
<1>14. CASE Escalate
  BY <1>14 DEF TypeOK, Escalate
<1>15. CASE FullReview
  <2>1. PICK vs \in Verdicts :
           \/ shards' = vs /\ pc' = "retry" /\ UNCHANGED <<progress, verdict>>
           \/ (LetThrough \/ Reject) /\ UNCHANGED shards
    BY <1>15, Zenon DEF FullReview, Conclude
  <2>2. CASE shards' = vs /\ pc' = "retry" /\ UNCHANGED <<progress, verdict>>
    BY <1>15, <2>2 DEF TypeOK, FullReview
  <2>3. CASE (LetThrough \/ Reject) /\ UNCHANGED shards
    BY <1>15, <2>3, ConcludeType DEF TypeOK, FullReview
  <2>4. QED  BY <2>1, <2>2, <2>3, Zenon
<1>16. CASE RetryShards
  <2>1. LetThrough \/ Reject
    BY <1>16, Zenon DEF RetryShards, Conclude
  <2>2. QED  BY <1>16, <2>1, ConcludeType DEF TypeOK, RetryShards
<1>17. CASE RefuseUnchanged \/ AdjudicationFails
  <2>1. CASE RefuseUnchanged
    <3>1. progress.refused \cup {diff} \in SUBSET Diffs
      BY <2>1 DEF TypeOK, Named, Progress, RefuseUnchanged
    <3>2. Counted(progress.reviewRejections) \in 0 .. MaxReviewRejections
      BY CountedType, Zenon DEF TypeOK, Progress
    <3>3. progress' \in Progress
      BY <2>1, <3>1, <3>2, Zenon DEF TypeOK, Progress, RefuseUnchanged
    <3>4. QED  BY <2>1, <3>3 DEF TypeOK, RefuseUnchanged
  <2>2. CASE AdjudicationFails
    <3>1. progress' \in Progress
      BY <2>2, Zenon DEF TypeOK, Progress, AdjudicationFails
    <3>2. QED  BY <2>2, <3>1 DEF TypeOK, AdjudicationFails
  <2>3. QED  BY <1>17, <2>1, <2>2, Zenon
<1>18. CASE Adjudicate
  <2>1. diff \in Diffs
    BY <1>18, Zenon DEF TypeOK, Named, Adjudicate, Review
  <2>2. progress' \in Progress
    BY <1>18, <2>1, Zenon DEF TypeOK, Progress, Adjudicate
  <2>3. QED  BY <1>18, <2>2, ReviewDiffType DEF TypeOK, Adjudicate
<1>19. CASE AcceptDispute
  BY <1>19, Zenon DEF TypeOK, Named, AcceptDispute, Record, Content, Diffs
<1>20. CASE OutsideWrites
  BY <1>20 DEF TypeOK, OutsideWrites
<1>21. QED
  BY <1>1, <1>2, <1>3, <1>4, <1>5, <1>6, <1>7, <1>8, <1>9, <1>10, <1>11, <1>12, <1>13, <1>14,
     <1>15, <1>16, <1>17, <1>18, <1>19, <1>20, Zenon
  DEF Next, RunStep, Turn, Gates, Reviews

(* A run has ended exactly when it has a result, and only a diff that is   *)
(* one can be offered again.                                               *)
LEMMA EndedStep == TypeOK /\ Ended /\ Named /\ [Next]_vars => Ended' /\ Named'
<1> SUFFICES ASSUME TypeOK, Ended, Named, [Next]_vars PROVE Ended' /\ Named'
  BY Zenon
<1> USE DEF Ended, Named, run, files, routing, local, bounds, history, Review, Gate, End, Tool
<1>1. CASE UNCHANGED vars
  BY <1>1, Zenon DEF vars
<1>2. CASE Turn
  BY <1>2, Zenon DEF Turn, Interrupted, AskAboutReview, NoModelLeft, BeginTurn, EditTool, ExecTool,
              JobTool, TodoTool
<1>3. CASE Gates
  BY <1>3, Zenon DEF Gates, AnswerOffTopic, FinalCheckRefuses, FinalReply, Sync, HashDiff, SchemaFails,
              TodosRefuse, Accept
<1>4. CASE Reviews
  <2>1. LetThrough \/ Reject => pc' \in {"schema", "boundary"}
    BY Zenon DEF LetThrough, Reject
  <2>2. QED
    BY <1>4, <2>1, Zenon DEF Reviews, CollectNothing, CollectDiff, LightReview, Escalate, SkipReview,
       FullReview, RetryShards, RefuseUnchanged, Adjudicate, Adjudicated, AdjudicationFails,
       AskAboutDispute, AcceptDispute, Conclude
<1>5. CASE OutsideWrites
  BY <1>5, Zenon DEF OutsideWrites
<1>6. QED  BY <1>1, <1>2, <1>3, <1>4, <1>5, Zenon DEF Next, RunStep

-----------------------------------------------------------------------------
(* The kinds of step.                                                      *)

(* A step that leaves the files, the verdicts and the tracker's view of    *)
(* them alone and goes back to the agent, or ends without a pass.          *)
LEMMA QuietStep ==
    ASSUME GateInv, TypeOK', Ended', Named',
           UNCHANGED <<run, files, verdict, stray, torn>>,
           progress'.edited = progress.edited, progress'.reviewed = progress.reviewed,
           progress'.workspaceHash = progress.workspaceHash, progress'.checks = progress.checks,
           pc' \in {"boundary", "reply", "sync", "done"}, result' # "pass"
    PROVE  GateInv'
<1> USE DEF run, files
<1>1. Target' = Target /\ Clean' = Clean /\ \A c : Reviewed(c)' = Reviewed(c)
  BY Zenon DEF Target, Clean, Reviewed
<1>2. InSync' /\ Noticed'
  BY Zenon DEF GateInv, InSync, Noticed, Changed
<1>3. Untorn' /\ Disputed' /\ InView' /\ Passing'
  BY Zenon DEF Untorn, Disputed, InView, Passing
<1>4. Standing' /\ Fresh'
  BY <1>1, Zenon DEF GateInv, Standing, Fresh
<1>5. QED  BY <1>2, <1>3, <1>4, Zenon DEF GateInv

(* A look at the workspace, after a write of the run's own or none: what   *)
(* the tracker says of the file is true of the file as it is then.         *)
LEMMA LookStep ==
    ASSUME GateInv, TypeOK',
           NEW h \in Contents, NEW t \in Contents, head' = h, tree' = t,
           UNCHANGED <<run, base, verdict, torn>>,
           git => ~stray', ~git => h = head /\ (~stray' => ~stray /\ t = tree),
           progress'.workspaceHash = Synced(progress, h, t).workspaceHash,
           progress'.edited = Synced(progress, h, t).edited,
           progress'.reviewed = Synced(progress, h, t).reviewed,
           progress'.checks \subseteq Synced(progress, h, t).checks \cup {t}
    PROVE  InSync' /\ Noticed' /\ Standing' /\ Fresh'
<1> DEFINE s == Synced(progress, h, t)
<1> USE DEF run
<1>1. /\ ~git => s = progress
      /\ git => s.workspaceHash = IF Changed(h, t) THEN t ELSE NoDiff
      /\ git /\ Changed(h, t) => s = progress \/ (s.edited /\ ~s.reviewed /\ s.checks = {})
  BY SyncedFacts, Zenon DEF GateInv, TypeOK
<1> HIDE DEF s
<1>2. progress'.workspaceHash = s.workspaceHash /\ progress'.edited = s.edited
      /\ progress'.reviewed = s.reviewed /\ progress'.checks \subseteq s.checks \cup {t}
  BY Zenon DEF s
<1>3. NoDiff \notin Contents
  BY ConstantsAssumption, Zenon
<1>4. Changed(head, tree)' = Changed(h, t)
  BY Zenon DEF Changed
<1>5. InSync'
  BY <1>1, <1>2, <1>3, <1>4, Zenon DEF InSync
<1>6. CASE git
  <2>1. Target' = s.workspaceHash /\ Target = progress.workspaceHash /\ git'
    BY <1>2, <1>6, Zenon DEF Target
  <2>2. Clean' = Clean
    BY <1>6, Zenon DEF Clean
  <2>3. CASE ~Changed(h, t)
    <3>1. Target' \notin Contents /\ progress'.workspaceHash \notin Contents
      BY <1>1, <1>2, <1>3, <1>6, <2>1, <2>3, Zenon
    <3>2. QED  BY <1>5, <1>6, <2>1, <3>1, Zenon DEF Noticed, Standing, Fresh
  <2>4. CASE Changed(h, t)
    <3>1. Target' = t
      BY <1>1, <1>6, <2>1, <2>4, Zenon
    <3>2. CASE s = progress
      <4>1. Target = t
        BY <2>1, <3>1, <3>2, Zenon
      <4>2. Noticed'
        BY <1>2, <1>6, <2>1, <3>2, Zenon DEF GateInv, Noticed
      <4>3. Standing'
        BY <1>2, <2>2, <3>1, <3>2, <4>1, Zenon DEF GateInv, Standing, Reviewed
      <4>4. Fresh'
        BY <1>2, <2>2, <3>1, <3>2, <4>1, Zenon DEF GateInv, Fresh
      <4>5. QED  BY <1>5, <4>2, <4>3, <4>4, Zenon
    <3>3. CASE s.edited /\ ~s.reviewed /\ s.checks = {}
      BY <1>2, <1>5, <1>6, <2>1, <3>1, <3>3, Zenon DEF Noticed, Standing, Fresh
    <3>4. QED  BY <1>1, <1>6, <2>4, <3>2, <3>3, Zenon
  <2>5. QED  BY <2>3, <2>4, Zenon
<1>7. CASE ~git
  <2>1. s = progress /\ ~git' /\ Target' = t /\ Target = tree
    BY <1>1, <1>7, Zenon DEF Target
  <2>2. Clean' => Clean /\ t = tree
    BY <1>7, Zenon DEF Clean
  <2>3. Noticed'
    BY <1>2, <1>7, <2>1, Zenon DEF GateInv, Noticed
  <2>4. Standing'
    BY <1>2, <2>1, <2>2, Zenon DEF GateInv, Standing, Reviewed
  <2>5. Fresh'
    BY <1>2, <2>1, <2>2, Zenon DEF GateInv, Fresh
  <2>6. QED  BY <1>5, <2>3, <2>4, <2>5, Zenon
<1>8. QED  BY <1>6, <1>7, Zenon DEF GateInv, TypeOK

(* A review lets the change through: what it was given is the target, if   *)
(* there is one.                                                           *)
LEMMA ThroughStep ==
    ASSUME GateInv, TypeOK', Ended', Named', LetThrough, pc # "done",
           UNCHANGED <<run, files, result, stray, torn>>,
           seen' \in Diffs \cup {NoDiff},
           Clean /\ Target \in Contents => seen' # NoDiff /\ Content(seen') = Target
    PROVE  GateInv'
<1> USE DEF run, files
<1>1. /\ progress'.edited = progress.edited /\ progress'.workspaceHash = progress.workspaceHash
      /\ progress'.checks = progress.checks /\ pc' = "schema"
  BY Zenon DEF LetThrough, GateInv, TypeOK, Progress
<1>2. Target' = Target /\ Clean' = Clean
  BY <1>1, Zenon DEF Target, Clean
<1>3. InSync' /\ Noticed'
  BY <1>1, Zenon DEF GateInv, InSync, Noticed, Changed
<1>4. Untorn' /\ Disputed' /\ InView'
  BY <1>1, Zenon DEF Untorn, Disputed, InView
<1>5. Fresh'
  BY <1>1, <1>2, Zenon DEF GateInv, Fresh
<1>6. Clean' /\ Target' \in Contents => Reviewed(Target)'
  <2> SUFFICES ASSUME Clean', Target' \in Contents PROVE Reviewed(Target)'
    BY Zenon
  <2>1. verdict' = [verdict EXCEPT ![Target] = "through"]
    BY <1>2, Zenon DEF LetThrough, Record
  <2>2. QED  BY <1>2, <2>1, Zenon DEF GateInv, TypeOK, Reviewed
<1>7. Standing' /\ Passing'
  BY <1>6, Zenon DEF Standing, Passing
<1>8. QED  BY <1>3, <1>4, <1>5, <1>7, Zenon DEF GateInv

(* A review rejects the change.                                            *)
LEMMA RejectStep ==
    ASSUME GateInv, TypeOK', Ended', Named', Reject, pc # "done",
           UNCHANGED <<run, files, result, stray, torn>>
    PROVE  GateInv'
<1> USE DEF run, files
<1>1. /\ progress'.edited = progress.edited /\ progress'.workspaceHash = progress.workspaceHash
      /\ progress'.checks = progress.checks /\ ~progress'.reviewed /\ pc' = "boundary"
  BY Zenon DEF Reject, GateInv, TypeOK, Progress
<1>2. Target' = Target /\ Clean' = Clean
  BY <1>1, Zenon DEF Target, Clean
<1>3. InSync' /\ Noticed'
  BY <1>1, Zenon DEF GateInv, InSync, Noticed, Changed
<1>4. result' = "running"
  BY Zenon DEF GateInv, Ended
<1>5. Untorn' /\ Disputed' /\ InView' /\ Standing' /\ Passing'
  BY <1>1, <1>4, Zenon DEF Untorn, Disputed, InView, Standing, Passing
<1>6. Fresh'
  BY <1>1, <1>2, Zenon DEF GateInv, Fresh
<1>7. QED  BY <1>3, <1>5, <1>6, Zenon DEF GateInv

(* While a diff is being read, or offered again, it is of the target.      *)
LEMMA DiffIsTarget ==
    ASSUME GateInv, Clean, pc \in {"hash", "collect", "unchanged"}
    PROVE  /\ ReviewDiff # NoDiff => Content(ReviewDiff) = Target
           /\ Target \in Contents => ReviewDiff # NoDiff
<1>1. CASE git
  <2>1. ~stray
    BY <1>1, Zenon DEF GateInv, Untorn, Clean
  <2>2. QED
    BY <1>1, <2>1, ReviewDiffType, Zenon DEF GateInv, InSync, Target
<1>2. CASE ~git
  BY <1>2, ReviewDiffType, Zenon DEF GateInv, Target
<1>3. QED  BY <1>1, <1>2, Zenon DEF GateInv, TypeOK

-----------------------------------------------------------------------------
(* Every step keeps the invariant.                                         *)
LEMMA GateStep == GateInv /\ [Next]_vars => GateInv'
<1> SUFFICES ASSUME GateInv, [Next]_vars PROVE GateInv'
  BY Zenon
<1> USE DEF run, files, routing, local, bounds, history, Review, Gate, End, Tool
<1>t. TypeOK' /\ Ended' /\ Named'
  BY TypeStep, EndedStep, Zenon DEF GateInv
<1>r. progress \in Progress /\ pc # "done" => result = "running"
  BY Zenon DEF GateInv, TypeOK, Ended
<1>p. progress \in Progress
  BY Zenon DEF GateInv, TypeOK
<1>1. CASE UNCHANGED vars
  BY <1>1, SMTT(60) DEF vars, GateInv, TypeOK, Ended, Named, InSync, Noticed, Untorn, Disputed, InView,
              Standing, Fresh, Passing, Target, Clean, Changed, Reviewed
<1>2. CASE Interrupted \/ AskAboutReview \/ NoModelLeft \/ BeginTurn \/ TodoTool \/ FinalReply
           \/ SchemaFails \/ AskAboutDispute
  <2>1. /\ UNCHANGED <<run, files, verdict, stray, torn, progress>>
        /\ pc' \in {"boundary", "reply", "sync", "done"} /\ result' # "pass"
    BY <1>2, <1>r, <1>p, Zenon DEF Interrupted, AskAboutReview, NoModelLeft, BeginTurn, TodoTool,
       FinalReply, SchemaFails, AskAboutDispute
  <2>2. QED  BY <1>t, <2>1, QuietStep, Zenon
<1>3. CASE AnswerOffTopic \/ FinalCheckRefuses \/ TodosRefuse \/ RefuseUnchanged \/ AdjudicationFails
  <2>1. /\ UNCHANGED <<run, files, verdict, stray, torn>>
        /\ pc' = "boundary" /\ result' # "pass"
    BY <1>3, <1>r, <1>p, Zenon DEF AnswerOffTopic, FinalCheckRefuses, TodosRefuse, RefuseUnchanged,
       AdjudicationFails
  <2>2. /\ progress'.edited = progress.edited /\ progress'.reviewed = progress.reviewed
        /\ progress'.workspaceHash = progress.workspaceHash /\ progress'.checks = progress.checks
    BY <1>3, <1>p DEF Progress, AnswerOffTopic, FinalCheckRefuses, TodosRefuse, RefuseUnchanged,
       AdjudicationFails
  <2>3. QED  BY <1>t, <2>1, <2>2, QuietStep, Zenon
<1>4. CASE EditTool
  <2>1. PICK t \in Contents : tree' = t /\ progress' = ObserveEdit(Synced(progress, head, t))
    BY <1>4, Zenon DEF EditTool
  <2>2. /\ UNCHANGED <<run, base, verdict, torn>> /\ head' = head /\ pc' = "boundary"
        /\ result' = "running" /\ stray' = (stray /\ ~git)
    BY <1>4, <1>r, <1>p, Zenon DEF EditTool
  <2>3. /\ progress'.edited /\ ~progress'.reviewed /\ progress'.checks = {}
        /\ progress'.workspaceHash = Synced(progress, head, t).workspaceHash
    BY <2>1, <1>p, SyncedFacts, EditFacts, Zenon DEF GateInv, TypeOK
  <2>4. git => progress'.workspaceHash = IF Changed(head, t) THEN t ELSE NoDiff
    BY <2>1, <2>3, <1>p, SyncedFacts, Zenon DEF GateInv, TypeOK
  <2>5. InSync'
    BY <2>1, <2>2, <2>4, ConstantsAssumption, Zenon DEF InSync, Changed
  <2>6. Noticed' /\ Standing' /\ Fresh'
    BY <2>3, Zenon DEF Noticed, Standing, Fresh
  <2>7. Untorn' /\ Disputed' /\ InView' /\ Passing'
    BY <2>2, Zenon DEF Untorn, Disputed, InView, Passing
  <2>8. QED  BY <1>t, <2>5, <2>6, <2>7, Zenon DEF GateInv
<1>5. CASE ExecTool
  <2>1. PICK t \in Contents, h \in {head, tree}, ok \in BOOLEAN :
           /\ h = head \/ git
           /\ tree' = t /\ head' = h
           /\ progress' = IF ok THEN ObserveExec(Synced(progress, h, t), t)
                          ELSE Synced(progress, h, t)
           /\ stray' = (~git /\ (stray \/ t # tree))
    BY <1>5, Zenon DEF ExecTool
  <2>2. /\ UNCHANGED <<run, base, verdict, torn>> /\ pc' = "boundary" /\ result' = "running"
    BY <1>5, <1>r, <1>p, Zenon DEF ExecTool
  <2>3. h \in Contents
    BY Zenon DEF GateInv, TypeOK
  <2>4. /\ progress'.workspaceHash = Synced(progress, h, t).workspaceHash
        /\ progress'.edited = Synced(progress, h, t).edited
        /\ progress'.reviewed = Synced(progress, h, t).reviewed
        /\ progress'.checks \subseteq Synced(progress, h, t).checks \cup {t}
    <3>1. Synced(progress, h, t) \in Progress
      BY <1>p, <2>3, SyncedFacts, Zenon DEF GateInv, TypeOK
    <3>2. QED  BY <2>1, <3>1, ExecFacts, Zenon
  <2>5. InSync' /\ Noticed' /\ Standing' /\ Fresh'
    BY <1>t, <2>1, <2>2, <2>3, <2>4, LookStep, Zenon
  <2>6. Untorn' /\ Disputed' /\ InView' /\ Passing'
    BY <2>2, Zenon DEF Untorn, Disputed, InView, Passing
  <2>7. QED  BY <1>t, <2>5, <2>6, Zenon DEF GateInv
<1>6. CASE JobTool \/ Sync
  <2>1. /\ UNCHANGED <<run, files, verdict, torn>> /\ stray' = (stray /\ ~git)
        /\ progress' = Synced(progress, head, tree) /\ result' = "running"
    BY <1>6, <1>r, <1>p, Zenon DEF JobTool, Sync
  <2>2. head \in Contents /\ tree \in Contents
    BY Zenon DEF GateInv, TypeOK
  <2>3. InSync' /\ Noticed' /\ Standing' /\ Fresh'
    BY <1>t, <2>1, <2>2, LookStep, Zenon
  <2>4. CASE JobTool
    BY <1>t, <2>1, <2>3, <2>4, Zenon DEF JobTool, GateInv, Untorn, Disputed, InView, Passing
  <2>5. CASE Sync
    <3>1. /\ pc' \in {"hash", "schema"}
          /\ pc' = "schema" => ~progress'.edited \/ progress'.reviewed \/ ~depth
      BY <2>5, Zenon DEF Sync
    <3>2. Untorn' /\ Disputed' /\ InView'
      BY <2>1, <3>1, Zenon DEF Untorn, Disputed, InView
    <3>3. Passing'
      BY <2>1, <2>3, <3>1, Zenon DEF Passing, Noticed, Standing, Clean, Target
    <3>4. QED  BY <1>t, <2>3, <3>2, <3>3, Zenon DEF GateInv
  <2>6. QED  BY <1>6, <2>4, <2>5, Zenon
<1>7. CASE HashDiff
  <2>1. /\ UNCHANGED <<run, files, progress, result, verdict, stray, torn>>
        /\ pc = "hash" /\ diff' = ReviewDiff /\ pc' \in {"unchanged", "collect"}
        /\ pc' = "unchanged" => diff' # NoDiff
    BY <1>7, Zenon DEF HashDiff
  <2>2. Target' = Target /\ Clean' = Clean /\ result' = "running"
    BY <2>1, <1>r, <1>p, Zenon DEF Target, Clean
  <2>3. Untorn' /\ InView' /\ Passing'
    BY <2>1, <2>2, Zenon DEF GateInv, Untorn, InView, Passing
  <2>4. Disputed'
    BY <2>1, <2>2, DiffIsTarget, Zenon DEF Disputed, Content
  <2>5. InSync' /\ Noticed' /\ Standing' /\ Fresh'
    BY <2>1, <2>2, Zenon DEF GateInv, InSync, Noticed, Standing, Fresh, Changed, Reviewed
  <2>6. QED  BY <1>t, <2>3, <2>4, <2>5, Zenon DEF GateInv
<1>8. CASE Accept
  <2>1. /\ UNCHANGED <<run, files, progress, verdict, stray, torn>>
        /\ pc = "schema" /\ pc' = "done"
    BY <1>8, Zenon DEF Accept
  <2>2. Target' = Target /\ Clean' = Clean
    BY <2>1, Zenon DEF Target, Clean
  <2>3. Untorn' /\ Disputed' /\ InView'
    BY <2>1, Zenon DEF Untorn, Disputed, InView
  <2>4. InSync' /\ Noticed' /\ Standing' /\ Fresh' /\ Passing'
    BY <2>1, <2>2, Zenon DEF GateInv, InSync, Noticed, Standing, Fresh, Passing, Changed, Reviewed
  <2>5. QED  BY <1>t, <2>3, <2>4, Zenon DEF GateInv
<1>9. CASE CollectNothing
  <2>1. /\ UNCHANGED <<run, files, result, stray, torn>> /\ pc = "collect"
        /\ seen' = ReviewDiff /\ LetThrough
    BY <1>9, Zenon DEF CollectNothing
  <2>2. seen' \in Diffs \cup {NoDiff}
    BY <2>1, ReviewDiffType, Zenon DEF GateInv
  <2>3. Clean /\ Target \in Contents => seen' # NoDiff /\ Content(seen') = Target
    BY <2>1, DiffIsTarget, Zenon
  <2>4. QED  BY <1>t, <2>1, <2>2, <2>3, ThroughStep, Zenon
<1>10. CASE CollectDiff \/ Adjudicate
  <2>1. /\ UNCHANGED <<run, files, result, verdict, stray, torn>>
        /\ pc \in {"collect", "unchanged"} /\ pc' \in {"cascade", "adjudicate"}
        /\ seen' = ReviewDiff
    BY <1>10, Zenon DEF CollectDiff, Adjudicate
  <2>2. /\ progress'.edited = progress.edited /\ progress'.reviewed = progress.reviewed
        /\ progress'.workspaceHash = progress.workspaceHash /\ progress'.checks = progress.checks
    BY <1>10, <1>p, Zenon DEF Progress, CollectDiff, Adjudicate
  <2>3. Target' = Target /\ Clean' = Clean /\ result' = "running"
    BY <2>1, <2>2, <1>r, <1>p, Zenon DEF Target, Clean
  <2>4. Clean => ReviewDiff # NoDiff
    <3>1. CASE CollectDiff
      BY <3>1, Zenon DEF CollectDiff
    <3>2. CASE Adjudicate
      <4>1. Clean => Target \in Contents
        BY <3>2, Zenon DEF Adjudicate, GateInv, TypeOK, Named, Disputed, Diffs, Content
      <4>2. QED  BY <2>1, <4>1, DiffIsTarget, Zenon
    <3>3. QED  BY <1>10, <3>1, <3>2, Zenon
  <2>5. InView'
    BY <2>1, <2>3, <2>4, DiffIsTarget, Zenon DEF InView
  <2>6. Untorn' /\ Disputed' /\ Passing'
    BY <2>1, <2>3, Zenon DEF Untorn, Disputed, Passing
  <2>7. InSync' /\ Noticed' /\ Standing' /\ Fresh'
    BY <2>1, <2>2, <2>3, Zenon DEF GateInv, InSync, Noticed, Standing, Fresh, Changed, Reviewed
  <2>8. QED  BY <1>t, <2>5, <2>6, <2>7, Zenon DEF GateInv
<1>11. ASSUME pc \in {"cascade", "full", "retry", "adjudicate"}, LetThrough \/ Reject,
              UNCHANGED <<run, files, result, stray, torn, seen>>
       PROVE  GateInv'
  <2>1. seen' \in Diffs \cup {NoDiff} /\ (Clean => seen' # NoDiff /\ Content(seen') = Target)
    BY <1>11, Zenon DEF GateInv, TypeOK, InView, Content
  <2>2. CASE LetThrough
    BY <1>t, <1>11, <2>1, <2>2, ThroughStep, Zenon
  <2>3. CASE Reject
    BY <1>t, <1>11, <2>3, RejectStep, Zenon
  <2>4. QED  BY <1>11, <2>2, <2>3, Zenon
<1>12. CASE LightReview \/ SkipReview \/ RetryShards \/ Adjudicated
  <2>1. LetThrough \/ Reject
    BY <1>12, Zenon DEF LightReview, SkipReview, RetryShards, Adjudicated, Conclude
  <2>2. QED  BY <1>12, <2>1, <1>11, Zenon DEF LightReview, SkipReview, RetryShards, Adjudicated
<1>13. ASSUME pc \in {"cascade", "full"}, pc' \in {"full", "retry"},
              UNCHANGED <<run, files, result, stray, torn, seen, progress, verdict>>
       PROVE  GateInv'
  <2>1. Target' = Target /\ Clean' = Clean /\ result' = "running"
    BY <1>13, <1>r, <1>p, Zenon DEF Target, Clean
  <2>2. Untorn' /\ Disputed' /\ InView' /\ Passing'
    BY <1>13, <2>1, Zenon DEF GateInv, Untorn, Disputed, InView, Passing, Content
  <2>3. InSync' /\ Noticed' /\ Standing' /\ Fresh'
    BY <1>13, <2>1, Zenon DEF GateInv, InSync, Noticed, Standing, Fresh, Changed, Reviewed
  <2>4. QED  BY <1>t, <2>2, <2>3, Zenon DEF GateInv
<1>14. CASE Escalate
  BY <1>13, <1>14, Zenon DEF Escalate
<1>15. CASE FullReview
  <2>1. \/ pc' = "retry" /\ UNCHANGED <<progress, verdict>>
        \/ LetThrough \/ Reject
    BY <1>15, Zenon DEF FullReview, Conclude
  <2>2. pc = "full" /\ UNCHANGED <<run, files, result, stray, torn, seen>>
    BY <1>15, Zenon DEF FullReview
  <2>3. QED  BY <1>11, <1>13, <2>1, <2>2, Zenon
<1>16. CASE AcceptDispute
  <2>1. /\ UNCHANGED <<run, files, result, stray, torn, progress, diff>>
        /\ pc = "unchanged" /\ pc' = "schema" /\ ~root
        /\ verdict' = [verdict EXCEPT ![Content(diff)] = "disputed"]
    BY <1>16, Zenon DEF AcceptDispute, Record, GateInv, Named
  <2>2. Target' = Target /\ Clean' = Clean
    BY <2>1, Zenon DEF Target, Clean
  <2>3. Clean' /\ Target' \in Contents => Reviewed(Target)'
    BY <2>1, <2>2, Zenon DEF GateInv, TypeOK, Disputed, Reviewed
  <2>4. Standing' /\ Passing'
    BY <2>3, Zenon DEF Standing, Passing
  <2>5. Untorn' /\ Disputed' /\ InView'
    BY <2>1, Zenon DEF Untorn, Disputed, InView
  <2>6. InSync' /\ Noticed' /\ Fresh'
    BY <2>1, <2>2, Zenon DEF GateInv, InSync, Noticed, Fresh, Changed
  <2>7. QED  BY <1>t, <2>4, <2>5, <2>6, Zenon DEF GateInv
<1>17. CASE OutsideWrites
  <2>1. /\ UNCHANGED <<run, progress, pc, result, verdict, diff, seen>> /\ stray' /\ pc # "done"
        /\ torn' = (torn \/ pc \in {"hash", "collect", "unchanged"})
    BY <1>17, Zenon DEF OutsideWrites
  <2>2. Clean' => Clean /\ git /\ git' /\ Target' = Target
               /\ pc \notin {"hash", "collect", "unchanged"}
    BY <2>1, Zenon DEF Target, Clean
  <2>3. InSync' /\ Noticed' /\ Untorn'
    BY <2>1, Zenon DEF GateInv, InSync, Noticed, Untorn
  <2>4. Disputed' /\ InView' /\ Standing' /\ Fresh' /\ Passing'
    BY <2>1, <2>2, Zenon DEF GateInv, Disputed, InView, Standing, Fresh, Passing, Reviewed, Content
  <2>5. QED  BY <1>t, <2>3, <2>4, Zenon DEF GateInv
<1>18. QED
  BY <1>1, <1>2, <1>3, <1>4, <1>5, <1>6, <1>7, <1>8, <1>9, <1>10, <1>12, <1>14, <1>15, <1>16,
     <1>17, Zenon
  DEF Next, RunStep, Turn, Gates, Reviews

-----------------------------------------------------------------------------
(* A run starts with nothing changed, nothing reviewed and nothing shown.  *)
LEMMA GateInit == Init => GateInv
<1> SUFFICES ASSUME Init PROVE GateInv
  BY Zenon
<1> USE ConstantsAssumption DEF Init
<1>1. progress \in Progress
  BY Limits DEF newProgressTracker, Progress
<1>2. TypeOK
  <2>1. strikes \in [Models -> 0 .. MaxStrikes] /\ tools \in 0 .. MaxTools
        /\ outside \in 0 .. MaxOutside
    BY Limits
  <2>2. verdict \in [Contents -> {"none", "through", "rejected", "disputed"}]
    BY Zenon
  <2>3. QED  BY <1>1, <2>1, <2>2, Zenon DEF TypeOK
<1>3. progress.workspaceHash \notin Contents /\ ~progress.reviewed /\ progress.checks = {}
  BY Zenon DEF newProgressTracker
<1>4. InSync /\ Noticed
  BY <1>3, Zenon DEF InSync, Noticed, Changed
<1>5. QED
  BY <1>2, <1>3, <1>4, Zenon DEF GateInv, Ended, Named, Untorn, Disputed, InView, Standing, Fresh, Passing

(* The invariant implies what is promised: when nobody else wrote, the     *)
(* target is the file itself.                                              *)
LEMMA GateImplies == GateInv => CompletionInv
<1> SUFFICES ASSUME GateInv PROVE CompletionInv
  BY Zenon
<1>1. AcceptedWasReviewed
  <2> SUFFICES ASSUME result = "pass", depth, ~stray, ~torn, tree # base,
                      git => Changed(head, tree)
               PROVE  Reviewed(tree)
    BY Zenon DEF AcceptedWasReviewed
  <2>1. Clean /\ Target = tree /\ tree \in Contents
    BY Zenon DEF GateInv, TypeOK, InSync, Clean, Target
  <2>2. QED  BY <2>1, Zenon DEF GateInv, Passing
<1>2. EvidenceIsFresh
  <2> SUFFICES ASSUME pc \in {"cascade", "full", "retry"}, ~stray, ~torn
               PROVE  progress.checks \subseteq {Content(seen)}
    BY Zenon DEF EvidenceIsFresh
  <2>1. Clean /\ seen # NoDiff /\ Content(seen) = Target
    BY Zenon DEF GateInv, InView, Clean
  <2>2. Content(seen) \in Contents
    BY <2>1, Zenon DEF GateInv, TypeOK, Diffs, Content
  <2>3. QED  BY <2>1, <2>2, Zenon DEF GateInv, Fresh
<1>3. QED  BY <1>1, <1>2, Zenon DEF CompletionInv, GateInv

(* For any contents, models and limits, and whatever tools, reviewers and  *)
(* gates do and others write: a run is accepted only with content that     *)
(* reviewers were given and did not reject, and the commands shown to them *)
(* ran on the content under review (the gates at engine.go:1545-1610).     *)
THEOREM AcceptedIsReviewed == Spec => []CompletionInv
<1>1. GateInv /\ [Next]_vars => GateInv'
  BY GateStep, Zenon
<1>2. QED  BY GateInit, GateImplies, <1>1, PTL DEF Spec
=============================================================================
