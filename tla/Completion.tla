----------------------------- MODULE Completion -----------------------------
(***************************************************************************)
(* How one run of a session is allowed to finish (the part of Engine.run   *)
(* from engine.go:1508 on, with progress.go, workspace_changes.go,         *)
(* verification.go, review.go, review_dispute.go, answer_check.go and      *)
(* todo_guard.go).  A reply without tool calls passes, in this order, the  *)
(* check against the latest request, the host's final check, the           *)
(* independent review of what the run changed, the result schema and the   *)
(* todo plan.  Every gate may refuse and send the agent back to work.      *)
(*                                                                         *)
(* The workspace is one file in a git checkout: head is the committed      *)
(* content, tree the content on disk, base the content when the run began. *)
(* Somebody else (a background worker, the person) may write it between    *)
(* any two steps of the run.  The three reads of the workspace in one      *)
(* completion (sync, hash, collect) are three steps.                       *)
(*                                                                         *)
(* Replies that are empty or cut off, failed calls and routing are left    *)
(* out: a turn calls some model that is not excluded.                      *)
(***************************************************************************)
EXTENDS Integers

CONSTANTS
    Contents,              \* what the file may hold
    Original,              \* what is committed when the run begins
    Baselines,             \* what the file may hold when the run begins
    NoDiff,                \* the empty diff
    NoHash,                \* workspaceHash before the first sync
    Models,                \* the models routing may choose
    MaxReviewRejections,   \* progress.go
    MaxAnswerRejections,   \* answer_check.go
    MaxFinalRejections,    \* answer_check.go
    MaxTodoRejections,     \* todo_guard.go
    MaxStrikes,            \* progress.go: the strike that drops a model
    MaxShards,             \* bound: reviewers of one full review
    MaxTools,              \* bound: tool calls of the agent
    MaxOutside             \* bound: writes by others

ASSUME ConstantsAssumption ==
    /\ Original \in Contents /\ Baselines \subseteq Contents
    /\ NoDiff \notin Contents \cup (Contents \X Contents)
    /\ NoHash \notin Contents \cup {NoDiff}
    /\ {MaxReviewRejections, MaxAnswerRejections, MaxFinalRejections, MaxTodoRejections,
        MaxStrikes, MaxShards, MaxTools, MaxOutside} \subseteq Nat

VARIABLES
    root,        \* the run is a root session's, not a worker's
    depth,       \* req.Depth > 0
    git,         \* the workspace is a git checkout
    head, tree,  \* the workspace
    base,        \* the baseline
    progress,    \* *progressTracker, the fields the gates read
    open,        \* the todo plan has open items
    excluded,    \* progress.excluded
    strikes,     \* progress.strikes of kind result_schema
    model,       \* decision.Model
    diff,        \* diffHash of this completion
    seen,        \* the diff the reviewers of this completion were given
    shards,      \* the verdicts of a full review waiting for its retry
    pc, result,
    tools, outside,
    verdict,     \* history: the last verdict on each content
    stray,       \* history: somebody else, or a command outside git, wrote since the run last looked
    torn         \* history: somebody else wrote between two of the reads of one completion

run == <<root, depth, git>>
files == <<head, tree, base>>
routing == <<excluded, strikes, model>>
local == <<diff, seen, shards>>
bounds == <<tools, outside>>
history == <<verdict, stray, torn>>
vars == <<run, files, progress, open, routing, local, pc, result, bounds, history>>

Diffs == Contents \X Contents

Progress ==
    [edited : BOOLEAN, reviewed : BOOLEAN, remediation : BOOLEAN,
     workspaceHash : Contents \cup {NoDiff, NoHash},
     checks : SUBSET Contents,
     reviewRejections : 0 .. MaxReviewRejections, answerRejections : 0 .. MaxAnswerRejections,
     finalRejections : 0 .. MaxFinalRejections, todoRejections : 0 .. MaxTodoRejections,
     rejectedDiff : Diffs \cup {NoDiff},
     adjudicated : SUBSET Diffs, refused : SUBSET Diffs]

newProgressTracker ==
    [edited |-> FALSE, reviewed |-> FALSE, remediation |-> FALSE,
     workspaceHash |-> NoHash, checks |-> {},
     reviewRejections |-> 0, answerRejections |-> 0, finalRejections |-> 0, todoRejections |-> 0,
     rejectedDiff |-> NoDiff, adjudicated |-> {}, refused |-> {}]

Init ==
    /\ root \in BOOLEAN /\ depth \in BOOLEAN /\ git \in BOOLEAN
    /\ head = Original /\ tree \in Baselines /\ base = tree
    /\ progress = newProgressTracker
    /\ open \in BOOLEAN
    /\ excluded = {} /\ strikes = [m \in Models |-> 0] /\ model \in Models
    /\ diff = NoDiff /\ seen = NoDiff /\ shards = <<>>
    /\ pc = "boundary" /\ result = "running"
    /\ tools = 0 /\ outside = 0
    /\ verdict = [c \in Contents |-> "none"]
    /\ stray = FALSE /\ torn = FALSE

-----------------------------------------------------------------------------
(* The workspace as the run sees it.                                       *)

(* workspaceBaseline.changes: the file is listed when it is dirty now and  *)
(* was not dirty, or was something else, at the baseline.                  *)
Changed(h, t) == t # h /\ (base = Original \/ t # base)

(* reviewDiff: this run's changes in a checkout, everything elsewhere.     *)
ReviewDiff == IF git /\ ~Changed(head, tree) THEN NoDiff ELSE <<head, tree>>

(* A plausible mistake: the review outlives the change.                    *)
SyncedKeepingReview(p, h, t) ==
    LET hash == IF Changed(h, t) THEN t ELSE NoDiff
    IN  IF ~git \/ hash = p.workspaceHash THEN p
        ELSE IF hash = NoDiff /\ p.workspaceHash = NoHash THEN [p EXCEPT !.workspaceHash = hash]
        ELSE [p EXCEPT !.workspaceHash = hash, !.edited = TRUE, !.checks = {}]

(* syncWorkspaceChanges, and what it does to the tracker.                  *)
Synced(p, h, t) ==
    LET hash == IF Changed(h, t) THEN t ELSE NoDiff
    IN  IF ~git \/ hash = p.workspaceHash THEN p
        ELSE IF hash = NoDiff /\ p.workspaceHash = NoHash THEN [p EXCEPT !.workspaceHash = hash]
        ELSE [p EXCEPT !.workspaceHash = hash, !.edited = TRUE, !.reviewed = FALSE, !.checks = {}]

(* progressTracker.observe of an edit tool.                                *)
ObserveEdit(p) == [p EXCEPT !.edited = TRUE, !.reviewed = FALSE, !.checks = {}]

(* progressTracker.observe of a command: evidence, once something was      *)
(* edited.  The model keeps the content the command ran on.                *)
ObserveExec(p, t) == IF p.edited THEN [p EXCEPT !.checks = @ \cup {t}] ELSE p

-----------------------------------------------------------------------------
(* A turn.                                                                 *)

End(r) == pc' = "done" /\ result' = r

(* The context ended or a budget is used up (modelled in Workers and       *)
(* SessionTurns): the run ends at the turn boundary.                       *)
Interrupted ==
    /\ pc = "boundary" /\ End("stopped")
    /\ UNCHANGED <<run, files, progress, open, routing, local, bounds, history>>

(* reviewRemediationReason                                                 *)
TooManyRejections ==
    root /\ progress.remediation /\ progress.reviewRejections >= MaxReviewRejections

AskAboutReview ==
    /\ pc = "boundary" /\ TooManyRejections
    /\ End("asked")
    /\ UNCHANGED <<run, files, progress, open, routing, local, bounds, history>>

(* routeFailure: no model is left.                                         *)
NoModelLeft ==
    /\ pc = "boundary" /\ ~TooManyRejections /\ Models \ excluded = {}
    /\ End(IF root THEN "asked" ELSE "failed")
    /\ UNCHANGED <<run, files, progress, open, routing, local, bounds, history>>

BeginTurn ==
    /\ pc = "boundary" /\ ~TooManyRejections
    /\ model' \in Models \ excluded
    /\ diff' = NoDiff /\ seen' = NoDiff
    /\ pc' = "reply"
    /\ UNCHANGED <<run, files, progress, open, excluded, strikes, shards, result, bounds,
                   verdict, stray, torn>>

(* The reply calls a tool: the tool runs, the workspace is compared with   *)
(* what the run saw last, and the call is observed.                        *)
Tool == /\ pc = "reply" /\ tools < MaxTools
        /\ tools' = tools + 1
        /\ pc' = "boundary"
        /\ UNCHANGED <<run, base, routing, local, result, outside, verdict, torn>>

EditTool ==
    /\ Tool
    /\ \E t \in Contents :
         /\ tree' = t
         /\ progress' = ObserveEdit(Synced(progress, head, t))
    /\ stray' = (stray /\ ~git)
    /\ UNCHANGED <<head, open>>

(* exec: a check that leaves the file alone, a command that writes it, or  *)
(* a commit; it succeeds or not.                                           *)
ExecTool ==
    /\ Tool
    /\ \E t \in Contents, h \in {head, tree}, ok \in BOOLEAN :
         /\ t = tree \/ h = head
         /\ h = head \/ git
         /\ tree' = t /\ head' = h
         /\ LET p == Synced(progress, h, t)
            IN  progress' = IF ok THEN ObserveExec(p, t) ELSE p
         /\ stray' = (~git /\ (stray \/ t # tree))
    /\ UNCHANGED open

(* spawn, job and a failed edit look at the workspace too.                 *)
JobTool ==
    /\ Tool
    /\ progress' = Synced(progress, head, tree)
    /\ stray' = (stray /\ ~git)
    /\ UNCHANGED <<head, tree, open>>

TodoTool ==
    /\ Tool
    /\ open' = ~open
    /\ UNCHANGED <<head, tree, progress, stray>>

-----------------------------------------------------------------------------
(* The reply is a final answer.  The gates before the sync do not look at  *)
(* the workspace, so they are part of the reply's step.                    *)

Gate(from, to) ==
    /\ pc = from /\ pc' = to
    /\ UNCHANGED <<run, files, open, routing, local, result, bounds, history>>

(* checkAnswer                                                             *)
AnswerOffTopic ==
    /\ Gate("reply", "boundary")
    /\ progress.answerRejections < MaxAnswerRejections
    /\ progress' = [progress EXCEPT !.answerRejections = @ + 1]

FinalCheckRefuses ==
    /\ Gate("reply", "boundary")
    /\ root /\ progress.finalRejections < MaxFinalRejections
    /\ progress' = [progress EXCEPT !.finalRejections = @ + 1]

FinalReply == Gate("reply", "sync") /\ UNCHANGED progress

(* syncWorkspaceChanges, then the question whether a review is due.        *)
Sync ==
    /\ pc = "sync"
    /\ progress' = Synced(progress, head, tree)
    /\ pc' = IF progress'.edited /\ ~progress'.reviewed /\ depth THEN "hash" ELSE "schema"
    /\ stray' = (stray /\ ~git)
    /\ UNCHANGED <<run, files, open, routing, local, result, bounds, verdict, torn>>

(* reviewDiffHash                                                          *)
HashDiff ==
    /\ pc = "hash"
    /\ diff' = ReviewDiff
    /\ pc' = IF diff' # NoDiff /\ diff' = progress.rejectedDiff THEN "unchanged" ELSE "collect"
    /\ UNCHANGED <<run, files, progress, open, routing, seen, shards, result, bounds, history>>

-----------------------------------------------------------------------------
(* The review.                                                             *)

(* What a verdict does: the change is let through, or the findings go back *)
(* to the agent.  A review without a verdict lets the change through.      *)
Content(d) == d[2]

(* The counter is only compared with its limit.                            *)
Counted(n) == IF n < MaxReviewRejections THEN n + 1 ELSE n

Record(d, v) == verdict' = IF d = NoDiff THEN verdict ELSE [verdict EXCEPT ![Content(d)] = v]

LetThrough ==
    /\ progress' = [progress EXCEPT !.reviewed = TRUE]
    /\ Record(seen', "through")
    /\ pc' = "schema"

Reject ==
    /\ progress' = [progress EXCEPT !.reviewed = FALSE, !.remediation = TRUE,
                                    !.reviewRejections = Counted(@), !.rejectedDiff = diff]
    /\ Record(seen', "rejected")
    /\ pc' = "boundary"

Conclude(v) == IF v = "fail" THEN Reject ELSE LetThrough

Review(from) ==
    /\ pc = from
    /\ UNCHANGED <<run, files, open, routing, diff, result, bounds, stray, torn>>

(* reviewWorkspace reads the diff again: there is none, it cannot be read, *)
(* or it goes to the cascade.                                              *)
CollectNothing ==
    /\ Review("collect")
    /\ seen' = ReviewDiff
    /\ LetThrough
    /\ UNCHANGED <<shards>>

CollectDiff ==
    /\ Review("collect")
    /\ ReviewDiff # NoDiff
    /\ seen' = ReviewDiff
    /\ pc' = "cascade"
    /\ UNCHANGED <<progress, shards, verdict>>

(* reviewCascade: the gate approves, or the light reviewer decides.  A     *)
(* large change, an escalation and a light review without a verdict or     *)
(* without a finding go to the full review.                                *)
LightReview ==
    /\ Review("cascade")
    /\ UNCHANGED <<seen, shards>>
    /\ \E v \in {"pass", "fail"} : Conclude(v)

Escalate ==
    /\ Review("cascade")
    /\ UNCHANGED <<progress, seen, shards, verdict>>
    /\ pc' = "full"

(* review.Merge: a part without a verdict makes the review inconclusive,   *)
(* whatever the other parts found.                                         *)
Merge(vs) ==
    IF \E i \in DOMAIN vs : vs[i] = "none" THEN "inconclusive"
    ELSE IF \E i \in DOMAIN vs : vs[i] = "fail" THEN "fail" ELSE "pass"

Verdicts == UNION {[1 .. n -> {"pass", "fail", "none"}] : n \in 1 .. MaxShards}

(* The plan finds nothing to review.                                       *)
SkipReview ==
    /\ Review("full")
    /\ UNCHANGED <<seen, shards>>
    /\ LetThrough

FullReview ==
    /\ Review("full")
    /\ UNCHANGED seen
    /\ \E vs \in Verdicts :
         IF Merge(vs) = "inconclusive"
         THEN /\ shards' = vs /\ pc' = "retry"
              /\ UNCHANGED <<progress, verdict>>
         ELSE Conclude(Merge(vs)) /\ UNCHANGED shards

(* The parts without a verdict are reviewed once more.                     *)
RetryShards ==
    /\ Review("retry")
    /\ UNCHANGED seen
    /\ \E again \in [DOMAIN shards -> {"pass", "fail", "none"}] :
         LET vs == [i \in DOMAIN shards |-> IF shards[i] = "none" THEN again[i] ELSE shards[i]]
         IN  Conclude(Merge(vs))
    /\ shards' = <<>>

-----------------------------------------------------------------------------
(* The diff the last review rejected is offered again.                     *)

(* One refusal without a reviewer.  It counts as a rejection               *)
(* (markReviewRejected(true)).                                             *)
RefuseUnchanged ==
    /\ Review("unchanged")
    /\ UNCHANGED <<seen, shards, verdict>>
    /\ diff \notin progress.adjudicated /\ diff \notin progress.refused
    /\ progress' = [progress EXCEPT !.refused = @ \cup {diff}, !.remediation = TRUE,
                                    !.reviewRejections = Counted(@)]
    /\ pc' = "boundary"

(* The agent disputes the findings, or was refused once: another family    *)
(* adjudicates, on the diff as it is now.                                  *)
Adjudicate ==
    /\ Review("unchanged")
    /\ diff \notin progress.adjudicated
    /\ progress' = [progress EXCEPT !.adjudicated = @ \cup {diff}]
    /\ seen' = ReviewDiff
    /\ pc' = "adjudicate"
    /\ UNCHANGED <<shards, verdict>>

Adjudicated ==
    /\ Review("adjudicate")
    /\ UNCHANGED <<seen, shards>>
    /\ \E v \in {"pass", "fail"} : Conclude(v)

(* No verdict, or one that contradicts itself: the original findings stand *)
AdjudicationFails ==
    /\ Review("adjudicate")
    /\ UNCHANGED <<seen, shards, verdict>>
    /\ progress' = [progress EXCEPT !.remediation = TRUE]
    /\ pc' = "boundary"

(* Adjudicated before and still unchanged: the person decides, or the      *)
(* parent does.                                                            *)
AskAboutDispute ==
    /\ pc = "unchanged" /\ diff \in progress.adjudicated /\ root
    /\ End("asked")
    /\ UNCHANGED <<run, files, progress, open, routing, local, bounds, history>>

AcceptDispute ==
    /\ Review("unchanged")
    /\ UNCHANGED <<progress, seen, shards>>
    /\ diff \in progress.adjudicated /\ ~root
    /\ Record(diff, "disputed")
    /\ pc' = "schema"

-----------------------------------------------------------------------------
(* The gates after the review: the schema, then the todo plan.             *)

(* A plausible mistake: the strikes are counted and nobody is dropped.     *)
SchemaFailsKeeping ==
    /\ pc = "schema" /\ pc' = "boundary"
    /\ UNCHANGED <<run, files, progress, open, routing, local, result, bounds, history>>

(* validateSchema; the third failure of a model drops it.                  *)
SchemaFails ==
    /\ pc = "schema" /\ pc' = "boundary"
    /\ LET third == strikes[model] + 1 >= MaxStrikes
       IN  /\ strikes' = [strikes EXCEPT ![model] = IF third THEN 0 ELSE @ + 1]
           /\ excluded' = IF third THEN excluded \cup {model} ELSE excluded
    /\ UNCHANGED <<run, files, progress, open, model, local, result, bounds, history>>

(* openTodosGuard                                                          *)
MayRefuseTodos == root /\ open /\ progress.todoRejections < MaxTodoRejections

TodosRefuse ==
    /\ Gate("schema", "boundary")
    /\ MayRefuseTodos
    /\ progress' = [progress EXCEPT !.todoRejections = @ + 1]

Accept ==
    /\ pc = "schema" /\ ~MayRefuseTodos
    /\ End("pass")
    /\ UNCHANGED <<run, files, progress, open, routing, local, bounds, history>>

-----------------------------------------------------------------------------
(* Somebody else writes the workspace.                                     *)
OutsideWrites ==
    /\ pc # "done" /\ outside < MaxOutside
    /\ tree' \in Contents \ {tree}
    /\ outside' = outside + 1
    /\ stray' = TRUE
    /\ torn' = (torn \/ pc \in {"hash", "collect", "unchanged"})
    /\ UNCHANGED <<run, head, base, progress, open, routing, local, pc, result, tools, verdict>>

Turn == Interrupted \/ AskAboutReview \/ NoModelLeft \/ BeginTurn
            \/ EditTool \/ ExecTool \/ JobTool \/ TodoTool

Gates == AnswerOffTopic \/ FinalCheckRefuses \/ FinalReply \/ Sync \/ HashDiff
            \/ SchemaFails \/ TodosRefuse \/ Accept

Reviews == CollectNothing \/ CollectDiff \/ LightReview \/ Escalate \/ SkipReview \/ FullReview
            \/ RetryShards \/ RefuseUnchanged \/ Adjudicate \/ Adjudicated \/ AdjudicationFails
            \/ AskAboutDispute \/ AcceptDispute

RunStep == Turn \/ Gates \/ Reviews

Next == RunStep \/ OutsideWrites

Spec == Init /\ [][Next]_vars

(* Every call and every tool of a run has a deadline, so a run takes its   *)
(* next step.                                                              *)
FairSpec == Spec /\ WF_vars(RunStep)

-----------------------------------------------------------------------------
TypeOK ==
    /\ root \in BOOLEAN /\ depth \in BOOLEAN /\ git \in BOOLEAN
    /\ head \in Contents /\ tree \in Contents /\ base \in Contents
    /\ progress \in Progress
    /\ open \in BOOLEAN
    /\ excluded \subseteq Models /\ strikes \in [Models -> 0 .. MaxStrikes] /\ model \in Models
    /\ diff \in Diffs \cup {NoDiff} /\ seen \in Diffs \cup {NoDiff}
    /\ shards \in {<<>>} \cup Verdicts
    /\ pc \in {"boundary", "reply", "sync", "hash", "collect", "cascade", "full",
               "retry", "unchanged", "adjudicate", "schema", "done"}
    /\ result \in {"running", "stopped", "asked", "failed", "pass"}
    /\ tools \in 0 .. MaxTools /\ outside \in 0 .. MaxOutside
    /\ verdict \in [Contents -> {"none", "through", "rejected", "disputed"}]
    /\ stray \in BOOLEAN /\ torn \in BOOLEAN

(* The content was given to a review, and the last word on it does not     *)
(* reject it.  Only a worker may hand in what a review rejected, disputed. *)
Reviewed(c) == verdict[c] \in {"through"} \cup IF root THEN {} ELSE {"disputed"}

(* A run that changed a file is accepted only with the content reviewers   *)
(* were given: no edit, command or commit after a review, no dispute and   *)
(* no refusal lets other content, or content last rejected, through the    *)
(* gate at engine.go:1547.  Said of changes git lists, when nobody else    *)
(* wrote since the run last looked or between the reads of a completion.   *)
AcceptedWasReviewed ==
    result = "pass" /\ depth /\ ~stray /\ ~torn /\ tree # base /\ (git => Changed(head, tree))
        => Reviewed(tree)

(* The commands shown to reviewers as evidence (progress.checksSinceEdit)  *)
(* all ran on the content under review.                                    *)
EvidenceIsFresh ==
    pc \in {"cascade", "full", "retry"} /\ ~stray /\ ~torn => progress.checks \subseteq {Content(seen)}

(* What is accepted was reviewed, and reviewed with evidence of the content *)
(* under review (the gates at engine.go:1545-1610).                         *)
CompletionInv == TypeOK /\ AcceptedWasReviewed /\ EvidenceIsFresh
=============================================================================
