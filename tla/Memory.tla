------------------------------- MODULE Memory -------------------------------
(* Workspace memory: the records of one workspace, the people and automatic *)
(* jobs that change them, and what each session has been told.              *)
(*                                                                          *)
(* A person proposes, confirms, corrects, forgets or restores a record,     *)
(* through the memory tool or an operator console.  An automatic job, the   *)
(* wake sweep or the candidates of an extraction, judges the pending        *)
(* records and files a candidate.  Each works in store calls: it lists the  *)
(* records, decides, applies one guarded statement and then marks the       *)
(* pinned epochs of the workspace stale.  A session refreshes its epoch at  *)
(* a turn boundary: it copies the epoch, lists, and stores the copy back.   *)
EXTENDS Integers, Sequences, FiniteSets

CONSTANTS
    Sessions, Texts,
    People,       \* calls of the memory tool and of AdminMemory, one at a time each
    Jobs,         \* extractions and sweeps
    Selector,     \* a host selector is set, which may choose pending records
    Limit,        \* cfg.Memory.Records
    Retain,       \* cfg.Memory.ExpiresAfterDays, in clock ticks
    Scenarios     \* where a behaviour starts and how much of each it has:
                  \* [start, person, jobs, refreshes, ticks]

NoJob == "none"

Statuses == {"pending", "active", "superseded", "expired", "deleted"}
Record == [text: Texts, status: Statuses, sup: Nat, sid: Sessions,
           prov: {"observed", "user", "extracted"}, exp: Nat]

(* Records no correction has replaced yet, each text extracted once.        *)
Settling(start) ==
    /\ start \in Seq(Record)
    /\ \A i \in DOMAIN start : start[i].sup = 0
    /\ \A i, k \in DOMAIN start :
          start[i].prov = "extracted" /\ start[k].prov = "extracted" /\ start[i].text = start[k].text
              => i = k

ASSUME MemoryAssumption ==
    /\ Selector \in BOOLEAN /\ NoJob \notin Jobs
    /\ {Limit, Retain} \subseteq Nat
    /\ \A sc \in Scenarios : /\ {sc.person, sc.jobs, sc.refreshes, sc.ticks} \subseteq Nat
                            /\ Settling(sc.start)

VARIABLES
    recs,      \* memory_records, by id
    clock,
    person,    \* where each person's call is
    job,       \* where each automatic job is
    lock,      \* memoryExtractionMu: the job that holds it, or NoJob
    epoch,     \* memoryEpochs, by session
    refresh,   \* where each session's refreshMemory is
    left,      \* what the bounds still allow
    overtaken, \* history: records a person changed while a job held a copy
    missed     \* history: sessions whose refresh was storing back when a
               \* change was announced

vars == <<recs, clock, person, job, lock, epoch, refresh, left, overtaken, missed>>

NoEpoch == [pinned |-> FALSE]
NoCandidate == [sweep |-> TRUE]
Idle == [at |-> "idle"]

Ids == DOMAIN recs

Init ==
    /\ \E sc \in Scenarios :
          /\ recs = sc.start
          /\ left = [person |-> sc.person, jobs |-> sc.jobs, refreshes |-> sc.refreshes,
                     ticks |-> sc.ticks]
    /\ clock = 0
    /\ person = [p \in People |-> Idle]
    /\ job = [j \in Jobs |-> Idle] /\ lock = NoJob
    /\ epoch = [s \in Sessions |-> NoEpoch]
    /\ refresh = [s \in Sessions |-> Idle]
    /\ overtaken = {} /\ missed = {}

(* Time passes; an expiry that has elapsed shows at the next listing.       *)
Tick ==
    /\ left.ticks > 0
    /\ left' = [left EXCEPT !.ticks = @ - 1]
    /\ clock' = clock + 1
    /\ UNCHANGED <<recs, person, job, lock, epoch, refresh, overtaken, missed>>

-----------------------------------------------------------------------------
(* The store                                                                *)

MemoryExpired(r) == r.status \in {"active", "pending"} /\ r.exp <= clock

(* ListMemory stores elapsed expiries before it reads.                      *)
Listed == [i \in Ids |-> IF MemoryExpired(recs[i]) THEN [recs[i] EXCEPT !.status = "expired"]
                         ELSE recs[i]]

NewRecord(text, status, sid, prov) ==
    [text |-> text, status |-> status, sup |-> 0, sid |-> sid, prov |-> prov,
     exp |-> clock + Retain]

(* The guard of UpdateMemory and of superseding: neither a tombstone nor a  *)
(* superseded record changes.                                               *)
Rewritable(i) == recs[i].status \notin {"deleted", "superseded"}

Commit(r) == Append(recs, r)
Update(i, r) == IF Rewritable(i) THEN [recs EXCEPT ![i] = r] ELSE recs
Correct(i, r) ==
    IF Rewritable(i)
    THEN Append([recs EXCEPT ![i].status = "superseded", ![i].sup = Len(recs) + 1], r)
    ELSE recs
ForgetMemory(i) ==
    IF recs[i].status # "deleted" THEN [recs EXCEPT ![i].status = "deleted"] ELSE recs
Restore(i) ==
    IF recs[i].status # "active"
    THEN [recs EXCEPT ![i].status = "active", ![i].sup = 0, ![i].exp = clock + Retain]
    ELSE recs

(* invalidateMemoryWorkspace marks every pinned epoch stale.  A session     *)
(* about to store back the copy it made before does not see the mark.       *)
\* Mutant: only epochs that told something are marked.
InvalidatedIfTold == [s \in Sessions |-> IF epoch[s].pinned /\ DOMAIN epoch[s].told # {}
                                         THEN [epoch[s] EXCEPT !.stale = TRUE] ELSE epoch[s]]

Invalidated == [s \in Sessions |-> IF epoch[s].pinned THEN [epoch[s] EXCEPT !.stale = TRUE]
                                   ELSE epoch[s]]

Invalidate ==
    /\ epoch' = Invalidated
    /\ missed' = missed \cup {s \in Sessions : refresh[s].at = "store"}

-----------------------------------------------------------------------------
(* People: controlMemory and AdminMemory                                    *)

To(p, state) == person' = [person EXCEPT ![p] = state]

(* A record is looked up by listing; an operation checks the status it saw  *)
(* and goes on with that copy.                                              *)
Permitted(op, r) ==
    CASE op = "confirm" -> r.status = "pending"
      [] op = "correct" -> r.status = "active"
      [] op = "forget"  -> r.status # "deleted"
      [] op = "restore" -> r.status # "active"

PersonFinds(p) ==
    /\ person[p].at = "idle" /\ left.person > 0
    /\ left' = [left EXCEPT !.person = @ - 1]
    /\ recs' = Listed
    /\ \E op \in {"confirm", "correct", "forget", "restore"}, i \in Ids :
          /\ Permitted(op, Listed[i])
          /\ To(p, [at |-> "apply", op |-> op, id |-> i, copy |-> Listed[i]])
    /\ UNCHANGED <<clock, job, lock, epoch, refresh, overtaken, missed>>

PersonProposes(p) ==
    /\ person[p].at = "idle" /\ left.person > 0
    /\ left' = [left EXCEPT !.person = @ - 1]
    /\ \E t \in Texts, s \in Sessions : recs' = Commit(NewRecord(t, "active", s, "observed"))
    /\ To(p, [at |-> "invalidate"])
    /\ UNCHANGED <<clock, job, lock, epoch, refresh, overtaken, missed>>

HeldCopies == UNION {job[j].held : j \in {k \in Jobs : job[k].at # "idle"}}

(* The statement and its event, in one transaction.  A correction is made   *)
(* by the session of the tool call or of the record.                        *)
PersonApplies(p) ==
    LET me == person[p]
    IN  /\ me.at = "apply"
        /\ \/ /\ me.op = "confirm"
              /\ recs' = Update(me.id, [me.copy EXCEPT !.status = "active", !.exp = clock + Retain])
           \/ /\ me.op = "correct"
              /\ \E t \in Texts, s \in Sessions :
                    recs' = Correct(me.id, NewRecord(t, "active", s, "user"))
           \/ me.op = "forget" /\ recs' = ForgetMemory(me.id)
           \/ me.op = "restore" /\ recs' = Restore(me.id)
        /\ To(p, IF recs' = recs THEN Idle ELSE [at |-> "invalidate"])
        /\ overtaken' = IF recs' # recs /\ me.id \in HeldCopies THEN overtaken \cup {me.id}
                        ELSE overtaken
        /\ UNCHANGED <<clock, job, lock, epoch, refresh, left, missed>>

PersonInvalidates(p) ==
    /\ person[p].at = "invalidate"
    /\ Invalidate
    /\ To(p, Idle)
    /\ UNCHANGED <<recs, clock, job, lock, refresh, left, overtaken>>

-----------------------------------------------------------------------------
(* Jobs: persistMemoryCandidates and cleanupPendingMemory                   *)

At(j, state) == job' = [job EXCEPT ![j] = state]

CanLock(j) == lock = NoJob

(* A sweep has no session and no candidate.                                 *)
JobBegins(j) ==
    /\ job[j].at = "idle" /\ left.jobs > 0 /\ CanLock(j)
    /\ left' = [left EXCEPT !.jobs = @ - 1]
    /\ lock' = j
    /\ \E c \in {NoCandidate} \cup [text : Texts, sid : Sessions] :
          At(j, [at |-> "pending", cand |-> c, held |-> {}])
    /\ UNCHANGED <<recs, clock, person, epoch, refresh, overtaken, missed>>

\* Mutant: every live record is judged again.
LiveIds == {i \in Ids : Listed[i].status \in {"pending", "active"}}

PendingIds == {i \in Ids : Listed[i].status = "pending"}

(* retriagePendingMemory lists the pending records ...                      *)
JobListsPending(j) ==
    /\ job[j].at = "pending"
    /\ recs' = Listed
    /\ At(j, [at |-> "triage", cand |-> job[j].cand, held |-> PendingIds,
              copies |-> [i \in PendingIds |-> Listed[i]], changed |-> FALSE])
    /\ UNCHANGED <<clock, person, lock, epoch, refresh, left, overtaken, missed>>

(* ... and settles each by its score: it is left, activated or forgotten.   *)
(* The sweep writes the score on the record it forgets.                     *)
Settled(me, i, verdict) ==
    CASE verdict = "activate" -> Update(i, [me.copies[i] EXCEPT !.status = "active"])
      [] verdict = "forget"   -> IF me.cand = NoCandidate /\ Rewritable(i)
                                 THEN [recs EXCEPT ![i] = [me.copies[i] EXCEPT !.status = "deleted"]]
                                 ELSE ForgetMemory(i)
      [] verdict = "leave"    -> recs

Verdicts == {"activate", "forget", "leave"}

JobTriages(j) ==
    /\ job[j].at = "triage"
    /\ \E i \in job[j].held, verdict \in Verdicts :
          /\ recs' = Settled(job[j], i, verdict)
          /\ At(j, [at |-> "triage", cand |-> job[j].cand, held |-> job[j].held \ {i},
                    copies |-> job[j].copies, changed |-> job[j].changed \/ recs' # recs])
    /\ UNCHANGED <<clock, person, lock, epoch, refresh, left, overtaken, missed>>

JobTriaged(j) ==
    /\ job[j].at = "triage" /\ job[j].held = {}
    /\ IF job[j].changed THEN Invalidate ELSE UNCHANGED <<epoch, missed>>
    /\ IF job[j].cand = NoCandidate
       THEN At(j, Idle) /\ lock' = NoJob
       ELSE At(j, [at |-> "candidate", cand |-> job[j].cand, held |-> {}]) /\ UNCHANGED lock
    /\ UNCHANGED <<recs, clock, person, refresh, left, overtaken>>

(* A candidate that scores too low is dropped, and so is one a record that  *)
(* is gone already said.  A live duplicate is rewritten as it was listed,   *)
(* with the new evidence; otherwise the candidate is a new record, active   *)
(* or pending by its score, and an active one may replace a record it       *)
(* contradicts.                                                             *)
Gone == {"deleted", "superseded", "expired"}
Duplicates(t) == {i \in Ids : Listed[i].text = t}

Contradicted == {i \in Ids : Listed[i].status = "active"}

JobLists(j) ==
    LET c == job[j].cand
        dup == Duplicates(c.text)
    IN  /\ job[j].at = "candidate"
        /\ \/ At(j, Idle) /\ lock' = NoJob /\ recs' \in {recs, Listed}
           \/ /\ \A i \in dup : Listed[i].status \notin Gone
              /\ recs' = Listed
              /\ UNCHANGED lock
              /\ IF dup # {}
                 THEN \E i \in dup : At(j, [at |-> "update", held |-> {i}, id |-> i, copy |-> Listed[i]])
                 ELSE \/ \E st \in {"active", "pending"} :
                             At(j, [at |-> "commit", cand |-> c, held |-> {}, status |-> st])
                      \/ \E i \in Contradicted :
                             At(j, [at |-> "correct", cand |-> c, held |-> {i}, id |-> i])
        /\ UNCHANGED <<clock, person, epoch, refresh, left, overtaken, missed>>

JobFiles(j) ==
    LET me == job[j]
        Extracted(status) == NewRecord(me.cand.text, status, me.cand.sid, "extracted")
    IN  /\ \/ me.at = "commit" /\ recs' = Commit(Extracted(me.status))
           \/ me.at = "correct" /\ recs' = Correct(me.id, Extracted("active"))
           \/ me.at = "update" /\ recs' = Update(me.id, me.copy)
        /\ IF me.at # "commit" /\ ~Rewritable(me.id)
           THEN At(j, Idle) /\ lock' = NoJob
           ELSE At(j, [at |-> "announce", held |-> {}]) /\ UNCHANGED lock
        /\ UNCHANGED <<clock, person, epoch, refresh, left, overtaken, missed>>

JobInvalidates(j) ==
    /\ job[j].at = "announce"
    /\ Invalidate
    /\ At(j, Idle) /\ lock' = NoJob
    /\ UNCHANGED <<recs, clock, person, refresh, left, overtaken>>

-----------------------------------------------------------------------------
(* refreshMemory, at a turn boundary                                        *)

Go(s, state) == refresh' = [refresh EXCEPT ![s] = state]

Shown(r) == r.status = "active" \/ (Selector /\ r.status = "pending")

(* memoryLine: a pending record is marked unconfirmed.                      *)
memoryLine(r) == <<r.text, r.status = "pending">>

(* pinnedMemory hands out a copy; without an epoch one is selected.         *)
RefreshBegins(s) ==
    /\ refresh[s].at = "idle" /\ left.refreshes > 0
    /\ left' = [left EXCEPT !.refreshes = @ - 1]
    /\ \/ ~epoch[s].pinned /\ Go(s, [at |-> "select"])
       \/ epoch[s].pinned /\ epoch[s].stale /\ Go(s, [at |-> "compare", ep |-> epoch[s]])
    /\ UNCHANGED <<recs, clock, person, job, lock, epoch, overtaken, missed>>

(* selectMemory: the ranking and the budgets pick some of what may be       *)
(* shown, at most Limit records.                                            *)
Fits(chosen) == Cardinality(chosen) <= Limit

RefreshSelects(s) ==
    /\ refresh[s].at = "select"
    /\ recs' = Listed
    /\ \E chosen \in SUBSET {i \in Ids : Shown(Listed[i])} :
          /\ Fits(chosen)
          /\ Go(s, [at |-> "store",
                    ep |-> [pinned |-> TRUE, stale |-> FALSE, since |-> Len(recs),
                            told |-> [i \in chosen |-> memoryLine(Listed[i])]]])
    /\ missed' = missed \ {s}
    /\ UNCHANGED <<clock, person, job, lock, epoch, left, overtaken>>

(* memoryUpdates: a told record is kept while it is live, with its present  *)
(* line; one that is gone is withdrawn, and its live replacement told; and  *)
(* what the session itself wrote since the epoch was pinned is added.       *)
Told(s, ep) ==
    LET live == {i \in Ids : Shown(Listed[i])}
        heirs == {Listed[i].sup : i \in (DOMAIN ep.told) \ live}
        own == {i \in Ids : i > ep.since /\ Listed[i].sid = s}
    IN  [i \in live \cap (DOMAIN ep.told \cup heirs \cup own) |-> memoryLine(Listed[i])]

RefreshCompares(s) ==
    /\ refresh[s].at = "compare"
    /\ recs' = Listed
    /\ Go(s, [at |-> "store", ep |-> [pinned |-> TRUE, stale |-> FALSE, since |-> refresh[s].ep.since,
                                      told |-> Told(s, refresh[s].ep)]])
    /\ missed' = missed \ {s}
    /\ UNCHANGED <<clock, person, job, lock, epoch, left, overtaken>>

(* The listing fails: nothing is told and the epoch still counts as checked.*)
RefreshCannotList(s) ==
    /\ refresh[s].at = "compare"
    /\ Go(s, [at |-> "store", ep |-> [pinned |-> TRUE, stale |-> FALSE, since |-> refresh[s].ep.since,
                                      told |-> refresh[s].ep.told]])
    /\ missed' = missed \cup {s}
    /\ UNCHANGED <<recs, clock, person, job, lock, epoch, left, overtaken>>

RefreshStores(s) ==
    /\ refresh[s].at = "store"
    /\ epoch' = [epoch EXCEPT ![s] = refresh[s].ep]
    /\ Go(s, Idle)
    /\ UNCHANGED <<recs, clock, person, job, lock, left, overtaken, missed>>

(* The update could not be written to the transcript: what was told before  *)
(* stays told, and stale.                                                   *)
RefreshUndelivered(s) ==
    /\ refresh[s].at = "store" /\ epoch[s].pinned
    /\ refresh[s].ep.told # epoch[s].told
    /\ epoch' = [epoch EXCEPT ![s].stale = TRUE]
    /\ Go(s, Idle)
    /\ UNCHANGED <<recs, clock, person, job, lock, left, overtaken, missed>>

(* setCacheBoundary: a compaction drops the epoch.                          *)
setCacheBoundary(s) ==
    /\ epoch[s].pinned
    /\ epoch' = [epoch EXCEPT ![s] = NoEpoch]
    /\ UNCHANGED <<recs, clock, person, job, lock, refresh, left, overtaken, missed>>

-----------------------------------------------------------------------------
PersonStep(p) ==
    PersonFinds(p) \/ PersonProposes(p) \/ PersonApplies(p) \/ PersonInvalidates(p)

JobStep(j) ==
    \/ JobBegins(j) \/ JobListsPending(j) \/ JobTriages(j) \/ JobTriaged(j)
    \/ JobLists(j) \/ JobFiles(j) \/ JobInvalidates(j)

RefreshStep(s) ==
    \/ RefreshBegins(s) \/ RefreshSelects(s) \/ RefreshCompares(s) \/ RefreshCannotList(s)
    \/ RefreshStores(s) \/ RefreshUndelivered(s) \/ setCacheBoundary(s)

Next ==
    \/ Tick
    \/ \E p \in People : PersonStep(p)
    \/ \E j \in Jobs : JobStep(j)
    \/ \E s \in Sessions : RefreshStep(s)

Spec == Init /\ [][Next]_vars

-----------------------------------------------------------------------------
(* Properties                                                               *)

(* Every row is one ValidateMemoryRecord accepts: only a record that was    *)
(* superseded names a replacement, and a replacement is a later record, so  *)
(* chains of corrections end.                                               *)
TypeOK ==
    /\ \A i \in Ids : /\ recs[i] \in Record
                      /\ recs[i].sup # 0 => /\ recs[i].status \in {"superseded", "deleted"}
                                            /\ recs[i].sup \in (i + 1)..Len(recs)
    /\ lock \in Jobs \cup {NoJob}
    /\ \A s \in Sessions : epoch[s].pinned => DOMAIN epoch[s].told \subseteq Ids

(* A forgotten record stays forgotten, and a superseded one is never made   *)
(* live again, by anything but an operator's restore: not by a confirmation *)
(* or a triage that read it before, and not by extraction saying it again.  *)
Restoring == \E p \in People : person[p].at = "apply" /\ person[p].op = "restore"
TombstoneStays ==
    ~Restoring => \A i \in Ids :
       recs[i].status \in {"deleted", "superseded"} =>
           recs'[i].status \in {recs[i].status, "deleted"}

(* Extraction files a text once: jobs that found the same thing do not      *)
(* record it twice, since each lists what the one before it filed.          *)
OneExtractedPerText ==
    \A i, k \in Ids :
        recs[i].prov = "extracted" /\ recs[k].prov = "extracted" /\ recs[i].text = recs[k].text
            => i = k

(* An automatic job changes only records it found pending, and supersedes   *)
(* active ones by a record that contradicts them; it undoes a person's      *)
(* decision only when that was made after the job read the record.          *)
JobsSparePeople ==
    \A i \in Ids :
       /\ recs[i].status = "active" /\ recs'[i] # recs[i]
       /\ \E j \in Jobs : job[j].at \in {"triage", "commit", "correct", "update"} /\ job'[j] # job[j]
       => i \in overtaken \/ recs'[i].status = "superseded"

(* What a session was told is what the store says: unless its epoch is      *)
(* marked stale, or a change is still to be announced, every record told is *)
(* live with the line told, and every live record the session wrote since   *)
(* is told.  Two losses are known: a change announced while the session     *)
(* stores its copy back, and a listing that fails.  Expiry is not           *)
(* announced.                                                               *)
Announcing == \/ \E p \in People : person[p].at = "invalidate"
              \/ \E j \in Jobs : \/ job[j].at = "announce"
                                 \/ job[j].at = "triage" /\ job[j].changed

Lapsed(r) == r.exp <= clock \/ r.status = "expired"

Current(s) ==
    /\ \A i \in DOMAIN epoch[s].told :
          Lapsed(recs[i]) \/ (Shown(recs[i]) /\ memoryLine(recs[i]) = epoch[s].told[i])
    /\ \A i \in Ids : i > epoch[s].since /\ recs[i].sid = s /\ Shown(recs[i]) =>
          Lapsed(recs[i]) \/ i \in DOMAIN epoch[s].told

ToldIsCurrent ==
    \A s \in Sessions :
        epoch[s].pinned /\ ~epoch[s].stale /\ ~Announcing /\ s \notin missed => Current(s)

(* The records and what sessions were told of them agree, and no text was   *)
(* extracted twice.                                                         *)
MemoryInv == TypeOK /\ OneExtractedPerText /\ ToldIsCurrent

(* What no step does to the records: bring back what was forgotten, or undo *)
(* in an automatic job what a person decided.                               *)
MemorySteps == [][TombstoneStays /\ JobsSparePeople]_vars
=============================================================================
