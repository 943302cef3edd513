---------------------------- MODULE MemoryProofs ----------------------------
(* Proofs about Memory, for any sessions, texts, people and jobs: what a    *)
(* person's call, a job or a refresh read before it acts is still what the  *)
(* record says, except where a person overtook it, so tombstones stay, a    *)
(* text is extracted once, and a session whose epoch is not stale was told  *)
(* what the store says.                                                     *)
EXTENDS Memory, TLAPS

-----------------------------------------------------------------------------
(* The inductive invariant                                                  *)

(* Chains of corrections end.                                               *)
Chained ==
    \A i \in Ids : recs[i].sup # 0 => /\ recs[i].status \in {"superseded", "deleted"}
                                      /\ recs[i].sup \in (i + 1)..Len(recs)
Store == recs \in Seq(Record) /\ Chained /\ clock \in Nat

(* A copy a call still holds says what the record says.                     *)
SameText(a, b) == a.text = b.text /\ a.prov = b.prov /\ a.sid = b.sid
Copy(i, c, R) == i \in DOMAIN R /\ c \in Record /\ c.sup = 0 /\ SameText(c, R[i])

PersonAt(x, R) ==
    x.at = "apply" => x.id \in DOMAIN R /\ (x.op = "confirm" => Copy(x.id, x.copy, R))
PersonInv == \A p \in People : PersonAt(person[p], recs)

(* What a job found still holds, unless a person overtook it.               *)
Found == [text : Texts, sid : Sessions]
Unfiled(t, R) == \A i \in DOMAIN R : ~(R[i].prov = "extracted" /\ R[i].text = t)
Triaging(x, R, O) ==
    /\ x.changed \in BOOLEAN
    /\ \A i \in x.held : Copy(i, x.copies[i], R) /\ (R[i].status = "active" => i \in O)
Updating(x, R, O) ==
    /\ x.held = {x.id} /\ Copy(x.id, x.copy, R)
    /\ R[x.id].status = "active" => R[x.id] = x.copy \/ x.id \in O
JobAt(x, R, O) ==
    /\ x.at \in {"pending", "triage"} => x.cand \in Found \cup {NoCandidate}
    /\ x.at \in {"candidate", "commit", "correct"} => x.cand \in Found
    /\ x.at = "triage" => Triaging(x, R, O)
    /\ x.at = "update" => Updating(x, R, O)
    /\ x.at \in {"commit", "correct"} => Unfiled(x.cand.text, R)
    /\ x.at = "commit" => x.status \in {"active", "pending"}
    /\ x.at = "correct" => x.id \in DOMAIN R

(* One job at a time holds the lock.                                        *)
OneJob == \A j \in Jobs : job[j].at # "idle" => lock = j
JobInv == \A j \in Jobs : JobAt(job[j], recs, overtaken)

(* An epoch, and that what it tells is what the store says.                 *)
IsEpoch(e, R) ==
    /\ e = [pinned |-> TRUE, stale |-> e.stale, since |-> e.since, told |-> e.told]
    /\ e.stale \in BOOLEAN /\ e.since \in Nat /\ DOMAIN e.told \subseteq DOMAIN R
Elapsed(r, now) == r.exp <= now \/ r.status = "expired"
Fresh(s, e, R, now) ==
    /\ \A i \in DOMAIN e.told :
          Elapsed(R[i], now) \/ (Shown(R[i]) /\ memoryLine(R[i]) = e.told[i])
    /\ \A i \in DOMAIN R : i > e.since /\ R[i].sid = s /\ Shown(R[i]) =>
          Elapsed(R[i], now) \/ i \in DOMAIN e.told

(* A session that refreshes has no epoch, or a stale one.                   *)
EpochAt(e, x, R) ==
    /\ e = NoEpoch \/ IsEpoch(e, R)
    /\ x.at # "idle" => e = NoEpoch \/ e.stale
    /\ x.at \in {"compare", "store"} => IsEpoch(x.ep, R)
    /\ x.at = "store" => ~x.ep.stale
EpochInv == \A s \in Sessions : EpochAt(epoch[s], refresh[s], recs)
(* While no change is unannounced, what a session was told is true, and so  *)
(* is the copy a refresh is about to store.                                 *)
Telling(s, e, x, R, now) ==
    /\ e.pinned /\ ~e.stale => Fresh(s, e, R, now)
    /\ x.at = "store" => Fresh(s, x.ep, R, now)
Tells ==
    \A s \in Sessions : ~Announcing /\ s \notin missed =>
        Telling(s, epoch[s], refresh[s], recs, clock)

Maps ==
    /\ person = [p \in People |-> person[p]] /\ job = [j \in Jobs |-> job[j]]
    /\ epoch = [s \in Sessions |-> epoch[s]] /\ refresh = [s \in Sessions |-> refresh[s]]

MemoryIInv ==
    /\ Maps /\ Store /\ lock \in Jobs \cup {NoJob}
    /\ PersonInv /\ OneJob /\ JobInv /\ EpochInv /\ Tells /\ OneExtractedPerText

-----------------------------------------------------------------------------
(* The store                                                                *)

(* Changing one field of a record.                                          *)
LEMMA StatusField ==
    ASSUME NEW r \in Record, NEW st \in Statuses, NEW q, q = [r EXCEPT !.status = st]
    PROVE  /\ q \in Record /\ q.status = st /\ q.sup = r.sup /\ q.exp = r.exp
           /\ SameText(q, r)
BY Zenon DEF Record, SameText

LEMMA SupField ==
    ASSUME NEW r \in Record, NEW n \in Nat, NEW q, q = [r EXCEPT !.sup = n]
    PROVE  /\ q \in Record /\ q.status = r.status /\ q.sup = n /\ q.exp = r.exp
           /\ SameText(q, r)
BY Zenon DEF Record, SameText

LEMMA ExpField ==
    ASSUME NEW r \in Record, NEW n \in Nat, NEW q, q = [r EXCEPT !.exp = n]
    PROVE  /\ q \in Record /\ q.status = r.status /\ q.sup = r.sup /\ q.exp = n
           /\ SameText(q, r)
BY Zenon DEF Record, SameText

(* What every statement of the store keeps: records are added at the end,   *)
(* and what a record says never changes.                                    *)
Keeps ==
    /\ Store' /\ Len(recs) <= Len(recs')
    /\ \A i \in Ids : SameText(recs'[i], recs[i])

(* Only record i is rewritten, and it comes back from no tombstone.         *)
Spares(i) == \A k \in Ids : k # i => recs'[k] = recs[k]
Buried(i) == recs[i].status \in {"deleted", "superseded"} =>
                 recs'[i].status \in {recs[i].status, "deleted"}

Chains(r, i) == r.sup # 0 => /\ r.status \in {"superseded", "deleted"}
                             /\ r.sup \in (i + 1)..Len(recs)

(* One record is rewritten.                                                *)
LEMMA Rewrites ==
    ASSUME Store, clock' = clock, NEW i \in Ids, NEW r \in Record, SameText(r, recs[i]),
           Chains(r, i), recs' = [recs EXCEPT ![i] = r]
    PROVE  Keeps /\ Len(recs') = Len(recs) /\ recs'[i] = r /\ Spares(i)
<1>1. recs' \in Seq(Record) /\ Len(recs') = Len(recs) /\ recs'[i] = r /\ Spares(i) /\ Ids' = Ids
      /\ Ids = 1..Len(recs)
  BY DEF Store, Ids, Spares
<1>2. Chained'
  BY <1>1, Zenon DEF Store, Chained, Spares, Chains
<1>3. \A k \in Ids : SameText(recs'[k], recs[k])
  BY <1>1, Zenon DEF Spares, SameText
<1>. QED
  BY <1>1, <1>2, <1>3 DEF Keeps, Store

(* A record is added.                                                      *)
LEMMA Appends ==
    ASSUME Store, clock' = clock, NEW r \in Record, r.sup = 0, recs' = Append(recs, r)
    PROVE  /\ Keeps /\ Len(recs') = Len(recs) + 1 /\ recs'[Len(recs) + 1] = r
           /\ \A k \in Ids : recs'[k] = recs[k]
<1>1. /\ recs' \in Seq(Record) /\ Len(recs') = Len(recs) + 1 /\ recs'[Len(recs) + 1] = r
      /\ \A k \in Ids : recs'[k] = recs[k]
      /\ Ids' = 1..(Len(recs) + 1) /\ Ids = 1..Len(recs) /\ Len(recs) \in Nat
  BY DEF Store, Ids
<1>2. Chained'
  BY <1>1 DEF Store, Chained
<1>. QED
  BY <1>1, <1>2 DEF Keeps, Store, SameText

(* A record is replaced by a later one.                                    *)
LEMMA Replaces ==
    ASSUME Store, clock' = clock, NEW i \in Ids, NEW q \in Record, NEW r \in Record, r.sup = 0,
           SameText(q, recs[i]), q.status = "superseded", q.sup = Len(recs) + 1,
           recs' = Append([recs EXCEPT ![i] = q], r)
    PROVE  /\ Keeps /\ Len(recs') = Len(recs) + 1 /\ recs'[Len(recs) + 1] = r
           /\ recs'[i] = q /\ Spares(i)
<1>. DEFINE m == [recs EXCEPT ![i] = q]
<1>0. m \in Seq(Record) /\ Len(m) = Len(recs) /\ m[i] = q /\ \A k \in Ids : k # i => m[k] = recs[k]
  BY DEF Store, Ids
<1>1. /\ recs' \in Seq(Record) /\ Len(recs') = Len(recs) + 1 /\ recs'[Len(recs) + 1] = r
      /\ recs'[i] = q /\ \A k \in Ids : k # i => recs'[k] = recs[k]
      /\ Ids' = 1..(Len(recs) + 1) /\ Ids = 1..Len(recs) /\ Len(recs) \in Nat
  <2>. HIDE DEF m
  <2>1. recs' = Append(m, r)
    BY Zenon DEF m
  <2>. QED
    BY <1>0, <2>1 DEF Store, Ids
<1>2. Chained'
  BY <1>1 DEF Store, Chained
<1>3. \A k \in Ids : SameText(recs'[k], recs[k])
  BY <1>1, Zenon DEF SameText
<1>. QED
  BY <1>1, <1>2, <1>3 DEF Keeps, Store, Spares

(* A listing only expires records whose time has come.                      *)
Ages ==
    /\ clock <= clock' /\ Len(recs') = Len(recs)
    /\ \A i \in Ids : recs'[i] = recs[i] \/ (Lapsed(recs[i]) /\ recs'[i].status = "expired"
                                             /\ recs[i].status \in {"active", "pending"})

LEMMA ListingAges ==
    ASSUME Store, clock' = clock, recs' = Listed
    PROVE  Keeps /\ Ages
<1>1. /\ Ids = 1..Len(recs) /\ \A i \in Ids : recs[i] \in Record
  BY DEF Store, Ids
<1>2. ASSUME NEW i \in Ids
      PROVE  /\ Listed[i] \in Record /\ SameText(Listed[i], recs[i])
             /\ Listed[i].sup = recs[i].sup
             /\ Listed[i] = recs[i] \/ (Lapsed(recs[i]) /\ Listed[i].status = "expired"
                                        /\ recs[i].status \in {"active", "pending"})
  <2>1. CASE MemoryExpired(recs[i])
    <3>1. Listed[i] = [recs[i] EXCEPT !.status = "expired"]
      BY <2>1, Zenon DEF Listed
    <3>2. /\ Listed[i] \in Record /\ SameText(Listed[i], recs[i])
          /\ Listed[i].sup = recs[i].sup /\ Listed[i].status = "expired"
      BY <3>1, <1>1, StatusField DEF Statuses
    <3>. QED
      BY <3>2, <2>1, Zenon DEF MemoryExpired, Lapsed
  <2>2. CASE ~MemoryExpired(recs[i])
    BY <2>2, <1>1, Zenon DEF Listed, SameText
  <2>. QED
    BY <2>1, <2>2, Zenon
<1>3. recs' \in Seq(Record) /\ Len(recs') = Len(recs) /\ Ids' = Ids
  <2>1. Listed \in [1..Len(recs) -> Record] /\ Len(recs) \in Nat
    BY <1>1, <1>2 DEF Listed, Store
  <2>. HIDE DEF Listed
  <2>2. Listed \in Seq(Record)
    BY <2>1
  <2>. QED
    BY <2>1, <2>2, <1>1 DEF Ids
<1>4. Ages
  BY <1>2, <1>3 DEF Ages, Store
<1>5. Chained'
  <2>. SUFFICES ASSUME NEW i \in Ids, recs'[i].sup # 0
                PROVE  /\ recs'[i].status \in {"superseded", "deleted"}
                       /\ recs'[i].sup \in (i + 1)..Len(recs')
    BY <1>3, Zenon DEF Chained
  <2>. QED
    BY <1>2, <1>3, Zenon DEF Store, Chained
<1>. QED
  BY <1>2, <1>3, <1>4, <1>5 DEF Keeps, Store

(* Nothing is written; time may pass.                                      *)
LEMMA Stays ==
    ASSUME Store, clock' \in Nat, clock <= clock', recs' = recs
    PROVE  Keeps /\ Ages
BY DEF Store, Chained, Keeps, Ages, Ids, SameText

-----------------------------------------------------------------------------
(* The operations on the store: what each may change.                       *)

(* A statement rewrote at most record i, left tombstones, and filed nothing *)
(* as extracted.                                                            *)
Rewrote(i) == Keeps /\ Spares(i) /\ Len(recs') = Len(recs)
Unmoved == \A t : Unfiled(t, recs) => Unfiled(t, recs')

(* A record of the store.                                                  *)
LEMMA SupBound ==
    ASSUME Store, NEW i \in Ids
    PROVE  recs[i] \in Record /\ Chains(recs[i], i) /\ i \in 1..Len(recs) /\ Len(recs) \in Nat
BY DEF Store, Ids, Chained, Chains

(* UpdateMemory writes a copy over a record that is no tombstone.          *)
LEMMA UpdateSound ==
    ASSUME Store, clock' = clock, NEW i, NEW c, Copy(i, c, recs), recs' = Update(i, c)
    PROVE  /\ Rewrote(i) /\ Buried(i) /\ recs'[i] \in {recs[i], c}
           /\ ~Rewritable(i) => recs' = recs
<1>1. CASE Rewritable(i)
  <2>1. recs' = [recs EXCEPT ![i] = c] /\ Chains(c, i)
    BY <1>1, Zenon DEF Update, Ids, Copy, Chains
  <2>2. Keeps /\ Len(recs') = Len(recs) /\ recs'[i] = c /\ Spares(i)
    BY <2>1, Rewrites, Zenon DEF Ids, Copy
  <2>. QED
    BY <2>2, <1>1, Zenon DEF Rewrote, Buried, Rewritable
<1>2. CASE ~Rewritable(i)
  <2>1. recs' = recs
    BY <1>2, Zenon DEF Update
  <2>2. Keeps
    BY <2>1, Stays DEF Store
  <2>. QED
    BY <2>1, <2>2, Zenon DEF Rewrote, Buried, Spares
<1>. QED
  BY <1>1, <1>2, Zenon

(* ForgetMemory leaves a tombstone.                                        *)
LEMMA ForgetSound ==
    ASSUME Store, clock' = clock, NEW i \in Ids, recs' = ForgetMemory(i)
    PROVE  /\ Rewrote(i) /\ Buried(i)
           /\ recs' = recs \/ recs'[i].status = "deleted"
<1>1. CASE recs[i].status # "deleted"
  <2>. DEFINE q == [recs[i] EXCEPT !.status = "deleted"]
  <2>1. recs' = [recs EXCEPT ![i] = q]
    BY <1>1, Zenon DEF ForgetMemory
  <2>2. q \in Record /\ q.status = "deleted" /\ q.sup = recs[i].sup /\ SameText(q, recs[i])
    BY SupBound, StatusField DEF Statuses
  <2>. HIDE DEF q
  <2>3. Chains(q, i)
    BY <2>2, SupBound, Zenon DEF Chains
  <2>4. Keeps /\ Len(recs') = Len(recs) /\ recs'[i] = q /\ Spares(i)
    BY <2>1, <2>2, <2>3, Rewrites, Zenon
  <2>. QED
    BY <2>2, <2>4, Zenon DEF Rewrote, Buried
<1>2. CASE recs[i].status = "deleted"
  <2>1. recs' = recs
    BY <1>2, Zenon DEF ForgetMemory
  <2>2. Keeps
    BY <2>1, Stays DEF Store
  <2>. QED
    BY <2>1, <2>2, Zenon DEF Rewrote, Buried, Spares
<1>. QED
  BY <1>1, <1>2, Zenon

(* A restore clears what superseded the record.                            *)
LEMMA RestoreSound ==
    ASSUME Store, clock' = clock, NEW i \in Ids, recs' = Restore(i)
    PROVE  Rewrote(i)
<1>1. CASE recs[i].status # "active"
  <2>1. PICK a : a = [recs[i] EXCEPT !.status = "active"]
    BY Zenon
  <2>2. PICK b : b = [a EXCEPT !.sup = 0]
    BY Zenon
  <2>3. PICK q : q = [b EXCEPT !.exp = clock + Retain]
    BY Zenon
  <2>4. a \in Record /\ SameText(a, recs[i])
    BY <2>1, SupBound, StatusField DEF Statuses
  <2>5. b \in Record /\ SameText(b, a) /\ b.sup = 0
    BY <2>2, <2>4, SupField
  <2>6. q \in Record /\ SameText(q, b) /\ q.sup = 0
    <3>1. clock + Retain \in Nat
      BY MemoryAssumption DEF Store
    <3>. QED
      BY <3>1, <2>3, <2>5, ExpField
  <2>7. recs \in [Ids -> Record]
    BY DEF Store, Ids
  <2>8. recs' = [recs EXCEPT ![i] = q]
    BY <1>1, <2>1, <2>2, <2>3, <2>7, Zenon DEF Restore
  <2>9. SameText(q, recs[i]) /\ Chains(q, i)
    BY <2>4, <2>5, <2>6, Zenon DEF SameText, Chains
  <2>10. Keeps /\ Len(recs') = Len(recs) /\ Spares(i)
    BY <2>6, <2>8, <2>9, Rewrites, Zenon
  <2>. QED
    BY <2>10, Zenon DEF Rewrote
<1>2. CASE recs[i].status = "active"
  <2>1. recs' = recs
    BY <1>2, Zenon DEF Restore
  <2>2. Keeps
    BY <2>1, Stays DEF Store
  <2>. QED
    BY <2>1, <2>2, Zenon DEF Rewrote, Spares
<1>. QED
  BY <1>1, <1>2, Zenon

(* A correction supersedes a record by the one it adds, or does nothing.   *)
LEMMA CorrectSound ==
    ASSUME Store, clock' = clock, NEW i \in Ids, NEW r \in Record, r.sup = 0,
           recs' = Correct(i, r)
    PROVE  /\ Keeps /\ Spares(i) /\ Buried(i)
           /\ \/ ~Rewritable(i) /\ recs' = recs
              \/ /\ Rewritable(i) /\ recs'[i].status = "superseded"
                 /\ Len(recs') = Len(recs) + 1 /\ recs'[Len(recs) + 1] = r
<1>1. CASE Rewritable(i)
  <2>0. recs[i] \in Record /\ Len(recs) + 1 \in Nat
    BY SupBound
  <2>1. PICK a : a = [recs[i] EXCEPT !.status = "superseded"]
    BY Zenon
  <2>2. PICK q : q = [a EXCEPT !.sup = Len(recs) + 1]
    BY Zenon
  <2>4. a \in Record /\ SameText(a, recs[i]) /\ a.status = "superseded"
    BY <2>0, <2>1, StatusField DEF Statuses
  <2>5. q \in Record /\ SameText(q, a) /\ q.sup = Len(recs) + 1 /\ q.status = "superseded"
    BY <2>0, <2>2, <2>4, SupField
  <2>7. recs \in [Ids -> Record]
    BY DEF Store, Ids
  <2>8. recs' = Append([recs EXCEPT ![i] = q], r)
    BY <1>1, <2>1, <2>2, <2>7, Zenon DEF Correct
  <2>9. SameText(q, recs[i])
    BY <2>4, <2>5, Zenon DEF SameText
  <2>10. /\ Keeps /\ Len(recs') = Len(recs) + 1 /\ recs'[Len(recs) + 1] = r
         /\ recs'[i] = q /\ Spares(i)
    BY <2>5, <2>8, <2>9, Replaces, Zenon
  <2>. QED
    BY <1>1, <2>5, <2>10, Zenon DEF Rewritable, Buried
<1>2. CASE ~Rewritable(i)
  <2>1. recs' = recs
    BY <1>2, Zenon DEF Correct
  <2>2. Keeps
    BY <2>1, Stays DEF Store
  <2>. QED
    BY <1>2, <2>1, <2>2, Zenon DEF Spares, Buried
<1>. QED
  BY <1>1, <1>2, Zenon

(* A new record is well formed and replaced by nothing.                    *)
LEMMA NewRecordSound ==
    ASSUME Store, NEW t \in Texts, NEW st \in Statuses, NEW s \in Sessions,
           NEW pr \in {"observed", "user", "extracted"}
    PROVE  /\ NewRecord(t, st, s, pr) \in Record /\ NewRecord(t, st, s, pr).sup = 0
           /\ NewRecord(t, st, s, pr).prov = pr /\ NewRecord(t, st, s, pr).text = t
<1>1. clock + Retain \in Nat
  BY MemoryAssumption DEF Store
<1>. QED
  BY <1>1, Zenon DEF NewRecord, Record

(* A verdict rewrites the record it is about.                              *)
LEMMA SettledSound ==
    ASSUME Store, clock' = clock, NEW me, NEW i, NEW verdict \in Verdicts,
           Copy(i, me.copies[i], recs), recs' = Settled(me, i, verdict)
    PROVE  Rewrote(i) /\ Buried(i)
<1>0. i \in Ids
  BY Zenon DEF Ids, Copy
<1>1. CASE verdict = "activate"
  <2>. DEFINE q == [me.copies[i] EXCEPT !.status = "active"]
  <2>1. recs' = Update(i, q)
    BY <1>1, Zenon DEF Settled
  <2>2. q \in Record /\ SameText(q, me.copies[i]) /\ q.sup = me.copies[i].sup
    BY StatusField DEF Ids, Copy, Statuses
  <2>. HIDE DEF q
  <2>3. Copy(i, q, recs)
    BY <2>2, Zenon DEF Ids, Copy, SameText
  <2>. QED
    BY <2>1, <2>3, UpdateSound, Zenon
<1>2. CASE verdict = "forget" /\ me.cand = NoCandidate /\ Rewritable(i)
  <2>. DEFINE q == [me.copies[i] EXCEPT !.status = "deleted"]
  <2>1. recs' = [recs EXCEPT ![i] = q]
    BY <1>2, Zenon DEF Settled
  <2>2. q \in Record /\ SameText(q, me.copies[i]) /\ q.sup = 0
    BY StatusField DEF Ids, Copy, Statuses
  <2>. HIDE DEF q
  <2>3. SameText(q, recs[i]) /\ Chains(q, i)
    BY <2>2, Zenon DEF Ids, Copy, SameText, Chains
  <2>4. Keeps /\ Len(recs') = Len(recs) /\ recs'[i] = q /\ Spares(i)
    BY <1>0, <2>1, <2>2, <2>3, Rewrites, Zenon
  <2>. QED
    BY <1>2, <2>4, Zenon DEF Rewrote, Buried, Rewritable
<1>3. CASE verdict = "forget" /\ ~(me.cand = NoCandidate /\ Rewritable(i))
  <2>1. recs' = ForgetMemory(i)
    BY <1>3, Zenon DEF Settled
  <2>. QED
    BY <1>0, <2>1, ForgetSound, Zenon
<1>4. CASE verdict = "leave"
  <2>1. recs' = recs
    BY <1>4, Zenon DEF Settled
  <2>2. Keeps
    BY <2>1, Stays DEF Store
  <2>. QED
    BY <2>1, <2>2, Zenon DEF Rewrote, Buried, Spares
<1>. QED
  BY <1>1, <1>2, <1>3, <1>4, Zenon DEF Verdicts

-----------------------------------------------------------------------------
(* What each part of the invariant needs of a step.                         *)

(* Records are numbered from one.                                          *)
LEMMA IdsGrow ==
    ASSUME Store, Keeps
    PROVE  /\ Ids = 1..Len(recs) /\ Ids' = 1..Len(recs') /\ Ids \subseteq Ids'
           /\ Len(recs) \in Nat /\ Len(recs') \in Nat
BY DEF Store, Keeps, Ids

(* No record was added as extracted.                                        *)
FilesNone == \/ Len(recs') = Len(recs)
             \/ Len(recs') = Len(recs) + 1 /\ recs'[Len(recs) + 1].prov # "extracted"

(* Texts extracted before are the only ones.                               *)
LEMMA NoneFiled ==
    ASSUME Store, Keeps, FilesNone, OneExtractedPerText
    PROVE  OneExtractedPerText' /\ Unmoved
<1>1. \A i \in Ids' : i \in Ids \/ recs'[i].prov # "extracted"
  BY IdsGrow DEF FilesNone
<1>. QED
  BY <1>1, IdsGrow, Zenon DEF OneExtractedPerText, Unmoved, Unfiled, Keeps, SameText, Ids

(* A text that was not extracted before is filed once.                     *)
LEMMA OneFiled ==
    ASSUME Store, Keeps, Len(recs') = Len(recs) + 1, Unfiled(recs'[Len(recs) + 1].text, recs),
           OneExtractedPerText
    PROVE  OneExtractedPerText'
<1>1. \A i \in Ids' : i \in Ids \/ i = Len(recs) + 1
  BY IdsGrow
<1>2. \A i \in Ids : recs'[i].prov = recs[i].prov /\ recs'[i].text = recs[i].text
  BY Zenon DEF Keeps, SameText
<1>3. \A i \in Ids : ~(recs[i].prov = "extracted" /\ recs[i].text = recs'[Len(recs) + 1].text)
  BY Zenon DEF Unfiled, Ids
<1>. SUFFICES ASSUME NEW i \in Ids', NEW k \in Ids', recs'[i].prov = "extracted",
                     recs'[k].prov = "extracted", recs'[i].text = recs'[k].text
              PROVE  i = k
  BY Zenon DEF OneExtractedPerText
<1>4. CASE i \in Ids /\ k \in Ids
  BY <1>2, <1>4, Zenon DEF OneExtractedPerText
<1>. QED
  BY <1>1, <1>2, <1>3, <1>4, Zenon

(* A copy goes on saying what its record says.                             *)
LEMMA CopyKept ==
    ASSUME Store, Keeps
    PROVE  \A i, c : Copy(i, c, recs) => Copy(i, c, recs')
BY IdsGrow, Zenon DEF Copy, Keeps, SameText, Ids

(* One person's call moved, or none.                                        *)
LEMMA PersonKept ==
    ASSUME Store, Keeps, PersonInv,
           \A q \in People : person'[q] = person[q] \/ PersonAt(person'[q], recs')
    PROVE  PersonInv'
<1>. SUFFICES ASSUME NEW q \in People, person'[q] = person[q]
              PROVE  PersonAt(person[q], recs')
  BY Zenon DEF PersonInv
<1>1. PersonAt(person[q], recs)
  BY Zenon DEF PersonInv
<1>. QED
  BY <1>1, CopyKept, IdsGrow, Zenon DEF PersonAt, Ids

(* No job moved: records that jobs hold changed only if a person overtook   *)
(* them, or expired.                                                        *)
LEMMA JobsWatch ==
    ASSUME Store, Keeps, Unmoved, JobInv, OneJob, job' = job, lock' = lock,
           overtaken \subseteq overtaken',
           \A i \in HeldCopies \cap Ids :
               recs'[i].status = "active" => recs'[i] = recs[i] \/ i \in overtaken'
    PROVE  JobInv' /\ OneJob'
<1>0. OneJob'
  BY Zenon DEF OneJob
<1>. SUFFICES ASSUME NEW j \in Jobs
              PROVE  JobAt(job[j], recs', overtaken')
  BY <1>0, Zenon DEF JobInv
<1>1. JobAt(job[j], recs, overtaken)
  BY Zenon DEF JobInv
<1>2. ASSUME job[j].at = "triage" PROVE Triaging(job[j], recs', overtaken')
  <2>1. Triaging(job[j], recs, overtaken)
    BY <1>1, <1>2, Zenon DEF JobAt
  <2>2. \A i \in job[j].held : i \in HeldCopies
    BY <1>2, Zenon DEF HeldCopies
  <2>3. \A i \in job[j].held : i \in Ids /\ Copy(i, job[j].copies[i], recs')
    BY <2>1, CopyKept, Zenon DEF Triaging, Copy, Ids
  <2>4. \A i \in job[j].held : recs'[i].status = "active" => i \in overtaken'
    BY <2>1, <2>2, <2>3, Zenon DEF Triaging
  <2>. QED
    BY <2>1, <2>3, <2>4, Zenon DEF Triaging
<1>3. ASSUME job[j].at = "update" PROVE Updating(job[j], recs', overtaken')
  <2>1. Updating(job[j], recs, overtaken)
    BY <1>1, <1>3, Zenon DEF JobAt
  <2>2. job[j].id \in HeldCopies
    BY <1>3, <2>1, Zenon DEF HeldCopies, Updating
  <2>3. job[j].id \in Ids /\ Copy(job[j].id, job[j].copy, recs')
    BY <2>1, CopyKept, Zenon DEF Updating, Copy, Ids
  <2>4. recs'[job[j].id].status = "active" => recs'[job[j].id] = job[j].copy \/ job[j].id \in overtaken'
    BY <2>1, <2>2, <2>3, Zenon DEF Updating
  <2>. QED
    BY <2>1, <2>3, <2>4, Zenon DEF Updating
<1>4. Unfiled(job[j].cand.text, recs) => Unfiled(job[j].cand.text, recs')
  BY Zenon DEF Unmoved
<1>5. job[j].at = "correct" => job[j].id \in DOMAIN recs'
  BY <1>1, IdsGrow, Zenon DEF JobAt, Ids
<1>. QED
  BY <1>1, <1>2, <1>3, <1>4, <1>5, Zenon DEF JobAt

(* The job that holds the lock moved; no other is at work.                  *)
LEMMA JobAlone ==
    ASSUME OneJob, JobInv, NEW j \in Jobs, lock \in {j, NoJob}, NEW x, job = [k \in Jobs |-> job[k]],
           job' = [job EXCEPT ![j] = x], JobAt(x, recs', overtaken'), x.at # "idle" => lock' = j
    PROVE  JobInv' /\ OneJob' /\ job'[j] = x
<1>1. job'[j] = x /\ \A k \in Jobs : k # j => job'[k] = job[k] /\ job[k].at = "idle"
  BY MemoryAssumption, Zenon DEF OneJob
<1>2. ASSUME NEW k \in Jobs, k # j PROVE JobAt(job'[k], recs', overtaken')
  BY <1>1, <1>2, Zenon DEF JobAt
<1>. QED
  BY <1>1, <1>2, Zenon DEF OneJob, JobInv

(* An epoch stays one when records are added.                              *)
LEMMA EpochKept ==
    ASSUME Store, Keeps
    PROVE  \A e : IsEpoch(e, recs) => IsEpoch(e, recs')
BY IdsGrow, Zenon DEF IsEpoch, Ids

(* What was told stays true while records only expire.                      *)
LEMMA FreshKept ==
    ASSUME Store, Keeps, Ages, NEW s, NEW e, IsEpoch(e, recs), Fresh(s, e, recs, clock)
    PROVE  Fresh(s, e, recs', clock')
<1>0. DOMAIN recs' = DOMAIN recs /\ DOMAIN e.told \subseteq Ids
  BY IdsGrow, Zenon DEF Ages, Ids, IsEpoch
<1>1. ASSUME NEW i \in Ids, Elapsed(recs[i], clock) PROVE Elapsed(recs'[i], clock')
  <2>1. CASE recs'[i] = recs[i]
    <3>1. recs[i] \in Record /\ clock \in Nat /\ clock' \in Nat /\ clock <= clock'
      BY SupBound, Zenon DEF Keeps, Ages, Store
    <3>. QED
      BY <3>1, <2>1, <1>1 DEF Elapsed, Record
  <2>2. CASE recs'[i] # recs[i]
    BY <2>2, Zenon DEF Ages, Elapsed
  <2>. QED
    BY <2>1, <2>2, Zenon
<1>2. ASSUME NEW i \in Ids
      PROVE  recs'[i] = recs[i] \/ (Elapsed(recs'[i], clock') /\ Elapsed(recs[i], clock))
  BY Zenon DEF Ages, Elapsed, Lapsed
<1>3. ASSUME NEW i \in DOMAIN e.told
      PROVE  Elapsed(recs'[i], clock') \/ (Shown(recs'[i]) /\ memoryLine(recs'[i]) = e.told[i])
  BY <1>0, <1>1, <1>2, Zenon DEF Fresh
<1>4. ASSUME NEW i \in Ids, i > e.since /\ recs'[i].sid = s /\ Shown(recs'[i])
      PROVE  Elapsed(recs'[i], clock') \/ i \in DOMAIN e.told
  BY <1>0, <1>1, <1>2, <1>4, Zenon DEF Fresh, Ids
<1>. QED
  BY <1>0, <1>3, <1>4, Zenon DEF Fresh, Ids

(* One session's refresh moved, or none; records at most expired.           *)
Unheard(s) == epoch'[s] = epoch[s] /\ refresh'[s] = refresh[s] /\ (s \in missed => s \in missed')
Heard(s) == EpochAt(epoch'[s], refresh'[s], recs')
            /\ (~Announcing' /\ s \notin missed' => Telling(s, epoch'[s], refresh'[s], recs', clock'))

LEMMA EpochsKept ==
    ASSUME Store, Keeps, Ages, EpochInv, Tells, Announcing => Announcing',
           \A s \in Sessions : Unheard(s) \/ Heard(s)
    PROVE  EpochInv' /\ Tells'
<1>1. ASSUME NEW s \in Sessions, Unheard(s)
      PROVE  Heard(s)
  <2>. PICK e, x : e = epoch[s] /\ x = refresh[s]
    BY Zenon
  <2>1. e = epoch[s] /\ x = refresh[s] /\ e = epoch'[s] /\ x = refresh'[s]
    BY <1>1, Zenon DEF Unheard
  <2>2. EpochAt(e, x, recs)
    BY <2>1, Zenon DEF EpochInv
  <2>3. EpochAt(e, x, recs')
    BY <2>2, EpochKept, Zenon DEF EpochAt
  <2>4. ASSUME ~Announcing', s \notin missed' PROVE Telling(s, e, x, recs', clock')
    <3>1. Telling(s, e, x, recs, clock)
      BY <2>4, <1>1, <2>1, Zenon DEF Tells, Unheard
    <3>2. ASSUME e.pinned, ~e.stale PROVE Fresh(s, e, recs', clock')
      <4>1. IsEpoch(e, recs)
        BY <2>2, <3>2 DEF EpochAt, NoEpoch
      <4>. QED
        BY <4>1, <3>1, <3>2, FreshKept, Zenon DEF Telling
    <3>3. ASSUME x.at = "store" PROVE Fresh(s, x.ep, recs', clock')
      <4>1. IsEpoch(x.ep, recs)
        BY <2>2, <3>3, Zenon DEF EpochAt
      <4>. QED
        BY <4>1, <3>1, <3>3, FreshKept, Zenon DEF Telling
    <3>. QED
      BY <3>2, <3>3, Zenon DEF Telling
  <2>. QED
    BY <2>1, <2>3, <2>4, Zenon DEF Heard
<1>2. \A s \in Sessions : Heard(s)
  BY <1>1, Zenon
<1>. QED
  BY <1>2, Zenon DEF Heard, EpochInv, Tells

(* A change not announced yet excuses every epoch.                          *)
LEMMA EpochsLoud ==
    ASSUME Store, Keeps, EpochInv, epoch' = epoch, refresh' = refresh, Announcing'
    PROVE  EpochInv' /\ Tells'
<1>1. ASSUME NEW s \in Sessions PROVE EpochAt(epoch[s], refresh[s], recs')
  BY EpochKept, Zenon DEF EpochAt, EpochInv
<1>. QED
  BY <1>1, Zenon DEF EpochInv, Tells

(* Marking an epoch stale leaves it an epoch.                              *)
LEMMA StaleEpoch ==
    ASSUME NEW e, IsEpoch(e, recs), NEW f, f = [e EXCEPT !.stale = TRUE]
    PROVE  IsEpoch(f, recs) /\ f.stale /\ e.pinned
<1>1. PICK st, n, tl : e = [pinned |-> TRUE, stale |-> st, since |-> n, told |-> tl]
  BY Zenon DEF IsEpoch
<1>2. e.pinned /\ e.since = n /\ e.told = tl
  BY <1>1, Zenon
<1>3. f = [pinned |-> TRUE, stale |-> TRUE, since |-> n, told |-> tl]
  BY <1>1, Zenon
<1>. QED
  BY <1>2, <1>3, Zenon DEF IsEpoch

(* An announcement marks every epoch, and notes who stores one back.        *)
LEMMA EpochsMarked ==
    ASSUME recs' = recs, EpochInv, refresh' = refresh, Invalidate
    PROVE  EpochInv' /\ Tells' /\ epoch' = [s \in Sessions |-> epoch'[s]]
<1>0. epoch' = [s \in Sessions |-> epoch'[s]]
  BY Zenon DEF Invalidate, Invalidated
<1>1. ASSUME NEW s \in Sessions
      PROVE  /\ EpochAt(epoch'[s], refresh[s], recs)
             /\ ~(epoch'[s].pinned /\ ~epoch'[s].stale)
             /\ refresh[s].at = "store" => s \in missed'
  <2>1. EpochAt(epoch[s], refresh[s], recs)
    BY Zenon DEF EpochInv
  <2>2. refresh[s].at = "store" => s \in missed'
    BY Zenon DEF Invalidate
  <2>3. CASE epoch[s] = NoEpoch
    <3>1. epoch'[s] = NoEpoch /\ ~NoEpoch.pinned
      BY <2>3, Zenon DEF Invalidate, Invalidated, NoEpoch
    <3>. QED
      BY <3>1, <2>1, <2>2, <2>3, Zenon
  <2>4. CASE IsEpoch(epoch[s], recs)
    <3>1. PICK e : e = epoch[s]
      BY Zenon
    <3>2. PICK f : f = [e EXCEPT !.stale = TRUE]
      BY Zenon
    <3>5. IsEpoch(f, recs) /\ f.stale /\ e.pinned
      BY <2>4, <3>1, <3>2, StaleEpoch, Zenon
    <3>6. epoch'[s] = f
      BY <3>1, <3>2, <3>5, Zenon DEF Invalidate, Invalidated
    <3>. QED
      BY <3>5, <3>6, <2>1, <2>2, Zenon DEF EpochAt
  <2>. QED
    BY <2>1, <2>3, <2>4, Zenon DEF EpochAt
<1>2. EpochInv'
  BY <1>1, Zenon DEF EpochInv
<1>3. Tells'
  BY <1>1, Zenon DEF Tells, Telling
<1>. QED
  BY <1>0, <1>2, <1>3, Zenon

-----------------------------------------------------------------------------
(* The steps                                                                *)

StepSound == MemoryIInv' /\ TombstoneStays /\ JobsSparePeople

(* A step of no job, that at most lets records expire.                      *)
LEMMA RecordsRest ==
    ASSUME MemoryIInv, Keeps, Ages, job' = job, lock' = lock, overtaken' = overtaken
    PROVE  /\ OneExtractedPerText' /\ JobInv' /\ OneJob' /\ lock' \in Jobs \cup {NoJob}
           /\ TombstoneStays /\ JobsSparePeople
<1>1. OneExtractedPerText' /\ Unmoved
  BY NoneFiled, Zenon DEF MemoryIInv, Ages, FilesNone
<1>2. \A i \in Ids : recs'[i].status = "active" => recs'[i] = recs[i]
  BY Zenon DEF Ages
<1>3. JobInv' /\ OneJob'
  BY <1>1, <1>2, JobsWatch, Zenon DEF MemoryIInv
<1>4. TombstoneStays
  BY Zenon DEF TombstoneStays, Ages
<1>. QED
  BY <1>1, <1>3, <1>4, Zenon DEF JobsSparePeople, MemoryIInv

LEMMA TickSteps ==
    ASSUME MemoryIInv, Tick
    PROVE  StepSound
<1>. USE DEF Tick
<1>1. Keeps /\ Ages
  <2>1. clock' \in Nat /\ clock <= clock' /\ recs' = recs
    BY DEF MemoryIInv, Store
  <2>. QED
    BY <2>1, Stays, Zenon DEF MemoryIInv
<1>2. /\ OneExtractedPerText' /\ JobInv' /\ OneJob' /\ lock' \in Jobs \cup {NoJob}
      /\ TombstoneStays /\ JobsSparePeople
  BY <1>1, RecordsRest, Zenon
<1>3. PersonInv'
  BY Zenon DEF MemoryIInv, PersonInv
<1>4. EpochInv' /\ Tells'
  <2>1. Announcing => Announcing'
    BY Zenon DEF Announcing
  <2>. QED
    BY <1>1, <2>1, EpochsKept, Zenon DEF MemoryIInv, Unheard
<1>5. Maps'
  BY Zenon DEF MemoryIInv, Maps
<1>. QED
  BY <1>1, <1>2, <1>3, <1>4, <1>5, Zenon DEF StepSound, MemoryIInv, Keeps

LEMMA PersonFindsSteps ==
    ASSUME MemoryIInv, NEW p \in People, PersonFinds(p)
    PROVE  StepSound
<1>. USE DEF PersonFinds
<1>1. Keeps /\ Ages
  BY ListingAges, Zenon DEF MemoryIInv
<1>2. /\ OneExtractedPerText' /\ JobInv' /\ OneJob' /\ lock' \in Jobs \cup {NoJob}
      /\ TombstoneStays /\ JobsSparePeople
  BY <1>1, RecordsRest, Zenon
<1>3. PICK op \in {"confirm", "correct", "forget", "restore"}, i \in Ids :
          /\ Permitted(op, Listed[i])
          /\ To(p, [at |-> "apply", op |-> op, id |-> i, copy |-> Listed[i]])
  BY Zenon
<1>. DEFINE x == [at |-> "apply", op |-> op, id |-> i, copy |-> Listed[i]]
<1>4. /\ person'[p] = x /\ \A q \in People : q # p => person'[q] = person[q]
      /\ person' = [q \in People |-> person'[q]]
  BY <1>3, Zenon DEF To, MemoryIInv, Maps
<1>5. x.at = "apply" /\ x.op = op /\ x.id = i /\ x.copy = Listed[i]
  BY Zenon
<1>. HIDE DEF x
<1>6. PersonAt(x, recs')
  <2>1. i \in DOMAIN recs' /\ Listed[i] = recs'[i] /\ recs'[i] \in Record
    <3>1. i \in Ids' /\ Store'
      BY <1>1, IdsGrow, Zenon DEF MemoryIInv, Keeps
    <3>. QED
      BY <3>1, SupBound DEF Ids, Store
  <2>2. op = "confirm" => recs'[i].sup = 0
    <3>1. op = "confirm" => recs'[i].status = "pending"
      BY <1>3, <2>1, Zenon DEF Permitted
    <3>2. Chained'
      BY <1>1, Zenon DEF Keeps, Store
    <3>. QED
      BY <2>1, <3>1, <3>2, Zenon DEF Chained, Ids
  <2>. QED
    BY <1>5, <2>1, <2>2, Zenon DEF PersonAt, Copy, SameText
<1>7. PersonInv'
  BY <1>1, <1>4, <1>6, PersonKept, Zenon DEF MemoryIInv
<1>8. EpochInv' /\ Tells'
  <2>1. Announcing => Announcing'
    BY <1>4, Zenon DEF Announcing
  <2>. QED
    BY <1>1, <2>1, EpochsKept, Zenon DEF MemoryIInv, Unheard
<1>9. Maps'
  BY <1>4, Zenon DEF MemoryIInv, Maps
<1>. QED
  BY <1>1, <1>2, <1>7, <1>8, <1>9, Zenon DEF StepSound, MemoryIInv, Keeps

LEMMA PersonProposesSteps ==
    ASSUME MemoryIInv, NEW p \in People, PersonProposes(p)
    PROVE  StepSound
<1>. USE DEF PersonProposes
<1>1. PICK t \in Texts, s \in Sessions : recs' = Commit(NewRecord(t, "active", s, "observed"))
  BY Zenon
<1>2. /\ NewRecord(t, "active", s, "observed") \in Record
      /\ NewRecord(t, "active", s, "observed").sup = 0
      /\ NewRecord(t, "active", s, "observed").prov = "observed"
  BY NewRecordSound DEF MemoryIInv, Statuses
<1>3. /\ Keeps /\ Len(recs') = Len(recs) + 1 /\ recs'[Len(recs) + 1].prov = "observed"
      /\ \A k \in Ids : recs'[k] = recs[k]
  BY <1>1, <1>2, Appends, Zenon DEF Commit, MemoryIInv
<1>4. OneExtractedPerText' /\ Unmoved
  <2>1. FilesNone
    BY <1>3, Zenon DEF FilesNone
  <2>. QED
    BY <1>3, <2>1, NoneFiled, Zenon DEF MemoryIInv
<1>5. JobInv' /\ OneJob'
  BY <1>3, <1>4, JobsWatch, Zenon DEF MemoryIInv
<1>6. /\ person'[p].at = "invalidate" /\ \A q \in People : q # p => person'[q] = person[q]
      /\ person' = [q \in People |-> person'[q]]
  BY Zenon DEF To, MemoryIInv, Maps
<1>7. PersonInv'
  <2>1. PersonAt(person'[p], recs')
    BY <1>6, Zenon DEF PersonAt
  <2>. QED
    BY <1>3, <1>6, <2>1, PersonKept, Zenon DEF MemoryIInv
<1>8. EpochInv' /\ Tells'
  <2>1. Announcing'
    BY <1>6, Zenon DEF Announcing
  <2>. QED
    BY <1>3, <2>1, EpochsLoud, Zenon DEF MemoryIInv
<1>9. Maps'
  BY <1>6, Zenon DEF MemoryIInv, Maps
<1>10. TombstoneStays /\ JobsSparePeople
  BY <1>3, Zenon DEF TombstoneStays, JobsSparePeople
<1>. QED
  BY <1>3, <1>4, <1>5, <1>7, <1>8, <1>9, <1>10, Zenon DEF StepSound, MemoryIInv, Keeps

(* A person's statement changes one record, and announces it or notes       *)
(* nothing changed.                                                         *)
LEMMA PersonAppliesSteps ==
    ASSUME MemoryIInv, NEW p \in People, PersonApplies(p)
    PROVE  StepSound
<1>. DEFINE me == person[p]
            i == me.id
<1>0. me.at = "apply" /\ i \in Ids /\ (me.op = "confirm" => Copy(i, me.copy, recs))
  BY Zenon DEF PersonApplies, MemoryIInv, PersonInv, PersonAt, Ids
<1>1. /\ Keeps /\ Spares(i) /\ FilesNone /\ (me.op # "restore" => Buried(i))
  <2>1. CASE me.op = "confirm" /\ recs' = Update(i, [me.copy EXCEPT !.status = "active", !.exp = clock + Retain])
    <3>0. Copy(i, me.copy, recs) /\ me.copy \in Record
      BY <1>0, <2>1, Zenon DEF Copy
    <3>1. PICK a : a = [me.copy EXCEPT !.status = "active"]
      BY Zenon
    <3>2. PICK q : q = [a EXCEPT !.exp = clock + Retain]
      BY Zenon
    <3>3. a \in Record /\ SameText(a, me.copy) /\ a.sup = me.copy.sup
      BY <3>0, <3>1, StatusField DEF Statuses
    <3>4. q \in Record /\ SameText(q, a) /\ q.sup = a.sup
      <4>1. clock + Retain \in Nat
        BY MemoryAssumption DEF MemoryIInv, Store
      <4>. QED
        BY <4>1, <3>2, <3>3, ExpField
    <3>5. [me.copy EXCEPT !.status = "active", !.exp = clock + Retain] = q
      BY <3>1, <3>2, Zenon
    <3>6. Copy(i, q, recs)
      BY <3>0, <3>3, <3>4, Zenon DEF Copy, SameText
    <3>7. Rewrote(i) /\ Buried(i)
      BY <2>1, <3>5, <3>6, UpdateSound, Zenon DEF MemoryIInv, PersonApplies
    <3>. QED
      BY <3>7, Zenon DEF Rewrote, FilesNone
  <2>2. CASE me.op = "correct" /\ \E t \in Texts, s \in Sessions :
                                     recs' = Correct(i, NewRecord(t, "active", s, "user"))
    <3>1. PICK t \in Texts, s \in Sessions : recs' = Correct(i, NewRecord(t, "active", s, "user"))
      BY <2>2, Zenon
    <3>2. PICK r : r = NewRecord(t, "active", s, "user")
      BY Zenon
    <3>3. r \in Record /\ r.sup = 0 /\ r.prov = "user"
      BY <3>2, NewRecordSound DEF MemoryIInv, Statuses
    <3>4. /\ Keeps /\ Spares(i) /\ Buried(i)
          /\ \/ ~Rewritable(i) /\ recs' = recs
             \/ /\ Rewritable(i) /\ recs'[i].status = "superseded"
                /\ Len(recs') = Len(recs) + 1 /\ recs'[Len(recs) + 1] = r
      BY <1>0, <3>1, <3>2, <3>3, CorrectSound, Zenon DEF MemoryIInv, PersonApplies
    <3>5. FilesNone
      BY <3>3, <3>4, Zenon DEF FilesNone
    <3>. QED
      BY <3>4, <3>5, Zenon
  <2>3. CASE me.op = "forget" /\ recs' = ForgetMemory(i)
    <3>1. Rewrote(i) /\ Buried(i)
      BY <1>0, <2>3, ForgetSound, Zenon DEF MemoryIInv, PersonApplies
    <3>. QED
      BY <3>1, Zenon DEF Rewrote, FilesNone
  <2>4. CASE me.op = "restore" /\ recs' = Restore(i)
    <3>1. Rewrote(i)
      BY <1>0, <2>4, RestoreSound, Zenon DEF MemoryIInv, PersonApplies
    <3>. QED
      BY <3>1, <2>4, Zenon DEF Rewrote, FilesNone
  <2>. QED
    BY <2>1, <2>2, <2>3, <2>4, Zenon DEF PersonApplies
<1>2. OneExtractedPerText' /\ Unmoved
  BY <1>1, NoneFiled, Zenon DEF MemoryIInv
<1>3. /\ job' = job /\ lock' = lock /\ epoch' = epoch /\ refresh' = refresh /\ clock' = clock
      /\ missed' = missed
      /\ overtaken' = IF recs' # recs /\ i \in HeldCopies THEN overtaken \cup {i} ELSE overtaken
      /\ To(p, IF recs' = recs THEN Idle ELSE [at |-> "invalidate"])
  BY Zenon DEF PersonApplies
<1>4. JobInv' /\ OneJob'
  <2>1. overtaken \subseteq overtaken'
    BY <1>3, Zenon
  <2>2. \A k \in HeldCopies \cap Ids : recs'[k] = recs[k] \/ k \in overtaken'
    BY <1>1, <1>3, Zenon DEF Spares
  <2>. QED
    BY <1>1, <1>2, <1>3, <2>1, <2>2, JobsWatch, Zenon DEF MemoryIInv
<1>5. /\ \A q \in People : q # p => person'[q] = person[q]
      /\ person' = [q \in People |-> person'[q]]
      /\ person'[p] = IF recs' = recs THEN Idle ELSE [at |-> "invalidate"]
  BY <1>3, Zenon DEF To, MemoryIInv, Maps
<1>6. person'[p].at # "apply" /\ (recs' # recs => person'[p].at = "invalidate")
  BY <1>5 DEF Idle
<1>7. PersonInv'
  BY <1>1, <1>5, <1>6, PersonKept, Zenon DEF MemoryIInv, PersonAt
<1>8. EpochInv' /\ Tells'
  <2>1. CASE recs' # recs
    <3>1. Announcing'
      BY <2>1, <1>6, Zenon DEF Announcing
    <3>. QED
      BY <1>1, <1>3, <3>1, EpochsLoud, Zenon DEF MemoryIInv
  <2>2. CASE recs' = recs
    <3>1. Announcing => Announcing'
      BY <1>0, <1>3, <1>5, Zenon DEF Announcing
    <3>2. Ages
      BY <2>2, <1>3, Stays DEF MemoryIInv, Store
    <3>. QED
      BY <1>1, <1>3, <3>1, <3>2, EpochsKept, Zenon DEF MemoryIInv, Unheard
  <2>. QED
    BY <2>1, <2>2, Zenon
<1>9. Maps'
  BY <1>3, <1>5, Zenon DEF MemoryIInv, Maps
<1>10. TombstoneStays
  BY <1>0, <1>1, Zenon DEF TombstoneStays, Restoring, Spares, Buried
<1>11. JobsSparePeople
  BY <1>3, Zenon DEF JobsSparePeople
<1>. QED
  BY <1>1, <1>2, <1>3, <1>4, <1>7, <1>8, <1>9, <1>10, <1>11, Zenon DEF StepSound, MemoryIInv, Keeps

LEMMA PersonInvalidatesSteps ==
    ASSUME MemoryIInv, NEW p \in People, PersonInvalidates(p)
    PROVE  StepSound
<1>. USE DEF PersonInvalidates
<1>1. Keeps /\ Ages
  BY Stays DEF MemoryIInv, Store
<1>2. /\ OneExtractedPerText' /\ JobInv' /\ OneJob' /\ lock' \in Jobs \cup {NoJob}
      /\ TombstoneStays /\ JobsSparePeople
  BY <1>1, RecordsRest, Zenon
<1>3. EpochInv' /\ Tells' /\ epoch' = [s \in Sessions |-> epoch'[s]]
  BY EpochsMarked, Zenon DEF MemoryIInv
<1>4. /\ person'[p].at = "idle" /\ \A q \in People : q # p => person'[q] = person[q]
      /\ person' = [q \in People |-> person'[q]]
  BY Zenon DEF To, Idle, MemoryIInv, Maps
<1>5. PersonInv'
  <2>1. PersonAt(person'[p], recs')
    BY <1>4, Zenon DEF PersonAt
  <2>. QED
    BY <1>1, <1>4, <2>1, PersonKept, Zenon DEF MemoryIInv
<1>6. Maps'
  BY <1>3, <1>4, Zenon DEF MemoryIInv, Maps
<1>. QED
  BY <1>1, <1>2, <1>3, <1>5, <1>6, Zenon DEF StepSound, MemoryIInv, Keeps

-----------------------------------------------------------------------------
(* The jobs                                                                 *)

(* What a job has still to announce.                                        *)
Loud(x) == x.at = "announce" \/ (x.at = "triage" /\ x.changed)

(* One job moves.                                                          *)
LEMMA JobMap ==
    ASSUME Maps, NEW j \in Jobs, NEW x, job' = [job EXCEPT ![j] = x]
    PROVE  /\ job'[j] = x /\ \A k \in Jobs : k # j => job'[k] = job[k]
           /\ job' = [k \in Jobs |-> job'[k]]
BY Zenon DEF Maps

(* A job that moves goes on announcing, or starts to.                      *)
LEMMA JobAnnounces ==
    ASSUME Maps, NEW j \in Jobs, NEW x, job' = [job EXCEPT ![j] = x], person' = person
    PROVE  /\ Loud(x) => Announcing'
           /\ (Loud(job[j]) => Loud(x)) => (Announcing => Announcing')
<1>1. job'[j] = x /\ \A k \in Jobs : k # j => job'[k] = job[k]
  BY JobMap, Zenon
<1>2. Announcing <=> (\E p \in People : person[p].at = "invalidate") \/ \E k \in Jobs : Loud(job[k])
  BY Zenon DEF Announcing, Loud
<1>3. Announcing' <=> (\E p \in People : person[p].at = "invalidate") \/ \E k \in Jobs : Loud(job'[k])
  BY Zenon DEF Announcing, Loud
<1>. QED
  BY <1>1, <1>2, <1>3, Zenon

(* A job that was judging or filing nothing changed nothing of a person's.  *)
LEMMA JobSpares ==
    ASSUME Maps, NEW j \in Jobs, NEW x, job' = [job EXCEPT ![j] = x],
           \/ job[j].at \notin {"triage", "commit", "correct", "update"}
           \/ \A i \in Ids : recs[i].status = "active" /\ recs'[i] # recs[i] =>
                  i \in overtaken \/ recs'[i].status = "superseded"
    PROVE  JobsSparePeople
BY JobMap, Zenon DEF JobsSparePeople

(* A step of a job that at most lets records expire, and announces as much  *)
(* as before.                                                               *)
LEMMA JobQuiet ==
    ASSUME MemoryIInv, NEW j \in Jobs, NEW x, Keeps, Ages, lock \in {j, NoJob},
           job' = [job EXCEPT ![j] = x], Loud(job[j]) => Loud(x), x.at # "idle" => lock' = j,
           lock' \in Jobs \cup {NoJob}, JobAt(x, recs', overtaken'),
           person' = person, epoch' = epoch, refresh' = refresh, missed' = missed,
           \/ recs' = recs
           \/ job[j].at \notin {"triage", "commit", "correct", "update"}
    PROVE  StepSound
<1>1. Maps'
  BY JobMap, Zenon DEF MemoryIInv, Maps
<1>2. PersonInv'
  BY PersonKept, Zenon DEF MemoryIInv
<1>3. JobInv' /\ OneJob'
  BY JobAlone, Zenon DEF MemoryIInv, Maps
<1>4. OneExtractedPerText'
  <2>1. FilesNone
    BY Zenon DEF FilesNone, Ages
  <2>. QED
    BY <2>1, NoneFiled, Zenon DEF MemoryIInv
<1>5. EpochInv' /\ Tells'
  <2>1. Announcing => Announcing'
    BY JobAnnounces, Zenon DEF MemoryIInv
  <2>. QED
    BY <2>1, EpochsKept, Zenon DEF MemoryIInv, Unheard
<1>6. TombstoneStays
  BY Zenon DEF TombstoneStays, Ages
<1>7. JobsSparePeople
  BY JobSpares, Zenon DEF MemoryIInv
<1>. QED
  BY <1>1, <1>2, <1>3, <1>4, <1>5, <1>6, <1>7, Zenon DEF StepSound, MemoryIInv, Keeps

(* A step of a job that announces what it changed.                          *)
LEMMA JobLoud ==
    ASSUME MemoryIInv, NEW j \in Jobs, NEW x, Keeps, lock = j,
           job' = [job EXCEPT ![j] = x], Loud(x), lock' = lock, JobAt(x, recs', overtaken'),
           person' = person, epoch' = epoch, refresh' = refresh,
           OneExtractedPerText',
           \A i \in Ids : Buried(i),
           \A i \in Ids : recs[i].status = "active" /\ recs'[i] # recs[i] =>
               i \in overtaken \/ recs'[i].status = "superseded"
    PROVE  StepSound
<1>1. Maps'
  BY JobMap, Zenon DEF MemoryIInv, Maps
<1>2. PersonInv'
  BY PersonKept, Zenon DEF MemoryIInv
<1>3. JobInv' /\ OneJob'
  BY JobAlone, Zenon DEF MemoryIInv, Maps
<1>5. EpochInv' /\ Tells'
  <2>1. Announcing'
    BY JobAnnounces, Zenon DEF MemoryIInv
  <2>. QED
    BY <2>1, EpochsLoud, Zenon DEF MemoryIInv
<1>6. TombstoneStays
  BY Zenon DEF TombstoneStays, Buried
<1>7. JobsSparePeople
  BY JobSpares, Zenon DEF MemoryIInv
<1>. QED
  BY <1>1, <1>2, <1>3, <1>5, <1>6, <1>7, Zenon DEF StepSound, MemoryIInv, Keeps

(* A step of a job that announces what it changed before.                   *)
LEMMA JobMarks ==
    ASSUME MemoryIInv, NEW j \in Jobs, NEW x, lock = j,
           job' = [job EXCEPT ![j] = x], Invalidate, x.at # "idle" => lock' = j,
           lock' \in Jobs \cup {NoJob}, JobAt(x, recs, overtaken), overtaken' = overtaken,
           recs' = recs, clock' = clock, person' = person, refresh' = refresh
    PROVE  StepSound
<1>0. Keeps /\ Ages
  BY Stays DEF MemoryIInv, Store
<1>1. EpochInv' /\ Tells' /\ epoch' = [s \in Sessions |-> epoch'[s]]
  BY EpochsMarked, Zenon DEF MemoryIInv
<1>2. Maps'
  BY <1>1, JobMap, Zenon DEF MemoryIInv, Maps
<1>3. JobInv' /\ OneJob'
  BY JobAlone, Zenon DEF MemoryIInv, Maps
<1>4. PersonInv' /\ OneExtractedPerText'
  BY Zenon DEF MemoryIInv, PersonInv, OneExtractedPerText, Ids
<1>5. TombstoneStays /\ JobsSparePeople
  BY Zenon DEF TombstoneStays, JobsSparePeople
<1>. QED
  BY <1>0, <1>1, <1>2, <1>3, <1>4, <1>5, Zenon DEF StepSound, MemoryIInv, Keeps

(* A job at work holds the lock.                                           *)
LEMMA JobHolds ==
    ASSUME MemoryIInv, NEW j \in Jobs, job[j].at # "idle"
    PROVE  lock = j /\ lock \in {j, NoJob} /\ JobAt(job[j], recs, overtaken)
BY Zenon DEF MemoryIInv, OneJob, JobInv

(* A job at rest has nothing to announce.                                  *)
LEMMA IdleJob == Idle.at = "idle" /\ ~Loud(Idle) /\ \A R, O : JobAt(Idle, R, O)
BY Zenon DEF Idle, Loud, JobAt

LEMMA JobBeginsSteps ==
    ASSUME MemoryIInv, NEW j \in Jobs, JobBegins(j)
    PROVE  StepSound
<1>. USE DEF JobBegins
<1>1. Keeps /\ Ages
  BY Stays DEF MemoryIInv, Store
<1>2. PICK c \in {NoCandidate} \cup [text : Texts, sid : Sessions] :
          At(j, [at |-> "pending", cand |-> c, held |-> {}])
  BY Zenon
<1>3. PICK x : x = [at |-> "pending", cand |-> c, held |-> {}]
  BY Zenon
<1>4. x.at = "pending" /\ x.cand \in Found \cup {NoCandidate}
  BY <1>3, Zenon DEF Found
<1>5. JobAt(x, recs', overtaken') /\ job[j].at \notin {"triage", "commit", "correct", "update"}
      /\ ~Loud(job[j])
  BY <1>4, Zenon DEF JobAt, Loud
<1>6. job' = [job EXCEPT ![j] = x]
  BY <1>2, <1>3, Zenon DEF At
<1>. QED
  BY <1>1, <1>5, <1>6, JobQuiet, Zenon DEF CanLock

LEMMA JobListsPendingSteps ==
    ASSUME MemoryIInv, NEW j \in Jobs, JobListsPending(j)
    PROVE  StepSound
<1>. USE DEF JobListsPending
<1>1. Keeps /\ Ages
  BY ListingAges, Zenon DEF MemoryIInv
<1>2. job[j].at = "pending"
  BY Zenon
<1>3. lock = j /\ lock \in {j, NoJob} /\ JobAt(job[j], recs, overtaken)
  BY <1>2, JobHolds, Zenon
<1>4. PICK c : c = [i \in PendingIds |-> Listed[i]]
  BY Zenon
<1>5. PICK x : x = [at |-> "triage", cand |-> job[j].cand, held |-> PendingIds, copies |-> c,
                    changed |-> FALSE]
  BY Zenon
<1>6. /\ x.at = "triage" /\ x.cand = job[j].cand /\ x.held = PendingIds /\ x.copies = c
      /\ x.changed = FALSE
  BY <1>5, Zenon
<1>7. job' = [job EXCEPT ![j] = x]
  BY <1>4, <1>5, Zenon DEF At
<1>8. ASSUME NEW i \in PendingIds PROVE Copy(i, c[i], recs') /\ recs'[i].status # "active"
  <2>1. c[i] = recs'[i] /\ i \in Ids /\ recs'[i].status = "pending"
    BY <1>4, <1>8, Zenon DEF PendingIds
  <2>2. i \in DOMAIN recs' /\ recs'[i] \in Record
    <3>1. i \in Ids' /\ Store'
      BY <1>1, <2>1, IdsGrow, Zenon DEF MemoryIInv, Keeps
    <3>. QED
      BY <3>1, SupBound DEF Ids, Store
  <2>3. recs'[i].sup = 0
    <3>1. Chained'
      BY <1>1, Zenon DEF Keeps, Store
    <3>. QED
      BY <2>1, <2>2, <3>1, Zenon DEF Chained, Ids
  <2>. QED
    BY <2>1, <2>2, <2>3, Zenon DEF Copy, SameText
<1>9. Triaging(x, recs', overtaken')
  BY <1>6, <1>8, Zenon DEF Triaging
<1>10. JobAt(x, recs', overtaken')
  BY <1>2, <1>3, <1>6, <1>9, Zenon DEF JobAt
<1>11. ~Loud(job[j]) /\ job[j].at \notin {"triage", "commit", "correct", "update"}
  BY <1>2, Zenon DEF Loud
<1>. QED
  BY <1>1, <1>3, <1>7, <1>10, <1>11, JobQuiet, Zenon DEF MemoryIInv

(* A verdict settles a record the job found pending.                        *)
LEMMA JobTriagesSteps ==
    ASSUME MemoryIInv, NEW j \in Jobs, JobTriages(j)
    PROVE  StepSound
<1>. USE DEF JobTriages
<1>0. PICK me : me = job[j]
  BY Zenon
<1>1. me.at = "triage"
  BY <1>0, Zenon
<1>2. lock = j /\ lock \in {j, NoJob} /\ JobAt(me, recs, overtaken) /\ Triaging(me, recs, overtaken)
  BY <1>0, <1>1, JobHolds, Zenon DEF JobAt
<1>3. PICK i \in me.held, verdict \in Verdicts :
         /\ recs' = Settled(me, i, verdict)
         /\ At(j, [at |-> "triage", cand |-> me.cand, held |-> me.held \ {i},
                   copies |-> me.copies, changed |-> me.changed \/ recs' # recs])
  BY <1>0, Zenon
<1>4. PICK x : x = [at |-> "triage", cand |-> me.cand, held |-> me.held \ {i},
                    copies |-> me.copies, changed |-> me.changed \/ recs' # recs]
  BY Zenon
<1>5. /\ x.at = "triage" /\ x.cand = me.cand /\ x.held = me.held \ {i} /\ x.copies = me.copies
      /\ x.changed = (me.changed \/ recs' # recs)
  BY <1>4, Zenon
<1>6. job' = [job EXCEPT ![j] = x]
  BY <1>3, <1>4, Zenon DEF At
<1>7. Copy(i, me.copies[i], recs)
  BY <1>2, Zenon DEF Triaging
<1>8. Rewrote(i) /\ Buried(i)
  BY <1>3, <1>7, SettledSound, Zenon DEF MemoryIInv
<1>9. Keeps /\ \A k \in Ids : k # i => recs'[k] = recs[k]
  BY <1>8, Zenon DEF Rewrote, Spares
<1>10. Triaging(x, recs', overtaken')
  <2>1. ASSUME NEW k \in x.held
        PROVE  Copy(k, x.copies[k], recs') /\ (recs'[k].status = "active" => k \in overtaken')
    <3>1. k \in me.held /\ k # i
      BY <1>5, <2>1, Zenon
    <3>2. Copy(k, me.copies[k], recs) /\ (recs[k].status = "active" => k \in overtaken)
      BY <1>2, <3>1, Zenon DEF Triaging
    <3>3. Copy(k, me.copies[k], recs')
      BY <1>9, <3>2, CopyKept, Zenon DEF MemoryIInv
    <3>4. recs'[k] = recs[k]
      BY <1>9, <3>1, <3>2, Zenon DEF Copy, Ids
    <3>. QED
      BY <1>5, <3>2, <3>3, <3>4, Zenon
  <2>2. x.changed \in BOOLEAN
    BY <1>5, Zenon
  <2>. QED
    BY <2>1, <2>2, Zenon DEF Triaging
<1>11. JobAt(x, recs', overtaken')
  BY <1>1, <1>2, <1>5, <1>10, Zenon DEF JobAt
<1>12. OneExtractedPerText'
  <2>1. FilesNone
    BY <1>8, Zenon DEF FilesNone, Rewrote
  <2>. QED
    BY <1>9, <2>1, NoneFiled, Zenon DEF MemoryIInv
<1>13. CASE recs' # recs
  <2>1. Loud(x)
    BY <1>13, <1>5, Zenon DEF Loud
  <2>2. \A k \in Ids : Buried(k)
    BY <1>8, <1>9, Zenon DEF Buried
  <2>3. \A k \in Ids : recs[k].status = "active" /\ recs'[k] # recs[k] => k \in overtaken
    BY <1>2, <1>9, Zenon DEF Triaging
  <2>. QED
    BY <1>2, <1>6, <1>9, <1>11, <1>12, <2>1, <2>2, <2>3, JobLoud, Zenon
<1>14. CASE recs' = recs
  <2>1. Ages
    BY <1>14, Stays DEF MemoryIInv, Store
  <2>2. Loud(me) => Loud(x)
    BY <1>1, <1>5, Zenon DEF Loud
  <2>. QED
    BY <1>0, <1>2, <1>6, <1>9, <1>11, <1>14, <2>1, <2>2, JobQuiet, Zenon DEF MemoryIInv
<1>. QED
  BY <1>13, <1>14, Zenon

LEMMA JobTriagedSteps ==
    ASSUME MemoryIInv, NEW j \in Jobs, JobTriaged(j)
    PROVE  StepSound
<1>. USE DEF JobTriaged
<1>1. job[j].at = "triage"
  BY Zenon
<1>2. lock = j /\ lock \in {j, NoJob} /\ JobAt(job[j], recs, overtaken)
  BY <1>1, JobHolds, Zenon
<1>3. PICK x : /\ job' = [job EXCEPT ![j] = x] /\ (x.at # "idle" => lock' = j)
               /\ lock' \in Jobs \cup {NoJob} /\ JobAt(x, recs, overtaken)
  <2>1. CASE job[j].cand = NoCandidate
    <3>1. job' = [job EXCEPT ![j] = Idle] /\ lock' = NoJob
      BY <2>1, Zenon DEF At
    <3>. QED
      BY <3>1, IdleJob, Zenon
  <2>2. CASE job[j].cand # NoCandidate
    <3>1. PICK x : x = [at |-> "candidate", cand |-> job[j].cand, held |-> {}]
      BY Zenon
    <3>2. job' = [job EXCEPT ![j] = x] /\ lock' = j
      BY <2>2, <1>2, <3>1, Zenon DEF At
    <3>3. x.at = "candidate" /\ x.cand = job[j].cand
      BY <3>1, Zenon
    <3>4. x.cand \in Found
      BY <1>1, <1>2, <2>2, <3>3, Zenon DEF JobAt
    <3>5. JobAt(x, recs, overtaken)
      BY <3>3, <3>4, Zenon DEF JobAt
    <3>. QED
      BY <3>2, <3>5, Zenon
  <2>. QED
    BY <2>1, <2>2, Zenon
<1>4. CASE job[j].changed
  BY <1>2, <1>3, <1>4, JobMarks, Zenon
<1>5. CASE ~job[j].changed
  <2>1. Keeps /\ Ages
    BY Stays DEF MemoryIInv, Store
  <2>2. ~Loud(job[j])
    BY <1>1, <1>5, Zenon DEF Loud
  <2>. QED
    BY <1>2, <1>3, <1>5, <2>1, <2>2, JobQuiet, Zenon
<1>. QED
  BY <1>4, <1>5, Zenon

(* A record of the listing, as a copy.                                      *)
LEMMA ListedCopy ==
    ASSUME Store, Keeps, Ages, recs' = Listed, NEW i \in Ids, Listed[i].status \notin Gone
    PROVE  Copy(i, Listed[i], recs') /\ Listed[i] = recs'[i]
<1>1. i \in Ids' /\ Store'
  BY IdsGrow, Zenon DEF Keeps
<1>2. i \in DOMAIN recs' /\ recs'[i] \in Record
  BY <1>1 DEF Ids, Store
<1>3. recs'[i].sup = 0
  BY <1>1, <1>2, Zenon DEF Store, Chained, Ids, Gone
<1>. QED
  BY <1>2, <1>3, Zenon DEF Copy, SameText

LEMMA JobListsSteps ==
    ASSUME MemoryIInv, NEW j \in Jobs, JobLists(j)
    PROVE  StepSound
<1>. DEFINE c == job[j].cand
            dup == Duplicates(c.text)
<1>1. /\ job[j].at = "candidate" /\ clock' = clock /\ person' = person /\ epoch' = epoch
      /\ refresh' = refresh /\ overtaken' = overtaken /\ missed' = missed
  BY Zenon DEF JobLists
<1>2. lock = j /\ lock \in {j, NoJob} /\ JobAt(job[j], recs, overtaken)
  BY <1>1, JobHolds, Zenon
<1>3. c \in Found
  BY <1>1, <1>2, Zenon DEF JobAt
<1>4. recs' \in {recs, Listed}
  BY Zenon DEF JobLists
<1>5. Keeps /\ Ages
  BY <1>1, <1>4, Stays, ListingAges DEF MemoryIInv, Store
<1>6. PICK x : /\ job' = [job EXCEPT ![j] = x] /\ (x.at # "idle" => lock' = j)
               /\ lock' \in Jobs \cup {NoJob} /\ JobAt(x, recs', overtaken')
  <2>1. CASE At(j, Idle) /\ lock' = NoJob
    BY <2>1, IdleJob, Zenon DEF At
  <2>2. CASE /\ \A i \in dup : Listed[i].status \notin Gone
             /\ recs' = Listed /\ lock' = lock
             /\ dup # {}
             /\ \E i \in dup : At(j, [at |-> "update", held |-> {i}, id |-> i, copy |-> Listed[i]])
    <3>1. PICK i \in dup : At(j, [at |-> "update", held |-> {i}, id |-> i, copy |-> Listed[i]])
      BY <2>2, Zenon
    <3>2. i \in Ids /\ Listed[i].status \notin Gone
      BY <2>2, Zenon DEF Duplicates
    <3>3. Copy(i, Listed[i], recs') /\ Listed[i] = recs'[i]
      BY <1>5, <2>2, <3>2, ListedCopy, Zenon DEF MemoryIInv
    <3>4. PICK x : x = [at |-> "update", held |-> {i}, id |-> i, copy |-> Listed[i]]
      BY Zenon
    <3>5. x.at = "update" /\ x.held = {i} /\ x.id = i /\ x.copy = Listed[i]
      BY <3>4, Zenon
    <3>6. Updating(x, recs', overtaken')
      BY <3>3, <3>5, Zenon DEF Updating
    <3>7. JobAt(x, recs', overtaken')
      BY <3>5, <3>6, Zenon DEF JobAt
    <3>. QED
      BY <1>2, <2>2, <3>1, <3>4, <3>7, Zenon DEF At
  <2>3. ASSUME recs' = Listed, dup = {} PROVE Unfiled(c.text, recs')
    <3>1. DOMAIN recs' = Ids
      BY <2>3, Zenon DEF Listed
    <3>. QED
      BY <2>3, <3>1, Zenon DEF Duplicates, Unfiled
  <2>4. CASE /\ recs' = Listed /\ lock' = lock /\ dup = {}
             /\ \E st \in {"active", "pending"} :
                   At(j, [at |-> "commit", cand |-> c, held |-> {}, status |-> st])
    <3>1. PICK st \in {"active", "pending"} :
              At(j, [at |-> "commit", cand |-> c, held |-> {}, status |-> st])
      BY <2>4, Zenon
    <3>2. PICK x : x = [at |-> "commit", cand |-> c, held |-> {}, status |-> st]
      BY Zenon
    <3>3. x.at = "commit" /\ x.cand = c /\ x.status = st
      BY <3>2, Zenon
    <3>4. JobAt(x, recs', overtaken')
      BY <1>3, <2>3, <2>4, <3>3, Zenon DEF JobAt
    <3>. QED
      BY <1>2, <2>4, <3>1, <3>2, <3>4, Zenon DEF At
  <2>5. CASE /\ recs' = Listed /\ lock' = lock /\ dup = {}
             /\ \E i \in Contradicted : At(j, [at |-> "correct", cand |-> c, held |-> {i}, id |-> i])
    <3>1. PICK i \in Contradicted : At(j, [at |-> "correct", cand |-> c, held |-> {i}, id |-> i])
      BY <2>5, Zenon
    <3>2. PICK x : x = [at |-> "correct", cand |-> c, held |-> {i}, id |-> i]
      BY Zenon
    <3>3. x.at = "correct" /\ x.cand = c /\ x.id = i
      BY <3>2, Zenon
    <3>4. i \in DOMAIN recs'
      BY <1>5, <3>1, IdsGrow, Zenon DEF Contradicted, MemoryIInv, Ids
    <3>5. JobAt(x, recs', overtaken')
      BY <1>3, <2>3, <2>5, <3>3, <3>4, Zenon DEF JobAt
    <3>. QED
      BY <1>2, <2>5, <3>1, <3>2, <3>5, Zenon DEF At
  <2>. QED
    BY <2>1, <2>2, <2>4, <2>5, Zenon DEF JobLists
<1>7. ~Loud(job[j]) /\ job[j].at \notin {"triage", "commit", "correct", "update"}
  BY <1>1, Zenon DEF Loud
<1>. QED
  BY <1>1, <1>2, <1>5, <1>6, <1>7, JobQuiet, Zenon

LEMMA JobFilesSteps ==
    ASSUME MemoryIInv, NEW j \in Jobs, JobFiles(j)
    PROVE  StepSound
<1>0. PICK me : me = job[j]
  BY Zenon
<1>1. /\ me.at \in {"commit", "correct", "update"} /\ clock' = clock /\ person' = person
      /\ epoch' = epoch /\ refresh' = refresh /\ overtaken' = overtaken /\ missed' = missed
  BY <1>0, Zenon DEF JobFiles
<1>2. lock = j /\ lock \in {j, NoJob} /\ JobAt(me, recs, overtaken)
  BY <1>0, <1>1, JobHolds, Zenon
<1>3. PICK x : x = [at |-> "announce", held |-> {}]
  BY Zenon
<1>4. Loud(x) /\ \A R, O : JobAt(x, R, O)
  BY <1>3, Zenon DEF Loud, JobAt
<1>5. ~Loud(me)
  BY <1>1, Zenon DEF Loud
<1>6. ASSUME me.at # "commit", ~Rewritable(me.id), recs' = recs PROVE StepSound
  <2>1. job' = [job EXCEPT ![j] = Idle] /\ lock' = NoJob
    BY <1>0, <1>6, Zenon DEF JobFiles, At
  <2>2. Keeps /\ Ages
    BY <1>1, <1>6, Stays DEF MemoryIInv, Store
  <2>. QED
    BY <1>0, <1>1, <1>2, <1>5, <1>6, <2>1, <2>2, IdleJob, JobQuiet, Zenon
<1>7. ASSUME me.at = "commit" \/ Rewritable(me.id) PROVE job' = [job EXCEPT ![j] = x] /\ lock' = lock
  BY <1>0, <1>3, <1>7, Zenon DEF JobFiles, At
<1>8. CASE me.at = "commit"
  <2>1. me.cand \in Found /\ Unfiled(me.cand.text, recs) /\ me.status \in {"active", "pending"}
    BY <1>2, <1>8, Zenon DEF JobAt
  <2>2. PICK r : r = NewRecord(me.cand.text, me.status, me.cand.sid, "extracted")
    BY Zenon
  <2>3. recs' = Append(recs, r)
    BY <1>0, <1>8, <2>2, Zenon DEF JobFiles, Commit
  <2>4. r \in Record /\ r.sup = 0 /\ r.text = me.cand.text
    <3>1. me.cand.text \in Texts /\ me.cand.sid \in Sessions /\ me.status \in Statuses
      BY <2>1, Zenon DEF Found, Statuses
    <3>. QED
      BY <2>2, <3>1, NewRecordSound DEF MemoryIInv
  <2>5. /\ Keeps /\ Len(recs') = Len(recs) + 1 /\ recs'[Len(recs) + 1] = r
        /\ \A k \in Ids : recs'[k] = recs[k]
    BY <1>1, <2>3, <2>4, Appends, Zenon DEF MemoryIInv
  <2>6. OneExtractedPerText'
    BY <2>1, <2>4, <2>5, OneFiled, Zenon DEF MemoryIInv
  <2>7. \A k \in Ids : Buried(k)
    BY <2>5, Zenon DEF Buried
  <2>. QED
    BY <1>1, <1>2, <1>4, <1>7, <1>8, <2>5, <2>6, <2>7, JobLoud, Zenon
<1>9. CASE me.at = "correct"
  <2>1. me.cand \in Found /\ Unfiled(me.cand.text, recs) /\ me.id \in Ids
    BY <1>2, <1>9, Zenon DEF JobAt, Ids
  <2>2. PICK r : r = NewRecord(me.cand.text, "active", me.cand.sid, "extracted")
    BY Zenon
  <2>3. recs' = Correct(me.id, r)
    BY <1>0, <1>9, <2>2, Zenon DEF JobFiles
  <2>4. r \in Record /\ r.sup = 0 /\ r.text = me.cand.text
    <3>1. me.cand.text \in Texts /\ me.cand.sid \in Sessions
      BY <2>1, Zenon DEF Found
    <3>. QED
      BY <2>2, <3>1, NewRecordSound DEF MemoryIInv, Statuses
  <2>5. /\ Keeps /\ Spares(me.id) /\ Buried(me.id)
        /\ \/ ~Rewritable(me.id) /\ recs' = recs
           \/ /\ Rewritable(me.id) /\ recs'[me.id].status = "superseded"
              /\ Len(recs') = Len(recs) + 1 /\ recs'[Len(recs) + 1] = r
    BY <1>1, <2>1, <2>3, <2>4, CorrectSound, Zenon DEF MemoryIInv
  <2>6. CASE ~Rewritable(me.id) /\ recs' = recs
    BY <1>6, <1>9, <2>6, Zenon
  <2>7. CASE /\ Rewritable(me.id) /\ recs'[me.id].status = "superseded"
             /\ Len(recs') = Len(recs) + 1 /\ recs'[Len(recs) + 1] = r
    <3>1. OneExtractedPerText'
      BY <2>1, <2>4, <2>5, <2>7, OneFiled, Zenon DEF MemoryIInv
    <3>2. \A k \in Ids : Buried(k)
      BY <2>5, Zenon DEF Buried, Spares
    <3>3. \A k \in Ids : recs'[k] # recs[k] => recs'[k].status = "superseded"
      BY <2>5, <2>7, Zenon DEF Spares
    <3>. QED
      BY <1>1, <1>2, <1>4, <1>7, <2>5, <2>7, <3>1, <3>2, <3>3, JobLoud, Zenon
  <2>. QED
    BY <2>5, <2>6, <2>7, Zenon
<1>10. CASE me.at = "update"
  <2>1. Updating(me, recs, overtaken)
    BY <1>2, <1>10, Zenon DEF JobAt
  <2>2. recs' = Update(me.id, me.copy) /\ Copy(me.id, me.copy, recs)
    BY <1>0, <1>10, <2>1, Zenon DEF JobFiles, Updating
  <2>3. /\ Rewrote(me.id) /\ Buried(me.id) /\ recs'[me.id] \in {recs[me.id], me.copy}
        /\ ~Rewritable(me.id) => recs' = recs
    BY <1>1, <2>2, UpdateSound, Zenon DEF MemoryIInv
  <2>4. CASE ~Rewritable(me.id)
    BY <1>6, <1>10, <2>3, <2>4, Zenon
  <2>5. CASE Rewritable(me.id)
    <3>1. Keeps /\ FilesNone /\ Spares(me.id)
      BY <2>3, Zenon DEF Rewrote, FilesNone
    <3>2. OneExtractedPerText'
      BY <3>1, NoneFiled, Zenon DEF MemoryIInv
    <3>3. \A k \in Ids : Buried(k)
      BY <2>3, <3>1, Zenon DEF Buried, Spares
    <3>4. \A k \in Ids : recs[k].status = "active" /\ recs'[k] # recs[k] => k \in overtaken
      BY <2>1, <2>3, <3>1, Zenon DEF Updating, Spares
    <3>. QED
      BY <1>1, <1>2, <1>4, <1>7, <2>5, <3>1, <3>2, <3>3, <3>4, JobLoud, Zenon
  <2>. QED
    BY <2>4, <2>5, Zenon
<1>. QED
  BY <1>1, <1>8, <1>9, <1>10, Zenon

LEMMA JobInvalidatesSteps ==
    ASSUME MemoryIInv, NEW j \in Jobs, JobInvalidates(j)
    PROVE  StepSound
<1>1. /\ job[j].at = "announce" /\ Invalidate /\ job' = [job EXCEPT ![j] = Idle] /\ lock' = NoJob
      /\ recs' = recs /\ clock' = clock /\ person' = person /\ refresh' = refresh
      /\ overtaken' = overtaken
  BY Zenon DEF JobInvalidates, At
<1>2. lock = j
  BY <1>1, JobHolds, Zenon
<1>. QED
  BY <1>1, <1>2, IdleJob, JobMarks, Zenon

-----------------------------------------------------------------------------
(* The sessions                                                             *)

(* A step of one session's refresh.                                         *)
LEMMA RefreshMoves ==
    ASSUME MemoryIInv, NEW s \in Sessions, Keeps, Ages,
           job' = job, lock' = lock, overtaken' = overtaken, person' = person,
           NEW e, NEW x, epoch' = [epoch EXCEPT ![s] = e], refresh' = [refresh EXCEPT ![s] = x],
           \A z \in Sessions : z # s /\ z \in missed => z \in missed',
           EpochAt(e, x, recs'), ~Announcing' /\ s \notin missed' => Telling(s, e, x, recs', clock')
    PROVE  StepSound
<1>1. /\ epoch'[s] = e /\ refresh'[s] = x
      /\ \A z \in Sessions : z # s => epoch'[z] = epoch[z] /\ refresh'[z] = refresh[z]
      /\ epoch' = [z \in Sessions |-> epoch'[z]] /\ refresh' = [z \in Sessions |-> refresh'[z]]
  BY Zenon DEF MemoryIInv, Maps
<1>2. Maps'
  BY <1>1, Zenon DEF MemoryIInv, Maps
<1>3. /\ OneExtractedPerText' /\ JobInv' /\ OneJob' /\ lock' \in Jobs \cup {NoJob}
      /\ TombstoneStays /\ JobsSparePeople
  BY RecordsRest, Zenon
<1>4. PersonInv'
  BY PersonKept, Zenon DEF MemoryIInv
<1>5. Announcing => Announcing'
  BY Zenon DEF Announcing
<1>6. \A z \in Sessions : Unheard(z) \/ Heard(z)
  BY <1>1, Zenon DEF Unheard, Heard
<1>7. EpochInv' /\ Tells'
  BY <1>5, <1>6, EpochsKept, Zenon DEF MemoryIInv
<1>. QED
  BY <1>2, <1>3, <1>4, <1>7, Zenon DEF StepSound, MemoryIInv, Keeps

(* What holds of a session before its refresh moves.                       *)
LEMMA EpochSame ==
    ASSUME MemoryIInv, NEW s \in Sessions
    PROVE  /\ epoch = [epoch EXCEPT ![s] = epoch[s]] /\ refresh = [refresh EXCEPT ![s] = refresh[s]]
           /\ EpochAt(epoch[s], refresh[s], recs)
           /\ ~Announcing /\ s \notin missed => Telling(s, epoch[s], refresh[s], recs, clock)
<1>1. epoch = [epoch EXCEPT ![s] = epoch[s]] /\ refresh = [refresh EXCEPT ![s] = refresh[s]]
  BY Zenon DEF MemoryIInv, Maps
<1>. QED
  BY <1>1, Zenon DEF MemoryIInv, EpochInv, Tells

LEMMA RefreshBeginsSteps ==
    ASSUME MemoryIInv, NEW s \in Sessions, RefreshBegins(s)
    PROVE  StepSound
<1>. USE DEF RefreshBegins
<1>1. Keeps /\ Ages
  BY Stays DEF MemoryIInv, Store
<1>2. EpochAt(epoch[s], refresh[s], recs)
  BY EpochSame, Zenon
<1>3. PICK x : refresh' = [refresh EXCEPT ![s] = x]
               /\ x.at # "store" /\ EpochAt(epoch[s], x, recs)
  <2>1. CASE ~epoch[s].pinned /\ Go(s, [at |-> "select"])
    <3>1. PICK x : x = [at |-> "select"]
      BY Zenon
    <3>2. x.at = "select" /\ epoch[s] = NoEpoch
      BY <1>2, <2>1, <3>1 DEF EpochAt, IsEpoch
    <3>3. EpochAt(epoch[s], x, recs)
      BY <3>2, Zenon DEF EpochAt
    <3>. QED
      BY <2>1, <3>1, <3>2, <3>3, Zenon DEF Go
  <2>2. CASE epoch[s].pinned /\ epoch[s].stale /\ Go(s, [at |-> "compare", ep |-> epoch[s]])
    <3>1. PICK x : x = [at |-> "compare", ep |-> epoch[s]]
      BY Zenon
    <3>2. x.at = "compare" /\ x.ep = epoch[s] /\ IsEpoch(epoch[s], recs)
      BY <1>2, <2>2, <3>1 DEF EpochAt, NoEpoch
    <3>3. EpochAt(epoch[s], x, recs)
      BY <2>2, <3>2, Zenon DEF EpochAt
    <3>. QED
      BY <2>2, <3>1, <3>2, <3>3, Zenon DEF Go
  <2>. QED
    BY <2>1, <2>2, Zenon
<1>4. ~Announcing' /\ s \notin missed' => Telling(s, epoch[s], x, recs', clock')
  <2>1. Announcing' <=> Announcing
    BY Zenon DEF Announcing
  <2>2. ~Announcing /\ s \notin missed => Telling(s, epoch[s], refresh[s], recs, clock)
    BY EpochSame, Zenon
  <2>. QED
    BY <1>3, <2>1, <2>2, Zenon DEF Telling
<1>5. epoch' = [epoch EXCEPT ![s] = epoch[s]]
  BY EpochSame, Zenon
<1>. QED
  BY <1>1, <1>3, <1>4, <1>5, RefreshMoves, Zenon

(* A refresh that lists has no epoch to answer for, or a stale one, so only *)
(* the copy it will store counts.                                           *)
LEMMA RefreshListed ==
    ASSUME MemoryIInv, NEW s \in Sessions, Keeps, Ages,
           job' = job, lock' = lock, overtaken' = overtaken, person' = person, epoch' = epoch,
           NEW n \in Nat, NEW tl, DOMAIN tl \subseteq Ids,
           Go(s, [at |-> "store", ep |-> [pinned |-> TRUE, stale |-> FALSE, since |-> n, told |-> tl]]),
           refresh[s].at \in {"select", "compare"},
           \A z \in Sessions : z # s /\ z \in missed => z \in missed',
           \/ s \in missed'
           \/ Fresh(s, [pinned |-> TRUE, stale |-> FALSE, since |-> n, told |-> tl], recs', clock')
    PROVE  StepSound
<1>1. PICK e : e = [pinned |-> TRUE, stale |-> FALSE, since |-> n, told |-> tl]
  BY Zenon
<1>2. PICK x : x = [at |-> "store", ep |-> e]
  BY Zenon
<1>3. x.at = "store" /\ x.ep = e /\ ~e.stale /\ IsEpoch(e, recs)
  BY <1>1, <1>2, Zenon DEF IsEpoch, Ids
<1>4. EpochAt(epoch[s], refresh[s], recs)
  BY EpochSame, Zenon
<1>5. epoch[s] = NoEpoch \/ (IsEpoch(epoch[s], recs) /\ epoch[s].stale)
  BY <1>4, Zenon DEF EpochAt
<1>6. ~(epoch[s].pinned /\ ~epoch[s].stale)
  BY <1>5 DEF NoEpoch
<1>7. EpochAt(epoch[s], x, recs')
  <2>1. IsEpoch(e, recs') /\ (IsEpoch(epoch[s], recs) => IsEpoch(epoch[s], recs'))
    BY <1>3, EpochKept, Zenon DEF MemoryIInv
  <2>. QED
    BY <1>3, <1>5, <2>1, Zenon DEF EpochAt
<1>8. s \notin missed' => Telling(s, epoch[s], x, recs', clock')
  BY <1>1, <1>3, <1>6, Zenon DEF Telling
<1>9. epoch' = [epoch EXCEPT ![s] = epoch[s]] /\ refresh' = [refresh EXCEPT ![s] = x]
  BY <1>1, <1>2, EpochSame, Zenon DEF Go
<1>. QED
  BY <1>7, <1>8, <1>9, RefreshMoves, Zenon

LEMMA RefreshSelectsSteps ==
    ASSUME MemoryIInv, NEW s \in Sessions, RefreshSelects(s)
    PROVE  StepSound
<1>. USE DEF RefreshSelects
<1>1. Keeps /\ Ages
  BY ListingAges, Zenon DEF MemoryIInv
<1>2. PICK chosen \in SUBSET {i \in Ids : Shown(Listed[i])} :
          Go(s, [at |-> "store", ep |-> [pinned |-> TRUE, stale |-> FALSE, since |-> Len(recs),
                                         told |-> [i \in chosen |-> memoryLine(Listed[i])]]])
  BY Zenon
<1>3. PICK tl : tl = [i \in chosen |-> memoryLine(Listed[i])]
  BY Zenon
<1>4. PICK n : n = Len(recs)
  BY Zenon
<1>5. n \in Nat /\ Ids = 1..n /\ DOMAIN recs' = Ids
  BY <1>4, <1>1, IdsGrow, Zenon DEF MemoryIInv, Ages, Ids
<1>6. DOMAIN tl = chosen /\ \A i \in chosen : i \in Ids /\ Shown(recs'[i]) /\ tl[i] = memoryLine(recs'[i])
  BY <1>3, Zenon
<1>7. PICK e : e = [pinned |-> TRUE, stale |-> FALSE, since |-> n, told |-> tl]
  BY Zenon
<1>8. e.since = n /\ e.told = tl
  BY <1>7, Zenon
<1>9. Fresh(s, e, recs', clock')
  <2>1. \A i \in DOMAIN recs' : ~(i > e.since)
    BY <1>5, <1>8
  <2>. QED
    BY <1>6, <1>8, <2>1, Zenon DEF Fresh
<1>. QED
  BY <1>1, <1>2, <1>3, <1>4, <1>5, <1>6, <1>7, <1>9, RefreshListed, Zenon

LEMMA RefreshComparesSteps ==
    ASSUME MemoryIInv, NEW s \in Sessions, RefreshCompares(s)
    PROVE  StepSound
<1>. USE DEF RefreshCompares
<1>1. Keeps /\ Ages
  BY ListingAges, Zenon DEF MemoryIInv
<1>2. PICK ep : ep = refresh[s].ep
  BY Zenon
<1>3. PICK tl : tl = Told(s, ep)
  BY Zenon
<1>4. PICK n : n = ep.since
  BY Zenon
<1>5. n \in Nat
  BY <1>2, <1>4, EpochSame, Zenon DEF EpochAt, IsEpoch
<1>6. DOMAIN recs' = Ids
  BY <1>1, IdsGrow, Zenon DEF MemoryIInv, Ages, Ids
<1>7. /\ DOMAIN tl \subseteq Ids
      /\ \A i \in DOMAIN tl : Shown(recs'[i]) /\ tl[i] = memoryLine(recs'[i])
      /\ \A i \in Ids : i > n /\ recs'[i].sid = s /\ Shown(recs'[i]) => i \in DOMAIN tl
  BY <1>3, <1>4, Zenon DEF Told
<1>8. PICK e : e = [pinned |-> TRUE, stale |-> FALSE, since |-> n, told |-> tl]
  BY Zenon
<1>9. e.since = n /\ e.told = tl
  BY <1>8, Zenon
<1>10. Fresh(s, e, recs', clock')
  BY <1>6, <1>7, <1>9, Zenon DEF Fresh
<1>. QED
  BY <1>1, <1>2, <1>3, <1>4, <1>5, <1>7, <1>8, <1>10, RefreshListed, Zenon

LEMMA RefreshCannotListSteps ==
    ASSUME MemoryIInv, NEW s \in Sessions, RefreshCannotList(s)
    PROVE  StepSound
<1>. USE DEF RefreshCannotList
<1>1. Keeps /\ Ages
  BY Stays DEF MemoryIInv, Store
<1>2. PICK n, tl : n = refresh[s].ep.since /\ tl = refresh[s].ep.told
  BY Zenon
<1>3. n \in Nat /\ DOMAIN tl \subseteq Ids
  BY <1>2, EpochSame, Zenon DEF EpochAt, IsEpoch, Ids
<1>4. s \in missed'
  BY Zenon
<1>. QED
  BY <1>1, <1>2, <1>3, <1>4, RefreshListed, Zenon

LEMMA RefreshStoresSteps ==
    ASSUME MemoryIInv, NEW s \in Sessions, RefreshStores(s)
    PROVE  StepSound
<1>. USE DEF RefreshStores
<1>1. Keeps /\ Ages
  BY Stays DEF MemoryIInv, Store
<1>2. PICK e : e = refresh[s].ep
  BY Zenon
<1>3. EpochAt(epoch[s], refresh[s], recs) /\ refresh[s].at = "store"
  BY EpochSame, Zenon
<1>4. IsEpoch(e, recs)
  BY <1>2, <1>3, Zenon DEF EpochAt
<1>5. EpochAt(e, Idle, recs')
  BY <1>4, Zenon DEF EpochAt, Idle
<1>6. ~Announcing' /\ s \notin missed' => Telling(s, e, Idle, recs', clock')
  <2>1. Announcing' <=> Announcing
    BY Zenon DEF Announcing
  <2>2. ~Announcing /\ s \notin missed => Telling(s, epoch[s], refresh[s], recs, clock)
    BY EpochSame, Zenon
  <2>. QED
    BY <1>2, <1>3, <2>1, <2>2, Zenon DEF Telling, Idle
<1>7. epoch' = [epoch EXCEPT ![s] = e] /\ refresh' = [refresh EXCEPT ![s] = Idle]
  BY <1>2, Zenon DEF Go
<1>. QED
  BY <1>1, <1>5, <1>6, <1>7, RefreshMoves, Zenon

LEMMA RefreshUndeliveredSteps ==
    ASSUME MemoryIInv, NEW s \in Sessions, RefreshUndelivered(s)
    PROVE  StepSound
<1>. USE DEF RefreshUndelivered
<1>1. Keeps /\ Ages
  BY Stays DEF MemoryIInv, Store
<1>2. PICK e : e = epoch[s]
  BY Zenon
<1>3. EpochAt(e, refresh[s], recs) /\ refresh[s].at = "store" /\ e.pinned
  BY <1>2, EpochSame, Zenon
<1>4. IsEpoch(e, recs)
  BY <1>3 DEF EpochAt, NoEpoch
<1>5. PICK f : f = [e EXCEPT !.stale = TRUE]
  BY Zenon
<1>6. IsEpoch(f, recs) /\ f.stale
  BY <1>4, <1>5, StaleEpoch, Zenon
<1>7. EpochAt(f, Idle, recs') /\ Telling(s, f, Idle, recs', clock')
  BY <1>6, Zenon DEF EpochAt, Idle, Telling
<1>8. epoch' = [epoch EXCEPT ![s] = f] /\ refresh' = [refresh EXCEPT ![s] = Idle]
  BY <1>2, <1>5, Zenon DEF Go
<1>. QED
  BY <1>1, <1>7, <1>8, RefreshMoves, Zenon

LEMMA setCacheBoundarySteps ==
    ASSUME MemoryIInv, NEW s \in Sessions, setCacheBoundary(s)
    PROVE  StepSound
<1>. USE DEF setCacheBoundary
<1>1. Keeps /\ Ages
  BY Stays DEF MemoryIInv, Store
<1>2. EpochAt(epoch[s], refresh[s], recs)
  BY EpochSame, Zenon
<1>3. EpochAt(NoEpoch, refresh[s], recs')
  BY <1>2, Zenon DEF EpochAt
<1>4. ~Announcing' /\ s \notin missed' => Telling(s, NoEpoch, refresh[s], recs', clock')
  <2>1. Announcing' <=> Announcing
    BY Zenon DEF Announcing
  <2>2. ~Announcing /\ s \notin missed => Telling(s, epoch[s], refresh[s], recs, clock)
    BY EpochSame, Zenon
  <2>3. ~NoEpoch.pinned
    BY Zenon DEF NoEpoch
  <2>. QED
    BY <2>1, <2>2, <2>3, Zenon DEF Telling
<1>5. epoch' = [epoch EXCEPT ![s] = NoEpoch] /\ refresh' = [refresh EXCEPT ![s] = refresh[s]]
  BY EpochSame, Zenon
<1>. QED
  BY <1>1, <1>3, <1>4, <1>5, RefreshMoves, Zenon

-----------------------------------------------------------------------------
(* The theorems                                                             *)

(* The records a behaviour starts with.                                    *)
LEMMA MemoryStarts == Init => MemoryIInv
<1>. SUFFICES ASSUME Init PROVE MemoryIInv
  BY Zenon
<1>1. PICK sc \in Scenarios : recs = sc.start
  BY Zenon DEF Init
<1>2. Settling(sc.start)
  BY MemoryAssumption, Zenon
<1>3. Store /\ OneExtractedPerText
  BY <1>1, <1>2, Zenon DEF Init, Settling, Store, Chained, OneExtractedPerText, Ids
<1>4. Maps /\ lock \in Jobs \cup {NoJob}
  BY Zenon DEF Init, Maps
<1>5. \A p \in People : person[p].at = "idle"
  BY Zenon DEF Init, Idle
<1>6. \A j \in Jobs : job[j] = Idle
  BY Zenon DEF Init
<1>7. \A s \in Sessions : epoch[s] = NoEpoch /\ refresh[s].at = "idle" /\ ~NoEpoch.pinned
  BY Zenon DEF Init, Idle, NoEpoch
<1>8. PersonInv
  BY <1>5, Zenon DEF PersonInv, PersonAt
<1>9. JobInv /\ OneJob
  BY <1>6, IdleJob, Zenon DEF JobInv, OneJob
<1>10. EpochInv /\ Tells
  BY <1>7, Zenon DEF EpochInv, EpochAt, Tells, Telling
<1>. QED
  BY <1>3, <1>4, <1>8, <1>9, <1>10, Zenon DEF MemoryIInv

(* Every step keeps the invariant and the properties of steps.             *)
LEMMA MemoryStepsSound ==
    ASSUME MemoryIInv, [Next]_vars
    PROVE  MemoryIInv' /\ [TombstoneStays /\ JobsSparePeople]_vars
<1>1. CASE Tick
  BY <1>1, TickSteps, Zenon DEF StepSound
<1>2. ASSUME NEW p \in People, PersonStep(p) PROVE StepSound
  BY <1>2, PersonFindsSteps, PersonProposesSteps, PersonAppliesSteps, PersonInvalidatesSteps, Zenon
     DEF PersonStep
<1>3. ASSUME NEW j \in Jobs, JobStep(j) PROVE StepSound
  BY <1>3, JobBeginsSteps, JobListsPendingSteps, JobTriagesSteps, JobTriagedSteps, JobListsSteps,
     JobFilesSteps, JobInvalidatesSteps, Zenon DEF JobStep
<1>4. ASSUME NEW s \in Sessions, RefreshStep(s) PROVE StepSound
  BY <1>4, RefreshBeginsSteps, RefreshSelectsSteps, RefreshComparesSteps, RefreshCannotListSteps,
     RefreshStoresSteps, RefreshUndeliveredSteps, setCacheBoundarySteps, Zenon DEF RefreshStep
<1>5. CASE UNCHANGED vars
  <2>1. MemoryIInv'
    BY <1>5, Zenon DEF vars, MemoryIInv, Maps, Store, Chained, Ids, PersonInv, OneJob, JobInv, EpochInv,
       Tells, Announcing, OneExtractedPerText
  <2>. QED
    BY <1>5, <2>1, Zenon
<1>6. CASE Next
  BY <1>1, <1>2, <1>3, <1>4, <1>6, Zenon DEF Next, StepSound
<1>. QED
  BY <1>5, <1>6, Zenon

(* The invariant says what MemoryInv says.                                 *)
LEMMA MemoryHolds == MemoryIInv => MemoryInv
<1>. SUFFICES ASSUME MemoryIInv PROVE MemoryInv
  BY Zenon
<1>1. \A i \in Ids : recs[i] \in Record
  BY DEF MemoryIInv, Store, Ids
<1>2. ASSUME NEW s \in Sessions, epoch[s].pinned PROVE IsEpoch(epoch[s], recs)
  BY <1>2 DEF MemoryIInv, EpochInv, EpochAt, NoEpoch
<1>3. TypeOK
  BY <1>1, <1>2, Zenon DEF TypeOK, MemoryIInv, Store, Chained, IsEpoch, Ids
<1>4. ASSUME NEW s \in Sessions, Fresh(s, epoch[s], recs, clock) PROVE Current(s)
  BY <1>4, Zenon DEF Fresh, Current, Elapsed, Lapsed, Ids
<1>5. ToldIsCurrent
  BY <1>4, Zenon DEF ToldIsCurrent, MemoryIInv, Tells, Telling
<1>. QED
  BY <1>3, <1>5, Zenon DEF MemoryInv, MemoryIInv

(* In every run, the records are ones ValidateMemoryRecord accepts, no text *)
(* was extracted twice (persistMemoryCandidates), and what refreshMemory    *)
(* told a session is what the store says, unless its epoch is stale or a    *)
(* change is still to be announced.                                         *)
THEOREM MemorySound == Spec => []MemoryInv
<1>1. Init => MemoryIInv
  BY MemoryStarts, Zenon
<1>2. MemoryIInv /\ [Next]_vars => MemoryIInv'
  BY MemoryStepsSound, Zenon
<1>. QED
  BY <1>1, <1>2, MemoryHolds, PTL DEF Spec

(* No statement of the store brings back a record that was forgotten or     *)
(* superseded, but an operator's restore, and no automatic job undoes what  *)
(* a person decided before the job read the record.                         *)
THEOREM MemoryIsCareful == Spec => MemorySteps
<1>1. Init => MemoryIInv
  BY MemoryStarts, Zenon
<1>2. MemoryIInv /\ [Next]_vars => MemoryIInv'
  BY MemoryStepsSound, Zenon
<1>3. MemoryIInv /\ [Next]_vars => [TombstoneStays /\ JobsSparePeople]_vars
  BY MemoryStepsSound, Zenon
<1>. QED
  BY <1>1, <1>2, <1>3, PTL DEF Spec, MemorySteps
=============================================================================
