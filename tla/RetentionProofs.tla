--------------------------- MODULE RetentionProofs --------------------------
(* Proofs about Retention: what a pass of MaintainStorage decided when it   *)
(* listed the sessions still holds when it acts, except for a session that  *)
(* started again in between, and no store call then loses an event, a run   *)
(* extraction has not read, or a session at work.                           *)
EXTENDS Retention, TLAPS

-----------------------------------------------------------------------------
(* The inductive invariant                                                  *)

Events == {"work", "pass", "fail", "input_required"}
RowStates == {"none", "running", "pass", "fail", "input_required"}
Rows == [status : RowStates, updated : Int, archived : Int]

Types ==
    /\ row \in [All -> Rows] /\ active \subseteq All /\ resumed \subseteq All
    /\ log \in [All -> Seq(Events)] /\ wm \in [All -> Nat] /\ arc \in [All -> Seq(Events)]
    /\ extract.at = "model" => extract.sid \in Tops /\ extract.upto \in 0..MaxLog
    /\ now \in Nat

(* An archived session with events or a turn started after it was archived. *)
ArchivedRest ==
    \A s \in Tops : Archived(s) /\ (log[s] # <<>> \/ s \in active) => s \in resumed

(* What a listing still promises: its candidates may be touched, their      *)
(* workers are the listed ones, and those are finished.                     *)
Idle(k) == ~Exists(k) \/ sessionFinished(k)
Listed(list) ==
    /\ list.ok \subseteq Tops /\ list.kids \subseteq Kids
    /\ \A s \in list.ok : s \in resumed \/ MayTouch(s)
    /\ \A s \in list.ok : s \in resumed \/ \A k \in Children(s) : Exists(k) => k \in list.kids
    /\ \A k \in list.kids : Parent[k] \in list.ok => k \in resumed \/ Idle(k)

IsPrefix(e, l) == Len(e) <= Len(l) /\ \A i \in 1..Len(e) : e[i] = l[i]

Scans == [at : {"workers"}, time : Nat, gone : SUBSET Kids]
Lists == [ok : SUBSET Tops, kids : SUBSET Kids, rows : [Tops -> Rows]]
Backs == [at : {"age", "size", "trim"}, time : Nat, list : Lists, todo : SUBSET Tops]
Reads == [at : {"read"}, sid : Tops, then : Backs]
Writes == [at : {"write"}, sid : Tops, then : Backs, events : Seq(Events)]
Removes == [at : {"remove"}, sid : Tops, then : Backs, kids : SUBSET Kids]

Acts(k) == Listed(k.then.list) /\ k.sid \in k.then.list.ok
Sound(k) ==
    \/ k = Resting
    \/ k \in Scans /\ \A c \in k.gone : Exists(c) /\ sessionFinished(c)
    \/ k \in Backs /\ Listed(k.list)
    \/ k \in Reads /\ Acts(k)
    \/ k \in Writes /\ Acts(k) /\ IsPrefix(k.events, log[k.sid])
    \/ /\ k \in Removes /\ Acts(k) /\ k.kids \subseteq k.then.list.kids \cap Children(k.sid)
       /\ k.sid \in resumed \/ \A c \in Children(k.sid) : Exists(c) => c \in k.kids

RetentionInv == Types /\ RowsConsistent /\ ArchivedRest /\ Sound(keeper)

-----------------------------------------------------------------------------
(* Rows and logs                                                            *)

(* Updates of a row keep its type and its other columns.                    *)
LEMMA RowUpdate ==
    ASSUME NEW f \in [All -> Rows], NEW s \in All, NEW r \in Rows
    PROVE  /\ [f EXCEPT ![s] = r] \in [All -> Rows] /\ [f EXCEPT ![s] = r][s] = r
           /\ \A x \in All : x # s => [f EXCEPT ![s] = r][x] = f[x]
<1> QED
  BY Zenon

LEMMA StatusUpdate ==
    ASSUME NEW r \in Rows, NEW st \in RowStates
    PROVE  /\ [r EXCEPT !.status = st] \in Rows
           /\ [r EXCEPT !.status = st].status = st
           /\ [r EXCEPT !.status = st].archived = r.archived
<1> QED
  BY Zenon DEF Rows

LEMMA TimeUpdate ==
    ASSUME NEW r \in Rows, NEW u \in Nat
    PROVE  /\ [r EXCEPT !.updated = u] \in Rows
           /\ [r EXCEPT !.updated = u].status = r.status
           /\ [r EXCEPT !.updated = u].archived = r.archived
<1> QED
  BY DEF Rows

LEMMA ArchiveUpdate ==
    ASSUME NEW r \in Rows, NEW u \in Nat
    PROVE  /\ [r EXCEPT !.archived = u] \in Rows
           /\ [r EXCEPT !.archived = u].status = r.status
           /\ [r EXCEPT !.archived = u].archived = u
<1> QED
  BY DEF Rows

(* Prefixes of logs.                                                        *)
LEMMA PrefixAppend ==
    ASSUME NEW a \in Seq(Events), NEW v \in Events
    PROVE  IsPrefix(a, Append(a, v)) /\ Append(a, v) # <<>>
<1>1. Len(Append(a, v)) = Len(a) + 1 /\ \A i \in 1..Len(a) : Append(a, v)[i] = a[i]
  OBVIOUS
<1>2. Len(a) \in Nat
  OBVIOUS
<1>3. Len(Append(a, v)) # Len(<<>>) /\ Len(a) <= Len(Append(a, v))
  BY <1>1, <1>2
<1>4. Append(a, v) # <<>>
  BY <1>3, Zenon
<1> QED
  BY <1>1, <1>3, <1>4, Zenon DEF IsPrefix

LEMMA PrefixTransitive ==
    ASSUME NEW a \in Seq(Events), NEW b \in Seq(Events), NEW c \in Seq(Events),
           IsPrefix(a, b), IsPrefix(b, c)
    PROVE  IsPrefix(a, c)
<1>1. Len(a) \in Nat /\ Len(b) \in Nat /\ Len(c) \in Nat
  OBVIOUS
<1>2. \A i \in 1..Len(a) : i \in 1..Len(b)
  BY <1>1 DEF IsPrefix
<1>3. Len(a) <= Len(c)
  BY <1>1 DEF IsPrefix
<1> QED
  BY <1>2, <1>3, Zenon DEF IsPrefix

LEMMA WholePrefix ==
    ASSUME NEW a \in Seq(Events), NEW b \in Seq(Events), IsPrefix(a, b), Len(a) = Len(b)
    PROVE  a = b
<1> QED
  BY DEF IsPrefix

-----------------------------------------------------------------------------
(* Listings                                                                 *)

(* A listing keeps its promise over a step that only adds to the sessions   *)
(* that started again, and makes no other one busy.                         *)
LEMMA ListedKept ==
    ASSUME Types, NEW CONSTANT list, Listed(list), resumed \subseteq resumed',
           \A s \in Tops : s \in resumed' \/ (MayTouch(s) => MayTouch(s)'),
           \A k \in Kids : k \in resumed' \/ (Idle(k) => Idle(k)'),
           \A k \in Kids : Exists(k)' => Exists(k) \/ Parent[k] \in active
    PROVE  Listed(list)'
<1> USE RetentionAssumption
<1>1. /\ list.ok \subseteq Tops /\ list.kids \subseteq Kids
      /\ \A s \in list.ok : s \in resumed \/ MayTouch(s)
      /\ \A s \in list.ok : s \in resumed \/ \A k \in Children(s) : Exists(k) => k \in list.kids
      /\ \A k \in list.kids : Parent[k] \in list.ok => k \in resumed \/ Idle(k)
  BY Zenon DEF Listed
<1>2. \A s \in list.ok : s \in resumed' \/ MayTouch(s)'
  BY <1>1, Zenon
<1>3. \A s \in list.ok : s \in resumed' \/ \A k \in Children(s) : Exists(k)' => k \in list.kids
  <2> SUFFICES ASSUME NEW s \in list.ok, s \notin resumed', NEW k \in Children(s), Exists(k)'
               PROVE  k \in list.kids
    BY Zenon
  <2>1. s \in Tops /\ s \notin resumed
    BY <1>1, Zenon
  <2>2. k \in Kids /\ Parent[k] = s
    BY Zenon DEF Children
  <2>3. s \notin active
    BY <1>1, <2>1, Zenon DEF MayTouch, sessionFinished
  <2>4. Exists(k)
    BY <2>2, <2>3, Zenon
  <2> QED
    BY <1>1, <2>1, <2>4, Zenon
<1>4. \A k \in list.kids : Parent[k] \in list.ok => k \in resumed' \/ Idle(k)'
  BY <1>1, Zenon
<1> QED
  BY <1>1, <1>2, <1>3, <1>4, Zenon DEF Listed, Children

(* Such a step keeps what the pass in progress relies on.                   *)
LEMMA SoundKept ==
    ASSUME Types, Types', Sound(keeper), UNCHANGED keeper, resumed \subseteq resumed',
           keeper.at \notin {"idle", "workers"} =>
              \A s \in Tops : s \in resumed' \/ (MayTouch(s) => MayTouch(s)'),
           keeper.at \notin {"idle", "workers"} =>
              \A c \in Kids : c \in resumed' \/ (Idle(c) => Idle(c)'),
           \A c \in Kids : Exists(c) /\ sessionFinished(c) => Exists(c)' /\ sessionFinished(c)',
           \A s \in Tops : IsPrefix(log[s], log'[s]),
           \A c \in Kids : Exists(c)' => Exists(c) \/ Parent[c] \in active
    PROVE  Sound(keeper)'
<1> USE RetentionAssumption
<1>a. PICK k : k = keeper
  BY Zenon
<1>b. Sound(k)
  BY <1>a, Zenon
<1>c. ASSUME k.at \notin {"idle", "workers"}, NEW CONSTANT list, Listed(list)
      PROVE  Listed(list)'
  BY <1>a, <1>c, ListedKept, Zenon
<1> SUFFICES Sound(k)'
  <2>1. keeper' = k
    BY <1>a, Zenon
  <2> QED
    BY <2>1, Zenon DEF Sound, Acts, Listed
<1>1. CASE k = Resting
  BY <1>1, Zenon DEF Sound
<1>2. CASE k \in Scans /\ \A c \in k.gone : Exists(c) /\ sessionFinished(c)
  <2>1. k.gone \subseteq Kids
    BY <1>2, Zenon DEF Scans
  <2> QED
    BY <1>2, <2>1, Zenon DEF Sound
<1>3. CASE k \in Backs /\ Listed(k.list)
  <2>1. k.at \notin {"idle", "workers"}
    BY <1>3, Zenon DEF Backs
  <2> QED
    BY <1>c, <1>3, <2>1, Zenon DEF Sound
<1>4. CASE k \in Reads /\ Acts(k)
  <2>1. k.at \notin {"idle", "workers"}
    BY <1>4, Zenon DEF Reads
  <2> QED
    BY <1>c, <1>4, <2>1, Zenon DEF Sound, Acts
<1>5. CASE k \in Writes /\ Acts(k) /\ IsPrefix(k.events, log[k.sid])
  <2>1. k.at \notin {"idle", "workers"} /\ k.sid \in Tops /\ k.events \in Seq(Events)
    BY <1>5, Zenon DEF Writes
  <2>2. log[k.sid] \in Seq(Events) /\ log'[k.sid] \in Seq(Events) /\ IsPrefix(log[k.sid], log'[k.sid])
    BY <2>1, Zenon DEF Types, All
  <2>3. IsPrefix(k.events, log'[k.sid])
    BY <1>5, <2>1, <2>2, PrefixTransitive, Zenon
  <2> QED
    BY <1>5, <1>c, <2>1, <2>3, Zenon DEF Sound, Acts
<1>6. CASE /\ k \in Removes /\ Acts(k) /\ k.kids \subseteq k.then.list.kids \cap Children(k.sid)
           /\ k.sid \in resumed \/ \A c \in Children(k.sid) : Exists(c) => c \in k.kids
  <2>1. k.at \notin {"idle", "workers"} /\ k.sid \in Tops
    BY <1>6, Zenon DEF Removes
  <2>2. k.sid \in resumed \/ k.sid \notin active
    BY <1>6, Zenon DEF Acts, Listed, MayTouch, sessionFinished
  <2>3. k.sid \in resumed' \/ \A c \in Children(k.sid) : Exists(c)' => c \in k.kids
    BY <1>6, <2>2, Zenon DEF Children
  <2> QED
    BY <1>6, <1>c, <2>1, <2>3, Zenon DEF Sound, Acts, Children
<1> QED
  BY <1>b, <1>1, <1>2, <1>3, <1>4, <1>5, <1>6, Zenon DEF Sound

(* MayTouch and Idle of the sessions a step leaves alone.                   *)
LEMMA TouchKept ==
    ASSUME Types, NEW s \in Tops,
           row'[s] = row[s], log'[s] = log[s], wm'[s] = wm[s], s \in active' => s \in active,
           \A k \in Children(s) : Idle(k) => Idle(k)'
    PROVE  MayTouch(s) => MayTouch(s)'
<1> QED
  BY Zenon DEF MayTouch, sessionFinished, Idle, Exists, Archived, memoryPending, Due, Children

-----------------------------------------------------------------------------
(* Sessions                                                                 *)

(* A turn that begins keeps the invariant: a pass under way counts it among *)
(* the sessions that started again.                                         *)
LEMMA StartKeeps ==
    ASSUME RetentionInv, NEW s \in All, Start(s)
    PROVE  RetentionInv'
<1> USE RetentionAssumption
<1> DEFINE Others == \A x \in All : x # s => row'[x] = row[x]
<1>1. /\ s \notin active /\ active' = active \cup {s} /\ UNCHANGED <<log, wm, arc, extract, keeper, now>>
      /\ s \in Kids => Parent[s] \in active /\ ~Exists(s)
      /\ resumed' = IF keeper.at \notin {"idle", "workers"} \/ Archived(s) THEN resumed \cup {s} ELSE resumed
  BY Zenon DEF Start
<1>2. Types /\ RowsConsistent /\ ArchivedRest /\ Sound(keeper)
  BY Zenon DEF RetentionInv
<1>3. /\ row' \in [All -> Rows] /\ Others
      /\ row'[s].status = "running" /\ row'[s].archived = row[s].archived
  <2>1. row \in [All -> Rows] /\ now \in Nat
    BY <1>2, Zenon DEF Types
  <2>2. row' = [row EXCEPT ![s].status = "running", ![s].updated = now]
    BY Zenon DEF Start
  <2>3. "running" \in RowStates
    BY Zenon DEF RowStates
  <2>4. PICK q : q = [row[s] EXCEPT !.status = "running"]
    BY Zenon
  <2>5. PICK r : r = [q EXCEPT !.updated = now]
    BY Zenon
  <2>6. row' = [row EXCEPT ![s] = r]
    BY <2>1, <2>4, <2>5, <2>2, Zenon
  <2>7. row[s] \in Rows
    BY <2>1, Zenon
  <2>8. q \in Rows /\ q.status = "running" /\ q.archived = row[s].archived
    BY <2>3, <2>4, <2>7, StatusUpdate, Zenon
  <2>9. r \in Rows /\ r.status = q.status /\ r.archived = q.archived
    BY <2>1, <2>5, <2>8, TimeUpdate, Zenon
  <2> QED
    BY <2>1, <2>6, <2>8, <2>9, RowUpdate, Zenon
<1> HIDE DEF Others
<1>4. resumed \subseteq resumed' /\ resumed' \subseteq All
  BY <1>1, <1>2, Zenon DEF Types
<1>5. Types'
  BY <1>1, <1>2, <1>3, <1>4, Zenon DEF Types
<1>6. RowsConsistent'
  <2>1. \A x \in All : row'[x].status \in {"none", "running", "pass", "fail", "input_required"}
    BY <1>3, Zenon DEF Rows, RowStates
  <2>2. \A x \in All : ~Exists(x)' => ~Exists(x) /\ row'[x] = row[x]
    BY <1>3, Zenon DEF Exists, Others
  <2> QED
    BY <1>1, <1>2, <2>1, <2>2, Zenon DEF RowsConsistent, Archived
<1>7. ArchivedRest'
  <2> SUFFICES ASSUME NEW x \in Tops, Archived(x)', log'[x] # <<>> \/ x \in active'
               PROVE  x \in resumed'
    BY Zenon DEF ArchivedRest
  <2>1. CASE x = s
    <3>1. Archived(s)
      BY <1>3, <2>1, Zenon DEF Archived
    <3> QED
      BY <1>1, <2>1, <3>1, Zenon
  <2>2. CASE x # s
    <3>1. Archived(x) /\ (log[x] # <<>> \/ x \in active)
      BY <1>1, <1>3, <2>2, Zenon DEF Archived, All, Others
    <3> QED
      BY <1>2, <1>4, <3>1, Zenon DEF ArchivedRest
  <2> QED
    BY <2>1, <2>2, Zenon
<1>8. \A k \in Kids : k # s => (Idle(k) => Idle(k)')
  BY <1>1, <1>3, Zenon DEF Idle, Exists, sessionFinished, All, Others
<1>9. \A k \in Kids : Exists(k)' => Exists(k) \/ Parent[k] \in active
  BY <1>1, <1>3, Zenon DEF Exists, All, Others
<1>10. ASSUME keeper.at \notin {"idle", "workers"}
       PROVE  /\ \A x \in Tops : x \in resumed' \/ (MayTouch(x) => MayTouch(x)')
              /\ \A k \in Kids : k \in resumed' \/ (Idle(k) => Idle(k)')
  <2>1. s \in resumed'
    BY <1>1, <1>10, Zenon
  <2>2. \A x \in Tops : x \in resumed' \/ (MayTouch(x) => MayTouch(x)')
    <3> SUFFICES ASSUME NEW x \in Tops, x # s, MayTouch(x)
                 PROVE  MayTouch(x)'
      BY <2>1, Zenon
    <3>1. s \notin Children(x)
      BY <1>1, Zenon DEF Children, MayTouch, sessionFinished
    <3>2. \A k \in Children(x) : Idle(k) => Idle(k)'
      BY <1>8, <3>1, Zenon DEF Children
    <3>3. row'[x] = row[x] /\ (x \in active' => x \in active)
      BY <1>1, <1>3, Zenon DEF All, Others
    <3> QED
      BY <1>1, <1>2, <3>2, <3>3, TouchKept, Zenon
  <2> QED
    BY <1>8, <2>1, <2>2, Zenon
<1>11. \A c \in Kids : Exists(c) /\ sessionFinished(c) => Exists(c)' /\ sessionFinished(c)'
  BY <1>1, <1>3, Zenon DEF Exists, sessionFinished, All, Others
<1>12. \A x \in Tops : IsPrefix(log[x], log'[x])
  BY <1>1, <1>2 DEF IsPrefix, Types, All
<1>13. Sound(keeper)'
  BY <1>1, <1>2, <1>4, <1>5, <1>9, <1>10, <1>11, <1>12, SoundKept, Zenon
<1> QED
  BY <1>5, <1>6, <1>7, <1>13, Zenon DEF RetentionInv

(* A turn that writes an event keeps the invariant: it is at work, so no    *)
(* listing calls it idle.                                                   *)
LEMMA EventKeeps ==
    ASSUME RetentionInv, NEW s \in active, Exists(s), active' \subseteq active,
           NEW v \in Events, Len(log[s]) < MaxLog, log' = [log EXCEPT ![s] = Append(@, v)],
           row' \in [All -> Rows], \A x \in All : x # s => row'[x] = row[x],
           Exists(s)', row'[s].archived = row[s].archived,
           UNCHANGED <<wm, arc, extract, keeper, now, resumed>>
    PROVE  RetentionInv'
<1> USE RetentionAssumption
<1>1. Types /\ RowsConsistent /\ ArchivedRest /\ Sound(keeper)
  BY Zenon DEF RetentionInv
<1>2. s \in All
  BY <1>1, Zenon DEF Types
<1>3. /\ log' \in [All -> Seq(Events)] /\ \A x \in All : x # s => log'[x] = log[x]
      /\ Len(log'[s]) = Len(log[s]) + 1 /\ \A i \in 1..Len(log[s]) : log'[s][i] = log[s][i]
  <2>1. log \in [All -> Seq(Events)]
    BY <1>1, Zenon DEF Types
  <2>2. log'[s] = Append(log[s], v) /\ log[s] \in Seq(Events)
    BY <1>2, <2>1, Zenon
  <2> QED
    BY <1>2, <2>1, <2>2
<1>4. Types'
  BY <1>1, <1>3, Zenon DEF Types
<1>5. RowsConsistent'
  <2>1. \A x \in All : row'[x].status \in {"none", "running", "pass", "fail", "input_required"}
    BY Zenon DEF Rows, RowStates
  <2>2. Len(log'[s]) <= MaxLog
    <3>1. Len(log[s]) \in Nat /\ MaxLog \in Nat
      BY <1>1, <1>2 DEF Types
    <3> QED
      BY <1>3, <3>1
  <2>3. ASSUME NEW x \in All
        PROVE  wm'[x] \in 0..MaxLog /\ Len(log'[x]) <= MaxLog /\ (~Exists(x)' => log'[x] = <<>> /\ ~Archived(x)')
    <3>1. CASE x = s
      BY <1>1, <2>2, <3>1, Zenon DEF RowsConsistent
    <3>2. CASE x # s
      BY <1>1, <1>3, <3>2, Zenon DEF RowsConsistent, Exists, Archived
    <3> QED
      BY <3>1, <3>2, Zenon
  <2> QED
    BY <1>4, <2>1, <2>3, Zenon DEF RowsConsistent, Types
<1>6. ArchivedRest'
  <2> SUFFICES ASSUME NEW x \in Tops, Archived(x)', log'[x] # <<>> \/ x \in active'
               PROVE  x \in resumed
    BY Zenon DEF ArchivedRest
  <2>1. x \in All
    BY Zenon DEF All
  <2>2. Archived(x) /\ (log[x] # <<>> \/ x \in active)
    BY <1>3, <2>1, Zenon DEF Archived
  <2> QED
    BY <1>1, <2>2, Zenon DEF ArchivedRest
<1>7. \A k \in Kids : Idle(k) => Idle(k)'
  BY Zenon DEF Idle, Exists, sessionFinished, All
<1>8. \A x \in Tops : MayTouch(x) => MayTouch(x)'
  <2> SUFFICES ASSUME NEW x \in Tops, MayTouch(x)
               PROVE  MayTouch(x)'
    BY Zenon
  <2>1. x # s /\ x \in All
    BY Zenon DEF MayTouch, sessionFinished, All
  <2>2. row'[x] = row[x] /\ log'[x] = log[x]
    BY <1>3, <2>1, Zenon
  <2>3. \A k \in Children(x) : Idle(k) => Idle(k)'
    BY <1>7, Zenon DEF Children
  <2> QED
    BY <1>1, <2>2, <2>3, TouchKept, Zenon
<1>9. \A c \in Kids : Exists(c) /\ sessionFinished(c) => Exists(c)' /\ sessionFinished(c)'
  BY Zenon DEF Exists, sessionFinished, All
<1>10. \A c \in Kids : Exists(c)' => Exists(c) \/ Parent[c] \in active
  BY Zenon DEF Exists, All
<1>11. \A x \in Tops : IsPrefix(log[x], log'[x])
  <2>1. log \in [All -> Seq(Events)] /\ Tops \subseteq All
    BY <1>1, Zenon DEF Types, All
  <2>2. log'[s] = Append(log[s], v)
    BY <1>2, <2>1, Zenon
  <2>3. \A x \in Tops : IsPrefix(log[x], log[x])
    BY <2>1 DEF IsPrefix
  <2> QED
    BY <1>2, <1>3, <2>1, <2>2, <2>3, PrefixAppend, Zenon
<1>12. Sound(keeper)'
  BY <1>1, <1>4, <1>7, <1>8, <1>9, <1>10, <1>11, SoundKept, Zenon
<1> QED
  BY <1>4, <1>5, <1>6, <1>12, Zenon DEF RetentionInv

(* Steps that change no session keep the invariant, when what the watermark *)
(* says was read stays read.                                                *)
LEMMA QuietKeeps ==
    ASSUME RetentionInv, UNCHANGED <<row, log, arc, keeper, resumed>>, active' \subseteq active,
           wm' \in [All -> 0..MaxLog], \A x \in All : wm[x] <= wm'[x], now' \in Nat,
           (extract.at = "model" => extract.sid \in Tops /\ extract.upto \in 0..MaxLog)'
    PROVE  RetentionInv'
<1> USE RetentionAssumption
<1>1. Types /\ RowsConsistent /\ ArchivedRest /\ Sound(keeper)
  BY Zenon DEF RetentionInv
<1>2. wm' \in [All -> Nat]
  OBVIOUS
<1>3. Types'
  BY <1>1, <1>2, Zenon DEF Types
<1>4. RowsConsistent'
  BY <1>1, <1>3, Zenon DEF RowsConsistent, Types, Exists, Archived
<1>5. ArchivedRest'
  BY <1>1, Zenon DEF ArchivedRest, Archived
<1>6. \A k \in Kids : Idle(k) => Idle(k)'
  BY Zenon DEF Idle, Exists, sessionFinished
<1>7. \A x \in Tops : MayTouch(x) => MayTouch(x)'
  <2> SUFFICES ASSUME NEW x \in Tops, MayTouch(x)
               PROVE  MayTouch(x)'
    BY Zenon
  <2>1. memoryPending(x)' => memoryPending(x)
    <3>1. x \in All /\ wm[x] \in Nat /\ wm'[x] \in Nat /\ wm[x] <= wm'[x]
      BY <1>1, <1>2, Zenon DEF Types, All
    <3>2. Len(log[x]) \in Nat
      BY <1>1, <3>1 DEF Types
    <3> DEFINE a == wm[x]
               b == wm'[x]
               l == Len(log[x])
    <3> HIDE DEF a, b, l
    <3>3. a \in Nat /\ b \in Nat /\ l \in Nat /\ a <= b
      BY <3>1, <3>2, Zenon DEF a, b, l
    <3>4. \A n : n \in (b + 1)..l => n \in (a + 1)..l
      BY <3>3
    <3>5. \A n : n \in (wm'[x] + 1)..Len(log[x]) => n \in (wm[x] + 1)..Len(log[x])
      BY <3>4, Zenon DEF a, b, l
    <3> QED
      BY <3>5, Zenon DEF memoryPending, Due
  <2> QED
    BY <2>1, Zenon DEF MayTouch, sessionFinished, Exists, Archived
<1>8. /\ \A c \in Kids : Exists(c) /\ sessionFinished(c) => Exists(c)' /\ sessionFinished(c)'
      /\ \A c \in Kids : Exists(c)' => Exists(c) \/ Parent[c] \in active
  BY Zenon DEF Exists, sessionFinished
<1>9. \A x \in Tops : IsPrefix(log[x], log'[x])
  BY <1>1 DEF IsPrefix, Types, All
<1>10. Sound(keeper)'
  BY <1>1, <1>3, <1>6, <1>7, <1>8, <1>9, SoundKept, Zenon
<1> QED
  BY <1>3, <1>4, <1>5, <1>10, Zenon DEF RetentionInv

-----------------------------------------------------------------------------
(* MaintainStorage                                                          *)

(* What the pass relies on, by where it is.                                 *)
LEMMA SoundAt ==
    ASSUME Sound(keeper)
    PROVE  /\ keeper.at = "workers" =>
                keeper \in Scans /\ \A c \in keeper.gone : Exists(c) /\ sessionFinished(c)
           /\ keeper.at \in {"age", "size", "trim"} => keeper \in Backs /\ Listed(keeper.list)
           /\ keeper.at = "read" => keeper \in Reads /\ Acts(keeper)
           /\ keeper.at = "write" =>
                keeper \in Writes /\ Acts(keeper) /\ IsPrefix(keeper.events, log[keeper.sid])
           /\ keeper.at = "remove" =>
                /\ keeper \in Removes /\ Acts(keeper)
                /\ keeper.kids \subseteq keeper.then.list.kids \cap Children(keeper.sid)
                /\ keeper.sid \in resumed \/ \A c \in Children(keeper.sid) : Exists(c) => c \in keeper.kids
<1>1. /\ keeper = Resting => keeper.at = "idle"
      /\ keeper \in Scans => keeper.at = "workers"
      /\ keeper \in Backs => keeper.at \in {"age", "size", "trim"}
      /\ keeper \in Reads => keeper.at = "read"
      /\ keeper \in Writes => keeper.at = "write"
      /\ keeper \in Removes => keeper.at = "remove"
  BY DEF Resting, Scans, Backs, Reads, Writes, Removes
<1> QED
  BY <1>1, Zenon DEF Sound

(* A step that only moves the pass keeps the invariant, when the pass may   *)
(* rely on where it goes.                                                   *)
LEMMA PassKeeps ==
    ASSUME RetentionInv, UNCHANGED <<row, active, log, wm, arc, extract, now, resumed>>,
           NEW CONSTANT k, keeper' = k, Sound(k)
    PROVE  RetentionInv'
<1>1. Types' /\ RowsConsistent' /\ ArchivedRest'
  BY Zenon DEF RetentionInv, Types, RowsConsistent, ArchivedRest, Exists, Archived
<1>2. /\ \A x : MayTouch(x) => MayTouch(x)'
      /\ \A x : (Exists(x)' <=> Exists(x)) /\ (sessionFinished(x) => sessionFinished(x)')
  BY Zenon DEF Exists, MayTouch, sessionFinished, Archived, memoryPending, Due, Children
<1>3. \A list : Listed(list) => Listed(list)'
  BY <1>2, Zenon DEF Listed, Idle, Children
<1>4. Sound(k)'
  BY <1>2, <1>3, Zenon DEF Sound, Acts, Children
<1>5. Sound(keeper)'
  BY <1>4, Zenon DEF Sound, Acts, Listed
<1> QED
  BY <1>1, <1>5, Zenon DEF RetentionInv

(* A pass that lists the sessions may rely on the listing.                  *)
LEMMA ListingKeeps ==
    ASSUME RetentionInv, UNCHANGED <<row, active, log, wm, arc, extract, now>>,
           resumed' = StillResumed, NEW phase \in {"age", "size", "trim"},
           keeper' = Candidates(phase), keeper.time \in Nat
    PROVE  RetentionInv'
<1> USE RetentionAssumption
<1>1. Types /\ RowsConsistent /\ ArchivedRest
  BY Zenon DEF RetentionInv
<1>2. Types'
  BY <1>1, Zenon DEF Types, StillResumed
<1>3. RowsConsistent'
  BY <1>1, Zenon DEF RowsConsistent, Exists, Archived
<1>4. ArchivedRest'
  BY <1>1, Zenon DEF ArchivedRest, Archived, StillResumed
<1>5. keeper' \in Backs /\ keeper'.list = Listing
  <2>1. Listing \in Lists
    BY <1>1, Zenon DEF Listing, Lists, Types, All
  <2> QED
    BY <2>1, Zenon DEF Candidates, Backs
<1>6. Listed(keeper.list)'
  <2>1. /\ Listing.ok = {s \in Tops : Exists(s) /\ MayTouch(s)}
        /\ Listing.kids = {k \in Kids : Exists(k)}
    BY Zenon DEF Listing
  <2>2. /\ \A s \in Tops : MayTouch(s) => MayTouch(s)'
        /\ \A k \in Kids : Idle(k) => Idle(k)'
        /\ \A k \in Kids : Exists(k)' => Exists(k)
    BY Zenon DEF Idle, Exists, MayTouch, sessionFinished, Archived, memoryPending, Due
  <2>3. \A s \in Listing.ok : MayTouch(s)'
    BY <2>1, <2>2, Zenon
  <2>4. \A k \in Listing.kids : Parent[k] \in Listing.ok => Idle(k)'
    BY <2>1, <2>2, Zenon DEF MayTouch, Children, Idle
  <2>5. \A k \in Kids : Exists(k)' => k \in Listing.kids
    BY <2>1, <2>2, Zenon
  <2>6. Listing.ok \subseteq Tops /\ Listing.kids \subseteq Kids
    BY <2>1, Zenon
  <2>7. PICK list : list = Listing
    BY Zenon
  <2>8. Listed(list)'
    BY <2>3, <2>4, <2>5, <2>6, <2>7, Zenon DEF Listed, Children
  <2> QED
    BY <1>5, <2>7, <2>8, Zenon DEF Listed
<1> QED
  BY <1>2, <1>3, <1>4, <1>5, <1>6, Zenon DEF RetentionInv, Sound

(* Deleting a session leaves every other one as it was, and the deleted one *)
(* with nothing to say for itself.                                          *)
LEMMA DeleteKeeps ==
    ASSUME RetentionInv, NEW x \in All, DeleteSession(x), UNCHANGED <<active, extract, now, resumed>>
    PROVE  /\ Types' /\ RowsConsistent' /\ ArchivedRest'
           /\ \A s \in All : s # x => row'[s] = row[s]
           /\ ~Exists(x)' /\ \A k \in Kids : Exists(k)' => Exists(k)
           /\ \A list : Listed(list) => Listed(list)'
<1> USE RetentionAssumption
<1>1. Types /\ RowsConsistent /\ ArchivedRest
  BY Zenon DEF RetentionInv
<1>2. /\ row' \in [All -> Rows] /\ row'[x] = NoRow /\ \A s \in All : s # x => row'[s] = row[s]
      /\ log' \in [All -> Seq(Events)] /\ log'[x] = <<>> /\ \A s \in All : s # x => log'[s] = log[s]
      /\ wm' \in [All -> Nat] /\ wm'[x] = 0 /\ \A s \in All : s # x => wm'[s] = wm[s]
      /\ arc' \in [All -> Seq(Events)]
  <2>1. NoRow \in Rows
    BY DEF NoRow, Rows, RowStates
  <2>2. <<>> \in Seq(Events) /\ 0 \in Nat
    OBVIOUS
  <2> QED
    BY <1>1, <2>1, <2>2, Zenon DEF Types, DeleteSession
<1>3. ~Exists(x)' /\ ~Archived(x)'
  BY <1>2 DEF Exists, Archived, NoRow
<1>4. \A s \in All : s # x => (Exists(s)' <=> Exists(s)) /\ (Archived(s)' <=> Archived(s))
  BY <1>2, Zenon DEF Exists, Archived
<1>5. Types'
  BY <1>1, <1>2, Zenon DEF Types
<1>6. RowsConsistent'
  <2>1. \A s \in All : row'[s].status \in {"none", "running", "pass", "fail", "input_required"}
    BY <1>2, Zenon DEF Rows, RowStates
  <2>2. 0 \in 0..MaxLog /\ Len(<<>>) <= MaxLog
    OBVIOUS
  <2>3. ASSUME NEW s \in All
        PROVE  wm'[s] \in 0..MaxLog /\ Len(log'[s]) <= MaxLog /\ (~Exists(s)' => log'[s] = <<>> /\ ~Archived(s)')
    <3>1. CASE s = x
      BY <1>2, <1>3, <2>2, <3>1, Zenon
    <3>2. CASE s # x
      BY <1>1, <1>2, <1>4, <3>2, Zenon DEF RowsConsistent
    <3> QED
      BY <3>1, <3>2, Zenon
  <2> QED
    BY <1>1, <2>1, <2>3, Zenon DEF RowsConsistent
<1>7. ArchivedRest'
  BY <1>1, <1>2, <1>3, <1>4, Zenon DEF ArchivedRest, All
<1>8. \A k \in Kids : Idle(k) => Idle(k)'
  BY <1>2, <1>3, Zenon DEF Idle, Exists, sessionFinished, All
<1>9. \A k \in Kids : Exists(k)' => Exists(k)
  BY <1>3, <1>4, Zenon DEF All
<1>10. \A s \in Tops : MayTouch(s) => MayTouch(s)'
  <2> SUFFICES ASSUME NEW s \in Tops, MayTouch(s)
               PROVE  MayTouch(s)'
    BY Zenon
  <2>1. CASE s = x
    <3>1. sessionFinished(s)'
      BY <1>2, <2>1 DEF MayTouch, sessionFinished, NoRow
    <3>2. \A k \in Children(s) : Exists(k)' => sessionFinished(k)'
      BY <1>8, <1>9, Zenon DEF MayTouch, Children, Idle
    <3>3. ~memoryPending(s)'
      BY <1>2, <2>1 DEF memoryPending
    <3> QED
      BY <3>1, <3>2, <3>3, Zenon DEF MayTouch, Children
  <2>2. CASE s # x
    <3>1. s \in All
      BY Zenon DEF All
    <3>2. \A k \in Children(s) : Idle(k) => Idle(k)'
      BY <1>8, Zenon DEF Children
    <3> QED
      BY <1>1, <1>2, <2>2, <3>1, <3>2, TouchKept, Zenon
  <2> QED
    BY <2>1, <2>2, Zenon
<1>11. ASSUME NEW CONSTANT list, Listed(list)
       PROVE  Listed(list)'
  BY <1>1, <1>8, <1>9, <1>10, <1>11, ListedKept, Zenon
<1> QED
  BY <1>2, <1>3, <1>5, <1>6, <1>7, <1>9, <1>11, Zenon

(* A worker the pass deletes is one of those it found expired.              *)
LEMMA DeleteWorkerKeeps ==
    ASSUME RetentionInv, DeleteWorker
    PROVE  RetentionInv'
<1> USE RetentionAssumption
<1>1. keeper \in Scans /\ \A c \in keeper.gone : Exists(c) /\ sessionFinished(c)
  BY SoundAt, Zenon DEF RetentionInv, DeleteWorker
<1>2. PICK x \in keeper.gone : DeleteSession(x) /\ keeper' = [keeper EXCEPT !.gone = @ \ {x}]
  BY Zenon DEF DeleteWorker, Keeper
<1>3. UNCHANGED <<active, extract, now, resumed>>
  BY Zenon DEF DeleteWorker
<1>4. x \in All /\ keeper.gone \subseteq Kids /\ Kids \subseteq All
  BY <1>1, Zenon DEF Scans, All
<1>5. /\ Types' /\ RowsConsistent' /\ ArchivedRest'
      /\ \A s \in All : s # x => row'[s] = row[s]
  BY <1>2, <1>3, <1>4, DeleteKeeps, Zenon
<1>6. keeper' \in Scans /\ keeper'.gone = keeper.gone \ {x}
  BY <1>1, <1>2, Zenon DEF Scans
<1>7. \A c \in keeper'.gone : Exists(c)' /\ sessionFinished(c)'
  BY <1>1, <1>3, <1>4, <1>5, <1>6, Zenon DEF Exists, sessionFinished
<1> QED
  BY <1>5, <1>6, <1>7, Zenon DEF RetentionInv, Sound

(* A removal deletes the listed workers and then the session.               *)
LEMMA RemoveKeeps ==
    ASSUME RetentionInv, Remove
    PROVE  RetentionInv'
<1> USE RetentionAssumption
<1>1. /\ keeper \in Removes /\ Acts(keeper)
      /\ keeper.kids \subseteq keeper.then.list.kids \cap Children(keeper.sid)
      /\ keeper.sid \in resumed \/ \A c \in Children(keeper.sid) : Exists(c) => c \in keeper.kids
  BY SoundAt, Zenon DEF RetentionInv, Remove
<1>2. PICK x \in RemoveNext : /\ DeleteSession(x)
                              /\ keeper' = IF x = keeper.sid THEN keeper.then ELSE [keeper EXCEPT !.kids = @ \ {x}]
  BY Zenon DEF Remove, Keeper
<1>3. UNCHANGED <<active, extract, now, resumed>>
  BY Zenon DEF Remove
<1>4. keeper.sid \in Tops /\ keeper.kids \subseteq Kids /\ keeper.then \in Backs
  BY <1>1, Zenon DEF Removes
<1>5. x \in All
  BY <1>2, <1>4, Zenon DEF RemoveNext, All
<1>6. /\ Types' /\ RowsConsistent' /\ ArchivedRest'
      /\ ~Exists(x)' /\ \A k \in Kids : Exists(k)' => Exists(k)
      /\ \A list : Listed(list) => Listed(list)'
  BY <1>2, <1>3, <1>5, DeleteKeeps, Zenon
<1>7. PICK k : k = keeper
  BY Zenon
<1>8. Listed(k.then.list)'
  BY <1>1, <1>6, <1>7, Zenon DEF Acts
<1>9. CASE x = keeper.sid
  <2>1. keeper' = k.then /\ k.then \in Backs
    BY <1>2, <1>4, <1>7, <1>9, Zenon
  <2>2. Sound(k.then)'
    BY <1>8, <2>1, Zenon DEF Sound
  <2>3. Sound(keeper)'
    BY <2>1, <2>2, Zenon DEF Sound, Acts, Listed
  <2> QED
    BY <1>6, <2>3, Zenon DEF RetentionInv
<1>10. CASE x # keeper.sid
  <2>1. /\ keeper' \in Removes /\ keeper'.kids = k.kids \ {x}
        /\ keeper'.then = k.then /\ keeper'.sid = k.sid
    BY <1>1, <1>2, <1>7, <1>10, Zenon DEF Removes
  <2>2. PICK j : j = keeper'
    BY Zenon
  <2>3. Acts(j)'
    BY <1>1, <1>7, <1>8, <2>1, <2>2, Zenon DEF Acts
  <2>4. j.kids \subseteq j.then.list.kids \cap Children(j.sid)
    BY <1>1, <1>7, <2>1, <2>2, Zenon
  <2>5. j.sid \in resumed' \/ \A c \in Children(j.sid) : Exists(c)' => c \in j.kids
    BY <1>1, <1>3, <1>6, <1>7, <2>1, <2>2, Zenon DEF Children
  <2>6. Sound(j)'
    BY <2>1, <2>2, <2>3, <2>4, <2>5, Zenon DEF Sound, Children
  <2>7. Sound(keeper)'
    BY <2>2, <2>6, Zenon DEF Sound, Acts, Listed
  <2> QED
    BY <1>6, <2>7, Zenon DEF RetentionInv
<1> QED
  BY <1>9, <1>10, Zenon

(* The archive's transaction leaves its session idle, with its events in    *)
(* the archive.                                                             *)
LEMMA ArchiveKeeps ==
    ASSUME RetentionInv, ArchiveWrites
    PROVE  RetentionInv'
<1> USE RetentionAssumption
<1>1. Types /\ RowsConsistent /\ ArchivedRest /\ Sound(keeper)
  BY Zenon DEF RetentionInv
<1>2. keeper \in Writes /\ Acts(keeper)
  BY <1>1, SoundAt, Zenon DEF ArchiveWrites
<1>3. PICK k : k = keeper
  BY Zenon
<1>4. PICK s : s = k.sid
  BY Zenon
<1>5. s \in Tops /\ s \in All /\ k.then \in Backs /\ k.events \in Seq(Events)
  BY <1>2, <1>3, <1>4, Zenon DEF Writes, All
<1>6. keeper' = k.then /\ UNCHANGED <<active, extract, now, resumed>>
  BY <1>3, Zenon DEF ArchiveWrites, Keeper
<1>7. CASE ~(Exists(s) /\ Unchanged(s, k.events))
  <2>1. UNCHANGED <<row, log, wm, arc>>
    BY <1>3, <1>4, <1>7, Zenon DEF ArchiveWrites
  <2>2. Sound(k.then)
    BY <1>2, <1>3, <1>5, Zenon DEF Sound, Acts
  <2> QED
    BY <1>6, <2>1, <2>2, PassKeeps, Zenon
<1>8. CASE Exists(s) /\ Unchanged(s, k.events)
  <2>1. /\ arc' = [arc EXCEPT ![s] = k.events] /\ log' = [log EXCEPT ![s] = <<>>]
        /\ wm' = [wm EXCEPT ![s] = 0] /\ row' = [row EXCEPT ![s].archived = now]
    BY <1>3, <1>4, <1>8, Zenon DEF ArchiveWrites
  <2>2. /\ row' \in [All -> Rows] /\ \A x \in All : x # s => row'[x] = row[x]
        /\ row'[s].status = row[s].status /\ row'[s].archived = now
    <3> DEFINE r == [row[s] EXCEPT !.archived = now]
    <3>1. row \in [All -> Rows] /\ now \in Nat /\ row[s] \in Rows
      BY <1>1, <1>5, Zenon DEF Types
    <3>2. row' = [row EXCEPT ![s] = r]
      BY <2>1, <3>1, Zenon
    <3>3. r \in Rows /\ r.status = row[s].status /\ r.archived = now
      BY <3>1, ArchiveUpdate, Zenon
    <3> HIDE DEF r
    <3> QED
      BY <1>5, <3>1, <3>2, <3>3, RowUpdate, Zenon
  <2>3. /\ log' \in [All -> Seq(Events)] /\ log'[s] = <<>> /\ \A x \in All : x # s => log'[x] = log[x]
        /\ wm' \in [All -> Nat] /\ wm'[s] = 0 /\ \A x \in All : x # s => wm'[x] = wm[x]
        /\ arc' \in [All -> Seq(Events)]
    <3>1. <<>> \in Seq(Events) /\ 0 \in Nat
      OBVIOUS
    <3> QED
      BY <1>1, <1>5, <2>1, <3>1, Zenon DEF Types
  <2>4. s \in resumed \/ s \notin active
    BY <1>2, <1>3, <1>4, Zenon DEF Acts, Listed, MayTouch, sessionFinished
  <2>5. Types'
    BY <1>1, <1>6, <2>2, <2>3, Zenon DEF Types
  <2>6. \A x \in All : Exists(x)' <=> Exists(x)
    BY <2>2, Zenon DEF Exists
  <2>7. RowsConsistent'
    <3>1. \A x \in All : row'[x].status \in {"none", "running", "pass", "fail", "input_required"}
      BY <2>2, Zenon DEF Rows, RowStates
    <3>2. 0 \in 0..MaxLog /\ Len(<<>>) <= MaxLog
      OBVIOUS
    <3>3. ASSUME NEW x \in All
          PROVE  wm'[x] \in 0..MaxLog /\ Len(log'[x]) <= MaxLog /\ (~Exists(x)' => log'[x] = <<>> /\ ~Archived(x)')
      <4>1. CASE x = s
        BY <1>8, <2>3, <2>6, <3>2, <4>1, Zenon
      <4>2. CASE x # s
        BY <1>1, <2>2, <2>3, <4>2, Zenon DEF RowsConsistent, Exists, Archived
      <4> QED
        BY <4>1, <4>2, Zenon
    <3> QED
      BY <1>1, <1>6, <3>1, <3>3, Zenon DEF RowsConsistent
  <2>8. ArchivedRest'
    BY <1>1, <1>6, <2>2, <2>3, <2>4, Zenon DEF ArchivedRest, Archived, All
  <2>9. \A x \in All : sessionFinished(x) => sessionFinished(x)'
    BY <1>6, <2>2, Zenon DEF sessionFinished
  <2>10. \A x \in Kids : Idle(x) => Idle(x)'
    BY <2>6, <2>9, Zenon DEF Idle, All
  <2>11. \A x \in Tops : MayTouch(x) => MayTouch(x)'
    <3> SUFFICES ASSUME NEW x \in Tops, MayTouch(x)
                 PROVE  MayTouch(x)'
      BY Zenon
    <3>1. x \in All
      BY Zenon DEF All
    <3>2. \A c \in Children(x) : Idle(c) => Idle(c)'
      BY <2>10, Zenon DEF Children
    <3>3. CASE x = s
      <4>1. Archived(s)'
        BY <1>1, <1>6, <2>2 DEF Archived, Types
      <4> QED
        BY <2>6, <2>9, <3>1, <3>2, <3>3, <4>1, Zenon DEF MayTouch, Children, Idle
    <3>4. CASE x # s
      BY <1>1, <1>6, <2>2, <2>3, <3>1, <3>2, <3>4, TouchKept, Zenon
    <3> QED
      BY <3>3, <3>4, Zenon
  <2>12. Listed(k.then.list)'
    <3>1. Listed(k.then.list)
      BY <1>2, <1>3, Zenon DEF Acts
    <3>2. \A c \in Kids : Exists(c)' => Exists(c)
      BY <2>6, Zenon DEF All
    <3> QED
      BY <1>1, <1>6, <2>10, <2>11, <3>1, <3>2, ListedKept, Zenon
  <2>13. Sound(k.then)'
    BY <1>5, <2>12, Zenon DEF Sound
  <2>14. Sound(keeper)'
    BY <1>6, <2>13, Zenon DEF Sound, Acts, Listed
  <2> QED
    BY <2>5, <2>7, <2>8, <2>14, Zenon DEF RetentionInv
<1> QED
  BY <1>7, <1>8, Zenon

(* A verdict on a candidate acts only on one the listing found fit.         *)
LEMMA JudgeKeeps ==
    ASSUME RetentionInv, NEW s \in Tops, Judge(s)
    PROVE  RetentionInv'
<1> USE RetentionAssumption
<1>1. keeper \in Backs /\ Listed(keeper.list)
  BY SoundAt, Zenon DEF RetentionInv, Judge
<1>2. UNCHANGED <<row, active, log, wm, arc, extract, now, resumed>>
  BY Zenon DEF Judge
<1> DEFINE next == [Back EXCEPT !.todo = @ \ {s}]
           kids == keeper.list.kids \cap Children(s)
<1>3. next \in Backs /\ next.list = keeper.list
  BY <1>1, Zenon DEF Back, Backs
<1>4. \/ keeper' = next
      \/ s \in keeper.list.ok /\ keeper' = [at |-> "read", sid |-> s, then |-> next]
      \/ s \in keeper.list.ok /\ keeper' = [at |-> "remove", sid |-> s, then |-> next, kids |-> kids]
  BY Zenon DEF Judge, Keeper
<1> HIDE DEF next, kids
<1>5. PICK k : k = keeper'
  BY Zenon
<1>6. Sound(k)
  <2>1. CASE keeper' = next
    BY <1>1, <1>3, <1>5, <2>1, Zenon DEF Sound
  <2>2. CASE s \in keeper.list.ok /\ keeper' = [at |-> "read", sid |-> s, then |-> next]
    <3>1. k \in Reads /\ k.sid = s /\ k.then = next
      BY <1>3, <1>5, <2>2, Zenon DEF Reads
    <3> QED
      BY <1>1, <1>3, <2>2, <3>1, Zenon DEF Sound, Acts
  <2>3. CASE s \in keeper.list.ok /\ keeper' = [at |-> "remove", sid |-> s, then |-> next, kids |-> kids]
    <3>1. keeper.list.kids \subseteq Kids
      BY <1>1, Zenon DEF Listed
    <3>2. kids \in SUBSET Kids
      BY <3>1, Zenon DEF kids
    <3>3. k \in Removes /\ k.sid = s /\ k.then = next /\ k.kids = kids
      BY <1>3, <1>5, <2>3, <3>2, Zenon DEF Removes
    <3>4. s \in resumed \/ \A c \in Children(s) : Exists(c) => c \in kids
      BY <1>1, <2>3, Zenon DEF Listed, kids
    <3>5. kids \subseteq next.list.kids \cap Children(s)
      BY <1>3, Zenon DEF kids
    <3>6. Acts(k)
      BY <1>1, <1>3, <2>3, <3>3, Zenon DEF Acts
    <3> QED
      BY <3>3, <3>4, <3>5, <3>6, Zenon DEF Sound
  <2> QED
    BY <1>4, <2>1, <2>2, <2>3, Zenon
<1> QED
  BY <1>2, <1>5, <1>6, PassKeeps, Zenon

(* The other steps of a pass.                                               *)
LEMMA PassStepsKeep ==
    ASSUME RetentionInv,
           PassBegins \/ PassLists \/ ArchiveReads \/ RemoveFails \/ AgeDone \/ SizeDone \/ TrimDone
    PROVE  RetentionInv'
<1> USE RetentionAssumption
<1>1. Types /\ Sound(keeper)
  BY Zenon DEF RetentionInv
<1>2. Sound(Resting)
  BY Zenon DEF Sound
<1>3. CASE PassBegins
  <2>1. PICK k : k = keeper'
    BY Zenon
  <2>2. k = [at |-> "workers", time |-> now,
             gone |-> {c \in Kids : Exists(c) /\ sessionFinished(c) /\ now - row[c].updated > WorkerAfter}]
    BY <1>3, <2>1, Zenon DEF PassBegins, Keeper
  <2>3. k \in Scans /\ \A c \in k.gone : Exists(c) /\ sessionFinished(c)
    BY <1>1, <2>2, Zenon DEF Scans, Types
  <2>4. Sound(k)
    BY <2>3, Zenon DEF Sound
  <2>5. UNCHANGED <<row, active, log, wm, arc, extract, now, resumed>>
    BY <1>3, Zenon DEF PassBegins
  <2> QED
    BY <2>1, <2>4, <2>5, PassKeeps, Zenon
<1>4. CASE PassLists
  <2>1. keeper \in Scans
    BY <1>1, <1>4, SoundAt, Zenon DEF PassLists
  <2>2. keeper.time \in Nat
    BY <2>1, Zenon DEF Scans
  <2>3. keeper' = Candidates("age") /\ resumed' = StillResumed /\ UNCHANGED <<row, active, log, wm, arc, extract, now>>
    BY <1>4, Zenon DEF PassLists, Keeper
  <2> QED
    BY <2>2, <2>3, ListingKeeps, Zenon
<1>5. CASE ArchiveReads
  <2>1. keeper \in Reads /\ Acts(keeper)
    BY <1>1, <1>5, SoundAt, Zenon DEF ArchiveReads
  <2>2. PICK k : k = keeper'
    BY Zenon
  <2>3. UNCHANGED <<row, active, log, wm, arc, extract, now, resumed>>
    BY <1>5, Zenon DEF ArchiveReads
  <2>4. keeper.sid \in Tops /\ keeper.then \in Backs
    BY <2>1, Zenon DEF Reads
  <2>5. ASSUME k = keeper.then
        PROVE  Sound(k)
    BY <2>1, <2>4, <2>5, Zenon DEF Sound, Acts
  <2>6. ASSUME k = [at |-> "write", sid |-> keeper.sid, then |-> keeper.then, events |-> log[keeper.sid]]
        PROVE  Sound(k)
    <3>1. log[keeper.sid] \in Seq(Events)
      BY <1>1, <2>4, Zenon DEF Types, All
    <3>2. k \in Writes /\ k.sid = keeper.sid /\ k.then = keeper.then /\ k.events = log[keeper.sid]
      BY <2>4, <2>6, <3>1, Zenon DEF Writes
    <3>3. IsPrefix(log[keeper.sid], log[keeper.sid])
      BY <3>1 DEF IsPrefix
    <3> QED
      BY <2>1, <3>2, <3>3, Zenon DEF Sound, Acts
  <2>7. Sound(k)
    BY <1>5, <2>2, <2>5, <2>6, Zenon DEF ArchiveReads, Keeper
  <2> QED
    BY <2>2, <2>3, <2>7, PassKeeps, Zenon
<1>6. CASE RemoveFails
  <2>1. keeper \in Removes /\ Acts(keeper)
    BY <1>1, <1>6, SoundAt, Zenon DEF RemoveFails
  <2>2. PICK k : k = keeper'
    BY Zenon
  <2>3. k = keeper.then /\ UNCHANGED <<row, active, log, wm, arc, extract, now, resumed>>
    BY <1>6, <2>2, Zenon DEF RemoveFails, Keeper
  <2>4. keeper.then \in Backs
    BY <2>1, Zenon DEF Removes
  <2>5. Sound(k)
    BY <2>1, <2>3, <2>4, Zenon DEF Sound, Acts
  <2> QED
    BY <2>2, <2>3, <2>5, PassKeeps, Zenon
<1>7. ASSUME keeper' = Resting, UNCHANGED <<row, active, log, wm, arc, extract, now, resumed>>
      PROVE  RetentionInv'
  BY <1>2, <1>7, PassKeeps, Zenon
<1>8. CASE AgeDone
  <2>1. keeper \in Backs
    BY <1>1, <1>8, SoundAt, Zenon DEF AgeDone
  <2>2. keeper.time \in Nat
    BY <2>1, Zenon DEF Backs
  <2>3. \/ keeper' = Resting /\ UNCHANGED resumed
        \/ keeper' = Candidates("size") /\ resumed' = StillResumed
    BY <1>8, Zenon DEF AgeDone, Keeper
  <2>4. UNCHANGED <<row, active, log, wm, arc, extract, now>>
    BY <1>8, Zenon DEF AgeDone
  <2> QED
    BY <1>7, <2>2, <2>3, <2>4, ListingKeeps, Zenon
<1>9. CASE SizeDone
  <2>1. keeper \in Backs /\ Listed(keeper.list)
    BY <1>1, <1>9, SoundAt, Zenon DEF SizeDone
  <2>2. UNCHANGED <<row, active, log, wm, arc, extract, now, resumed>>
    BY <1>9, Zenon DEF SizeDone
  <2>3. CASE keeper' = [keeper EXCEPT !.at = "trim", !.todo = {s \in Tops : keeper.list.rows[s].status # "none"}]
    <3>1. PICK k : k = keeper'
      BY Zenon
    <3>2. k \in Backs /\ k.list = keeper.list
      BY <2>1, <2>3, <3>1, Zenon DEF Backs
    <3>3. Sound(k)
      BY <2>1, <3>2, Zenon DEF Sound
    <3> QED
      BY <2>2, <3>1, <3>3, PassKeeps, Zenon
  <2> QED
    BY <1>7, <1>9, <2>2, <2>3, Zenon DEF SizeDone, Keeper
<1>10. CASE TrimDone
  BY <1>7, <1>10, Zenon DEF TrimDone, Keeper
<1> QED
  BY <1>3, <1>4, <1>5, <1>6, <1>8, <1>9, <1>10, Zenon

-----------------------------------------------------------------------------
(* Every step                                                               *)

(* Every step of sessions, extraction and retention keeps the invariant.    *)
LEMMA RetentionKeeps ==
    ASSUME RetentionInv, RetentionNext
    PROVE  RetentionInv'
<1> USE RetentionAssumption
<1>1. Types /\ RowsConsistent
  BY Zenon DEF RetentionInv
<1>2. wm \in [All -> 0..MaxLog] /\ \A x \in All : wm[x] <= wm[x]
  BY <1>1 DEF Types, RowsConsistent
<1>3. CASE TimePasses
  <2>1. now' \in Nat
    BY <1>1, <1>3 DEF TimePasses, Types
  <2> QED
    BY <1>1, <1>2, <1>3, <2>1, QuietKeeps, Zenon DEF TimePasses, Types
<1>4. ASSUME NEW s \in All, Start(s)
      PROVE  RetentionInv'
  BY <1>4, StartKeeps, Zenon
<1>5. ASSUME NEW s \in All, Work(s)
      PROVE  RetentionInv'
  <2>1. s \in active /\ Exists(s) /\ Len(log[s]) < MaxLog - 1 /\ log' = [log EXCEPT ![s] = Append(@, "work")]
    BY <1>5, Zenon DEF Work
  <2>2. UNCHANGED <<active, wm, arc, extract, keeper, now, resumed>>
    BY <1>5, Zenon DEF Work
  <2>3. row' = [row EXCEPT ![s].updated = now]
    BY <1>5, Zenon DEF Work
  <2>4. /\ row' \in [All -> Rows] /\ \A x \in All : x # s => row'[x] = row[x]
        /\ row'[s].status = row[s].status /\ row'[s].archived = row[s].archived
    <3> DEFINE r == [row[s] EXCEPT !.updated = now]
    <3>1. row \in [All -> Rows] /\ now \in Nat /\ row[s] \in Rows
      BY <1>1, Zenon DEF Types
    <3>2. row' = [row EXCEPT ![s] = r]
      BY <2>3, <3>1, Zenon
    <3>3. r \in Rows /\ r.status = row[s].status /\ r.archived = row[s].archived
      BY <3>1, TimeUpdate, Zenon
    <3> HIDE DEF r
    <3> QED
      BY <3>1, <3>2, <3>3, RowUpdate, Zenon
  <2>5. Exists(s)'
    BY <2>1, <2>4, Zenon DEF Exists
  <2>6. Len(log[s]) < MaxLog
    BY <1>1, <2>1 DEF Types
  <2>7. "work" \in Events
    BY Zenon DEF Events
  <2> QED
    BY <2>1, <2>2, <2>4, <2>5, <2>6, <2>7, EventKeeps, Zenon
<1>6. ASSUME NEW s \in All, NEW v \in {"pass", "fail", "input_required"}, Finish(s, v)
      PROVE  RetentionInv'
  <2>1. s \in active /\ Len(log[s]) < MaxLog /\ active' = active \ {s}
    BY <1>6, Zenon DEF Finish
  <2>2. UNCHANGED <<wm, arc, extract, keeper, now, resumed>>
    BY <1>6, Zenon DEF Finish
  <2>3. CASE Exists(s)
    <3>1. log' = [log EXCEPT ![s] = Append(@, v)]
      BY <1>6, <2>3, Zenon DEF Finish
    <3>2. row' = [row EXCEPT ![s].status = v, ![s].updated = now]
      BY <1>6, <2>3, Zenon DEF Finish
    <3>3. /\ row' \in [All -> Rows] /\ \A x \in All : x # s => row'[x] = row[x]
          /\ row'[s].status = v /\ row'[s].archived = row[s].archived
      <4>1. row \in [All -> Rows] /\ now \in Nat
        BY <1>1, Zenon DEF Types
      <4>2. v \in RowStates
        BY Zenon DEF RowStates
      <4>4. PICK q : q = [row[s] EXCEPT !.status = v]
        BY Zenon
      <4>5. PICK r : r = [q EXCEPT !.updated = now]
        BY Zenon
      <4>6. row' = [row EXCEPT ![s] = r]
        BY <4>1, <4>4, <4>5, <3>2, Zenon
      <4>7. row[s] \in Rows
        BY <4>1, Zenon
      <4>8. q \in Rows /\ q.status = v /\ q.archived = row[s].archived
        BY <4>2, <4>4, <4>7, StatusUpdate, Zenon
      <4>9. r \in Rows /\ r.status = q.status /\ r.archived = q.archived
        BY <4>1, <4>5, <4>8, TimeUpdate, Zenon
      <4> QED
        BY <4>1, <4>6, <4>8, <4>9, RowUpdate, Zenon
    <3>4. Exists(s)' /\ v \in Events
      BY <3>3, Zenon DEF Exists, Events
    <3> QED
      BY <2>1, <2>2, <2>3, <3>1, <3>3, <3>4, EventKeeps, Zenon
  <2>4. CASE ~Exists(s)
    <3>1. UNCHANGED <<row, log>>
      BY <1>6, <2>4, Zenon DEF Finish
    <3> QED
      BY <1>1, <1>2, <2>1, <2>2, <3>1, QuietKeeps, Zenon DEF Types
  <2> QED
    BY <2>3, <2>4, Zenon
<1>7. ASSUME NEW s \in All, ExtractBegins(s)
      PROVE  RetentionInv'
  <2>1. PICK n \in DOMAIN log[s] : extract' = [at |-> "model", sid |-> s, upto |-> n]
    BY <1>7, Zenon DEF ExtractBegins
  <2>2. s \in Tops /\ UNCHANGED <<row, active, log, wm, arc, keeper, now, resumed>>
    BY <1>7, Zenon DEF ExtractBegins
  <2>3. n \in 0..MaxLog
    <3>1. log[s] \in Seq(Events) /\ Len(log[s]) <= MaxLog
      BY <1>1, Zenon DEF Types, RowsConsistent
    <3> QED
      BY <3>1
  <2>4. extract'.sid \in Tops /\ extract'.upto \in 0..MaxLog
    BY <2>1, <2>2, <2>3, Zenon
  <2> QED
    BY <1>1, <1>2, <2>2, <2>4, QuietKeeps, Zenon DEF Types
<1>8. CASE ExtractEnds
  <2>1. extract.sid \in Tops /\ extract.upto \in 0..MaxLog /\ extract'.at # "model"
    BY <1>1, <1>8, Zenon DEF Types, ExtractEnds, Resting
  <2>2. UNCHANGED <<row, active, log, arc, keeper, now, resumed>>
    BY <1>8, Zenon DEF ExtractEnds
  <2>3. wm' \in [All -> 0..MaxLog] /\ \A x \in All : wm[x] <= wm'[x]
    <3>1. CASE UNCHANGED wm
      BY <1>2, <3>1, Zenon
    <3>2. CASE wm' = [wm EXCEPT ![extract.sid] =
                        IF Exists(extract.sid) /\ extract.upto > @ THEN extract.upto ELSE @]
      <4>1. PICK e : e = extract.sid
        BY Zenon
      <4>2. PICK u : u = IF Exists(e) /\ extract.upto > wm[e] THEN extract.upto ELSE wm[e]
        BY Zenon
      <4>3. e \in All
        BY <2>1, <4>1, Zenon DEF All
      <4>4. u \in 0..MaxLog /\ wm[e] <= u
        BY <1>2, <2>1, <4>2, <4>3
      <4>5. wm' = [wm EXCEPT ![e] = u]
        BY <1>2, <3>2, <4>1, <4>2, <4>3, Zenon
      <4> QED
        BY <1>2, <4>3, <4>4, <4>5, Zenon
    <3> QED
      BY <1>8, <3>1, <3>2, Zenon DEF ExtractEnds
  <2> QED
    BY <1>1, <2>1, <2>2, <2>3, QuietKeeps, Zenon DEF Types
<1> QED
  BY <1>3, <1>4, <1>5, <1>6, <1>7, <1>8, DeleteWorkerKeeps, RemoveKeeps, ArchiveKeeps, JudgeKeeps,
     PassStepsKeep, Zenon DEF RetentionNext

(* No step but a deletion or an archive empties a log or removes a row.     *)
LEMMA OnlyTheseClear ==
    ASSUME RetentionInv, RetentionNext, ~DeleteWorker, ~Remove, ~ArchiveWrites
    PROVE  \A s \in All : ~Cleared(s) /\ (Exists(s) => Exists(s)')
<1>1. Types
  BY Zenon DEF RetentionInv
<1>2. ASSUME UNCHANGED <<row, log>>
      PROVE  \A s \in All : ~Cleared(s) /\ (Exists(s) => Exists(s)')
  BY <1>2, Zenon DEF Cleared, Exists
<1>3. ASSUME NEW x \in All, Start(x)
      PROVE  \A s \in All : ~Cleared(s) /\ (Exists(s) => Exists(s)')
  <2>1. \A s \in All : Exists(s) => Exists(s)'
    BY <1>1, <1>3, Zenon DEF Start, Exists, Types, Rows
  <2> QED
    BY <1>3, <2>1, Zenon DEF Start, Cleared
<1>4. ASSUME NEW x \in All, Work(x)
      PROVE  \A s \in All : ~Cleared(s) /\ (Exists(s) => Exists(s)')
  <2>1. \A s \in All : Exists(s) => Exists(s)'
    BY <1>1, <1>4, Zenon DEF Work, Exists, Types, Rows
  <2>2. \A s \in All : ~Cleared(s)
    BY <1>1, <1>4 DEF Work, Cleared, Types
  <2> QED
    BY <2>1, <2>2, Zenon
<1>5. ASSUME NEW x \in All, NEW v \in {"pass", "fail", "input_required"}, Finish(x, v)
      PROVE  \A s \in All : ~Cleared(s) /\ (Exists(s) => Exists(s)')
  <2>1. CASE Exists(x)
    <3>1. log' = [log EXCEPT ![x] = Append(@, v)] /\ row' = [row EXCEPT ![x].status = v, ![x].updated = now]
      BY <1>5, <2>1, Zenon DEF Finish
    <3>2. \A s \in All : Exists(s) => Exists(s)'
      BY <1>1, <3>1, Zenon DEF Exists, Types, Rows
    <3>3. \A s \in All : ~Cleared(s)
      <4>1. log \in [All -> Seq(Events)] /\ v \in Events
        BY <1>1, Zenon DEF Types, Events
      <4>2. log'[x] # <<>>
        <5>1. log'[x] = Append(log[x], v) /\ log[x] \in Seq(Events)
          BY <3>1, <4>1, Zenon
        <5> QED
          BY <4>1, <5>1, PrefixAppend, Zenon
      <4> QED
        BY <3>1, <4>1, <4>2, Zenon DEF Cleared
    <3> QED
      BY <3>2, <3>3, Zenon
  <2> QED
    BY <1>2, <1>5, <2>1, Zenon DEF Finish
<1> QED
  BY <1>2, <1>3, <1>4, <1>5, Zenon
     DEF RetentionNext, TimePasses, ExtractBegins, ExtractEnds, PassBegins, PassLists, Judge,
         ArchiveReads, RemoveFails, AgeDone, SizeDone, TrimDone

(* Deleting x empties no other log and removes no other row.                *)
LEMMA DeleteOnly ==
    ASSUME RetentionInv, NEW x \in All, DeleteSession(x)
    PROVE  /\ row'[x] = NoRow /\ ~(row'[x].archived >= 0)
           /\ \A s \in All : Cleared(s) \/ (Exists(s) /\ row'[s] = NoRow) => s = x
<1>1. Types
  BY Zenon DEF RetentionInv
<1>2. row'[x] = NoRow /\ \A s \in All : s # x => row'[s] = row[s] /\ log'[s] = log[s]
  BY <1>1, Zenon DEF DeleteSession, Types
<1>3. ~(NoRow.archived >= 0) /\ NoRow.status = "none"
  BY DEF NoRow
<1> QED
  BY <1>2, <1>3, Zenon DEF Cleared, Exists

(* A worker found expired is finished, and no one's parent.                 *)
LEMMA WorkerGoesWhole ==
    ASSUME RetentionInv, DeleteWorker
    PROVE  ArchiveLosesNothing /\ ExtractedFirst /\ BusyIsSpared /\ NoOrphans
<1> USE RetentionAssumption
<1>1. keeper \in Scans /\ \A c \in keeper.gone : Exists(c) /\ sessionFinished(c)
  BY SoundAt, Zenon DEF RetentionInv, DeleteWorker
<1>2. PICK x \in keeper.gone : DeleteSession(x)
  BY Zenon DEF DeleteWorker
<1>3. x \in Kids
  BY <1>1, <1>2, Zenon DEF Scans
<1>4. x \in All /\ x \notin Tops /\ Tops \subseteq All
  BY <1>3, Zenon DEF All
<1>5. /\ ~(row'[x].archived >= 0)
      /\ \A s \in All : Cleared(s) \/ (Exists(s) /\ row'[s] = NoRow) => s = x
  BY <1>2, <1>4, DeleteOnly, Zenon
<1>6. ArchiveLosesNothing
  BY <1>5, Zenon DEF ArchiveLosesNothing, Cleared
<1>7. ExtractedFirst /\ NoOrphans
  BY <1>4, <1>5, Zenon DEF ExtractedFirst, NoOrphans
<1>8. BusyIsSpared
  <2>1. Children(x) = {}
    BY <1>4, Zenon DEF Children
  <2>2. ~Busy(x)
    BY <1>1, <1>2, Zenon DEF Busy, sessionFinished
  <2> QED
    BY <1>5, <2>1, <2>2, Zenon DEF BusyIsSpared
<1> QED
  BY <1>6, <1>7, <1>8, Zenon

(* The session an archive or a removal acts on was fit when it was listed,  *)
(* or started again.                                                        *)
LEMMA ActsOnFit ==
    ASSUME RetentionInv, NEW s \in Tops, Acts(keeper), s = keeper.sid
    PROVE  /\ log[s] # <<>> => s \in resumed \/ ~memoryPending(s)
           /\ (Busy(s) \/ \E k \in Children(s) : Busy(k)) => s \in resumed
<1>1. s \in resumed \/ MayTouch(s)
  BY Zenon DEF Acts, Listed
<1>2. Archived(s) /\ log[s] # <<>> => s \in resumed
  BY Zenon DEF RetentionInv, ArchivedRest
<1>3. MayTouch(s) /\ log[s] # <<>> => s \in resumed \/ ~memoryPending(s)
  BY <1>2, Zenon DEF MayTouch
<1>4. MayTouch(s) => ~Busy(s) /\ \A k \in Children(s) : ~Busy(k)
  BY Zenon DEF MayTouch, Busy, sessionFinished
<1> QED
  BY <1>1, <1>3, <1>4, Zenon

(* The archive holds the events its transaction deletes.                    *)
LEMMA ArchiveIsWhole ==
    ASSUME RetentionInv, ArchiveWrites
    PROVE  ArchiveLosesNothing /\ ExtractedFirst /\ BusyIsSpared /\ NoOrphans
<1> USE RetentionAssumption
<1>1. Types
  BY Zenon DEF RetentionInv
<1>2. keeper \in Writes /\ Acts(keeper) /\ IsPrefix(keeper.events, log[keeper.sid])
  BY SoundAt, Zenon DEF RetentionInv, ArchiveWrites
<1>3. PICK s : s = keeper.sid
  BY Zenon
<1>4. s \in Tops /\ s \in All /\ Tops \subseteq All /\ keeper.events \in Seq(Events)
  BY <1>2, <1>3, Zenon DEF Writes, All
<1>5. CASE UNCHANGED <<arc, log, wm, row>>
  <2>1. \A x \in All : ~Cleared(x) /\ ~(Exists(x) /\ row'[x] = NoRow)
    <3>1. NoRow.status = "none"
      BY Zenon DEF NoRow
    <3> QED
      BY <1>5, <3>1, Zenon DEF Cleared, Exists
  <2> QED
    BY <1>4, <2>1, Zenon DEF ArchiveLosesNothing, ExtractedFirst, BusyIsSpared, NoOrphans, Cleared
<1>6. CASE /\ Unchanged(s, keeper.events) /\ arc' = [arc EXCEPT ![s] = keeper.events]
           /\ log' = [log EXCEPT ![s] = <<>>] /\ row' = [row EXCEPT ![s].archived = now]
  <2>1. keeper.events = log[s]
    <3>1. log[s] \in Seq(Events)
      BY <1>1, <1>4, Zenon DEF Types
    <3> QED
      BY <1>2, <1>3, <1>4, <1>6, <3>1, WholePrefix, Zenon DEF Unchanged
  <2>2. arc'[s] = log[s]
    BY <1>1, <1>4, <1>6, <2>1, Zenon DEF Types
  <2>3. \A x \in All : Cleared(x) => x = s
    BY <1>1, <1>6, Zenon DEF Types, Cleared
  <2>4. \A x \in All : row'[x] # NoRow \/ row'[x] = row[x]
    BY <1>1, <1>4, <1>6 DEF Types, Rows, NoRow
  <2>5. \A x \in All : ~(Exists(x) /\ row'[x] = NoRow)
    <3>1. NoRow.status = "none"
      BY Zenon DEF NoRow
    <3> QED
      BY <2>4, <3>1, Zenon DEF Exists
  <2>6. ArchiveLosesNothing
    BY <2>2, <2>3, Zenon DEF ArchiveLosesNothing, Cleared
  <2>7. ExtractedFirst /\ BusyIsSpared
    BY <1>2, <1>3, <1>4, <2>3, ActsOnFit, Zenon DEF ExtractedFirst, BusyIsSpared, Cleared
  <2>8. NoOrphans
    BY <1>4, <2>5, Zenon DEF NoOrphans
  <2> QED
    BY <2>6, <2>7, <2>8, Zenon
<1> QED
  BY <1>3, <1>5, <1>6, Zenon DEF ArchiveWrites

(* A removal takes the listed workers first, and the session last.          *)
LEMMA RemovalIsWhole ==
    ASSUME RetentionInv, Remove
    PROVE  ArchiveLosesNothing /\ ExtractedFirst /\ BusyIsSpared /\ NoOrphans
<1> USE RetentionAssumption
<1>1. /\ keeper \in Removes /\ Acts(keeper)
      /\ keeper.kids \subseteq keeper.then.list.kids \cap Children(keeper.sid)
      /\ keeper.sid \in resumed \/ \A c \in Children(keeper.sid) : Exists(c) => c \in keeper.kids
  BY SoundAt, Zenon DEF RetentionInv, Remove
<1>2. PICK x \in RemoveNext : DeleteSession(x)
  BY Zenon DEF Remove
<1>3. keeper.sid \in Tops /\ keeper.kids \subseteq Kids
  BY <1>1, Zenon DEF Removes
<1>4. x \in All /\ Tops \subseteq All
  BY <1>2, <1>3, Zenon DEF RemoveNext, All
<1>5. /\ ~(row'[x].archived >= 0)
      /\ \A s \in All : Cleared(s) \/ (Exists(s) /\ row'[s] = NoRow) => s = x
  BY <1>2, <1>4, DeleteOnly, Zenon
<1>6. ArchiveLosesNothing
  BY <1>5, Zenon DEF ArchiveLosesNothing, Cleared
<1>7. CASE x \in keeper.kids
  <2>1. x \in Kids /\ x \notin Tops /\ Children(x) = {}
    BY <1>3, <1>7, Zenon DEF Children
  <2>2. x \in keeper.then.list.kids /\ Parent[x] = keeper.sid
    BY <1>1, <1>7, Zenon DEF Children
  <2>3. x \in resumed \/ Idle(x)
    BY <1>1, <2>2, Zenon DEF Acts, Listed
  <2>4. x \in resumed \/ ~Busy(x)
    BY <2>3, Zenon DEF Idle, Busy, sessionFinished
  <2> QED
    BY <1>4, <1>5, <1>6, <2>1, <2>4, Zenon DEF ExtractedFirst, BusyIsSpared, NoOrphans
<1>8. CASE x = keeper.sid /\ keeper.kids = {}
  <2>1. x \in resumed \/ \A c \in Children(x) : ~Exists(c)
    BY <1>1, <1>8, Zenon
  <2>2. /\ log[x] # <<>> => x \in resumed \/ ~memoryPending(x)
        /\ (Busy(x) \/ \E k \in Children(x) : Busy(k)) => x \in resumed
    BY <1>1, <1>3, <1>8, ActsOnFit, Zenon
  <2> QED
    BY <1>4, <1>5, <1>6, <2>1, <2>2, Zenon DEF ExtractedFirst, BusyIsSpared, NoOrphans, Cleared
<1> QED
  BY <1>2, <1>7, <1>8, Zenon DEF RemoveNext

-----------------------------------------------------------------------------
(* The results                                                              *)

(* A store without sessions.                                                *)
LEMMA RetentionStarts ==
    RetentionInit => RetentionInv
<1> SUFFICES ASSUME RetentionInit
             PROVE  RetentionInv
  BY Zenon
<1> USE RetentionAssumption
<1>1. NoRow \in Rows /\ NoRow.status = "none" /\ NoRow.archived = -1
  BY DEF NoRow, Rows, RowStates
<1>2. Types
  BY <1>1 DEF RetentionInit, Types, Resting
<1>3. RowsConsistent
  BY <1>1 DEF RetentionInit, RowsConsistent, Exists, Archived
<1>4. ArchivedRest
  BY <1>1, Zenon DEF RetentionInit, ArchivedRest, Archived, All
<1>5. Sound(keeper)
  BY Zenon DEF RetentionInit, Sound
<1> QED
  BY <1>2, <1>3, <1>4, <1>5, Zenon DEF RetentionInv

(* In every run, whatever the number of sessions and the windows, the rows, *)
(* logs and watermarks of the store agree, and a session that is gone left  *)
(* nothing behind.                                                          *)
THEOREM RetentionSound ==
    RetentionSpec => []RetentionInv
<1>1. RetentionInv /\ UNCHANGED retentionVars => RetentionInv'
  <2> SUFFICES ASSUME RetentionInv, UNCHANGED retentionVars
               PROVE  RetentionInv'
    BY Zenon
  <2>1. PICK k : k = keeper
    BY Zenon
  <2> QED
    BY <2>1, PassKeeps, Zenon DEF RetentionInv, retentionVars
<1> QED
  BY <1>1, RetentionStarts, RetentionKeeps, PTL DEF RetentionSpec

(* No step leaves anything of a session that is gone, and MaintainStorage   *)
(* (retention.go) never archives events it did not read, removes a session  *)
(* extraction has not read or one that is at work, or leaves a worker       *)
(* without its parent; the exception is a session that started again after  *)
(* it was listed or archived.                                               *)
THEOREM RetentionIsCareful ==
    RetentionSpec => RetentionSteps
<1> DEFINE Careful == ArchiveLosesNothing /\ ExtractedFirst /\ BusyIsSpared /\ NoOrphans
<1>1. RetentionInv /\ RetentionNext => Careful
  <2> SUFFICES ASSUME RetentionInv, RetentionNext
               PROVE  Careful
    BY Zenon
  <2>1. CASE DeleteWorker \/ Remove \/ ArchiveWrites
    BY <2>1, WorkerGoesWhole, RemovalIsWhole, ArchiveIsWhole, Zenon
  <2>2. CASE ~DeleteWorker /\ ~Remove /\ ~ArchiveWrites
    <3>1. \A s \in All : ~Cleared(s) /\ (Exists(s) => Exists(s)')
      BY <2>2, OnlyTheseClear, Zenon
    <3>2. Tops \subseteq All
      BY Zenon DEF All
    <3>3. NoRow.status = "none"
      BY Zenon DEF NoRow
    <3> QED
      BY <3>1, <3>2, <3>3, Zenon
         DEF ArchiveLosesNothing, ExtractedFirst, BusyIsSpared, NoOrphans, Cleared, Exists
  <2> QED
    BY <2>1, <2>2, Zenon
<1>2. RetentionInv /\ RetentionInv' /\ [RetentionNext]_retentionVars
          => [RowsConsistent' /\ Careful]_retentionVars
  BY <1>1, Zenon DEF RetentionInv
<1> QED
  BY <1>2, RetentionSound, PTL
     DEF RetentionSpec, RetentionSteps
=============================================================================
