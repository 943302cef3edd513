------------------------------- MODULE Files -------------------------------
(* The file tools of one session: read, edit, write, replace, ast_edit and  *)
(* exec, over files that a person, a command or another session's tools may *)
(* change meanwhile.  What the session remembers of a file is a snapshot:   *)
(* the version it last saw and the anchors of the last few versions.        *)
(*                                                                          *)
(* A step is what a tool call does while it holds the lock of one file: the *)
(* tools of other sessions take the same lock, so their changes fall        *)
(* between two steps.  So do, by assumption, those of a person or a command *)
(* that takes no lock.                                                      *)
EXTENDS Hashline

CONSTANTS
    Paths, Lines,
    anchorHistoryVersions,   \* versions of a file whose anchors are kept
    Scenarios   \* [disk, hints, offsets, inserts, hunks, reads, edits, writes,
                \*  replaces, asts, faults, outside]: files to start with, what hunks are made of,
                \* how many a patch has, and how often each thing happens

VARIABLES
    disk,      \* the files; an absent file is <<>>
    snap,      \* SessionState.snapshots
    noop,      \* SessionState.noop
    call,      \* the tool call in progress
    last,      \* how the last edit ended
    made,      \* how often each thing may still happen, and of what
    shown,     \* history: contents the session was shown or wrote, by file
    unseen,    \* history: files changed from outside since the call last read them
    touched,   \* history: files changed from outside since the call began
    slipped,   \* history: files whose refreshed snapshot holds such a change
    recent     \* history: the last three edits that were not refused as changed: the
               \* patch, for one that changes nothing

vars == <<disk, snap, noop, call, last, made, shown, unseen, touched, slipped, recent>>

NoSnapshot == [known |-> FALSE, history |-> <<>>, exec |-> FALSE]
Idle == [at |-> "idle"]
NoStreak == [sig |-> <<>>, count |-> 0]
NoEdit == [ok |-> FALSE, why |-> "none"]

Init ==
    /\ \E sc \in Scenarios : made = sc /\ disk = sc.disk
    /\ snap = [f \in Paths |-> NoSnapshot]
    /\ noop = NoStreak
    /\ call = Idle /\ last = NoEdit
    /\ shown = [f \in Paths |-> {}]
    /\ unseen = {} /\ touched = {} /\ slipped = {}
    /\ recent = <<>>

Once(what) == made[what] > 0 /\ made' = [made EXCEPT ![what] = @ - 1]

(* Someone else changes a file.                                             *)
Small == UNION {[1..n -> Lines] : n \in 1..2}
Outside(f) ==
    /\ Once("outside")
    /\ \E c \in Small \ {disk[f]} : disk' = [disk EXCEPT ![f] = c]
    /\ unseen' = unseen \cup {f} /\ touched' = touched \cup {f}
    /\ UNCHANGED <<snap, noop, call, last, shown, slipped, recent>>

-----------------------------------------------------------------------------
(* Snapshots                                                                *)

LastVersions(history) ==
    SubSeq(history, Len(history) - anchorHistoryVersions + 1, Len(history))

appendAnchorVersion(history, lines, byEdit) ==
    LET all == Append(history, [lines |-> lines, byEdit |-> byEdit])
    IN  IF Len(all) > anchorHistoryVersions THEN LastVersions(all) ELSE all

Remember(f, lines, byEdit) ==
    snap' = [snap EXCEPT ![f] = [known |-> TRUE, exec |-> FALSE,
                                 history |-> appendAnchorVersion(snap[f].history, lines, byEdit)]]

SeenVersion(f) == Last(snap[f].history).lines

Show(f, lines) == shown' = [shown EXCEPT ![f] = @ \cup {lines}]

-----------------------------------------------------------------------------
(* read                                                                     *)
Read(f) ==
    /\ call = Idle /\ Once("reads") /\ disk[f] # <<>>
    /\ Remember(f, disk[f], FALSE)
    /\ Show(f, disk[f])
    /\ slipped' = slipped \ {f}
    /\ UNCHANGED <<disk, noop, call, last, unseen, touched, recent>>

-----------------------------------------------------------------------------
(* edit                                                                     *)

(* lookupRemembered: the oldest version that handed the anchor out; one     *)
(* that named several lines there is refused.                               *)
Remembered(history, anchor) ==
    LET n == SelectInSeq(history, LAMBDA v : Occurrences(v.lines, anchor) # {})
        occ == Occurrences(history[n].lines, anchor)
    IN  IF n = 0 THEN [ok |-> FALSE]
        ELSE [ok |-> Cardinality(occ) = 1, version |-> n, line |-> Min(occ)]

(* translateStaleAnchors: an anchor that is not in the file is replaced by  *)
(* the line of the file it named in an earlier version, if that is still    *)
(* there, when the last version remembered came from the session's edit.    *)
TranslatesNow(f) == snap[f].history # <<>> /\ Last(snap[f].history).byEdit

TranslatedTo(f, current, h) ==
    LET r == Remembered(snap[f].history, h.anchor)
        old == snap[f].history[r.version].lines
        at == retainedLine(old, current, r.line)
    IN  IF /\ current # <<>> /\ TranslatesNow(f)
           /\ Occurrences(current, h.anchor) = {} /\ r.ok
        THEN IF at # 0 THEN IF current[at] = old[r.line] THEN at ELSE 0 ELSE 0
        ELSE 0

Translate(f, current, h) ==
    LET at == TranslatedTo(f, current, h)
    IN  IF at = 0 THEN h ELSE [h EXCEPT !.anchor = AnchorAt(current, at), !.line = at]

(* Anchors come from what the session was shown; a new file has its own.    *)
GivenAnchors(f) ==
    (IF disk[f] = <<>> THEN {NoLine} ELSE {}) \cup
    {AnchorAt(c, i) : <<c, i>> \in {ci \in shown[f] \X (1..3) : ci[2] \in DOMAIN ci[1]}}

Hunks(f) == [anchor: GivenAnchors(f), line: made.hints, offset: made.offsets,
             delete: {0, 1}, insert: made.inserts]

Patches(f) == UNION {[1..n -> Hunks(f)] : n \in 1..made.hunks}

Streak(sig) == IF noop.sig = sig THEN noop.count ELSE 0
LastThree(q) == IF Len(q) > 3 THEN Tail(q) ELSE q

FileChanged(f, current) == snap[f].known /\ SeenVersion(f) # current

(* The file is read and, if the patch applies, written; the write may fail. *)
(* An edit of a file that changed since the session saw it is refused when  *)
(* the patch does not apply, and only noted when it does.                   *)
Edit(f, asked, failed) ==
    LET current == disk[f]
        pending == current # <<>> /\ (~snap[f].known \/ FileChanged(f, current))
        patch == [n \in DOMAIN asked |-> Translate(f, current, asked[n])]
        result == IF failed THEN Error("io") ELSE ApplyLines(current, patch)
        sig == <<f, asked>>
        end == [ok |-> result.ok, file |-> f, patch |-> asked, applied |-> patch,
                before |-> current, noted |-> pending,
                known |-> current = <<>> \/ current \in shown[f] \/ f \in slipped]
        Recall(why) == recent' = LastThree(Append(recent, IF why = "noop" THEN sig ELSE <<>>))
    IN  /\ call = Idle
        /\ failed => ApplyLines(current, patch).ok
        /\ unseen' = unseen \ {f}
        /\ IF result.ok
           THEN /\ disk' = [disk EXCEPT ![f] = result.lines]
                /\ Remember(f, result.lines, TRUE)
                /\ Show(f, result.lines)
                /\ last' = end @@ [result |-> result]
                /\ noop' = NoStreak
                /\ slipped' = slipped \ {f}
                /\ Recall("applied")
           ELSE /\ UNCHANGED <<disk, snap, shown, slipped>>
                /\ last' = IF failed THEN NoEdit ELSE end @@ [why |-> IF pending THEN "changed" ELSE result.why,
                                   loop |-> ~pending /\ result.why = "noop" /\ Streak(sig) + 1 >= 3]
                /\ noop' = IF pending THEN IF noop.sig = sig THEN noop ELSE NoStreak
                           ELSE IF result.why = "noop" THEN [sig |-> sig, count |-> Streak(sig) + 1]
                           ELSE NoStreak
                /\ IF pending THEN UNCHANGED recent ELSE Recall(result.why)
        /\ UNCHANGED <<call, touched>>

-----------------------------------------------------------------------------
(* write replaces the whole file, or appends to it, and takes a snapshot of *)
(* what it wrote, all under the lock.                                       *)
Write(f) ==
    /\ call = Idle /\ Once("writes")
    /\ \E x \in Lines : \E new \in {<<x>>, Append(disk[f], x)} :
          /\ disk' = [disk EXCEPT ![f] = new]
          /\ Remember(f, new, TRUE)
          /\ Show(f, new)
    /\ unseen' = unseen \ {f} /\ slipped' = slipped \ {f}
    /\ UNCHANGED <<noop, call, last, touched, recent>>

(* replace and ast_edit read each file again for its snapshot once they     *)
(* have let go of its lock (refreshSnapshot).                               *)
RefreshSnapshot ==
    LET f == Head(call.todo)
    IN  /\ call.at = "refresh"
        /\ Remember(f, disk[f], TRUE)
        /\ slipped' = IF f \in unseen THEN slipped \cup {f} ELSE slipped \ {f}
        /\ call' = IF Len(call.todo) > 1 THEN [call EXCEPT !.todo = Tail(@)]
                   ELSE IF call.ast # <<>> THEN call.ast[1] ELSE Idle
        /\ UNCHANGED <<disk, noop, last, made, shown, unseen, touched, recent>>

-----------------------------------------------------------------------------
(* replace plans every existing file, writes them one by one, each only if it is as  *)
(* planned, and on a failure puts the ones it wrote back.                   *)
Substitute(lines, old, new) == [i \in DOMAIN lines |-> IF lines[i] = old THEN new ELSE lines[i]]
Matches(lines, old) == Cardinality({i \in DOMAIN lines : lines[i] = old})

expandEditPaths == SetToSeq({f \in Paths : disk[f] # <<>>})

ReplaceBegins ==
    /\ call = Idle /\ Once("replaces")
    /\ \E old, new \in Lines, all, explicit \in BOOLEAN :
          /\ old # new
          /\ call' = [at |-> "plan", old |-> old, new |-> new, all |-> all, explicit |-> explicit,
                      todo |-> expandEditPaths, plans |-> <<>>, refused |-> FALSE]
    /\ touched' = {}
    /\ UNCHANGED <<disk, snap, noop, last, shown, unseen, slipped, recent>>

(* A file without a match is skipped, unless it was named; one with         *)
(* several, unless all were asked for, refuses the call.                    *)
ReplacePlans ==
    LET f == Head(call.todo)
        n == Matches(disk[f], call.old)
        plan == [file |-> f, before |-> disk[f], after |-> Substitute(disk[f], call.old, call.new)]
        rest == [call EXCEPT !.todo = Tail(@)]
    IN  /\ call.at = "plan" /\ call.todo # <<>>
        /\ call' = IF n = 0 /\ ~call.explicit THEN rest
                   ELSE IF n = 0 \/ (n > 1 /\ ~call.all) THEN [rest EXCEPT !.refused = TRUE]
                   ELSE [rest EXCEPT !.plans = Append(@, plan)]
        /\ unseen' = unseen \ {f}
        /\ UNCHANGED <<disk, snap, noop, last, made, shown, touched, slipped, recent>>

ReplacePlanned ==
    /\ call.at = "plan" /\ call.todo = <<>>
    /\ call' = IF call.refused \/ call.plans = <<>> THEN Idle
               ELSE [at |-> "replace", plans |-> call.plans, done |-> 0]
    /\ UNCHANGED <<disk, snap, noop, last, made, shown, unseen, touched, slipped, recent>>

\* Mutant: the file is written without looking.
NotChecked(plan) == TRUE
AsPlanned(plan) == disk[plan.file] = plan.before

ReplaceWrites ==
    LET plan == call.plans[call.done + 1]
        files == [n \in DOMAIN call.plans |-> call.plans[n].file]
    IN  /\ call.at = "replace"
        /\ AsPlanned(plan)
        /\ disk' = [disk EXCEPT ![plan.file] = plan.after]
        /\ Show(plan.file, plan.after)
        /\ unseen' = unseen \ {plan.file}
        /\ call' = IF call.done + 1 = Len(call.plans) THEN [at |-> "refresh", todo |-> files, plans |-> call.plans, ast |-> <<>>]
                   ELSE [call EXCEPT !.done = @ + 1]
        /\ UNCHANGED <<snap, noop, last, made, touched, slipped, recent>>

(* The file is not as planned, or cannot be read or written.                *)
ReplaceFails ==
    /\ call.at = "replace"
    /\ call' = [at |-> "rollback", plans |-> call.plans, done |-> call.done, back |-> {}]
    /\ UNCHANGED <<disk, snap, noop, last, made, shown, unseen, touched, slipped, recent>>

Rollback ==
    LET todo == (1..call.done) \ call.back
        n == Min(todo)
    IN  /\ call.at = "rollback"
        /\ IF todo = {} THEN call' = Idle /\ UNCHANGED disk
           ELSE /\ disk' = [disk EXCEPT ![call.plans[n].file] = call.plans[n].before]
                /\ call' = [call EXCEPT !.back = @ \cup {n}]
        /\ UNCHANGED <<snap, noop, last, made, shown, unseen, touched, slipped, recent>>

-----------------------------------------------------------------------------
(* ast_edit goes file by file: the matches are found in one reading of the  *)
(* file, and applied if a second one, right before the write, is the same.  *)
(* Each file keeps what was written when a later one fails.                 *)
AstBegins ==
    /\ call = Idle /\ Once("asts")
    /\ \E old, new \in Lines :
          /\ old # new
          /\ call' = [at |-> "ast", old |-> old, new |-> new, todo |-> expandEditPaths, read |-> <<>>]
    /\ touched' = {}
    /\ UNCHANGED <<disk, snap, noop, last, shown, unseen, slipped, recent>>

AstReads ==
    /\ call.at = "ast" /\ call.todo # <<>> /\ call.read = <<>>
    /\ call' = IF Matches(disk[Head(call.todo)], call.old) = 0 THEN [call EXCEPT !.todo = Tail(@)]
               ELSE [call EXCEPT !.read = <<disk[Head(call.todo)]>>]
    /\ unseen' = unseen \ {Head(call.todo)}
    /\ UNCHANGED <<disk, snap, noop, last, made, shown, touched, slipped, recent>>

AstWrites ==
    LET f == Head(call.todo)
        plan == [file |-> f, before |-> call.read[1], after |-> Substitute(call.read[1], call.old, call.new)]
    IN  /\ call.at = "ast" /\ call.todo # <<>> /\ call.read # <<>>
        /\ AsPlanned(plan)
        /\ disk' = [disk EXCEPT ![f] = plan.after]
        /\ Show(f, plan.after)
        /\ unseen' = unseen \ {f}
        /\ call' = [at |-> "refresh", todo |-> <<f>>, plans |-> <<plan>>,
                    ast |-> <<[call EXCEPT !.todo = Tail(@), !.read = <<>>]>>]
        /\ UNCHANGED <<snap, noop, last, made, touched, slipped, recent>>

(* All files are done, or ast-grep fails, matches overlap, or the file is   *)
(* not as it was read.                                                      *)
AstEnds ==
    /\ call.at = "ast"
    /\ call' = Idle
    /\ UNCHANGED <<disk, snap, noop, last, made, shown, unseen, touched, slipped, recent>>

-----------------------------------------------------------------------------
(* exec: the command changed what it changed; markExecChanged flags the     *)
(* files that are not as the session saw them.                              *)
Exec ==
    /\ call = Idle
    /\ \E f \in Paths : snap[f].known /\ ~snap[f].exec /\ SeenVersion(f) # disk[f]
    /\ snap' = [f \in Paths |-> IF snap[f].known THEN [snap[f] EXCEPT !.exec = @ \/ SeenVersion(f) # disk[f]]
                                ELSE snap[f]]
    /\ UNCHANGED <<disk, noop, call, last, made, shown, unseen, touched, slipped, recent>>

-----------------------------------------------------------------------------
Next ==
    \/ \E f \in Paths : Outside(f) \/ Read(f) \/ Write(f)
    \/ \E f \in Paths, failed \in BOOLEAN :
          /\ call = Idle /\ Once(IF failed THEN "faults" ELSE "edits")
          /\ \E p \in Patches(f) : Edit(f, p, failed)
    \/ RefreshSnapshot \/ AstBegins \/ AstReads \/ AstWrites \/ AstEnds
    \/ ReplaceBegins \/ ReplacePlans \/ ReplacePlanned \/ ReplaceWrites \/ ReplaceFails \/ Rollback
    \/ Exec

Spec == Init /\ [][Next]_vars

-----------------------------------------------------------------------------
(* Properties                                                               *)

TypeOK ==
    /\ \A f \in Paths :
          /\ disk[f] \in Seq(Lines)
          /\ snap[f].known <=> snap[f].history # <<>>
          /\ Len(snap[f].history) <= anchorHistoryVersions
          /\ snap[f].known /\ call = Idle /\ ~snap[f].exec =>
                SeenVersion(f) \in shown[f] \/ f \in slipped
    /\ noop.count \in Nat

(* A patch of several hunks yields what they say of the file it was applied *)
(* to, whatever order they came in: at each place the lines inserted there, *)
(* in the order of the patch, and then the old line unless a hunk deletes   *)
(* it.                                                                      *)
AsWritten(lines, hunks) ==
    LET at(n) == Locate(lines, hunks[n]).at
        inserts(i) == FlattenSeq([n \in DOMAIN hunks |-> IF at(n) = i THEN hunks[n].insert ELSE <<>>])
        deleted(i) == \E n \in DOMAIN hunks : i \in at(n)..(at(n) + hunks[n].delete - 1)
        kept(i) == IF i > Len(lines) \/ deleted(i) THEN <<>> ELSE <<lines[i]>>
    IN  FlattenSeq([i \in 1..(Len(lines) + 1) |-> inserts(i) \o kept(i)])

PatchAppliedAsWritten ==
    last.ok => last.result.lines = AsWritten(last.before, last.applied)

(* The regions an edit reports, from which it hands out fresh anchors, hold *)
(* exactly the lines each hunk inserted, wherever the other hunks moved it. *)
RegionsHoldInserts ==
    last.ok => LET loc == Located(last.before, last.applied)
               IN  \A n \in DOMAIN loc :
                      SubSeq(last.result.lines, last.result.affected[n].start + 1,
                             last.result.affected[n].end) = loc[n].h.insert

(* A hunk that deletes never guesses: the line it starts from is the only   *)
(* one with its anchor, the one at its line hint, or the only one near it.  *)
DeletesOnlyNamed ==
    last.ok => \A n \in DOMAIN last.applied :
        LET h == last.applied[n]
            occ == Occurrences(last.before, h.anchor)
            i == Locate(last.before, h).at - h.offset
        IN  h.delete > 0 => \/ occ = {i} \/ i = h.line
                            \/ {k \in occ : Distance(k, h.line) <= lineTolerance} = {i}

(* Translating anchors between versions keeps the text of each line and the *)
(* order of the lines, and keeps as many lines as any such mapping can.     *)
Retained(b, a) == [n \in {k \in DOMAIN b : retainedLine(b, a, k) # 0} |-> retainedLine(b, a, n)]
KeepsOrder(g, b, a) ==
    \A n \in DOMAIN g : g[n] \in DOMAIN a /\ b[n] = a[g[n]] /\ \A k \in DOMAIN g : n < k => g[n] < g[k]

TranslationIsAlignment ==
    \A f \in Paths : \A n \in DOMAIN snap[f].history : call = Idle =>
        LET b == snap[f].history[n].lines
            r == Retained(b, disk[f])
        IN  /\ KeepsOrder(r, b, disk[f])
            /\ \A D \in SUBSET DOMAIN b : Cardinality(D) > Cardinality(DOMAIN r) =>
                  ~\E g \in [D -> DOMAIN disk[f]] : KeepsOrder(g, b, disk[f])

(* An edit that applies without a note applies to a version of the file the *)
(* session was shown or wrote.  A change that slipped in between a write    *)
(* and the reading of its snapshot is the exception.                        *)
UnnotedEditKnowsFile == last.ok /\ ~last.noted => last.known

(* replace changes all of its files or none: when it gives up, each holds   *)
(* what it held before, and when it is done, what it should, except for     *)
(* files someone else changed during the call.                              *)
Holds(f, c) == disk[f] = c \/ f \in touched
ReplaceAllOrNone ==
    /\ call.at = "rollback" /\ call.back = 1..call.done =>
          \A n \in DOMAIN call.plans : Holds(call.plans[n].file, call.plans[n].before)
    /\ call.at = "refresh" =>
          \A n \in DOMAIN call.plans : Holds(call.plans[n].file, call.plans[n].after)

(* While they go forward, replace and ast_edit overwrite no change of       *)
(* another's that they have not read.                                       *)
ReplaceSparesOthers ==
    [][\A f \in Paths : call.at \in {"replace", "ast"} /\ disk'[f] # disk[f] /\ call' # call => f \notin unseen]_vars

(* E_NOOP_LOOP is reported exactly when the last three edits, not counting  *)
(* those refused because the file changed, were the same patch and changed  *)
(* nothing.                                                                 *)
NoopLoopIsALoop ==
    "loop" \in DOMAIN last /\ last.why # "changed" =>
        (last.loop <=> /\ Len(recent) = 3
                       /\ \A n \in 1..3 : recent[n] = <<last.file, last.patch>>)

(* What the edit tools did is what was asked for: patches went where their  *)
(* anchors are and nowhere else, anchors of earlier versions were carried   *)
(* over by the best alignment, edits of a changed file said so, and replace *)
(* changed all of its files or none.                                        *)
FilesInv ==
    /\ TypeOK
    /\ PatchAppliedAsWritten /\ RegionsHoldInserts /\ DeletesOnlyNamed /\ TranslationIsAlignment
    /\ UnnotedEditKnowsFile /\ ReplaceAllOrNone /\ NoopLoopIsALoop
=============================================================================
