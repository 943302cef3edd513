---------------------------- MODULE Instructions ----------------------------
(***************************************************************************)
(* Workspace instructions (internal/core/instructions.go and the tool loop *)
(* of Engine.run): the AGENTS.md files of the directories a call works in  *)
(* are disclosed with its result, skills are loaded on request, and an     *)
(* edit that follows a disclosure in the same response is held back so     *)
(* that the model reads before it writes.                                  *)
(*                                                                         *)
(* A directory is the sequence of its names, <<>> the root of the          *)
(* workspace; an instruction file is named by its directory.               *)
(***************************************************************************)
EXTENDS Naturals, Sequences, FiniteSets, SequencesExt

CONSTANTS Dirs,          \* directories, closed under Front
          Skills,        \* SKILL.md files
          Goal,          \* the directory the model wants to edit in
          Size,          \* bytes of each instruction file
          MaxBytes,      \* maxProgressiveInstructionBytes
          MaxResponses,  \* responses of the model with calls of any kind
          MaxRetries,    \* responses after them, which only retry the edit in Goal
          MaxCalls,      \* tool calls of a response
          MaxTroubles    \* restarts and files others write

VARIABLES disk,          \* per directory: "none", "ok" or "bad" (unreadable)
          shared,        \* skills whose name another one has
          loadedPaths, loadedBytes, loadedSkills,  \* instructionDiscovery
          known,         \* the process has a discovery for the session
          response,      \* number of the current response, 0 before the first
          calls,         \* calls of this response so far
          boundary,      \* instructionBoundaryHit
          told,          \* per file and skill: when it was last disclosed
          applied,       \* directories of this response's edits that ran
          achieved,      \* an edit in Goal ran
          troubles

discovery == <<loadedPaths, loadedBytes, loadedSkills, known>>
instrVars == <<disk, shared, discovery, response, calls, boundary, told, applied,
               achieved, troubles>>

Times == {"never", "earlier", "now"}  \* "now": in this response

InstrTypeOK ==
    /\ disk \in [Dirs -> {"none", "ok", "bad"}] /\ shared \subseteq Skills
    /\ loadedPaths \subseteq Dirs /\ loadedBytes \in 0 .. MaxBytes
    /\ loadedSkills \subseteq Skills
    /\ {known, boundary, achieved} \subseteq BOOLEAN
    /\ response \in 0 .. MaxResponses + MaxRetries /\ calls \in 0 .. MaxCalls
    /\ told \in [Dirs \cup Skills -> Times]
    /\ applied \subseteq Dirs
    /\ troubles \in 0 .. MaxTroubles

(* The root's own file, if any, can be read: a session does not start with *)
(* a root file it cannot read.                                             *)
InstrInit ==
    /\ disk \in [Dirs -> {"none", "ok", "bad"}] /\ disk[<<>>] # "bad"
    /\ Cardinality({d \in Dirs : disk[d] = "bad"}) <= 1
    /\ shared \in {{}, Skills}
    /\ loadedPaths = {} /\ loadedBytes = 0 /\ loadedSkills = {} /\ known = FALSE
    /\ response = 0 /\ calls = 0 /\ boundary = FALSE
    /\ told = [w \in Dirs \cup Skills |-> "never"]
    /\ applied = {} /\ achieved = FALSE /\ troubles = 0

-----------------------------------------------------------------------------
Tells(ws, time) == [w \in DOMAIN told |-> IF w \in ws THEN time ELSE told[w]]

(* load mounts a skill the task names when no other skill has the name. *)
Mounted(requested) == requested \ shared

(* instructionDiscovery and load: the root's instructions are mounted in   *)
(* the system prompt, with the skills the task names; the progressive      *)
(* budget starts at zero.                                                  *)
Discovers(requested) ==
    LET mounted == Mounted(requested)
        root == {d \in {<<>>} : disk[d] = "ok"}
    IN  /\ ~known
        /\ known' = TRUE
        /\ loadedPaths' = root /\ loadedBytes' = 0 /\ loadedSkills' = mounted
        /\ told' = Tells(root \cup mounted, "earlier")
        /\ UNCHANGED <<disk, shared, response, calls, boundary, applied, achieved, troubles>>

(* A response with tool calls arrives. *)
Responds ==
    /\ known /\ response < MaxResponses + MaxRetries
    /\ response >= MaxResponses => ~achieved
    /\ response > MaxResponses => calls > 0
    /\ response' = response + 1 /\ calls' = 0 /\ boundary' = FALSE
    /\ told' = Tells({w \in DOMAIN told : told[w] = "now"}, "earlier")
    /\ applied' = {}
    /\ UNCHANGED <<disk, shared, discovery, achieved, troubles>>

(* The directories whose instruction files govern directory d, root first. *)
Governing(d) == [i \in 1 .. Len(d) + 1 |-> SubSeq(d, 1, i - 1)]

(* Mutant: a disclosed file is not remembered. *)
ForgetLoaded(l, d) ==
    [l EXCEPT !.bytes = @ + Size[d], !.out = Append(@, d)]

(* A file read within the budget is loaded and disclosed. *)
Load(l, d) ==
    [l EXCEPT !.paths = @ \cup {d}, !.bytes = @ + Size[d], !.out = Append(@, d)]

Fits(l, d) == l.bytes + Size[d] <= MaxBytes

(* read: no file, one that is refused (too large, not text, reached by a   *)
(* link out of the workspace), or its content.                             *)
Read(d) == disk[d]

(* forPath: from the root down, files already loaded or missing are        *)
(* passed over, an unreadable one is reported each time, and the first     *)
(* that does not fit ends the walk.                                        *)
VisitDir(l, d) ==
    CASE l.full \/ d \in l.paths \/ Read(d) = "none" -> l
      [] Read(d) = "bad" -> [l EXCEPT !.out = Append(@, d)]
      [] ~Fits(l, d) -> [l EXCEPT !.full = TRUE]
      [] OTHER -> Load(l, d)

forPath(l, d) == FoldLeft(VisitDir, [l EXCEPT !.full = FALSE], Governing(d))

(* ForTool and ForSearchResults: the paths one after the other. *)
ForPaths(ds) ==
    FoldLeft(forPath, [paths |-> loadedPaths, bytes |-> loadedBytes, full |-> FALSE,
                       out |-> <<>>], ds)

(* Of what goes out with the result, files that were read tell something. *)
Discloses(l) ==
    /\ loadedPaths' = l.paths /\ loadedBytes' = l.bytes
    /\ told' = Tells({d \in ToSet(l.out) : disk[d] = "ok"}, "now")
    /\ UNCHANGED <<loadedSkills, known>>

MayCall == response \in 1 .. MaxResponses /\ known /\ calls < MaxCalls

(* After the call, what a search disclosed counts as well. *)
SearchBoundary(l) == boundary \/ l.out # <<>>

(* read, which is looked at before the call, and search, after it. *)
Reads(d) ==
    LET l == ForPaths(<<d>>)
    IN  /\ MayCall
        /\ calls' = calls + 1
        /\ Discloses(l)
        /\ boundary' = (boundary \/ l.out # <<>>)
        /\ UNCHANGED <<disk, shared, response, applied, achieved, troubles>>

Searches(ds) ==
    LET l == ForPaths(ds)
    IN  /\ MayCall
        /\ calls' = calls + 1
        /\ Discloses(l)
        /\ boundary' = SearchBoundary(l)
        /\ UNCHANGED <<disk, shared, response, applied, achieved, troubles>>

(* Mutant: the edit's own disclosure is not looked at before it runs. *)
BlockedByEarlier(l) == boundary

(* shouldBlockEditForInstructions, after the call's own instructions. *)
Blocked(l) == boundary \/ l.out # <<>>

(* edit, write, replace or ast_edit of files named one by one. *)
EditCall(ds) ==
    LET l == ForPaths(ds)
    IN  /\ calls' = calls + 1
        /\ Discloses(l)
        /\ boundary' = (boundary \/ l.out # <<>>)
        /\ applied' = IF Blocked(l) THEN applied
                      ELSE applied \cup ToSet(ds)
        /\ achieved' = (achieved \/ Goal \in applied')
        /\ UNCHANGED <<disk, shared, response, troubles>>

EditsIn(ds) == MayCall /\ EditCall(ds)

(* A response that retries the edit as it was told to. *)
Insists ==
    /\ known /\ response > MaxResponses /\ calls = 0
    /\ EditCall(<<Goal>>)

(* The skill tool: LoadSkill by a name that one skill has, or by path. *)
LoadSkill(s, byPath) ==
    /\ MayCall
    /\ byPath \/ s \notin shared
    /\ calls' = calls + 1
    /\ loadedSkills' = loadedSkills \cup {s}
    /\ boundary' = (boundary \/ s \notin loadedSkills)
    /\ told' = IF s \in loadedSkills THEN told ELSE Tells({s}, "now")
    /\ UNCHANGED <<disk, shared, loadedPaths, loadedBytes, known, response, applied,
                   achieved, troubles>>

(* A person, a command or an edit writes an instruction file. *)
Writes(d) ==
    /\ disk[d] = "none" /\ troubles < MaxTroubles
    /\ disk' = [disk EXCEPT ![d] = "ok"]
    /\ troubles' = troubles + 1
    /\ UNCHANGED <<shared, discovery, response, calls, boundary, told, applied, achieved>>

(* The process starts again: what was loaded is forgotten, the history     *)
(* stays.                                                                  *)
StartsAgain ==
    /\ known /\ troubles < MaxTroubles
    /\ known' = FALSE
    /\ loadedPaths' = {} /\ loadedBytes' = 0 /\ loadedSkills' = {}
    /\ calls' = MaxCalls /\ boundary' = FALSE
    /\ troubles' = troubles + 1
    /\ UNCHANGED <<disk, shared, response, told, applied, achieved>>

InstrNext ==
    \/ \E requested \in SUBSET Skills : Discovers(requested)
    \/ Responds
    \/ \E d \in Dirs : Reads(d) \/ EditsIn(<<d>>) \/ Writes(d)
    \/ \E d, e \in Dirs : Searches(<<d, e>>) \/ EditsIn(<<d, e>>)
    \/ \E s \in Skills, byPath \in BOOLEAN : LoadSkill(s, byPath)
    \/ Insists \/ StartsAgain

(* Sessions start and go on, and the model retries the edit that was held  *)
(* back in a response of its own.                                          *)
InstrFairness ==
    /\ WF_instrVars(\E requested \in SUBSET Skills : Discovers(requested))
    /\ WF_instrVars(Responds)
    /\ WF_instrVars(Insists)

InstrSpec == InstrInit /\ [][InstrNext]_instrVars /\ InstrFairness

-----------------------------------------------------------------------------
(* The budget has no room for a file that governs directory d. *)
NoRoom(d) ==
    \E i \in 1 .. Len(d) + 1 :
       LET g == SubSeq(d, 1, i - 1)
       IN  g \notin loadedPaths /\ disk[g] = "ok" /\ loadedBytes + Size[g] > MaxBytes

(* An edit runs only if the readable instruction files that govern its     *)
(* directory were disclosed in an earlier response, however the calls that *)
(* disclosed them, restarts and files written meanwhile interleave, as     *)
(* long as the budget has room for them.                                   *)
InstructionsFirst ==
    \A d \in applied' \ applied : \A i \in 1 .. Len(d) + 1 :
       LET g == SubSeq(d, 1, i - 1)
       IN  disk[g] = "ok" => told[g] = "earlier" \/ NoRoom(d)

(* No edit runs behind a disclosure of the same response: neither an       *)
(* instruction file nor a skill is acted over unread.                      *)
ReadBeforeWrite ==
    applied' \ applied # {} => \A w \in DOMAIN told : told'[w] # "now"

(* An edit that is held back and retried as it was told to runs in the     *)
(* end, unless a file that governs it cannot be read: that one is reported *)
(* anew, and holds the edit back, in every response.                       *)
RetriedEditRuns ==
    <>(achieved \/ \E i \in 1 .. Len(Goal) + 1 : disk[SubSeq(Goal, 1, i - 1)] = "bad")

(* What an edit never runs over: an instruction file that governs it and    *)
(* was not disclosed before, or one disclosed in the same response.         *)
EditsAreInformed == [][InstructionsFirst /\ ReadBeforeWrite]_instrVars
=============================================================================
