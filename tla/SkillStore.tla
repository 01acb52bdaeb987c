----------------------------- MODULE SkillStore -----------------------------
(***************************************************************************)
(* The files of one skill, and the SkillStore objects of several agents    *)
(* and processes that look it up, read it and change it                    *)
(* (src/lib/skills.py, src/lib/knowledge_tools.py).                        *)
(*                                                                         *)
(* A caller is one SkillStore object with the thread it is used from.      *)
(* Looking a skill up and reading it takes no lock; changes are made under *)
(* the file lock skills.lock, which all processes share.  A store of a     *)
(* background review may change only what it has been shown and what an    *)
(* agent has made.  The file tools of an agent (write_file, edit) reach    *)
(* the same files and know nothing of the lock.                            *)
(*                                                                         *)
(* Two digests of a file agree if and only if it has not been changed in   *)
(* between, and so do two signatures of the trees (the times of the        *)
(* directories and the digests of all SKILL.md files).  So a change makes  *)
(* every digest of the file and every signature taken before it worthless, *)
(* and the model forgets them at that moment.  The generation number of    *)
(* the cache is left out: without it the cache answers more often than in  *)
(* the code, and never less.                                               *)
(***************************************************************************)
EXTENDS Naturals, FiniteSets

CONSTANTS
    Foreground,     \* stores of agents that act for a user
    Background      \* stores of background reviews

ASSUME SkillAssumption ==
    /\ Foreground \cap Background = {}
    /\ "none" \notin Foreground \cup Background

VARIABLES
    disk,       \* disk[root][file]: what the text of a file says, "none" if absent
    holder,     \* the caller that holds skills.lock, or "none"
    pc,         \* where each caller's thread stands
    look,       \* what a scan under way has seen, and if its signature still holds
    cache,      \* SkillStore._cache
    shown,      \* SkillStore._read_paths: project files shown as they are now
    op,         \* the skill_manage call under way; op[c].turned is history: a file
                \* tool put a SKILL.md between the two lookups under the lock
    cancelled,  \* SkillStore.cancel_event
    raced       \* history: project files put by a file tool during the write
                \* that is under way

storeVars == <<disk, holder, pc, look, cache, shown, op, cancelled, raced>>

Callers == Foreground \cup Background
Roots   == {"project", "user"}
Files   == {"SKILL.md", "support"}
Actions == {"create", "edit", "patch", "delete", "write_file", "remove_file"}

\* What a SKILL.md says of its owner; an "off" skill is not enabled.
Owners      == {"agent", "human", "off"}
TextsOf(f)  == IF f = "SKILL.md" THEN Owners ELSE {"text"}

\* The trees as a scan sees them: the owner of the skill of each root.
Seen    == [Roots -> {"agent", "human", "none"}]
Look    == [valid : BOOLEAN, seen : Seen]
NoLook  == [valid |-> FALSE, seen |-> [r \in Roots |-> "none"]]
Op      == [act : Actions \cup {"none"}, files : SUBSET Files, root : Roots,
            approved : BOOLEAN, turned : BOOLEAN]
NoOp    == [act |-> "none", files |-> {}, root |-> "project",
            approved |-> FALSE, turned |-> FALSE]

SkTypeOK ==
    /\ disk \in [Roots -> [Files -> Owners \cup {"text", "none"}]]
    /\ holder \in Callers \cup {"none"}
    /\ pc \in [Callers -> {"idle", "scan", "wait", "handler", "write"}]
    /\ look \in [Callers -> Look]
    /\ cache \in [Callers -> Look]
    /\ shown \in [Callers -> SUBSET Files]
    /\ op \in [Callers -> Op]
    /\ cancelled \in [Callers -> BOOLEAN]
    /\ raced \in SUBSET Files

SkInit ==
    /\ disk \in [Roots -> [Files -> Owners \cup {"text", "none"}]]
    /\ \A r \in Roots, f \in Files : disk[r][f] \in TextsOf(f) \cup {"none"}
    /\ holder = "none"
    /\ pc = [c \in Callers |-> "idle"]
    /\ look = [c \in Callers |-> NoLook]
    /\ cache = [c \in Callers |-> NoLook]
    /\ shown = [c \in Callers |-> {}]
    /\ op = [c \in Callers |-> NoOp]
    /\ cancelled = [c \in Callers |-> FALSE]
    /\ raced = {}

-----------------------------------------------------------------------------
(* Looking a skill up.                                                     *)

Exists(r, f) == disk[r][f] # "none"

\* _scan_root of one root, with _parse_skill_file: a skill that is not
\* enabled is no skill.
Scan(r) == IF disk[r]["SKILL.md"] \in {"agent", "human"}
           THEN disk[r]["SKILL.md"]
           ELSE "none"

Tree == [r \in Roots |-> Scan(r)]

\* _resolve: a skill of the project hides the user's.
Selected(seen) == CASE seen["project"] # "none" -> "project"
                    [] seen["project"] = "none" /\ seen["user"] # "none" -> "user"
                    [] OTHER -> "none"

\* _discover begins, unless the cache answers: the signature of the trees is
\* taken, then the user's root is scanned.
Begin(c) ==
    /\ pc[c] = "idle"
    /\ pc' = [pc EXCEPT ![c] = "scan"]
    /\ look' = [look EXCEPT ![c] = [valid |-> TRUE,
                  seen |-> [r \in Roots |-> IF r = "user" THEN Scan(r) ELSE "none"]]]
    /\ UNCHANGED <<disk, holder, cache, shown, op, cancelled, raced>>

\* A lookup ends: the cache was made for the present signature (and has not
\* expired), or the project's root is scanned last.
LookedUp(c) == \/ pc[c] = "idle" /\ cache[c].valid
               \/ pc[c] = "scan"

SeenBy(c) == IF pc[c] = "idle" THEN cache[c].seen
             ELSE [look[c].seen EXCEPT !["project"] = Scan("project")]

\* What a scan has seen is kept under the signature taken before it.
\* Mutant: the signature is taken after the scan.
SignatureTakenLate(c) == TRUE

SignatureHolds(c) == look[c].valid

EndLookup(c) ==
    /\ LookedUp(c)
    /\ cache' = IF pc[c] = "scan" /\ SignatureHolds(c)
                THEN [cache EXCEPT ![c] = [valid |-> TRUE, seen |-> SeenBy(c)]]
                ELSE cache
    /\ look' = [look EXCEPT ![c] = NoLook]

\* view: reads the file of the skill that was found; a review remembers
\* what it was shown (kept here for the files it may change at all).
View(c, f) ==
    /\ EndLookup(c)
    /\ shown' = IF /\ c \in Background
                   /\ Selected(SeenBy(c)) = "project" /\ Exists("project", f)
                THEN [shown EXCEPT ![c] = @ \cup {f}]
                ELSE shown
    /\ pc' = [pc EXCEPT ![c] = "idle"]
    /\ UNCHANGED <<disk, holder, op, cancelled, raced>>

-----------------------------------------------------------------------------
(* Changing a skill: skill_manage, then SkillStore.manage.                 *)

\* The files an action may be about.
Targets(act) == CASE act \in {"create", "edit"} -> {{"SKILL.md"}}
                  [] act = "patch" -> {{"SKILL.md"}, {"support"}}
                  [] act = "delete" -> {Files}
                  [] act \in {"write_file", "remove_file"} -> {{"support"}}

\* The tool asks the user's permission if it has found a skill of the user
\* (granted), and calls manage.
Ask(c, act, fs, granted) ==
    /\ EndLookup(c)
    /\ fs \in Targets(act)
    /\ LET needed == /\ act # "create" /\ c \in Foreground
                     /\ Selected(SeenBy(c)) = "user"
       IN IF needed /\ ~granted
          THEN /\ pc' = [pc EXCEPT ![c] = "idle"]
               /\ UNCHANGED op
          ELSE /\ pc' = [pc EXCEPT ![c] = "wait"]
               /\ op' = [op EXCEPT ![c] = [act |-> act, files |-> fs,
                                           root |-> "project",
                                           approved |-> needed,
                                           turned |-> FALSE]]
    /\ UNCHANGED <<disk, holder, shown, cancelled, raced>>

\* The caller's call ends; it gives the lock back if it has it.
Leave(c) ==
    /\ pc' = [pc EXCEPT ![c] = "idle"]
    /\ op' = [op EXCEPT ![c] = NoOp]
    /\ holder' = IF holder = c THEN "none" ELSE holder
    /\ raced' = IF holder = c THEN {} ELSE raced

\* The lock is not to be had within its time, or the review is cancelled.
GiveUp(c) ==
    /\ pc[c] = "wait"
    /\ holder # "none" \/ cancelled[c]
    /\ Leave(c)
    /\ UNCHANGED <<disk, look, cache, shown, cancelled>>

\* Mutants: a check of _background_write_error is left out.
MayUnseen(c, r, fs)  == c \in Background => r = "project" /\ Scan("project") = "agent"
MayAnyones(c, r, fs) ==
    c \in Background => \A f \in fs : Exists("project", f) => f \in shown[c]

\* _background_write_error: only an agent's skill of the project, and only
\* files that the review has been shown as they are now.
BackgroundMay(c, r, fs) ==
    c \in Background =>
        /\ r = "project"
        /\ Scan("project") = "agent"
        /\ \A f \in fs : Exists("project", f) => f \in shown[c]

\* What the six handlers ask of the skill r that is there under the lock.
HandlerMay(c, r, act, fs) ==
    IF act = "create"
    THEN r = "none" /\ \A f \in Files : ~Exists("project", f)
    ELSE /\ r # "none"
         /\ act \in {"patch", "remove_file"} => \A f \in fs : Exists(r, f)
         /\ BackgroundMay(c, r, fs)

\* Mutant: manage trusts the look the tool has had.
ApprovedBefore(c, r) == TRUE

\* The second look at the permission, under the lock.
StillApproved(c, r) ==
    op[c].act # "create" /\ r = "user" => op[c].approved

\* Where a call stands once manage has the lock.
InsideLock(c) == pc[c] \in {"handler", "write"}

\* A new skill is made below the project's root.
WriteRoot(r) == IF r = "none" THEN "project" ELSE r

\* Mutant: cancel_event is looked at before the lock is waited for only.
MayStartAlways(c) == TRUE
MayStart(c) == ~cancelled[c]

\* manage gets the lock.  It looks at cancel_event once more, forgets the
\* cache, and asks the permission of the skill that is there now.
Admit(c) ==
    /\ pc[c] = "wait"
    /\ MayStart(c)
    /\ holder = "none"
    /\ IF StillApproved(c, Selected(Tree))
       THEN /\ holder' = c
            /\ pc' = [pc EXCEPT ![c] = "handler"]
            /\ UNCHANGED <<op, raced>>
       ELSE Leave(c)
    /\ cache' = [cache EXCEPT ![c] = [valid |-> TRUE, seen |-> Tree]]
    /\ UNCHANGED <<disk, look, shown, cancelled>>

\* The handler looks the skill up once more, and makes its own checks.
Handle(c) ==
    /\ pc[c] = "handler"
    /\ LET r == Selected(Tree) IN
       IF HandlerMay(c, r, op[c].act, op[c].files)
       THEN /\ pc' = [pc EXCEPT ![c] = "write"]
            /\ op' = [op EXCEPT ![c].root = WriteRoot(r)]
            /\ UNCHANGED <<holder, raced>>
       ELSE Leave(c)
    /\ cache' = [cache EXCEPT ![c] = [valid |-> TRUE, seen |-> Tree]]
    /\ UNCHANGED <<disk, look, shown, cancelled>>

\* The files in fs of root r get the texts new: signatures taken before, and
\* what was shown of these files, count no more.
Change(r, fs, new) ==
    /\ disk' = [disk EXCEPT ![r] = [f \in Files |->
                                      IF f \in fs THEN new[f] ELSE disk[r][f]]]
    /\ cache' = [c \in Callers |-> NoLook]
    /\ look' = [c \in Callers |-> [look[c] EXCEPT !.valid = FALSE]]
    /\ shown' = IF r = "project" THEN [c \in Callers |-> shown[c] \ fs] ELSE shown

\* What the handler leaves: nothing, or a new text; a SKILL.md written by a
\* review is stamped as an agent's, but may say that it is not enabled.
NewTexts(c, text) ==
    [f \in Files |->
        CASE op[c].act \in {"delete", "remove_file"} -> "none"
          [] op[c].act \notin {"delete", "remove_file"} /\ f = "support" -> "text"
          [] OTHER -> IF c \in Background /\ text # "off" THEN "agent" ELSE text]

Write(c, text) ==
    /\ pc[c] = "write"
    /\ Change(op[c].root, op[c].files, NewTexts(c, text))
    /\ Leave(c)
    /\ UNCHANGED cancelled

\* The file system refuses: nothing is written, or some of a directory is
\* removed and the rest stays.
WriteFails(c) ==
    /\ pc[c] = "write"
    /\ Leave(c)
    /\ UNCHANGED <<disk, look, cache, shown, cancelled>>

DeleteFailsHalfway(c, gone) ==
    /\ pc[c] = "write"
    /\ op[c].act = "delete"
    /\ Exists(op[c].root, gone)
    /\ Change(op[c].root, {gone}, [f \in Files |-> "none"])
    /\ Leave(c)
    /\ UNCHANGED cancelled

-----------------------------------------------------------------------------
(* What comes from outside the store.                                      *)

\* write_file and edit, tools of an agent, write to any path without a lock.
FileTool(r, f, text) ==
    /\ text \in TextsOf(f)
    /\ Change(r, {f}, [g \in Files |-> text])
    /\ raced' = IF r = "project" /\ \E c \in Callers : pc[c] = "write"
                THEN raced \cup {f}
                ELSE raced
    /\ op' = [c \in Callers |->
                IF pc[c] = "handler" /\ f = "SKILL.md"
                THEN [op[c] EXCEPT !.turned = TRUE]
                ELSE op[c]]
    /\ UNCHANGED <<holder, pc, cancelled>>

\* A review is over, or cut off: its cancel_event is set.  A thread inside
\* manage goes on; a lookup that nobody waits for any more ends.
Cancel(c) ==
    /\ cancelled' = [cancelled EXCEPT ![c] = TRUE]
    /\ IF pc[c] = "scan"
       THEN /\ pc' = [pc EXCEPT ![c] = "idle"]
            /\ look' = [look EXCEPT ![c] = NoLook]
       ELSE UNCHANGED <<pc, look>>
    /\ UNCHANGED <<disk, holder, cache, shown, op, raced>>

\* A review gets a store of its own, which has shown nothing.
NewStore(c) ==
    /\ pc[c] = "idle"
    /\ shown' = [shown EXCEPT ![c] = {}]
    /\ cache' = [cache EXCEPT ![c] = NoLook]
    /\ cancelled' = [cancelled EXCEPT ![c] = FALSE]
    /\ UNCHANGED <<disk, holder, pc, look, op, raced>>

-----------------------------------------------------------------------------
\* The steps of a tool call after its first.
Continue(c) ==
    \/ \E f \in Files : View(c, f)
    \/ \E act \in Actions, fs \in SUBSET Files, granted \in BOOLEAN :
           Ask(c, act, fs, granted)
    \/ GiveUp(c)
    \/ Admit(c)
    \/ Handle(c)
    \/ \E text \in Owners : Write(c, text)
    \/ WriteFails(c)
    \/ \E f \in Files : DeleteFailsHalfway(c, f)

Outside == \E r \in Roots, f \in Files, text \in Owners \cup {"text"} :
               FileTool(r, f, text)

SkNext ==
    \/ \E c \in Callers : Begin(c) \/ Continue(c)
    \/ \E c \in Background : Cancel(c) \/ NewStore(c)
    \/ Outside

SkSpec == SkInit /\ [][SkNext]_storeVars

-----------------------------------------------------------------------------
(* Properties.                                                             *)

\* A lookup that the cache answers finds what is on disk: a change that came
\* between the signature and the scan, or in the middle of the scan, makes the
\* entry useless and not wrong (_discover, _directory_signature).
CacheMatchesDisk ==
    \A c \in Callers : cache[c].valid => cache[c].seen = Tree

\* When a review replaces or removes a text it has been shown that very text,
\* whatever other agents and processes did since it read the skill; the one
\* exception is a text that a file tool, which takes no lock, has put there
\* between the check of the digest and the write (_background_write_error).
NothingUnseenIsLost ==
    \A c \in Background : pc[c] = "write" =>
        \A f \in op[c].files : Exists("project", f) => f \in shown[c] \cup raced

\* A review changes nothing below the user's root and no skill that a human
\* has made or taken over, by whatever route the skill became what it is.
BackgroundKeepsToAgentSkills ==
    [][\A c \in Background :
         pc[c] = "write" /\ pc'[c] = "idle" =>
            /\ disk'["user"] = disk["user"]
            /\ \/ disk' = disk
               \/ disk["project"]["SKILL.md"] \in {"agent", "none"}
               \/ "SKILL.md" \in raced]_storeVars

\* The store changes the user's own skill only in a call for which the user
\* was asked; in particular when the skill found before the permission was
\* asked is not the one that is there under the lock.  The one exception: the
\* handler looks the skill up once more after the check, and a file tool, which
\* takes no lock, has put a SKILL.md in between (manage, _resolve).
UserSkillNeedsPermission ==
    [][\A c \in Callers :
         pc[c] = "write" /\ pc'[c] = "idle" /\ disk'["user"] # disk["user"] =>
            c \in Foreground /\ (op[c].approved \/ op[c].turned)]_storeVars
=============================================================================
