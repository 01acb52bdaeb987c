------------------------- MODULE SkillReviewProofs -------------------------
(* Proofs about SkillStore and SkillReview for any number of agents, of     *)
(* processes with their reviews, of conversations and of turns.             *)
EXTENDS SkillReview, SequenceTheorems, TLAPS

LEMMA SeenType == /\ \A r \in Roots : Scan(r) \in {"agent", "human", "none"}
                  /\ Tree \in Seen /\ NoLook \in Look
BY DEF Scan, Tree, Seen, NoLook, Look

LEMMA SelectedType == \A s : Selected(s) \in {"project", "user", "none"}
BY DEF Selected

LEMMA StoreTypeInit == SkInit => SkTypeOK
<1> SUFFICES ASSUME SkInit PROVE SkTypeOK
  OBVIOUS
<1>1. NoOp \in Op
  BY DEF NoOp, Op, Roots
<1> QED
  BY <1>1, SeenType DEF SkInit, SkTypeOK

(* Whoever ends a lookup keeps a look at most (_discover).                   *)
LEMMA LookupTypes ==
  ASSUME SkTypeOK, NEW c \in Callers, EndLookup(c)
  PROVE  /\ cache' \in [Callers -> Look] /\ look' \in [Callers -> Look]
         /\ SeenBy(c) \in Seen
<1>1. SeenBy(c) \in Seen
  <2>1. cache[c].seen \in Seen /\ look[c].seen \in Seen
    BY DEF SkTypeOK, Look
  <2>2. Scan("project") \in {"agent", "human", "none"}
    BY SeenType DEF Roots
  <2>3. [look[c].seen EXCEPT !["project"] = Scan("project")] \in Seen
    BY <2>1, <2>2 DEF Seen
  <2> QED
    BY <2>1, <2>3 DEF SeenBy
<1> DEFINE new == [valid |-> TRUE, seen |-> SeenBy(c)]
<1>2. new \in Look
  BY <1>1 DEF Look
<1>3. cache' = cache \/ cache' = [cache EXCEPT ![c] = new]
  BY DEF EndLookup
<1>4. look' = [look EXCEPT ![c] = NoLook]
  BY DEF EndLookup
<1> HIDE DEF new
<1> QED
  BY <1>1, <1>2, <1>3, <1>4, SeenType DEF SkTypeOK

(* A change of files keeps the types, and makes every look worthless.        *)
LEMMA ChangeTypes ==
  ASSUME SkTypeOK, NEW r \in Roots, NEW fs \in SUBSET Files,
         NEW new \in [Files -> Owners \cup {"text", "none"}], Change(r, fs, new)
  PROVE  /\ disk' \in [Roots -> [Files -> Owners \cup {"text", "none"}]]
         /\ cache' \in [Callers -> Look] /\ look' \in [Callers -> Look]
         /\ shown' \in [Callers -> SUBSET Files]
         /\ \A c \in Callers : ~cache'[c].valid /\ ~look'[c].valid
<1> DEFINE T == [f \in Files |-> IF f \in fs THEN new[f] ELSE disk[r][f]]
<1>1. T \in [Files -> Owners \cup {"text", "none"}]
  BY DEF SkTypeOK
<1>2. disk' = [disk EXCEPT ![r] = T]
  BY DEF Change
<1>3. disk' \in [Roots -> [Files -> Owners \cup {"text", "none"}]]
  BY <1>1, <1>2 DEF SkTypeOK
<1>4. cache' = [c \in Callers |-> NoLook]
  BY DEF Change
<1>5. look' = [c \in Callers |-> [look[c] EXCEPT !.valid = FALSE]]
  BY DEF Change
<1>6. ASSUME NEW c \in Callers PROVE [look[c] EXCEPT !.valid = FALSE] \in Look
  <2>1. look[c] \in Look
    BY DEF SkTypeOK
  <2> QED
    BY <2>1 DEF Look
<1>7. ASSUME NEW c \in Callers PROVE ~cache'[c].valid /\ ~look'[c].valid
  <2>1. ~cache'[c].valid
    BY <1>4 DEF NoLook
  <2>2. look'[c] = [look[c] EXCEPT !.valid = FALSE] /\ look[c] \in Look
    BY <1>5 DEF SkTypeOK
  <2> QED
    BY <2>1, <2>2 DEF Look
<1>8. shown' \in [Callers -> SUBSET Files]
  BY DEF Change, SkTypeOK
<1> QED
  BY <1>3, <1>4, <1>5, <1>6, <1>7, <1>8, SeenType

(* A call that ends or begins keeps the types of the calls.                  *)
LEMMA LeaveTypes ==
  ASSUME SkTypeOK, NEW c \in Callers, Leave(c)
  PROVE  /\ pc' \in [Callers -> {"idle", "scan", "wait", "handler", "write"}]
         /\ op' \in [Callers -> Op] /\ holder' \in Callers \cup {"none"}
         /\ raced' \in SUBSET Files
<1>1. NoOp \in Op
  BY DEF NoOp, Op, Roots
<1> QED
  BY <1>1 DEF Leave, SkTypeOK

LEMMA NewTextsType ==
  ASSUME NEW c, NEW text \in Owners
  PROVE  NewTexts(c, text) \in [Files -> Owners \cup {"text", "none"}]
BY DEF NewTexts, Owners

(* A file tool changes nothing of a call but the mark of its history.        *)
LEMMA FileToolTypes ==
  ASSUME SkTypeOK, NEW r, NEW f, NEW text, FileTool(r, f, text)
  PROVE  /\ op' \in [Callers -> Op]
         /\ \A c \in Callers :
               /\ op'[c].act = op[c].act /\ op'[c].files = op[c].files
               /\ op'[c].root = op[c].root /\ op'[c].approved = op[c].approved
               /\ op'[c].turned = (op[c].turned \/ (pc[c] = "handler" /\ f = "SKILL.md"))
<1>1. op' = [c \in Callers |-> IF pc[c] = "handler" /\ f = "SKILL.md"
                               THEN [op[c] EXCEPT !.turned = TRUE]
                               ELSE op[c]]
  BY DEF FileTool
<1>2. ASSUME NEW c \in Callers
      PROVE  /\ op'[c] \in Op
             /\ op'[c].act = op[c].act /\ op'[c].files = op[c].files
             /\ op'[c].root = op[c].root /\ op'[c].approved = op[c].approved
             /\ op'[c].turned = (op[c].turned \/ (pc[c] = "handler" /\ f = "SKILL.md"))
  <2>1. op[c] \in Op
    BY DEF SkTypeOK
  <2>2. CASE pc[c] = "handler" /\ f = "SKILL.md"
    <3>1. op'[c] = [op[c] EXCEPT !.turned = TRUE]
      BY <1>1, <2>2
    <3> QED
      BY <2>1, <2>2, <3>1 DEF Op
  <2>3. CASE ~(pc[c] = "handler" /\ f = "SKILL.md")
    <3>1. op'[c] = op[c]
      BY <1>1, <2>3
    <3> QED
      BY <2>1, <2>3, <3>1 DEF Op
  <2> QED
    BY <2>2, <2>3
<1>3. op' \in [Callers -> Op]
  <2>1. \A c \in Callers : op'[c] \in Op
    BY <1>2
  <2> QED
    BY <1>1, <2>1
<1> QED
  BY <1>2, <1>3

LEMMA StoreTypeStep == SkTypeOK /\ [SkNext]_storeVars => SkTypeOK'
<1> SUFFICES ASSUME SkTypeOK, [SkNext]_storeVars PROVE SkTypeOK'
  OBVIOUS
<1>1. ASSUME NEW c \in Callers, Begin(c) PROVE SkTypeOK'
  <2> DEFINE s == [r \in Roots |-> IF r = "user" THEN Scan(r) ELSE "none"]
  <2>1. [valid |-> TRUE, seen |-> s] \in Look
    BY SeenType DEF Look, Seen
  <2>2. look' = [look EXCEPT ![c] = [valid |-> TRUE, seen |-> s]]
    BY <1>1 DEF Begin
  <2> HIDE DEF s
  <2>3. look' \in [Callers -> Look]
    BY <2>1, <2>2 DEF SkTypeOK
  <2> QED
    BY <1>1, <2>3 DEF Begin, SkTypeOK
<1>2. ASSUME NEW c \in Callers, NEW f \in Files, View(c, f) PROVE SkTypeOK'
  <2>1. shown' \in [Callers -> SUBSET Files]
    BY <1>2 DEF View, SkTypeOK
  <2>2. cache' \in [Callers -> Look] /\ look' \in [Callers -> Look]
    BY <1>2, LookupTypes DEF View
  <2> QED
    BY <1>2, <2>1, <2>2 DEF View, SkTypeOK
<1>3. ASSUME NEW c \in Callers, NEW act \in Actions, NEW fs \in SUBSET Files,
             NEW granted \in BOOLEAN, Ask(c, act, fs, granted)
      PROVE  SkTypeOK'
  <2>1. cache' \in [Callers -> Look] /\ look' \in [Callers -> Look]
    BY <1>3, LookupTypes DEF Ask
  <2>2. PICK a \in BOOLEAN :
          op' = op \/ op' = [op EXCEPT ![c] = [act |-> act, files |-> fs,
                                               root |-> "project", approved |-> a,
                                               turned |-> FALSE]]
    <3> DEFINE a == act # "create" /\ c \in Foreground /\ Selected(SeenBy(c)) = "user"
    <3>1. a \in BOOLEAN
      OBVIOUS
    <3> QED
      BY <1>3, <3>1 DEF Ask
  <2>3. [act |-> act, files |-> fs, root |-> "project", approved |-> a, turned |-> FALSE] \in Op
    BY DEF Op, Roots
  <2>4. op' \in [Callers -> Op]
    BY <2>2, <2>3 DEF SkTypeOK
  <2>5. pc' \in [Callers -> {"idle", "scan", "wait", "handler", "write"}]
    BY <1>3 DEF Ask, SkTypeOK
  <2> QED
    BY <1>3, <2>1, <2>4, <2>5 DEF Ask, SkTypeOK
<1>4. ASSUME NEW c \in Callers, GiveUp(c) \/ WriteFails(c) PROVE SkTypeOK'
  BY <1>4, LeaveTypes DEF GiveUp, WriteFails, SkTypeOK
<1>5. ASSUME NEW c \in Callers, Admit(c) \/ Handle(c) PROVE SkTypeOK'
  <2> DEFINE r == Selected(Tree)
  <2>1. cache' \in [Callers -> Look]
    <3>1. [valid |-> TRUE, seen |-> Tree] \in Look
      BY SeenType DEF Look
    <3> QED
      BY <1>5, <3>1 DEF Admit, Handle, SkTypeOK
  <2>2. /\ pc' \in [Callers -> {"idle", "scan", "wait", "handler", "write"}]
        /\ op' \in [Callers -> Op] /\ holder' \in Callers \cup {"none"}
        /\ raced' \in SUBSET Files
    <3>1. CASE Leave(c)
      BY <3>1, LeaveTypes
    <3>2. CASE Admit(c) /\ ~Leave(c)
      <4>1. holder' = c /\ pc' = [pc EXCEPT ![c] = "handler"] /\ UNCHANGED <<op, raced>>
        BY <3>2 DEF Admit
      <4> QED
        BY <4>1 DEF SkTypeOK
    <3>3. CASE Handle(c) /\ ~Leave(c)
      <4>1. WriteRoot(r) \in Roots
        BY SelectedType DEF WriteRoot, Roots
      <4>2. [op[c] EXCEPT !.root = WriteRoot(r)] \in Op
        BY <4>1 DEF SkTypeOK, Op
      <4>3. op' = [op EXCEPT ![c] = [op[c] EXCEPT !.root = WriteRoot(r)]]
        BY <3>3 DEF Handle, SkTypeOK
      <4>4. op' \in [Callers -> Op]
        BY <4>2, <4>3 DEF SkTypeOK
      <4>5. pc' = [pc EXCEPT ![c] = "write"] /\ UNCHANGED <<holder, raced>>
        BY <3>3 DEF Handle
      <4> QED
        BY <4>4, <4>5 DEF SkTypeOK
    <3> QED
      BY <1>5, <3>1, <3>2, <3>3
  <2> QED
    BY <1>5, <2>1, <2>2 DEF Admit, Handle, SkTypeOK
<1>6. ASSUME NEW c \in Callers, NEW text \in Owners, Write(c, text) PROVE SkTypeOK'
  <2>1. op[c].root \in Roots /\ op[c].files \in SUBSET Files
    BY DEF SkTypeOK, Op
  <2> QED
    BY <1>6, <2>1, LeaveTypes, ChangeTypes, NewTextsType DEF Write, SkTypeOK
<1>7. ASSUME NEW c \in Callers, NEW f \in Files, DeleteFailsHalfway(c, f) PROVE SkTypeOK'
  <2>1. op[c].root \in Roots /\ {f} \in SUBSET Files
    BY DEF SkTypeOK, Op
  <2>2. [g \in Files |-> "none"] \in [Files -> Owners \cup {"text", "none"}]
    OBVIOUS
  <2> QED
    BY <1>7, <2>1, <2>2, LeaveTypes, ChangeTypes DEF DeleteFailsHalfway, SkTypeOK
<1>8. ASSUME NEW c \in Callers, Cancel(c) PROVE SkTypeOK'
  BY <1>8, SeenType DEF Cancel, SkTypeOK
<1>9. ASSUME NEW c \in Callers, NewStore(c) PROVE SkTypeOK'
  BY <1>9, SeenType DEF NewStore, SkTypeOK
<1>10. ASSUME NEW r \in Roots, NEW f \in Files, NEW text \in Owners \cup {"text"},
              FileTool(r, f, text)
       PROVE  SkTypeOK'
  <2>1. [g \in Files |-> text] \in [Files -> Owners \cup {"text", "none"}]
    OBVIOUS
  <2>2. {f} \in SUBSET Files
    OBVIOUS
  <2>3. raced' \in SUBSET Files
    BY <1>10 DEF FileTool, SkTypeOK
  <2>4. op' \in [Callers -> Op]
    BY <1>10, FileToolTypes
  <2> QED
    BY <1>10, <2>1, <2>2, <2>3, <2>4, ChangeTypes DEF FileTool, SkTypeOK
<1>11. CASE UNCHANGED storeVars
  BY <1>11 DEF storeVars, SkTypeOK
<1> QED
  BY <1>1, <1>2, <1>3, <1>4, <1>5, <1>6, <1>7, <1>8, <1>9, <1>10, <1>11
     DEF SkNext, Continue, Outside, Callers
-----------------------------------------------------------------------------
(* What a scan under way has seen of the user's root is still there, as long *)
(* as the signature it took first holds (_discover).                         *)
LookFits ==
  \A c \in Callers : look[c].valid =>
    look[c].seen = [r \in Roots |-> IF r = "user" THEN Scan(r) ELSE "none"]

(* Whoever is inside manage has the lock and has passed the checks so far,   *)
(* and what they found true is still true, but for what a file tool has put  *)
(* there since.                                                              *)
PermissionHolds ==
  \A c \in Callers : pc[c] = "handler" =>
    /\ holder = c
    /\ op[c].turned \/ StillApproved(c, Selected(Tree))

WritesAreChecked ==
  \A c \in Callers : pc[c] = "write" =>
    /\ holder = c
    /\ op[c].root = "user" => c \in Foreground /\ (op[c].approved \/ op[c].turned)
    /\ c \in Background =>
         /\ op[c].root = "project"
         /\ disk["project"]["SKILL.md"] \in {"agent", "none"} \/ "SKILL.md" \in raced
         /\ \A f \in op[c].files : Exists("project", f) => f \in shown[c] \cup raced

StoreInv == /\ SkTypeOK /\ CacheMatchesDisk /\ LookFits
            /\ PermissionHolds /\ WritesAreChecked

LEMMA StoreInvInit == SkInit => StoreInv
<1> SUFFICES ASSUME SkInit PROVE StoreInv
  OBVIOUS
<1>1. CacheMatchesDisk /\ LookFits
  BY DEF SkInit, CacheMatchesDisk, LookFits, NoLook
<1> QED
  BY <1>1, StoreTypeInit DEF SkInit, StoreInv, PermissionHolds, WritesAreChecked

LEMMA LookupFits ==
  ASSUME StoreInv, NEW c \in Callers, EndLookup(c), disk' = disk
  PROVE  CacheMatchesDisk' /\ LookFits'
<1>1. Tree' = Tree /\ \A r : Scan(r)' = Scan(r)
  BY DEF Tree, Scan
<1>2. ASSUME NEW d \in Callers, look'[d].valid PROVE look'[d] = look[d]
  BY <1>2 DEF EndLookup, NoLook, StoreInv, SkTypeOK
<1>3. LookFits'
  <2> SUFFICES ASSUME NEW d \in Callers, look'[d].valid
               PROVE  look'[d].seen = [r \in Roots |-> IF r = "user" THEN Scan(r)' ELSE "none"]
    BY DEF LookFits
  <2> QED
    BY <1>1, <1>2 DEF StoreInv, LookFits
<1>4. ASSUME NEW d \in Callers, cache'[d].valid PROVE cache'[d].seen = Tree
  <2>1. CASE cache'[d] = cache[d]
    BY <1>4, <2>1 DEF StoreInv, CacheMatchesDisk
  <2>2. CASE cache'[d] # cache[d]
    <3>1. /\ d = c /\ pc[c] = "scan" /\ SignatureHolds(c)
          /\ cache'[c] = [valid |-> TRUE, seen |-> SeenBy(c)]
      BY <2>2 DEF EndLookup, StoreInv, SkTypeOK
    <3>2. look[c].seen = [r \in Roots |-> IF r = "user" THEN Scan(r) ELSE "none"]
      BY <3>1 DEF SignatureHolds, StoreInv, LookFits
    <3>3. SeenBy(c) = Tree
      BY <3>1, <3>2 DEF SeenBy, Tree, Roots
    <3> QED
      BY <3>1, <3>3
  <2> QED
    BY <2>1, <2>2
<1> QED
  BY <1>1, <1>3, <1>4 DEF CacheMatchesDisk

(* No look outlives what it saw.                                             *)
LEMMA LooksKept ==
  StoreInv /\ [SkNext]_storeVars => CacheMatchesDisk' /\ LookFits'
<1> SUFFICES ASSUME StoreInv, [SkNext]_storeVars PROVE CacheMatchesDisk' /\ LookFits'
  OBVIOUS
<1>a. SkTypeOK
  BY DEF StoreInv
<1>b. ASSUME disk' = disk PROVE Tree' = Tree /\ \A r : Scan(r)' = Scan(r)
  BY <1>b DEF Tree, Scan
<1>c. ASSUME disk' = disk, cache' = cache, \A d \in Callers : look'[d] = look[d] \/ ~look'[d].valid
      PROVE  CacheMatchesDisk' /\ LookFits'
  <2>1. CacheMatchesDisk'
    BY <1>b, <1>c DEF StoreInv, CacheMatchesDisk
  <2>2. ASSUME NEW d \in Callers, look'[d].valid
        PROVE  look'[d].seen = [r \in Roots |-> IF r = "user" THEN Scan(r)' ELSE "none"]
    BY <1>b, <1>c, <2>2 DEF StoreInv, LookFits
  <2> QED
    BY <2>1, <2>2 DEF LookFits
<1>d. ASSUME \A c \in Callers : ~cache'[c].valid /\ ~look'[c].valid
      PROVE  CacheMatchesDisk' /\ LookFits'
  BY <1>d DEF CacheMatchesDisk, LookFits
<1>1. ASSUME NEW c \in Callers, Begin(c) PROVE CacheMatchesDisk' /\ LookFits'
  <2> DEFINE s == [r \in Roots |-> IF r = "user" THEN Scan(r) ELSE "none"]
  <2>1. disk' = disk /\ cache' = cache /\ look' = [look EXCEPT ![c] = [valid |-> TRUE, seen |-> s]]
    BY <1>1 DEF Begin
  <2>2. CacheMatchesDisk'
    BY <1>b, <2>1 DEF StoreInv, CacheMatchesDisk
  <2>3. s' = s
    BY <1>b, <2>1
  <2>4. ASSUME NEW d \in Callers, look'[d].valid PROVE look'[d].seen = s
    BY <1>a, <2>1, <2>4 DEF StoreInv, LookFits, SkTypeOK
  <2> QED
    BY <2>2, <2>3, <2>4 DEF LookFits
<1>2. ASSUME NEW c \in Callers, NEW f \in Files, View(c, f) PROVE CacheMatchesDisk' /\ LookFits'
  BY <1>2, LookupFits DEF View
<1>3. ASSUME NEW c \in Callers, NEW act, NEW fs, NEW granted, Ask(c, act, fs, granted)
      PROVE  CacheMatchesDisk' /\ LookFits'
  BY <1>3, LookupFits DEF Ask
<1>4. ASSUME NEW c \in Callers, GiveUp(c) \/ WriteFails(c) PROVE CacheMatchesDisk' /\ LookFits'
  BY <1>c, <1>4 DEF GiveUp, WriteFails
<1>5. ASSUME NEW c \in Callers, Admit(c) \/ Handle(c) PROVE CacheMatchesDisk' /\ LookFits'
  <2>1. /\ disk' = disk /\ look' = look
        /\ cache' = [cache EXCEPT ![c] = [valid |-> TRUE, seen |-> Tree]]
    BY <1>5 DEF Admit, Handle
  <2>2. ASSUME NEW d \in Callers, cache'[d].valid PROVE cache'[d].seen = Tree
    BY <1>a, <2>1, <2>2 DEF StoreInv, CacheMatchesDisk, SkTypeOK
  <2>3. ASSUME NEW d \in Callers, look'[d].valid
        PROVE  look'[d].seen = [r \in Roots |-> IF r = "user" THEN Scan(r)' ELSE "none"]
    BY <1>b, <2>1, <2>3 DEF StoreInv, LookFits
  <2> QED
    BY <1>b, <2>1, <2>2, <2>3 DEF CacheMatchesDisk, LookFits
<1>6. ASSUME NEW c \in Callers, NEW text \in Owners, Write(c, text)
      PROVE  CacheMatchesDisk' /\ LookFits'
  <2>1. op[c].root \in Roots /\ op[c].files \in SUBSET Files
    BY <1>a DEF SkTypeOK, Op
  <2> QED
    BY <1>a, <1>d, <1>6, <2>1, ChangeTypes, NewTextsType DEF Write
<1>7. ASSUME NEW c \in Callers, NEW f \in Files, DeleteFailsHalfway(c, f)
      PROVE  CacheMatchesDisk' /\ LookFits'
  <2>1. op[c].root \in Roots /\ {f} \in SUBSET Files
    BY <1>a DEF SkTypeOK, Op
  <2>2. [g \in Files |-> "none"] \in [Files -> Owners \cup {"text", "none"}]
    OBVIOUS
  <2> QED
    BY <1>a, <1>d, <1>7, <2>1, <2>2, ChangeTypes DEF DeleteFailsHalfway
<1>8. ASSUME NEW c \in Callers, Cancel(c) PROVE CacheMatchesDisk' /\ LookFits'
  BY <1>a, <1>c, <1>8 DEF Cancel, SkTypeOK, NoLook
<1>9. ASSUME NEW c \in Callers, NewStore(c) PROVE CacheMatchesDisk' /\ LookFits'
  <2>1. disk' = disk /\ look' = look /\ cache' = [cache EXCEPT ![c] = NoLook]
    BY <1>9 DEF NewStore
  <2>2. ASSUME NEW d \in Callers, cache'[d].valid PROVE cache'[d].seen = Tree
    BY <1>a, <2>1, <2>2 DEF StoreInv, CacheMatchesDisk, SkTypeOK, NoLook
  <2>3. ASSUME NEW d \in Callers, look'[d].valid
        PROVE  look'[d].seen = [r \in Roots |-> IF r = "user" THEN Scan(r)' ELSE "none"]
    BY <1>b, <2>1, <2>3 DEF StoreInv, LookFits
  <2> QED
    BY <1>b, <2>1, <2>2, <2>3 DEF CacheMatchesDisk, LookFits
<1>10. ASSUME NEW r \in Roots, NEW f \in Files, NEW text \in Owners \cup {"text"},
              FileTool(r, f, text)
       PROVE  CacheMatchesDisk' /\ LookFits'
  <2>1. [g \in Files |-> text] \in [Files -> Owners \cup {"text", "none"}]
    OBVIOUS
  <2>2. {f} \in SUBSET Files
    OBVIOUS
  <2> QED
    BY <1>a, <1>d, <1>10, <2>1, <2>2, ChangeTypes DEF FileTool
<1>11. CASE UNCHANGED storeVars
  BY <1>c, <1>11 DEF storeVars
<1> QED
  BY <1>1, <1>2, <1>3, <1>4, <1>5, <1>6, <1>7, <1>8, <1>9, <1>10, <1>11
     DEF SkNext, Continue, Outside, Callers
-----------------------------------------------------------------------------
(* The checks made under the lock are what a write relies on (manage,        *)
(* _background_write_error).                                                 *)
Granted(c) ==
  pc[c] = "handler" =>
    /\ holder = c
    /\ op[c].turned \/ StillApproved(c, Selected(Tree))

Checked(c) ==
  pc[c] = "write" =>
    /\ holder = c
    /\ op[c].root = "user" => c \in Foreground /\ (op[c].approved \/ op[c].turned)
    /\ c \in Background =>
         /\ op[c].root = "project"
         /\ disk["project"]["SKILL.md"] \in {"agent", "none"} \/ "SKILL.md" \in raced
         /\ \A f \in op[c].files : Exists("project", f) => f \in shown[c] \cup raced

LEMMA AdmitGrants ==
  ASSUME SkTypeOK, NEW c \in Callers, Admit(c)
  PROVE  Granted(c)' /\ Checked(c)'
<1>1. disk' = disk /\ pc'[c] \in {"idle", "handler"}
  BY DEF Admit, Leave, SkTypeOK
<1>2. Tree' = Tree
  BY <1>1 DEF Tree, Scan
<1>3. ASSUME pc'[c] = "handler"
      PROVE  holder' = c /\ op' = op /\ StillApproved(c, Selected(Tree))
  BY <1>3 DEF Admit, Leave, SkTypeOK
<1>4. ASSUME pc'[c] = "handler" PROVE holder' = c /\ StillApproved(c, Selected(Tree))'
  BY <1>2, <1>3, <1>4 DEF StillApproved
<1> QED
  BY <1>1, <1>4 DEF Granted, Checked

LEMMA HandleChecks ==
  ASSUME SkTypeOK, NEW c \in Callers, Granted(c), Handle(c)
  PROVE  Granted(c)' /\ Checked(c)'
<1> DEFINE r == Selected(Tree)
<1>a. pc'[c] \in {"idle", "write"}
  BY DEF Handle, Leave, SkTypeOK
<1> SUFFICES ASSUME pc'[c] = "write" PROVE Checked(c)'
  BY <1>a DEF Granted, Checked
<1>1. /\ HandlerMay(c, r, op[c].act, op[c].files)
      /\ op[c].turned \/ StillApproved(c, r)
      /\ holder' = c /\ op' = [op EXCEPT ![c].root = WriteRoot(r)]
      /\ disk' = disk /\ shown' = shown
  BY DEF Handle, Granted, Leave, SkTypeOK
<1>2. op[c] \in Op
  BY DEF SkTypeOK
<1>3. op'[c] = [op[c] EXCEPT !.root = WriteRoot(r)]
  BY <1>1 DEF SkTypeOK
<1>4. /\ op'[c].root = WriteRoot(r) /\ op'[c].files = op[c].files
      /\ op'[c].approved = op[c].approved /\ op'[c].turned = op[c].turned
  BY <1>2, <1>3 DEF Op
<1>5. r \in {"project", "user", "none"}
  BY SelectedType
<1>6. c \in Background => c \notin Foreground
  BY SkillAssumption
<1> HIDE DEF r
<1>7. CASE op[c].act = "create"
  <2>1. r = "none" /\ \A f \in Files : ~Exists("project", f)
    BY <1>1, <1>7 DEF HandlerMay
  <2>2. op'[c].root = "project"
    BY <1>4, <2>1 DEF WriteRoot
  <2>3. disk'["project"]["SKILL.md"] = "none" /\ \A f \in Files : ~Exists("project", f)'
    BY <1>1, <2>1 DEF Exists, Files
  <2>4. op[c].files \in SUBSET Files
    BY <1>2 DEF Op
  <2> QED
    BY <1>1, <1>4, <2>2, <2>3, <2>4 DEF Checked
<1>8. CASE op[c].act # "create"
  <2>1. r # "none" /\ BackgroundMay(c, r, op[c].files)
    BY <1>1, <1>8 DEF HandlerMay
  <2>2. op'[c].root = r
    BY <1>4, <2>1 DEF WriteRoot
  <2>3. ASSUME r = "user" PROVE c \in Foreground /\ (op'[c].approved \/ op'[c].turned)
    <3>1. c \notin Background
      BY <2>1, <2>3 DEF BackgroundMay
    <3> QED
      BY <1>1, <1>4, <1>8, <2>3, <3>1 DEF StillApproved, Callers
  <2>4. ASSUME c \in Background
        PROVE  /\ r = "project" /\ disk'["project"]["SKILL.md"] = "agent"
               /\ \A f \in op'[c].files : Exists("project", f)' => f \in shown'[c]
    BY <1>1, <1>4, <2>1, <2>4 DEF BackgroundMay, Scan, Exists
  <2> QED
    BY <1>1, <2>2, <2>3, <2>4 DEF Checked
<1> QED
  BY <1>7, <1>8

LEMMA FileToolKeeps ==
  ASSUME SkTypeOK, NEW d \in Callers, Granted(d), Checked(d),
         NEW r \in Roots, NEW f \in Files, NEW text, FileTool(r, f, text)
  PROVE  Granted(d)' /\ Checked(d)'
<1>a. UNCHANGED <<holder, pc>> /\ Change(r, {f}, [g \in Files |-> text])
  BY DEF FileTool
<1>b. /\ op'[d].act = op[d].act /\ op'[d].files = op[d].files
      /\ op'[d].root = op[d].root /\ op'[d].approved = op[d].approved
      /\ op'[d].turned = (op[d].turned \/ (pc[d] = "handler" /\ f = "SKILL.md"))
  BY FileToolTypes
<1>c. op[d].files \subseteq Files /\ op[d].turned \in BOOLEAN
  BY DEF SkTypeOK, Op
<1>1. Granted(d)'
  <2> SUFFICES ASSUME pc[d] = "handler"
               PROVE  holder' = d /\ (op'[d].turned \/ StillApproved(d, Selected(Tree))')
    BY <1>a DEF Granted
  <2>1. CASE f = "SKILL.md"
    BY <1>a, <1>b, <2>1 DEF Granted
  <2>2. CASE f # "SKILL.md"
    <3>1. \A q \in Roots : disk'[q]["SKILL.md"] = disk[q]["SKILL.md"]
      BY <1>a, <2>2 DEF Change, SkTypeOK, Files
    <3>2. \A q \in Roots : Scan(q)' = Scan(q)
      BY <3>1 DEF Scan
    <3>3. Tree' = Tree
      BY <3>2 DEF Tree
    <3>4. StillApproved(d, Selected(Tree)) => StillApproved(d, Selected(Tree))'
      BY <1>b, <3>3 DEF StillApproved
    <3> QED
      BY <1>a, <1>b, <2>2, <3>4 DEF Granted
  <2> QED
    BY <2>1, <2>2
<1>2. Checked(d)'
  <2> SUFFICES ASSUME pc[d] = "write" PROVE Checked(d)'
    BY <1>a DEF Checked
  <2>1. ASSUME r = "user" PROVE disk'["project"] = disk["project"] /\ UNCHANGED <<shown, raced>>
    BY <2>1 DEF FileTool, Change, SkTypeOK, Roots
  <2>2. ASSUME r = "project"
        PROVE  /\ raced' = raced \cup {f} /\ shown'[d] = shown[d] \ {f}
               /\ \A g \in Files : g # f => disk'["project"][g] = disk["project"][g]
    BY <2>2 DEF FileTool, Change, SkTypeOK, Roots
  <2>3. CASE r = "user"
    BY <1>a, <1>b, <1>c, <2>1, <2>3 DEF Checked, Exists
  <2>4. CASE r = "project"
    <3>1. ASSUME d \in Background
          PROVE  /\ disk'["project"]["SKILL.md"] \in {"agent", "none"} \/ "SKILL.md" \in raced'
                 /\ \A g \in op'[d].files : Exists("project", g)' => g \in shown'[d] \cup raced'
      BY <1>b, <1>c, <2>2, <2>4, <3>1 DEF Checked, Exists, Files
    <3> QED
      BY <1>a, <1>b, <1>c, <3>1 DEF Checked
  <2> QED
    BY <2>3, <2>4 DEF Roots
<1> QED
  BY <1>1, <1>2

LEMMA CheckedKept == StoreInv /\ [SkNext]_storeVars => PermissionHolds' /\ WritesAreChecked'
<1> SUFFICES ASSUME StoreInv, [SkNext]_storeVars, NEW d \in Callers
             PROVE  Granted(d)' /\ Checked(d)'
  BY DEF PermissionHolds, Granted, WritesAreChecked, Checked
<1>a. SkTypeOK /\ Granted(d) /\ Checked(d)
  BY DEF StoreInv, PermissionHolds, Granted, WritesAreChecked, Checked
<1>b. ASSUME InsideLock(d) => /\ UNCHANGED <<disk, raced>> /\ holder' = d
                              /\ pc'[d] = pc[d] /\ op'[d] = op[d]
                              /\ shown[d] \subseteq shown'[d],
             ~InsideLock(d) => ~InsideLock(d)'
      PROVE  Granted(d)' /\ Checked(d)'
  <2>1. CASE InsideLock(d)
    <3>1. Tree' = Tree
      BY <1>b, <2>1 DEF Tree, Scan
    <3>2. StillApproved(d, Selected(Tree)) => StillApproved(d, Selected(Tree))'
      BY <1>b, <2>1, <3>1 DEF StillApproved
    <3>3. Granted(d)'
      BY <1>a, <1>b, <2>1, <3>2 DEF Granted
    <3>4. Checked(d)'
      BY <1>a, <1>b, <2>1 DEF Checked, Exists
    <3> QED
      BY <3>3, <3>4
  <2>2. CASE ~InsideLock(d)
    BY <1>b, <2>2 DEF InsideLock, Granted, Checked
  <2> QED
    BY <2>1, <2>2
<1>c. InsideLock(d) => holder = d
  BY <1>a DEF InsideLock, Granted, Checked
<1>d. d # "none"
  BY SkillAssumption DEF Callers
<1>1. ASSUME NEW c \in Callers, Begin(c) PROVE Granted(d)' /\ Checked(d)'
  BY <1>a, <1>b, <1>c, <1>1 DEF Begin, SkTypeOK, InsideLock
<1>2. ASSUME NEW c \in Callers, NEW f \in Files, View(c, f) PROVE Granted(d)' /\ Checked(d)'
  <2>1. pc[c] \in {"idle", "scan"} /\ pc' = [pc EXCEPT ![c] = "idle"]
    BY <1>2 DEF View, EndLookup, LookedUp
  <2>2. shown[d] \subseteq shown'[d]
    BY <1>a, <1>2 DEF View, SkTypeOK
  <2>3. InsideLock(d) => pc'[d] = pc[d]
    BY <1>a, <2>1 DEF InsideLock, SkTypeOK
  <2>4. ~InsideLock(d) => ~InsideLock(d)'
    BY <1>a, <2>1 DEF InsideLock, SkTypeOK
  <2> QED
    BY <1>b, <1>c, <1>2, <2>2, <2>3, <2>4 DEF View
<1>3. ASSUME NEW c \in Callers, NEW act, NEW fs, NEW granted, Ask(c, act, fs, granted)
      PROVE  Granted(d)' /\ Checked(d)'
  <2>1. pc[c] \in {"idle", "scan"} /\ pc'[c] \in {"idle", "wait"}
    BY <1>a, <1>3 DEF Ask, EndLookup, LookedUp, SkTypeOK
  <2>2. d # c => pc'[d] = pc[d] /\ op'[d] = op[d]
    BY <1>a, <1>3 DEF Ask, SkTypeOK
  <2> QED
    BY <1>b, <1>c, <1>3, <2>1, <2>2 DEF Ask, InsideLock
<1>4. ASSUME NEW c \in Callers, GiveUp(c) \/ WriteFails(c) PROVE Granted(d)' /\ Checked(d)'
  <2>1. CASE d = c
    BY <1>a, <1>4, <2>1 DEF GiveUp, WriteFails, Leave, SkTypeOK, Granted, Checked
  <2>2. CASE d # c
    <3>1. pc'[d] = pc[d] /\ op'[d] = op[d]
      BY <1>a, <1>4, <2>2 DEF GiveUp, WriteFails, Leave, SkTypeOK
    <3>2. InsideLock(d) => holder' = d /\ raced' = raced
      BY <1>c, <1>4, <2>2 DEF GiveUp, WriteFails, Leave
    <3> QED
      BY <1>b, <1>4, <3>1, <3>2 DEF GiveUp, WriteFails, InsideLock
  <2> QED
    BY <2>1, <2>2
<1>5. ASSUME NEW c \in Callers, Admit(c) PROVE Granted(d)' /\ Checked(d)'
  <2>1. CASE d = c
    BY <1>a, <1>5, <2>1, AdmitGrants
  <2>2. CASE d # c
    <3>1. pc'[d] = pc[d] /\ ~InsideLock(d)
      BY <1>a, <1>c, <1>d, <1>5, <2>2 DEF Admit, Leave, SkTypeOK
    <3> QED
      BY <1>b, <3>1 DEF InsideLock
  <2> QED
    BY <2>1, <2>2
<1>6. ASSUME NEW c \in Callers, Handle(c) PROVE Granted(d)' /\ Checked(d)'
  <2>1. CASE d = c
    BY <1>a, <1>6, <2>1, HandleChecks
  <2>2. CASE d # c
    <3>1. holder = c
      BY <1>6 DEF Handle, StoreInv, PermissionHolds
    <3>2. pc'[d] = pc[d] /\ ~InsideLock(d)
      BY <1>a, <1>c, <1>6, <2>2, <3>1 DEF Handle, Leave, SkTypeOK
    <3> QED
      BY <1>b, <3>2 DEF InsideLock
  <2> QED
    BY <2>1, <2>2
<1>7. ASSUME NEW c \in Callers, (\E text \in Owners : Write(c, text))
                                \/ (\E f \in Files : DeleteFailsHalfway(c, f))
      PROVE  Granted(d)' /\ Checked(d)'
  <2>1. pc[c] = "write" /\ Leave(c)
    BY <1>7 DEF Write, DeleteFailsHalfway
  <2>2. holder = c
    BY <2>1 DEF StoreInv, WritesAreChecked
  <2>3. CASE d = c
    BY <1>a, <2>1, <2>3 DEF Leave, SkTypeOK, Granted, Checked
  <2>4. CASE d # c
    <3>1. pc'[d] = pc[d] /\ ~InsideLock(d)
      BY <1>a, <1>c, <2>1, <2>2, <2>4 DEF Leave, SkTypeOK
    <3> QED
      BY <1>b, <3>1 DEF InsideLock
  <2> QED
    BY <2>3, <2>4
<1>8. ASSUME NEW c \in Callers, Cancel(c) PROVE Granted(d)' /\ Checked(d)'
  BY <1>a, <1>b, <1>c, <1>8 DEF Cancel, SkTypeOK, InsideLock
<1>9. ASSUME NEW c \in Callers, NewStore(c) PROVE Granted(d)' /\ Checked(d)'
  <2>1. InsideLock(d) => d # c
    BY <1>9 DEF NewStore, InsideLock
  <2>2. InsideLock(d) => shown'[d] = shown[d]
    BY <1>a, <1>9, <2>1 DEF NewStore, SkTypeOK
  <2> QED
    BY <1>b, <1>c, <1>9, <2>2 DEF NewStore, InsideLock
<1>10. ASSUME NEW r \in Roots, NEW f \in Files, NEW text \in Owners \cup {"text"},
              FileTool(r, f, text)
       PROVE  Granted(d)' /\ Checked(d)'
  BY <1>a, <1>10, FileToolKeeps
<1>11. CASE UNCHANGED storeVars
  BY <1>b, <1>c, <1>11 DEF storeVars, InsideLock
<1> QED
  BY <1>1, <1>2, <1>3, <1>4, <1>5, <1>6, <1>7, <1>8, <1>9, <1>10, <1>11
     DEF SkNext, Continue, Outside, Callers

LEMMA StoreInvStep == StoreInv /\ [SkNext]_storeVars => StoreInv'
<1>1. StoreInv => SkTypeOK
  BY DEF StoreInv
<1> QED
  BY <1>1, StoreTypeStep, LooksKept, CheckedKept DEF StoreInv
-----------------------------------------------------------------------------
(* The reviews take the steps of their stores, and no others.                *)

LEMMA CallersAre == Managers \subseteq Callers /\ Foreground \subseteq Callers
BY DEF Managers, Callers

LEMMA ReviewStepIsStoreStep == [RvNext]_rvars => [SkNext]_storeVars
<1> SUFFICES ASSUME [RvNext]_rvars PROVE [SkNext]_storeVars
  OBVIOUS
<1>1. ASSUME NEW m \in Managers, ManagerNext(m) PROVE [SkNext]_storeVars
  <2>1. \/ UNCHANGED storeVars \/ Begin(m) \/ Continue(m) \/ Cancel(m) \/ NewStore(m)
    BY <1>1 DEF ManagerNext, AfterModel, AfterAgent, StartTask, TakeReviewLock,
       AnswersWithCalls, ToolStep, ToolsDone, ReviewEnds, ReviewFails, EndReview,
       Close, CloseEnds, CloseTimesOut
  <2> QED
    BY <2>1, CallersAre DEF SkNext, Managers
<1>2. CASE AgentNext
  BY <1>2, CallersAre DEF AgentNext, SkNext
<1>3. CASE Outside
  BY <1>3 DEF SkNext
<1>4. CASE UNCHANGED rvars
  BY <1>4 DEF rvars
<1> QED
  BY <1>1, <1>2, <1>3, <1>4 DEF RvNext

(* Whatever the managers and their reviews do, the store goes through a      *)
(* behaviour of its own (skill_review, knowledge_tools on top of skills).    *)
THEOREM ReviewImplementsStore == RvSpec => SkSpec
<1>1. RvInit => SkInit
  BY DEF RvInit
<1> QED
  BY <1>1, ReviewStepIsStoreStep, PTL DEF RvSpec, SkSpec

LEMMA StoreInvariant == SkSpec => []StoreInv
BY StoreInvInit, StoreInvStep, PTL DEF SkSpec

(* A lookup that the cache answers finds what is on disk.                    *)
THEOREM CacheMatchesDiskCorrect == RvSpec => []CacheMatchesDisk
<1>1. StoreInv => CacheMatchesDisk
  BY DEF StoreInv
<1> QED
  BY <1>1, StoreInvariant, ReviewImplementsStore, PTL

(* A review replaces or removes only texts it has been shown.                *)
THEOREM NothingUnseenIsLostCorrect == RvSpec => []NothingUnseenIsLost
<1>1. StoreInv => NothingUnseenIsLost
  BY DEF StoreInv, WritesAreChecked, NothingUnseenIsLost, Callers
<1> QED
  BY <1>1, StoreInvariant, ReviewImplementsStore, PTL

(* A write ends with the files of its root changed, or none.                 *)
LEMMA WriteStep ==
  ASSUME StoreInv, [SkNext]_storeVars, NEW c \in Callers, pc[c] = "write", pc'[c] = "idle",
         NEW r \in Roots, disk'[r] # disk[r]
  PROVE  r = op[c].root
<1>a. SkTypeOK /\ holder = c
  BY DEF StoreInv, WritesAreChecked
<1>1. ASSUME NEW d \in Callers, Begin(d) \/ GiveUp(d) \/ WriteFails(d) \/ Admit(d) \/ Handle(d)
                                \/ Cancel(d) \/ NewStore(d)
      PROVE  FALSE
  BY <1>1 DEF Begin, GiveUp, WriteFails, Admit, Handle, Cancel, NewStore
<1>2. ASSUME NEW d \in Callers, NEW f, View(d, f) PROVE FALSE
  BY <1>2 DEF View
<1>3. ASSUME NEW d \in Callers, NEW act, NEW fs, NEW granted, Ask(d, act, fs, granted) PROVE FALSE
  BY <1>3 DEF Ask
<1>4. ASSUME NEW d \in Callers, (\E text \in Owners : Write(d, text))
                                \/ (\E f \in Files : DeleteFailsHalfway(d, f))
      PROVE  r = op[c].root
  <2>1. pc[d] = "write"
    BY <1>4 DEF Write, DeleteFailsHalfway
  <2>2. d = c
    BY <1>a, <2>1 DEF StoreInv, WritesAreChecked
  <2>3. \E fs, new : Change(op[c].root, fs, new)
    BY <1>4, <2>2 DEF Write, DeleteFailsHalfway
  <2> QED
    BY <1>a, <2>3 DEF Change, SkTypeOK
<1>5. ASSUME Outside PROVE FALSE
  BY <1>5 DEF Outside, FileTool
<1>6. CASE UNCHANGED storeVars
  BY <1>6 DEF storeVars
<1> QED
  BY <1>1, <1>2, <1>3, <1>4, <1>5, <1>6 DEF SkNext, Continue, Callers

(* A review leaves the user's root and the skills of humans alone.           *)
THEOREM BackgroundKeepsToAgentSkillsCorrect == RvSpec => BackgroundKeepsToAgentSkills
<1> DEFINE Keeps == \A c \in Background :
         pc[c] = "write" /\ pc'[c] = "idle" =>
            /\ disk'["user"] = disk["user"]
            /\ \/ disk' = disk
               \/ disk["project"]["SKILL.md"] \in {"agent", "none"}
               \/ "SKILL.md" \in raced
<1>1. StoreInv /\ [SkNext]_storeVars => [Keeps]_storeVars
  <2> SUFFICES ASSUME StoreInv, [SkNext]_storeVars, NEW c \in Background,
                      pc[c] = "write", pc'[c] = "idle"
               PROVE  /\ disk'["user"] = disk["user"]
                      /\ \/ disk["project"]["SKILL.md"] \in {"agent", "none"}
                         \/ "SKILL.md" \in raced
    OBVIOUS
  <2>1. c \in Callers
    BY DEF Callers
  <2>2. /\ op[c].root = "project"
        /\ disk["project"]["SKILL.md"] \in {"agent", "none"} \/ "SKILL.md" \in raced
    BY <2>1 DEF StoreInv, WritesAreChecked
  <2>3. "user" \in Roots
    BY DEF Roots
  <2> QED
    BY <2>1, <2>2, <2>3, WriteStep
<1> HIDE DEF Keeps
<1>2. SkSpec => [][Keeps]_storeVars
  BY <1>1, StoreInvariant, PTL DEF SkSpec
<1>3. SkSpec => BackgroundKeepsToAgentSkills
  BY <1>2 DEF BackgroundKeepsToAgentSkills, Keeps
<1> QED
  BY <1>3, ReviewImplementsStore

(* The store changes the user's own skill only with permission, unless a     *)
(* file tool has put a SKILL.md between the check and the handler's lookup.  *)
THEOREM UserSkillNeedsPermissionCorrect == RvSpec => UserSkillNeedsPermission
<1> DEFINE Asked == \A c \in Callers :
         pc[c] = "write" /\ pc'[c] = "idle" /\ disk'["user"] # disk["user"] =>
            c \in Foreground /\ (op[c].approved \/ op[c].turned)
<1>1. StoreInv /\ [SkNext]_storeVars => [Asked]_storeVars
  <2> SUFFICES ASSUME StoreInv, [SkNext]_storeVars, NEW c \in Callers,
                      pc[c] = "write", pc'[c] = "idle", disk'["user"] # disk["user"]
               PROVE  c \in Foreground /\ (op[c].approved \/ op[c].turned)
    OBVIOUS
  <2>1. op[c].root = "user"
    BY WriteStep DEF Roots
  <2> QED
    BY <2>1 DEF StoreInv, WritesAreChecked
<1> HIDE DEF Asked
<1>2. SkSpec => [][Asked]_storeVars
  BY <1>1, StoreInvariant, PTL DEF SkSpec
<1>3. SkSpec => UserSkillNeedsPermission
  BY <1>2 DEF UserSkillNeedsPermission, Asked
<1> QED
  BY <1>3, ReviewImplementsStore
-----------------------------------------------------------------------------
(* Queues: a position is at most once in a queue.                            *)

Has(q, p) == \E i \in DOMAIN q : q[i] = p
Distinct(q) == \A i, j \in DOMAIN q : q[i] = q[j] => i = j

LEMMA TailHas ==
  ASSUME NEW q \in Seq(Positions), q # <<>>, Distinct(q)
  PROVE  /\ Head(q) \in Positions /\ Tail(q) \in Seq(Positions) /\ Distinct(Tail(q))
         /\ Has(q, Head(q)) /\ \A p : Has(Tail(q), p) <=> p # Head(q) /\ Has(q, p)
<1> DEFINE t == Tail(q)
<1>1. /\ Head(q) \in Positions /\ t \in Seq(Positions) /\ Len(t) = Len(q) - 1
      /\ \A i \in 1..Len(t) : t[i] = q[i + 1]
  BY HeadTailProperties
<1>2. /\ DOMAIN q = 1..Len(q) /\ DOMAIN t = 1..Len(t)
      /\ Len(q) \in Nat \ {0} /\ Len(t) \in Nat
  BY <1>1, LenProperties, EmptySeq
<1>3. Head(q) = q[1]
  OBVIOUS
<1> HIDE DEF t
<1>4. Has(q, Head(q))
  BY <1>2, <1>3 DEF Has
<1>5. Distinct(t)
  <2> SUFFICES ASSUME NEW i \in 1..Len(t), NEW j \in 1..Len(t), t[i] = t[j] PROVE i = j
    BY <1>2 DEF Distinct
  <2>1. q[i + 1] = q[j + 1] /\ i + 1 \in DOMAIN q /\ j + 1 \in DOMAIN q
    BY <1>1, <1>2
  <2>2. i + 1 = j + 1
    BY <2>1 DEF Distinct
  <2> QED
    BY <2>2
<1>6. ASSUME NEW p, Has(t, p) PROVE p # Head(q) /\ Has(q, p)
  <2>1. PICK i \in 1..Len(t) : t[i] = p
    BY <1>2, <1>6 DEF Has
  <2>2. q[i + 1] = p /\ i + 1 \in DOMAIN q /\ 1 \in DOMAIN q /\ i + 1 # 1
    BY <1>1, <1>2, <2>1
  <2> QED
    BY <1>3, <2>2 DEF Has, Distinct
<1>7. ASSUME NEW p, p # Head(q), Has(q, p) PROVE Has(t, p)
  <2>1. PICK i \in 1..Len(q) : q[i] = p
    BY <1>2, <1>7 DEF Has
  <2>2. i - 1 \in 1..Len(t) /\ (i - 1) + 1 = i
    BY <1>1, <1>2, <1>3, <1>7, <2>1
  <2>3. t[i - 1] = p
    BY <1>1, <2>1, <2>2
  <2> QED
    BY <1>2, <2>2, <2>3 DEF Has
<1> QED
  BY <1>1, <1>4, <1>5, <1>6, <1>7 DEF t

LEMMA AppendHas ==
  ASSUME NEW q \in Seq(Positions), Distinct(q), NEW e \in Positions, ~Has(q, e)
  PROVE  /\ Append(q, e) \in Seq(Positions) /\ Distinct(Append(q, e))
         /\ \A p : Has(Append(q, e), p) <=> p = e \/ Has(q, p)
<1> DEFINE t == Append(q, e)
<1>1. /\ t \in Seq(Positions) /\ Len(t) = Len(q) + 1
      /\ \A i \in 1..Len(q) : t[i] = q[i] /\ t[Len(q) + 1] = e
  BY AppendProperties
<1>2. t[Len(q) + 1] = e
  BY AppendProperties
<1>3. DOMAIN q = 1..Len(q) /\ DOMAIN t = 1..Len(t) /\ Len(q) \in Nat
  BY <1>1, LenProperties
<1> HIDE DEF t
<1>4. DOMAIN t = DOMAIN q \cup {Len(q) + 1} /\ \A i \in DOMAIN q : i # Len(q) + 1 /\ t[i] = q[i]
  BY <1>1, <1>3
<1>5. \A p : Has(t, p) <=> p = e \/ Has(q, p)
  BY <1>2, <1>4 DEF Has
<1>6. Distinct(t)
  BY <1>2, <1>4 DEF Distinct, Has
<1> QED
  BY <1>1, <1>5, <1>6 DEF t

LEMMA EmptyHas == Distinct(<<>>) /\ \A p : ~Has(<<>>, p)
BY DEF Distinct, Has
-----------------------------------------------------------------------------
(* Type correctness of the managers.                                         *)

ReviewTypes ==
  /\ rounds \in [Managers -> 0 .. Interval]
  /\ lastSubmitted \in [Managers -> 0 .. MaxPositions]
  /\ accepted \in [Managers -> SUBSET Positions]
  /\ queue \in [Managers -> Seq(Positions)]
  /\ worker \in [Managers -> {"none", "new", "locking", "thinking", "tools", "done"}]
  /\ current \in [Managers -> 0 .. MaxPositions]
  /\ turns \in [Managers -> 0 .. MaxTurns]
  /\ phase \in [Managers -> {"open", "closing", "closed"}]
  /\ reviewHolder \in Managers \cup {"none"}
  /\ outcome \in [Managers -> [Positions -> {"none", "queued", "running"} \cup Ended]]

LEMMA ReviewConstants == Interval \in Nat /\ MaxTurns \in Nat /\ MaxPositions \in Nat
BY ReviewAssumption

(* The loop of _run takes the head of the queue, or ends the task.           *)
LEMMA NextItemTypes ==
  ASSUME ReviewTypes, NEW m \in Managers, NEW how \in {"none"} \cup Ended, NextItem(m, how)
  PROVE  /\ outcome' \in [Managers -> [Positions -> {"none", "queued", "running"} \cup Ended]]
         /\ worker' \in [Managers -> {"none", "new", "locking", "thinking", "tools", "done"}]
         /\ current' \in [Managers -> 0 .. MaxPositions]
         /\ queue' \in [Managers -> Seq(Positions)]
         /\ turns' \in [Managers -> 0 .. MaxTurns]
<1>1. turns' \in [Managers -> 0 .. MaxTurns]
  <2>1. 0 \in 0 .. MaxTurns
    BY ReviewConstants
  <2> QED
    BY <2>1 DEF NextItem, ReviewTypes
<1>2. worker' \in [Managers -> {"none", "new", "locking", "thinking", "tools", "done"}]
  BY DEF NextItem, ReviewTypes
<1>3. current' \in [Managers -> 0 .. MaxPositions] /\ queue' \in [Managers -> Seq(Positions)]
  <2>1. CASE queue[m] = <<>>
    <3>1. 0 \in 0 .. MaxPositions
      BY ReviewConstants
    <3> QED
      BY <2>1, <3>1 DEF NextItem, ReviewTypes
  <2>2. CASE queue[m] # <<>>
    <3>1. queue[m] \in Seq(Positions)
      BY DEF ReviewTypes
    <3>2. Head(queue[m]) \in Positions /\ Tail(queue[m]) \in Seq(Positions)
      BY <2>2, <3>1, HeadTailProperties
    <3>3. Head(queue[m]) \in 0 .. MaxPositions
      BY <3>2, ReviewConstants DEF Positions
    <3> QED
      BY <2>2, <3>2, <3>3 DEF NextItem, ReviewTypes
  <2> QED
    BY <2>1, <2>2
<1>4. outcome' \in [Managers -> [Positions -> {"none", "queued", "running"} \cup Ended]]
  <2> DEFINE new == [p \in Positions |->
                     CASE p = current[m] -> how
                       [] p # current[m] /\ queue[m] # <<>> /\ p = Head(queue[m]) ->
                              "running"
                       [] OTHER -> outcome[m][p]]
  <2>1. new \in [Positions -> {"none", "queued", "running"} \cup Ended]
    <3> SUFFICES ASSUME NEW p \in Positions
                 PROVE  new[p] \in {"none", "queued", "running"} \cup Ended
      OBVIOUS
    <3>1. outcome[m][p] \in {"none", "queued", "running"} \cup Ended
      BY DEF ReviewTypes
    <3> QED
      BY <3>1
  <2>2. outcome' = [outcome EXCEPT ![m] = new]
    BY DEF NextItem, ReviewTypes
  <2> HIDE DEF new
  <2> QED
    BY <2>1, <2>2 DEF ReviewTypes
<1> QED
  BY <1>1, <1>2, <1>3, <1>4

LEMMA ReviewTypeInit == RvInit => ReviewTypes
<1> SUFFICES ASSUME RvInit PROVE ReviewTypes
  OBVIOUS
<1>1. 0 \in 0 .. Interval /\ 0 \in 0 .. MaxPositions /\ 0 \in 0 .. MaxTurns
  BY ReviewConstants
<1>2. <<>> \in Seq(Positions)
  OBVIOUS
<1> QED
  BY <1>1, <1>2 DEF RvInit, ReviewTypes

LEMMA ReviewTypeStep == ReviewTypes /\ [RvNext]_rvars => ReviewTypes'
<1> SUFFICES ASSUME ReviewTypes, [RvNext]_rvars PROVE ReviewTypes'
  OBVIOUS
<1>a. ASSUME UNCHANGED reviewVars PROVE ReviewTypes'
  BY <1>a DEF reviewVars, ReviewTypes
<1>1. ASSUME NEW m \in Managers, AfterModel(m) PROVE ReviewTypes'
  <2>1. rounds[m] + 1 \in 0 .. Interval
    <3>1. rounds[m] \in 0 .. Interval /\ rounds[m] < Interval
      BY <1>1 DEF AfterModel, ReviewTypes
    <3> QED
      BY <3>1, ReviewConstants
  <2>2. rounds' \in [Managers -> 0 .. Interval]
    BY <1>1, <2>1 DEF AfterModel, ReviewTypes
  <2> QED
    BY <1>1, <2>2 DEF AfterModel, ReviewTypes
<1>2. ASSUME NEW m \in Managers, NEW p \in Positions, NEW saved \in BOOLEAN,
             AfterAgent(m, p, saved)
      PROVE  ReviewTypes'
  <2>1. 0 \in 0 .. Interval /\ p \in 0 .. MaxPositions
    BY ReviewConstants DEF Positions
  <2>2. rounds' \in [Managers -> 0 .. Interval] /\ lastSubmitted' \in [Managers -> 0 .. MaxPositions]
    BY <1>2, <2>1 DEF AfterAgent, ReviewTypes
  <2>3. accepted' \in [Managers -> SUBSET Positions]
    BY <1>2 DEF AfterAgent, ReviewTypes
  <2>4. queue' \in [Managers -> Seq(Positions)]
    <3>1. Append(queue[m], p) \in Seq(Positions)
      BY AppendProperties DEF ReviewTypes
    <3> QED
      BY <1>2, <3>1 DEF AfterAgent, ReviewTypes
  <2>5. outcome' \in [Managers -> [Positions -> {"none", "queued", "running"} \cup Ended]]
    <3>1. [outcome[m] EXCEPT ![p] = "queued"] \in [Positions -> {"none", "queued", "running"} \cup Ended]
      BY DEF ReviewTypes
    <3>2. outcome' = [outcome EXCEPT ![m] = [outcome[m] EXCEPT ![p] = "queued"]]
      BY <1>2 DEF AfterAgent, ReviewTypes
    <3> QED
      BY <3>1, <3>2 DEF ReviewTypes
  <2>6. worker' \in [Managers -> {"none", "new", "locking", "thinking", "tools", "done"}]
    BY <1>2 DEF AfterAgent, ReviewTypes
  <2> QED
    BY <1>2, <2>2, <2>3, <2>4, <2>5, <2>6 DEF AfterAgent, ReviewTypes
<1>3. ASSUME NEW m \in Managers, StartTask(m) PROVE ReviewTypes'
  <2>1. NextItem(m, "none")
    BY <1>3 DEF StartTask
  <2> QED
    BY <1>3, <2>1, NextItemTypes DEF StartTask, ReviewTypes
<1>4. ASSUME NEW m \in Managers, TakeReviewLock(m) PROVE ReviewTypes'
  BY <1>4 DEF TakeReviewLock, ReviewTypes
<1>5. ASSUME NEW m \in Managers, AnswersWithCalls(m) PROVE ReviewTypes'
  <2>1. turns[m] + 1 \in 0 .. MaxTurns
    <3>1. turns[m] \in 0 .. MaxTurns /\ turns[m] < MaxTurns
      BY <1>5 DEF AnswersWithCalls, TurnsLeft, ReviewTypes
    <3> QED
      BY <3>1, ReviewConstants
  <2>2. turns' \in [Managers -> 0 .. MaxTurns]
    BY <1>5, <2>1 DEF AnswersWithCalls, ReviewTypes
  <2> QED
    BY <1>5, <2>2 DEF AnswersWithCalls, ReviewTypes
<1>6. ASSUME NEW m \in Managers, ToolsDone(m) PROVE ReviewTypes'
  BY <1>6 DEF ToolsDone, ReviewTypes
<1>7. ASSUME NEW m \in Managers, ReviewEnds(m) \/ ReviewFails(m) PROVE ReviewTypes'
  <2>1. PICK how \in {"reviewed", "failed"} : EndReview(m, how)
    BY <1>7 DEF ReviewEnds, ReviewFails
  <2>2. NextItem(m, how) /\ how \in {"none"} \cup Ended
    BY <2>1 DEF EndReview, Ended
  <2>3. reviewHolder' \in Managers \cup {"none"}
    BY <2>1 DEF EndReview, ReviewTypes
  <2> QED
    BY <2>1, <2>2, <2>3, NextItemTypes DEF EndReview, ReviewTypes
<1>8. ASSUME NEW m \in Managers, Close(m) \/ CloseEnds(m) PROVE ReviewTypes'
  BY <1>8 DEF Close, CloseEnds, ReviewTypes
<1>9. ASSUME NEW m \in Managers, CloseTimesOut(m) PROVE ReviewTypes'
  <2> DEFINE new == [p \in Positions |-> CASE outcome[m][p] = "running" -> "cut"
                                         [] outcome[m][p] = "queued" -> "dropped"
                                         [] OTHER -> outcome[m][p]]
  <2>1. new \in [Positions -> {"none", "queued", "running"} \cup Ended]
    <3> SUFFICES ASSUME NEW p \in Positions
                 PROVE  new[p] \in {"none", "queued", "running"} \cup Ended
      OBVIOUS
    <3>1. outcome[m][p] \in {"none", "queued", "running"} \cup Ended
      BY DEF ReviewTypes
    <3> QED
      BY <3>1 DEF Ended
  <2>2. outcome' = [outcome EXCEPT ![m] = new]
    BY <1>9 DEF CloseTimesOut, ReviewTypes
  <2> HIDE DEF new
  <2>3. outcome' \in [Managers -> [Positions -> {"none", "queued", "running"} \cup Ended]]
    BY <2>1, <2>2 DEF ReviewTypes
  <2>4. current' \in [Managers -> 0 .. MaxPositions] /\ queue' \in [Managers -> Seq(Positions)]
    <3>1. 0 \in 0 .. MaxPositions /\ <<>> \in Seq(Positions)
      BY ReviewConstants
    <3> QED
      BY <1>9, <3>1 DEF CloseTimesOut, ReviewTypes
  <2>5. reviewHolder' \in Managers \cup {"none"}
    BY <1>9 DEF CloseTimesOut, ReviewTypes
  <2> QED
    BY <1>9, <2>3, <2>4, <2>5 DEF CloseTimesOut, ReviewTypes
<1>10. ASSUME NEW m \in Managers, ToolStep(m) PROVE ReviewTypes'
  BY <1>a, <1>10 DEF ToolStep
<1>11. CASE AgentNext \/ (Outside /\ UNCHANGED reviewVars)
  BY <1>a, <1>11 DEF AgentNext
<1>12. CASE UNCHANGED rvars
  BY <1>a, <1>12 DEF rvars
<1> QED
  BY <1>1, <1>2, <1>3, <1>4, <1>5, <1>6, <1>7, <1>8, <1>9, <1>10, <1>11, <1>12
     DEF RvNext, ManagerNext

(* Type correctness of the store and of the managers together.               *)
THEOREM ReviewTypeCorrect == RvSpec => []RvTypeOK
<1>1. RvSpec => []ReviewTypes
  BY ReviewTypeInit, ReviewTypeStep, PTL DEF RvSpec
<1>2. StoreInv /\ ReviewTypes => RvTypeOK
  BY DEF StoreInv, ReviewTypes, RvTypeOK
<1> QED
  BY <1>1, <1>2, StoreInvariant, ReviewImplementsStore, PTL
-----------------------------------------------------------------------------
(* What a manager knows of its positions agrees with its queue and its task. *)

Accounted(m) ==
  /\ queue[m] # <<>> => worker[m] \notin {"none", "done"}
  /\ Distinct(queue[m])
  /\ ~Busy(m) => current[m] = 0
  /\ \A p \in Positions :
       /\ (p \in accepted[m]) <=> (outcome[m][p] # "none")
       /\ (outcome[m][p] = "queued") <=> Has(queue[m], p)
       /\ (outcome[m][p] = "running") <=> (Busy(m) /\ current[m] = p)
       /\ outcome[m][p] \in {"cut", "dropped"} => phase[m] = "closed"

AllAccounted == \A m \in Managers : Accounted(m)

LEMMA AccountedInit == RvInit => AllAccounted
BY EmptyHas DEF RvInit, AllAccounted, Accounted, Busy

(* Another manager's step changes nothing here.                              *)
LEMMA AccountedFrame ==
  ASSUME NEW m \in Managers, Accounted(m), queue'[m] = queue[m], current'[m] = current[m],
         accepted'[m] = accepted[m], outcome'[m] = outcome[m],
         worker'[m] = worker[m] \/ (Busy(m) /\ Busy(m)'),
         phase'[m] = phase[m] \/ phase[m] # "closed"
  PROVE  Accounted(m)'
BY DEF Accounted, Busy

(* The loop of _run: the position under review ends, the next one runs.      *)
LEMMA NextItemAccounts ==
  ASSUME ReviewTypes, NEW m \in Managers, Accounted(m), NEW how, NextItem(m, how),
         UNCHANGED <<accepted, phase>>,
         \/ Busy(m) /\ how \in {"reviewed", "failed"}
         \/ worker[m] = "new"
  PROVE  Accounted(m)'
<1>a. /\ queue[m] \in Seq(Positions) /\ current[m] \in 0 .. MaxPositions /\ MaxPositions \in Nat
      /\ 0 \notin Positions
  BY ReviewConstants DEF ReviewTypes, Positions
<1>b. \A p \in Positions : outcome'[m][p] =
          CASE p = current[m] -> how
            [] p # current[m] /\ queue[m] # <<>> /\ p = Head(queue[m]) -> "running"
            [] OTHER -> outcome[m][p]
  BY DEF NextItem, ReviewTypes
<1>c. ~Busy(m) => current[m] = 0
  BY DEF Accounted
<1>d. ASSUME NEW p \in Positions, p = current[m]
      PROVE  Busy(m) /\ how \in {"reviewed", "failed"} /\ outcome[m][p] = "running" /\ ~Has(queue[m], p)
  BY <1>a, <1>c, <1>d DEF Accounted, Busy
<1>1. CASE queue[m] = <<>>
  <2>1. queue'[m] = <<>> /\ worker'[m] = "done" /\ current'[m] = 0
    BY <1>1 DEF NextItem, ReviewTypes
  <2>2. ASSUME NEW p \in Positions
        PROVE  /\ (p \in accepted'[m]) <=> (outcome'[m][p] # "none")
               /\ outcome'[m][p] \notin {"queued", "running"}
               /\ outcome'[m][p] \in {"cut", "dropped"} => phase'[m] = "closed"
    <3>1. CASE p = current[m]
      BY <1>b, <1>d, <3>1 DEF Accounted
    <3>2. CASE p # current[m]
      <4>1. outcome'[m][p] = outcome[m][p] /\ ~Has(queue[m], p)
        BY <1>1, <1>b, <3>2, EmptyHas
      <4> QED
        BY <3>2, <4>1 DEF Accounted
    <3> QED
      BY <3>1, <3>2
  <2> QED
    BY <2>1, <2>2, EmptyHas DEF Accounted, Busy
<1>2. CASE queue[m] # <<>>
  <2> DEFINE h == Head(queue[m])
  <2>1. queue'[m] = Tail(queue[m]) /\ worker'[m] = "locking" /\ current'[m] = h
    BY <1>2 DEF NextItem, ReviewTypes
  <2>2. Distinct(queue[m])
    BY DEF Accounted
  <2>3. /\ h \in Positions /\ Distinct(queue'[m])
        /\ Has(queue[m], h) /\ \A p : Has(queue'[m], p) <=> p # h /\ Has(queue[m], p)
    BY <1>2, <1>a, <2>1, <2>2, TailHas
  <2>4. h # current[m]
    BY <1>d, <2>3
  <2> HIDE DEF h
  <2>5. \A p \in Positions : outcome'[m][p] = IF p = current[m] THEN how
                                             ELSE IF p = h THEN "running" ELSE outcome[m][p]
    BY <1>b, <1>2 DEF h
  <2>6. ASSUME NEW p \in Positions
        PROVE  /\ (p \in accepted'[m]) <=> (outcome'[m][p] # "none")
               /\ (outcome'[m][p] = "queued") <=> Has(queue'[m], p)
               /\ (outcome'[m][p] = "running") <=> p = h
               /\ outcome'[m][p] \in {"cut", "dropped"} => phase'[m] = "closed"
    <3>1. CASE p = current[m]
      BY <1>d, <2>3, <2>4, <2>5, <3>1 DEF Accounted
    <3>2. CASE p = h
      BY <2>3, <2>4, <2>5, <3>2 DEF Accounted
    <3>3. CASE p # current[m] /\ p # h
      BY <2>3, <2>5, <3>3 DEF Accounted
    <3> QED
      BY <3>1, <3>2, <3>3
  <2>7. Busy(m)'
    BY <2>1 DEF Busy
  <2> QED
    BY <2>1, <2>3, <2>6, <2>7 DEF Accounted, Busy
<1> QED
  BY <1>1, <1>2

LEMMA NextItemFrame ==
  ASSUME ReviewTypes, NEW m \in Managers, NEW how, NextItem(m, how),
         NEW n \in Managers, n # m
  PROVE  /\ queue'[n] = queue[n] /\ current'[n] = current[n] /\ outcome'[n] = outcome[n]
         /\ worker'[n] = worker[n]
BY DEF NextItem, ReviewTypes

LEMMA AccountedStep == ReviewTypes /\ AllAccounted /\ [RvNext]_rvars => AllAccounted'
<1> SUFFICES ASSUME ReviewTypes, AllAccounted, [RvNext]_rvars, NEW n \in Managers
             PROVE  Accounted(n)'
  BY DEF AllAccounted
<1>a. Accounted(n)
  BY DEF AllAccounted
<1>b. ASSUME UNCHANGED reviewVars PROVE Accounted(n)'
  BY <1>a, <1>b, AccountedFrame DEF reviewVars
<1>1. ASSUME NEW m \in Managers, AfterModel(m) PROVE Accounted(n)'
  BY <1>a, <1>1, AccountedFrame DEF AfterModel
<1>2. ASSUME NEW m \in Managers, NEW p \in Positions, NEW saved \in BOOLEAN,
             AfterAgent(m, p, saved)
      PROVE  Accounted(n)'
  <2>1. CASE n # m
    BY <1>a, <1>2, <2>1, AccountedFrame DEF AfterAgent, ReviewTypes
  <2>2. CASE n = m
    <3>1. /\ accepted'[m] = accepted[m] \cup {p} /\ queue'[m] = Append(queue[m], p)
          /\ current'[m] = current[m] /\ phase'[m] = phase[m] /\ p \notin accepted[m]
      BY <1>2 DEF AfterAgent, ReviewTypes, Accepts
    <3>2. \A r \in Positions : outcome'[m][r] = IF r = p THEN "queued" ELSE outcome[m][r]
      BY <1>2 DEF AfterAgent, ReviewTypes
    <3>3. /\ worker'[m] \notin {"none", "done"}
          /\ worker'[m] = worker[m] \/ (worker[m] \in {"none", "done"} /\ worker'[m] = "new")
      BY <1>2 DEF AfterAgent, StartsWorker, ReviewTypes
    <3>4. Busy(m)' <=> Busy(m)
      BY <3>3 DEF Busy
    <3>5. outcome[m][p] = "none" /\ ~Has(queue[m], p) /\ ~(Busy(m) /\ current[m] = p)
      BY <1>a, <2>2, <3>1 DEF Accounted
    <3>6. /\ Distinct(queue'[m])
          /\ \A r : Has(queue'[m], r) <=> r = p \/ Has(queue[m], r)
      BY <1>a, <2>2, <3>1, <3>5, AppendHas DEF Accounted, ReviewTypes
    <3>7. ASSUME NEW r \in Positions
          PROVE  /\ (r \in accepted'[m]) <=> (outcome'[m][r] # "none")
                 /\ (outcome'[m][r] = "queued") <=> Has(queue'[m], r)
                 /\ (outcome'[m][r] = "running") <=> (Busy(m)' /\ current'[m] = r)
                 /\ outcome'[m][r] \in {"cut", "dropped"} => phase'[m] = "closed"
      BY <1>a, <2>2, <3>1, <3>2, <3>4, <3>5, <3>6 DEF Accounted
    <3>8. ~Busy(m)' => current'[m] = 0
      BY <1>a, <2>2, <3>1, <3>4 DEF Accounted
    <3> QED
      BY <2>2, <3>3, <3>6, <3>7, <3>8 DEF Accounted
  <2> QED
    BY <2>1, <2>2
<1>3. ASSUME NEW m \in Managers, StartTask(m) PROVE Accounted(n)'
  <2>1. NextItem(m, "none") /\ worker[m] = "new" /\ UNCHANGED <<accepted, phase>>
    BY <1>3 DEF StartTask
  <2>2. CASE n # m
    BY <1>a, <2>1, <2>2, NextItemFrame, AccountedFrame
  <2>3. CASE n = m
    BY <1>a, <2>1, <2>3, NextItemAccounts
  <2> QED
    BY <2>2, <2>3
<1>4. ASSUME NEW m \in Managers, TakeReviewLock(m) \/ AnswersWithCalls(m) \/ ToolsDone(m)
      PROVE  Accounted(n)'
  <2>1. /\ worker'[n] = worker[n] \/ (Busy(n) /\ Busy(n)')
        /\ UNCHANGED <<queue, current, accepted, outcome, phase>>
    BY <1>4 DEF TakeReviewLock, AnswersWithCalls, ToolsDone, Busy, ReviewTypes
  <2> QED
    BY <1>a, <2>1, AccountedFrame
<1>5. ASSUME NEW m \in Managers, ReviewEnds(m) \/ ReviewFails(m) PROVE Accounted(n)'
  <2>1. PICK how \in {"reviewed", "failed"} : EndReview(m, how)
    BY <1>5 DEF ReviewEnds, ReviewFails
  <2>2. NextItem(m, how) /\ Busy(m) /\ UNCHANGED <<accepted, phase>>
    BY <1>5, <2>1 DEF EndReview, ReviewEnds, ReviewFails, Busy
  <2>3. CASE n # m
    BY <1>a, <2>2, <2>3, NextItemFrame, AccountedFrame
  <2>4. CASE n = m
    BY <1>a, <2>2, <2>4, NextItemAccounts
  <2> QED
    BY <2>3, <2>4
<1>6. ASSUME NEW m \in Managers, Close(m) \/ CloseEnds(m) PROVE Accounted(n)'
  <2>1. phase'[n] = phase[n] \/ phase[n] # "closed"
    BY <1>6 DEF Close, CloseEnds, ReviewTypes
  <2> QED
    BY <1>a, <1>6, <2>1, AccountedFrame DEF Close, CloseEnds
<1>7. ASSUME NEW m \in Managers, CloseTimesOut(m) PROVE Accounted(n)'
  <2>1. CASE n # m
    BY <1>a, <1>7, <2>1, AccountedFrame DEF CloseTimesOut, ReviewTypes
  <2>2. CASE n = m
    <3>1. /\ phase'[m] = "closed" /\ worker'[m] = "done" /\ current'[m] = 0
          /\ queue'[m] = <<>> /\ accepted'[m] = accepted[m]
      BY <1>7 DEF CloseTimesOut, ReviewTypes
    <3>2. \A p \in Positions : outcome'[m][p] =
             CASE outcome[m][p] = "running" -> "cut"
               [] outcome[m][p] = "queued" -> "dropped"
               [] OTHER -> outcome[m][p]
      BY <1>7 DEF CloseTimesOut, ReviewTypes
    <3>3. ASSUME NEW p \in Positions
          PROVE  outcome'[m][p] \notin {"running", "queued"}
                 /\ ((outcome'[m][p] # "none") <=> (outcome[m][p] # "none"))
      BY <3>2
    <3>4. \A p \in Positions : (p \in accepted[m]) <=> (outcome[m][p] # "none")
      BY <1>a, <2>2 DEF Accounted
    <3>5. ~Busy(m)' /\ Distinct(queue'[m]) /\ \A p : ~Has(queue'[m], p)
      BY <3>1, EmptyHas DEF Busy
    <3>6. ASSUME NEW p \in Positions
          PROVE  /\ (p \in accepted'[m]) <=> (outcome'[m][p] # "none")
                 /\ (outcome'[m][p] = "queued") <=> Has(queue'[m], p)
                 /\ (outcome'[m][p] = "running") <=> (Busy(m)' /\ current'[m] = p)
      <4>1. (p \in accepted'[m]) <=> (outcome'[m][p] # "none")
        <5>1. (p \in accepted'[m]) <=> (p \in accepted[m])
          BY <3>1
        <5> QED
          BY <5>1, <3>3, <3>4
      <4>2. outcome'[m][p] \notin {"running", "queued"}
        BY <3>3
      <4>3. ~Has(queue'[m], p)
        BY <3>5
      <4>4. ~Busy(m)'
        BY <3>5
      <4> QED
        BY <4>1, <4>2, <4>3, <4>4
    <3> QED
      BY <2>2, <3>1, <3>5, <3>6 DEF Accounted
  <2> QED
    BY <2>1, <2>2
<1>8. ASSUME NEW m \in Managers, ToolStep(m) PROVE Accounted(n)'
  BY <1>b, <1>8 DEF ToolStep
<1>9. CASE AgentNext \/ (Outside /\ UNCHANGED reviewVars)
  BY <1>b, <1>9 DEF AgentNext
<1>10. CASE UNCHANGED rvars
  BY <1>b, <1>10 DEF rvars
<1> QED
  BY <1>1, <1>2, <1>3, <1>4, <1>5, <1>6, <1>7, <1>8, <1>9, <1>10 DEF RvNext, ManagerNext

LEMMA ReviewInvariant == RvSpec => [](ReviewTypes /\ AllAccounted)
BY ReviewTypeInit, ReviewTypeStep, AccountedInit, AccountedStep, PTL DEF RvSpec

(* Nothing a manager accepts is stranded or lost sight of.                   *)
THEOREM AcceptedIsAccountedForCorrect == RvSpec => []AcceptedIsAccountedFor
<1>1. AllAccounted => AcceptedIsAccountedFor
  BY DEF AllAccounted, Accounted, AcceptedIsAccountedFor, Has
<1> QED
  BY <1>1, ReviewInvariant, PTL
-----------------------------------------------------------------------------
(* A manager whose close() has returned has no task and no queue, and the    *)
(* thread of a review that is over has nothing to do, or is cancelled.       *)

Stopped(m) ==
  /\ phase[m] = "closed" => worker[m] \in {"none", "done"} /\ queue[m] = <<>>
  /\ ~Busy(m) => cancelled[m] \/ pc[m] = "idle"

AllStopped == \A m \in Managers : Stopped(m)

ReviewInv == SkTypeOK /\ ReviewTypes /\ AllAccounted /\ AllStopped

LEMMA OthersStay ==
  ASSUME SkTypeOK, NEW c \in Callers, NEW d \in Callers, c # d,
         Begin(c) \/ Continue(c) \/ Cancel(c) \/ NewStore(c)
  PROVE  pc'[d] = pc[d] /\ cancelled'[d] = cancelled[d]
BY DEF SkTypeOK, Begin, Continue, View, Ask, GiveUp, Admit, Handle, Write, WriteFails,
   DeleteFailsHalfway, Leave, Cancel, NewStore

LEMMA WorkKeepsCancelled == \A c : Begin(c) \/ Continue(c) => cancelled' = cancelled
BY DEF Begin, Continue, View, Ask, GiveUp, Admit, Handle, Write, WriteFails, DeleteFailsHalfway

LEMMA StoppedInit == RvInit => AllStopped
BY CallersAre DEF RvInit, SkInit, AllStopped, Stopped

LEMMA StoppedStep == ReviewInv /\ [RvNext]_rvars => AllStopped'
<1> SUFFICES ASSUME ReviewInv, [RvNext]_rvars, NEW n \in Managers PROVE Stopped(n)'
  BY DEF AllStopped
<1>a. /\ SkTypeOK /\ ReviewTypes /\ Stopped(n) /\ n \in Callers
      /\ queue[n] # <<>> => worker[n] \notin {"none", "done"}
  BY CallersAre DEF ReviewInv, AllStopped, AllAccounted, Accounted
<1>b. ASSUME worker'[n] = worker[n], queue'[n] = queue[n], phase'[n] = phase[n],
             pc'[n] = pc[n], cancelled'[n] = cancelled[n]
      PROVE  Stopped(n)'
  BY <1>a, <1>b DEF Stopped, Busy
<1>1. ASSUME NEW m \in Managers, AfterModel(m) PROVE Stopped(n)'
  BY <1>b, <1>1 DEF AfterModel, storeVars
<1>2. ASSUME NEW m \in Managers, NEW p \in Positions, NEW saved \in BOOLEAN,
             AfterAgent(m, p, saved)
      PROVE  Stopped(n)'
  <2>1. CASE n # m
    BY <1>a, <1>b, <1>2, <2>1 DEF AfterAgent, ReviewTypes, storeVars
  <2>2. CASE n = m
    <3>1. /\ phase'[m] # "closed" /\ UNCHANGED <<pc, cancelled>>
          /\ worker'[m] = worker[m] \/ (worker[m] \in {"none", "done"} /\ worker'[m] = "new")
      BY <1>2 DEF AfterAgent, Accepts, StartsWorker, ReviewTypes, storeVars
    <3>2. Busy(m)' <=> Busy(m)
      BY <3>1 DEF Busy
    <3> QED
      BY <1>a, <2>2, <3>1, <3>2 DEF Stopped
  <2> QED
    BY <2>1, <2>2
<1>3. ASSUME NEW m \in Managers, StartTask(m) PROVE Stopped(n)'
  <2>1. /\ NextItem(m, "none") /\ worker[m] = "new"
        /\ UNCHANGED <<pc, cancelled, phase>>
    BY <1>3 DEF StartTask, storeVars
  <2>2. CASE n # m
    BY <1>b, <1>a, <2>1, <2>2, NextItemFrame
  <2>3. CASE n = m
    BY <1>a, <2>1, <2>3 DEF Stopped, Busy
  <2> QED
    BY <2>2, <2>3
<1>4. ASSUME NEW m \in Managers, TakeReviewLock(m) PROVE Stopped(n)'
  <2>1. NewStore(m) /\ worker[m] = "locking" /\ worker' = [worker EXCEPT ![m] = "thinking"]
        /\ UNCHANGED <<queue, phase>>
    BY <1>4 DEF TakeReviewLock
  <2>2. CASE n # m
    <3>1. pc'[n] = pc[n] /\ cancelled'[n] = cancelled[n]
      BY <1>a, <2>1, <2>2, OthersStay, CallersAre
    <3> QED
      BY <1>a, <1>b, <2>1, <2>2, <3>1 DEF ReviewTypes
  <2>3. CASE n = m
    BY <1>a, <2>1, <2>3 DEF Stopped, Busy, ReviewTypes
  <2> QED
    BY <2>2, <2>3
<1>5. ASSUME NEW m \in Managers, AnswersWithCalls(m) \/ ToolsDone(m) PROVE Stopped(n)'
  <2>1. CASE n # m
    BY <1>a, <1>b, <1>5, <2>1 DEF AnswersWithCalls, ToolsDone, ReviewTypes, storeVars
  <2>2. CASE n = m
    BY <1>a, <1>5, <2>2 DEF AnswersWithCalls, ToolsDone, ReviewTypes, Stopped, Busy
  <2> QED
    BY <2>1, <2>2
<1>6. ASSUME NEW m \in Managers, ToolStep(m) PROVE Stopped(n)'
  <2>1. /\ Begin(m) \/ Continue(m)
        /\ cancelled' = cancelled
        /\ worker[m] = "tools" \/ pc[m] \in {"wait", "handler", "write"}
        /\ UNCHANGED <<worker, queue, phase>>
    BY <1>6, WorkKeepsCancelled DEF ToolStep, reviewVars
  <2>2. CASE n # m
    <3>1. pc'[n] = pc[n] /\ cancelled'[n] = cancelled[n]
      BY <1>a, <2>1, <2>2, OthersStay, CallersAre
    <3> QED
      BY <1>b, <2>1, <3>1
  <2>3. CASE n = m
    <3>1. cancelled' = cancelled
      BY <1>6, WorkKeepsCancelled DEF ToolStep
    <3> QED
      BY <1>a, <2>1, <2>3, <3>1 DEF Stopped, Busy
  <2> QED
    BY <2>2, <2>3
<1>7. ASSUME NEW m \in Managers, ReviewEnds(m) \/ ReviewFails(m) PROVE Stopped(n)'
  <2>1. PICK how \in {"reviewed", "failed"} : EndReview(m, how)
    BY <1>7 DEF ReviewEnds, ReviewFails
  <2>2. NextItem(m, how) /\ Cancel(m) /\ Busy(m) /\ UNCHANGED phase
    BY <1>7, <2>1 DEF EndReview, ReviewEnds, ReviewFails, Busy
  <2>3. CASE n # m
    <3>1. pc'[n] = pc[n] /\ cancelled'[n] = cancelled[n]
      BY <1>a, <2>2, <2>3, OthersStay, CallersAre
    <3> QED
      BY <1>a, <1>b, <2>2, <2>3, <3>1, NextItemFrame
  <2>4. CASE n = m
    <3>1. phase[m] # "closed"
      BY <1>a, <2>2, <2>4 DEF Stopped, Busy
    <3>2. cancelled'[m]
      BY <1>a, <2>2, CallersAre DEF Cancel, SkTypeOK
    <3> QED
      BY <2>2, <2>4, <3>1, <3>2 DEF Stopped
  <2> QED
    BY <2>3, <2>4
<1>8. ASSUME NEW m \in Managers, Close(m) \/ CloseEnds(m) PROVE Stopped(n)'
  <2>1. UNCHANGED <<worker, queue, pc, cancelled>>
    BY <1>8 DEF Close, CloseEnds, storeVars
  <2>2. phase'[n] = phase[n] \/ worker[n] \in {"none", "done"} \/ phase'[n] # "closed"
    <3>1. CASE n # m
      BY <1>a, <1>8, <3>1 DEF Close, CloseEnds, ReviewTypes
    <3>2. CASE n = m
      BY <1>a, <1>8, <3>2 DEF Close, CloseEnds, ReviewTypes
    <3> QED
      BY <3>1, <3>2
  <2> QED
    BY <1>a, <2>1, <2>2 DEF Stopped, Busy
<1>9. ASSUME NEW m \in Managers, CloseTimesOut(m) PROVE Stopped(n)'
  <2>1. CASE n # m
    <3>1. pc'[n] = pc[n] /\ cancelled'[n] = cancelled[n]
      BY <1>a, <1>9, <2>1, OthersStay, CallersAre DEF CloseTimesOut, storeVars
    <3> QED
      BY <1>a, <1>b, <1>9, <2>1, <3>1 DEF CloseTimesOut, ReviewTypes
  <2>2. CASE n = m
    <3>1. worker'[m] = "done" /\ queue'[m] = <<>>
      BY <1>a, <1>9 DEF CloseTimesOut, ReviewTypes
    <3>2. CASE Busy(m)
      <4>1. cancelled'[m]
        BY <1>a, <1>9, <3>2, CallersAre DEF CloseTimesOut, Cancel, SkTypeOK
      <4> QED
        BY <2>2, <3>1, <4>1 DEF Stopped
    <3>3. CASE ~Busy(m)
      <4>1. UNCHANGED <<pc, cancelled>>
        BY <1>9, <3>3 DEF CloseTimesOut, storeVars
      <4> QED
        BY <1>a, <2>2, <3>1, <3>3, <4>1 DEF Stopped
    <3> QED
      BY <3>2, <3>3
  <2> QED
    BY <2>1, <2>2
<1>10. CASE AgentNext
  <2>1. PICK c \in Foreground : (Begin(c) \/ Continue(c)) /\ UNCHANGED reviewVars
    BY <1>10 DEF AgentNext
  <2>2. c # n
    BY SkillAssumption DEF Managers
  <2>3. pc'[n] = pc[n] /\ cancelled'[n] = cancelled[n]
    BY <1>a, <2>1, <2>2, OthersStay, CallersAre
  <2> QED
    BY <1>b, <2>1, <2>3 DEF reviewVars
<1>11. CASE Outside /\ UNCHANGED reviewVars
  BY <1>b, <1>11 DEF Outside, FileTool, reviewVars
<1>12. CASE UNCHANGED rvars
  BY <1>b, <1>12 DEF rvars, storeVars, reviewVars
<1> QED
  BY <1>1, <1>2, <1>3, <1>4, <1>5, <1>6, <1>7, <1>8, <1>9, <1>10, <1>11, <1>12
     DEF RvNext, ManagerNext

LEMMA StoppedInvariant == RvSpec => []ReviewInv
<1>1. RvInit => ReviewInv
  BY ReviewTypeInit, AccountedInit, StoppedInit, StoreTypeInit DEF RvInit, ReviewInv
<1>2. ReviewInv /\ [RvNext]_rvars => ReviewInv'
  <2>1. ReviewInv => SkTypeOK /\ ReviewTypes /\ AllAccounted
    BY DEF ReviewInv
  <2> QED
    BY <2>1, ReviewTypeStep, AccountedStep, StoppedStep, StoreTypeStep, ReviewStepIsStoreStep
       DEF ReviewInv
<1> QED
  BY <1>1, <1>2, PTL DEF RvSpec

(* A closed manager stays closed, and what its last review has left behind   *)
(* comes no further than the lock.                                           *)
LEMMA ClosedStep ==
  ASSUME ReviewInv, [RvNext]_rvars, NEW n \in Managers, phase[n] = "closed"
  PROVE  /\ phase'[n] = "closed" /\ accepted'[n] = accepted[n]
         /\ ~InsideLock(n) => ~InsideLock(n)'
<1>a. /\ SkTypeOK /\ ReviewTypes /\ n \in Callers
      /\ worker[n] \in {"none", "done"} /\ (cancelled[n] \/ pc[n] = "idle")
  BY CallersAre DEF ReviewInv, AllStopped, Stopped, Busy
<1>1. ASSUME NEW m \in Managers, AfterModel(m) \/ Close(m) \/ CloseEnds(m)
                                  \/ AnswersWithCalls(m) \/ ToolsDone(m) \/ StartTask(m)
      PROVE  phase'[n] = "closed" /\ accepted'[n] = accepted[n] /\ pc' = pc
  BY <1>a, <1>1 DEF AfterModel, Close, CloseEnds, AnswersWithCalls, ToolsDone, StartTask,
     ReviewTypes, storeVars
<1>2. ASSUME NEW m \in Managers, NEW p \in Positions, NEW saved \in BOOLEAN,
             AfterAgent(m, p, saved)
      PROVE  phase'[n] = "closed" /\ accepted'[n] = accepted[n] /\ pc' = pc
  BY <1>a, <1>2 DEF AfterAgent, Accepts, ReviewTypes, storeVars
<1>3. ASSUME NEW m \in Managers, TakeReviewLock(m) \/ ReviewEnds(m) \/ ReviewFails(m)
                                 \/ CloseTimesOut(m)
      PROVE  /\ phase'[n] = "closed" /\ accepted'[n] = accepted[n]
             /\ ~InsideLock(n) => ~InsideLock(n)'
  <2>1. ~InsideLock(n) => ~InsideLock(n)'
    BY <1>a, <1>3 DEF TakeReviewLock, ReviewEnds, ReviewFails, EndReview, CloseTimesOut,
       Cancel, NewStore, InsideLock, SkTypeOK, storeVars
  <2> QED
    BY <1>a, <1>3, <2>1 DEF TakeReviewLock, ReviewEnds, ReviewFails, EndReview,
       CloseTimesOut, ReviewTypes
<1>4. ASSUME NEW c \in Callers, c # n, Begin(c) \/ Continue(c), UNCHANGED reviewVars
      PROVE  /\ phase'[n] = "closed" /\ accepted'[n] = accepted[n] /\ pc'[n] = pc[n]
  BY <1>a, <1>4, OthersStay DEF reviewVars
<1>5. ASSUME ToolStep(n)
      PROVE  /\ phase'[n] = "closed" /\ accepted'[n] = accepted[n]
             /\ ~InsideLock(n) => ~InsideLock(n)'
  <2>1. Continue(n) /\ pc[n] \in {"wait", "handler", "write"} /\ cancelled[n]
    BY <1>a, <1>5 DEF ToolStep
  <2>2. ~InsideLock(n) => ~InsideLock(n)'
    BY <1>a, <2>1 DEF Continue, View, Ask, GiveUp, Admit, Handle, MayStart, InsideLock,
       Write, WriteFails, DeleteFailsHalfway, Leave, EndLookup, LookedUp, SkTypeOK
  <2> QED
    BY <1>5, <2>2 DEF ToolStep, reviewVars
<1>6. ASSUME NEW m \in Managers, ToolStep(m)
      PROVE  /\ phase'[n] = "closed" /\ accepted'[n] = accepted[n]
             /\ ~InsideLock(n) => ~InsideLock(n)'
  <2>1. CASE m = n
    BY <1>5, <1>6, <2>1
  <2>2. CASE m # n
    BY <1>4, <1>6, <2>2, CallersAre DEF ToolStep, InsideLock
  <2> QED
    BY <2>1, <2>2
<1>7. CASE AgentNext
  <2>1. PICK c \in Foreground : (Begin(c) \/ Continue(c)) /\ UNCHANGED reviewVars
    BY <1>7 DEF AgentNext
  <2>2. c # n
    BY SkillAssumption DEF Managers
  <2> QED
    BY <1>4, <2>1, <2>2, CallersAre DEF InsideLock
<1>8. CASE (Outside /\ UNCHANGED reviewVars) \/ UNCHANGED rvars
  BY <1>8 DEF Outside, FileTool, reviewVars, rvars, storeVars, InsideLock
<1> QED
  BY <1>1, <1>2, <1>3, <1>6, <1>7, <1>8 DEF RvNext, ManagerNext, InsideLock

(* After close() nothing of a manager goes on (close, cancel_event, manage). *)
THEOREM ClosedForGoodCorrect == RvSpec => ClosedForGood
<1> DEFINE Closed == \A m \in Managers :
         phase[m] = "closed" =>
            /\ worker'[m] \in {"none", "done"} /\ queue'[m] = <<>>
            /\ accepted'[m] = accepted[m]
            /\ ~InsideLock(m) => ~InsideLock(m)'
<1>1. ReviewInv /\ ReviewInv' /\ [RvNext]_rvars => [Closed]_rvars
  <2> SUFFICES ASSUME ReviewInv, ReviewInv', [RvNext]_rvars, NEW m \in Managers, phase[m] = "closed"
               PROVE  /\ worker'[m] \in {"none", "done"} /\ queue'[m] = <<>>
                      /\ accepted'[m] = accepted[m]
                      /\ ~InsideLock(m) => ~InsideLock(m)'
    OBVIOUS
  <2>1. /\ phase'[m] = "closed" /\ accepted'[m] = accepted[m]
        /\ ~InsideLock(m) => ~InsideLock(m)'
    BY ClosedStep
  <2>2. Stopped(m)'
    BY DEF ReviewInv, AllStopped
  <2> QED
    BY <2>1, <2>2 DEF Stopped
<1> HIDE DEF Closed
<1>2. RvSpec => [][Closed]_rvars
  BY <1>1, StoppedInvariant, PTL DEF RvSpec
<1> QED
  BY <1>2 DEF ClosedForGood, Closed
=============================================================================
