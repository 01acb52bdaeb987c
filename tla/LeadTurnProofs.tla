--------------------------- MODULE LeadTurnProofs ---------------------------
(* Proofs about MemoryStore, ModelCall and LeadTurn, for any number of lead  *)
(* processes, of tool calls at a time, of memories and of items of an        *)
(* extraction, and for conversations, answers and limits of any length.      *)
EXTENDS LeadTurn, FiniteSetTheorems, TLAPS

(* The memories.                                                             *)

(* A slot that is at work has a call.                                        *)
WorkHasCall == \A s \in Slots : stage[s] # "idle" => op[s] \in Op

(* An id is used before a memory has it, and is not used again: what a save  *)
(* is about to write has an id that was used and whose memory is not deleted *)
(* for good.  With that DeletedStaysDeleted is inductive.                    *)
UsedBeforeStored == \A i \in Ids : store[i] # None => i \in used
BuriedWasUsed    == buried \subseteq used
PutIsAlive       == \A s \in Slots : stage[s] = "put" =>
                       op[s].id \in used /\ op[s].id \notin buried

(* An explicit change is on record in the turn it happens in, an extraction  *)
(* begins without such a record, and while it runs its slots do nothing that *)
(* would make one.                                                           *)
ChangeIsWritten  == \A a \in Agents : changed[a] => written[a]
ExtractUnwritten == \A a \in Agents : turn[a] = "extract" => ~written[a]
ExtractOnlySaves == \A s \in Slots :
  turn[Owner[s]] = "extract" /\ stage[s] # "idle" =>
    stage[s] # "remove" /\ op[s].act \in {"extract", "create"}

DeletionInv == UsedBeforeStored /\ BuriedWasUsed /\ PutIsAlive /\ DeletedStaysDeleted
TurnInv     == ChangeIsWritten /\ ExtractUnwritten /\ ExtractOnlySaves
MemoryInv   == MemTypeOK /\ WorkHasCall /\ DeletionInv /\ TurnInv

(* Nothing is stored, used or under way at first.                            *)
LEMMA InitEstablishesInv == MemInit => MemoryInv
<1> SUFFICES ASSUME MemInit PROVE MemoryInv
  OBVIOUS
<1>1. MemTypeOK
  BY MemoryAssumption DEF MemInit, MemTypeOK
<1>2. WorkHasCall
  BY DEF MemInit, WorkHasCall
<1>3. DeletionInv
  BY DEF MemInit, DeletionInv, UsedBeforeStored, BuriedWasUsed, PutIsAlive, DeletedStaysDeleted
<1>4. TurnInv
  BY MemoryAssumption DEF MemInit, TurnInv, ChangeIsWritten, ExtractUnwritten, ExtractOnlySaves
<1> QED
  BY <1>1, <1>2, <1>3, <1>4 DEF MemoryInv

(* A slot belongs to an agent.                                               *)
LEMMA OwnerIsAgent == \A s \in Slots : Owner[s] \in Agents
BY MemoryAssumption

(* Every step keeps the types.                                               *)
LEMMA TypeKept ==
  ASSUME MemTypeOK, WorkHasCall, MemNext
  PROVE  MemTypeOK'
<1> USE OwnerIsAgent, MemoryAssumption
<1>1. ASSUME NEW a \in Agents, BeginTurn(a) PROVE MemTypeOK'
  BY <1>1 DEF MemTypeOK, WorkHasCall, Memory, Op, BeginTurn
<1>2. ASSUME NEW a \in Agents, NEW whole \in BOOLEAN, FinalAnswer(a, whole) PROVE MemTypeOK'
  <2>1. MaxItems \in 0 .. MaxItems
    OBVIOUS
  <2>2. CASE turn' = [turn EXCEPT ![a] = "extract"] /\ known' = [known EXCEPT ![a] = store]
               /\ items' = [items EXCEPT ![a] = MaxItems]
    BY <1>2, <2>1, <2>2 DEF MemTypeOK, FinalAnswer
  <2>3. CASE turn' = [turn EXCEPT ![a] = "idle"] /\ UNCHANGED <<known, items>>
    BY <1>2, <2>3 DEF MemTypeOK, FinalAnswer
  <2> QED
    BY <1>2, <2>2, <2>3 DEF FinalAnswer
<1>3. ASSUME NEW a \in Agents, EndExtraction(a) PROVE MemTypeOK'
  BY <1>3 DEF MemTypeOK, WorkHasCall, Memory, Op, EndExtraction
<1>4. ASSUME NEW a \in Agents, Die(a) PROVE MemTypeOK'
  BY <1>4 DEF MemTypeOK, WorkHasCall, Memory, Op, Die
<1>5. ASSUME NEW s \in Slots, NEW i \in Ids, NEW text \in Texts, BeginUpdate(s, i, text) PROVE MemTypeOK'
  BY <1>5 DEF MemTypeOK, WorkHasCall, Memory, Op, BeginUpdate, Become
<1>6. ASSUME NEW s \in Slots, NEW i \in Ids, BeginDelete(s, i) PROVE MemTypeOK'
  BY <1>6 DEF MemTypeOK, WorkHasCall, Memory, Op, BeginDelete, Become
<1>7. ASSUME NEW s \in Slots, Remove(s) PROVE MemTypeOK'
  BY <1>7 DEF MemTypeOK, WorkHasCall, Memory, Op, Remove, BuriedWith, ReportDelete, Report, Become
<1>8. ASSUME NEW s \in Slots, SaveLooksUp(s) PROVE MemTypeOK'
  BY <1>8 DEF MemTypeOK, SaveLooksUp, Become
<1>9. ASSUME NEW s \in Slots, SavePuts(s) PROVE MemTypeOK'
  <2> DEFINE r == [kind |-> op[s].kind, text |-> op[s].text]
  <2>1. op[s] \in Op /\ op[s].id \in Ids
    BY <1>9 DEF MemTypeOK, WorkHasCall, SavePuts, Op
  <2>2. r \in Memory
    BY <2>1 DEF Op, Memory
  <2>3. store' = [store EXCEPT ![op[s].id] = r]
        /\ (UNCHANGED known \/ known' = [known EXCEPT ![Owner[s]][op[s].id] = r])
    BY <1>9 DEF SavePuts
  <2> HIDE DEF r
  <2>4. store' \in [Ids -> Memory \cup {None}]
    BY <2>1, <2>2, <2>3 DEF MemTypeOK
  <2>5. known' \in [Agents -> [Ids -> Memory \cup {None}]]
    <3>1. known[Owner[s]] \in [Ids -> Memory \cup {None}]
      BY DEF MemTypeOK
    <3>2. [known[Owner[s]] EXCEPT ![op[s].id] = r] \in [Ids -> Memory \cup {None}]
      BY <3>1, <2>1, <2>2
    <3> QED
      BY <2>3, <3>2 DEF MemTypeOK
  <2>6. written' \in [Agents -> BOOLEAN] /\ changed' \in [Agents -> BOOLEAN]
    BY <1>9 DEF MemTypeOK, SavePuts, Report
  <2>7. stage' \in [Slots -> {"idle", "save", "put", "remove"}] /\ op' \in [Slots -> Op \cup {None}]
    BY <1>9 DEF MemTypeOK, SavePuts, Become
  <2> QED
    BY <1>9, <2>4, <2>5, <2>6, <2>7 DEF MemTypeOK, SavePuts
<1>10. ASSUME NEW s \in Slots, AccessFails(s) PROVE MemTypeOK'
  BY <1>10 DEF MemTypeOK, WorkHasCall, Memory, Op, AccessFails, Become
<1>11. ASSUME NEW s \in Slots, NEW i \in Ids, NEW text \in Texts, ItemUpdates(s, i, text) PROVE MemTypeOK'
  BY <1>11 DEF MemTypeOK, WorkHasCall, Memory, Op, ItemUpdates, TakeItem, Become
<1>12. ASSUME NEW s \in Slots, NEW i \in Ids, NEW kind \in Kinds, NEW text \in Texts, ItemCreates(s, i, kind, text) PROVE MemTypeOK'
  BY <1>12 DEF MemTypeOK, WorkHasCall, Memory, Op, ItemCreates, TakeItem, Become
<1>13. ASSUME NEW s \in Slots, AccessRaises(s) PROVE MemTypeOK'
  <2> DEFINE r == [kind |-> op[s].kind, text |-> op[s].text]
  <2>1. op[s] \in Op /\ op[s].id \in Ids
    BY <1>13 DEF MemTypeOK, WorkHasCall, AccessRaises, Op
  <2>2. r \in Memory
    BY <2>1 DEF Op, Memory
  <2>3. store' = [store EXCEPT ![op[s].id] = r] \/ store' = [store EXCEPT ![op[s].id] = None]
    BY <1>13 DEF AccessRaises
  <2> HIDE DEF r
  <2>4. store' \in [Ids -> Memory \cup {None}]
    BY <2>1, <2>2, <2>3 DEF MemTypeOK
  <2>5. stage' \in [Slots -> {"idle", "save", "put", "remove"}] /\ op' \in [Slots -> Op \cup {None}]
    BY <1>13 DEF MemTypeOK, AccessRaises, Become
  <2>6. buried' \in SUBSET Ids
    BY <1>13, <2>1 DEF MemTypeOK, AccessRaises, BuriedWith
  <2> QED
    BY <1>13, <2>4, <2>5, <2>6 DEF MemTypeOK, AccessRaises
<1> QED
  BY <1>1, <1>2, <1>3, <1>4, <1>5, <1>6, <1>7, <1>8, <1>9, <1>10, <1>11, <1>12, <1>13 DEF MemNext

(* Every step leaves a working slot with a call.                              *)
LEMMA CallKept ==
  ASSUME MemTypeOK, WorkHasCall, MemNext
  PROVE  WorkHasCall'
<1> USE OwnerIsAgent, MemoryAssumption
<1>1. ASSUME NEW a \in Agents, BeginTurn(a) PROVE WorkHasCall'
  BY <1>1 DEF MemTypeOK, WorkHasCall, Memory, Op, BeginTurn
<1>2. ASSUME NEW a \in Agents, NEW whole \in BOOLEAN, FinalAnswer(a, whole) PROVE WorkHasCall'
  BY <1>2 DEF MemTypeOK, WorkHasCall, Memory, Op, FinalAnswer, MayExtract
<1>3. ASSUME NEW a \in Agents, EndExtraction(a) PROVE WorkHasCall'
  BY <1>3 DEF MemTypeOK, WorkHasCall, Memory, Op, EndExtraction
<1>4. ASSUME NEW a \in Agents, Die(a) PROVE WorkHasCall'
  BY <1>4 DEF MemTypeOK, WorkHasCall, Memory, Op, Die
<1>5. ASSUME NEW s \in Slots, NEW i \in Ids, NEW text \in Texts, BeginUpdate(s, i, text) PROVE WorkHasCall'
  BY <1>5 DEF MemTypeOK, WorkHasCall, Memory, Op, BeginUpdate, Become
<1>6. ASSUME NEW s \in Slots, NEW i \in Ids, BeginDelete(s, i) PROVE WorkHasCall'
  BY <1>6 DEF MemTypeOK, WorkHasCall, Memory, Op, BeginDelete, Become
<1>7. ASSUME NEW s \in Slots, Remove(s) PROVE WorkHasCall'
  BY <1>7 DEF MemTypeOK, WorkHasCall, Memory, Op, Remove, BuriedWith, ReportDelete, Report, Become
<1>8. ASSUME NEW s \in Slots, SaveLooksUp(s) PROVE WorkHasCall'
  BY <1>8 DEF MemTypeOK, WorkHasCall, Memory, Op, SaveLooksUp, SaveFinds, Become
<1>9. ASSUME NEW s \in Slots, SavePuts(s) PROVE WorkHasCall'
  BY <1>9 DEF MemTypeOK, WorkHasCall, Memory, Op, SavePuts, Report, Become
<1>10. ASSUME NEW s \in Slots, AccessFails(s) PROVE WorkHasCall'
  BY <1>10 DEF MemTypeOK, WorkHasCall, Memory, Op, AccessFails, Become
<1>11. ASSUME NEW s \in Slots, NEW i \in Ids, NEW text \in Texts, ItemUpdates(s, i, text) PROVE WorkHasCall'
  BY <1>11 DEF MemTypeOK, WorkHasCall, Memory, Op, ItemUpdates, TakeItem, Become
<1>12. ASSUME NEW s \in Slots, NEW i \in Ids, NEW kind \in Kinds, NEW text \in Texts, ItemCreates(s, i, kind, text) PROVE WorkHasCall'
  BY <1>12 DEF MemTypeOK, WorkHasCall, Memory, Op, ItemCreates, TakeItem, Become
<1>13. ASSUME NEW s \in Slots, AccessRaises(s) PROVE WorkHasCall'
  BY <1>13 DEF MemTypeOK, WorkHasCall, Memory, Op, AccessRaises, BuriedWith, Become
<1> QED
  BY <1>1, <1>2, <1>3, <1>4, <1>5, <1>6, <1>7, <1>8, <1>9, <1>10, <1>11, <1>12, <1>13 DEF MemNext

(* Every step keeps what makes deletions last.                               *)
LEMMA DeletionKept ==
  ASSUME MemTypeOK, WorkHasCall, DeletionInv, MemNext
  PROVE  DeletionInv'
<1> USE OwnerIsAgent, MemoryAssumption
<1>1. ASSUME NEW a \in Agents, BeginTurn(a) PROVE DeletionInv'
  BY <1>1 DEF MemTypeOK, WorkHasCall, Op, DeletionInv, UsedBeforeStored, BuriedWasUsed, PutIsAlive, DeletedStaysDeleted, BeginTurn
<1>2. ASSUME NEW a \in Agents, NEW whole \in BOOLEAN, FinalAnswer(a, whole) PROVE DeletionInv'
  BY <1>2 DEF MemTypeOK, WorkHasCall, Op, DeletionInv, UsedBeforeStored, BuriedWasUsed, PutIsAlive, DeletedStaysDeleted, FinalAnswer, MayExtract
<1>3. ASSUME NEW a \in Agents, EndExtraction(a) PROVE DeletionInv'
  BY <1>3 DEF MemTypeOK, WorkHasCall, Op, DeletionInv, UsedBeforeStored, BuriedWasUsed, PutIsAlive, DeletedStaysDeleted, EndExtraction
<1>4. ASSUME NEW a \in Agents, Die(a) PROVE DeletionInv'
  BY <1>4 DEF MemTypeOK, WorkHasCall, Op, DeletionInv, UsedBeforeStored, BuriedWasUsed, PutIsAlive, DeletedStaysDeleted, Die
<1>5. ASSUME NEW s \in Slots, NEW i \in Ids, NEW text \in Texts, BeginUpdate(s, i, text) PROVE DeletionInv'
  BY <1>5 DEF MemTypeOK, WorkHasCall, Op, DeletionInv, UsedBeforeStored, BuriedWasUsed, PutIsAlive, DeletedStaysDeleted, BeginUpdate, Become
<1>6. ASSUME NEW s \in Slots, NEW i \in Ids, BeginDelete(s, i) PROVE DeletionInv'
  BY <1>6 DEF MemTypeOK, WorkHasCall, Op, DeletionInv, UsedBeforeStored, BuriedWasUsed, PutIsAlive, DeletedStaysDeleted, BeginDelete, Become
<1>7. ASSUME NEW s \in Slots, Remove(s) PROVE DeletionInv'
  BY <1>7 DEF MemTypeOK, WorkHasCall, Op, DeletionInv, UsedBeforeStored, BuriedWasUsed, PutIsAlive, DeletedStaysDeleted, Remove, BuriedWith, ReportDelete, Report, Become
<1>8. ASSUME NEW s \in Slots, SaveLooksUp(s) PROVE DeletionInv'
  BY <1>8 DEF MemTypeOK, WorkHasCall, Op, DeletionInv, UsedBeforeStored, BuriedWasUsed, PutIsAlive, DeletedStaysDeleted, SaveLooksUp, SaveFinds, Become
<1>9. ASSUME NEW s \in Slots, SavePuts(s) PROVE DeletionInv'
  BY <1>9 DEF MemTypeOK, WorkHasCall, Op, DeletionInv, UsedBeforeStored, BuriedWasUsed, PutIsAlive, DeletedStaysDeleted, SavePuts, Report, Become
<1>10. ASSUME NEW s \in Slots, AccessFails(s) PROVE DeletionInv'
  BY <1>10 DEF MemTypeOK, WorkHasCall, Op, DeletionInv, UsedBeforeStored, BuriedWasUsed, PutIsAlive, DeletedStaysDeleted, AccessFails, Become
<1>11. ASSUME NEW s \in Slots, NEW i \in Ids, NEW text \in Texts, ItemUpdates(s, i, text) PROVE DeletionInv'
  BY <1>11 DEF MemTypeOK, WorkHasCall, Op, DeletionInv, UsedBeforeStored, BuriedWasUsed, PutIsAlive, DeletedStaysDeleted, ItemUpdates, TakeItem, Become
<1>12. ASSUME NEW s \in Slots, NEW i \in Ids, NEW kind \in Kinds, NEW text \in Texts, ItemCreates(s, i, kind, text) PROVE DeletionInv'
  BY <1>12 DEF MemTypeOK, WorkHasCall, Op, DeletionInv, UsedBeforeStored, BuriedWasUsed, PutIsAlive, DeletedStaysDeleted, ItemCreates, TakeItem, Become
<1>13. ASSUME NEW s \in Slots, AccessRaises(s) PROVE DeletionInv'
  BY <1>13 DEF MemTypeOK, WorkHasCall, Op, DeletionInv, UsedBeforeStored, BuriedWasUsed, PutIsAlive, DeletedStaysDeleted, AccessRaises, BuriedWith, Become
<1> QED
  BY <1>1, <1>2, <1>3, <1>4, <1>5, <1>6, <1>7, <1>8, <1>9, <1>10, <1>11, <1>12, <1>13 DEF MemNext

(* Every step keeps what makes the explicit change come last.                *)
LEMMA TurnKept ==
  ASSUME MemTypeOK, WorkHasCall, TurnInv, MemNext
  PROVE  TurnInv'
<1> USE OwnerIsAgent, MemoryAssumption
<1>1. ASSUME NEW a \in Agents, BeginTurn(a) PROVE TurnInv'
  BY <1>1 DEF MemTypeOK, TurnInv, ChangeIsWritten, ExtractUnwritten, ExtractOnlySaves, Quiet, SlotsOf, BeginTurn
<1>2. ASSUME NEW a \in Agents, NEW whole \in BOOLEAN, FinalAnswer(a, whole) PROVE TurnInv'
  BY <1>2 DEF MemTypeOK, TurnInv, ChangeIsWritten, ExtractUnwritten, ExtractOnlySaves, Quiet, SlotsOf, FinalAnswer, MayExtract
<1>3. ASSUME NEW a \in Agents, EndExtraction(a) PROVE TurnInv'
  BY <1>3 DEF MemTypeOK, TurnInv, ChangeIsWritten, ExtractUnwritten, ExtractOnlySaves, Quiet, SlotsOf, EndExtraction
<1>4. ASSUME NEW a \in Agents, Die(a) PROVE TurnInv'
  BY <1>4 DEF MemTypeOK, TurnInv, ChangeIsWritten, ExtractUnwritten, ExtractOnlySaves, Quiet, SlotsOf, Die
<1>5. ASSUME NEW s \in Slots, NEW i \in Ids, NEW text \in Texts, BeginUpdate(s, i, text) PROVE TurnInv'
  BY <1>5 DEF MemTypeOK, TurnInv, ChangeIsWritten, ExtractUnwritten, ExtractOnlySaves, Quiet, SlotsOf, BeginUpdate, Become
<1>6. ASSUME NEW s \in Slots, NEW i \in Ids, BeginDelete(s, i) PROVE TurnInv'
  BY <1>6 DEF MemTypeOK, TurnInv, ChangeIsWritten, ExtractUnwritten, ExtractOnlySaves, Quiet, SlotsOf, BeginDelete, Become
<1>7. ASSUME NEW s \in Slots, Remove(s) PROVE TurnInv'
  <2>1. turn[Owner[s]] # "extract" /\ UNCHANGED turn
    BY <1>7 DEF Remove, TurnInv, ExtractOnlySaves
  <2>2. ExtractOnlySaves'
    BY <1>7, <2>1 DEF MemTypeOK, TurnInv, ExtractOnlySaves, Remove, Become
  <2>3. CASE UNCHANGED <<written, changed>>
    BY <2>1, <2>2, <2>3 DEF TurnInv, ChangeIsWritten, ExtractUnwritten
  <2>4. CASE ReportDelete(s, store[op[s].id] # None)
    BY <2>1, <2>2, <2>4 DEF MemTypeOK, TurnInv, ChangeIsWritten, ExtractUnwritten, ReportDelete, Report
  <2> QED
    BY <1>7, <2>3, <2>4 DEF Remove
<1>8. ASSUME NEW s \in Slots, SaveLooksUp(s) PROVE TurnInv'
  BY <1>8 DEF MemTypeOK, TurnInv, ChangeIsWritten, ExtractUnwritten, ExtractOnlySaves, Quiet, SlotsOf, SaveLooksUp, SaveFinds, Become
<1>9. ASSUME NEW s \in Slots, SavePuts(s) PROVE TurnInv'
  BY <1>9 DEF MemTypeOK, TurnInv, ChangeIsWritten, ExtractUnwritten, ExtractOnlySaves, Quiet, SlotsOf, SavePuts, Report, Become
<1>10. ASSUME NEW s \in Slots, AccessFails(s) PROVE TurnInv'
  BY <1>10 DEF MemTypeOK, TurnInv, ChangeIsWritten, ExtractUnwritten, ExtractOnlySaves, Quiet, SlotsOf, AccessFails, Become
<1>11. ASSUME NEW s \in Slots, NEW i \in Ids, NEW text \in Texts, ItemUpdates(s, i, text) PROVE TurnInv'
  BY <1>11 DEF MemTypeOK, TurnInv, ChangeIsWritten, ExtractUnwritten, ExtractOnlySaves, Quiet, SlotsOf, ItemUpdates, TakeItem, Become
<1>12. ASSUME NEW s \in Slots, NEW i \in Ids, NEW kind \in Kinds, NEW text \in Texts, ItemCreates(s, i, kind, text) PROVE TurnInv'
  BY <1>12 DEF MemTypeOK, TurnInv, ChangeIsWritten, ExtractUnwritten, ExtractOnlySaves, Quiet, SlotsOf, ItemCreates, TakeItem, Become
<1>13. ASSUME NEW s \in Slots, AccessRaises(s) PROVE TurnInv'
  BY <1>13 DEF MemTypeOK, TurnInv, ChangeIsWritten, ExtractUnwritten, ExtractOnlySaves, Quiet, SlotsOf, AccessRaises, BuriedWith, Become
<1> QED
  BY <1>1, <1>2, <1>3, <1>4, <1>5, <1>6, <1>7, <1>8, <1>9, <1>10, <1>11, <1>12, <1>13 DEF MemNext

LEMMA NextKeepsInv == MemoryInv /\ [MemNext]_memVars => MemoryInv'
<1> SUFFICES ASSUME MemoryInv, [MemNext]_memVars PROVE MemoryInv'
  OBVIOUS
<1>1. CASE MemNext
  BY <1>1, TypeKept, CallKept, DeletionKept, TurnKept DEF MemoryInv
<1>2. CASE UNCHANGED memVars
  BY <1>2 DEF memVars, MemoryInv, MemTypeOK, WorkHasCall, DeletionInv, UsedBeforeStored, BuriedWasUsed,
     PutIsAlive, DeletedStaysDeleted, TurnInv, ChangeIsWritten, ExtractUnwritten, ExtractOnlySaves
<1> QED
  BY <1>1, <1>2

LEMMA InvTheorem == MemSpec => []MemoryInv
<1> QED
  BY InitEstablishesInv, NextKeepsInv, PTL DEF MemSpec

(* The memories behave in the lead's turn as they do by themselves: what the *)
(* conversation adds only decides when a step is taken.                      *)
LEMMA TurnIsMemoryStep == [LeadNext]_leadVars => [MemNext]_memVars
<1> SUFFICES ASSUME [LeadNext]_leadVars PROVE [MemNext]_memVars
  OBVIOUS
<1> USE LeadAssumption
<1>1. CASE StartTurn
  BY <1>1 DEF StartTurn, MemNext
<1>2. CASE AskModel
  BY <1>2 DEF AskModel
<1>3. ASSUME NEW whole \in BOOLEAN, EndTurn(whole) PROVE MemNext
  BY <1>3 DEF EndTurn, MemNext
<1>4. ASSUME NEW s \in Slots, MemoryTool(s) PROVE MemNext
  BY <1>4 DEF MemoryTool, MemNext
<1>5. CASE AllToolsEnd
  BY <1>5 DEF AllToolsEnd
<1>6. CASE FailTurn \/ KilledWhileExtracting
  BY <1>6 DEF FailTurn, KilledWhileExtracting, MemNext
<1>7. CASE MemoryStep
  BY <1>7 DEF MemoryStep, MemNext
<1>8. CASE OthersTurn
  BY <1>8 DEF OthersTurn, MemNext, SlotsOf
<1>9. CASE UNCHANGED leadVars
  BY <1>9 DEF leadVars
<1> QED
  BY <1>1, <1>2, <1>3, <1>4, <1>5, <1>6, <1>7, <1>8, <1>9 DEF LeadNext

(* A lead's turn implements the memory store.                                *)
THEOREM LeadImplementsMemory == LeadSpec => MemSpec
<1>1. LeadInit => MemInit
  BY DEF LeadInit
<1> QED
  BY <1>1, TurnIsMemoryStep, PTL DEF LeadSpec, MemSpec

(* Type correctness of the memories, of the store by itself and in a turn.   *)
THEOREM MemoryTypeCorrect == MemSpec => []MemTypeOK
<1>1. MemoryInv => MemTypeOK
  BY DEF MemoryInv
<1> QED
  BY <1>1, InvTheorem, PTL

(* A deleted memory does not come back (MemoryRepository.save, delete),      *)
(* however many leads update, delete and extract at once.                    *)
THEOREM DeletedStaysDeletedCorrect == LeadSpec => []DeletedStaysDeleted
<1>1. MemoryInv => DeletedStaysDeleted
  BY DEF MemoryInv, DeletionInv
<1> QED
  BY <1>1, InvTheorem, LeadImplementsMemory, PTL

(* No turn in which the user has had a memory changed is made into memories  *)
(* (MemoryManagementMiddleware.aafter_model).                                *)
THEOREM ExplicitChangeComesLastCorrect == LeadSpec => []ExplicitChangeComesLast
<1>1. MemoryInv => ExplicitChangeComesLast
  BY DEF MemoryInv, TurnInv, ChangeIsWritten, ExtractUnwritten, ExplicitChangeComesLast
<1> QED
  BY <1>1, InvTheorem, LeadImplementsMemory, PTL
-----------------------------------------------------------------------------
(* The conversation.                                                         *)

(* What a message of the state or of a list can be.                          *)
Msg == [id : Nat, from : {"user", "model", "tool"}, calls : Nat]

(* Every message of the state has its place as its id.                       *)
NumberedByPlace(s) == \A i \in DOMAIN s : s[i].id = i

(* A list of the pipeline: each message is one of the state's, or a note.    *)
DrawnFrom(s, h) ==
    /\ s \in Seq(Msg)
    /\ \A i \in DOMAIN s : s[i] = Note \/ \E j \in DOMAIN h : s[i] = h[j]

LEMMA MessageTypes ==
    /\ Note \in Msg /\ Note.id = 0 /\ Note.from = "user"
    /\ \A i \in Nat : /\ User(i) \in Msg /\ User(i).id = i /\ User(i).from = "user"
                      /\ Result(i) \in Msg /\ Result(i).id = i /\ Result(i).from = "tool"
                      /\ Result(i).calls = 0 /\ User(i).calls = 0
    /\ \A i, n \in Nat : /\ Answer(i, n) \in Msg /\ Answer(i, n).id = i
                         /\ Answer(i, n).from = "model" /\ Answer(i, n).calls = n
BY DEF Note, User, Result, Answer, Message, Msg

-----------------------------------------------------------------------------
(* The pipeline.                                                             *)

(* A part of a list.                                                         *)
LEMMA PartIsDrawn ==
  ASSUME NEW h, NEW s, DrawnFrom(s, h), NEW a \in Nat \ {0}, NEW b \in 0 .. Len(s)
  PROVE  DrawnFrom(SubSeq(s, a, b), h)
<1>1. /\ SubSeq(s, a, b) \in Seq(Msg)
      /\ Len(SubSeq(s, a, b)) = IF a <= b THEN b - a + 1 ELSE 0
      /\ \A i \in 1 .. Len(SubSeq(s, a, b)) : SubSeq(s, a, b)[i] = s[a + i - 1]
  BY DEF DrawnFrom
<1>2. \A i \in 1 .. Len(SubSeq(s, a, b)) : a + i - 1 \in DOMAIN s
  BY <1>1 DEF DrawnFrom
<1> QED
  BY <1>1, <1>2 DEF DrawnFrom

LEMMA JoinIsDrawn ==
  ASSUME NEW h, NEW s, NEW u, DrawnFrom(s, h), DrawnFrom(u, h)
  PROVE  DrawnFrom(s \o u, h)
BY DEF DrawnFrom

LEMMA NoteIsDrawn == ASSUME NEW h PROVE DrawnFrom(<<Note>>, h)
BY MessageTypes DEF DrawnFrom

LEMMA LastIsDrawn ==
  ASSUME NEW h, NEW s, DrawnFrom(s, h), NEW n \in Nat
  PROVE  DrawnFrom(LastOf(s, n), h)
<1>1. Len(s) \in Nat
  BY DEF DrawnFrom
<1> QED
  BY <1>1, PartIsDrawn DEF LastOf

(* The cut of the reactive compaction falls on a place of the list.          *)
LEMMA TailStartIsPlace ==
  ASSUME NEW s, Len(s) \in Nat
  PROVE  TailStart(s) \in Nat \ {0}
<1> DEFINE first == IF Len(s) > KeptByReactive THEN Len(s) - KeptByReactive + 1 ELSE 1
<1>1. first \in Nat \ {0}
  BY CallAssumption
<1>2. TailStart(s) = first \/ (first > 1 /\ TailStart(s) = first - 1)
  BY ZenonT(20) DEF TailStart
<1> HIDE DEF first
<1> QED
  BY <1>1, <1>2

LEMMA CompactedIsDrawn ==
  ASSUME NEW h, DrawnFrom(h, h), NEW over \in BOOLEAN, NEW auto \in BOOLEAN
  PROVE  DrawnFrom(Compacted(h, over, auto), h)
<1> DEFINE half == MaxMessages \div 2
<1>1. half \in Nat /\ Len(h) \in Nat /\ KeptByAuto \in Nat /\ KeptByReactive \in Nat
  BY CallAssumption DEF DrawnFrom
<1>2. DrawnFrom(Snip(h), h)
  <2>1. CASE Len(h) <= MaxMessages
    BY <2>1 DEF Snip
  <2>2. CASE ~(Len(h) <= MaxMessages)
    <3>1. half <= Len(h)
      BY <1>1, <2>2, CallAssumption
    <3>2. DrawnFrom(SubSeq(h, 1, half), h) /\ DrawnFrom(LastOf(h, half), h)
      BY <1>1, <3>1, PartIsDrawn, LastIsDrawn
    <3> HIDE DEF half
    <3>3. DrawnFrom(SubSeq(h, 1, half) \o <<Note>> \o LastOf(h, half), h)
      BY <3>2, JoinIsDrawn, NoteIsDrawn
    <3> QED
      BY <2>2, <3>3 DEF Snip, half
  <2> QED
    BY <2>1, <2>2
<1>3. ASSUME NEW s, DrawnFrom(s, h) PROVE DrawnFrom(Micro(s), h)
  <2>1. Micro(s) \in Seq(Msg)
    <3>1. Len(s) \in Nat /\ DOMAIN s = 1 .. Len(s) /\ \A i \in DOMAIN s : s[i] \in Msg
      BY <1>3 DEF DrawnFrom
    <3>2. Micro(s) \in [1 .. Len(s) -> Msg]
      BY <3>1, MessageTypes DEF Micro
    <3> QED
      BY <3>1, <3>2
  <2> QED
    BY <1>3, <2>1 DEF Micro, DrawnFrom
<1> DEFINE short == Micro(Snip(h))
<1>4. DrawnFrom(short, h)
  BY <1>2, <1>3
<1> HIDE DEF short
<1>5. DrawnFrom(AutoCompact(short), h)
  BY <1>1, <1>4, LastIsDrawn, JoinIsDrawn, NoteIsDrawn DEF AutoCompact
<1>6. DrawnFrom(Reactive(short), h)
  <2>1. Len(short) \in Nat /\ TailStart(short) \in Nat \ {0}
    BY <1>4, TailStartIsPlace DEF DrawnFrom
  <2>2. DrawnFrom(SubSeq(short, TailStart(short), Len(short)), h)
    BY <1>4, <2>1, PartIsDrawn
  <2> QED
    BY <2>2, JoinIsDrawn, NoteIsDrawn DEF Reactive
<1> QED
  BY <1>4, <1>5, <1>6 DEF Compacted, short

(* What the pipeline leaves out, replaces or sums up stays in the state: the *)
(* reducer finds only messages it has, and adds notes at the end.            *)
LEMMA MergeAppends ==
  ASSUME NEW h, DrawnFrom(h, h), NumberedByPlace(h), NEW s, DrawnFrom(s, h)
  PROVE  \E n \in Nat : Merge(h, s) = h \o [i \in 1 .. n |-> User(Len(h) + i)]
<1> DEFINE noted == {k \in DOMAIN s : s[k].id = 0}
           Kept(i) == IF \E k \in DOMAIN s : s[k].id = i
                      THEN s[CHOOSE k \in DOMAIN s : s[k].id = i]
                      ELSE h[i]
<1>1. Cardinality(noted) \in Nat
  <2>1. IsFiniteSet(1 .. Len(s)) /\ noted \subseteq 1 .. Len(s)
    BY FS_Interval DEF DrawnFrom
  <2> QED
    BY <2>1, FS_Subset, FS_CardinalityType
<1>2. ASSUME NEW i \in DOMAIN h PROVE Kept(i) = h[i]
  <2>1. CASE \E k \in DOMAIN s : s[k].id = i
    <3> DEFINE k == CHOOSE j \in DOMAIN s : s[j].id = i
    <3>1. k \in DOMAIN s /\ s[k].id = i
      BY <2>1
    <3> HIDE DEF k
    <3>2. i # 0
      BY DEF DrawnFrom
    <3>3. PICK j \in DOMAIN h : s[k] = h[j]
      BY <3>1, <3>2, MessageTypes DEF DrawnFrom
    <3>4. j = i
      BY <3>1, <3>3 DEF NumberedByPlace
    <3> QED
      BY <2>1, <3>3, <3>4 DEF k
  <2> QED
    BY <2>1
<1> HIDE DEF Kept
<1>3. [i \in DOMAIN h |-> Kept(i)] = h
  BY <1>2 DEF DrawnFrom
<1> HIDE DEF noted
<1>4. Merge(h, s) = [i \in DOMAIN h |-> Kept(i)]
                      \o [i \in 1 .. Cardinality(noted) |-> User(Len(h) + i)]
  BY DEF Merge, Kept, noted
<1> QED
  BY <1>1, <1>3, <1>4
-----------------------------------------------------------------------------
(* The shape of the conversation from one change of it to the next.          *)

(* Only the calls of the last answer may still wait for their results.       *)
AllButLast(s) ==
    /\ s # << >> /\ s[Len(s)].from = "model"
    /\ \A j \in Answers(s) : j < Len(s) => Complete(s, j)
    /\ \A i \in Results(s) : FollowsAnswer(s, i)

LEMMA Places ==
  ASSUME NEW s \in Seq(Msg)
  PROVE  /\ Len(s) \in Nat /\ DOMAIN s = 1 .. Len(s)
         /\ Answers(s) = {i \in 1 .. Len(s) : s[i].from = "model"}
         /\ Results(s) = {i \in 1 .. Len(s) : s[i].from = "tool"}
         /\ \A i \in 1 .. Len(s) : s[i] \in Msg /\ s[i].calls \in Nat
<1>1. Len(s) \in Nat /\ DOMAIN s = 1 .. Len(s) /\ \A i \in 1 .. Len(s) : s[i] \in Msg
  OBVIOUS
<1>2. \A i \in 1 .. Len(s) : s[i].calls \in Nat
  BY <1>1 DEF Msg
<1>3. Answers(s) = {i \in 1 .. Len(s) : s[i].from = "model"}
  BY <1>1 DEF Answers
<1>4. Results(s) = {i \in 1 .. Len(s) : s[i].from = "tool"}
  BY <1>1 DEF Results
<1> QED
  BY <1>1, <1>2, <1>3, <1>4

LEMMA AppendKeepsWellFormed ==
  ASSUME NEW h \in Seq(Msg), WellFormed(h), NEW u \in Seq(Msg),
         \A i \in DOMAIN u : u[i].from = "user"
  PROVE  WellFormed(h \o u)
<1> DEFINE s == h \o u
<1>1. /\ s \in Seq(Msg) /\ Len(s) = Len(h) + Len(u)
      /\ \A i \in 1 .. Len(h) : s[i] = h[i]
      /\ \A i \in 1 .. Len(s) : i > Len(h) => s[i].from = "user"
  <2>1. \A i \in 1 .. Len(s) : i > Len(h) => s[i] = u[i - Len(h)] /\ i - Len(h) \in DOMAIN u
    OBVIOUS
  <2> QED
    BY <2>1
<1> HIDE DEF s
<1>2. Answers(s) = Answers(h) /\ Results(s) = Results(h)
  <2>1. /\ Answers(s) = {i \in 1 .. Len(s) : s[i].from = "model"}
        /\ Results(s) = {i \in 1 .. Len(s) : s[i].from = "tool"}
    BY <1>1, Places
  <2>2. /\ Answers(h) = {i \in 1 .. Len(h) : h[i].from = "model"}
        /\ Results(h) = {i \in 1 .. Len(h) : h[i].from = "tool"} /\ Len(h) \in Nat
    BY Places
  <2>3. \A i \in 1 .. Len(s) : i \in 1 .. Len(h) \/ s[i].from = "user"
    BY <1>1, <2>2
  <2>4. 1 .. Len(h) \subseteq 1 .. Len(s)
    BY <1>1, <2>2
  <2> QED
    BY <1>1, <2>1, <2>2, <2>3, <2>4
<1>3. \A j \in Answers(h) : s[j].calls = h[j].calls
  BY <1>1, Places
<1>4. \A j \in Answers(s) : Complete(s, j)
  BY <1>2, <1>3 DEF WellFormed, Complete
<1>5. \A i \in Results(s) : FollowsAnswer(s, i)
  BY <1>2, <1>3 DEF WellFormed, FollowsAnswer
<1> QED
  BY <1>4, <1>5 DEF WellFormed, s

LEMMA AnswerKeepsWellFormed ==
  ASSUME NEW h \in Seq(Msg), WellFormed(h), NEW m \in Msg, m.from = "model"
  PROVE  /\ AllButLast(Append(h, m))
         /\ m.calls = 0 => WellFormed(Append(h, m))
<1> DEFINE s == Append(h, m)
<1>1. /\ s \in Seq(Msg) /\ Len(s) = Len(h) + 1 /\ s[Len(h) + 1] = m
      /\ \A i \in 1 .. Len(h) : s[i] = h[i]
  OBVIOUS
<1> HIDE DEF s
<1>2. Answers(s) = Answers(h) \cup {Len(h) + 1} /\ Results(s) = Results(h)
  <2>1. /\ Answers(s) = {i \in 1 .. Len(s) : s[i].from = "model"}
        /\ Results(s) = {i \in 1 .. Len(s) : s[i].from = "tool"}
    BY <1>1, Places
  <2>2. /\ Answers(h) = {i \in 1 .. Len(h) : h[i].from = "model"}
        /\ Results(h) = {i \in 1 .. Len(h) : h[i].from = "tool"} /\ Len(h) \in Nat
    BY Places
  <2>3. 1 .. Len(s) = (1 .. Len(h)) \cup {Len(h) + 1} /\ Len(h) + 1 \notin 1 .. Len(h)
    BY <1>1, <2>2
  <2> QED
    BY <1>1, <2>1, <2>2, <2>3
<1>3. \A j \in Answers(h) : s[j].calls = h[j].calls /\ j <= Len(h)
  BY <1>1, Places
<1>4. \A j \in Answers(h) : Complete(s, j)
  BY <1>2, <1>3 DEF WellFormed, Complete
<1>5. \A i \in Results(s) : FollowsAnswer(s, i)
  BY <1>2, <1>3 DEF WellFormed, FollowsAnswer
<1>6. \A j \in Answers(s) : j < Len(s) => Complete(s, j)
  BY <1>1, <1>2, <1>4
<1>7. AllButLast(s)
  BY <1>1, <1>5, <1>6 DEF AllButLast
<1>8. m.calls = 0 => Complete(s, Len(h) + 1)
  BY <1>1 DEF Complete
<1>9. m.calls = 0 => WellFormed(s)
  BY <1>2, <1>4, <1>5, <1>8 DEF WellFormed
<1> QED
  BY <1>7, <1>9 DEF s

LEMMA ResultsCompleteAnswer ==
  ASSUME NEW h \in Seq(Msg), AllButLast(h), NEW u \in Seq(Msg),
         Len(u) = h[Len(h)].calls, \A i \in DOMAIN u : u[i].from = "tool"
  PROVE  WellFormed(h \o u)
<1> DEFINE s == h \o u
           n == Len(h)
<1>1. /\ s \in Seq(Msg) /\ Len(s) = n + Len(u) /\ n \in Nat \ {0} /\ Len(u) \in Nat
      /\ \A i \in 1 .. n : s[i] = h[i]
      /\ \A i \in n + 1 .. Len(s) : s[i].from = "tool"
  <2>1. \A i \in n + 1 .. Len(s) : s[i] = u[i - n] /\ i - n \in DOMAIN u
    OBVIOUS
  <2> QED
    BY <2>1 DEF AllButLast
<1> HIDE DEF s
<1>2. Answers(s) = Answers(h) /\ Results(s) = Results(h) \cup (n + 1 .. Len(s))
  <2>1. /\ Answers(s) = {i \in 1 .. Len(s) : s[i].from = "model"}
        /\ Results(s) = {i \in 1 .. Len(s) : s[i].from = "tool"}
    BY <1>1, Places
  <2>2. /\ Answers(h) = {i \in 1 .. Len(h) : h[i].from = "model"}
        /\ Results(h) = {i \in 1 .. Len(h) : h[i].from = "tool"} /\ Len(h) \in Nat
    BY Places
  <2>3. 1 .. Len(s) = (1 .. n) \cup (n + 1 .. Len(s)) /\ (1 .. n) \cap (n + 1 .. Len(s)) = {}
    BY <1>1
  <2>4. \A i \in 1 .. Len(s) : s[i].from = "model" => i \in 1 .. n
    BY <1>1, <2>3
  <2>5. Answers(s) = Answers(h)
    BY <1>1, <2>1, <2>2, <2>3, <2>4
  <2>6. \A i \in n + 1 .. Len(s) : i \in Results(s)
    BY <1>1, <2>1, <2>3
  <2>7. \A i \in 1 .. n : i \in Results(s) <=> i \in Results(h)
    BY <1>1, <2>1, <2>2, <2>3
  <2>8. Results(s) \subseteq 1 .. Len(s) /\ Results(h) \subseteq 1 .. n
    BY <2>1, <2>2
  <2>9. Results(s) = Results(h) \cup (n + 1 .. Len(s))
    BY <2>3, <2>6, <2>7, <2>8
  <2> QED
    BY <2>5, <2>9
<1>3. \A j \in Answers(h) : s[j].calls = h[j].calls /\ j \in 1 .. n
  BY <1>1, Places
<1>4. n \in Answers(h) /\ s[n].calls = Len(u)
  <2>1. h[n].from = "model" /\ n \in 1 .. n
    BY <1>1 DEF AllButLast
  <2> QED
    BY <1>1, <2>1, Places
<1>5. \A j \in Answers(s) : Complete(s, j)
  <2>1. Complete(s, n)
    BY <1>1, <1>2, <1>4 DEF Complete
  <2>2. \A j \in Answers(h) : j < n => Complete(s, j)
    BY <1>2, <1>3 DEF AllButLast, Complete
  <2> QED
    BY <1>2, <1>3, <2>1, <2>2
<1>6. \A i \in Results(s) : FollowsAnswer(s, i)
  <2>1. \A i \in n + 1 .. Len(s) : FollowsAnswer(s, i)
    BY <1>1, <1>2, <1>4 DEF FollowsAnswer
  <2>2. \A i \in Results(h) : FollowsAnswer(s, i)
    BY <1>2, <1>3 DEF AllButLast, FollowsAnswer
  <2> QED
    BY <1>2, <2>1, <2>2
<1> QED
  BY <1>5, <1>6 DEF WellFormed, s

(* The emergency summary of a conversation whose calls have their results.   *)
CutsOneAnswer(s, h) ==
    /\ \A j \in Answers(s) : Complete(s, j)
    /\ \A i \in Results(s) : FollowsAnswer(s, i) \/ i \in Orphans(s)
    /\ Orphans(s) # {} =>
          \E j \in Answers(h) :
              {s[i].id : i \in Orphans(s)} \subseteq j + 2 .. j + h[j].calls

LEMMA ReactiveCutsOneAnswer ==
  ASSUME NEW h \in Seq(Msg), NumberedByPlace(h), WellFormed(h)
  PROVE  CutsOneAnswer(Reactive(h), h)
<1> DEFINE a == TailStart(h)
           s == Reactive(h)
           At(i) == a + i - 2
<1>1. a \in Nat \ {0} /\ a <= Len(h) + 1
  BY CallAssumption DEF TailStart
<1>2. a \in DOMAIN h /\ h[a].from = "tool" /\ a - 1 \in DOMAIN h /\ h[a - 1].from = "model"
        => ~(h[a - 1].calls > 0)
  <2> DEFINE first == IF Len(h) > KeptByReactive THEN Len(h) - KeptByReactive + 1 ELSE 1
             led   == /\ first > 1
                      /\ h[first].from = "tool" /\ h[first - 1].from = "model"
                      /\ h[first - 1].calls > 0
  <2>1. a = IF led THEN first - 1 ELSE first
    BY DEF TailStart
  <2>2. first \in Nat \ {0} /\ DOMAIN h = 1 .. Len(h)
    BY CallAssumption
  <2>3. CASE led
    <3>1. a = first - 1 /\ h[first - 1].from = "model"
      BY <2>1, <2>3
    <3> QED
      BY <3>1
  <2>4. CASE ~led
    <3>1. a = first
      BY <2>1, <2>4
    <3> HIDE DEF a, first
    <3> QED
      BY <2>2, <2>4, <3>1
  <2> QED
    BY <2>3, <2>4
<1> HIDE DEF a
<1>3. /\ s \in Seq(Msg) /\ Len(s) = Len(h) - a + 2 /\ s[1] = Note
      /\ \A i \in 2 .. Len(s) : s[i] = h[At(i)] /\ At(i) \in a .. Len(h)
  <2> DEFINE tail == SubSeq(h, a, Len(h))
  <2>1. tail \in Seq(Msg) /\ Len(tail) = Len(h) - a + 1
    BY <1>1
  <2>2. \A i \in 1 .. Len(tail) : tail[i] = h[a + i - 1]
    BY <1>1, <2>1
  <2>3. s = <<Note>> \o tail
    BY DEF Reactive, a
  <2> HIDE DEF tail, s
  <2>4. s \in Seq(Msg) /\ Len(s) = Len(tail) + 1 /\ s[1] = Note
        /\ \A i \in 2 .. Len(s) : s[i] = tail[i - 1]
    BY <2>1, <2>3, MessageTypes
  <2> QED
    BY <1>1, <2>1, <2>2, <2>4
<1> HIDE DEF s
<1>4. /\ \A i \in Answers(s) : i \in 2 .. Len(s) /\ At(i) \in Answers(h) /\ s[i].calls = h[At(i)].calls
      /\ \A i \in Results(s) : i \in 2 .. Len(s) /\ At(i) \in Results(h)
      /\ \A p \in Answers(h) : p >= a => p - a + 2 \in Answers(s) /\ s[p - a + 2] = h[p]
      /\ \A p \in Results(h) : p >= a => p - a + 2 \in Results(s)
  <2>1. \A i \in DOMAIN s : s[i].from # "user" => i \in 2 .. Len(s)
    BY <1>3, MessageTypes
  <2>2. \A p \in a .. Len(h) : p - a + 2 \in 2 .. Len(s) /\ At(p - a + 2) = p
    BY <1>1, <1>3
  <2>3. /\ Answers(s) = {i \in 1 .. Len(s) : s[i].from = "model"}
        /\ Results(s) = {i \in 1 .. Len(s) : s[i].from = "tool"}
        /\ DOMAIN s = 1 .. Len(s) /\ Len(s) \in Nat
    BY <1>3, Places
  <2>4. /\ Answers(h) = {i \in 1 .. Len(h) : h[i].from = "model"}
        /\ Results(h) = {i \in 1 .. Len(h) : h[i].from = "tool"} /\ Len(h) \in Nat
    BY Places
  <2>5. \A i \in 2 .. Len(s) : s[i] = h[At(i)] /\ At(i) \in a .. Len(h) /\ At(i) \in 1 .. Len(h)
    BY <1>1, <1>3, <2>4
  <2>6. \A i \in Answers(s) \cup Results(s) : i \in 2 .. Len(s)
    BY <2>1, <2>3
  <2>7. \A p \in 1 .. Len(h) : p >= a => p \in a .. Len(h)
    BY <1>1
  <2>8. \A p \in 1 .. Len(h) : p >= a => p - a + 2 \in 1 .. Len(s) /\ s[p - a + 2] = h[p]
    BY <2>2, <2>3, <2>5, <2>7
  <2> HIDE DEF At
  <2> QED
    BY <2>3, <2>4, <2>5, <2>6, <2>8
<1>5. \A j \in Answers(s) : Complete(s, j)
  <2> SUFFICES ASSUME NEW j \in Answers(s), NEW k \in 1 .. s[j].calls PROVE j + k \in Results(s)
    BY DEF Complete
  <2> DEFINE p == At(j) + k
  <2>1. p \in Results(h)
    BY <1>4 DEF WellFormed, Complete
  <2>2. k \in Nat /\ j \in 2 .. Len(s)
    BY <1>3, <1>4, Places DEF Answers
  <2>3. p >= a /\ p - a + 2 = j + k
    BY <1>1, <2>2
  <2> HIDE DEF p
  <2> QED
    BY <1>4, <2>1, <2>3
(* The answer a result of the summary belongs to.                            *)
<1>6. ASSUME NEW i \in Results(s)
      PROVE  \E q \in Answers(h) :
               /\ At(i) \in q + 1 .. q + h[q].calls
               /\ q >= a => FollowsAnswer(s, i)
               /\ q < a => i \in Orphans(s) /\ q + 1 < At(i)
  <2>1. PICK q \in Answers(h) : At(i) \in q + 1 .. q + h[q].calls
    BY <1>4, <1>6 DEF WellFormed, FollowsAnswer
  <2>2. q \in 1 .. Len(h) /\ h[q] \in Msg /\ h[q].calls \in Nat /\ i \in 2 .. Len(s)
    BY <1>4, Places
  <2>3. ASSUME q >= a PROVE FollowsAnswer(s, i)
    <3>1. q - a + 2 \in Answers(s) /\ s[q - a + 2].calls = h[q].calls
      BY <1>4, <2>3
    <3>2. i \in (q - a + 2) + 1 .. (q - a + 2) + h[q].calls
      BY <1>1, <2>1, <2>2
    <3> QED
      BY <3>1, <3>2 DEF FollowsAnswer
  <2>4. ASSUME q < a PROVE i \in Orphans(s)
    <3> SUFFICES ASSUME NEW j \in Answers(s), ~(j > i) PROVE FALSE
      BY <1>6 DEF Orphans
    <3>1. At(j) \in Answers(h) /\ j \in 2 .. Len(s) /\ At(j) >= a
      BY <1>1, <1>3, <1>4
    <3>2. At(j) - q \in 1 .. h[q].calls
      <4>1. j \in Nat /\ i \in Nat /\ j <= i
        BY <2>2, <3>1
      <4>2. At(j) \in Nat /\ At(j) <= At(i) /\ At(i) \in Nat
        BY <1>1, <3>1, <4>1
      <4>3. q \in Nat /\ h[q].calls \in Nat /\ At(i) <= q + h[q].calls
        BY <2>1, <2>2
      <4>4. At(j) > q
        BY <1>1, <2>4, <3>1, <4>2, <4>3
      <4> HIDE DEF At
      <4> QED
        BY <4>2, <4>3, <4>4
    <3>3. q + (At(j) - q) \in Results(h)
      BY <3>2 DEF WellFormed, Complete
    <3>4. At(j) \in Results(h)
      BY <1>1, <2>2, <3>1, <3>3
    <3> QED
      BY <3>1, <3>4 DEF Results, Answers
  <2>5. ASSUME q < a PROVE q + 1 < At(i)
    <3> SUFFICES ASSUME ~(q + 1 < At(i)) PROVE FALSE
      OBVIOUS
    <3>1. At(i) \in Results(h) /\ At(i) >= a /\ At(i) = a + i - 2
      BY <1>1, <1>4
    <3>2. At(i) = a /\ q = a - 1
      BY <1>1, <2>1, <2>2, <2>5, <3>1
    <3>3. h[a].from = "tool" /\ a \in DOMAIN h /\ h[a - 1].from = "model" /\ a - 1 \in DOMAIN h
            /\ h[a - 1].calls > 0
      <4>1. h[a].from = "tool" /\ a \in DOMAIN h /\ h[q].from = "model" /\ q \in DOMAIN h
        BY <3>1, <3>2 DEF Results, Answers
      <4>2. h[q].calls > 0
        BY <2>1, <2>2
      <4> QED
        BY <3>2, <4>1, <4>2
    <3> QED
      BY <1>2, <3>3
  <2> QED
    BY <2>1, <2>3, <2>4, <2>5
<1>7. \A i \in Results(s) : FollowsAnswer(s, i) \/ i \in Orphans(s)
  <2> SUFFICES ASSUME NEW i \in Results(s) PROVE FollowsAnswer(s, i) \/ i \in Orphans(s)
    OBVIOUS
  <2>1. PICK q \in Answers(h) : /\ q >= a => FollowsAnswer(s, i)
                                /\ q < a => i \in Orphans(s)
    BY <1>6
  <2>2. q \in Nat
    BY DEF Answers
  <2> QED
    BY <1>1, <2>1, <2>2
(* All results without their answer belong to one: the later of two such     *)
(* answers would stand among the results of the earlier.                     *)
<1>8. ASSUME NEW i0 \in Orphans(s)
      PROVE  \E j \in Answers(h) :
               {s[i].id : i \in Orphans(s)} \subseteq j + 2 .. j + h[j].calls
  <2>1. ASSUME NEW i \in Orphans(s)
        PROVE  \E q \in Answers(h) : /\ q < a /\ At(i) \in q + 2 .. q + h[q].calls
                                     /\ s[i].id = At(i) /\ At(i) >= a
    <3>1. PICK q \in Answers(h) : /\ At(i) \in q + 1 .. q + h[q].calls
                                  /\ q >= a => FollowsAnswer(s, i)
                                  /\ q < a => q + 1 < At(i)
      BY <1>6, <2>1 DEF Orphans
    <3>2. q \in 1 .. Len(h) /\ h[q].calls \in Nat /\ i \in 2 .. Len(s) /\ At(i) >= a
            /\ At(i) \in DOMAIN h /\ s[i] = h[At(i)]
      <4>1. i \in 2 .. Len(s) /\ i \in Results(s)
        BY <1>4, <2>1 DEF Orphans
      <4>2. q \in 1 .. Len(h) /\ h[q].calls \in Nat /\ DOMAIN h = 1 .. Len(h) /\ Len(h) \in Nat
        BY Places
      <4>3. At(i) \in a .. Len(h) /\ s[i] = h[At(i)]
        BY <1>3, <4>1
      <4> QED
        BY <1>1, <4>1, <4>2, <4>3
    <3>3. ~FollowsAnswer(s, i)
      <4> SUFFICES ASSUME NEW j \in Answers(s), i \in j + 1 .. j + s[j].calls PROVE FALSE
        BY DEF FollowsAnswer
      <4>1. j > i
        BY <2>1 DEF Orphans
      <4>2. j \in 1 .. Len(s) /\ s[j].calls \in Nat /\ Len(s) \in Nat
        BY <1>3, Places
      <4> QED
        BY <3>2, <4>1, <4>2
    <3>4. q < a
      BY <1>1, <3>1, <3>2, <3>3
    <3>5. s[i].id = At(i)
      BY <3>2 DEF NumberedByPlace
    <3> QED
      BY <1>1, <3>1, <3>2, <3>4, <3>5
  <2>2. PICK q0 \in Answers(h) : q0 < a /\ At(i0) \in q0 + 2 .. q0 + h[q0].calls /\ At(i0) >= a
    BY <1>8, <2>1
  <2>3. ASSUME NEW q \in Answers(h), NEW r \in Answers(h), NEW p \in Nat,
               q < r, r < a, p >= a, p \in q + 2 .. q + h[q].calls
        PROVE  FALSE
    <3>1. q \in Nat /\ r \in Nat /\ h[q].calls \in Nat
      BY Places
    <3>2. r - q \in 1 .. h[q].calls
      BY <1>1, <2>3, <3>1
    <3>3. r \in Results(h)
      BY <3>1, <3>2 DEF WellFormed, Complete
    <3> QED
      BY <3>3 DEF Results, Answers
  <2>4. ASSUME NEW i \in Orphans(s) PROVE s[i].id \in q0 + 2 .. q0 + h[q0].calls
    <3>1. PICK q \in Answers(h) : /\ q < a /\ At(i) \in q + 2 .. q + h[q].calls
                                  /\ s[i].id = At(i) /\ At(i) >= a
      BY <2>1, <2>4
    <3>2. q \in Nat /\ q0 \in Nat /\ h[q].calls \in Nat /\ h[q0].calls \in Nat
      BY Places
    <3>3. At(i) \in Nat /\ At(i0) \in Nat
      BY <2>2, <3>1, <3>2
    <3> HIDE DEF At
    <3>4. ~(q < q0)
      BY <2>2, <2>3, <3>1, <3>3
    <3>5. ~(q0 < q)
      BY <2>2, <2>3, <3>1, <3>3
    <3>6. q = q0
      BY <3>2, <3>4, <3>5
    <3> QED
      BY <3>1, <3>6
  <2> QED
    BY <2>4
<1>9. CutsOneAnswer(s, h)
  BY <1>5, <1>7, <1>8 DEF CutsOneAnswer
<1> QED
  BY <1>9 DEF s
-----------------------------------------------------------------------------
(* The inductive invariant of the conversation.                              *)

HistoryOK == history \in Seq(Msg) /\ NumberedByPlace(history) /\ sent \in Seq(Msg)

(* What the last call was made with, and which calls wait for results.       *)
ConversationInv ==
    /\ HistoryOK
    /\ ~interrupted => IF phase = "tools" THEN AllButLast(history) ELSE WellFormed(history)
    /\ phase = "tools" => history # << >> /\ history[Len(history)].from = "model"
    /\ phase \in {"call", "compact"} => sent = history
    /\ phase = "retry" => sent = Reactive(history)

(* While a call is under way, unavailable counts the 529 answers at the end  *)
(* of its attempts, whatever was left of the call before.                    *)
CountsStreak ==
    /\ unavailable <= Len(outcomes)
    /\ \A i \in 1 .. Len(outcomes) : i > Len(outcomes) - unavailable => outcomes[i] = "529"
    /\ unavailable < Len(outcomes) => outcomes[Len(outcomes) - unavailable] # "529"

RetryInv ==
    /\ attempts = Len(outcomes)
    /\ phase \notin {"idle", "before", "tools"} => CountsStreak
    /\ phase = "fallback" => unavailable = Threshold
    /\ phase = "retry" => unavailable < Threshold /\ attempts < MaxRetries
    /\ phase \notin {"retry", "fallback"} => outcomes = << >>

CallInv == CallTypeOK /\ ConversationInv /\ RetryInv

LEMMA CallInitInv == CallInit => CallInv
<1> SUFFICES ASSUME CallInit PROVE CallInv
  OBVIOUS
<1>1. CallTypeOK
  <2>1. << >> \in Seq(Errors) /\ DOMAIN history = {}
    BY DEF CallInit
  <2>2. 0 \in 0 .. Threshold /\ 0 \in 0 .. MaxRetries
    BY CallAssumption
  <2> QED
    BY <2>1, <2>2 DEF CallInit, CallTypeOK
<1>2. ConversationInv
  BY DEF CallInit, ConversationInv, HistoryOK, NumberedByPlace, WellFormed, Answers, Results
<1>3. RetryInv
  BY DEF CallInit, RetryInv, CountsStreak
<1> QED
  BY <1>1, <1>2, <1>3 DEF CallInv

(* Each way of adding messages keeps the types of the conversation.          *)
LEMMA AppendTyped ==
  ASSUME CallTypeOK, HistoryOK, NEW u \in Seq(Msg), \A i \in DOMAIN u : u[i].id = Len(history) + i,
         \A i \in DOMAIN u : u[i].calls \in 0 .. MaxCalls
  PROVE  LET h == history \o u
         IN  /\ h \in Seq(Msg) /\ NumberedByPlace(h)
             /\ \A i \in DOMAIN h :
                   h[i] \in [id : {i}, from : {"user", "model", "tool"}, calls : 0 .. MaxCalls]
<1> DEFINE h == history \o u
<1>1. history \in Seq(Msg) /\ u \in Seq(Msg) /\ NumberedByPlace(history)
  BY DEF HistoryOK
<1>2. /\ h \in Seq(Msg) /\ Len(h) = Len(history) + Len(u) /\ DOMAIN h = 1 .. Len(h)
      /\ \A i \in 1 .. Len(history) : h[i] = history[i]
  BY <1>1
<1>3. \A i \in 1 .. Len(h) : i \in 1 .. Len(history) \/
         (i - Len(history) \in DOMAIN u /\ h[i] = u[i - Len(history)])
  BY <1>1
<1> HIDE DEF h
<1>4. \A i \in 1 .. Len(h) : h[i].id = i /\ h[i].calls \in 0 .. MaxCalls
  <2> SUFFICES ASSUME NEW i \in 1 .. Len(h) PROVE h[i].id = i /\ h[i].calls \in 0 .. MaxCalls
    OBVIOUS
  <2>1. CASE i \in 1 .. Len(history)
    <3>1. i \in DOMAIN history
      BY <1>1, <2>1
    <3> QED
      BY <1>2, <2>1, <3>1 DEF HistoryOK, NumberedByPlace, CallTypeOK
  <2>2. CASE i \notin 1 .. Len(history)
    <3>1. i - Len(history) \in DOMAIN u /\ h[i] = u[i - Len(history)] /\ Len(history) \in Nat
      BY <1>1, <1>3, <2>2
    <3> QED
      BY <3>1
  <2> QED
    BY <2>1, <2>2
<1>5. \A i \in DOMAIN h : h[i] \in [id : {i}, from : {"user", "model", "tool"}, calls : 0 .. MaxCalls]
  <2> SUFFICES ASSUME NEW i \in DOMAIN h
               PROVE  h[i] \in [id : {i}, from : {"user", "model", "tool"}, calls : 0 .. MaxCalls]
    OBVIOUS
  <2>1. h[i] \in Msg /\ h[i].id = i /\ h[i].calls \in 0 .. MaxCalls
    BY <1>2, <1>4
  <2> QED
    BY <2>1 DEF Msg
<1> QED
  BY <1>2, <1>4, <1>5 DEF NumberedByPlace, h

LEMMA AppendOne ==
  ASSUME CallTypeOK, HistoryOK, NEW m \in Msg, m.id = Len(history) + 1, m.calls \in 0 .. MaxCalls
  PROVE  LET h == Append(history, m)
         IN  /\ h \in Seq(Msg) /\ NumberedByPlace(h)
             /\ \A i \in DOMAIN h :
                   h[i] \in [id : {i}, from : {"user", "model", "tool"}, calls : 0 .. MaxCalls]
<1>1. Append(history, m) = history \o <<m>>
  BY DEF HistoryOK
<1> DEFINE u == <<m>>
<1>2. u \in Seq(Msg) /\ \A i \in DOMAIN u : i = 1 /\ u[i] = m
  OBVIOUS
<1> HIDE DEF u
<1>3. /\ \A i \in DOMAIN u : u[i].id = Len(history) + i
      /\ \A i \in DOMAIN u : u[i].calls \in 0 .. MaxCalls
  BY <1>2
<1> QED
  BY <1>1, <1>2, <1>3, AppendTyped DEF u

(* An answer: of the first call, of a continuation, of a retry.              *)
LEMMA AnsweredKeeps ==
  ASSUME CallInv, phase \notin {"tools", "idle"}, NEW n \in 0 .. MaxCalls, Answered(n)
  PROVE  CallInv'
<1> DEFINE m == Answer(Len(history) + 1, n)
<1>1. Len(history) \in Nat /\ n \in Nat
  BY DEF CallInv, ConversationInv, HistoryOK
<1>2. m \in Msg /\ m.id = Len(history) + 1 /\ m.from = "model" /\ m.calls = n
  BY <1>1, MessageTypes
<1> HIDE DEF m
<1>3. /\ history' = Append(history, m) /\ phase' = (IF n > 0 THEN "tools" ELSE "idle")
      /\ sent' = << >> /\ attempts' = 0 /\ outcomes' = << >>
      /\ UNCHANGED <<unavailable, interrupted>>
  BY DEF Answered, m
<1>4. /\ history' \in Seq(Msg) /\ NumberedByPlace(history')
      /\ \A i \in DOMAIN history' :
            history'[i] \in [id : {i}, from : {"user", "model", "tool"}, calls : 0 .. MaxCalls]
  BY <1>2, <1>3, AppendOne DEF CallInv, ConversationInv
<1>5. CallTypeOK'
  BY <1>3, <1>4, CallAssumption DEF CallTypeOK, CallInv
<1>6. history \in Seq(Msg)
  BY DEF CallInv, ConversationInv, HistoryOK
<1>7. ~interrupted => AllButLast(history') /\ (n = 0 => WellFormed(history'))
  BY <1>2, <1>3, <1>6, AnswerKeepsWellFormed DEF CallInv, ConversationInv
<1>8. history' # << >> /\ history'[Len(history')] = m
  BY <1>2, <1>3, <1>6
<1>9. ConversationInv'
  BY <1>1, <1>2, <1>3, <1>4, <1>7, <1>8 DEF ConversationInv, HistoryOK, NumberedByPlace
<1>10. RetryInv'
  BY <1>3 DEF RetryInv, CountsStreak
<1> QED
  BY <1>5, <1>9, <1>10 DEF CallInv

(* The end of a turn without an answer.                                      *)
LEMMA BreakOffKeeps ==
  ASSUME CallInv, BreakOff, unavailable' \in 0 .. Threshold, interrupted' \in BOOLEAN,
         interrupted' = (interrupted \/ phase = "tools")
  PROVE  CallInv'
<1>1. CallTypeOK'
  BY CallAssumption DEF CallInv, CallTypeOK, BreakOff
<1>2. ConversationInv'
  <2>1. /\ history' = history /\ phase' = "idle" /\ sent' = << >>
        /\ ~interrupted' => ~interrupted /\ phase # "tools"
    BY DEF BreakOff, CallInv, CallTypeOK
  <2>2. HistoryOK'
    BY <2>1 DEF CallInv, ConversationInv, HistoryOK, NumberedByPlace
  <2> QED
    BY <2>1, <2>2 DEF CallInv, ConversationInv
<1>3. RetryInv'
  BY DEF RetryInv, CountsStreak, BreakOff
<1> QED
  BY <1>1, <1>2, <1>3 DEF CallInv

(* Steps that change neither the conversation nor the counters.              *)
LEMMA PhaseStepKeeps ==
  ASSUME CallInv, phase \in {"call", "compact"},
         phase' \in {"continue", "compact", "retry"},
         sent' \in Seq(Msg),
         phase' = "compact" => sent' = history,
         phase' = "retry" => sent' = Reactive(history),
         UNCHANGED <<history, unavailable, attempts, outcomes, interrupted>>
  PROVE  CallInv'
<1>1. CallTypeOK'
  BY DEF CallInv, CallTypeOK
<1>2. ConversationInv'
  BY DEF CallInv, ConversationInv, HistoryOK, NumberedByPlace
<1>3. RetryInv'
  <2>1. outcomes = << >> /\ unavailable = 0 /\ attempts = 0
    BY DEF CallInv, CallTypeOK, RetryInv, CountsStreak
  <2> QED
    BY <2>1, CallAssumption DEF RetryInv, CountsStreak
<1> QED
  BY <1>1, <1>2, <1>3 DEF CallInv

LEMMA BeforeModelKeeps ==
  ASSUME CallInv, NEW over \in BOOLEAN, NEW auto \in BOOLEAN, BeforeModel(over, auto)
  PROVE  CallInv'
<1>1. /\ phase = "before" /\ history' = Merge(history, Compacted(history, over, auto))
      /\ phase' = "call" /\ sent' = history' /\ unavailable' = 0 /\ attempts' = 0
      /\ outcomes' = << >> /\ interrupted' = interrupted
  BY DEF BeforeModel, CountAtStart
<1>2. history \in Seq(Msg) /\ NumberedByPlace(history) /\ DrawnFrom(history, history)
  BY DEF CallInv, ConversationInv, HistoryOK, DrawnFrom
<1>3. PICK n \in Nat : history' = history \o [i \in 1 .. n |-> User(Len(history) + i)]
  BY <1>1, <1>2, CompactedIsDrawn, MergeAppends
<1> DEFINE u == [i \in 1 .. n |-> User(Len(history) + i)]
<1>4. /\ u \in Seq(Msg)
      /\ \A i \in DOMAIN u : u[i].from = "user" /\ u[i].id = Len(history) + i /\ u[i].calls = 0
  <2>1. Len(history) \in Nat
    BY <1>2
  <2>2. \A i \in 1 .. n : Len(history) + i \in Nat
    BY <2>1
  <2>3. u \in [1 .. n -> Msg]
    BY <2>2, MessageTypes
  <2> QED
    BY <2>2, <2>3, MessageTypes
<1> HIDE DEF u
<1>5. history' = history \o u
  BY <1>3 DEF u
<1>6. /\ history' \in Seq(Msg) /\ NumberedByPlace(history')
      /\ \A i \in DOMAIN history' :
            history'[i] \in [id : {i}, from : {"user", "model", "tool"}, calls : 0 .. MaxCalls]
  <2>1. \A i \in DOMAIN u : u[i].calls \in 0 .. MaxCalls
    BY <1>4, CallAssumption
  <2>2. CallTypeOK /\ HistoryOK
    BY DEF CallInv, ConversationInv
  <2>3. \A i \in DOMAIN u : u[i].id = Len(history) + i
    BY <1>4
  <2> QED
    BY <1>4, <1>5, <2>1, <2>2, <2>3, AppendTyped
<1>7. ~interrupted => WellFormed(history')
  BY <1>1, <1>2, <1>4, <1>5, AppendKeepsWellFormed DEF CallInv, ConversationInv
<1>8. CallTypeOK'
  BY <1>1, <1>6, CallAssumption DEF CallTypeOK, CallInv
<1>9. ConversationInv'
  BY <1>1, <1>6, <1>7 DEF ConversationInv, HistoryOK, NumberedByPlace
<1>10. RetryInv'
  BY <1>1 DEF RetryInv, CountsStreak
<1> QED
  BY <1>8, <1>9, <1>10 DEF CallInv

LEMMA UserSaysKeeps == ASSUME CallInv, UserSays PROVE CallInv'
<1> DEFINE m == User(Len(history) + 1)
<1>1. history \in Seq(Msg) /\ Len(history) \in Nat
  BY DEF CallInv, ConversationInv, HistoryOK
<1>2. m \in Msg /\ m.id = Len(history) + 1 /\ m.from = "user" /\ m.calls = 0
  BY <1>1, MessageTypes
<1> HIDE DEF m
<1>3. /\ phase = "idle" /\ history' = Append(history, m) /\ phase' = "before"
      /\ UNCHANGED <<sent, unavailable, attempts, outcomes, interrupted>>
  BY DEF UserSays, m
<1>4. /\ history' \in Seq(Msg) /\ NumberedByPlace(history')
      /\ \A i \in DOMAIN history' :
            history'[i] \in [id : {i}, from : {"user", "model", "tool"}, calls : 0 .. MaxCalls]
  <2>1. 0 \in 0 .. MaxCalls
    BY CallAssumption
  <2> QED
    BY <1>2, <1>3, <2>1, AppendOne DEF CallInv, ConversationInv
<1>5. ~interrupted => WellFormed(history')
  <2>1. history' = history \o <<m>> /\ <<m>> \in Seq(Msg) /\ \A i \in DOMAIN <<m>> : <<m>>[i].from = "user"
    BY <1>1, <1>2, <1>3
  <2> QED
    BY <1>1, <1>3, <2>1, AppendKeepsWellFormed DEF CallInv, ConversationInv
<1>6. CallTypeOK'
  BY <1>3, <1>4 DEF CallTypeOK, CallInv
<1>7. ConversationInv'
  BY <1>3, <1>4, <1>5 DEF CallInv, ConversationInv, HistoryOK, NumberedByPlace
<1>8. RetryInv'
  BY <1>3 DEF CallInv, RetryInv, CountsStreak
<1> QED
  BY <1>6, <1>7, <1>8 DEF CallInv

LEMMA ToolsEndKeeps == ASSUME CallInv, ToolsEnd PROVE CallInv'
<1> DEFINE n == history[Len(history)].calls
           u == [i \in 1 .. n |-> Result(Len(history) + i)]
<1>1. history \in Seq(Msg) /\ Len(history) \in Nat /\ phase = "tools" /\ n \in Nat
  <2>1. history \in Seq(Msg) /\ phase = "tools" /\ history # << >>
    BY DEF ToolsEnd, CallInv, ConversationInv, HistoryOK
  <2>2. Len(history) \in 1 .. Len(history)
    BY <2>1
  <2> QED
    BY <2>1, <2>2, Places
<1>2. /\ history' = history \o u /\ phase' = "before"
      /\ UNCHANGED <<sent, unavailable, attempts, outcomes, interrupted>>
  BY DEF ToolsEnd
<1> HIDE DEF n
<1>3. /\ u \in Seq(Msg) /\ Len(u) = n
      /\ \A i \in DOMAIN u : u[i].from = "tool" /\ u[i].id = Len(history) + i /\ u[i].calls = 0
  <2>1. \A i \in 1 .. n : Len(history) + i \in Nat
    BY <1>1
  <2>2. u \in [1 .. n -> Msg]
    BY <2>1, MessageTypes
  <2> QED
    BY <1>1, <2>1, <2>2, MessageTypes
<1> HIDE DEF u
<1>4. /\ history' \in Seq(Msg) /\ NumberedByPlace(history')
      /\ \A i \in DOMAIN history' :
            history'[i] \in [id : {i}, from : {"user", "model", "tool"}, calls : 0 .. MaxCalls]
  <2>1. \A i \in DOMAIN u : u[i].calls \in 0 .. MaxCalls
    BY <1>3, CallAssumption
  <2> QED
    BY <1>2, <1>3, <2>1, AppendTyped DEF CallInv, ConversationInv
<1>5. ~interrupted => WellFormed(history')
  BY <1>1, <1>2, <1>3, ResultsCompleteAnswer DEF CallInv, ConversationInv, n
<1>6. CallTypeOK'
  BY <1>2, <1>4 DEF CallTypeOK, CallInv
<1>7. ConversationInv'
  BY <1>2, <1>4, <1>5 DEF CallInv, ConversationInv, HistoryOK, NumberedByPlace
<1>8. RetryInv'
  BY <1>1, <1>2 DEF CallInv, RetryInv, CountsStreak
<1> QED
  BY <1>6, <1>7, <1>8 DEF CallInv

(* A failed attempt: another one follows, or the fallback model.             *)
LEMMA AttemptKeeps ==
  ASSUME CallInv, NEW e \in Errors, phase = "retry", e # "other",
         ~(AttemptsUsed /\ ~(e = "529" /\ Count(e) >= Threshold)),
         unavailable' = Count(e), attempts' = attempts + 1, outcomes' = Append(outcomes, e),
         phase' = IF e = "529" /\ Count(e) >= Threshold THEN "fallback" ELSE "retry",
         UNCHANGED <<history, sent, interrupted>>
  PROVE  CallInv'
<1> DEFINE n == Len(outcomes)
<1>1. /\ outcomes \in Seq(Errors) /\ n \in Nat /\ attempts = n /\ attempts < MaxRetries
      /\ unavailable \in Nat /\ unavailable < Threshold /\ unavailable <= n
      /\ Threshold \in Nat \ {0} /\ MaxRetries \in Nat \ {0}
  BY CallAssumption DEF CallInv, CallTypeOK, RetryInv, CountsStreak
<1>2. /\ outcomes' \in Seq(Errors) /\ Len(outcomes') = n + 1 /\ outcomes'[n + 1] = e
      /\ \A i \in 1 .. n : outcomes'[i] = outcomes[i]
  BY <1>1
<1>3. CASE e = "529"
  <2>1. unavailable' = unavailable + 1
    BY <1>3 DEF Count
  <2>2. phase' = (IF unavailable' = Threshold THEN "fallback" ELSE "retry")
    BY <1>1, <1>3, <2>1
  <2>3. \A i \in 1 .. Len(outcomes') : i > Len(outcomes') - unavailable' => outcomes'[i] = "529"
    BY <1>1, <1>2, <1>3, <2>1 DEF CallInv, RetryInv, CountsStreak
  <2>4. unavailable' < Len(outcomes') => outcomes'[Len(outcomes') - unavailable'] # "529"
    BY <1>1, <1>2, <2>1 DEF CallInv, RetryInv, CountsStreak
  <2>5. phase' = "retry" => attempts' < MaxRetries
    BY <1>1, <1>3, <2>1, <2>2 DEF AttemptsUsed
  <2>6. RetryInv'
    BY <1>1, <1>2, <2>1, <2>2, <2>3, <2>4, <2>5 DEF RetryInv, CountsStreak
  <2>7. CallTypeOK'
    BY <1>1, <1>2, <2>1, <2>2 DEF CallInv, CallTypeOK
  <2>8. ConversationInv'
    BY DEF CallInv, ConversationInv, HistoryOK, NumberedByPlace
  <2> QED
    BY <2>6, <2>7, <2>8 DEF CallInv
<1>4. CASE e # "529"
  <2>1. unavailable' = 0 /\ phase' = "retry"
    BY <1>4 DEF Count
  <2>2. attempts' < MaxRetries
    BY <1>1, <1>4 DEF AttemptsUsed
  <2>3. RetryInv'
    BY <1>1, <1>2, <1>4, <2>1, <2>2 DEF RetryInv, CountsStreak
  <2>4. CallTypeOK'
    BY <1>1, <1>2, <2>1 DEF CallInv, CallTypeOK
  <2>5. ConversationInv'
    BY <2>1 DEF CallInv, ConversationInv, HistoryOK, NumberedByPlace
  <2> QED
    BY <2>3, <2>4, <2>5 DEF CallInv
<1> QED
  BY <1>3, <1>4

LEMMA CallStepInv == CallInv /\ [CallNext]_callVars => CallInv'
<1> SUFFICES ASSUME CallInv, [CallNext]_callVars PROVE CallInv'
  OBVIOUS
<1>1. history \in Seq(Msg) /\ sent \in Seq(Msg)
  BY DEF CallInv, ConversationInv, HistoryOK
<1>2. 0 \in 0 .. MaxCalls /\ interrupted \in BOOLEAN
  BY CallAssumption DEF CallInv, CallTypeOK
<1>3. CASE UserSays
  BY <1>3, UserSaysKeeps
<1>4. ASSUME NEW over \in BOOLEAN, NEW auto \in BOOLEAN, BeforeModel(over, auto) PROVE CallInv'
  BY <1>4, BeforeModelKeeps
<1>5. ASSUME NEW n \in 0 .. MaxCalls, CallSucceeds(n) PROVE CallInv'
  BY <1>5, AnsweredKeeps DEF CallSucceeds
<1>6. CASE RetrySucceeds \/ FallbackSucceeds \/ ContinuationEnds
  BY <1>2, <1>6, AnsweredKeeps DEF RetrySucceeds, FallbackSucceeds, ContinuationEnds
<1>7. CASE ToolsEnd
  BY <1>7, ToolsEndKeeps
<1>8. CASE Killed
  <2>1. unavailable' \in 0 .. Threshold
    BY <1>8, CallAssumption DEF Killed
  <2> QED
    BY <1>2, <1>8, <2>1, BreakOffKeeps DEF Killed
<1>9. CASE CallTruncated
  <2>1. <<Answer(0, 0), Note>> \in Seq(Msg)
    BY MessageTypes
  <2>2. sent' \in Seq(Msg)
    BY <1>1, <1>9, <2>1 DEF CallTruncated
  <2> QED
    BY <1>9, <2>2, PhaseStepKeeps DEF CallTruncated
<1>10. CASE CallExceeds
  <2>1. sent' = history
    BY <1>10 DEF CallExceeds, CallInv, ConversationInv
  <2> QED
    BY <1>1, <1>10, <2>1, PhaseStepKeeps DEF CallExceeds
<1>11. CASE CompactForRetry
  <2>1. sent = history /\ sent' = Reactive(history)
    BY <1>11 DEF CompactForRetry, CallInv, ConversationInv
  <2>2. DrawnFrom(history, history)
    BY <1>1 DEF DrawnFrom
  <2>3. Reactive(history) \in Seq(Msg)
    <3>1. Len(history) \in Nat /\ TailStart(history) \in Nat \ {0}
      BY <1>1, TailStartIsPlace
    <3>2. DrawnFrom(SubSeq(history, TailStart(history), Len(history)), history)
      BY <2>2, <3>1, PartIsDrawn
    <3> QED
      BY <3>2, JoinIsDrawn, NoteIsDrawn DEF Reactive, DrawnFrom
  <2> QED
    BY <1>11, <2>1, <2>3, PhaseStepKeeps DEF CompactForRetry
<1>12. CASE CallFails \/ CompactionFails \/ FallbackFails
  <2>1. unavailable' \in 0 .. Threshold
    BY <1>12 DEF CallFails, CompactionFails, FallbackFails, CallInv, CallTypeOK
  <2> QED
    BY <1>2, <1>12, <2>1, BreakOffKeeps DEF CallFails, CompactionFails, FallbackFails
<1>13. ASSUME NEW e \in Errors, RetryFails(e) PROVE CallInv'
  <2>1. phase = "retry" /\ interrupted' = interrupted
    BY <1>13 DEF RetryFails
  <2>2. CASE e = "other" \/ (AttemptsUsed /\ ~(e = "529" /\ Count(e) >= Threshold))
    <3>1. unavailable' \in 0 .. Threshold
      <4>1. unavailable \in 0 .. Threshold /\ unavailable < Threshold /\ Threshold \in Nat
        BY <2>1, CallAssumption DEF CallInv, CallTypeOK, RetryInv
      <4> QED
        BY <1>13, <2>2, <4>1 DEF RetryFails, Count
    <3> QED
      BY <1>2, <1>13, <2>1, <2>2, <3>1, BreakOffKeeps DEF RetryFails
  <2>3. CASE ~(e = "other" \/ (AttemptsUsed /\ ~(e = "529" /\ Count(e) >= Threshold)))
    BY <1>13, <2>1, <2>3, AttemptKeeps DEF RetryFails
  <2> QED
    BY <2>2, <2>3
<1>14. CASE UNCHANGED callVars
  BY <1>14 DEF callVars, CallInv, CallTypeOK, ConversationInv, HistoryOK, NumberedByPlace,
               RetryInv, CountsStreak
<1> QED
  BY <1>3, <1>4, <1>5, <1>6, <1>7, <1>8, <1>9, <1>10, <1>11, <1>12, <1>13, <1>14 DEF CallNext

LEMMA CallInvCorrect == CallSpec => []CallInv
BY CallInitInv, CallStepInv, PTL DEF CallSpec
-----------------------------------------------------------------------------
(* The conversation goes in a lead's turn as it does by itself: what the     *)
(* memories add only decides when a step is taken.                           *)
LEMMA TurnIsConversationStep == [LeadNext]_leadVars => [CallNext]_callVars
<1> SUFFICES ASSUME [LeadNext]_leadVars PROVE [CallNext]_callVars
  OBVIOUS
<1>1. 0 \in 0 .. MaxCalls /\ \A n \in 1 .. MaxCalls : n \in 0 .. MaxCalls
  BY CallAssumption
<1>2. CASE StartTurn
  BY <1>2 DEF StartTurn, CallNext
<1>3. CASE AskModel
  BY <1>1, <1>3 DEF AskModel, CallNext
<1>4. ASSUME NEW whole \in BOOLEAN, EndTurn(whole) PROVE CallNext
  BY <1>1, <1>4 DEF EndTurn, CallNext
<1>5. ASSUME NEW s \in Slots, MemoryTool(s) PROVE UNCHANGED callVars
  BY <1>5 DEF MemoryTool
<1>6. CASE AllToolsEnd
  BY <1>6 DEF AllToolsEnd, CallNext
<1>7. CASE FailTurn
  BY <1>7 DEF FailTurn, CallNext
<1>8. CASE KilledWhileExtracting \/ MemoryStep \/ OthersTurn
  BY <1>8 DEF KilledWhileExtracting, MemoryStep, OthersTurn
<1>9. CASE UNCHANGED leadVars
  BY <1>9 DEF leadVars
<1> QED
  BY <1>2, <1>3, <1>4, <1>5, <1>6, <1>7, <1>8, <1>9 DEF LeadNext

(* A lead's turn implements the conversation of ModelCall.                   *)
THEOREM LeadImplementsConversation == LeadSpec => CallSpec
<1>1. LeadInit => CallInit
  BY DEF LeadInit
<1> QED
  BY <1>1, TurnIsConversationStep, PTL DEF LeadSpec, CallSpec

(* Type correctness of a lead's turn: the memories and the conversation      *)
(* (MemoryRepository; abefore_model, awrap_model_call).                      *)
THEOREM LeadTypeCorrect == LeadSpec => []LeadTypeOK
<1>1. MemoryInv /\ CallInv => LeadTypeOK
  BY DEF MemoryInv, CallInv, LeadTypeOK
<1> QED
  BY <1>1, InvTheorem, LeadImplementsMemory, CallInvCorrect, LeadImplementsConversation, PTL

(* Whatever abefore_model trims, replaces and sums up, and however often,    *)
(* the model is called with each call next to its results.                   *)
THEOREM CallsMeetTheirResultsCorrect == LeadSpec => []CallsMeetTheirResults
<1>1. CallInv => CallsMeetTheirResults
  BY DEF CallInv, ConversationInv, CallsMeetTheirResults
<1> QED
  BY <1>1, CallInvCorrect, LeadImplementsConversation, PTL

(* The list of a retry after an overflow (reactive_compact) holds each kept  *)
(* call with its results; results without their call stand at its head and   *)
(* are those of one answer, never its first.                                 *)
THEOREM RetryCutsOneAnswerCorrect == LeadSpec => []RetryCutsOneAnswer
<1>1. ASSUME CallInv PROVE RetryCutsOneAnswer
  <2> SUFFICES ASSUME phase = "retry", ~interrupted PROVE CutsOneAnswer(sent, history)
    BY DEF RetryCutsOneAnswer, CutsOneAnswer
  <2>1. /\ history \in Seq(Msg) /\ NumberedByPlace(history) /\ WellFormed(history)
        /\ sent = Reactive(history)
    BY <1>1 DEF CallInv, ConversationInv, HistoryOK
  <2> QED
    BY <2>1, ReactiveCutsOneAnswer
<1> QED
  BY <1>1, CallInvCorrect, LeadImplementsConversation, PTL

(* The fallback model is asked after Threshold 529 answers in a row, neither *)
(* earlier nor later (_call_with_retry), whatever other errors come between. *)
THEOREM FallbackAfterStreakCorrect == LeadSpec => []FallbackAfterStreak
<1>1. ASSUME CallInv PROVE FallbackAfterStreak
  <2> DEFINE n == Len(outcomes)
  <2>1. /\ n \in Nat /\ DOMAIN outcomes = 1 .. n /\ unavailable \in Nat /\ Threshold \in Nat
    BY <1>1, CallAssumption DEF CallInv, CallTypeOK
  <2>2. CASE phase = "fallback"
    BY <1>1, <2>1, <2>2 DEF CallInv, RetryInv, CountsStreak, FallbackAfterStreak
  <2>3. CASE phase = "retry"
    <3>1. unavailable <= n /\ unavailable < Threshold /\ (unavailable < n => outcomes[n - unavailable] # "529")
      BY <1>1, <2>3 DEF CallInv, RetryInv, CountsStreak
    <3>2. n >= Threshold => n - unavailable \in DOMAIN outcomes /\ n - unavailable > n - Threshold
      BY <2>1, <3>1
    <3> QED
      BY <2>1, <2>3, <3>1, <3>2 DEF FallbackAfterStreak
  <2> QED
    BY <2>2, <2>3 DEF FallbackAfterStreak
<1> QED
  BY <1>1, CallInvCorrect, LeadImplementsConversation, PTL
=============================================================================
