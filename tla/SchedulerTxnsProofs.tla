-------------------------- MODULE SchedulerTxnsProofs --------------------------
(* Theorems about SchedulerTxns, for any number of connections and every   *)
(* set of calls: what the row locks of READ COMMITTED transactions are     *)
(* enough for.  TxnInv, what each open transaction knows and holds, is kept *)
(* by every statement because a commit spares the rows of the others; with *)
(* it the invariants of DagScheduler hold for the committed rows even when *)
(* a commit is late (its task was published again meanwhile), the rows     *)
(* change as TaskBoard says, and a ready task has been announced.  When    *)
(* nothing is published again a commit is never late, and every step is    *)
(* one of DagScheduler or changes no row (SerializableCorrect).            *)
EXTENDS SchedulerTxns, DagSchedulerProofs

(* The rows of transactions.                                               *)
TxnRow ==
  [op       : AllCalls \cup {"none"},
   at       : {"none", "exec", "task", "runtime", "dependents", "downstream", "commit",
               "pick", "row"},
   key      : Key \cup {NoKey},
   runtime  : Runtimes \cup {NoRuntime},
   card     : Cards \cup {NoCard},
   plan     : Plans \cup {<< >>},
   n        : Nat,
   hit      : BOOLEAN,
   rows     : SUBSET Tasks,
   count    : UNION {[D -> Nat] : D \in SUBSET Tasks},
   left     : SUBSET Key,
   execs    : SUBSET Key,
   tasks    : SUBSET Tasks,
   runtimes : SUBSET Runtimes]

(* A transaction about an attempt has the rows its statements matched, and *)
(* they still match; of those it did not match it knows that they name     *)
(* another attempt.                                                        *)
AttemptTxn(x) ==
  /\ x.key \in DOMAIN execs
  /\ x.runtime = execs[x.key].runtime
  /\ x.execs = (IF x.at = "exec" THEN {} ELSE {x.key})
  /\ x.at # "exec" => ExecMatches(x.op, x.key)
  /\ CASE x.at \in {"exec", "task"} -> x.tasks = {} /\ ~x.hit /\ x.runtimes = {}
       [] x.at = "runtime" -> x.runtimes = {}
       [] x.at \in {"dependents", "downstream", "commit"} ->
            IF RuntimeMatches(x.op, x.key, x.runtime)
            THEN x.runtimes = {x.runtime}
            ELSE x.runtimes = {} /\ x.op # "finish"
       [] OTHER -> FALSE
  /\ x.at = "task" => x.op \notin {"start", "finish"}
  /\ x.at \in {"dependents", "downstream"} => x.op = "complete"
  /\ x.at = "commit" => x.op # "complete"
  /\ x.hit => /\ execs[x.key].task \in x.tasks
              /\ TaskMatches(x.key, x.runtime)
  /\ ~x.hit /\ x.at \notin {"exec", "task"} /\ x.op \notin {"start", "finish"} =>
       task[execs[x.key].task].key # x.key
  /\ IF x.at = "downstream"
     THEN /\ x.tasks \subseteq x.rows \cup {execs[x.key].task}
          /\ DOMAIN x.count \subseteq x.rows \cap x.tasks
     ELSE x.tasks = (IF x.hit THEN {execs[x.key].task} ELSE {})

ClaimTxn(x) ==
  /\ x.runtime \in Runtimes
  /\ x.runtimes = {x.runtime}
  /\ runtime[x.runtime].status = "idle"
  /\ x.execs = {}
  /\ \/ x.at = "pick" /\ x.tasks = {} /\ x.key = NoKey /\ x.card = NoCard
     \/ /\ x.at = "commit"
        /\ \E t \in Tasks :
             /\ x.tasks = {t}
             /\ Ready(t)
             /\ \/ x.card = NoCard /\ x.key = NoKey /\ CardFor(t) = {}
                \/ x.card \in CardFor(t) /\ x.key \in NextKeys(t) \ DOMAIN execs

ReclaimTxn(x) ==
  /\ x.at = "runtime"
  /\ x.execs # {}
  /\ \A k \in x.execs : Reclaimable(k)
  /\ x.left \subseteq x.execs
  /\ x.tasks = {execs[k].task : k \in x.execs}
  /\ x.runtimes = {r \in Runtimes : \E k \in x.execs \ x.left :
                                      execs[k].runtime = r /\ runtime[r].key = k}

PublishTxn(x) ==
  /\ x.at = "row"
  /\ x.plan \in Plans
  /\ x.n \in 1 .. Len(x.plan) + 1
  /\ x.execs = {} /\ x.runtimes = {}
  /\ x.tasks = {x.plan[i].id : i \in 1 .. x.n - 1}

TxnOK(x) ==
  CASE x.op \in AttemptCalls -> AttemptTxn(x)
    [] x.op = "claim"        -> ClaimTxn(x)
    [] x.op = "reclaim"      -> ReclaimTxn(x)
    [] x.op = "publish"      -> PublishTxn(x)
    [] OTHER                 -> x = NoTxn

(* No row is held by two transactions, and no execution_id is drawn twice. *)
LocksExclusive ==
  \A s, o \in Slots : s # o => /\ txn[s].execs \cap txn[o].execs = {}
                               /\ txn[s].tasks \cap txn[o].tasks = {}
                               /\ txn[s].runtimes \cap txn[o].runtimes = {}

DrawnApart ==
  \A s, o \in Slots :
    /\ s # o
    /\ txn[s].op = "claim" /\ txn[s].key # NoKey
    /\ txn[o].op = "claim" /\ txn[o].key # NoKey
    => txn[s].key[1] # txn[o].key[1]

TxnsOK ==
  \A s \in Slots : \A x \in {txn[s]} :
    /\ TxnOK(x)
    /\ x.op \in Calls \cup {"none"}
    /\ x.at # "downstream" => DOMAIN x.count = {}

TxnInv == txn \in [Slots -> TxnRow] /\ TxnsOK /\ LocksExclusive /\ DrawnApart
-----------------------------------------------------------------------------
(* What a step leaves to a transaction y that does not take it: the rows y *)
(* holds, that an attempt is named by no row that did not name it, and for *)
(* a claim that has read them the cards.                                   *)
ExecsKept ==
  \A k \in DOMAIN execs : /\ k \in DOMAIN execs'
                          /\ execs'[k].task = execs[k].task
                          /\ execs'[k].runtime = execs[k].runtime
                          /\ execs'[k].card = execs[k].card

KeysKept ==
  \A k \in DOMAIN execs : /\ \A t \in Tasks : task'[t].key = k => task[t].key = k
                          /\ \A r \in Runtimes : runtime'[r].key = k => runtime[r].key = k

SameExec(k) ==
  execs'[k].status = execs[k].status /\ (execs'[k].leased => execs[k].leased)

Spares(y) ==
  /\ ExecsKept /\ KeysKept
  /\ y.op = "claim" /\ y.at = "commit" => active' = active
  /\ \A k \in y.execs : SameExec(k)
  /\ \A t \in y.tasks : task'[t] = task[t]
  /\ \A r \in y.runtimes : runtime'[r] = runtime[r]
  /\ y.op = "claim" /\ y.key # NoKey =>
       \A k \in DOMAIN execs' \ DOMAIN execs : k[1] # y.key[1]

LEMMA AttemptStays ==
  ASSUME TypeOK, NEW y \in TxnRow, AttemptTxn(y), Spares(y)
  PROVE  AttemptTxn(y)'
<1>1. /\ y.key \in DOMAIN execs' /\ execs'[y.key].runtime = execs[y.key].runtime
      /\ execs'[y.key].task = execs[y.key].task
      /\ execs[y.key].task \in Tasks /\ execs[y.key].runtime \in Runtimes
  BY DEF AttemptTxn, Spares, ExecsKept, TypeOK, ExecRow
<1>2. y.at # "exec" => execs'[y.key].status = execs[y.key].status
  BY DEF AttemptTxn, Spares, SameExec
<1>3. y.at # "exec" => ExecMatches(y.op, y.key)'
  BY <1>1, <1>2 DEF AttemptTxn, ExecMatches, IsActive, IsTerminal
<1>4. y.hit => /\ execs'[y.key].task \in y.tasks /\ TaskMatches(y.key, y.runtime)'
  BY <1>1 DEF AttemptTxn, TaskMatches, Spares
<1>5. y.runtimes = {y.runtime} /\ RuntimeMatches(y.op, y.key, y.runtime)
        => RuntimeMatches(y.op, y.key, y.runtime)'
  BY DEF Spares, RuntimeMatches
<1>6. ~ RuntimeMatches(y.op, y.key, y.runtime) /\ y.op # "finish"
        => ~ RuntimeMatches(y.op, y.key, y.runtime)'
  BY <1>1 DEF AttemptTxn, Spares, KeysKept, RuntimeMatches
<1>7. task[execs[y.key].task].key # y.key => task'[execs'[y.key].task].key # y.key
  BY <1>1 DEF AttemptTxn, Spares, KeysKept
<1> QED
  BY <1>1, <1>3, <1>4, <1>5, <1>6, <1>7 DEF AttemptTxn

LEMMA ClaimStays ==
  ASSUME TypeOK, TasksAgreeWithAttempts, NEW y \in TxnRow, y.op = "claim", ClaimTxn(y), Spares(y)
  PROVE  ClaimTxn(y)'
<1>1. runtime'[y.runtime] = runtime[y.runtime]
  BY DEF ClaimTxn, Spares
<1>2. ASSUME NEW t \in Tasks, y.tasks = {t}
      PROVE  /\ Ready(t) => Ready(t)'
             /\ CardFor(t)' = CardFor(t)
             /\ y.key # NoKey /\ y.key \in NextKeys(t) \ DOMAIN execs
                  => y.key \in NextKeys(t)' \ DOMAIN execs'
  <2>1. task'[t] = task[t] /\ active' = active
    BY <1>2 DEF Spares, ClaimTxn
  <2>2. task[t].key # NoKey => /\ task[t].key \in DOMAIN execs /\ task[t].key \in DOMAIN execs'
                               /\ execs'[task[t].key].card = execs[task[t].key].card
    BY DEF TasksAgreeWithAttempts, TaskAgreesWithAttempt, Spares, ExecsKept
  <2>3. Ready(t) => Ready(t)'
    BY <2>1 DEF Ready
  <2>4. CardFor(t)' = CardFor(t)
    BY <2>1, <2>2 DEF CardFor, ResolveActiveCard, LoadFrozenCard
  <2>5. ASSUME y.key # NoKey, y.key \in NextKeys(t) \ DOMAIN execs
        PROVE  y.key \in NextKeys(t)' \ DOMAIN execs'
    <3>1. \A k \in DOMAIN execs' \ DOMAIN execs : k[1] # y.key[1]
      BY <2>5 DEF Spares
    <3>2. y.key \notin DOMAIN execs'
      BY <2>5, <3>1
    <3>3. CASE task[t].key = NoKey
      <4>1. PICK x \in ExecIds : y.key = <<x, 1>> /\ \A k \in DOMAIN execs : k[1] # x
        BY <2>5, <3>3 DEF NextKeys
      <4>2. \A k \in DOMAIN execs' : k[1] # x
        BY <3>1, <4>1
      <4>3. task'[t].key = NoKey
        BY <2>1, <3>3
      <4> QED
        BY <3>2, <4>1, <4>2, <4>3 DEF NextKeys
    <3>4. CASE task[t].key # NoKey
      BY <2>1, <2>5, <3>2, <3>4 DEF NextKeys
    <3> QED
      BY <3>3, <3>4
  <2> QED
    BY <2>3, <2>4, <2>5
<1>3. CASE y.at = "pick"
  BY <1>1, <1>3 DEF ClaimTxn
<1>4. CASE y.at = "commit"
  <2>1. PICK t \in Tasks :
          /\ y.tasks = {t}
          /\ Ready(t)
          /\ \/ y.card = NoCard /\ y.key = NoKey /\ CardFor(t) = {}
             \/ y.card \in CardFor(t) /\ y.key \in NextKeys(t) \ DOMAIN execs
    BY <1>4 DEF ClaimTxn
  <2>2. y.key \in NextKeys(t) => y.key # NoKey
    <3>1. \A k \in NextKeys(t) : k \in Key
      BY NextKeysType
    <3> QED
      BY <3>1, ConstantsAssumption DEF Key, NoKey
  <2>3. /\ Ready(t)'
        /\ \/ y.card = NoCard /\ y.key = NoKey /\ CardFor(t)' = {}
           \/ y.card \in CardFor(t)' /\ y.key \in NextKeys(t)' \ DOMAIN execs'
    BY <1>2, <2>1, <2>2
  <2> QED
    BY <1>1, <1>4, <2>1, <2>3 DEF ClaimTxn
<1> QED
  BY <1>3, <1>4 DEF ClaimTxn

LEMMA ReclaimStays ==
  ASSUME TypeOK, NEW y \in TxnRow, ReclaimTxn(y), Spares(y)
  PROVE  ReclaimTxn(y)'
<1>1. \A k \in y.execs : /\ k \in DOMAIN execs /\ k \in DOMAIN execs'
                         /\ execs'[k].task = execs[k].task /\ execs'[k].runtime = execs[k].runtime
                         /\ execs'[k].status = execs[k].status
                         /\ (execs'[k].leased => execs[k].leased)
                         /\ execs[k].task \in y.tasks
                         /\ execs[k].runtime \in Runtimes
  BY DEF ReclaimTxn, Reclaimable, IsActive, Spares, ExecsKept, SameExec, TypeOK, ExecRow
<1>2. \A k \in y.execs : Reclaimable(k)'
  BY <1>1 DEF ReclaimTxn, Reclaimable, IsActive, Spares
<1>3. y.tasks = {execs'[k].task : k \in y.execs}
  BY <1>1 DEF ReclaimTxn
<1>4. \A r \in Runtimes :
        (\E k \in y.execs \ y.left : execs[k].runtime = r /\ runtime[r].key = k)
          <=> (\E k \in y.execs \ y.left : execs'[k].runtime = r /\ runtime'[r].key = k)
  <2>1. ASSUME NEW r \in Runtimes, NEW k \in y.execs \ y.left,
               execs[k].runtime = r, runtime[r].key = k
        PROVE  execs'[k].runtime = r /\ runtime'[r].key = k
    <3>1. r \in y.runtimes
      BY <2>1 DEF ReclaimTxn
    <3> QED
      BY <1>1, <2>1, <3>1 DEF Spares
  <2>2. ASSUME NEW r \in Runtimes, NEW k \in y.execs \ y.left,
               execs'[k].runtime = r, runtime'[r].key = k
        PROVE  execs[k].runtime = r /\ runtime[r].key = k
    BY <1>1, <2>2 DEF Spares, KeysKept
  <2> QED
    BY <2>1, <2>2
<1> HIDE DEF Spares
<1> QED
  BY <1>2, <1>3, <1>4 DEF ReclaimTxn

LEMMA TxnCases ==
  ASSUME NEW y
  PROVE  /\ y.op \in AttemptCalls => (TxnOK(y) <=> AttemptTxn(y))
         /\ y.op = "claim" => (TxnOK(y) <=> ClaimTxn(y))
         /\ y.op = "reclaim" => (TxnOK(y) <=> ReclaimTxn(y))
         /\ y.op = "publish" => (TxnOK(y) <=> PublishTxn(y))
         /\ y.op \notin AttemptCalls \cup {"claim", "reclaim", "publish"} => (TxnOK(y) <=> y = NoTxn)
<1>1. "claim" \notin AttemptCalls /\ "reclaim" \notin AttemptCalls /\ "publish" \notin AttemptCalls
  BY DEF AttemptCalls
<1> QED
  BY <1>1 DEF TxnOK

LEMMA TxnCasesNext ==
  ASSUME NEW y
  PROVE  /\ y.op \in AttemptCalls => (TxnOK(y)' <=> AttemptTxn(y)')
         /\ y.op = "claim" => (TxnOK(y)' <=> ClaimTxn(y)')
         /\ y.op = "reclaim" => (TxnOK(y)' <=> ReclaimTxn(y)')
         /\ y.op = "publish" => (TxnOK(y)' <=> PublishTxn(y)')
         /\ y.op \notin AttemptCalls \cup {"claim", "reclaim", "publish"} => (TxnOK(y)' <=> y = NoTxn)
<1>1. "claim" \notin AttemptCalls /\ "reclaim" \notin AttemptCalls /\ "publish" \notin AttemptCalls
  BY DEF AttemptCalls
<1> QED
  BY <1>1 DEF TxnOK

LEMMA SparedStays ==
  ASSUME TypeOK, TasksAgreeWithAttempts, NEW y \in TxnRow, TxnOK(y), Spares(y)
  PROVE  TxnOK(y)'
<1>1. CASE y.op \in AttemptCalls
  <2>1. AttemptTxn(y)
    BY <1>1, TxnCases
  <2>2. AttemptTxn(y)'
    BY <2>1, AttemptStays
  <2> QED
    BY <1>1, <2>2, TxnCasesNext
<1>2. CASE y.op = "claim"
  <2>1. ClaimTxn(y)
    BY <1>2, TxnCases
  <2>2. ClaimTxn(y)'
    BY <1>2, <2>1, ClaimStays
  <2> QED
    BY <1>2, <2>2, TxnCasesNext
<1>3. CASE y.op = "reclaim"
  <2>1. ReclaimTxn(y)
    BY <1>3, TxnCases
  <2>2. ReclaimTxn(y)'
    BY <2>1, ReclaimStays
  <2> QED
    BY <1>3, <2>2, TxnCasesNext
<1>4. CASE y.op = "publish"
  <2>1. PublishTxn(y)
    BY <1>4, TxnCases
  <2>2. PublishTxn(y)'
    BY <2>1 DEF PublishTxn
  <2> QED
    BY <1>4, <2>2, TxnCasesNext
<1>5. CASE y.op \notin AttemptCalls \cup {"claim", "reclaim", "publish"}
  BY <1>5, TxnCases, TxnCasesNext
<1> QED
  BY <1>1, <1>2, <1>3, <1>4, <1>5
-----------------------------------------------------------------------------
LEMMA NoTxnType == NoTxn \in TxnRow
<1>1. << >> \in [{} -> Nat]
  OBVIOUS
<1>2. << >> \in UNION {[D -> Nat] : D \in SUBSET Tasks}
  BY <1>1
<1> QED
  BY <1>2 DEF NoTxn, TxnRow

(* A step that changes no row leaves every transaction what it had.        *)
LEMMA UnchangedSpares ==
  ASSUME UNCHANGED vars, NEW y
  PROVE  Spares(y)
BY DEF vars, Spares, ExecsKept, KeysKept, SameExec

(* A statement of slot s that writes nothing yet: y is its transaction      *)
(* afterwards, with rows no other transaction has.                         *)
Proper(y) ==
  /\ y \in TxnRow /\ TxnOK(y) /\ y.op \in Calls \cup {"none"}
  /\ y.at # "downstream" => DOMAIN y.count = {}

Apart(s, y) ==
  \A o \in Slots \ {s} :
    /\ y.execs \cap txn[o].execs = {}
    /\ y.tasks \cap txn[o].tasks = {}
    /\ y.runtimes \cap txn[o].runtimes = {}
    /\ y.op = "claim" /\ y.key # NoKey /\ txn[o].op = "claim" /\ txn[o].key # NoKey =>
         y.key[1] # txn[o].key[1]

LEMMA StatementStep ==
  ASSUME TypeOK, TasksAgreeWithAttempts, TxnInv, NEW s \in Slots, NEW y,
         Proper(y), Apart(s, y), txn' = [txn EXCEPT ![s] = y], UNCHANGED vars
  PROVE  TxnInv'
<1>1. txn \in [Slots -> TxnRow] /\ y \in TxnRow
  BY DEF TxnInv, Proper
<1>2. \A o \in Slots : txn'[o] = IF o = s THEN y ELSE txn[o]
  BY <1>1
<1>3. txn' \in [Slots -> TxnRow]
  BY <1>1
<1>4. ASSUME NEW o \in Slots, NEW x \in {txn'[o]}
      PROVE  /\ TxnOK(x)'
             /\ x.op \in Calls \cup {"none"}
             /\ x.at # "downstream" => DOMAIN x.count = {}
  <2>1. x \in TxnRow /\ TxnOK(x) /\ x.op \in Calls \cup {"none"}
        /\ (x.at # "downstream" => DOMAIN x.count = {})
    <3>1. CASE o = s
      BY <1>2, <1>4, <3>1 DEF Proper
    <3>2. CASE o # s
      <4>1. x = txn[o]
        BY <1>2, <1>4, <3>2
      <4> QED
        BY <1>1, <4>1 DEF TxnInv, TxnsOK
    <3> QED
      BY <3>1, <3>2
  <2> QED
    BY <2>1, UnchangedSpares, SparedStays
<1>5. TxnsOK'
  BY <1>4 DEF TxnsOK
<1>6. LocksExclusive' /\ DrawnApart'
  BY <1>2 DEF TxnInv, LocksExclusive, DrawnApart, Apart
<1> QED
  BY <1>3, <1>5, <1>6 DEF TxnInv

(* What a commit of transaction x may change: the rows it has, and the row *)
(* of the attempt it draws.                                                *)
Within(x) ==
  /\ ExecsKept /\ KeysKept /\ active' = active
  /\ \A k \in DOMAIN execs \ x.execs : SameExec(k)
  /\ \A t \in Tasks \ x.tasks : task'[t] = task[t]
  /\ \A r \in Runtimes \ x.runtimes : runtime'[r] = runtime[r]
  /\ \A k \in DOMAIN execs' \ DOMAIN execs : x.op = "claim" /\ k = x.key /\ k # NoKey

(* The rows of a transaction are rows of the tables.                       *)
LEMMA RowsOfTxn ==
  ASSUME TypeOK, TxnInv, NEW o \in Slots
  PROVE  /\ txn[o] \in TxnRow
         /\ txn[o].execs \subseteq DOMAIN execs
         /\ txn[o].tasks \subseteq Tasks
         /\ txn[o].runtimes \subseteq Runtimes
         /\ TxnOK(txn[o])
<1>1. txn[o] \in TxnRow /\ TxnOK(txn[o])
  BY DEF TxnInv, TxnsOK
<1>2. txn[o].execs \subseteq DOMAIN execs
  <2>1. AttemptTxn(txn[o]) => txn[o].execs \subseteq DOMAIN execs
    BY DEF AttemptTxn
  <2>2. ReclaimTxn(txn[o]) => txn[o].execs \subseteq DOMAIN execs
    BY DEF ReclaimTxn, Reclaimable, IsActive
  <2>3. ClaimTxn(txn[o]) \/ PublishTxn(txn[o]) \/ txn[o] = NoTxn => txn[o].execs = {}
    BY DEF ClaimTxn, PublishTxn, NoTxn
  <2> QED
    BY <1>1, <2>1, <2>2, <2>3, TxnCases
<1> QED
  BY <1>1, <1>2 DEF TxnRow

LEMMA CommitSpares ==
  ASSUME TypeOK, TxnInv, NEW s \in Slots, Within(txn[s]), NEW o \in Slots \ {s}
  PROVE  Spares(txn[o])
<1>1. /\ txn[o].execs \subseteq DOMAIN execs
      /\ txn[o].tasks \subseteq Tasks
      /\ txn[o].runtimes \subseteq Runtimes
  BY RowsOfTxn
<1>2. /\ txn[s].execs \cap txn[o].execs = {}
      /\ txn[s].tasks \cap txn[o].tasks = {}
      /\ txn[s].runtimes \cap txn[o].runtimes = {}
  BY DEF TxnInv, LocksExclusive
<1>3. ASSUME txn[o].op = "claim", txn[o].key # NoKey, NEW k \in DOMAIN execs' \ DOMAIN execs
      PROVE  k[1] # txn[o].key[1]
  BY <1>3 DEF Within, TxnInv, DrawnApart
<1> QED
  BY <1>1, <1>2, <1>3 DEF Within, Spares

(* The end of the transaction of slot s: a commit, or a roll-back.         *)
LEMMA ClosingStep ==
  ASSUME TypeOK, TasksAgreeWithAttempts, TxnInv, NEW s \in Slots, Closes(s), Within(txn[s])
  PROVE  TxnInv'
<1>1. txn \in [Slots -> TxnRow]
  BY DEF TxnInv
<1>2. \A o \in Slots : txn'[o] = IF o = s THEN NoTxn ELSE txn[o]
  BY <1>1 DEF Closes
<1>3. txn' \in [Slots -> TxnRow]
  BY <1>1, NoTxnType DEF Closes
<1>4. ASSUME NEW o \in Slots, NEW x \in {txn'[o]}
      PROVE  /\ TxnOK(x)'
             /\ x.op \in Calls \cup {"none"}
             /\ x.at # "downstream" => DOMAIN x.count = {}
  <2>1. CASE o = s
    <3>1. x = NoTxn
      BY <1>2, <1>4, <2>1
    <3>2. x.op = "none" /\ DOMAIN x.count = {}
      BY <3>1 DEF NoTxn
    <3>3. "none" \notin AttemptCalls
      BY DEF AttemptCalls
    <3> QED
      BY <3>1, <3>2, <3>3, TxnCasesNext
  <2>2. CASE o # s
    <3>1. x = txn[o]
      BY <1>2, <1>4, <2>2
    <3>2. /\ x \in TxnRow /\ TxnOK(x) /\ x.op \in Calls \cup {"none"}
          /\ x.at # "downstream" => DOMAIN x.count = {}
      BY <1>1, <3>1 DEF TxnInv, TxnsOK
    <3>3. Spares(x)
      BY <2>2, <3>1, CommitSpares
    <3> QED
      BY <3>2, <3>3, SparedStays
  <2> QED
    BY <2>1, <2>2
<1>5. TxnsOK'
  BY <1>4 DEF TxnsOK
<1>6. LocksExclusive' /\ DrawnApart'
  BY <1>2 DEF TxnInv, LocksExclusive, DrawnApart, NoTxn
<1> QED
  BY <1>3, <1>5, <1>6 DEF TxnInv

(* A call of one statement.                                                *)
LEMMA SingleStep ==
  ASSUME TypeOK, TasksAgreeWithAttempts, TxnInv, txn' = txn,
         \A o \in Slots : Spares(txn[o])
  PROVE  TxnInv'
<1>1. ASSUME NEW o \in Slots, NEW x \in {txn'[o]}
      PROVE  /\ TxnOK(x)'
             /\ x.op \in Calls \cup {"none"}
             /\ x.at # "downstream" => DOMAIN x.count = {}
  <2>1. /\ x \in TxnRow /\ TxnOK(x) /\ x.op \in Calls \cup {"none"}
        /\ x.at # "downstream" => DOMAIN x.count = {}
    BY <1>1 DEF TxnInv, TxnsOK
  <2>2. Spares(x)
    BY <1>1
  <2> QED
    BY <2>1, <2>2, SparedStays
<1>2. TxnsOK'
  BY <1>1 DEF TxnsOK
<1> QED
  BY <1>2 DEF TxnInv, LocksExclusive, DrawnApart
-----------------------------------------------------------------------------
(* The statements of the calls about an attempt.                           *)

LEMMA UnchangedWithin ==
  ASSUME UNCHANGED vars, NEW x
  PROVE  Within(x)
BY DEF vars, Within, ExecsKept, KeysKept, SameExec

(* The transaction of a slot at a place of the calls about an attempt.     *)
LEMMA AttemptPlace ==
  ASSUME TypeOK, TxnInv, NEW s \in Slots,
         \/ txn[s].at \in {"exec", "task", "dependents", "downstream"}
         \/ txn[s].op \in AttemptCalls
  PROVE  /\ txn[s] \in TxnRow /\ txn[s].op \in Calls \cup {"none"}
         /\ txn[s].op \in AttemptCalls /\ AttemptTxn(txn[s])
         /\ txn[s].op # "claim"
         /\ txn[s].at # "downstream" => DOMAIN txn[s].count = {}
         /\ txn[s].key \in Key /\ txn[s].runtime \in Runtimes
         /\ execs[txn[s].key].task \in Tasks
<1>1. /\ txn[s] \in TxnRow /\ TxnOK(txn[s]) /\ txn[s].op \in Calls \cup {"none"}
      /\ txn[s].at # "downstream" => DOMAIN txn[s].count = {}
  BY RowsOfTxn DEF TxnInv, TxnsOK
<1>2. txn[s].op \in AttemptCalls /\ AttemptTxn(txn[s])
  BY <1>1, TxnCases DEF ClaimTxn, ReclaimTxn, PublishTxn, NoTxn
<1>3. txn[s].op # "claim"
  BY <1>2 DEF AttemptCalls
<1>4. /\ txn[s].key \in Key /\ txn[s].runtime \in Runtimes
      /\ execs[txn[s].key].task \in Tasks
  BY <1>2 DEF AttemptTxn, TypeOK, ExecRow
<1> QED
  BY <1>1, <1>2, <1>3, <1>4

LEMMA BeginAttemptCallStep ==
  ASSUME TypeOK, TasksAgreeWithAttempts, TxnInv, NEW s \in Slots, NEW op \in AttemptCalls,
         NEW k \in DOMAIN execs, BeginAttemptCall(s, op, k)
  PROVE  TxnInv'
<1> DEFINE y == [NoTxn EXCEPT !.op = op, !.at = "exec", !.key = k, !.runtime = execs[k].runtime]
<1>1. op \in Calls /\ txn' = [txn EXCEPT ![s] = y] /\ UNCHANGED vars
  BY DEF BeginAttemptCall, Begins, Opens
<1>2. /\ y.op = op /\ y.at = "exec" /\ y.key = k /\ y.runtime = execs[k].runtime
      /\ y.execs = {} /\ y.tasks = {} /\ y.runtimes = {} /\ ~ y.hit /\ DOMAIN y.count = {}
  BY DEF NoTxn
<1>3. y \in TxnRow
  <2>1. k \in Key /\ execs[k].runtime \in Runtimes /\ op \in AllCalls
    BY DEF TypeOK, ExecRow, AllCalls
  <2> QED
    BY <2>1, NoTxnType DEF TxnRow
<1>4. AttemptTxn(y)
  BY <1>2 DEF AttemptTxn
<1>5. op # "claim"
  BY DEF AttemptCalls
<1> HIDE DEF y
<1>6. Proper(y) /\ Apart(s, y)
  BY <1>1, <1>2, <1>3, <1>4, <1>5, TxnCases DEF Proper, Apart
<1> QED
  BY <1>1, <1>6, StatementStep

LEMMA TakeExecStep ==
  ASSUME TypeOK, TasksAgreeWithAttempts, TxnInv, NEW s \in Slots, TakeExec(s)
  PROVE  TxnInv'
<1> DEFINE x == txn[s]
           y == [x EXCEPT !.execs = {x.key},
                          !.at = IF x.op \in {"start", "finish"} THEN "runtime" ELSE "task"]
<1>1. /\ x \in TxnRow /\ TxnOK(x) /\ x.op \in Calls \cup {"none"} /\ x.at = "exec"
      /\ DOMAIN x.count = {} /\ UNCHANGED vars
  BY RowsOfTxn DEF TakeExec, TxnInv, TxnsOK
<1>2. x.op \in AttemptCalls /\ AttemptTxn(x)
  BY <1>1, TxnCases DEF ClaimTxn, ReclaimTxn, PublishTxn, NoTxn
<1>3. CASE Closes(s)
  <2>1. Within(x)
    BY <1>1 DEF Within, vars, ExecsKept, KeysKept, SameExec
  <2> QED
    BY <1>3, <2>1, ClosingStep
<1>4. CASE ~ Closes(s)
  <2>1. /\ ExecMatches(x.op, x.key) /\ FreeExec(s, x.key)
        /\ txn' = [txn EXCEPT ![s] = y]
    BY <1>4 DEF TakeExec
  <2> HIDE DEF x
  <2>2. /\ y \in TxnRow
        /\ y.op = x.op /\ y.key = x.key /\ y.runtime = x.runtime /\ y.hit = x.hit
        /\ y.rows = x.rows /\ y.count = x.count /\ y.tasks = x.tasks /\ y.runtimes = x.runtimes
        /\ y.execs = {x.key} /\ y.at = IF x.op \in {"start", "finish"} THEN "runtime" ELSE "task"
    <3>1. x.key \in Key
      BY <1>2 DEF AttemptTxn, TypeOK
    <3> QED
      BY <1>1, <3>1 DEF TxnRow
  <2> HIDE DEF y
  <2>3. x.key \in DOMAIN execs /\ x.runtime = execs[x.key].runtime
        /\ x.tasks = {} /\ ~ x.hit /\ x.runtimes = {}
    BY <1>1, <1>2 DEF AttemptTxn
  <2>4. AttemptTxn(y)
    BY <2>1, <2>2, <2>3 DEF AttemptTxn
  <2>5. Proper(y)
    BY <1>1, <1>2, <2>2, <2>4, TxnCases DEF Proper
  <2>6. Apart(s, y)
    <3>1. y.op # "claim"
      BY <1>2, <2>2 DEF AttemptCalls
    <3> QED
      BY <2>1, <2>2, <2>3, <3>1 DEF Apart, FreeExec
  <2> QED
    BY <1>1, <2>1, <2>5, <2>6, StatementStep
<1> QED
  BY <1>3, <1>4

LEMMA TakeTaskStep ==
  ASSUME TypeOK, TasksAgreeWithAttempts, TxnInv, NEW s \in Slots, TakeTask(s)
  PROVE  TxnInv'
<1> DEFINE x == txn[s]
           t == execs[x.key].task
<1>1. /\ x.at = "task" /\ UNCHANGED vars
      /\ x \in TxnRow /\ x.op \in Calls \cup {"none"}
      /\ x.op \in AttemptCalls /\ AttemptTxn(x) /\ x.op # "claim" /\ DOMAIN x.count = {}
      /\ t \in Tasks
  BY AttemptPlace DEF TakeTask
<1>2. /\ x.key \in DOMAIN execs /\ x.runtime = execs[x.key].runtime /\ x.execs = {x.key}
      /\ ExecMatches(x.op, x.key) /\ x.tasks = {} /\ ~ x.hit /\ x.runtimes = {}
      /\ x.op \notin {"start", "finish"}
  BY <1>1 DEF AttemptTxn
<1>3. CASE TaskMatches(x.key, x.runtime)
  <2> DEFINE y == [x EXCEPT !.tasks = {t}, !.hit = TRUE, !.at = "runtime"]
  <2>1. FreeTask(s, t) /\ txn' = [txn EXCEPT ![s] = y]
    BY <1>3 DEF TakeTask
  <2> HIDE DEF x
  <2>2. /\ y \in TxnRow
        /\ y.op = x.op /\ y.key = x.key /\ y.runtime = x.runtime /\ y.hit
        /\ y.rows = x.rows /\ y.count = x.count /\ y.tasks = {t} /\ y.runtimes = x.runtimes
        /\ y.execs = x.execs /\ y.at = "runtime"
    BY <1>1 DEF TxnRow
  <2> HIDE DEF y
  <2>3. AttemptTxn(y)
    BY <1>2, <1>3, <2>2 DEF AttemptTxn
  <2>4. Proper(y)
    BY <1>1, <2>2, <2>3, TxnCases DEF Proper
  <2>5. Apart(s, y)
    BY <1>1, <2>1, <2>2 DEF Apart, FreeTask, TxnInv, LocksExclusive, x
  <2> QED
    BY <1>1, <2>1, <2>4, <2>5, StatementStep
<1>4. CASE ~ TaskMatches(x.key, x.runtime)
  <2> DEFINE y == [x EXCEPT !.at = "runtime"]
  <2>1. txn' = [txn EXCEPT ![s] = y]
    BY <1>4 DEF TakeTask, Goes
  <2>2. task[t].key # x.key
    <3>1. x.key \in DOMAIN execs /\ execs[x.key].status \in ActiveStatus
      BY <1>1, <1>2 DEF ExecMatches, IsActive
    <3>2. SUFFICES ASSUME task[t].key = x.key PROVE FALSE
      OBVIOUS
    <3>3. TaskAgreesWithAttempt(t) /\ x.key # NoKey
      BY <1>1, <3>1, <3>2, CurrentAttemptFacts DEF TasksAgreeWithAttempts
    <3> QED
      BY <1>2, <1>4, <3>1, <3>2, <3>3 DEF TaskAgreesWithAttempt, TaskMatches
  <2> HIDE DEF x
  <2>3. /\ y \in TxnRow
        /\ y.op = x.op /\ y.key = x.key /\ y.runtime = x.runtime /\ y.hit = x.hit
        /\ y.rows = x.rows /\ y.count = x.count /\ y.tasks = x.tasks /\ y.runtimes = x.runtimes
        /\ y.execs = x.execs /\ y.at = "runtime"
    BY <1>1 DEF TxnRow
  <2> HIDE DEF y
  <2>4. AttemptTxn(y)
    BY <1>2, <2>2, <2>3 DEF AttemptTxn
  <2>5. Proper(y)
    BY <1>1, <2>3, <2>4, TxnCases DEF Proper
  <2>6. Apart(s, y)
    BY <1>1, <2>3 DEF Apart, TxnInv, LocksExclusive, x
  <2> QED
    BY <1>1, <2>1, <2>5, <2>6, StatementStep
<1> QED
  BY <1>3, <1>4

LEMMA TakeRuntimeStep ==
  ASSUME TypeOK, TasksAgreeWithAttempts, TxnInv, NEW s \in Slots, TakeRuntime(s)
  PROVE  TxnInv'
<1> DEFINE x == txn[s]
           next == IF x.op = "complete" THEN "dependents" ELSE "commit"
           y == [x EXCEPT !.runtimes = {x.runtime}, !.at = next]
           z == [x EXCEPT !.at = next]
<1>1. /\ x.at = "runtime" /\ UNCHANGED vars
      /\ x \in TxnRow /\ x.op \in Calls \cup {"none"}
      /\ x.op \in AttemptCalls /\ AttemptTxn(x) /\ x.op # "claim" /\ DOMAIN x.count = {}
      /\ x.runtime \in Runtimes
  BY AttemptPlace DEF TakeRuntime
<1>2. /\ x.key \in DOMAIN execs /\ x.runtime = execs[x.key].runtime /\ x.execs = {x.key}
      /\ ExecMatches(x.op, x.key) /\ x.runtimes = {}
      /\ x.hit => execs[x.key].task \in x.tasks /\ TaskMatches(x.key, x.runtime)
      /\ ~x.hit /\ x.op \notin {"start", "finish"} => task[execs[x.key].task].key # x.key
      /\ x.tasks = (IF x.hit THEN {execs[x.key].task} ELSE {})
  BY <1>1 DEF AttemptTxn
<1>3. CASE RuntimeMatches(x.op, x.key, x.runtime)
  <2>1. FreeRuntime(s, x.runtime) /\ txn' = [txn EXCEPT ![s] = y]
    BY <1>3 DEF TakeRuntime
  <2> HIDE DEF x
  <2>2. /\ y \in TxnRow
        /\ y.op = x.op /\ y.key = x.key /\ y.runtime = x.runtime /\ y.hit = x.hit
        /\ y.rows = x.rows /\ y.count = x.count /\ y.tasks = x.tasks
        /\ y.runtimes = {x.runtime}
        /\ y.execs = x.execs /\ y.at = next
    BY <1>1 DEF TxnRow
  <2> HIDE DEF y
  <2>3. AttemptTxn(y)
    BY <1>2, <1>3, <2>2 DEF AttemptTxn
  <2>4. Proper(y)
    BY <1>1, <2>2, <2>3, TxnCases DEF Proper
  <2>5. Apart(s, y)
    BY <1>1, <2>1, <2>2 DEF Apart, FreeRuntime, TxnInv, LocksExclusive, x
  <2> QED
    BY <1>1, <2>1, <2>4, <2>5, StatementStep
<1>4. CASE ~ RuntimeMatches(x.op, x.key, x.runtime) /\ x.op = "finish"
  <2>1. Closes(s)
    BY <1>4 DEF TakeRuntime
  <2> QED
    BY <1>1, <2>1, ClosingStep, UnchangedWithin
<1>5. CASE ~ RuntimeMatches(x.op, x.key, x.runtime) /\ x.op # "finish"
  <2>1. txn' = [txn EXCEPT ![s] = z]
    BY <1>5 DEF TakeRuntime, Goes
  <2> HIDE DEF x
  <2>2. /\ z \in TxnRow
        /\ z.op = x.op /\ z.key = x.key /\ z.runtime = x.runtime /\ z.hit = x.hit
        /\ z.rows = x.rows /\ z.count = x.count /\ z.tasks = x.tasks
        /\ z.runtimes = x.runtimes
        /\ z.execs = x.execs /\ z.at = next
    BY <1>1 DEF TxnRow
  <2> HIDE DEF z
  <2>3. AttemptTxn(z)
    BY <1>2, <1>5, <2>2 DEF AttemptTxn
  <2>4. Proper(z)
    BY <1>1, <2>2, <2>3, TxnCases DEF Proper
  <2>5. Apart(s, z)
    BY <1>1, <2>1, <2>2 DEF Apart, TxnInv, LocksExclusive, x
  <2> QED
    BY <1>1, <2>1, <2>4, <2>5, StatementStep
<1> QED
  BY <1>3, <1>4, <1>5

LEMMA FindDependentsStep ==
  ASSUME TypeOK, TasksAgreeWithAttempts, TxnInv, NEW s \in Slots, FindDependents(s)
  PROVE  TxnInv'
<1> DEFINE x == txn[s]
           y == [x EXCEPT !.at = "downstream", !.rows = Dependents(execs[x.key].task)]
<1>1. /\ x.at = "dependents" /\ UNCHANGED vars /\ txn' = [txn EXCEPT ![s] = y]
      /\ x \in TxnRow /\ x.op \in Calls \cup {"none"}
      /\ x.op \in AttemptCalls /\ AttemptTxn(x) /\ x.op # "claim" /\ DOMAIN x.count = {}
  BY AttemptPlace DEF FindDependents
<1> HIDE DEF x
<1>2. /\ y \in TxnRow
      /\ y.op = x.op /\ y.key = x.key /\ y.runtime = x.runtime /\ y.hit = x.hit
      /\ y.rows = Dependents(execs[x.key].task) /\ y.count = x.count /\ y.tasks = x.tasks
      /\ y.runtimes = x.runtimes /\ y.execs = x.execs /\ y.at = "downstream"
  BY <1>1 DEF TxnRow, Dependents
<1> HIDE DEF y
<1>3. AttemptTxn(y)
  BY <1>1, <1>2 DEF AttemptTxn
<1>4. Proper(y)
  BY <1>1, <1>2, <1>3, TxnCases DEF Proper
<1>5. Apart(s, y)
  BY <1>1, <1>2 DEF Apart, TxnInv, LocksExclusive, x
<1> QED
  BY <1>1, <1>4, <1>5, StatementStep

LEMMA TakeDependentStep ==
  ASSUME TypeOK, TasksAgreeWithAttempts, TxnInv, NEW s \in Slots, NEW d \in Tasks,
         TakeDependent(s, d)
  PROVE  TxnInv'
<1> DEFINE x == txn[s]
           y == [x EXCEPT !.tasks = x.tasks \cup {d}]
<1>1. /\ x.at = "downstream" /\ d \in x.rows /\ FreeTask(s, d)
      /\ UNCHANGED vars /\ txn' = [txn EXCEPT ![s] = y]
      /\ x \in TxnRow /\ x.op \in Calls \cup {"none"}
      /\ x.op \in AttemptCalls /\ AttemptTxn(x) /\ x.op # "claim"
  BY AttemptPlace DEF TakeDependent, DependentsToLock
<1> HIDE DEF x
<1>2. /\ y \in TxnRow
      /\ y.op = x.op /\ y.key = x.key /\ y.runtime = x.runtime /\ y.hit = x.hit
      /\ y.rows = x.rows /\ y.count = x.count /\ y.tasks = x.tasks \cup {d}
      /\ y.runtimes = x.runtimes /\ y.execs = x.execs /\ y.at = "downstream"
  BY <1>1 DEF TxnRow
<1> HIDE DEF y
<1>3. AttemptTxn(y)
  BY <1>1, <1>2 DEF AttemptTxn
<1>4. Proper(y)
  BY <1>1, <1>2, <1>3, TxnCases DEF Proper
<1>5. Apart(s, y)
  BY <1>1, <1>2 DEF Apart, FreeTask, TxnInv, LocksExclusive, x
<1> QED
  BY <1>1, <1>4, <1>5, StatementStep

LEMMA CountBlockersStep ==
  ASSUME TypeOK, TasksAgreeWithAttempts, TxnInv, NEW s \in Slots, NEW d \in Tasks,
         CountBlockers(s, d)
  PROVE  TxnInv'
<1> DEFINE x == txn[s]
           c == [e \in DOMAIN x.count \cup {d} |->
                   IF e = d THEN Remaining(Seen(x), d) ELSE x.count[e]]
           y == [x EXCEPT !.count = c]
<1>1. /\ x.at = "downstream" /\ d \in x.rows /\ d \in x.tasks
      /\ UNCHANGED vars /\ txn' = [txn EXCEPT ![s] = y]
      /\ x \in TxnRow /\ x.op \in Calls \cup {"none"}
      /\ x.op \in AttemptCalls /\ AttemptTxn(x) /\ x.op # "claim"
  BY AttemptPlace DEF CountBlockers, DependentsToLock
<1>2. Remaining(Seen(x), d) \in Nat
  BY RemainingType
<1> HIDE DEF x
<1>3. PICK D \in SUBSET Tasks : x.count \in [D -> Nat]
  BY <1>1 DEF TxnRow
<1>4. c \in [D \cup {d} -> Nat] /\ DOMAIN c = DOMAIN x.count \cup {d}
  BY <1>2, <1>3
<1> HIDE DEF c
<1>5. /\ y \in TxnRow
      /\ y.op = x.op /\ y.key = x.key /\ y.runtime = x.runtime /\ y.hit = x.hit
      /\ y.rows = x.rows /\ y.count = c /\ y.tasks = x.tasks
      /\ y.runtimes = x.runtimes /\ y.execs = x.execs /\ y.at = "downstream"
  <2>1. c \in UNION {[E -> Nat] : E \in SUBSET Tasks}
    <3>1. D \cup {d} \in SUBSET Tasks
      OBVIOUS
    <3> QED
      BY <1>4, <3>1
  <2> QED
    BY <1>1, <2>1 DEF TxnRow
<1> HIDE DEF y
<1>6. AttemptTxn(y)
  BY <1>1, <1>4, <1>5 DEF AttemptTxn
<1>7. Proper(y)
  BY <1>1, <1>5, <1>6, TxnCases DEF Proper
<1>8. Apart(s, y)
  BY <1>1, <1>5 DEF Apart, TxnInv, LocksExclusive, x
<1> QED
  BY <1>1, <1>7, <1>8, StatementStep
-----------------------------------------------------------------------------
(* The statements of a claim, a reclaim and a publication.                 *)

LEMMA BeginClaimStep ==
  ASSUME TypeOK, TasksAgreeWithAttempts, TxnInv, NEW s \in Slots, NEW r \in Runtimes,
         BeginClaim(s, r)
  PROVE  TxnInv'
<1> DEFINE y == [NoTxn EXCEPT !.op = "claim", !.at = "pick", !.runtime = r, !.runtimes = {r}]
<1>1. /\ "claim" \in Calls /\ FreeRuntime(s, r) /\ runtime[r].status = "idle"
      /\ txn' = [txn EXCEPT ![s] = y] /\ UNCHANGED vars
  BY DEF BeginClaim, Begins
<1>2. /\ y \in TxnRow
      /\ y.op = "claim" /\ y.at = "pick" /\ y.key = NoKey /\ y.card = NoCard /\ y.runtime = r
      /\ y.execs = {} /\ y.tasks = {} /\ y.runtimes = {r} /\ DOMAIN y.count = {}
  <2>1. /\ y.op = "claim" /\ y.at = "pick" /\ y.key = NoKey /\ y.card = NoCard /\ y.runtime = r
        /\ y.execs = {} /\ y.tasks = {} /\ y.runtimes = {r} /\ DOMAIN y.count = {}
    BY DEF NoTxn
  <2>2. y \in TxnRow
    BY NoTxnType DEF TxnRow, AllCalls
  <2> QED
    BY <2>1, <2>2
<1> HIDE DEF y
<1>3. ClaimTxn(y)
  BY <1>1, <1>2 DEF ClaimTxn
<1>4. Proper(y)
  BY <1>1, <1>2, <1>3, TxnCases DEF Proper
<1>5. Apart(s, y)
  BY <1>1, <1>2 DEF Apart, FreeRuntime
<1> QED
  BY <1>1, <1>4, <1>5, StatementStep

LEMMA ClaimPlace ==
  ASSUME TypeOK, TxnInv, NEW s \in Slots, txn[s].at = "pick" \/ txn[s].op = "claim"
  PROVE  /\ txn[s] \in TxnRow /\ txn[s].op \in Calls \cup {"none"}
         /\ txn[s].op = "claim" /\ ClaimTxn(txn[s])
         /\ DOMAIN txn[s].count = {}
<1>1. /\ txn[s] \in TxnRow /\ TxnOK(txn[s]) /\ txn[s].op \in Calls \cup {"none"}
      /\ txn[s].at # "downstream" => DOMAIN txn[s].count = {}
  BY RowsOfTxn DEF TxnInv, TxnsOK
<1>2. AttemptTxn(txn[s]) \/ ReclaimTxn(txn[s]) \/ PublishTxn(txn[s]) \/ txn[s] = NoTxn
        => txn[s].at # "pick"
  BY DEF AttemptTxn, ReclaimTxn, PublishTxn, NoTxn
<1>3. txn[s].op = "claim"
  BY <1>1, <1>2, TxnCases
<1>4. ClaimTxn(txn[s])
  BY <1>1, <1>3, TxnCases
<1>5. txn[s].at # "downstream"
  BY <1>4 DEF ClaimTxn
<1> QED
  BY <1>1, <1>3, <1>4, <1>5

LEMMA PickTaskStep ==
  ASSUME TypeOK, TasksAgreeWithAttempts, TxnInv, NEW s \in Slots, NEW t \in Tasks,
         PickTask(s, t)
  PROVE  TxnInv'
<1> DEFINE x == txn[s]
<1>1. /\ x.at = "pick" /\ UNCHANGED vars /\ Ready(t) /\ FreeTask(s, t)
      /\ x \in TxnRow /\ x.op \in Calls \cup {"none"}
      /\ x.op = "claim" /\ ClaimTxn(x) /\ DOMAIN x.count = {}
  BY ClaimPlace DEF PickTask, ReadyAndFree
<1>2. /\ x.runtime \in Runtimes /\ x.runtimes = {x.runtime} /\ runtime[x.runtime].status = "idle"
      /\ x.execs = {} /\ x.key = NoKey /\ x.card = NoCard
  BY <1>1 DEF ClaimTxn
<1>3. ASSUME NEW k \in NextKeys(t), NEW c \in CardFor(t), k \notin DOMAIN execs, k[1] \notin Drawn,
             txn' = [txn EXCEPT ![s] = [x EXCEPT !.at = "commit", !.tasks = {t},
                                                 !.key = k, !.card = c]]
      PROVE  TxnInv'
  <2> DEFINE y == [x EXCEPT !.at = "commit", !.tasks = {t}, !.key = k, !.card = c]
  <2>1. k \in Key /\ c \in Cards
    BY NextKeysType, CardForType
  <2>2. \A o \in Slots \ {s} : txn[o].op = "claim" => k[1] # txn[o].key[1]
    BY <1>3 DEF Drawn
  <2>3. \A o \in Slots \ {s} : t \notin txn[o].tasks /\ x.runtimes \cap txn[o].runtimes = {}
    BY <1>1 DEF FreeTask, TxnInv, LocksExclusive
  <2> HIDE DEF x
  <2>4. /\ y \in TxnRow
        /\ y.op = x.op /\ y.runtime = x.runtime /\ y.runtimes = x.runtimes /\ y.execs = x.execs
        /\ y.count = x.count /\ y.at = "commit" /\ y.tasks = {t} /\ y.key = k /\ y.card = c
    BY <1>1, <2>1 DEF TxnRow
  <2> HIDE DEF y
  <2>5. ClaimTxn(y)
    BY <1>1, <1>2, <1>3, <2>4 DEF ClaimTxn
  <2>6. Proper(y)
    BY <1>1, <2>4, <2>5, TxnCases DEF Proper
  <2>7. Apart(s, y)
    BY <1>2, <2>2, <2>3, <2>4 DEF Apart
  <2> QED
    BY <1>1, <1>3, <2>6, <2>7, StatementStep DEF y
<1>4. ASSUME CardFor(t) = {},
             txn' = [txn EXCEPT ![s] = [x EXCEPT !.at = "commit", !.tasks = {t}]]
      PROVE  TxnInv'
  <2> DEFINE y == [x EXCEPT !.at = "commit", !.tasks = {t}]
  <2>1. \A o \in Slots \ {s} : t \notin txn[o].tasks /\ x.runtimes \cap txn[o].runtimes = {}
    BY <1>1 DEF FreeTask, TxnInv, LocksExclusive
  <2> HIDE DEF x
  <2>2. /\ y \in TxnRow
        /\ y.op = x.op /\ y.runtime = x.runtime /\ y.runtimes = x.runtimes /\ y.execs = x.execs
        /\ y.count = x.count /\ y.at = "commit" /\ y.tasks = {t} /\ y.key = x.key /\ y.card = x.card
    BY <1>1 DEF TxnRow
  <2> HIDE DEF y
  <2>3. ClaimTxn(y)
    BY <1>1, <1>2, <1>4, <2>2 DEF ClaimTxn
  <2>4. Proper(y)
    BY <1>1, <2>2, <2>3, TxnCases DEF Proper
  <2>5. Apart(s, y)
    BY <1>2, <2>1, <2>2 DEF Apart
  <2> QED
    BY <1>1, <1>4, <2>4, <2>5, StatementStep DEF y
<1> QED
  BY <1>3, <1>4 DEF PickTask

LEMMA BeginReclaimStep ==
  ASSUME TypeOK, TasksAgreeWithAttempts, TxnInv, NEW s \in Slots, BeginReclaim(s)
  PROVE  TxnInv'
<1> DEFINE K == Expired(s)
           T == {execs[k].task : k \in K}
           y == [NoTxn EXCEPT !.op = "reclaim", !.at = "runtime", !.execs = K,
                              !.tasks = T, !.left = K]
<1>1. /\ "reclaim" \in Calls /\ K # {}
      /\ txn' = [txn EXCEPT ![s] = y] /\ UNCHANGED vars
  BY DEF BeginReclaim, Begins
<1>2. /\ \A k \in K : /\ k \in DOMAIN execs /\ Reclaimable(k)
                      /\ FreeExec(s, k) /\ FreeTask(s, execs[k].task)
      /\ K \subseteq DOMAIN execs
  BY DEF Expired
<1>3. K \in SUBSET Key /\ T \in SUBSET Tasks
  BY <1>2 DEF TypeOK, ExecRow
<1> HIDE DEF K
<1>4. \A t \in T : FreeTask(s, t)
  BY <1>2
<1>5. T = {execs[k].task : k \in K}
  OBVIOUS
<1> HIDE DEF T
<1>6. /\ y \in TxnRow
      /\ y.op = "reclaim" /\ y.at = "runtime" /\ y.execs = K /\ y.tasks = T /\ y.left = K
      /\ y.runtimes = {} /\ DOMAIN y.count = {}
  <2>1. /\ y.op = "reclaim" /\ y.at = "runtime" /\ y.execs = K /\ y.tasks = T /\ y.left = K
        /\ y.runtimes = {} /\ DOMAIN y.count = {}
    BY DEF NoTxn
  <2>2. y \in TxnRow
    BY <1>3, NoTxnType DEF TxnRow, AllCalls
  <2> QED
    BY <2>1, <2>2
<1> HIDE DEF y
<1>7. ReclaimTxn(y)
  BY <1>1, <1>2, <1>5, <1>6 DEF ReclaimTxn
<1>8. Proper(y)
  BY <1>1, <1>6, <1>7, TxnCases DEF Proper
<1>9. Apart(s, y)
  BY <1>2, <1>4, <1>6 DEF Apart, FreeExec, FreeTask
<1> QED
  BY <1>1, <1>8, <1>9, StatementStep

LEMMA ReclaimPlace ==
  ASSUME TypeOK, TxnInv, NEW s \in Slots, txn[s].op = "reclaim"
  PROVE  /\ txn[s] \in TxnRow /\ txn[s].op \in Calls \cup {"none"}
         /\ ReclaimTxn(txn[s]) /\ DOMAIN txn[s].count = {}
<1>1. /\ txn[s] \in TxnRow /\ TxnOK(txn[s]) /\ txn[s].op \in Calls \cup {"none"}
      /\ txn[s].at # "downstream" => DOMAIN txn[s].count = {}
  BY RowsOfTxn DEF TxnInv, TxnsOK
<1>2. ReclaimTxn(txn[s])
  BY <1>1, TxnCases
<1> QED
  BY <1>1, <1>2 DEF ReclaimTxn

LEMMA TakeReclaimedStep ==
  ASSUME TypeOK, TasksAgreeWithAttempts, TxnInv, NEW s \in Slots, NEW k \in DOMAIN execs,
         TakeReclaimed(s, k)
  PROVE  TxnInv'
<1> DEFINE x == txn[s]
           r == execs[k].runtime
           R(y) == {q \in Runtimes : \E j \in y.execs \ y.left :
                                       execs[j].runtime = q /\ runtime[q].key = j}
<1>1. /\ x.op = "reclaim" /\ k \in x.left /\ UNCHANGED vars
      /\ x \in TxnRow /\ x.op \in Calls \cup {"none"}
      /\ ReclaimTxn(x) /\ DOMAIN x.count = {} /\ x.op # "claim" /\ r \in Runtimes
  BY ReclaimPlace DEF TakeReclaimed, TypeOK, ExecRow
<1>2. /\ x.at = "runtime" /\ x.execs # {} /\ \A j \in x.execs : Reclaimable(j)
      /\ x.left \subseteq x.execs
      /\ x.tasks = {execs[j].task : j \in x.execs}
      /\ x.runtimes = R(x)
  BY <1>1 DEF ReclaimTxn
<1>3. ASSUME NEW U \in SUBSET {r},
             U = {} <=> runtime[r].key # k,
             \A o \in Slots \ {s} : U \cap txn[o].runtimes = {},
             txn' = [txn EXCEPT ![s] = [x EXCEPT !.left = x.left \ {k},
                                                 !.runtimes = x.runtimes \cup U]]
      PROVE  TxnInv'
  <2> DEFINE y == [x EXCEPT !.left = x.left \ {k}, !.runtimes = x.runtimes \cup U]
  <2>1. \A o \in Slots \ {s} : /\ x.execs \cap txn[o].execs = {}
                               /\ x.tasks \cap txn[o].tasks = {}
                               /\ x.runtimes \cap txn[o].runtimes = {}
    BY DEF TxnInv, LocksExclusive
  <2> HIDE DEF x
  <2>2. /\ y \in TxnRow
        /\ y.op = x.op /\ y.at = x.at /\ y.execs = x.execs /\ y.tasks = x.tasks
        /\ y.count = x.count /\ y.left = x.left \ {k} /\ y.runtimes = x.runtimes \cup U
    BY <1>1 DEF TxnRow
  <2> HIDE DEF y
  <2>3. y.runtimes = R(y)
    <3>1. k \in x.execs
      BY <1>1, <1>2
    <3>2. \A q \in Runtimes : (\E j \in y.execs \ y.left : execs[j].runtime = q /\ runtime[q].key = j)
             <=> \/ \E j \in x.execs \ x.left : execs[j].runtime = q /\ runtime[q].key = j
                 \/ r = q /\ runtime[q].key = k
      BY <2>2, <3>1
    <3>3. U = {q \in Runtimes : r = q /\ runtime[q].key = k}
      BY <1>1, <1>3
    <3> HIDE DEF r
    <3>4. R(y) = R(x) \cup U
      BY <3>2, <3>3
    <3> QED
      BY <1>2, <2>2, <3>4
  <2>4. ReclaimTxn(y)
    BY <1>2, <2>2, <2>3 DEF ReclaimTxn
  <2>5. Proper(y)
    BY <1>1, <1>2, <2>2, <2>4, TxnCases DEF Proper
  <2>6. Apart(s, y)
    BY <1>1, <1>3, <2>1, <2>2 DEF Apart
  <2> QED
    BY <1>1, <1>3, <2>5, <2>6, StatementStep DEF y
<1>4. CASE runtime[r].key = k
  <2>1. /\ FreeRuntime(s, r)
        /\ txn' = [txn EXCEPT ![s] = [x EXCEPT !.left = x.left \ {k},
                                               !.runtimes = x.runtimes \cup {r}]]
    BY <1>4 DEF TakeReclaimed
  <2>2. {r} # {} /\ \A o \in Slots \ {s} : {r} \cap txn[o].runtimes = {}
    BY <2>1 DEF FreeRuntime
  <2> HIDE DEF x, r
  <2> QED
    BY <1>3, <1>4, <2>1, <2>2
<1>5. CASE runtime[r].key # k
  <2>1. txn' = [txn EXCEPT ![s] = [x EXCEPT !.left = x.left \ {k}]]
    BY <1>5 DEF TakeReclaimed
  <2>2. [x EXCEPT !.left = x.left \ {k}]
          = [x EXCEPT !.left = x.left \ {k}, !.runtimes = x.runtimes \cup {}]
    <3> HIDE DEF x
    <3> QED
      BY <1>1 DEF TxnRow
  <2> DEFINE N == {}
  <2>3. txn' = [txn EXCEPT ![s] = [x EXCEPT !.left = x.left \ {k},
                                            !.runtimes = x.runtimes \cup N]]
    BY <2>1, <2>2
  <2>4. N \in SUBSET {r} /\ N = {} /\ \A o \in Slots \ {s} : N \cap txn[o].runtimes = {}
    OBVIOUS
  <2> HIDE DEF x, r, N
  <2> QED
    BY <1>3, <1>5, <2>3, <2>4
<1> QED
  BY <1>4, <1>5

LEMMA BeginPublishStep ==
  ASSUME TypeOK, TasksAgreeWithAttempts, TxnInv, NEW s \in Slots, NEW p \in Plans,
         BeginPublish(s, p)
  PROVE  TxnInv'
<1> DEFINE y == [NoTxn EXCEPT !.op = "publish", !.at = "row", !.plan = p, !.n = 1]
<1>1. "publish" \in Calls /\ txn' = [txn EXCEPT ![s] = y] /\ UNCHANGED vars
  BY DEF BeginPublish, Begins
<1>2. /\ y \in TxnRow
      /\ y.op = "publish" /\ y.at = "row" /\ y.plan = p /\ y.n = 1
      /\ y.execs = {} /\ y.tasks = {} /\ y.runtimes = {} /\ DOMAIN y.count = {}
  <2>1. /\ y.op = "publish" /\ y.at = "row" /\ y.plan = p /\ y.n = 1
        /\ y.execs = {} /\ y.tasks = {} /\ y.runtimes = {} /\ DOMAIN y.count = {}
    BY DEF NoTxn
  <2>2. y \in TxnRow
    BY NoTxnType DEF TxnRow, AllCalls
  <2> QED
    BY <2>1, <2>2
<1> HIDE DEF y
<1>3. Len(p) \in Nat
  BY PlansAssumption
<1>4. 1 .. y.n - 1 = {}
  BY <1>2
<1>5. PublishTxn(y)
  BY <1>2, <1>3, <1>4 DEF PublishTxn
<1>6. Proper(y)
  BY <1>1, <1>2, <1>5, TxnCases DEF Proper
<1>7. Apart(s, y)
  BY <1>2 DEF Apart
<1> QED
  BY <1>1, <1>6, <1>7, StatementStep

LEMMA PublishPlace ==
  ASSUME TypeOK, TxnInv, NEW s \in Slots, txn[s].at = "row"
  PROVE  /\ txn[s] \in TxnRow /\ txn[s].op \in Calls \cup {"none"}
         /\ txn[s].op = "publish" /\ PublishTxn(txn[s]) /\ DOMAIN txn[s].count = {}
<1>1. /\ txn[s] \in TxnRow /\ TxnOK(txn[s]) /\ txn[s].op \in Calls \cup {"none"}
      /\ txn[s].at # "downstream" => DOMAIN txn[s].count = {}
  BY RowsOfTxn DEF TxnInv, TxnsOK
<1>2. AttemptTxn(txn[s]) \/ ReclaimTxn(txn[s]) \/ ClaimTxn(txn[s]) \/ txn[s] = NoTxn
        => txn[s].at # "row"
  BY DEF AttemptTxn, ReclaimTxn, ClaimTxn, NoTxn
<1>3. txn[s].op = "publish"
  BY <1>1, <1>2, TxnCases
<1> QED
  BY <1>1, <1>3, TxnCases

LEMMA UpsertRowStep ==
  ASSUME TypeOK, TasksAgreeWithAttempts, TxnInv, NEW s \in Slots, UpsertRow(s)
  PROVE  TxnInv'
<1> DEFINE x == txn[s]
           t == x.plan[x.n].id
           y == [x EXCEPT !.n = x.n + 1, !.tasks = x.tasks \cup {t}]
<1>1. /\ x.at = "row" /\ UNCHANGED vars /\ x.n <= Len(x.plan) /\ FreeTask(s, t)
      /\ txn' = [txn EXCEPT ![s] = y]
      /\ x \in TxnRow /\ x.op \in Calls \cup {"none"}
      /\ x.op = "publish" /\ PublishTxn(x) /\ DOMAIN x.count = {}
  BY PublishPlace DEF UpsertRow
<1>2. /\ x.plan \in Plans /\ x.n \in 1 .. Len(x.plan) /\ Len(x.plan) \in Nat
      /\ x.execs = {} /\ x.runtimes = {}
      /\ x.tasks = {x.plan[i].id : i \in 1 .. x.n - 1}
  BY <1>1, PlansAssumption DEF PublishTxn
<1>3. t \in Tasks
  <2>1. t \in PlanTasks(x.plan)
    BY <1>2, PlansAssumption DEF PlanTasks
  <2> QED
    BY <1>2, <2>1, PlanTasksType
<1>4. \A o \in Slots \ {s} : x.tasks \cap txn[o].tasks = {}
  BY DEF TxnInv, LocksExclusive
<1>5. {x.plan[i].id : i \in 1 .. (x.n + 1) - 1} = x.tasks \cup {t}
  <2>1. 1 .. (x.n + 1) - 1 = (1 .. x.n - 1) \cup {x.n}
    BY <1>2
  <2> QED
    BY <1>2, <2>1
<1> HIDE DEF x, t
<1>6. /\ y \in TxnRow
      /\ y.op = x.op /\ y.at = x.at /\ y.plan = x.plan /\ y.n = x.n + 1
      /\ y.execs = x.execs /\ y.tasks = x.tasks \cup {t} /\ y.runtimes = x.runtimes
      /\ y.count = x.count
  <2>1. x.n + 1 \in Nat /\ x.tasks \cup {t} \in SUBSET Tasks /\ x \in TxnRow
    BY <1>1, <1>2, <1>3 DEF TxnRow
  <2> QED
    BY <2>1 DEF TxnRow
<1> HIDE DEF y
<1>7. PublishTxn(y)
  <2>1. y.n - 1 = (x.n + 1) - 1 /\ y.n \in 1 .. Len(y.plan) + 1
    BY <1>2, <1>6
  <2>2. y.tasks = {y.plan[i].id : i \in 1 .. y.n - 1}
    BY <1>5, <1>6, <2>1
  <2> QED
    BY <1>1, <1>2, <1>6, <2>1, <2>2 DEF PublishTxn
<1>8. Proper(y)
  BY <1>1, <1>6, <1>7, TxnCases DEF Proper
<1>9. Apart(s, y)
  BY <1>1, <1>2, <1>4, <1>6 DEF Apart, FreeTask
<1> QED
  BY <1>1, <1>8, <1>9, StatementStep
-----------------------------------------------------------------------------
(* The commits.  A claim, a reclaim, a release and a publication do in one *)
(* step what the operation of DagScheduler does.                           *)

LEMMA CommitClaimIsClaim ==
  ASSUME TypeOK, TxnInv, NEW s \in Slots, CommitClaim(s)
  PROVE  \E r \in Runtimes, t \in Tasks :
           /\ txn[s].runtimes = {r} /\ txn[s].tasks = {t}
           /\ \/ Claim(r, t) /\ (\A k \in DOMAIN execs' \ DOMAIN execs : k = txn[s].key)
              \/ ClaimWithoutCard(r, t)
<1> DEFINE x == txn[s]
           r == x.runtime
<1>1. x.op = "claim" /\ ClaimTxn(x) /\ x.at = "commit"
  BY ClaimPlace DEF CommitClaim
<1>2. r \in Runtimes /\ x.runtimes = {r} /\ runtime[r].status = "idle"
  BY <1>1 DEF ClaimTxn
<1>3. PICK t \in Tasks :
        /\ x.tasks = {t}
        /\ Ready(t)
        /\ \/ x.card = NoCard /\ x.key = NoKey /\ CardFor(t) = {}
           \/ x.card \in CardFor(t) /\ x.key \in NextKeys(t) \ DOMAIN execs
  BY <1>1 DEF ClaimTxn
<1>4. (CHOOSE u \in x.tasks : TRUE) = t
  BY <1>3
<1>5. CASE x.card = NoCard
  <2>1. CardFor(t) = {}
    BY <1>3, <1>5, CardForType, ConstantsAssumption
  <2>2. ClaimWithoutCard(r, t)
    BY <1>2, <1>3, <1>4, <1>5, <2>1 DEF CommitClaim, ClaimWithoutCard
  <2> QED
    BY <1>2, <1>3, <2>2
<1>6. CASE x.card # NoCard
  <2>1. /\ execs' = [j \in DOMAIN execs \cup {x.key} |->
                       IF j = x.key
                       THEN [status |-> "claimed", task |-> t, runtime |-> r,
                             card |-> x.card, leased |-> TRUE]
                       ELSE execs[j]]
        /\ task' = [task EXCEPT ![t] = [@ EXCEPT !.status = "in_progress",
                                                 !.owner = r, !.key = x.key]]
        /\ runtime' = [runtime EXCEPT ![r] = [status |-> "loading", key |-> x.key]]
        /\ announced' = announced \ {t}
        /\ UNCHANGED <<deps, active, submitted>>
    BY <1>4, <1>6 DEF CommitClaim
  <2>2. x.key \in NextKeys(t) /\ x.card \in CardFor(t) /\ x.key \notin DOMAIN execs
    BY <1>3, <1>6
  <2> HIDE DEF x
  <2>3. Claim(r, t)
    BY <1>2, <1>3, <2>1, <2>2 DEF Claim
  <2>4. \A k \in DOMAIN execs' \ DOMAIN execs : k = x.key
    BY <2>1
  <2> QED
    BY <1>2, <1>3, <2>3, <2>4 DEF x
<1> QED
  BY <1>5, <1>6

LEMMA CommitReclaimIsReclaim ==
  ASSUME TypeOK, TxnInv, NEW s \in Slots, CommitReclaim(s)
  PROVE  /\ txn[s].execs \in SUBSET DOMAIN execs
         /\ ReclaimLeasedTasks(txn[s].execs)
<1> DEFINE S == txn[s].execs
<1>1. ReclaimTxn(txn[s]) /\ txn[s].left = {}
  BY ReclaimPlace DEF CommitReclaim
<1>2. /\ S # {} /\ \A k \in S : Reclaimable(k)
      /\ txn[s].tasks = {execs[k].task : k \in S}
      /\ txn[s].runtimes = {r \in Runtimes : \E k \in S : execs[k].runtime = r /\ runtime[r].key = k}
  BY <1>1 DEF ReclaimTxn
<1>3. \A k \in S : k \in DOMAIN execs /\ execs[k].task \in Tasks
  BY <1>2 DEF Reclaimable, IsActive, TypeOK, ExecRow
<1>4. \A t \in Tasks : t \in txn[s].tasks <=> \E k \in S : execs[k].task = t
  BY <1>2
<1>5. \A r \in Runtimes :
        r \in txn[s].runtimes <=> \E k \in S : execs[k].runtime = r /\ runtime[r].key = k
  BY <1>2
<1>6. {execs[k].task : k \in {j \in S : RetryScheduled(j)}}
        = {t \in Tasks : \E k \in S : execs[k].task = t /\ RetryScheduled(k)}
  BY <1>3
<1>7. /\ execs' = [k \in DOMAIN execs |->
                     IF k \in S THEN [execs[k] EXCEPT !.status = "expired", !.leased = FALSE]
                                ELSE execs[k]]
      /\ announced' = announced \cup {execs[k].task : k \in {j \in S : RetryScheduled(j)}}
      /\ UNCHANGED <<deps, active, submitted>>
  BY DEF CommitReclaim
<1>8. task' = [t \in Tasks |->
                 IF \E k \in S : execs[k].task = t
                 THEN [task[t] EXCEPT !.status = StatusAfterLoss(task[t].key),
                                      !.owner = NoRuntime]
                 ELSE task[t]]
  BY <1>4 DEF CommitReclaim
<1>9. runtime' = [r \in Runtimes |->
                    IF \E k \in S : execs[k].runtime = r /\ runtime[r].key = k
                    THEN [status |-> "idle", key |-> NoKey]
                    ELSE runtime[r]]
  BY <1>5 DEF CommitReclaim
<1> HIDE DEF S
<1>10. ReclaimLeasedTasks(S)
  BY <1>2, <1>6, <1>7, <1>8, <1>9 DEF ReclaimLeasedTasks
<1> QED
  BY <1>3, <1>10 DEF S

LEMMA CommitFinishIsFinish ==
  ASSUME TypeOK, TxnInv, NEW s \in Slots, CommitFinish(s)
  PROVE  /\ txn[s].key \in DOMAIN execs
         /\ FinishCardUnload(txn[s].key)
         /\ txn[s].runtimes = {execs[txn[s].key].runtime}
<1> DEFINE x == txn[s]
<1>1. x.op = "finish" /\ x.at = "commit" /\ AttemptTxn(x)
  BY AttemptPlace DEF CommitFinish, AttemptCalls
<1>2. /\ x.key \in DOMAIN execs /\ x.runtime = execs[x.key].runtime
      /\ ExecMatches(x.op, x.key) /\ RuntimeMatches(x.op, x.key, x.runtime)
      /\ x.runtimes = {x.runtime}
  BY <1>1 DEF AttemptTxn
<1>3. IsTerminal(x.key) /\ runtime[x.runtime] = [status |-> "unloading", key |-> x.key]
  BY <1>1, <1>2 DEF ExecMatches, RuntimeMatches
<1> QED
  BY <1>2, <1>3 DEF CommitFinish, FinishCardUnload
-----------------------------------------------------------------------------
(* The other commits about an attempt may come after the task was published *)
(* again: then the task no longer names the attempt and keeps its row.      *)

(* mark_execution_started and renew_lease.                                 *)
LEMMA TouchAgrees ==
  ASSUME TypeOK, SchedulerInv, NEW k \in DOMAIN execs, execs[k].status \in ActiveStatus,
         task' = task,
         DOMAIN execs' = DOMAIN execs,
         \A j \in DOMAIN execs : j # k => execs'[j] = execs[j],
         \/ execs'[k] = [[execs[k] EXCEPT !.status = "running"] EXCEPT !.leased = TRUE]
         \/ execs'[k] = [execs[k] EXCEPT !.leased = TRUE],
         \A r \in Runtimes : \/ runtime'[r] = runtime[r]
                             \/ runtime'[r] = [runtime[r] EXCEPT !.status = "running"]
  PROVE  SchedulerInv' /\ ExecsKept /\ \A j \in DOMAIN execs' : execs'[j] \in ExecRow
<1>1. execs[k] \in ExecRow /\ \A j \in DOMAIN execs : execs[j] \in ExecRow
  BY DEF TypeOK
<1>2. /\ execs'[k].status \in ActiveStatus
      /\ execs'[k].task = execs[k].task
      /\ execs'[k].runtime = execs[k].runtime
      /\ execs'[k].card = execs[k].card
      /\ execs'[k] \in ExecRow
  BY <1>1 DEF ExecRow, ActiveStatus
<1>3. ExecsFrame /\ ExecsGrowth /\ ExecsKept
  BY <1>2 DEF ExecsFrame, ExecsGrowth, ExecsKept, ActiveStatus, TerminalStatus
<1>4. AttemptHistory'
  BY <1>3, HistoryStep DEF SchedulerInv
<1>5. ASSUME NEW t \in Tasks PROVE TaskAgreesWithAttempt(t)'
  <2>1. TaskAgreesWithAttempt(t)
    BY DEF SchedulerInv, TasksAgreeWithAttempts
  <2>2. task[t].key # NoKey =>
          /\ task[t].key \in DOMAIN execs
          /\ <<task[t].key[1], task[t].key[2] + 1>> \notin DOMAIN execs
          /\ \/ execs'[task[t].key].status = execs[task[t].key].status
             \/ /\ execs[task[t].key].status \in ActiveStatus
                /\ execs'[task[t].key].status \in ActiveStatus
    BY <1>2, <2>1 DEF TaskAgreesWithAttempt
  <2> QED
    BY <1>3, <2>1, <2>2, TaskAgreesFrame DEF ExecsKept
<1>6. ASSUME NEW r \in Runtimes PROVE RuntimeAgreesWithAttempt(r)'
  <2>1. RuntimeAgreesWithAttempt(r)
    BY DEF SchedulerInv, RuntimesAgreeWithAttempts
  <2>2. /\ runtime'[r].key = runtime[r].key
        /\ \/ runtime'[r].status = runtime[r].status
           \/ runtime'[r].status = "running"
    <3>1. runtime[r] \in RuntimeRow
      BY DEF TypeOK
    <3> QED
      BY <3>1 DEF RuntimeRow
  <2>3. runtime'[r].status = "loading" => IsActive(runtime[r].key)'
    BY <1>2, <2>1, <2>2 DEF RuntimeAgreesWithAttempt, IsActive
  <2> QED
    BY <1>3, <2>1, <2>2, <2>3, RuntimeAgreesFrame
<1> QED
  BY <1>1, <1>2, <1>3, <1>4, <1>5, <1>6
  DEF SchedulerInv, TasksAgreeWithAttempts, RuntimesAgreeWithAttempts

(* complete_execution, fail_execution and cancel_execution; hit tells      *)
(* whether the task still names the attempt.                               *)
LEMMA EndAgrees ==
  ASSUME TypeOK, SchedulerInv, NEW k \in DOMAIN execs, execs[k].status \in ActiveStatus,
         NEW hit \in BOOLEAN, hit <=> task[execs[k].task].key = k,
         NEW es, NEW ts,
         \/ es = "completed" /\ ts = "completed"
         \/ es = "cancelled" /\ ts = "cancelled"
         \/ es = "failed" /\ ts = StatusAfterLoss(k),
         execs' = EndExec(k, es),
         \A u \in Tasks :
           LET row == IF hit THEN EndTask(k, ts)[u] ELSE task[u]
           IN  /\ task'[u].status = row.status
               /\ task'[u].owner = row.owner
               /\ task'[u].key = row.key,
         runtime' = SetUnloading(k)
  PROVE  SchedulerInv' /\ ExecsKept
<1>1. /\ DOMAIN execs' = DOMAIN execs
      /\ \A j \in DOMAIN execs : j # k => execs'[j] = execs[j]
      /\ execs'[k].status = es
      /\ execs'[k].task = execs[k].task
      /\ execs'[k].runtime = execs[k].runtime
      /\ execs[k].task \in Tasks
  BY EndRowsStep DEF TypeOK, ExecRow
<1>2. execs'[k].card = execs[k].card /\ es \in TerminalStatus
  BY DEF EndExec, TypeOK, ExecRow, TerminalStatus
<1>3. ExecsFrame /\ ExecsGrowth /\ ExecsKept
  BY <1>1, <1>2 DEF ExecsFrame, ExecsGrowth, ExecsKept, ActiveStatus, TerminalStatus
<1>4. AttemptHistory'
  BY <1>3, HistoryStep DEF SchedulerInv
<1>5. ASSUME NEW t \in Tasks PROVE TaskAgreesWithAttempt(t)'
  <2>1. TaskAgreesWithAttempt(t)
    BY DEF SchedulerInv, TasksAgreeWithAttempts
  <2>2. task[t].key # NoKey =>
          /\ task[t].key \in DOMAIN execs
          /\ execs[task[t].key].task = t
          /\ <<task[t].key[1], task[t].key[2] + 1>> \notin DOMAIN execs
    BY <2>1 DEF TaskAgreesWithAttempt
  <2>3. CASE hit /\ t = execs[k].task
    <3>1. /\ task'[execs[k].task].status = ts
          /\ task'[execs[k].task].owner = NoRuntime
          /\ task'[execs[k].task].key = k
      BY <1>1, <2>3, EndRowsStep
    <3>2. k[2] \in Nat /\ k[2] <= MaxAttempts
      BY ConstantsAssumption DEF SchedulerInv, AttemptHistory
    <3> QED
      BY <1>1, <2>3, <3>1, <3>2, TaskAgreesAfterEnd DEF SchedulerInv
  <2>4. CASE ~ (hit /\ t = execs[k].task)
    <3>1. /\ task'[t].status = task[t].status
          /\ task'[t].owner = task[t].owner
          /\ task'[t].key = task[t].key
      BY <2>4, EndRowsStep
    <3>2. task[t].key # NoKey => task[t].key # k
      BY <2>2, <2>4
    <3> QED
      BY <1>1, <2>1, <2>2, <3>1, <3>2, TaskAgreesFrame
  <2> QED
    BY <2>3, <2>4
<1>6. ASSUME NEW r \in Runtimes PROVE RuntimeAgreesWithAttempt(r)'
  <2>1. RuntimeAgreesWithAttempt(r)
    BY DEF SchedulerInv, RuntimesAgreeWithAttempts
  <2>2. NoKey \notin DOMAIN execs
    BY ConstantsAssumption DEF TypeOK, Key, NoKey
  <2>3. CASE runtime[r].key = k
    <3>1. execs[k].runtime = r
      BY <2>1, <2>2, <2>3 DEF RuntimeAgreesWithAttempt
    <3>2. runtime'[r] = [runtime[r] EXCEPT !.status = "unloading"]
      BY <2>3, <3>1 DEF SetUnloading
    <3>3. runtime'[r].status = "unloading" /\ runtime'[r].key = k
      BY <2>3, <3>2 DEF TypeOK, RuntimeRow
    <3> QED
      BY <1>1, <1>2, <3>1, <3>3 DEF RuntimeAgreesWithAttempt, IsTerminal
  <2>4. CASE runtime[r].key # k
    <3>1. runtime'[r] = runtime[r]
      BY <2>4 DEF SetUnloading
    <3>2. runtime[r].status = "loading" => IsActive(runtime[r].key)'
      BY <1>1, <2>1, <2>4, <3>1 DEF RuntimeAgreesWithAttempt, IsActive
    <3> QED
      BY <1>3, <2>1, <3>1, <3>2, RuntimeAgreesFrame
  <2> QED
    BY <2>3, <2>4
<1> QED
  BY <1>3, <1>4, <1>5, <1>6
  DEF SchedulerInv, TasksAgreeWithAttempts, RuntimesAgreeWithAttempts

(* The three ends of an attempt, whether or not the task names it.         *)
EndsAs(s, es, ts) ==
  LET x == txn[s]
      k == x.key
  IN  /\ \/ es = "completed" /\ ts = "completed"
         \/ es = "cancelled" /\ ts = "cancelled"
         \/ es = "failed" /\ ts = StatusAfterLoss(k)
      /\ execs' = EndExec(k, es)
      /\ task' \in [Tasks -> TaskRow]
      /\ \A u \in Tasks :
           LET row == IF x.hit THEN EndTask(k, ts)[u] ELSE task[u]
           IN  /\ task'[u].status = row.status
               /\ task'[u].owner = row.owner
               /\ task'[u].key = row.key
      /\ \A u \in Tasks \ x.tasks : task'[u] = task[u]
      /\ runtime' = SetUnloading(k)
      /\ announced' \subseteq Tasks
      /\ UNCHANGED <<deps, active, submitted>>

LEMMA EndFacts ==
  ASSUME TypeOK, TxnInv, NEW s \in Slots,
         txn[s].op \in {"complete", "fail", "cancel"},
         txn[s].at \in {"dependents", "downstream", "commit"}
  PROVE  /\ txn[s].key \in DOMAIN execs /\ execs[txn[s].key].status \in ActiveStatus
         /\ txn[s].execs = {txn[s].key}
         /\ txn[s].hit <=> task[execs[txn[s].key].task].key = txn[s].key
         /\ txn[s].hit \in BOOLEAN
         /\ txn[s].hit => execs[txn[s].key].task \in txn[s].tasks
         /\ txn[s].hit => IsCurrentAttempt(txn[s].key)
         /\ UnloadingRuntime(txn[s]) = SetUnloading(txn[s].key)
         /\ \A r \in Runtimes \ txn[s].runtimes : SetUnloading(txn[s].key)[r] = runtime[r]
<1> DEFINE x == txn[s]
<1>1. AttemptTxn(x) /\ x \in TxnRow /\ x.runtime \in Runtimes
  BY AttemptPlace DEF AttemptCalls
<1>2. /\ x.key \in DOMAIN execs /\ x.runtime = execs[x.key].runtime /\ x.execs = {x.key}
      /\ ExecMatches(x.op, x.key)
      /\ x.hit => execs[x.key].task \in x.tasks /\ TaskMatches(x.key, x.runtime)
      /\ ~ x.hit => task[execs[x.key].task].key # x.key
      /\ IF RuntimeMatches(x.op, x.key, x.runtime)
         THEN x.runtimes = {x.runtime}
         ELSE x.runtimes = {}
  BY <1>1 DEF AttemptTxn
<1>3. IsActive(x.key)
  BY <1>2 DEF ExecMatches
<1>4. RuntimeMatches(x.op, x.key, x.runtime) <=> runtime[x.runtime].key = x.key
  BY DEF RuntimeMatches
<1>5. UnloadingRuntime(x) = SetUnloading(x.key)
  <2>1. CASE runtime[x.runtime].key = x.key
    BY <1>1, <1>2, <1>4, <2>1 DEF UnloadingRuntime, SetUnloading, TypeOK
  <2>2. CASE runtime[x.runtime].key # x.key
    BY <1>1, <1>2, <1>4, <2>2 DEF UnloadingRuntime, SetUnloading, TypeOK
  <2> QED
    BY <2>1, <2>2
<1>6. \A r \in Runtimes \ x.runtimes : SetUnloading(x.key)[r] = runtime[r]
  BY <1>2, <1>4 DEF SetUnloading
<1>7. x.hit \in BOOLEAN
  BY <1>1 DEF TxnRow
<1> QED
  BY <1>2, <1>3, <1>5, <1>6, <1>7 DEF IsActive, TaskMatches, IsCurrentAttempt

LEMMA CountedRows ==
  ASSUME TypeOK, TxnInv, NEW s \in Slots, txn[s].at = "downstream"
  PROVE  /\ DOMAIN txn[s].count \subseteq txn[s].rows \cap txn[s].tasks
         /\ txn[s].rows \subseteq Tasks
         /\ \A d \in DOMAIN txn[s].count : txn[s].count[d] \in Nat
         /\ txn[s].op = "complete"
<1>1. AttemptTxn(txn[s]) /\ txn[s] \in TxnRow
  BY AttemptPlace
<1>2. PICK D \in SUBSET Tasks : txn[s].count \in [D -> Nat]
  BY <1>1 DEF TxnRow
<1> QED
  BY <1>1, <1>2 DEF AttemptTxn, TxnRow

LEMMA EndCommits ==
  ASSUME TypeOK, TxnInv, NEW s \in Slots, CommitComplete(s) \/ CommitFail(s) \/ CommitCancel(s)
  PROVE  /\ txn[s].op \in {"complete", "fail", "cancel"}
         /\ txn[s].at \in {"dependents", "downstream", "commit"}
         /\ \E es, ts : EndsAs(s, es, ts)
<1> DEFINE x == txn[s]
           k == x.key
<1>1. x.op \in {"complete", "fail", "cancel"} /\ x.at \in {"dependents", "downstream", "commit"}
  BY CountedRows DEF CommitComplete, CommitFail, CommitCancel
<1>2. /\ k \in DOMAIN execs /\ execs[k].task \in Tasks /\ x.hit \in BOOLEAN
      /\ x.hit => execs[k].task \in x.tasks
      /\ UnloadingRuntime(x) = SetUnloading(k)
  BY <1>1, EndFacts DEF TypeOK, ExecRow
<1>3. ASSUME NEW ts \in TaskStatus
      PROVE  /\ EndTask(k, ts) \in [Tasks -> TaskRow]
             /\ \A u \in Tasks : u # execs[k].task => EndTask(k, ts)[u] = task[u]
  BY <1>2, EndRowsType, EndRowsStep DEF TerminalStatus
<1>4. CASE CommitComplete(s)
  <2> DEFINE tb == Seen(x)
             c  == x.count
  <2>1. tb = IF x.hit THEN EndTask(k, "completed") ELSE task
    BY DEF Seen
  <2>2. tb \in [Tasks -> TaskRow] /\ \A u \in Tasks \ x.tasks : tb[u] = task[u]
    BY <1>2, <1>3, <2>1 DEF TypeOK, TaskStatus
  <2>3. /\ DOMAIN c \subseteq x.rows \cap x.tasks
        /\ x.rows \subseteq Tasks
        /\ \A d \in DOMAIN c : c[d] \in Nat
    BY <1>4, CountedRows DEF CommitComplete
  <2>4. task' = [t \in Tasks |-> IF t \in DOMAIN c THEN [tb[t] EXCEPT !.blocked = c[t]] ELSE tb[t]]
    BY <1>4 DEF CommitComplete
  <2> HIDE DEF tb, c
  <2>5. /\ task' \in [Tasks -> TaskRow]
        /\ \A u \in Tasks : /\ task'[u].status = tb[u].status
                            /\ task'[u].owner = tb[u].owner
                            /\ task'[u].key = tb[u].key
        /\ \A u \in Tasks \ x.tasks : task'[u] = task[u]
    BY <2>2, <2>3, <2>4 DEF TaskRow
  <2>6. announced' \subseteq Tasks
    <3>1. announced' = announced \cup {d \in DOMAIN c : c[d] = 0}
      BY <1>4 DEF CommitComplete, c
    <3> QED
      BY <2>3, <3>1 DEF TypeOK
  <2>7. execs' = EndExec(k, "completed") /\ runtime' = SetUnloading(k)
        /\ UNCHANGED <<deps, active, submitted>>
    BY <1>2, <1>4 DEF CommitComplete
  <2>8. EndsAs(s, "completed", "completed")
    BY <2>1, <2>5, <2>6, <2>7 DEF EndsAs
  <2> QED
    BY <1>1, <2>8
<1>5. CASE CommitFail(s)
  <2>1. StatusAfterLoss(k) \in TaskStatus
    BY DEF StatusAfterLoss, TaskStatus
  <2>2. /\ task' = (IF x.hit THEN EndTask(k, StatusAfterLoss(k)) ELSE task)
        /\ execs' = EndExec(k, "failed")
        /\ runtime' = SetUnloading(k)
        /\ UNCHANGED <<deps, active, submitted>>
        /\ announced' \subseteq Tasks
    BY <1>2, <1>5 DEF CommitFail, EndedTask, TypeOK
  <2>3. EndsAs(s, "failed", StatusAfterLoss(k))
    BY <1>2, <1>3, <2>1, <2>2 DEF EndsAs, TypeOK
  <2> QED
    BY <1>1, <2>3
<1>6. CASE CommitCancel(s)
  <2>1. /\ task' = (IF x.hit THEN EndTask(k, "cancelled") ELSE task)
        /\ execs' = EndExec(k, "cancelled")
        /\ runtime' = SetUnloading(k)
        /\ UNCHANGED <<deps, active, submitted>>
        /\ announced' \subseteq Tasks
    BY <1>2, <1>6 DEF CommitCancel, EndedTask, TypeOK
  <2>2. EndsAs(s, "cancelled", "cancelled")
    BY <1>2, <1>3, <2>1 DEF EndsAs, TypeOK, TaskStatus
  <2> QED
    BY <1>1, <2>2
<1> QED
  BY <1>4, <1>5, <1>6

(* An end keeps the invariants, and reopens no completed task.             *)
LEMMA EndCommitStep ==
  ASSUME TypeOK, SchedulerInv, TxnInv, NEW s \in Slots,
         CommitComplete(s) \/ CommitFail(s) \/ CommitCancel(s)
  PROVE  /\ TypeOK' /\ SchedulerInv' /\ TxnInv'
         /\ \A t \in Tasks : task[t].status = "completed" => task'[t].status = "completed"
<1> DEFINE x == txn[s]
           k == x.key
<1>1. x.op \in {"complete", "fail", "cancel"} /\ x.at \in {"dependents", "downstream", "commit"}
  BY EndCommits
<1>2. PICK es, ts : EndsAs(s, es, ts)
  BY EndCommits
<1>3. /\ k \in DOMAIN execs /\ execs[k].status \in ActiveStatus
      /\ x.execs = {k} /\ x.hit \in BOOLEAN
      /\ x.hit <=> task[execs[k].task].key = k
      /\ \A r \in Runtimes \ x.runtimes : SetUnloading(k)[r] = runtime[r]
  BY <1>1, EndFacts
<1>4. SchedulerInv' /\ ExecsKept
  <2> DEFINE hit == x.hit
             row(u) == IF hit THEN EndTask(k, ts)[u] ELSE task[u]
  <2>1. /\ \/ es = "completed" /\ ts = "completed"
           \/ es = "cancelled" /\ ts = "cancelled"
           \/ es = "failed" /\ ts = StatusAfterLoss(k)
        /\ execs' = EndExec(k, es)
        /\ runtime' = SetUnloading(k)
    BY <1>2 DEF EndsAs
  <2>2. \A u \in Tasks : /\ task'[u].status = row(u).status
                         /\ task'[u].owner = row(u).owner
                         /\ task'[u].key = row(u).key
    BY <1>2 DEF EndsAs
  <2>3. k \in DOMAIN execs /\ execs[k].status \in ActiveStatus
        /\ hit \in BOOLEAN /\ (hit <=> task[execs[k].task].key = k)
    BY <1>3
  <2> HIDE DEF hit, k
  <2> QED
    BY <2>1, <2>2, <2>3, EndAgrees
<1>5. es \in TerminalStatus
  BY <1>2 DEF EndsAs, TerminalStatus
<1>6. TypeOK'
  <2>1. /\ DOMAIN EndExec(k, es) = DOMAIN execs
        /\ EndExec(k, es) \in [DOMAIN execs -> ExecRow]
        /\ SetUnloading(k) \in [Runtimes -> RuntimeRow]
    BY <1>3, <1>5, EndRowsType DEF TaskStatus
  <2> QED
    BY <1>2, <2>1 DEF EndsAs, TypeOK
<1>7. \A j \in DOMAIN execs \ {k} : SameExec(j)
  BY <1>2, <1>3, EndRowsStep DEF EndsAs, SameExec
<1>8. KeysKept
  <2>1. \A t \in Tasks : task'[t].key = task[t].key
    BY <1>2, <1>3, EndRowsStep DEF EndsAs
  <2>2. \A r \in Runtimes : runtime'[r].key = runtime[r].key
    <3>1. \A r \in Runtimes : SetUnloading(k)[r] \in {runtime[r], [runtime[r] EXCEPT !.status = "unloading"]}
      BY DEF SetUnloading
    <3>2. \A r \in Runtimes : runtime[r] \in RuntimeRow
      BY DEF TypeOK
    <3>3. runtime' = SetUnloading(k)
      BY <1>2 DEF EndsAs
    <3> QED
      BY <3>1, <3>2, <3>3 DEF RuntimeRow
  <2> QED
    BY <2>1, <2>2 DEF KeysKept
<1>9. Within(x)
  <2>1. DOMAIN execs' = DOMAIN execs
    BY <1>2, <1>3, EndRowsStep DEF EndsAs
  <2> QED
    BY <1>2, <1>3, <1>4, <1>7, <1>8, <2>1 DEF Within, EndsAs
<1>10. Closes(s)
  BY DEF CommitComplete, CommitFail, CommitCancel
<1>11. TxnInv'
  BY <1>9, <1>10, ClosingStep DEF SchedulerInv
<1>12. ASSUME NEW t \in Tasks, task[t].status = "completed" PROVE task'[t].status = "completed"
  <2>1. x.hit => task[execs[k].task].status = "in_progress"
    BY <1>3, CurrentAttemptFacts DEF SchedulerInv
  <2>2. ~ (x.hit /\ t = execs[k].task)
    BY <1>12, <2>1
  <2> QED
    BY <1>2, <1>3, <1>12, <2>2, EndRowsStep DEF EndsAs
<1> QED
  BY <1>4, <1>6, <1>11, <1>12

LEMMA TouchCommitStep ==
  ASSUME TypeOK, SchedulerInv, TxnInv, NEW s \in Slots, CommitStart(s) \/ CommitRenew(s)
  PROVE  TypeOK' /\ SchedulerInv' /\ TxnInv' /\ task' = task
<1> DEFINE x == txn[s]
           k == x.key
<1>1. /\ x.op \in {"start", "renew"} /\ x.at = "commit"
      /\ AttemptTxn(x) /\ x.runtime \in Runtimes
  BY AttemptPlace DEF CommitStart, CommitRenew, AttemptCalls
<1>2. /\ k \in DOMAIN execs /\ x.execs = {k} /\ ExecMatches(x.op, k)
      /\ IF RuntimeMatches(x.op, k, x.runtime) THEN x.runtimes = {x.runtime} ELSE x.runtimes = {}
  BY <1>1 DEF AttemptTxn
<1>3. x.runtimes = {x.runtime}
  BY <1>1, <1>2 DEF RuntimeMatches
<1>4. execs[k].status \in ActiveStatus
  BY <1>1, <1>2 DEF ExecMatches, IsActive, ActiveStatus
<1>5. /\ task' = task
      /\ DOMAIN execs' = DOMAIN execs
      /\ \A j \in DOMAIN execs : j # k => execs'[j] = execs[j]
      /\ \/ execs'[k] = [[execs[k] EXCEPT !.status = "running"] EXCEPT !.leased = TRUE]
         \/ execs'[k] = [execs[k] EXCEPT !.leased = TRUE]
      /\ execs' = [j \in DOMAIN execs |-> execs'[j]]
      /\ UNCHANGED <<deps, active, announced, submitted>>
      /\ Closes(s)
  BY <1>2 DEF CommitStart, CommitRenew
<1>6. /\ \A r \in Runtimes : \/ runtime'[r] = runtime[r]
                             \/ /\ runtime'[r] = [runtime[r] EXCEPT !.status = "running"]
                                /\ r \in x.runtimes
      /\ runtime' \in [Runtimes -> RuntimeRow]
  <2>1. CASE CommitStart(s)
    <3>1. runtime' = [runtime EXCEPT ![x.runtime].status = "running"]
      BY <2>1 DEF CommitStart
    <3> HIDE DEF x
    <3> QED
      BY <1>1, <1>3, <3>1 DEF TypeOK, RuntimeRow, RuntimeStatus
  <2>2. CASE CommitRenew(s)
    BY <2>2 DEF CommitRenew, TypeOK
  <2> QED
    BY <2>1, <2>2
<1> HIDE DEF k
<1>7. SchedulerInv' /\ ExecsKept /\ \A j \in DOMAIN execs' : execs'[j] \in ExecRow
  BY <1>2, <1>4, <1>5, <1>6, TouchAgrees
<1>8. TypeOK'
  <2>1. execs' \in [DOMAIN execs' -> ExecRow]
    BY <1>5, <1>7
  <2> QED
    BY <1>5, <1>6, <2>1 DEF TypeOK
<1>9. Within(x)
  <2>1. \A j \in DOMAIN execs \ {k} : SameExec(j)
    BY <1>5 DEF SameExec
  <2>2. \A r \in Runtimes : runtime'[r].key = runtime[r].key
    <3>1. \A r \in Runtimes : runtime[r] \in RuntimeRow
      BY DEF TypeOK
    <3> QED
      BY <1>6, <3>1 DEF RuntimeRow
  <2>3. KeysKept
    BY <1>5, <2>2 DEF KeysKept
  <2> QED
    BY <1>2, <1>5, <1>6, <1>7, <2>1, <2>3 DEF Within
<1>10. TxnInv'
  BY <1>5, <1>9, ClosingStep DEF SchedulerInv
<1> QED
  BY <1>5, <1>7, <1>8, <1>10
-----------------------------------------------------------------------------
(* What the commits that are steps of DagScheduler leave alone.            *)

NothingCompletes ==
  \A t \in Tasks : task'[t].status = "completed" => task[t].status = "completed"

LEMMA NothingCompletesBy ==
  ASSUME TypeOK,
         \/ \E p \in Plans : Publish(p)
         \/ \E r \in Runtimes, t \in Tasks : Claim(r, t) \/ ClaimWithoutCard(r, t)
         \/ \E S \in SUBSET DOMAIN execs : ReclaimLeasedTasks(S)
         \/ task' = task
  PROVE  NothingCompletes
<1> SUFFICES ASSUME NEW u \in Tasks, task[u].status # "completed"
             PROVE  task'[u].status # "completed"
  BY DEF NothingCompletes
<1>1. task[u] \in TaskRow /\ task \in [Tasks -> TaskRow]
  BY DEF TypeOK
<1>2. ASSUME NEW p \in Plans, Publish(p) PROVE task'[u].status # "completed"
  BY <1>2 DEF Publish
<1>3. ASSUME NEW r \in Runtimes, NEW t \in Tasks, Claim(r, t) \/ ClaimWithoutCard(r, t)
      PROVE  task'[u].status # "completed"
  <2>1. CASE Claim(r, t)
    <3>1. PICK k : task' = [task EXCEPT ![t] = [@ EXCEPT !.status = "in_progress",
                                                         !.owner = r, !.key = k]]
      BY <2>1 DEF Claim
    <3> QED
      BY <1>1, <3>1 DEF TaskRow
  <2>2. CASE ClaimWithoutCard(r, t)
    <3>1. task' = [task EXCEPT ![t] = [@ EXCEPT !.status = "failed", !.owner = NoRuntime]]
      BY <2>2 DEF ClaimWithoutCard
    <3> QED
      BY <1>1, <3>1 DEF TaskRow
  <2> QED
    BY <1>3, <2>1, <2>2
<1>4. ASSUME NEW S \in SUBSET DOMAIN execs, ReclaimLeasedTasks(S)
      PROVE  task'[u].status # "completed"
  <2>1. \/ task'[u] = task[u]
        \/ \E k : task'[u] = [[task[u] EXCEPT !.status = StatusAfterLoss(k)]
                                         EXCEPT !.owner = NoRuntime]
    BY <1>4 DEF ReclaimLeasedTasks
  <2>2. ASSUME NEW k, task'[u] = [[task[u] EXCEPT !.status = StatusAfterLoss(k)]
                                               EXCEPT !.owner = NoRuntime]
        PROVE  task'[u].status # "completed"
    <3>1. task'[u].status = StatusAfterLoss(k)
      BY <1>1, <2>2 DEF TaskRow
    <3>2. StatusAfterLoss(k) # "completed"
      BY DEF StatusAfterLoss
    <3> QED
      BY <3>1, <3>2
  <2> QED
    BY <2>1, <2>2
<1> QED
  BY <1>2, <1>3, <1>4

LEMMA NextKeepsExecs == ASSUME TypeOK, [Next]_vars PROVE ExecsKept
BY ExecsStep DEF ExecsFrame, ExecsKept

LEMMA NoKeyNotGiven == TypeOK => NoKey \notin DOMAIN execs
BY ConstantsAssumption DEF TypeOK, Key, NoKey

LEMMA ClaimWithin ==
  ASSUME TypeOK, TxnInv, NEW s \in Slots, CommitClaim(s)
  PROVE  Within(txn[s]) /\ Next /\ NothingCompletes
<1>1. PICK r \in Runtimes, t \in Tasks :
        /\ txn[s].runtimes = {r} /\ txn[s].tasks = {t}
        /\ \/ Claim(r, t) /\ (\A k \in DOMAIN execs' \ DOMAIN execs : k = txn[s].key)
           \/ ClaimWithoutCard(r, t)
  BY CommitClaimIsClaim
<1>2. Next
  BY <1>1 DEF Next
<1>3. ExecsKept
  BY <1>2, NextKeepsExecs
<1>4. txn[s].op = "claim"
  BY DEF CommitClaim
<1>5. NothingCompletes
  BY <1>1, NothingCompletesBy
<1>6. CASE Claim(r, t) /\ \A k \in DOMAIN execs' \ DOMAIN execs : k = txn[s].key
  <2>1. PICK k \in NextKeys(t), c \in CardFor(t) :
          /\ k \notin DOMAIN execs
          /\ execs' = [j \in DOMAIN execs \cup {k} |->
                         IF j = k
                         THEN [status |-> "claimed", task |-> t, runtime |-> r,
                               card |-> c, leased |-> TRUE]
                         ELSE execs[j]]
          /\ task' = [task EXCEPT ![t] = [@ EXCEPT !.status = "in_progress",
                                                   !.owner = r, !.key = k]]
          /\ runtime' = [runtime EXCEPT ![r] = [status |-> "loading", key |-> k]]
          /\ active' = active
    BY <1>6 DEF Claim
  <2>2. \A j \in DOMAIN execs : SameExec(j)
    BY <2>1 DEF SameExec
  <2>3. /\ \A u \in Tasks \ {t} : task'[u] = task[u]
        /\ task'[t].key = k
    BY <2>1 DEF TypeOK, TaskRow
  <2>4. /\ \A q \in Runtimes \ {r} : runtime'[q] = runtime[q]
        /\ runtime'[r].key = k
    BY <2>1 DEF TypeOK
  <2>5. KeysKept
    BY <2>1, <2>3, <2>4 DEF KeysKept
  <2>6. k # NoKey /\ k \in DOMAIN execs'
    BY <2>1, NextKeysType, ConstantsAssumption DEF Key, NoKey
  <2> QED
    BY <1>1, <1>2, <1>3, <1>4, <1>5, <1>6, <2>1, <2>2, <2>3, <2>4, <2>5, <2>6 DEF Within
<1>7. CASE ClaimWithoutCard(r, t)
  <2>1. /\ task' = [task EXCEPT ![t] = [@ EXCEPT !.status = "failed", !.owner = NoRuntime]]
        /\ UNCHANGED <<execs, runtime, active>>
    BY <1>7 DEF ClaimWithoutCard
  <2>2. /\ \A u \in Tasks \ {t} : task'[u] = task[u]
        /\ task'[t].key = task[t].key
    BY <2>1 DEF TypeOK, TaskRow
  <2>3. KeysKept
    BY <2>1, <2>2 DEF KeysKept
  <2> QED
    BY <1>1, <1>2, <1>3, <1>5, <2>1, <2>2, <2>3 DEF Within, SameExec
<1> QED
  BY <1>1, <1>6, <1>7

LEMMA ReclaimWithin ==
  ASSUME TypeOK, TxnInv, NEW s \in Slots, CommitReclaim(s)
  PROVE  Within(txn[s]) /\ Next /\ NothingCompletes
<1> DEFINE S == txn[s].execs
<1>1. S \in SUBSET DOMAIN execs /\ ReclaimLeasedTasks(S)
  BY CommitReclaimIsReclaim
<1>2. Next
  BY <1>1 DEF Next
<1>3. ExecsKept
  BY <1>2, NextKeepsExecs
<1>4. \A k \in DOMAIN execs \ S : SameExec(k)
  BY <1>1 DEF ReclaimLeasedTasks, SameExec
<1>5. /\ \A t \in Tasks \ txn[s].tasks : task'[t] = task[t]
      /\ \A r \in Runtimes \ txn[s].runtimes : runtime'[r] = runtime[r]
      /\ active' = active
      /\ DOMAIN execs' = DOMAIN execs
  BY DEF CommitReclaim
<1>6. KeysKept
  <2>1. \A t \in Tasks : task'[t].key = task[t].key
    <3> SUFFICES ASSUME NEW t \in Tasks PROVE task'[t].key = task[t].key
      OBVIOUS
    <3>1. task[t] \in TaskRow
      BY DEF TypeOK
    <3>2. \/ task'[t] = task[t]
          \/ \E x : task'[t] = [[task[t] EXCEPT !.status = x] EXCEPT !.owner = NoRuntime]
      BY <1>1 DEF ReclaimLeasedTasks
    <3> QED
      BY <3>1, <3>2 DEF TaskRow
  <2>2. \A r \in Runtimes : runtime'[r].key \in {runtime[r].key, NoKey}
    BY <1>1 DEF ReclaimLeasedTasks
  <2> QED
    BY <2>1, <2>2, NoKeyNotGiven DEF KeysKept
<1>7. NothingCompletes
  BY <1>1, NothingCompletesBy
<1> QED
  BY <1>2, <1>3, <1>4, <1>5, <1>6, <1>7 DEF Within

LEMMA FinishWithin ==
  ASSUME TypeOK, TxnInv, NEW s \in Slots, CommitFinish(s)
  PROVE  Within(txn[s]) /\ Next /\ NothingCompletes
<1> DEFINE k == txn[s].key
           r == execs[k].runtime
<1>1. k \in DOMAIN execs /\ FinishCardUnload(k) /\ txn[s].runtimes = {r} /\ r \in Runtimes
  BY CommitFinishIsFinish DEF TypeOK, ExecRow
<1>2. Next
  BY <1>1 DEF Next
<1>3. /\ UNCHANGED <<task, execs, active>>
      /\ \A q \in Runtimes \ {r} : runtime'[q] = runtime[q]
      /\ runtime'[r].key = NoKey
  BY <1>1 DEF FinishCardUnload, TypeOK
<1>4. KeysKept
  BY <1>3, NoKeyNotGiven DEF KeysKept
<1>5. NothingCompletes
  BY <1>3, NothingCompletesBy
<1> QED
  BY <1>1, <1>2, <1>3, <1>4, <1>5 DEF Within, ExecsKept, SameExec

LEMMA PublishWithin ==
  ASSUME TypeOK, TxnInv, NEW s \in Slots, CommitPublish(s)
  PROVE  Within(txn[s]) /\ Next /\ NothingCompletes /\ Publish(txn[s].plan) /\ txn[s].plan \in Plans
<1> DEFINE p == txn[s].plan
<1>1. Publish(p) /\ PublishTxn(txn[s]) /\ txn[s].n > Len(p)
  BY PublishPlace DEF CommitPublish
<1>2. p \in Plans
  BY <1>1 DEF PublishTxn
<1>3. Next
  BY <1>1, <1>2 DEF Next
<1>4. txn[s].tasks = PlanTasks(p)
  <2>1. /\ txn[s].n \in 1 .. Len(p) + 1 /\ Len(p) \in Nat /\ DOMAIN p = 1 .. Len(p)
        /\ txn[s].tasks = {p[i].id : i \in 1 .. txn[s].n - 1}
    BY <1>1, <1>2, PlansAssumption DEF PublishTxn
  <2>2. 1 .. txn[s].n - 1 = DOMAIN p
    BY <1>1, <2>1
  <2> QED
    BY <2>1, <2>2 DEF PlanTasks
<1>5. /\ \A t \in Tasks \ PlanTasks(p) : task'[t] = task[t]
      /\ \A t \in PlanTasks(p) \cap Tasks : task'[t].key = NoKey
      /\ UNCHANGED <<execs, runtime, active>>
  BY <1>1 DEF Publish
<1>6. KeysKept
  BY <1>5, NoKeyNotGiven DEF KeysKept
<1>7. NothingCompletes
  BY <1>1, <1>2, NothingCompletesBy
<1> QED
  BY <1>1, <1>2, <1>3, <1>4, <1>5, <1>6, <1>7 DEF Within, ExecsKept, SameExec

(* The calls of one statement take no row another transaction has.         *)
LEMMA SingleCalls ==
  ASSUME TypeOK, TasksAgreeWithAttempts, TxnInv,
         \/ \E s \in Slots, r \in Runtimes : Registers(s, r) \/ Stops(s, r)
         \/ \E k \in DOMAIN execs : LeaseLapses(k)
         \/ \E c \in Cards : Changes(c)
  PROVE  TxnInv' /\ Next
<1>1. ASSUME NEW s \in Slots, NEW r \in Runtimes, Registers(s, r) \/ Stops(s, r)
      PROVE  TxnInv' /\ Next
  <2>1. /\ txn' = txn /\ FreeRuntime(s, r) /\ txn[s] = NoTxn
        /\ UNCHANGED <<task, execs, active>>
        /\ \A q \in Runtimes \ {r} : runtime'[q] = runtime[q]
        /\ runtime'[r].key \in {NoKey, runtime[r].key}
    <3>1. CASE Registers(s, r)
      BY <3>1 DEF Registers, Begins, RegisterRuntime, TypeOK
    <3>2. CASE Stops(s, r)
      <4>1. runtime[r] \in RuntimeRow /\ runtime' = [runtime EXCEPT ![r].status = "stopped"]
        BY <3>2 DEF Stops, StopRuntime, TypeOK
      <4>2. runtime'[r].key = runtime[r].key
        BY <4>1 DEF TypeOK, RuntimeRow
      <4> QED
        BY <3>2, <4>1, <4>2 DEF Stops, Begins, StopRuntime, TypeOK
    <3> QED
      BY <1>1, <3>1, <3>2
  <2>2. KeysKept
    BY <2>1, NoKeyNotGiven DEF KeysKept
  <2>3. ASSUME NEW o \in Slots PROVE Spares(txn[o])
    <3>1. txn[o].tasks \subseteq Tasks /\ txn[o].runtimes \subseteq Runtimes \ {r}
      BY <2>1, RowsOfTxn DEF FreeRuntime, NoTxn
    <3> QED
      BY <2>1, <2>2, <3>1 DEF Spares, ExecsKept, SameExec
  <2> QED
    BY <1>1, <2>1, <2>3, SingleStep DEF Next, Registers, Stops
<1>2. ASSUME NEW k \in DOMAIN execs, LeaseLapses(k) PROVE TxnInv' /\ Next
  <2>1. /\ txn' = txn /\ LeaseRunsOut(k) /\ UNCHANGED <<task, runtime, active>>
        /\ execs' = [execs EXCEPT ![k].leased = FALSE]
    BY <1>2 DEF LeaseLapses, LeaseRunsOut
  <2>2. Next
    BY <2>1 DEF Next
  <2>3. ExecsKept
    BY <2>2, NextKeepsExecs
  <2>4. \A j \in DOMAIN execs : SameExec(j)
    <3>1. execs[k] \in ExecRow
      BY DEF TypeOK
    <3> QED
      BY <2>1, <3>1 DEF SameExec, ExecRow
  <2>5. ASSUME NEW o \in Slots PROVE Spares(txn[o])
    <3>1. /\ txn[o].execs \subseteq DOMAIN execs
          /\ txn[o].tasks \subseteq Tasks /\ txn[o].runtimes \subseteq Runtimes
      BY RowsOfTxn
    <3> QED
      BY <2>1, <2>3, <2>4, <3>1 DEF Spares, KeysKept
  <2> QED
    BY <2>1, <2>2, <2>5, SingleStep
<1>3. ASSUME NEW c \in Cards, Changes(c) PROVE TxnInv' /\ Next
  <2>1. /\ txn' = txn /\ Next /\ UNCHANGED <<task, execs, runtime>>
        /\ \A s \in Slots : ~ (txn[s].op = "claim" /\ txn[s].at = "commit")
    BY <1>3 DEF Changes, ChangeCardStatus, Next
  <2>2. \A o \in Slots : Spares(txn[o])
    BY <2>1 DEF Spares, ExecsKept, KeysKept, SameExec
  <2> QED
    BY <2>1, <2>2, SingleStep
<1> QED
  BY <1>1, <1>2, <1>3

(* The statements that write nothing yet.                                  *)
Statement(s) ==
  \/ RollBack(s)
  \/ \E op \in AttemptCalls, k \in DOMAIN execs : BeginAttemptCall(s, op, k)
  \/ TakeExec(s) \/ TakeTask(s) \/ TakeRuntime(s) \/ FindDependents(s)
  \/ \E d \in Tasks : TakeDependent(s, d) \/ CountBlockers(s, d)
  \/ \E r \in Runtimes : BeginClaim(s, r)
  \/ \E t \in Tasks : PickTask(s, t)
  \/ BeginReclaim(s)
  \/ \E k \in DOMAIN execs : TakeReclaimed(s, k)
  \/ \E p \in Plans : BeginPublish(s, p)
  \/ UpsertRow(s)

LEMMA StatementsStep ==
  ASSUME TypeOK, TasksAgreeWithAttempts, TxnInv, NEW s \in Slots, Statement(s)
  PROVE  TxnInv' /\ UNCHANGED vars
<1>1. CASE RollBack(s)
  BY <1>1, UnchangedWithin, ClosingStep DEF RollBack
<1>2. UNCHANGED vars
  BY DEF Statement, RollBack, BeginAttemptCall, TakeExec, TakeTask, TakeRuntime, FindDependents,
         TakeDependent, CountBlockers, BeginClaim, PickTask, BeginReclaim, TakeReclaimed,
         BeginPublish, UpsertRow
<1>3. ASSUME NEW op \in AttemptCalls, NEW k \in DOMAIN execs, BeginAttemptCall(s, op, k)
      PROVE  TxnInv'
  BY <1>3, BeginAttemptCallStep
<1>4. CASE TakeExec(s) \/ TakeTask(s) \/ TakeRuntime(s) \/ FindDependents(s)
  <2>1. CASE TakeExec(s)
    BY <1>2, <2>1, TakeExecStep
  <2>2. CASE TakeTask(s)
    BY <1>2, <2>2, TakeTaskStep
  <2>3. CASE TakeRuntime(s)
    BY <1>2, <2>3, TakeRuntimeStep
  <2>4. CASE FindDependents(s)
    BY <1>2, <2>4, FindDependentsStep
  <2> QED
    BY <1>4, <2>1, <2>2, <2>3, <2>4
<1>5. ASSUME NEW d \in Tasks, TakeDependent(s, d) \/ CountBlockers(s, d) \/ PickTask(s, d)
      PROVE  TxnInv'
  BY <1>5, TakeDependentStep, CountBlockersStep, PickTaskStep
<1>6. ASSUME NEW r \in Runtimes, BeginClaim(s, r) PROVE TxnInv'
  BY <1>6, BeginClaimStep
<1>7. ASSUME NEW k \in DOMAIN execs, TakeReclaimed(s, k) PROVE TxnInv'
  BY <1>7, TakeReclaimedStep
<1>8. ASSUME NEW p \in Plans, BeginPublish(s, p) PROVE TxnInv'
  BY <1>8, BeginPublishStep
<1>9. CASE BeginReclaim(s) \/ UpsertRow(s)
  <2>1. CASE BeginReclaim(s)
    BY <1>2, <2>1, BeginReclaimStep
  <2>2. CASE UpsertRow(s)
    BY <1>2, <2>2, UpsertRowStep
  <2> QED
    BY <1>9, <2>1, <2>2
<1> QED
  BY <1>1, <1>2, <1>3, <1>4, <1>5, <1>6, <1>7, <1>8, <1>9 DEF Statement

(* Every step is a statement that writes nothing yet, a step of            *)
(* DagScheduler that completes no task, or a commit about an attempt.      *)
AttemptCommit(s) ==
  CommitStart(s) \/ CommitRenew(s) \/ CommitComplete(s) \/ CommitFail(s) \/ CommitCancel(s)

LEMMA StepKinds ==
  ASSUME TypeOK, TasksAgreeWithAttempts, TxnInv, [TNext]_tvars
  PROVE  \/ TxnInv' /\ UNCHANGED vars
         \/ TxnInv' /\ Next /\ NothingCompletes
         \/ \E s \in Slots : AttemptCommit(s)
<1>1. CASE \E s \in Slots : Statement(s)
  BY <1>1, StatementsStep
<1>2. CASE \/ \E s \in Slots, r \in Runtimes : Registers(s, r) \/ Stops(s, r)
           \/ \E k \in DOMAIN execs : LeaseLapses(k)
           \/ \E c \in Cards : Changes(c)
  <2>1. task' = task
    BY <1>2 DEF Registers, Stops, LeaseLapses, Changes, RegisterRuntime, StopRuntime,
                LeaseRunsOut, ChangeCardStatus
  <2> QED
    BY <1>2, <2>1, SingleCalls, NothingCompletesBy
<1>3. ASSUME NEW s \in Slots,
             CommitClaim(s) \/ CommitReclaim(s) \/ CommitFinish(s) \/ CommitPublish(s)
      PROVE  TxnInv' /\ Next /\ NothingCompletes
  <2>1. Within(txn[s]) /\ Next /\ NothingCompletes
    BY <1>3, ClaimWithin, ReclaimWithin, FinishWithin, PublishWithin
  <2>2. Closes(s)
    BY <1>3 DEF CommitClaim, CommitReclaim, CommitFinish, CommitPublish
  <2> QED
    BY <2>1, <2>2, ClosingStep
<1>4. CASE UNCHANGED tvars
  <2>1. UNCHANGED vars /\ txn' = txn
    BY <1>4 DEF tvars
  <2> QED
    BY <2>1, UnchangedSpares, SingleStep
<1> QED
  BY <1>1, <1>2, <1>3, <1>4 DEF TNext, Statement, AttemptCommit

LEMMA TxnStep ==
  ASSUME TypeOK, SchedulerInv, TxnInv, [TNext]_tvars
  PROVE  /\ TypeOK' /\ SchedulerInv' /\ TxnInv'
         /\ \A t \in Tasks :
              task[t].status = "completed" =>
                \/ task'[t].status = "completed"
                \/ \E p \in submitted' \ submitted : t \in PlanTasks(p)
<1>1. CASE TxnInv' /\ [Next]_vars
  BY <1>1, NextTypeOK, ExecsStep, HistoryStep, TasksStep, RuntimesStep, CompletionStep
  DEF SchedulerInv
<1>2. ASSUME NEW s \in Slots, CommitStart(s) \/ CommitRenew(s)
      PROVE  TypeOK' /\ SchedulerInv' /\ TxnInv' /\ task' = task
  BY <1>2, TouchCommitStep
<1>3. ASSUME NEW s \in Slots, CommitComplete(s) \/ CommitFail(s) \/ CommitCancel(s)
      PROVE  /\ TypeOK' /\ SchedulerInv' /\ TxnInv'
             /\ \A t \in Tasks : task[t].status = "completed" => task'[t].status = "completed"
  BY <1>3, EndCommitStep
<1> QED
  BY <1>1, <1>2, <1>3, StepKinds DEF AttemptCommit, SchedulerInv

LEMMA TxnInvCorrect == TSpec => [](TypeOK /\ SchedulerInv /\ TxnInv)
<1>1. TInit => TypeOK /\ SchedulerInv
  BY InitTypeOK, ConstantsAssumption
  DEF TInit, Init, SchedulerInv, AttemptHistory, TasksAgreeWithAttempts, TaskAgreesWithAttempt,
      RuntimesAgreeWithAttempts, RuntimeAgreesWithAttempt
<1>2. ASSUME TInit PROVE TxnInv
  <2>1. txn = [s \in Slots |-> NoTxn]
    BY <1>2 DEF TInit
  <2>2. NoTxn.op = "none" /\ DOMAIN NoTxn.count = {} /\ NoTxn.execs = {} /\ NoTxn.tasks = {}
        /\ NoTxn.runtimes = {}
    BY DEF NoTxn
  <2>3. TxnOK(NoTxn)
    BY <2>2, TxnCases DEF AttemptCalls
  <2> HIDE DEF TxnOK
  <2> QED
    BY <2>1, <2>2, <2>3, NoTxnType DEF TxnInv, TxnsOK, LocksExclusive, DrawnApart
<1>3. TypeOK /\ SchedulerInv /\ TxnInv /\ [TNext]_tvars => (TypeOK /\ SchedulerInv /\ TxnInv)'
  BY TxnStep
<1> QED
  BY <1>1, <1>2, <1>3, PTL DEF TSpec

(* Whatever the interleaving of the statements of the calls, roll-backs    *)
(* included, a row is held by one transaction at a time, and the rows a    *)
(* transaction holds are those of the tables its statements named.         *)
THEOREM TxnTypeCorrect == TSpec => [](TypeOK /\ TTypeOK)
<1>1. ASSUME TypeOK, TxnInv PROVE TTypeOK
  <2>1. ASSUME NEW s \in Slots
        PROVE  /\ txn[s].op \in Calls \cup {"none"}
               /\ txn[s].execs \subseteq DOMAIN execs
               /\ txn[s].tasks \subseteq Tasks
               /\ txn[s].runtimes \subseteq Runtimes
               /\ DOMAIN txn[s].count \subseteq txn[s].rows
    <3>1. txn[s].at # "downstream" => DOMAIN txn[s].count = {}
      BY <1>1 DEF TxnInv, TxnsOK
    <3>2. txn[s].op \in Calls \cup {"none"}
      BY <1>1 DEF TxnInv, TxnsOK
    <3> QED
      BY <1>1, <3>1, <3>2, RowsOfTxn, CountedRows
  <2>2. LocksExclusive
    BY <1>1 DEF TxnInv
  <2> QED
    BY <2>1, <2>2 DEF TTypeOK, LocksExclusive
<1> QED
  BY <1>1, TxnInvCorrect, PTL

(* Statement by statement, with late calls and roll-backs, the attempts of *)
(* an execution remain a gapless history in which only the last may be     *)
(* under way, completed or cancelled.                                      *)
THEOREM TxnAttemptHistoryCorrect == TSpec => []AttemptHistory
BY TxnInvCorrect, PTL DEF SchedulerInv

(* A committed task row agrees with the attempt it names although each     *)
(* call checks that attempt first and locks the rows one after the other.  *)
THEOREM TxnTasksAgreeCorrect == TSpec => []TasksAgreeWithAttempts
BY TxnInvCorrect, PTL DEF SchedulerInv

(* A committed runtime row names only an attempt of that runtime, and      *)
(* loading and unloading slots go with their attempts.                     *)
THEOREM TxnRuntimesAgreeCorrect == TSpec => []RuntimesAgreeWithAttempts
BY TxnInvCorrect, PTL DEF SchedulerInv

(* No interleaving of statements lets a late call reopen a completed task: *)
(* only its publication does.                                              *)
THEOREM TxnCompletionIsFinalCorrect == TSpec => CompletionIsFinal
<1>1. TypeOK /\ SchedulerInv /\ TxnInv /\ [TNext]_tvars
        => [\A t \in Tasks :
              task[t].status = "completed" =>
                \/ task'[t].status = "completed"
                \/ \E p \in submitted' \ submitted : t \in PlanTasks(p)]_vars
  BY TxnStep
<1> QED
  BY <1>1, TxnInvCorrect, PTL DEF TSpec, CompletionIsFinal
-----------------------------------------------------------------------------
(* What a commit about an attempt is on the board.                         *)

(* An end whose task still names the attempt settles both.                 *)
LEMMA CurrentEndOnBoard ==
  ASSUME TypeOK, SchedulerInv, NEW s \in Slots, NEW es, NEW ts, EndsAs(s, es, ts),
         txn[s].hit, IsCurrentAttempt(txn[s].key), txn[s].key \in DOMAIN execs
  PROVE  Board!BNext
<1> DEFINE k == txn[s].key
           t == execs[k].task
<1>1. t \in Tasks /\ k \in DOMAIN execs /\ IsCurrentAttempt(k)
  BY DEF IsCurrentAttempt, TypeOK, ExecRow
<1>2. /\ execs' = EndExec(k, es)
      /\ \A u \in Tasks : /\ task'[u].status = EndTask(k, ts)[u].status
                          /\ task'[u].key = EndTask(k, ts)[u].key
      /\ \/ es = "completed" /\ ts = "completed"
         \/ es = "cancelled" /\ ts = "cancelled"
         \/ es = "failed" /\ ts = StatusAfterLoss(k)
  BY DEF EndsAs
<1>3. es \in TerminalStatus
  BY <1>2 DEF TerminalStatus
<1>4. ASSUME NEW status, status[t] = ts, ts # "in_progress"
      PROVE  Board!Settle({t}, IF es \in {"failed", "expired"} THEN "lost" ELSE es, status)
  <2> HIDE DEF k
  <2> QED
    BY <1>1, <1>2, <1>3, <1>4, EndStep DEF SchedulerInv
<1>5. CASE es = "completed" /\ ts = "completed"
  <2> DEFINE status == [u \in Tasks |-> "completed"]
  <2>1. status[t] = ts /\ ts # "in_progress"
    BY <1>1, <1>5
  <2>2. Board!Settle({t}, IF es \in {"failed", "expired"} THEN "lost" ELSE es, status)
    BY <1>4, <2>1
  <2>3. Board!Finish(t)
    BY <1>5, <2>2 DEF Board!Finish, status
  <2> QED
    BY <1>1, <2>3 DEF Board!BNext
<1>6. CASE es = "cancelled" /\ ts = "cancelled"
  <2> DEFINE status == [u \in Tasks |-> "cancelled"]
  <2>1. status[t] = ts /\ ts # "in_progress"
    BY <1>1, <1>6
  <2>2. Board!Settle({t}, IF es \in {"failed", "expired"} THEN "lost" ELSE es, status)
    BY <1>4, <2>1
  <2>3. Board!Withdraw(t)
    BY <1>6, <2>2 DEF Board!Withdraw, status
  <2> QED
    BY <1>1, <2>3 DEF Board!BNext
<1>7. CASE es = "failed" /\ ts = StatusAfterLoss(k)
  <2>1. Board!AfterLoss[t] = ts /\ ts # "in_progress"
    BY <1>1, <1>7, LossStatus DEF IsCurrentAttempt
  <2>2. Board!Settle({t}, IF es \in {"failed", "expired"} THEN "lost" ELSE es, Board!AfterLoss)
    BY <1>4, <2>1
  <2>3. Board!Lose({t})
    BY <1>7, <2>2 DEF Board!Lose
  <2> QED
    BY <1>1, <2>3 DEF Board!BNext
<1> QED
  BY <1>2, <1>5, <1>6, <1>7

(* A late end, after its task was posted again, closes the claim alone.    *)
LEMMA LateEndOnBoard ==
  ASSUME TypeOK, SchedulerInv, NEW s \in Slots, NEW es, NEW ts, EndsAs(s, es, ts),
         ~ txn[s].hit, txn[s].key \in DOMAIN execs, execs[txn[s].key].status \in ActiveStatus,
         task[execs[txn[s].key].task].key # txn[s].key
  PROVE  Board!BNext
<1> DEFINE k == txn[s].key
           outcome == IF es = "failed" THEN "lost" ELSE es
           B == [t \in Tasks |-> BoardRow(t)]
           V == [j \in DOMAIN execs |-> Verdict(j)]
<1>1. k \in ExecIds \X (1..MaxAttempts) /\ k # NoKey
  <2>1. k \in Key /\ k[2] \in 1..MaxAttempts /\ k # NoKey
    BY NoKeyNotGiven DEF TypeOK, SchedulerInv, AttemptHistory
  <2> HIDE DEF k
  <2> QED
    BY <2>1 DEF Key
<1>2. es \in {"completed", "cancelled", "failed"} /\ outcome \in Board!Outcomes
  BY DEF EndsAs, Board!Outcomes
<1>3. \A t \in Tasks : B[t].holder # k
  <2> TAKE t \in Tasks
  <2>1. TaskAgreesWithAttempt(t)
    BY DEF SchedulerInv, TasksAgreeWithAttempts
  <2>2. task[t].key # k
    BY <1>1, <2>1 DEF TaskAgreesWithAttempt
  <2> QED
    BY <1>1, <2>2 DEF BoardRow
<1>4. k \in DOMAIN V /\ V[k] = "held"
  <2>1. k \in DOMAIN execs /\ Verdict(k) = "held"
    BY DEF Verdict, ActiveStatus
  <2> HIDE DEF k
  <2> QED
    BY <2>1
<1>5. \A t \in Tasks : task'[t].status = task[t].status /\ task'[t].key = task[t].key
  BY DEF EndsAs
<1>6. B' = B
  <2>1. \A t \in Tasks : BoardRow(t)' = BoardRow(t)
    BY <1>5 DEF BoardRow
  <2> QED
    BY <2>1
<1>7. V' = [V EXCEPT ![k] = outcome]
  <2>1. /\ DOMAIN execs' = DOMAIN execs
        /\ \A j \in DOMAIN execs : j # k => execs'[j] = execs[j]
        /\ execs'[k].status = es
    BY EndRowsStep DEF EndsAs
  <2>2. \A j \in DOMAIN execs : Verdict(j)' = IF j = k THEN outcome ELSE Verdict(j)
    BY <1>2, <2>1 DEF Verdict, ActiveStatus
  <2> HIDE DEF outcome
  <2> QED
    BY <2>1, <2>2
<1>8. Board!Close(k, outcome)
  <2> HIDE DEF outcome, k
  <2> QED
    BY <1>3, <1>4, <1>6, <1>7 DEF Board!Close, B, V
<1> QED
  BY <1>1, <1>2, <1>8 DEF Board!BNext

LEMMA EndOnBoard ==
  ASSUME TypeOK, SchedulerInv, TxnInv, NEW s \in Slots,
         CommitComplete(s) \/ CommitFail(s) \/ CommitCancel(s)
  PROVE  Board!BNext
<1>1. /\ txn[s].op \in {"complete", "fail", "cancel"}
      /\ txn[s].at \in {"dependents", "downstream", "commit"}
  BY EndCommits
<1>2. PICK es, ts : EndsAs(s, es, ts)
  BY EndCommits
<1>3. /\ txn[s].key \in DOMAIN execs /\ execs[txn[s].key].status \in ActiveStatus
      /\ txn[s].hit <=> task[execs[txn[s].key].task].key = txn[s].key
      /\ txn[s].hit => IsCurrentAttempt(txn[s].key)
  BY <1>1, EndFacts
<1>4. CASE txn[s].hit
  BY <1>2, <1>3, <1>4, CurrentEndOnBoard
<1>5. CASE ~ txn[s].hit
  BY <1>2, <1>3, <1>5, LateEndOnBoard
<1> QED
  BY <1>4, <1>5

(* A start and a renewal show nothing.                                     *)
LEMMA TouchOnBoard ==
  ASSUME TypeOK, TxnInv, NEW s \in Slots, CommitStart(s) \/ CommitRenew(s)
  PROVE  UNCHANGED Board!bvars
<1> DEFINE x == txn[s]
           k == x.key
<1>1. x.op \in {"start", "renew"} /\ AttemptTxn(x) /\ x.at = "commit"
  BY AttemptPlace DEF CommitStart, CommitRenew, AttemptCalls
<1>2. k \in DOMAIN execs /\ execs[k].status \in ActiveStatus /\ execs[k] \in ExecRow
  BY <1>1 DEF AttemptTxn, ExecMatches, IsActive, ActiveStatus, TypeOK
<1>3. /\ task' = task /\ DOMAIN execs' = DOMAIN execs
      /\ \A j \in DOMAIN execs : j # k => execs'[j] = execs[j]
      /\ \/ execs'[k] = [[execs[k] EXCEPT !.status = "running"] EXCEPT !.leased = TRUE]
         \/ execs'[k] = [execs[k] EXCEPT !.leased = TRUE]
  BY <1>2 DEF CommitStart, CommitRenew
<1> HIDE DEF k
<1>4. execs'[k].status \in ActiveStatus
  BY <1>2, <1>3 DEF ExecRow, ActiveStatus
<1>5. \A j \in DOMAIN execs : Verdict(j)' = Verdict(j)
  BY <1>2, <1>3, <1>4 DEF Verdict, ActiveStatus
<1> QED
  BY <1>3, <1>5, InvisibleStep

(* Statement by statement, too, and however often tasks are posted again,  *)
(* tasks are posted, claims handed out on waiting tasks, and a claim is     *)
(* settled with its task, once; by itself only after its task was posted    *)
(* again.                                                                  *)
THEOREM TxnImplementsTaskBoard == TSpec => ImplementsTaskBoard
<1>1. TInit => Board!BInit
  BY InitBoard DEF TInit
<1>2. TypeOK /\ SchedulerInv /\ TxnInv /\ [TNext]_tvars => [Board!BNext]_Board!bvars
  <2> SUFFICES ASSUME TypeOK, SchedulerInv, TxnInv, [TNext]_tvars
               PROVE  [Board!BNext]_Board!bvars
    OBVIOUS
  <2>1. CASE [Next]_vars
    BY <2>1, StepBoard DEF SchedulerInv
  <2>2. ASSUME NEW s \in Slots, AttemptCommit(s) PROVE [Board!BNext]_Board!bvars
    BY <2>2, EndOnBoard, TouchOnBoard DEF AttemptCommit
  <2> QED
    BY <2>1, <2>2, StepKinds DEF SchedulerInv
<1> QED
  BY <1>1, <1>2, TxnInvCorrect, PTL DEF TSpec, ImplementsTaskBoard, Board!BSpec

(* An end announces what it makes ready.                                   *)
LEMMA EndAnnounces ==
  ASSUME TypeOK, SchedulerInv, TxnInv, ReadyIsAnnounced, NEW s \in Slots,
         CommitComplete(s) \/ CommitFail(s) \/ CommitCancel(s)
  PROVE  ReadyIsAnnounced'
<1> SUFFICES ASSUME NEW u \in Tasks, Ready(u)'
             PROVE  u \in announced'
  BY DEF ReadyIsAnnounced
<1> DEFINE x == txn[s]
           k == x.key
<1>1. /\ x.op \in {"complete", "fail", "cancel"} /\ x.at \in {"dependents", "downstream", "commit"}
      /\ k \in DOMAIN execs /\ execs[k].task \in Tasks
      /\ x.hit <=> task[execs[k].task].key = k
      /\ task[u] \in TaskRow
  BY EndCommits, EndFacts DEF TypeOK, ExecRow
<1>2. Ready(u) => u \in announced
  BY DEF ReadyIsAnnounced
<1>3. announced \subseteq announced'
  BY DEF CommitComplete, CommitFail, CommitCancel
<1>4. ASSUME NEW ts
      PROVE  /\ u # execs[k].task => EndTask(k, ts)[u] = task[u]
             /\ u = execs[k].task => EndTask(k, ts)[u].status = ts
  BY <1>1, EndRowsStep
<1>5. CASE CommitComplete(s)
  <2> DEFINE c == x.count
  <2>1. Seen(x)[u] = task[u] \/ Seen(x)[u].status = "completed"
    BY <1>1, <1>4 DEF Seen
  <2>2. DOMAIN c \subseteq Tasks /\ Seen(x)[u] \in TaskRow
    <3>1. EndTask(k, "completed") \in [Tasks -> TaskRow]
      BY <1>1, EndRowsType DEF TerminalStatus, TaskStatus
    <3> QED
      BY <1>5, <3>1, CountedRows DEF CommitComplete, Seen, TypeOK
  <2>3. CASE u \in DOMAIN c
    <3>1. task'[u] = [Seen(x)[u] EXCEPT !.blocked = c[u]]
      BY <1>5, <2>3 DEF CommitComplete
    <3>2. task'[u].blocked = c[u]
      <4> HIDE DEF x
      <4> QED
        BY <2>2, <3>1 DEF TaskRow
    <3> QED
      BY <1>5, <2>3, <3>2 DEF CommitComplete, Ready
  <2>4. CASE u \notin DOMAIN c
    <3>1. task'[u] = Seen(x)[u]
      BY <1>5, <2>4 DEF CommitComplete
    <3> QED
      BY <1>2, <1>3, <2>1, <3>1 DEF Ready
  <2> QED
    BY <2>3, <2>4
<1>6. CASE CommitFail(s)
  <2>1. task' = IF x.hit THEN EndTask(k, StatusAfterLoss(k)) ELSE task
    BY <1>6 DEF CommitFail, EndedTask
  <2>2. CASE x.hit /\ u = execs[k].task
    <3>1. StatusAfterLoss(k) = "pending"
      BY <1>4, <2>1, <2>2 DEF Ready
    <3>2. RetryScheduled(k)
      BY <3>1 DEF StatusAfterLoss
    <3> QED
      BY <1>6, <2>2, <3>2 DEF CommitFail
  <2>3. CASE ~ (x.hit /\ u = execs[k].task)
    BY <1>2, <1>3, <1>4, <2>1, <2>3 DEF Ready
  <2> QED
    BY <2>2, <2>3
<1>7. CASE CommitCancel(s)
  <2>1. task' = IF x.hit THEN EndTask(k, "cancelled") ELSE task
    BY <1>7 DEF CommitCancel, EndedTask
  <2> QED
    BY <1>2, <1>3, <1>4, <2>1 DEF Ready
<1> QED
  BY <1>5, <1>6, <1>7

(* Between the commits of the statements' transactions, a ready task has    *)
(* been announced: no interleaving, roll-back, late call or republication   *)
(* makes a task claimable without its event.                               *)
THEOREM TxnReadyIsAnnouncedCorrect == TSpec => []ReadyIsAnnounced
<1>1. TInit => ReadyIsAnnounced
  BY DEF TInit, Init, ReadyIsAnnounced, Ready
<1>2. TypeOK /\ SchedulerInv /\ TxnInv /\ ReadyIsAnnounced /\ [TNext]_tvars => ReadyIsAnnounced'
  <2> SUFFICES ASSUME TypeOK, SchedulerInv, TxnInv, ReadyIsAnnounced, [TNext]_tvars
               PROVE  ReadyIsAnnounced'
    OBVIOUS
  <2>1. CASE [Next]_vars
    BY <2>1, AnnouncedStep
  <2>2. ASSUME NEW s \in Slots, CommitStart(s) \/ CommitRenew(s) PROVE ReadyIsAnnounced'
    BY <2>2 DEF CommitStart, CommitRenew, ReadyIsAnnounced, Ready
  <2>3. ASSUME NEW s \in Slots, CommitComplete(s) \/ CommitFail(s) \/ CommitCancel(s)
        PROVE  ReadyIsAnnounced'
    BY <2>3, EndAnnounces
  <2> QED
    BY <2>1, <2>2, <2>3, StepKinds DEF AttemptCommit, SchedulerInv
<1> QED
  BY <1>1, <1>2, TxnInvCorrect, PTL DEF TSpec
-----------------------------------------------------------------------------
(* Nothing is published again.  Then an attempt under way is always the     *)
(* current one of its task, so that no commit about an attempt is late ... *)
ActiveIsCurrent == \A k \in DOMAIN execs : IsActive(k) => IsCurrentAttempt(k)

(* The keys of the tasks table change by publications and claims only.     *)
LEMMA TaskKeysStep ==
  ASSUME TypeOK, [Next]_vars, NEW u \in Tasks
  PROVE  \/ task'[u].key = task[u].key
         \/ \E p \in Plans : Publish(p) /\ u \in PlanTasks(p)
         \/ \E r \in Runtimes : Claim(r, u)
<1>1. task[u] \in TaskRow /\ task \in [Tasks -> TaskRow]
  BY DEF TypeOK
<1>2. ASSUME NEW p \in Plans, Publish(p), u \notin PlanTasks(p) PROVE task'[u].key = task[u].key
  BY <1>2 DEF Publish
<1>3. ASSUME NEW r \in Runtimes, NEW t \in Tasks, Claim(r, t), t # u
      PROVE  task'[u].key = task[u].key
  BY <1>1, <1>3 DEF Claim
<1>4. ASSUME NEW r \in Runtimes, NEW t \in Tasks, ClaimWithoutCard(r, t)
      PROVE  task'[u].key = task[u].key
  <2>1. task' = [task EXCEPT ![t] = [@ EXCEPT !.status = "failed", !.owner = NoRuntime]]
    BY <1>4 DEF ClaimWithoutCard
  <2> QED
    BY <1>1, <2>1 DEF TaskRow
<1>5. ASSUME NEW k \in DOMAIN execs, NEW ts
      PROVE  EndTask(k, ts)[u].key = task[u].key
  BY <1>5, EndRowsStep
<1>6. ASSUME NEW k \in DOMAIN execs, FailExecution(k) \/ CancelExecution(k)
      PROVE  task'[u].key = task[u].key
  BY <1>5, <1>6 DEF FailExecution, CancelExecution
<1>7. ASSUME NEW k \in DOMAIN execs, CompleteExecution(k)
      PROVE  task'[u].key = task[u].key
  <2> DEFINE tb == EndTask(k, "completed")
  <2>1. tb \in [Tasks -> TaskRow] /\ tb[u].key = task[u].key
    BY <1>5, EndRowsType DEF TerminalStatus, TaskStatus
  <2>2. task'[u] \in {tb[u], [tb[u] EXCEPT !.blocked = Remaining(tb, u)]}
    BY <1>7 DEF CompleteExecution
  <2> HIDE DEF tb
  <2> QED
    BY <2>1, <2>2 DEF TaskRow
<1>8. ASSUME NEW S \in SUBSET DOMAIN execs, ReclaimLeasedTasks(S)
      PROVE  task'[u].key = task[u].key
  <2>1. \/ task'[u] = task[u]
        \/ \E x : task'[u] = [[task[u] EXCEPT !.status = x] EXCEPT !.owner = NoRuntime]
    BY <1>8 DEF ReclaimLeasedTasks
  <2> QED
    BY <1>1, <2>1 DEF TaskRow
<1> QED
  BY <1>2, <1>3, <1>4, <1>6, <1>7, <1>8
  DEF Next, vars, RegisterRuntime, StopRuntime, ChangeCardStatus, MarkExecutionStarted,
      RenewLease, LeaseRunsOut, FinishCardUnload

LEMMA ActiveStep ==
  ASSUME PublishedOnce
  PROVE  TypeOK /\ SchedulerInv /\ BlockerInv /\ ActiveIsCurrent /\ [Next]_vars => ActiveIsCurrent'
<1> SUFFICES ASSUME TypeOK, SchedulerInv, BlockerInv, ActiveIsCurrent, [Next]_vars,
                    NEW k \in DOMAIN execs', IsActive(k)'
             PROVE  IsCurrentAttempt(k)'
  BY DEF ActiveIsCurrent
<1> DEFINE u == execs'[k].task
<1>1. ExecsFrame /\ ExecsGrowth
  BY ExecsStep
<1>2. TypeOK' /\ TasksAgreeWithAttempts'
  BY NextTypeOK, ExecsStep, TasksStep DEF SchedulerInv
<1>3. u \in Tasks /\ k # NoKey
  BY <1>2, ConstantsAssumption DEF TypeOK, ExecRow, Key, NoKey
<1>4. task'[u].key = k
  <2>1. CASE k \notin DOMAIN execs
    <3>1. PICK r \in Runtimes, t \in Tasks : Claim(r, t)
      BY <2>1 DEF Next, vars, Publish, RegisterRuntime, StopRuntime, ChangeCardStatus,
                  ClaimWithoutCard, MarkExecutionStarted, RenewLease, LeaseRunsOut,
                  CompleteExecution, FailExecution, CancelExecution, EndExec,
                  FinishCardUnload, ReclaimLeasedTasks
    <3>2. PICK j, c :
            /\ execs' = [i \in DOMAIN execs \cup {j} |->
                           IF i = j
                           THEN [status |-> "claimed", task |-> t, runtime |-> r,
                                 card |-> c, leased |-> TRUE]
                           ELSE execs[i]]
            /\ task' = [task EXCEPT ![t] = [@ EXCEPT !.status = "in_progress",
                                                     !.owner = r, !.key = j]]
      BY <3>1 DEF Claim
    <3>3. k = j /\ u = t
      BY <2>1, <3>2
    <3> QED
      BY <3>2, <3>3 DEF TypeOK, TaskRow
  <2>2. CASE k \in DOMAIN execs
    <3>1. execs[k].task = u /\ execs[k].status \in ActiveStatus
      <4>1. execs[k].task = u /\ execs[k].status \notin TerminalStatus
        BY <1>1, <2>2 DEF ExecsFrame, IsActive, ActiveStatus, TerminalStatus
      <4>2. execs[k].status \in ActiveStatus \cup TerminalStatus
        BY <2>2 DEF TypeOK, ExecRow
      <4> QED
        BY <4>1, <4>2
    <3>2. task[u].key = k /\ task[u].status = "in_progress"
      BY <2>2, <3>1, CurrentAttemptFacts
      DEF ActiveIsCurrent, IsActive, IsCurrentAttempt, SchedulerInv
    <3>3. ASSUME NEW p \in Plans, Publish(p), u \in PlanTasks(p) PROVE FALSE
      BY <2>2, <3>1, <3>3, FreshPlan DEF BlockerInv, PublicationInv
    <3>4. ASSUME NEW r \in Runtimes, Claim(r, u) PROVE FALSE
      BY <3>2, <3>4 DEF Claim, Ready
    <3> QED
      BY <1>3, <3>2, <3>3, <3>4, TaskKeysStep
  <2> QED
    BY <2>1, <2>2
<1>5. \A t \in Tasks : TaskAgreesWithAttempt(t)'
  BY <1>2 DEF TasksAgreeWithAttempts
<1>6. PICK t \in Tasks : t = execs'[k].task
  BY <1>3
<1>7. k \in DOMAIN execs' /\ execs'[k].status \in ActiveStatus
  BY DEF IsActive
<1>8. task'[t].status = "in_progress" /\ task'[t].owner = execs'[k].runtime
  <2>1. TaskAgreesWithAttempt(t)' /\ task'[t].key = k
    BY <1>4, <1>5, <1>6
  <2>2. task'[t].status = "in_progress"
    BY <1>3, <1>7, <2>1 DEF TaskAgreesWithAttempt
  <2>3. task'[t].owner = execs'[k].runtime
    BY <1>3, <1>7, <2>1, <2>2 DEF TaskAgreesWithAttempt
  <2> QED
    BY <2>2, <2>3
<1> QED
  BY <1>4, <1>6, <1>7, <1>8 DEF IsCurrentAttempt, IsActive

(* ... and the blockers a completion counted are those of the tables as    *)
(* they are when it commits.                                               *)
CountsExact ==
  \A s \in Slots : \A x \in {txn[s]} :
    x.at = "downstream" =>
      /\ x.rows = Dependents(execs[x.key].task)
      /\ \A d \in DOMAIN x.count : x.count[d] = Remaining(Seen(x), d)

OnceInv == ActiveIsCurrent /\ CountsExact

LEMMA AttemptCommitIsNext ==
  ASSUME TypeOK, TxnInv, OnceInv, NEW s \in Slots, AttemptCommit(s)
  PROVE  /\ txn[s].key \in DOMAIN execs
         /\ \/ MarkExecutionStarted(txn[s].key) /\ CommitStart(s)
            \/ RenewLease(txn[s].key) /\ CommitRenew(s)
            \/ CompleteExecution(txn[s].key) /\ CommitComplete(s)
            \/ FailExecution(txn[s].key) /\ CommitFail(s)
            \/ CancelExecution(txn[s].key) /\ CommitCancel(s)
<1> DEFINE x == txn[s]
           k == x.key
<1>1. CASE CommitStart(s) \/ CommitRenew(s)
  <2>1. x.op \in {"start", "renew"} /\ x.at = "commit" /\ AttemptTxn(x)
    BY <1>1, AttemptPlace DEF CommitStart, CommitRenew, AttemptCalls
  <2>2. k \in DOMAIN execs /\ ExecMatches(x.op, k) /\ x.runtime = execs[k].runtime
    BY <2>1 DEF AttemptTxn
  <2>3. IsCurrentAttempt(k)
    BY <2>1, <2>2 DEF ExecMatches, IsActive, ActiveStatus, OnceInv, ActiveIsCurrent
  <2>4. CASE CommitStart(s)
    <3>1. execs[k].status = "claimed"
      BY <2>2, <2>4 DEF CommitStart, ExecMatches
    <3> QED
      BY <2>2, <2>3, <2>4, <3>1 DEF CommitStart, MarkExecutionStarted
  <2>5. CASE CommitRenew(s)
    BY <2>2, <2>3, <2>5 DEF CommitRenew, RenewLease
  <2> QED
    BY <1>1, <2>4, <2>5
<1>2. CASE CommitComplete(s) \/ CommitFail(s) \/ CommitCancel(s)
  <2>1. x.op \in {"complete", "fail", "cancel"} /\ x.at \in {"dependents", "downstream", "commit"}
    BY <1>2, EndCommits
  <2>2. /\ k \in DOMAIN execs /\ IsCurrentAttempt(k) /\ x.hit
        /\ UnloadingRuntime(x) = SetUnloading(k)
    BY <2>1, EndFacts DEF OnceInv, ActiveIsCurrent, IsActive, IsCurrentAttempt
  <2>3. CASE CommitComplete(s)
    <3> DEFINE t  == execs[k].task
               tb == EndTask(k, "completed")
               c  == x.count
    <3>1. Seen(x) = tb
      BY <2>2 DEF Seen
    <3>2. /\ x.rows = Dependents(t)
          /\ \A d \in DOMAIN c : c[d] = Remaining(tb, d)
      BY <2>3, <3>1 DEF OnceInv, CountsExact, CommitComplete
    <3>3. DOMAIN c = Dependents(t) /\ Dependents(t) \subseteq Tasks
      BY <2>3, <3>2, CountedRows DEF CommitComplete, Dependents
    <3>4. task' = [d \in Tasks |-> IF d \in DOMAIN c THEN [tb[d] EXCEPT !.blocked = c[d]] ELSE tb[d]]
      BY <2>3, <3>1 DEF CommitComplete
    <3>5. announced' = announced \cup {d \in DOMAIN c : c[d] = 0}
      BY <2>3 DEF CommitComplete
    <3>6. execs' = EndExec(k, "completed") /\ runtime' = SetUnloading(k)
          /\ UNCHANGED <<deps, active, submitted>>
      BY <2>2, <2>3 DEF CommitComplete
    <3> HIDE DEF c
    <3>7. task' = [d \in Tasks |-> IF d \in Dependents(t)
                                   THEN [tb[d] EXCEPT !.blocked = Remaining(tb, d)]
                                   ELSE tb[d]]
      <4> HIDE DEF tb
      <4> QED
        BY <3>2, <3>3, <3>4
    <3>8. announced' = announced \cup {d \in Dependents(t) : Remaining(tb, d) = 0}
      <4> HIDE DEF tb
      <4> QED
        BY <3>2, <3>3, <3>5
    <3>9. CompleteExecution(k)
      BY <2>2, <3>6, <3>7, <3>8 DEF CompleteExecution
    <3> QED
      BY <2>2, <2>3, <3>9
  <2>4. CASE CommitFail(s)
    BY <2>2, <2>4 DEF CommitFail, EndedTask, FailExecution
  <2>5. CASE CommitCancel(s)
    BY <2>2, <2>5 DEF CommitCancel, EndedTask, CancelExecution
  <2> QED
    BY <1>2, <2>3, <2>4, <2>5
<1> QED
  BY <1>1, <1>2 DEF AttemptCommit

(* A transaction that has found the dependents was there before the step,  *)
(* or takes it.                                                            *)
Counting(o) ==
  FindDependents(o) \/ \E d \in Tasks : TakeDependent(o, d) \/ CountBlockers(o, d)

LEMMA OtherSlots ==
  ASSUME TypeOK, TxnInv, [TNext]_tvars, NEW o \in Slots, txn'[o].at = "downstream"
  PROVE  \/ Counting(o)
         \/ /\ txn'[o] = txn[o]
            /\ \A s \in Slots : AttemptCommit(s) => s # o
<1>1. txn \in [Slots -> TxnRow]
  BY DEF TxnInv
<1>2. ASSUME NEW s \in Slots, Closes(s) PROVE s # o /\ txn'[o] = txn[o]
  <2>1. txn'[s] = NoTxn /\ \A q \in Slots \ {s} : txn'[q] = txn[q]
    BY <1>1, <1>2 DEF Closes
  <2>2. NoTxn.at # "downstream"
    BY DEF NoTxn
  <2> QED
    BY <2>1, <2>2
<1>3. \A s \in Slots : AttemptCommit(s) => s # o
  BY <1>2 DEF AttemptCommit, CommitStart, CommitRenew, CommitComplete, CommitFail, CommitCancel
<1>4. ASSUME NEW s \in Slots, Counting(s) PROVE Counting(o) \/ txn'[o] = txn[o]
  <2>1. \A q \in Slots \ {s} : txn'[q] = txn[q]
    BY <1>1, <1>4 DEF Counting, FindDependents, TakeDependent, CountBlockers
  <2> QED
    BY <1>4, <2>1
<1>5. ASSUME NEW s \in Slots, NEW y, txn' = [txn EXCEPT ![s] = y], y.at # "downstream"
      PROVE  txn'[o] = txn[o]
  BY <1>1, <1>5
<1>6. ASSUME NEW s \in Slots, NEW place, place # "downstream", Goes(s, place)
      PROVE  txn'[o] = txn[o]
  <2>1. [txn[s] EXCEPT !.at = place].at = place
    BY <1>1 DEF TxnRow
  <2> QED
    BY <1>5, <1>6, <2>1 DEF Goes
<1>7. ASSUME NEW s \in Slots, NEW op \in AttemptCalls, NEW k \in DOMAIN execs,
             BeginAttemptCall(s, op, k)
      PROVE  txn'[o] = txn[o]
  <2> DEFINE y == [NoTxn EXCEPT !.op = op, !.at = "exec", !.key = k, !.runtime = execs[k].runtime]
  <2>1. txn' = [txn EXCEPT ![s] = y] /\ y.at # "downstream"
    BY <1>7 DEF BeginAttemptCall, Opens, NoTxn
  <2> QED
    BY <1>5, <2>1
<1>8. ASSUME NEW s \in Slots, TakeExec(s) \/ TakeTask(s) \/ TakeRuntime(s)
      PROVE  txn'[o] = txn[o]
  <2> DEFINE x == txn[s]
  <2>1. x \in TxnRow
    BY <1>1
  <2>2. CASE TakeExec(s)
    <3> DEFINE y == [x EXCEPT !.execs = {x.key},
                              !.at = IF x.op \in {"start", "finish"} THEN "runtime" ELSE "task"]
    <3>1. Closes(s) \/ txn' = [txn EXCEPT ![s] = y]
      BY <2>2 DEF TakeExec
    <3>2. y.at # "downstream"
      <4> HIDE DEF x
      <4> QED
        BY <2>1 DEF TxnRow
    <3> QED
      BY <1>2, <1>5, <3>1, <3>2
  <2>3. CASE TakeTask(s)
    <3> DEFINE y == [x EXCEPT !.tasks = {execs[x.key].task}, !.hit = TRUE, !.at = "runtime"]
    <3>1. Goes(s, "runtime") \/ txn' = [txn EXCEPT ![s] = y]
      BY <2>3 DEF TakeTask
    <3>2. y.at # "downstream"
      <4> HIDE DEF x
      <4> QED
        BY <2>1 DEF TxnRow
    <3> QED
      BY <1>5, <1>6, <3>1, <3>2
  <2>4. CASE TakeRuntime(s)
    <3> DEFINE next == IF x.op = "complete" THEN "dependents" ELSE "commit"
               y == [x EXCEPT !.runtimes = {x.runtime}, !.at = next]
    <3>1. Closes(s) \/ Goes(s, next) \/ txn' = [txn EXCEPT ![s] = y]
      BY <2>4 DEF TakeRuntime
    <3>2. y.at # "downstream" /\ next # "downstream"
      <4> HIDE DEF x
      <4> QED
        BY <2>1 DEF TxnRow
    <3> HIDE DEF next
    <3> QED
      BY <1>2, <1>5, <1>6, <3>1, <3>2
  <2> QED
    BY <1>8, <2>2, <2>3, <2>4
<1>9. ASSUME NEW s \in Slots, NEW r \in Runtimes, BeginClaim(s, r) PROVE txn'[o] = txn[o]
  <2> DEFINE y == [NoTxn EXCEPT !.op = "claim", !.at = "pick", !.runtime = r, !.runtimes = {r}]
  <2>1. txn' = [txn EXCEPT ![s] = y] /\ y.at # "downstream"
    BY <1>9 DEF BeginClaim, NoTxn
  <2> QED
    BY <1>5, <2>1
<1>10. ASSUME NEW s \in Slots, NEW t \in Tasks, PickTask(s, t) PROVE txn'[o] = txn[o]
  <2> DEFINE x == txn[s]
             y(k, c) == [x EXCEPT !.at = "commit", !.tasks = {t}, !.key = k, !.card = c]
             z == [x EXCEPT !.at = "commit", !.tasks = {t}]
  <2>1. txn' = [txn EXCEPT ![s] = z] \/ \E k, c : txn' = [txn EXCEPT ![s] = y(k, c)]
    BY <1>10 DEF PickTask
  <2>2. z.at # "downstream" /\ \A k, c : y(k, c).at # "downstream"
    <3>1. x \in TxnRow
      BY <1>1
    <3> HIDE DEF x
    <3> QED
      BY <3>1 DEF TxnRow
  <2> HIDE DEF y, z
  <2> QED
    BY <1>5, <2>1, <2>2
<1>11. ASSUME NEW s \in Slots, BeginReclaim(s) PROVE txn'[o] = txn[o]
  <2> DEFINE K == Expired(s)
             y == [NoTxn EXCEPT !.op = "reclaim", !.at = "runtime", !.execs = K,
                                !.tasks = {execs[k].task : k \in K}, !.left = K]
  <2>1. txn' = [txn EXCEPT ![s] = y] /\ y.at # "downstream"
    BY <1>11 DEF BeginReclaim, NoTxn
  <2> QED
    BY <1>5, <2>1
<1>12. ASSUME NEW s \in Slots, NEW k \in DOMAIN execs, TakeReclaimed(s, k)
       PROVE  txn'[o] = txn[o]
  <2> DEFINE x == txn[s]
             y == [x EXCEPT !.left = x.left \ {k}, !.runtimes = x.runtimes \cup {execs[k].runtime}]
             z == [x EXCEPT !.left = x.left \ {k}]
  <2>1. txn' = [txn EXCEPT ![s] = y] \/ txn' = [txn EXCEPT ![s] = z]
    BY <1>12 DEF TakeReclaimed
  <2>2. x \in TxnRow /\ x.at = "runtime"
    BY <1>1, <1>12, ReclaimPlace DEF TakeReclaimed, ReclaimTxn
  <2>3. y.at # "downstream" /\ z.at # "downstream"
    <3> HIDE DEF x
    <3> QED
      BY <2>2 DEF TxnRow
  <2> QED
    BY <1>5, <2>1, <2>3
<1>13. ASSUME NEW s \in Slots, NEW p \in Plans, BeginPublish(s, p) PROVE txn'[o] = txn[o]
  <2> DEFINE y == [NoTxn EXCEPT !.op = "publish", !.at = "row", !.plan = p, !.n = 1]
  <2>1. txn' = [txn EXCEPT ![s] = y] /\ y.at # "downstream"
    BY <1>13 DEF BeginPublish, NoTxn
  <2> QED
    BY <1>5, <2>1
<1>14. ASSUME NEW s \in Slots, UpsertRow(s) PROVE txn'[o] = txn[o]
  <2> DEFINE x == txn[s]
             t == x.plan[x.n].id
             y == [x EXCEPT !.n = x.n + 1, !.tasks = x.tasks \cup {t}]
  <2>1. txn' = [txn EXCEPT ![s] = y] /\ x.at = "row" /\ x \in TxnRow
    BY <1>1, <1>14 DEF UpsertRow
  <2>2. y.at # "downstream"
    <3> HIDE DEF x, t
    <3> QED
      BY <2>1 DEF TxnRow
  <2> QED
    BY <1>5, <2>1, <2>2
<1> HIDE DEF TxnInv
<1>16. ASSUME NEW s \in Slots, Statement(s) PROVE Counting(o) \/ txn'[o] = txn[o]
  BY <1>2, <1>4, <1>7, <1>8, <1>9, <1>10, <1>11, <1>12, <1>13, <1>14, <1>16
  DEF Statement, Counting, RollBack
<1>17. ASSUME NEW s \in Slots,
              AttemptCommit(s) \/ CommitClaim(s) \/ CommitReclaim(s) \/ CommitFinish(s)
                \/ CommitPublish(s)
       PROVE  txn'[o] = txn[o]
  BY <1>2, <1>17
  DEF AttemptCommit, CommitStart, CommitRenew, CommitComplete, CommitFail, CommitCancel,
      CommitClaim, CommitReclaim, CommitFinish, CommitPublish
<1>18. ASSUME \/ \E s \in Slots, r \in Runtimes : Registers(s, r) \/ Stops(s, r)
              \/ \E k \in DOMAIN execs : LeaseLapses(k)
              \/ \E c \in Cards : Changes(c)
              \/ UNCHANGED tvars
       PROVE  txn'[o] = txn[o]
  BY <1>18 DEF Registers, Stops, LeaseLapses, Changes, tvars
<1> QED
  BY <1>3, <1>16, <1>17, <1>18 DEF TNext, Statement, AttemptCommit

(* A plan published as a whole brings blockers for its own tasks alone, so *)
(* that the blockers and the dependents of a task that is there stay.      *)
LEMMA DepsStay ==
  ASSUME PublishedOnce, PublishedAsWhole, TypeOK, BlockerInv, [Next]_vars,
         NEW d \in Tasks, NEW b \in Tasks, Published(d) \/ Published(b)
  PROVE  <<d, b>> \in deps' <=> <<d, b>> \in deps
<1>1. ASSUME NEW p \in Plans, Publish(p) PROVE <<d, b>> \notin PlanDeps(p)
  <2> SUFFICES ASSUME <<d, b>> \in PlanDeps(p) PROVE FALSE
    OBVIOUS
  <2>1. PICK i \in DOMAIN p : /\ p[i].id = d
                             /\ \E j \in DOMAIN p[i].blockedBy : p[i].blockedBy[j] = b
    BY DEF PlanDeps
  <2>2. d \in PlanTasks(p) /\ b \in PlanTasks(p)
    BY <2>1 DEF PlanTasks, PublishedAsWhole
  <2> QED
    BY <1>1, <2>2, FreshPlan DEF BlockerInv
<1>2. ASSUME NEW p \in Plans, Publish(p) PROVE deps' = deps \cup PlanDeps(p)
  BY <1>2 DEF Publish
<1>3. CASE deps' = deps
  BY <1>3
<1> QED
  BY <1>1, <1>2, <1>3
  DEF Next, vars, RegisterRuntime, StopRuntime, ChangeCardStatus, Claim, ClaimWithoutCard,
      MarkExecutionStarted, RenewLease, LeaseRunsOut, CompleteExecution, FailExecution,
      CancelExecution, FinishCardUnload, ReclaimLeasedTasks

(* A completed task stays completed, and a task completes only when its     *)
(* completion commits.                                                     *)
LEMMA CompletedStay ==
  ASSUME PublishedOnce, TypeOK, SchedulerInv, BlockerInv, [Next]_vars,
         NEW b \in Tasks, task[b].status = "completed"
  PROVE  task'[b].status = "completed"
<1>1. ASSUME NEW p \in submitted' \ submitted, b \in PlanTasks(p) PROVE FALSE
  <2>1. submitted' = submitted \/ \E q \in Plans : Publish(q)
    BY DEF Next, vars, RegisterRuntime, StopRuntime, ChangeCardStatus, Claim, ClaimWithoutCard,
           MarkExecutionStarted, RenewLease, LeaseRunsOut, CompleteExecution, FailExecution,
           CancelExecution, FinishCardUnload, ReclaimLeasedTasks
  <2>2. PICK q \in Plans : Publish(q)
    BY <1>1, <2>1
  <2>3. submitted' = submitted \cup {q}
    BY <2>2 DEF Publish
  <2>4. p = q
    BY <1>1, <2>3
  <2> QED
    BY <1>1, <2>2, <2>4, FreshPlan DEF BlockerInv, Published
<1> QED
  BY <1>1, CompletionStep DEF SchedulerInv

LEMMA OnlyCommitsComplete ==
  ASSUME TypeOK, SchedulerInv, TxnInv, OnceInv, [TNext]_tvars,
         NEW b \in Tasks, task[b].status # "completed", task'[b].status = "completed"
  PROVE  \E s \in Slots : /\ CommitComplete(s) /\ AttemptCommit(s)
                          /\ b = execs[txn[s].key].task
<1>1. UNCHANGED vars => FALSE
  BY DEF vars
<1>2. PICK s \in Slots : AttemptCommit(s)
  BY <1>1, StepKinds DEF NothingCompletes, SchedulerInv
<1> DEFINE k == txn[s].key
<1>3. /\ k \in DOMAIN execs
      /\ \/ MarkExecutionStarted(k) \/ RenewLease(k)
         \/ CompleteExecution(k) /\ CommitComplete(s)
         \/ FailExecution(k) \/ CancelExecution(k)
  BY <1>2, AttemptCommitIsNext
<1>4. ~ (MarkExecutionStarted(k) \/ RenewLease(k))
  BY DEF MarkExecutionStarted, RenewLease
<1>5. ASSUME FailExecution(k) \/ CancelExecution(k) PROVE FALSE
  <2>1. PICK ts : task' = EndTask(k, ts) /\ ts # "completed"
    BY <1>5 DEF FailExecution, CancelExecution, StatusAfterLoss
  <2> QED
    BY <1>3, <2>1, EndRowsStep
<1>6. CompleteExecution(k) => b = execs[k].task
  BY <1>3, CompletedRows
<1> QED
  BY <1>2, <1>3, <1>4, <1>5, <1>6

(* While a completion holds the rows of the dependents it found, no other   *)
(* transaction changes what it counted: whoever completes another blocker  *)
(* of one of them holds that row too.                                      *)
LEMMA CountStays ==
  ASSUME PublishedOnce, PublishedAsWhole, TypeOK, SchedulerInv, TxnInv, OnceInv, BlockerInv,
         [TNext]_tvars, [Next]_vars, NEW o \in Slots, NEW x, x = txn[o],
         x.at = "downstream", \A s \in Slots : AttemptCommit(s) => s # o
  PROVE  /\ x.rows = Dependents(execs[x.key].task)'
         /\ \A d \in DOMAIN x.count : x.count[d] = Remaining(Seen(x), d)'
<1>1. /\ x.rows = Dependents(execs[x.key].task)
      /\ \A d \in DOMAIN x.count : x.count[d] = Remaining(Seen(x), d)
  BY DEF OnceInv, CountsExact
<1>2. x.op = "complete" /\ DOMAIN x.count \subseteq x.rows \cap x.tasks
  BY CountedRows
<1>3. /\ x.key \in DOMAIN execs /\ x.hit
      /\ execs[x.key].status \in ActiveStatus
  BY <1>2, EndFacts DEF OnceInv, ActiveIsCurrent, IsActive, IsCurrentAttempt
<1>4. PICK k \in DOMAIN execs : k = x.key
  BY <1>3
<1>5. PICK t \in Tasks : t = execs[k].task /\ execs'[k].task = t /\ k \in DOMAIN execs'
  BY <1>4, NextKeepsExecs DEF ExecsKept, TypeOK, ExecRow
<1>6. TypeOK'
  BY NextTypeOK
<1>7. Published(t)
  BY <1>4, <1>5 DEF BlockerInv, PublicationInv
<1>8. x.rows = Dependents(execs[x.key].task)'
  <2>1. \A d \in Tasks : <<d, t>> \in deps' <=> <<d, t>> \in deps
    BY <1>7, DepsStay
  <2> QED
    BY <1>1, <1>4, <1>5, <2>1 DEF Dependents
<1>9. \A b \in Tasks : Seen(x)[b].status = IF b = t THEN "completed" ELSE task[b].status
  <2>1. task[t] \in TaskRow /\ task \in [Tasks -> TaskRow]
    BY DEF TypeOK
  <2>2. Seen(x) = [task EXCEPT ![t] = [task[t] EXCEPT !.status = "completed", !.owner = NoRuntime]]
    BY <1>3, <1>4, <1>5 DEF Seen, EndTask
  <2> QED
    BY <2>1, <2>2 DEF TaskRow
<1>10. \A b \in Tasks : Seen(x)'[b].status = IF b = t THEN "completed" ELSE task'[b].status
  <2>1. task'[t] \in TaskRow /\ task' \in [Tasks -> TaskRow]
    BY <1>6 DEF TypeOK
  <2>2. Seen(x)' = [task' EXCEPT ![t] = [task'[t] EXCEPT !.status = "completed", !.owner = NoRuntime]]
    BY <1>3, <1>4, <1>5 DEF Seen, EndTask
  <2> QED
    BY <2>1, <2>2 DEF TaskRow
<1>11. ASSUME NEW d \in DOMAIN x.count PROVE Remaining(Seen(x), d)' = Remaining(Seen(x), d)
  <2>1. d \in Tasks /\ <<d, t>> \in deps /\ d \in x.tasks
    BY <1>1, <1>2, <1>4, <1>5 DEF Dependents
  <2>2. Published(d)
    BY <2>1 DEF BlockerInv, PublicationInv
  <2>3. ASSUME NEW b \in Tasks, <<d, b>> \in deps
        PROVE  task[b].status = "completed" <=> task'[b].status = "completed"
    <3>1. task[b].status = "completed" => task'[b].status = "completed"
      BY CompletedStay
    <3>2. ASSUME NEW s \in Slots, CommitComplete(s), AttemptCommit(s), b = execs[txn[s].key].task
          PROVE  FALSE
      <4>1. txn[s].rows = Dependents(b) /\ txn[s].rows \subseteq txn[s].tasks
        BY <3>2 DEF CommitComplete, OnceInv, CountsExact, DependentsToLock
      <4>2. d \in txn[s].tasks /\ s # o
        BY <2>1, <2>3, <3>2, <4>1 DEF Dependents
      <4> QED
        BY <2>1, <4>2 DEF TxnInv, LocksExclusive
    <3> QED
      BY <3>1, <3>2, OnlyCommitsComplete
  <2>4. \A b \in Tasks : <<d, b>> \in deps' <=> <<d, b>> \in deps
    BY <2>1, <2>2, DepsStay
  <2> DEFINE before == {b \in Tasks : <<d, b>> \in deps /\ Seen(x)[b].status # "completed"}
             after  == {b \in Tasks : <<d, b>> \in deps' /\ Seen(x)'[b].status # "completed"}
  <2>5. after = before
    BY <1>9, <1>10, <2>3, <2>4
  <2>6. Remaining(Seen(x), d) = Cardinality(before) /\ Remaining(Seen(x), d)' = Cardinality(after)
    BY DEF Remaining
  <2> QED
    BY <2>5, <2>6
<1> QED
  BY <1>1, <1>8, <1>11

LEMMA CountsStep ==
  ASSUME PublishedOnce, PublishedAsWhole, TypeOK, SchedulerInv, TxnInv, OnceInv, BlockerInv,
         [TNext]_tvars, [Next]_vars
  PROVE  CountsExact'
<1> SUFFICES ASSUME NEW o \in Slots, NEW y, y = txn'[o], y.at = "downstream"
             PROVE  /\ y.rows = Dependents(execs[y.key].task)'
                    /\ \A d \in DOMAIN y.count : y.count[d] = Remaining(Seen(y), d)'
  BY DEF CountsExact
<1>1. txn \in [Slots -> TxnRow]
  BY DEF TxnInv
<1>2. CASE txn'[o] = txn[o] /\ \A s \in Slots : AttemptCommit(s) => s # o
  BY <1>2, CountStays
<1>3. CASE Counting(o)
  <2> DEFINE x == txn[o]
             row == execs[x.key].task
  <2>1. x \in TxnRow
    BY <1>1
  <2>2. UNCHANGED vars
    BY <1>3 DEF Counting, FindDependents, TakeDependent, CountBlockers
  <2>3. Dependents(execs[y.key].task)' = Dependents(execs[y.key].task)
    BY <2>2 DEF vars, Dependents
  <2>4. Seen(y)' = Seen(y) /\ \A d : Remaining(Seen(y), d)' = Remaining(Seen(y), d)
    BY <2>2 DEF vars, Seen, EndTask, Remaining
  <2>5. CASE FindDependents(o)
    <3> DEFINE D == Dependents(row)
    <3>1. y = [x EXCEPT !.at = "downstream", !.rows = D] /\ x.at = "dependents"
      BY <1>1, <2>5 DEF FindDependents
    <3>2. DOMAIN x.count = {}
      BY <3>1, AttemptPlace
    <3>3. y.rows = D /\ y.count = x.count /\ y.key = x.key
      <4> HIDE DEF D, x
      <4> QED
        BY <2>1, <3>1 DEF TxnRow
    <3> QED
      BY <2>3, <3>2, <3>3
  <2>6. ASSUME NEW d \in Tasks, TakeDependent(o, d) \/ CountBlockers(o, d)
        PROVE  /\ x.at = "downstream"
               /\ y.rows = x.rows /\ y.key = x.key /\ y.hit = x.hit
               /\ \/ y.count = x.count
                  \/ y.count = [e \in DOMAIN x.count \cup {d} |->
                                  IF e = d THEN Remaining(Seen(x), d) ELSE x.count[e]]
    <3> DEFINE c == [e \in DOMAIN x.count \cup {d} |->
                       IF e = d THEN Remaining(Seen(x), d) ELSE x.count[e]]
    <3>1. \/ y = [x EXCEPT !.tasks = x.tasks \cup {d}]
          \/ y = [x EXCEPT !.count = c]
      BY <1>1, <2>6 DEF TakeDependent, CountBlockers
    <3>2. x.at = "downstream"
      BY <2>6 DEF TakeDependent, CountBlockers
    <3> HIDE DEF c, x
    <3>3. y.rows = x.rows /\ y.key = x.key /\ y.hit = x.hit /\ (y.count = x.count \/ y.count = c)
      BY <2>1, <3>1 DEF TxnRow
    <3> QED
      BY <3>2, <3>3 DEF c
  <2>7. ASSUME NEW d \in Tasks, TakeDependent(o, d) \/ CountBlockers(o, d)
        PROVE  /\ y.rows = Dependents(execs[y.key].task)
               /\ \A e \in DOMAIN y.count : y.count[e] = Remaining(Seen(y), e)
    <3>1. /\ x.rows = Dependents(execs[x.key].task)
          /\ \A e \in DOMAIN x.count : x.count[e] = Remaining(Seen(x), e)
      BY <2>6, <2>7 DEF OnceInv, CountsExact
    <3>2. Seen(y) = Seen(x)
      BY <2>6, <2>7 DEF Seen
    <3> QED
      BY <2>6, <2>7, <3>1, <3>2
  <2> QED
    BY <1>3, <2>3, <2>4, <2>5, <2>7 DEF Counting
<1> QED
  BY <1>2, <1>3, OtherSlots

(* Published once and as a whole, the tables change statement by statement  *)
(* as they do in DagScheduler.                                             *)
LEMMA TxnStepIsNext ==
  ASSUME TypeOK, SchedulerInv, TxnInv, OnceInv, [TNext]_tvars
  PROVE  [Next]_vars
<1>1. ASSUME NEW s \in Slots, AttemptCommit(s) PROVE Next
  BY <1>1, AttemptCommitIsNext DEF Next
<1> QED
  BY <1>1, StepKinds DEF SchedulerInv

TOnceInv == TypeOK /\ SchedulerInv /\ TxnInv /\ BlockerInv /\ OnceInv

LEMMA OnceInvCorrect ==
  ASSUME PublishedOnce, PublishedAsWhole
  PROVE  TSpec => []TOnceInv
<1>1. TInit => BlockerInv /\ OnceInv
  <2>1. TInit => BlockerInv
    BY DEF TInit, Init, BlockerInv, PublicationInv, Published, UnblockedMeansDone,
           StartedAfterBlockers
  <2>2. TInit => ActiveIsCurrent
    BY DEF TInit, Init, ActiveIsCurrent
  <2>3. NoTxn.at # "downstream"
    BY DEF NoTxn
  <2>4. TInit => CountsExact
    BY <2>3 DEF TInit, CountsExact
  <2> QED
    BY <2>1, <2>2, <2>4 DEF OnceInv
<1>2. ASSUME TOnceInv, [TNext]_tvars PROVE TOnceInv'
  <2>1. [Next]_vars
    BY <1>2, TxnStepIsNext DEF TOnceInv
  <2>2. TypeOK' /\ SchedulerInv' /\ TxnInv'
    BY <1>2, TxnStep DEF TOnceInv
  <2>3. BlockerInv' /\ ActiveIsCurrent'
    BY <1>2, <2>1, BlockersStep, ActiveStep DEF TOnceInv, OnceInv
  <2>4. CountsExact'
    BY <1>2, <2>1, CountsStep DEF TOnceInv
  <2> QED
    BY <2>1, <2>2, <2>3, <2>4 DEF TOnceInv, OnceInv
<1> QED
  BY <1>1, <1>2, TxnInvCorrect, PTL DEF TSpec, TOnceInv

(* Interleaved statement by statement, with roll-backs, the transactions   *)
(* change the committed rows as the operations of DagScheduler do in one   *)
(* step, as long as no task is published again nor published apart from a  *)
(* blocker of it.                                                          *)
THEOREM SerializableCorrect ==
  ASSUME PublishedOnce, PublishedAsWhole
  PROVE  TSpec => Serializable
<1>1. TInit => Init
  BY DEF TInit
<1>2. TOnceInv /\ [TNext]_tvars => [Next]_vars
  BY TxnStepIsNext DEF TOnceInv
<1> QED
  BY <1>1, <1>2, OnceInvCorrect, PTL DEF TSpec, Serializable, Spec

(* Between the commits of the statements' transactions, a counter is zero  *)
(* only when all blockers have completed ...                               *)
THEOREM TxnUnblockedMeansDoneCorrect ==
  ASSUME PublishedOnce, PublishedAsWhole
  PROVE  TSpec => []UnblockedMeansDone
BY SerializableCorrect, UnblockedMeansDoneCorrect, PTL DEF Serializable

(* ... and no task is started before.                                      *)
THEOREM TxnStartedAfterBlockersCorrect ==
  ASSUME PublishedOnce, PublishedAsWhole
  PROVE  TSpec => []StartedAfterBlockers
BY SerializableCorrect, StartedAfterBlockersCorrect, PTL DEF Serializable
-----------------------------------------------------------------------------
(* blocked_by_count.  A task is published with the length of its blockedBy *)
(* list, which is the number of its blockers when none is listed twice ...  *)
LEMMA ListedBlockers ==
  ASSUME NEW n \in Nat, NEW L \in [1..n -> Tasks],
         \A j, m \in 1..n : L[j] = L[m] => j = m
  PROVE  Cardinality({L[j] : j \in 1..n}) = n
<1> DEFINE S == {L[j] : j \in 1..n}
<1>1. L \in [1..n -> S]
  OBVIOUS
<1>2. L \in Bijection(1..n, S)
  BY <1>1 DEF Bijection, Injection, Surjection, IsInjective
<1> QED
  BY <1>2, FS_CountingElements DEF ExistsBijection

(* ... and has all of them before it.                                      *)
LEMMA PublishedCount ==
  ASSUME PublishedOnce, PublishedAsWhole, BlockersListedOnce, TypeOK, BlockerInv,
         NEW p \in Plans, Publish(p), NEW t \in PlanTasks(p)
  PROVE  task'[t].blocked = Remaining(task, t)'
<1>1. PICK i \in DOMAIN p : p[i].id = t
  BY DEF PlanTasks
<1>2. PICK L : L = p[i].blockedBy
  OBVIOUS
<1>3. LastRow(p, t) = i /\ t \in Tasks
  BY <1>1, FreshPlan, PlanTasksType DEF BlockerInv
<1>4. L \in Seq(Tasks)
  BY <1>2, <1>3, PlanRowType
<1> DEFINE n == Len(L)
<1>5. n \in Nat /\ L \in [1..n -> Tasks] /\ DOMAIN L = 1..n
  BY <1>4
<1>6. \A j, m \in 1..n : L[j] = L[m] => j = m
  BY <1>1, <1>2, <1>5 DEF BlockersListedOnce
<1>7. task'[t].blocked = n
  BY <1>2, <1>3 DEF Publish
<1>8. \A b \in PlanTasks(p) : task'[b].status = "pending"
  BY PlanTasksType DEF Publish
<1>9. \A b \in Tasks : <<t, b>> \in deps' <=> \E j \in 1..n : L[j] = b
  <2>1. \A b \in Tasks : <<t, b>> \notin deps
    BY FreshPlan DEF BlockerInv, PublicationInv
  <2>2. \A b \in Tasks : <<t, b>> \in PlanDeps(p) <=> \E j \in 1..n : L[j] = b
    <3>1. ASSUME NEW b \in Tasks, <<t, b>> \in PlanDeps(p) PROVE \E j \in 1..n : L[j] = b
      <4>1. PICK k \in DOMAIN p : p[k].id = t /\ \E j \in DOMAIN p[k].blockedBy : p[k].blockedBy[j] = b
        BY <3>1 DEF PlanDeps
      <4>2. k = i
        BY <1>1, <4>1 DEF PublishedOnce
      <4> QED
        BY <1>2, <1>5, <4>1, <4>2
    <3>2. ASSUME NEW b \in Tasks, NEW j \in 1..n, L[j] = b PROVE <<t, b>> \in PlanDeps(p)
      BY <1>1, <1>2, <1>3, <1>5, <3>2 DEF PlanDeps
    <3> QED
      BY <3>1, <3>2
  <2> QED
    BY <2>1, <2>2 DEF Publish
<1>10. \A j \in 1..n : L[j] \in PlanTasks(p)
  BY <1>1, <1>2, <1>5 DEF PublishedAsWhole
<1>11. {b \in Tasks : <<t, b>> \in deps' /\ task'[b].status # "completed"} = {L[j] : j \in 1..n}
  BY <1>5, <1>8, <1>9, <1>10
<1>12. Cardinality({L[j] : j \in 1..n}) = n
  BY <1>5, <1>6, ListedBlockers
<1> QED
  BY <1>7, <1>11, <1>12 DEF Remaining

(* Two tables with the same completed tasks give the same count.           *)
LEMMA SameCount ==
  ASSUME NEW d \in Tasks,
         \A b \in Tasks : <<d, b>> \in deps' <=> <<d, b>> \in deps,
         \A b \in Tasks : <<d, b>> \in deps =>
           (task'[b].status = "completed" <=> task[b].status = "completed")
  PROVE  Remaining(task, d)' = Remaining(task, d)
<1> DEFINE before == {b \in Tasks : <<d, b>> \in deps /\ task[b].status # "completed"}
           after  == {b \in Tasks : <<d, b>> \in deps' /\ task'[b].status # "completed"}
<1>1. after = before
  OBVIOUS
<1>2. Remaining(task, d) = Cardinality(before) /\ Remaining(task, d)' = Cardinality(after)
  BY DEF Remaining
<1> QED
  BY <1>1, <1>2

(* Only publications and completions write the counters or make a task     *)
(* completed.                                                              *)
LEMMA CountersKept ==
  ASSUME TypeOK, [Next]_vars, NEW d \in Tasks
  PROVE  \/ \E p \in Plans : Publish(p)
         \/ \E k \in DOMAIN execs : CompleteExecution(k)
         \/ task'[d].blocked = task[d].blocked /\ NothingCompletes
<1>1. task[d] \in TaskRow /\ task \in [Tasks -> TaskRow]
  BY DEF TypeOK
<1>2. ASSUME NEW r \in Runtimes, NEW t \in Tasks, Claim(r, t) \/ ClaimWithoutCard(r, t)
      PROVE  task'[d].blocked = task[d].blocked /\ NothingCompletes
  <2>1. NothingCompletes
    BY <1>2, NothingCompletesBy
  <2>2. ASSUME NEW k, task' = [task EXCEPT ![t] = [@ EXCEPT !.status = "in_progress",
                                                            !.owner = r, !.key = k]]
        PROVE  task'[d].blocked = task[d].blocked
    BY <1>1, <2>2 DEF TaskRow
  <2>3. ASSUME task' = [task EXCEPT ![t] = [@ EXCEPT !.status = "failed", !.owner = NoRuntime]]
        PROVE  task'[d].blocked = task[d].blocked
    BY <1>1, <2>3 DEF TaskRow
  <2>4. CASE Claim(r, t)
    BY <2>1, <2>2, <2>4 DEF Claim
  <2>5. CASE ClaimWithoutCard(r, t)
    BY <2>1, <2>3, <2>5 DEF ClaimWithoutCard
  <2> QED
    BY <1>2, <2>4, <2>5
<1>3. ASSUME NEW k \in DOMAIN execs, FailExecution(k) \/ CancelExecution(k)
      PROVE  task'[d].blocked = task[d].blocked /\ NothingCompletes
  <2>1. PICK ts : task' = EndTask(k, ts) /\ ts # "completed"
    BY <1>3 DEF FailExecution, CancelExecution, StatusAfterLoss
  <2>2. NothingCompletes
    BY <2>1, EndRowsStep DEF NothingCompletes
  <2> QED
    BY <1>1, <2>1, <2>2 DEF EndTask, TaskRow
<1>4. ASSUME NEW S \in SUBSET DOMAIN execs, ReclaimLeasedTasks(S)
      PROVE  task'[d].blocked = task[d].blocked /\ NothingCompletes
  <2>1. NothingCompletes
    BY <1>4, NothingCompletesBy
  <2>2. \/ task'[d] = task[d]
        \/ \E z : task'[d] = [[task[d] EXCEPT !.status = z] EXCEPT !.owner = NoRuntime]
    BY <1>4 DEF ReclaimLeasedTasks
  <2> QED
    BY <1>1, <2>1, <2>2 DEF TaskRow
<1>5. ASSUME task' = task PROVE task'[d].blocked = task[d].blocked /\ NothingCompletes
  BY <1>5 DEF NothingCompletes
<1> QED
  BY <1>2, <1>3, <1>4, <1>5
  DEF Next, vars, RegisterRuntime, StopRuntime, ChangeCardStatus, MarkExecutionStarted,
      RenewLease, LeaseRunsOut, FinishCardUnload

LEMMA BlockedCountStep ==
  ASSUME PublishedOnce, PublishedAsWhole, BlockersListedOnce
  PROVE  TypeOK /\ SchedulerInv /\ BlockerInv /\ BlockedCountIsExact /\ [Next]_vars
           => BlockedCountIsExact'
<1> SUFFICES ASSUME TypeOK, SchedulerInv, BlockerInv, BlockedCountIsExact, [Next]_vars,
                    NEW d \in Tasks, Published(d)'
             PROVE  task'[d].blocked = Remaining(task, d)'
  BY DEF BlockedCountIsExact
<1>1. ASSUME NEW p \in Plans, Publish(p) PROVE task'[d].blocked = Remaining(task, d)'
  <2>1. CASE d \in PlanTasks(p)
    BY <1>1, <2>1, PublishedCount
  <2>2. CASE d \notin PlanTasks(p)
    <3>1. task'[d] = task[d] /\ Published(d)
      BY <1>1, <2>2 DEF Publish, Published
    <3>2. \A b \in Tasks : <<d, b>> \in deps' <=> <<d, b>> \in deps
      BY <3>1, DepsStay
    <3>3. \A b \in Tasks : <<d, b>> \in deps => task'[b] = task[b]
      <4>1. \A b \in Tasks : <<d, b>> \in deps => b \notin PlanTasks(p)
        BY <1>1, FreshPlan DEF BlockerInv, PublicationInv
      <4> QED
        BY <1>1, <4>1 DEF Publish
    <3>4. Remaining(task, d)' = Remaining(task, d)
      BY <3>2, <3>3, SameCount
    <3> QED
      BY <3>1, <3>4 DEF BlockedCountIsExact
  <2> QED
    BY <2>1, <2>2
<1>2. ASSUME submitted' = submitted
      PROVE  Published(d) /\ \A b \in Tasks : <<d, b>> \in deps' <=> <<d, b>> \in deps
  BY <1>2, BlockedStep DEF SchedulerInv
<1>3. ASSUME NEW k \in DOMAIN execs, CompleteExecution(k)
      PROVE  task'[d].blocked = Remaining(task, d)'
  <2> DEFINE t  == execs[k].task
             tb == EndTask(k, "completed")
  <2>1. deps' = deps /\ submitted' = submitted
    BY <1>3 DEF CompleteExecution
  <2>2. \A b \in Tasks : tb[b].status = task'[b].status
    BY <1>3, CompletedRows
  <2>3. CASE d \in Dependents(t)
    <3>1. task'[d].blocked = Remaining(tb, d)
      BY <1>3, <2>3, CompletedRows
    <3>2. {b \in Tasks : <<d, b>> \in deps /\ tb[b].status # "completed"}
            = {b \in Tasks : <<d, b>> \in deps' /\ task'[b].status # "completed"}
      BY <2>1, <2>2
    <3> QED
      BY <3>1, <3>2 DEF Remaining
  <2>4. CASE d \notin Dependents(t)
    <3>1. task'[d].blocked = task[d].blocked
      BY <1>3, <2>4, CompletedRows
    <3>2. \A b \in Tasks : <<d, b>> \in deps => b # t
      BY <2>4 DEF Dependents
    <3>3. \A b \in Tasks : <<d, b>> \in deps => task'[b].status = task[b].status
      BY <1>3, <3>2, CompletedRows
    <3>4. Remaining(task, d)' = Remaining(task, d)
      BY <2>1, <3>3, SameCount
    <3> QED
      BY <1>2, <2>1, <3>1, <3>4 DEF BlockedCountIsExact
  <2> QED
    BY <2>3, <2>4
<1>4. CASE /\ task'[d].blocked = task[d].blocked /\ NothingCompletes
           /\ submitted' = submitted
  <2>1. \A b \in Tasks : task'[b].status = "completed" <=> task[b].status = "completed"
    BY <1>4, CompletedStay DEF NothingCompletes
  <2>2. Remaining(task, d)' = Remaining(task, d)
    BY <1>2, <1>4, <2>1, SameCount
  <2> QED
    BY <1>2, <1>4, <2>2 DEF BlockedCountIsExact
<1>5. submitted' = submitted \/ \E p \in Plans : Publish(p)
  BY DEF Next, vars, RegisterRuntime, StopRuntime, ChangeCardStatus, Claim, ClaimWithoutCard,
         MarkExecutionStarted, RenewLease, LeaseRunsOut, CompleteExecution, FailExecution,
         CancelExecution, FinishCardUnload, ReclaimLeasedTasks
<1> QED
  BY <1>1, <1>3, <1>4, <1>5, CountersKept

(* When a plan is published as a whole, and lists no blocker twice,         *)
(* blocked_by_count is the number of blockers not completed, whatever       *)
(* becomes of the blockers ...                                             *)
THEOREM BlockedCountCorrect ==
  ASSUME PublishedOnce, PublishedAsWhole, BlockersListedOnce
  PROVE  Spec => []BlockedCountIsExact
<1>1. Init => BlockedCountIsExact
  BY DEF Init, BlockedCountIsExact, Published
<1>2. TypeOK /\ SchedulerInv /\ BlockerInv /\ BlockedCountIsExact /\ [Next]_vars
        => BlockedCountIsExact'
  BY BlockedCountStep
<1> QED
  BY <1>1, <1>2, SchedulerInvCorrect, BlockerInvCorrect, PTL DEF Spec

(* ... also when completions count them at the same time.                  *)
THEOREM TxnBlockedCountCorrect ==
  ASSUME PublishedOnce, PublishedAsWhole, BlockersListedOnce
  PROVE  TSpec => []BlockedCountIsExact
BY SerializableCorrect, BlockedCountCorrect, PTL DEF Serializable
=============================================================================
