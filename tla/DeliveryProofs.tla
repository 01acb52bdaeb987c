--------------------------- MODULE DeliveryProofs ---------------------------
(* Proofs about Delivery for any number of events, dispatchers, consumers,   *)
(* retries and copies.                                                       *)
EXTENDS DeliveryHandover, FiniteSetTheorems, SequenceTheorems, TLAPS

(* The copies of an event in a batch are counted.                            *)
LEMMA CopiesCount ==
  ASSUME NEW b \in Seq(Events), NEW e
  PROVE  Copies(b, e) \in Nat /\ (Copies(b, e) > 0 <=> \E i \in DOMAIN b : b[i] = e)
<1> DEFINE S == {i \in DOMAIN b : b[i] = e}
<1>1. DOMAIN b = 1..Len(b) /\ Len(b) \in Nat
  BY LenProperties
<1>2. IsFiniteSet(1..Len(b))
  BY <1>1, FS_Interval
<1>3. IsFiniteSet(S)
  BY <1>1, <1>2, FS_Subset
<1>4. Cardinality(S) \in Nat /\ (Cardinality(S) = 0 <=> S = {})
  BY <1>3, FS_CardinalityType, FS_EmptySet
<1>5. Copies(b, e) = Cardinality(S)
  BY DEF Copies
<1> QED
  BY <1>4, <1>5

LEMMA BatchIsSeq == Batches \subseteq Seq(Events)
<1> SUFFICES ASSUME NEW b \in Batches PROVE b \in Seq(Events)
  OBVIOUS
<1>1. PICK n \in 1..MaxMessages : b \in [1..n -> Events]
  BY DEF Batches
<1>2. n \in Nat
  BY DeliveryAssumption
<1> QED
  BY <1>1, <1>2

LEMMA Retries == MaxRetries \in Nat \ {0}
BY DeliveryAssumption
-----------------------------------------------------------------------------
(* The outbox: a row has one dispatcher at most, which has it only while it  *)
(* is pending, and a pending row has attempts left.                          *)
RowsFit ==
  \A e \in Events :
    /\ outbox[e] = "absent" => retries[e] = 0
    /\ outbox[e] = "pending" => retries[e] < MaxRetries
    /\ \A d \in Dispatchers : batch[d][e] # "none" =>
         outbox[e] = "pending" /\ \A x \in Dispatchers : batch[x][e] # "none" => x = d

RowTypes ==
  /\ outbox \in [Events -> RowStatus]
  /\ retries \in [Events -> 0..MaxRetries]
  /\ batch \in [Dispatchers -> [Events -> Outcome]]
  /\ dead \subseteq Dispatchers

LEMMA RowsInit == DInit => RowTypes /\ RowsFit
<1> SUFFICES ASSUME DInit PROVE RowTypes /\ RowsFit
  OBVIOUS
<1>1. 0 \in 0..MaxRetries /\ 0 < MaxRetries
  BY Retries
<1>2. NoBatch \in [Events -> Outcome]
  BY DEF NoBatch, Outcome
<1>3. RowTypes
  BY <1>1, <1>2 DEF DInit, RowTypes, RowStatus
<1>4. RowsFit
  BY <1>1 DEF DInit, RowsFit, NoBatch
<1> QED
  BY <1>3, <1>4

LEMMA RowsStep == RowTypes /\ RowsFit /\ [DNext]_vars => RowTypes' /\ RowsFit'
<1> SUFFICES ASSUME RowTypes, RowsFit, [DNext]_vars PROVE RowTypes' /\ RowsFit'
  OBVIOUS
<1>a. NoBatch \in [Events -> Outcome] /\ \A e \in Events : NoBatch[e] = "none"
  BY DEF NoBatch, Outcome
<1>b. ASSUME UNCHANGED rows PROVE RowTypes' /\ RowsFit'
  BY <1>b DEF rows, RowTypes, RowsFit
<1>1. ASSUME NEW e \in Events, Enqueue(e) PROVE RowTypes' /\ RowsFit'
  <2>1. RowTypes'
    BY <1>1 DEF Enqueue, RowTypes, RowStatus
  <2>2. ASSUME NEW f \in Events
        PROVE  /\ outbox'[f] = "absent" => retries'[f] = 0
               /\ outbox'[f] = "pending" => retries'[f] < MaxRetries
               /\ \A d \in Dispatchers : batch'[d][f] # "none" =>
                    outbox'[f] = "pending" /\ \A x \in Dispatchers : batch'[x][f] # "none" => x = d
    <3>1. CASE f = e
      <4>1. outbox'[f] = "pending" /\ retries'[f] = 0 /\ 0 < MaxRetries
        BY <1>1, <3>1, Retries DEF Enqueue, RowTypes, RowsFit
      <4>2. \A d \in Dispatchers : batch'[d][f] = "none"
        BY <1>1, <3>1 DEF Enqueue, RowsFit
      <4> QED
        BY <4>1, <4>2
    <3>2. CASE f # e
      <4>1. outbox'[f] = outbox[f] /\ UNCHANGED <<retries, batch>>
        BY <1>1, <3>2 DEF Enqueue, RowTypes
      <4> QED
        BY <4>1 DEF RowsFit
    <3> QED
      BY <3>1, <3>2
  <2> QED
    BY <2>1, <2>2 DEF RowsFit
<1>2. ASSUME NEW d \in Dispatchers, NEW S \in SUBSET Events, SelectBatch(d, S)
      PROVE  RowTypes' /\ RowsFit'
  <2> DEFINE B == [e \in Events |-> IF e \in S THEN "locked" ELSE "none"]
  <2>1. B \in [Events -> Outcome] /\ \A e \in Events : B[e] # "none" => e \in S
    BY DEF Outcome
  <2>2. batch' = [batch EXCEPT ![d] = B] /\ UNCHANGED <<outbox, retries, dead>>
    BY <1>2 DEF SelectBatch
  <2>3. \A e \in S : outbox[e] = "pending" /\ \A x \in Dispatchers : batch[x][e] = "none"
    BY <1>2 DEF SelectBatch, RowLocked
  <2> HIDE DEF B
  <2>4. RowTypes'
    BY <2>1, <2>2 DEF RowTypes
  <2>5. batch'[d] = B /\ \A x \in Dispatchers : x # d => batch'[x] = batch[x]
    BY <2>2 DEF RowTypes
  <2>6. ASSUME NEW e \in Events, NEW x \in Dispatchers, batch'[x][e] # "none"
        PROVE  outbox[e] = "pending" /\ \A y \in Dispatchers : batch'[y][e] # "none" => y = x
    <3>1. CASE e \in S
      BY <2>3, <2>5, <2>6, <3>1
    <3>2. CASE e \notin S
      BY <2>1, <2>5, <2>6, <3>2 DEF RowsFit
    <3> QED
      BY <3>1, <3>2
  <2> QED
    BY <2>2, <2>4, <2>6 DEF RowsFit
<1>3. ASSUME NEW d \in Dispatchers, NEW e \in Events, PublishRecord(d, e)
      PROVE  RowTypes' /\ RowsFit'
  <2>1. PICK o \in {"sent", "raised"} : batch' = [batch EXCEPT ![d][e] = o]
    BY <1>3 DEF PublishRecord
  <2>2. batch[d][e] = "locked" /\ UNCHANGED <<outbox, retries, dead>>
    BY <1>3 DEF PublishRecord
  <2>3. [batch[d] EXCEPT ![e] = o] \in [Events -> Outcome]
    BY DEF RowTypes, Outcome
  <2>4. batch' = [batch EXCEPT ![d] = [batch[d] EXCEPT ![e] = o]]
    BY <2>1 DEF RowTypes
  <2>5. RowTypes'
    BY <2>2, <2>3, <2>4 DEF RowTypes
  <2>6. \A x \in Dispatchers, f \in Events : (batch'[x][f] # "none") <=> (batch[x][f] # "none")
    BY <2>2, <2>4 DEF RowTypes
  <2> QED
    BY <2>2, <2>5, <2>6 DEF RowsFit
<1>4. ASSUME NEW d \in Dispatchers, CommitBatch(d) PROVE RowTypes' /\ RowsFit'
  <2>1. /\ \A e \in Events : batch[d][e] \in Outcome \ {"locked"}
        /\ batch' = [batch EXCEPT ![d] = NoBatch] /\ dead' = dead
        /\ outbox' = [e \in Events |-> StatusAfter(e, batch[d][e])]
        /\ retries' = [e \in Events |-> IF batch[d][e] = "raised" THEN retries[e] + 1 ELSE retries[e]]
    BY <1>4 DEF CommitBatch, RowTypes
  <2>2. batch'[d] = NoBatch /\ \A x \in Dispatchers : x # d => batch'[x] = batch[x]
    BY <2>1 DEF RowTypes
  <2>3. ASSUME NEW e \in Events
        PROVE  /\ outbox'[e] \in RowStatus /\ retries'[e] \in 0..MaxRetries
               /\ outbox'[e] = "absent" => retries'[e] = 0
               /\ outbox'[e] = "pending" => retries'[e] < MaxRetries
               /\ batch[d][e] = "none" => outbox'[e] = outbox[e]
    <3>1. outbox[e] \in RowStatus /\ retries[e] \in 0..MaxRetries
      BY DEF RowTypes
    <3>2. CASE batch[d][e] = "none"
      BY <2>1, <3>1, <3>2 DEF StatusAfter, RowsFit
    <3>3. CASE batch[d][e] = "sent"
      BY <2>1, <3>1, <3>3 DEF StatusAfter, RowStatus
    <3>4. CASE batch[d][e] = "raised"
      <4>1. retries[e] < MaxRetries
        BY <3>4 DEF RowsFit
      <4>2. retries[e] + 1 \in 0..MaxRetries
        BY <3>1, <4>1, Retries
      <4>3. retries'[e] = retries[e] + 1
            /\ outbox'[e] = IF retries[e] + 1 >= MaxRetries THEN "failed" ELSE "pending"
        BY <2>1, <3>4 DEF StatusAfter
      <4>4. retries[e] + 1 >= MaxRetries \/ retries[e] + 1 < MaxRetries
        BY <3>1, Retries
      <4> QED
        BY <3>4, <4>2, <4>3, <4>4 DEF RowStatus
    <3> QED
      BY <2>1, <3>2, <3>3, <3>4 DEF Outcome
  <2>4. RowTypes'
    BY <1>a, <2>1, <2>3 DEF RowTypes
  <2>5. ASSUME NEW e \in Events, NEW x \in Dispatchers, batch'[x][e] # "none"
        PROVE  outbox'[e] = "pending" /\ \A y \in Dispatchers : batch'[y][e] # "none" => y = x
    <3>1. x # d /\ batch[x][e] # "none"
      BY <1>a, <2>2, <2>5
    <3>2. outbox[e] = "pending" /\ \A y \in Dispatchers : batch[y][e] # "none" => y = x
      BY <3>1 DEF RowsFit
    <3>3. batch[d][e] = "none"
      BY <3>1, <3>2
    <3> QED
      BY <1>a, <2>2, <2>3, <3>2, <3>3
  <2> QED
    BY <2>3, <2>4, <2>5 DEF RowsFit
<1>5. ASSUME NEW d \in Dispatchers, DispatcherDies(d) PROVE RowTypes' /\ RowsFit'
  <2>1. /\ batch' = [batch EXCEPT ![d] = NoBatch] /\ dead' = dead \cup {d}
        /\ UNCHANGED <<outbox, retries>>
    BY <1>5 DEF DispatcherDies
  <2>2. \A x \in Dispatchers, e \in Events : batch'[x][e] # "none" => batch[x][e] # "none"
    BY <1>a, <2>1 DEF RowTypes
  <2>3. RowTypes'
    BY <1>a, <2>1 DEF RowTypes
  <2> QED
    BY <2>1, <2>2, <2>3 DEF RowsFit
<1>6. ASSUME NEW c \in Consumers,
             \/ \E b \in Batches : Pop(c, b)
             \/ Examine(c)
             \/ \E e \in Events : Handle(c, e) \/ Ack(c, e) \/ AckRaises(c, e)
                                  \/ Retry(c, e) \/ Expire(c, e)
             \/ Forget(c)
      PROVE  UNCHANGED rows
  BY <1>6 DEF Pop, Examine, Handle, Ack, AckRaises, Retry, Expire, Forget
<1>7. CASE UNCHANGED vars
  BY <1>b, <1>7 DEF vars
<1> QED
  BY <1>b, <1>1, <1>2, <1>3, <1>4, <1>5, <1>6, <1>7 DEF DNext

(* No step of any dispatcher takes back a final status (dispatch_once).      *)
THEOREM RowStatusIsFinalCorrect == DSpec => RowStatusIsFinal
<1> DEFINE Final == \A e \in Events : outbox[e] \in {"published", "failed"} => outbox'[e] = outbox[e]
<1>1. DSpec => [](RowTypes /\ RowsFit)
  BY RowsInit, RowsStep, PTL DEF DSpec
<1>2. RowTypes /\ RowsFit /\ [DNext]_vars => [Final]_vars
  <2> SUFFICES ASSUME RowTypes, RowsFit, DNext, NEW e \in Events,
                      outbox[e] \in {"published", "failed"}
               PROVE  outbox'[e] = outbox[e]
    OBVIOUS
  <2>1. ASSUME NEW f \in Events, Enqueue(f) PROVE outbox'[e] = outbox[e]
    BY <2>1 DEF Enqueue, RowTypes
  <2>2. ASSUME NEW d \in Dispatchers, CommitBatch(d) PROVE outbox'[e] = outbox[e]
    <3>1. batch[d][e] = "none"
      BY DEF RowsFit
    <3> QED
      BY <2>2, <3>1 DEF CommitBatch, StatusAfter
  <2>3. ASSUME NEW d \in Dispatchers, \/ \E S \in SUBSET Events : SelectBatch(d, S)
                                      \/ \E f \in Events : PublishRecord(d, f)
                                      \/ DispatcherDies(d)
        PROVE  outbox'[e] = outbox[e]
    BY <2>3 DEF SelectBatch, PublishRecord, DispatcherDies
  <2>4. ASSUME NEW c \in Consumers,
               \/ \E b \in Batches : Pop(c, b)
               \/ Examine(c)
               \/ \E f \in Events : Handle(c, f) \/ Ack(c, f) \/ AckRaises(c, f)
                                    \/ Retry(c, f) \/ Expire(c, f)
               \/ Forget(c)
        PROVE  outbox'[e] = outbox[e]
    BY <2>4 DEF Pop, Examine, Handle, Ack, AckRaises, Retry, Expire, Forget, rows
  <2> QED
    BY <2>1, <2>2, <2>3, <2>4 DEF DNext
<1> HIDE DEF Final
<1>3. DSpec => [][Final]_vars
  BY <1>1, <1>2, PTL DEF DSpec
<1> QED
  BY <1>3 DEF RowStatusIsFinal, Final
-----------------------------------------------------------------------------
(* The consumers.                                                            *)

ConsumerTypes ==
  /\ queue \in [Events -> Nat]
  /\ inbox \in [Consumers -> [Events -> {"none", "processing", "consumed"}]]
  /\ popped \in [Consumers -> Seq(Events)]
  /\ taken \in [Consumers -> SUBSET Events]
  /\ fresh \in [Consumers -> SUBSET Events]
  /\ done \in [Consumers -> SUBSET Events]
  /\ handlings \in [Consumers -> [Events -> Nat]]
  /\ served \subseteq Events

(* An event is in a consumer's hands only with a row, one at a time is being *)
(* handled, and what has not been handled since retry() counts nothing.      *)
Claimed(c, e) ==
  /\ inbox[c][e] = "none" => handlings[c][e] = 0 /\ e \notin taken[c]
  /\ e \in taken[c] /\ e \notin done[c] => handlings[c][e] = 0
  /\ handlings[c][e] \in {0, 1}
  /\ inbox[c][e] = "consumed" => e \in served
  /\ e \in done[c] => e \in taken[c] /\ e \in served /\ \A f \in done[c] : f = e
  /\ e \in fresh[c] => e \in taken[c]

ClaimsFit == \A c \in Consumers, e \in Events : Claimed(c, e)

LEMMA ConsumersInit == DInit => ConsumerTypes /\ ClaimsFit
<1> SUFFICES ASSUME DInit PROVE ConsumerTypes /\ ClaimsFit
  OBVIOUS
<1>1. <<>> \in Seq(Events)
  OBVIOUS
<1> QED
  BY <1>1 DEF DInit, ConsumerTypes, ClaimsFit, Claimed

(* What one step of a consumer does to its own state, event by event.        *)
LEMMA SettleFacts ==
  ASSUME ConsumerTypes, NEW c \in Consumers, NEW e \in Events, Settles(c, e)
  PROVE  /\ taken' \in [Consumers -> SUBSET Events] /\ fresh' \in [Consumers -> SUBSET Events]
         /\ done' \in [Consumers -> SUBSET Events] /\ popped' = popped
         /\ taken'[c] = taken[c] \ {e} /\ fresh'[c] = fresh[c] \ {e} /\ done'[c] = {}
         /\ \A x \in Consumers : x # c =>
              taken'[x] = taken[x] /\ fresh'[x] = fresh[x] /\ done'[x] = done[x]
BY DEF Settles, ConsumerTypes

LEMMA ReturnsFacts ==
  ASSUME ConsumerTypes, NEW c, NEW e \in Events, Returns(c, e)
  PROVE  /\ queue' \in [Events -> Nat]
         /\ \A f \in Events : queue[f] > 0 => queue'[f] > 0
         /\ e \in fresh[c] => queue'[e] > 0
<1>1. CASE e \in fresh[c]
  <2>1. queue' = [queue EXCEPT ![e] = queue[e] + 1] /\ queue[e] \in Nat
    BY <1>1 DEF Returns, ConsumerTypes
  <2>2. queue' \in [Events -> Nat]
    BY <2>1 DEF ConsumerTypes
  <2>3. queue'[e] = queue[e] + 1 /\ \A f \in Events : f # e => queue'[f] = queue[f]
    BY <2>1 DEF ConsumerTypes
  <2> QED
    BY <2>1, <2>2, <2>3
<1>2. CASE e \notin fresh[c]
  BY <1>2 DEF Returns, ConsumerTypes
<1> QED
  BY <1>1, <1>2

LEMMA ArrivesFacts ==
  ASSUME ConsumerTypes, NEW e \in Events, Arrives(e)
  PROVE  /\ queue' \in [Events -> Nat] /\ queue'[e] > 0
         /\ \A f \in Events : queue[f] > 0 => queue'[f] > 0
<1>1. queue' = [queue EXCEPT ![e] = queue[e] + 1] /\ queue[e] \in Nat
  BY DEF Arrives, ConsumerTypes
<1>2. queue' \in [Events -> Nat]
  BY <1>1 DEF ConsumerTypes
<1>3. queue'[e] = queue[e] + 1 /\ \A f \in Events : f # e => queue'[f] = queue[f]
  BY <1>1 DEF ConsumerTypes
<1> QED
  BY <1>1, <1>2, <1>3

LEMMA PopFacts ==
  ASSUME ConsumerTypes, NEW c \in Consumers, NEW b \in Batches, Pop(c, b)
  PROVE  /\ queue' \in [Events -> Nat] /\ popped' \in [Consumers -> Seq(Events)]
         /\ popped'[c] = b /\ \A x \in Consumers : x # c => popped'[x] = popped[x]
         /\ \A e \in Events : queue[e] > 0 => queue'[e] > 0 \/ \E i \in DOMAIN b : b[i] = e
<1>1. b \in Seq(Events)
  BY BatchIsSeq
<1>2. queue' = [e \in Events |-> queue[e] - Copies(b, e)] /\ popped' = [popped EXCEPT ![c] = b]
  BY DEF Pop
<1>3. ASSUME NEW e \in Events
      PROVE  /\ queue[e] \in Nat /\ Copies(b, e) \in Nat /\ Copies(b, e) <= queue[e]
             /\ Copies(b, e) > 0 <=> \E i \in DOMAIN b : b[i] = e
  BY <1>1, CopiesCount DEF Pop, ConsumerTypes
<1>4. ASSUME NEW e \in Events
      PROVE  /\ queue[e] - Copies(b, e) \in Nat
             /\ queue[e] > 0 => queue'[e] > 0 \/ \E i \in DOMAIN b : b[i] = e
  <2>1. queue'[e] = queue[e] - Copies(b, e)
    BY <1>2
  <2>2. Copies(b, e) = 0 \/ Copies(b, e) > 0
    BY <1>3
  <2> QED
    BY <1>3, <2>1, <2>2
<1>5. queue' \in [Events -> Nat]
  BY <1>2, <1>4
<1> QED
  BY <1>1, <1>2, <1>4, <1>5 DEF ConsumerTypes

LEMMA ForgetFacts ==
  ASSUME ConsumerTypes, NEW c \in Consumers, Forget(c)
  PROVE  /\ queue' \in [Events -> Nat]
         /\ \A e \in Events :
              (\/ queue[e] > 0 \/ e \in fresh[c]
               \/ \E i \in DOMAIN popped[c] : popped[c][i] = e) => queue'[e] > 0
<1>1. popped[c] \in Seq(Events)
  BY DEF ConsumerTypes
<1>2. queue' = [e \in Events |-> queue[e] + Copies(popped[c], e) + (IF e \in fresh[c] THEN 1 ELSE 0)]
  BY DEF Forget
<1>3. ASSUME NEW e \in Events
      PROVE  /\ queue[e] \in Nat /\ Copies(popped[c], e) \in Nat
             /\ Copies(popped[c], e) > 0 <=> \E i \in DOMAIN popped[c] : popped[c][i] = e
  BY <1>1, CopiesCount DEF ConsumerTypes
<1>4. ASSUME NEW e \in Events
      PROVE  /\ queue'[e] \in Nat
             /\ queue[e] > 0 \/ e \in fresh[c] \/ Copies(popped[c], e) > 0 => queue'[e] > 0
  <2>1. queue'[e] = queue[e] + Copies(popped[c], e) + (IF e \in fresh[c] THEN 1 ELSE 0)
    BY <1>2
  <2> QED
    BY <1>3, <2>1
<1>5. queue' \in [Events -> Nat]
  BY <1>2, <1>4
<1>6. ASSUME NEW e \in Events,
             \/ queue[e] > 0 \/ e \in fresh[c]
             \/ \E i \in DOMAIN popped[c] : popped[c][i] = e
      PROVE  queue'[e] > 0
  <2>1. queue[e] > 0 \/ e \in fresh[c] \/ Copies(popped[c], e) > 0
    BY <1>3, <1>6
  <2> QED
    BY <1>4, <2>1
<1> QED
  BY <1>5, <1>6

LEMMA ExamineFacts ==
  ASSUME ConsumerTypes, NEW c \in Consumers, Examine(c)
  PROVE  /\ Head(popped[c]) \in Events /\ popped' \in [Consumers -> Seq(Events)]
         /\ popped'[c] = Tail(popped[c]) /\ \A x \in Consumers : x # c => popped'[x] = popped[x]
         /\ \A f \in Events : (\E i \in DOMAIN popped[c] : popped[c][i] = f) =>
              f = Head(popped[c]) \/ \E i \in DOMAIN popped'[c] : popped'[c][i] = f
<1> DEFINE q == popped[c]
           t == Tail(q)
<1>1. q \in Seq(Events) /\ q # <<>> /\ popped' = [popped EXCEPT ![c] = t]
  BY DEF Examine, ConsumerTypes
<1>2. /\ Head(q) \in Events /\ t \in Seq(Events) /\ Len(t) = Len(q) - 1
      /\ \A i \in 1..Len(t) : t[i] = q[i + 1]
  BY <1>1, HeadTailProperties
<1>3. DOMAIN q = 1..Len(q) /\ DOMAIN t = 1..Len(t) /\ Len(q) \in Nat /\ Len(t) \in Nat /\ Head(q) = q[1]
  BY <1>1, <1>2, LenProperties
<1>4. popped'[c] = t /\ \A x \in Consumers : x # c => popped'[x] = popped[x]
  BY <1>1 DEF ConsumerTypes
<1> HIDE DEF t
<1>5. ASSUME NEW f \in Events, NEW i \in DOMAIN q, q[i] = f, f # Head(q)
      PROVE  \E j \in DOMAIN t : t[j] = f
  <2>1. i - 1 \in 1..Len(t) /\ (i - 1) + 1 = i
    BY <1>2, <1>3, <1>5
  <2>2. t[i - 1] = f
    BY <1>2, <1>5, <2>1
  <2> QED
    BY <1>3, <2>1, <2>2
<1> HIDE DEF q
<1>6. popped' \in [Consumers -> Seq(Events)]
  BY <1>1, <1>2 DEF ConsumerTypes
<1> QED
  BY <1>2, <1>4, <1>5, <1>6 DEF q, t

LEMMA ClaimFrame ==
  ASSUME NEW x \in Consumers, \A e \in Events : Claimed(x, e), done[x] \subseteq Events,
         inbox'[x] = inbox[x], taken'[x] = taken[x], done'[x] = done[x],
         fresh'[x] \subseteq fresh[x], handlings'[x] = handlings[x], served \subseteq served'
  PROVE  \A e \in Events : Claimed(x, e)'
BY DEF Claimed

LEMMA ConsumersStep == ConsumerTypes /\ ClaimsFit /\ [DNext]_vars => ConsumerTypes' /\ ClaimsFit'
<1> SUFFICES ASSUME ConsumerTypes, ClaimsFit, [DNext]_vars PROVE ConsumerTypes' /\ ClaimsFit'
  OBVIOUS
<1>a. \A x \in Consumers : done[x] \subseteq Events /\ \A e \in Events : Claimed(x, e)
  BY DEF ConsumerTypes, ClaimsFit
<1>b. ASSUME queue' \in [Events -> Nat], UNCHANGED <<inbox, memory, handlings, served>>
      PROVE  ConsumerTypes' /\ ClaimsFit'
  <2>1. ConsumerTypes'
    BY <1>b DEF ConsumerTypes, memory
  <2>2. ClaimsFit'
    BY <1>a, <1>b, ClaimFrame DEF memory, ClaimsFit
  <2> QED
    BY <2>1, <2>2
<1>1. CASE \/ \E e \in Events : Enqueue(e)
           \/ \E d \in Dispatchers : \/ \E S \in SUBSET Events : SelectBatch(d, S)
                                     \/ CommitBatch(d)
                                     \/ DispatcherDies(d)
  <2>1. UNCHANGED <<queue, inbox, memory, handlings, served>>
    BY <1>1 DEF Enqueue, SelectBatch, CommitBatch, DispatcherDies
  <2> QED
    BY <1>b, <2>1 DEF ConsumerTypes
<1>2. ASSUME NEW d \in Dispatchers, NEW e \in Events, PublishRecord(d, e)
      PROVE  ConsumerTypes' /\ ClaimsFit'
  <2>1. queue' \in [Events -> Nat]
    BY <1>2, ArrivesFacts DEF PublishRecord, ConsumerTypes
  <2>2. UNCHANGED <<inbox, memory, handlings, served>>
    BY <1>2 DEF PublishRecord
  <2> QED
    BY <1>b, <2>1, <2>2
<1>3. ASSUME NEW c \in Consumers, NEW b \in Batches, Pop(c, b) PROVE ConsumerTypes' /\ ClaimsFit'
  <2>1. ConsumerTypes'
    BY <1>3, PopFacts DEF Pop, ConsumerTypes
  <2>2. ClaimsFit'
    BY <1>a, <1>3, ClaimFrame DEF Pop, ClaimsFit
  <2> QED
    BY <2>1, <2>2
<1>4. ASSUME NEW c \in Consumers, Examine(c) PROVE ConsumerTypes' /\ ClaimsFit'
  <2> DEFINE e == Head(popped[c])
  <2>1. e \in Events /\ popped' \in [Consumers -> Seq(Events)] /\ UNCHANGED <<queue, done, handlings, served>>
    BY <1>4, ExamineFacts DEF Examine
  <2>2. \/ /\ inbox[c][e] = "none"
           /\ inbox' = [inbox EXCEPT ![c][e] = "processing"]
           /\ taken' = [taken EXCEPT ![c] = taken[c] \cup {e}]
           /\ fresh' = [fresh EXCEPT ![c] = fresh[c] \cup {e}]
        \/ UNCHANGED <<inbox, taken, fresh>>
    BY <1>4 DEF Examine, Claimable
  <2> HIDE DEF e
  <2>3. CASE UNCHANGED <<inbox, taken, fresh>>
    <3>1. ConsumerTypes'
      BY <2>1, <2>3 DEF ConsumerTypes
    <3>2. ClaimsFit'
      BY <1>a, <2>1, <2>3, ClaimFrame DEF ClaimsFit
    <3> QED
      BY <3>1, <3>2
  <2>4. CASE /\ inbox[c][e] = "none"
             /\ inbox' = [inbox EXCEPT ![c][e] = "processing"]
             /\ taken' = [taken EXCEPT ![c] = taken[c] \cup {e}]
             /\ fresh' = [fresh EXCEPT ![c] = fresh[c] \cup {e}]
    <3>1. [inbox[c] EXCEPT ![e] = "processing"] \in [Events -> {"none", "processing", "consumed"}]
      BY DEF ConsumerTypes
    <3>2. inbox' = [inbox EXCEPT ![c] = [inbox[c] EXCEPT ![e] = "processing"]]
      BY <2>4 DEF ConsumerTypes
    <3>3. ConsumerTypes'
      BY <2>1, <2>4, <3>1, <3>2 DEF ConsumerTypes
    <3>4. \A x \in Consumers : x # c => inbox'[x] = inbox[x] /\ taken'[x] = taken[x] /\ fresh'[x] = fresh[x]
      BY <2>4, <3>2 DEF ConsumerTypes
    <3>5. /\ inbox'[c][e] = "processing" /\ \A f \in Events : f # e => inbox'[c][f] = inbox[c][f]
          /\ taken'[c] = taken[c] \cup {e} /\ fresh'[c] = fresh[c] \cup {e}
      BY <2>1, <2>4, <3>2 DEF ConsumerTypes
    <3>6. ASSUME NEW f \in Events PROVE Claimed(c, f)'
      <4>1. Claimed(c, f) /\ done'[c] = done[c] /\ handlings'[c] = handlings[c] /\ served' = served
        BY <1>a, <2>1
      <4>2. CASE f = e
        <5>1. handlings[c][e] = 0 /\ e \notin done[c]
          BY <2>4, <4>1, <4>2 DEF Claimed
        <5> QED
          BY <3>5, <4>1, <4>2, <5>1 DEF Claimed
      <4>3. CASE f # e
        BY <3>5, <4>1, <4>3 DEF Claimed
      <4> QED
        BY <4>2, <4>3
    <3>7. ASSUME NEW x \in Consumers, x # c PROVE \A f \in Events : Claimed(x, f)'
      BY <1>a, <2>1, <3>4, <3>7, ClaimFrame
    <3> QED
      BY <3>3, <3>6, <3>7 DEF ClaimsFit
  <2> QED
    BY <2>2, <2>3, <2>4
<1>5. ASSUME NEW c \in Consumers, NEW e \in Events, Handle(c, e) PROVE ConsumerTypes' /\ ClaimsFit'
  <2>1. /\ e \in taken[c] /\ e \notin done[c] /\ done[c] \subseteq {e}
        /\ done' = [done EXCEPT ![c] = {e}] /\ served' = served \cup {e}
        /\ handlings' = [handlings EXCEPT ![c][e] = handlings[c][e] + 1]
        /\ UNCHANGED <<queue, inbox, popped, taken, fresh>>
    BY <1>5 DEF Handle, Handling
  <2>2. handlings[c][e] = 0
    BY <1>a, <2>1 DEF Claimed
  <2>3. handlings' = [handlings EXCEPT ![c] = [handlings[c] EXCEPT ![e] = 1]]
    BY <2>1, <2>2 DEF ConsumerTypes
  <2>4. [handlings[c] EXCEPT ![e] = 1] \in [Events -> Nat]
    BY DEF ConsumerTypes
  <2>5. ConsumerTypes'
    BY <2>1, <2>3, <2>4 DEF ConsumerTypes
  <2>6. /\ handlings'[c][e] = 1 /\ \A f \in Events : f # e => handlings'[c][f] = handlings[c][f]
        /\ done'[c] = {e} /\ \A x \in Consumers : x # c => handlings'[x] = handlings[x] /\ done'[x] = done[x]
    BY <2>1, <2>3 DEF ConsumerTypes
  <2>7. ASSUME NEW f \in Events PROVE Claimed(c, f)'
    <3>1. Claimed(c, f) /\ Claimed(c, e)
      BY <1>a
    <3>2. CASE f = e
      BY <2>1, <2>6, <3>1, <3>2 DEF Claimed
    <3>3. CASE f # e
      BY <2>1, <2>6, <3>1, <3>3 DEF Claimed
    <3> QED
      BY <3>2, <3>3
  <2>8. ASSUME NEW x \in Consumers, x # c PROVE \A f \in Events : Claimed(x, f)'
    BY <1>a, <2>1, <2>6, <2>8, ClaimFrame
  <2> QED
    BY <2>5, <2>7, <2>8 DEF ClaimsFit
<1>6. ASSUME NEW c \in Consumers, NEW e \in Events, Ack(c, e) \/ AckRaises(c, e)
      PROVE  ConsumerTypes' /\ ClaimsFit'
  <2>1. /\ e \in done[c] /\ inbox[c][e] = "processing"
        /\ inbox' = [inbox EXCEPT ![c][e] = "consumed"]
        /\ Settles(c, e) \/ UNCHANGED memory
        /\ UNCHANGED <<queue, handlings, served>>
    BY <1>6 DEF Ack, AckRaises
  <2>2. inbox' = [inbox EXCEPT ![c] = [inbox[c] EXCEPT ![e] = "consumed"]]
    BY <2>1 DEF ConsumerTypes
  <2>3. [inbox[c] EXCEPT ![e] = "consumed"] \in [Events -> {"none", "processing", "consumed"}]
    BY DEF ConsumerTypes
  <2>4. /\ taken' \in [Consumers -> SUBSET Events] /\ fresh' \in [Consumers -> SUBSET Events]
        /\ done' \in [Consumers -> SUBSET Events] /\ popped' = popped
        /\ \A x \in Consumers : x # c =>
              taken'[x] = taken[x] /\ fresh'[x] = fresh[x] /\ done'[x] = done[x]
    BY <2>1, SettleFacts DEF memory, ConsumerTypes
  <2>5. ConsumerTypes'
    <3>1. inbox' \in [Consumers -> [Events -> {"none", "processing", "consumed"}]]
      BY <2>2, <2>3 DEF ConsumerTypes
    <3> QED
      BY <2>1, <2>4, <3>1 DEF ConsumerTypes
  <2>6. /\ inbox'[c][e] = "consumed" /\ \A f \in Events : f # e => inbox'[c][f] = inbox[c][f]
        /\ \A x \in Consumers : x # c => inbox'[x] = inbox[x]
    BY <2>2 DEF ConsumerTypes
  <2>7. \/ taken'[c] = taken[c] \ {e} /\ fresh'[c] = fresh[c] \ {e} /\ done'[c] = {}
        \/ taken'[c] = taken[c] /\ fresh'[c] = fresh[c] /\ done'[c] = done[c]
    BY <2>1, SettleFacts DEF memory
  <2>8. ASSUME NEW f \in Events PROVE Claimed(c, f)'
    <3>1. Claimed(c, f) /\ Claimed(c, e)
      BY <1>a
    <3>2. CASE f = e
      BY <2>1, <2>6, <2>7, <3>1, <3>2 DEF Claimed
    <3>3. CASE f # e
      <4>1. f \notin done[c]
        BY <2>1, <3>1, <3>3 DEF Claimed
      <4> QED
        BY <2>1, <2>6, <2>7, <3>1, <3>3, <4>1 DEF Claimed
    <3> QED
      BY <3>2, <3>3
  <2>9. ASSUME NEW x \in Consumers, x # c PROVE \A f \in Events : Claimed(x, f)'
    BY <1>a, <2>1, <2>4, <2>6, <2>9, ClaimFrame
  <2> QED
    BY <2>5, <2>8, <2>9 DEF ClaimsFit
<1>7. ASSUME NEW c \in Consumers, NEW e \in Events, Retry(c, e) PROVE ConsumerTypes' /\ ClaimsFit'
  <2>1. /\ e \in taken[c] /\ done[c] \subseteq {e} /\ Settles(c, e) /\ Returns(c, e)
        /\ served' = served
    BY <1>7 DEF Retry, Handling
  <2>2. \/ /\ inbox[c][e] = "processing"
           /\ inbox' = [inbox EXCEPT ![c] = [inbox[c] EXCEPT ![e] = "none"]]
           /\ handlings' = [handlings EXCEPT ![c] = [handlings[c] EXCEPT ![e] = 0]]
        \/ inbox[c][e] # "processing" /\ UNCHANGED <<inbox, handlings>>
    BY <1>7 DEF Retry, ConsumerTypes
  <2>3. /\ [inbox[c] EXCEPT ![e] = "none"] \in [Events -> {"none", "processing", "consumed"}]
        /\ [handlings[c] EXCEPT ![e] = 0] \in [Events -> Nat]
    BY DEF ConsumerTypes
  <2>4. inbox' \in [Consumers -> [Events -> {"none", "processing", "consumed"}]]
        /\ handlings' \in [Consumers -> [Events -> Nat]]
    <3>1. inbox' \in [Consumers -> [Events -> {"none", "processing", "consumed"}]]
      BY <2>2, <2>3 DEF ConsumerTypes
    <3>2. handlings' \in [Consumers -> [Events -> Nat]]
      BY <2>2, <2>3 DEF ConsumerTypes
    <3> QED
      BY <3>1, <3>2
  <2>5. ConsumerTypes'
    BY <2>1, <2>4, SettleFacts, ReturnsFacts DEF ConsumerTypes
  <2>6. /\ \A f \in Events : f # e => inbox'[c][f] = inbox[c][f] /\ handlings'[c][f] = handlings[c][f]
        /\ \/ inbox'[c][e] = "none" /\ handlings'[c][e] = 0
           \/ inbox[c][e] # "processing" /\ inbox'[c][e] = inbox[c][e] /\ handlings'[c][e] = handlings[c][e]
        /\ \A x \in Consumers : x # c => inbox'[x] = inbox[x] /\ handlings'[x] = handlings[x]
    BY <2>2 DEF ConsumerTypes
  <2>7. /\ taken'[c] = taken[c] \ {e} /\ fresh'[c] = fresh[c] \ {e} /\ done'[c] = {}
        /\ \A x \in Consumers : x # c =>
              taken'[x] = taken[x] /\ fresh'[x] = fresh[x] /\ done'[x] = done[x]
    BY <2>1, SettleFacts
  <2>8. ASSUME NEW f \in Events PROVE Claimed(c, f)'
    <3>1. Claimed(c, f) /\ Claimed(c, e)
      BY <1>a
    <3>2. CASE f = e
      BY <2>1, <2>6, <2>7, <3>1, <3>2 DEF Claimed
    <3>3. CASE f # e
      BY <2>1, <2>6, <2>7, <3>1, <3>3 DEF Claimed
    <3> QED
      BY <3>2, <3>3
  <2>9. ASSUME NEW x \in Consumers, x # c PROVE \A f \in Events : Claimed(x, f)'
    BY <1>a, <2>1, <2>6, <2>7, <2>9, ClaimFrame
  <2> QED
    BY <2>5, <2>8, <2>9 DEF ClaimsFit
<1>8. ASSUME NEW c \in Consumers, NEW e \in Events, Expire(c, e) PROVE ConsumerTypes' /\ ClaimsFit'
  <2>1. /\ Returns(c, e) /\ fresh' = [fresh EXCEPT ![c] = fresh[c] \ {e}]
        /\ UNCHANGED <<inbox, popped, taken, done, handlings, served>>
    BY <1>8 DEF Expire
  <2>2. ConsumerTypes'
    BY <2>1, ReturnsFacts DEF ConsumerTypes
  <2>3. \A x \in Consumers : fresh'[x] \subseteq fresh[x]
    BY <2>1 DEF ConsumerTypes
  <2>4. ClaimsFit'
    BY <1>a, <2>1, <2>3, ClaimFrame DEF ClaimsFit
  <2> QED
    BY <2>2, <2>4
<1>9. ASSUME NEW c \in Consumers, Forget(c) PROVE ConsumerTypes' /\ ClaimsFit'
  <2>1. /\ popped' = [popped EXCEPT ![c] = <<>>] /\ taken' = [taken EXCEPT ![c] = {}]
        /\ fresh' = [fresh EXCEPT ![c] = {}] /\ done' = [done EXCEPT ![c] = {}]
        /\ UNCHANGED <<inbox, handlings, served>>
    BY <1>9 DEF Forget
  <2>2. <<>> \in Seq(Events)
    OBVIOUS
  <2>3. ConsumerTypes'
    BY <1>9, <2>1, <2>2, ForgetFacts DEF ConsumerTypes
  <2>4. /\ taken'[c] = {} /\ fresh'[c] = {} /\ done'[c] = {}
        /\ \A x \in Consumers : x # c =>
              taken'[x] = taken[x] /\ fresh'[x] = fresh[x] /\ done'[x] = done[x]
    BY <2>1 DEF ConsumerTypes
  <2>5. \A f \in Events : Claimed(c, f)'
    BY <1>a, <2>1, <2>4 DEF Claimed
  <2>6. ASSUME NEW x \in Consumers, x # c PROVE \A f \in Events : Claimed(x, f)'
    BY <1>a, <2>1, <2>4, <2>6, ClaimFrame
  <2> QED
    BY <2>3, <2>5, <2>6 DEF ClaimsFit
<1>10. CASE UNCHANGED vars
  BY <1>b, <1>10 DEF vars, ConsumerTypes
<1> QED
  BY <1>1, <1>2, <1>3, <1>4, <1>5, <1>6, <1>7, <1>8, <1>9, <1>10 DEF DNext

(* However often an event comes, its handler runs once until retry()         *)
(* (_claim_delivery, ack, retry).                                            *)
THEOREM HandledOnceCorrect == DSpec => []HandledOnce
<1>1. DSpec => [](ConsumerTypes /\ ClaimsFit)
  BY ConsumersInit, ConsumersStep, PTL DEF DSpec
<1>2. ClaimsFit => HandledOnce
  BY DEF ClaimsFit, Claimed, HandledOnce
<1> QED
  BY <1>1, <1>2, PTL
-----------------------------------------------------------------------------
(* Where the next delivery of an event comes from, or where its loss shows:  *)
(* a copy in the queue, a copy nobody can take over before its invisibility  *)
(* ends, a copy popped by a consumer that has not claimed the event, or a    *)
(* row left by a consumer that has forgotten the event.                      *)

Keeps(c, e) ==
  \/ e \in fresh[c]
  \/ e \notin taken[c] /\ \E i \in DOMAIN popped[c] : popped[c][i] = e
  \/ e \notin taken[c] /\ inbox[c][e] = "processing"

Comes(e) == queue[e] > 0 \/ \E c \in Consumers : Keeps(c, e)

Reached(e) == outbox[e] = "published" \/ \E d \in Dispatchers : batch[d][e] = "sent"

TraceFits == \A e \in Events : Reached(e) /\ e \notin served => Comes(e)

LEMMA TraceInit == DInit => TraceFits
BY DEF DInit, TraceFits, Reached, NoBatch

(* A step of a dispatcher makes an event Reached only with a copy.           *)
LEMMA TraceOfDispatchers ==
  ASSUME RowTypes, ConsumerTypes, TraceFits,
         \/ \E e \in Events : Enqueue(e)
         \/ \E d \in Dispatchers :
              \/ \E S \in SUBSET Events : SelectBatch(d, S)
              \/ \E e \in Events : PublishRecord(d, e)
              \/ CommitBatch(d)
              \/ DispatcherDies(d)
  PROVE  TraceFits'
<1> SUFFICES ASSUME NEW e \in Events, Reached(e)', e \notin served' PROVE Comes(e)'
  BY DEF TraceFits
<1>a. ASSUME Reached(e), UNCHANGED <<inbox, memory, served>>, queue[e] > 0 => queue'[e] > 0
      PROVE  Comes(e)'
  BY <1>a DEF TraceFits, Comes, Keeps, memory
<1>1. ASSUME NEW f \in Events, Enqueue(f) PROVE Comes(e)'
  <2>1. Reached(e)
    BY <1>1 DEF Enqueue, Reached, RowTypes
  <2> QED
    BY <1>a, <1>1, <2>1 DEF Enqueue
<1>2. ASSUME NEW d \in Dispatchers, NEW S \in SUBSET Events, SelectBatch(d, S) PROVE Comes(e)'
  <2>1. Reached(e)
    BY <1>2 DEF SelectBatch, Reached, RowTypes
  <2> QED
    BY <1>a, <1>2, <2>1 DEF SelectBatch
<1>3. ASSUME NEW d \in Dispatchers, NEW f \in Events, PublishRecord(d, f) PROVE Comes(e)'
  <2>1. UNCHANGED <<inbox, memory, served, outbox>>
    BY <1>3 DEF PublishRecord
  <2>2. Arrives(f) \/ UNCHANGED queue
    BY <1>3 DEF PublishRecord
  <2>3. CASE Reached(e)
    BY <1>a, <2>1, <2>2, <2>3, ArrivesFacts
  <2>4. CASE ~Reached(e)
    <3>1. f = e /\ Arrives(e)
      <4>1. PICK x \in Dispatchers : batch'[x][e] = "sent" /\ batch[x][e] # "sent"
        BY <2>1, <2>4 DEF Reached
      <4>2. PICK o \in {"sent", "raised"} :
              batch' = [batch EXCEPT ![d] = [batch[d] EXCEPT ![f] = o]] /\ (o = "sent" => Arrives(f))
        BY <1>3 DEF PublishRecord, RowTypes
      <4>3. x = d
        BY <4>1, <4>2 DEF RowTypes
      <4>4. batch'[d] = [batch[d] EXCEPT ![f] = o] /\ batch[d] \in [Events -> Outcome]
        BY <4>2 DEF RowTypes
      <4>5. f = e /\ o = "sent"
        BY <4>1, <4>3, <4>4
      <4> QED
        BY <4>2, <4>5
    <3> QED
      BY <3>1, ArrivesFacts DEF Comes
  <2> QED
    BY <2>3, <2>4
<1>4. ASSUME NEW d \in Dispatchers, CommitBatch(d) PROVE Comes(e)'
  <2>1. outbox'[e] = "published" => outbox[e] = "published" \/ batch[d][e] = "sent"
    BY <1>4 DEF CommitBatch, StatusAfter
  <2>2. \A x \in Dispatchers : batch'[x][e] = "sent" => batch[x][e] = "sent"
    BY <1>4 DEF CommitBatch, RowTypes, NoBatch
  <2> QED
    BY <1>a, <1>4, <2>1, <2>2 DEF CommitBatch, Reached
<1>5. ASSUME NEW d \in Dispatchers, DispatcherDies(d) PROVE Comes(e)'
  <2>1. \A x \in Dispatchers : batch'[x][e] = "sent" => batch[x][e] = "sent"
    BY <1>5 DEF DispatcherDies, RowTypes, NoBatch
  <2> QED
    BY <1>a, <1>5, <2>1 DEF DispatcherDies, Reached
<1> QED
  BY <1>1, <1>2, <1>3, <1>4, <1>5

LEMMA KeepsFrame ==
  ASSUME NEW x \in Consumers, NEW e \in Events, Keeps(x, e), inbox'[x] = inbox[x],
         popped'[x] = popped[x], taken'[x] = taken[x], fresh'[x] = fresh[x]
  PROVE  Keeps(x, e)'
BY DEF Keeps

(* A step of a consumer that drops a copy leaves another, or a row.          *)
LEMMA TraceOfConsumer ==
  ASSUME ConsumerTypes, ClaimsFit, NEW c \in Consumers, NEW e \in Events,
         Comes(e), e \notin served',
         \/ \E b \in Batches : Pop(c, b)
         \/ Examine(c)
         \/ \E f \in Events : Handle(c, f) \/ Ack(c, f) \/ AckRaises(c, f)
                              \/ Retry(c, f) \/ Expire(c, f)
         \/ Forget(c)
  PROVE  Comes(e)'
<1>a. e \notin served /\ \A x \in Consumers, f \in Events : Claimed(x, f)
  <2>1. served \subseteq served'
    BY DEF Pop, Examine, Handle, Ack, AckRaises, Retry, Expire, Forget
  <2> QED
    BY <2>1 DEF ClaimsFit
<1>b. ASSUME queue[e] > 0 => Comes(e)', Keeps(c, e) => Comes(e)',
             \A x \in Consumers : x # c => /\ inbox'[x] = inbox[x] /\ popped'[x] = popped[x]
                                          /\ taken'[x] = taken[x] /\ fresh'[x] = fresh[x]
      PROVE  Comes(e)'
  <2>1. ASSUME NEW x \in Consumers, x # c, Keeps(x, e) PROVE Comes(e)'
    <3>1. Keeps(x, e)'
      BY <1>b, <2>1, KeepsFrame
    <3> QED
      BY <3>1 DEF Comes
  <2> QED
    BY <1>b, <2>1 DEF Comes
<1>1. ASSUME NEW b \in Batches, Pop(c, b) PROVE Comes(e)'
  <2>1. /\ taken[c] = {} /\ UNCHANGED <<inbox, taken, fresh>> /\ popped[c] = <<>>
    BY <1>1 DEF Pop
  <2>2. queue[e] > 0 => Comes(e)'
    BY <1>1, <2>1, PopFacts DEF Comes, Keeps
  <2>3. Keeps(c, e) => Comes(e)'
    BY <2>1 DEF Comes, Keeps
  <2> QED
    BY <1>b, <1>1, <2>1, <2>2, <2>3, PopFacts
<1>2. CASE Examine(c)
  <2> DEFINE h == Head(popped[c])
  <2>1. /\ h \in Events /\ queue' = queue
        /\ popped'[c] = Tail(popped[c]) /\ \A x \in Consumers : x # c => popped'[x] = popped[x]
        /\ (\E i \in DOMAIN popped[c] : popped[c][i] = e) =>
              e = h \/ \E i \in DOMAIN popped'[c] : popped'[c][i] = e
    BY <1>2, ExamineFacts DEF Examine
  <2>2. \/ /\ inbox[c][h] = "none"
           /\ inbox' = [inbox EXCEPT ![c] = [inbox[c] EXCEPT ![h] = "processing"]]
           /\ taken' = [taken EXCEPT ![c] = taken[c] \cup {h}]
           /\ fresh' = [fresh EXCEPT ![c] = fresh[c] \cup {h}]
        \/ inbox[c][h] # "none" /\ UNCHANGED <<inbox, taken, fresh>>
    BY <1>2 DEF Examine, Claimable, ConsumerTypes
  <2> HIDE DEF h
  <2>3. \A x \in Consumers : x # c => /\ inbox'[x] = inbox[x] /\ popped'[x] = popped[x]
                                      /\ taken'[x] = taken[x] /\ fresh'[x] = fresh[x]
    BY <2>1, <2>2 DEF ConsumerTypes
  <2>4. CASE inbox[c][h] = "none"
    <3>1. /\ taken'[c] = taken[c] \cup {h} /\ fresh'[c] = fresh[c] \cup {h}
          /\ \A f \in Events : f # h => inbox'[c][f] = inbox[c][f]
      <4>1. /\ inbox' = [inbox EXCEPT ![c] = [inbox[c] EXCEPT ![h] = "processing"]]
            /\ taken' = [taken EXCEPT ![c] = taken[c] \cup {h}]
            /\ fresh' = [fresh EXCEPT ![c] = fresh[c] \cup {h}]
        BY <2>2, <2>4
      <4>2. taken'[c] = taken[c] \cup {h} /\ fresh'[c] = fresh[c] \cup {h}
        BY <4>1 DEF ConsumerTypes
      <4>3. inbox'[c] = [inbox[c] EXCEPT ![h] = "processing"]
        BY <4>1 DEF ConsumerTypes
      <4>4. DOMAIN inbox[c] = Events
        BY DEF ConsumerTypes
      <4> QED
        BY <4>2, <4>3, <4>4
    <3>2. e = h => Keeps(c, e)'
      BY <3>1 DEF Keeps
    <3>3. e # h /\ Keeps(c, e) => Keeps(c, e)'
      BY <2>1, <3>1 DEF Keeps
    <3> QED
      BY <1>b, <2>1, <2>3, <3>2, <3>3 DEF Comes
  <2>5. CASE inbox[c][h] # "none"
    <3>1. UNCHANGED <<inbox, taken, fresh>>
      BY <2>2, <2>5
    <3>2. ASSUME e = h, e \notin taken[c] PROVE Keeps(c, e)'
      <4>1. inbox[c][e] = "processing"
        BY <1>a, <2>5, <3>2 DEF Claimed, ConsumerTypes
      <4> QED
        BY <3>1, <3>2, <4>1 DEF Keeps
    <3>3. Keeps(c, e) => Keeps(c, e)'
      BY <2>1, <3>1, <3>2 DEF Keeps
    <3> QED
      BY <1>b, <2>1, <2>3, <3>3 DEF Comes
  <2> QED
    BY <2>4, <2>5
<1>3. ASSUME NEW f \in Events, Handle(c, f) PROVE Comes(e)'
  <2>1. UNCHANGED <<queue, inbox, popped, taken, fresh>>
    BY <1>3 DEF Handle
  <2> QED
    BY <2>1 DEF Comes, Keeps
<1>4. ASSUME NEW f \in Events, Ack(c, f) \/ AckRaises(c, f) PROVE Comes(e)'
  <2>1. /\ f \in done[c] /\ inbox' = [inbox EXCEPT ![c] = [inbox[c] EXCEPT ![f] = "consumed"]]
        /\ Settles(c, f) \/ UNCHANGED memory
        /\ queue' = queue
    BY <1>4 DEF Ack, AckRaises, ConsumerTypes
  <2>2. e # f
    BY <1>a, <2>1 DEF Claimed
  <2>3. /\ inbox'[c][e] = inbox[c][e] /\ popped' = popped
        /\ \A x \in Consumers : x # c => inbox'[x] = inbox[x] /\ taken'[x] = taken[x] /\ fresh'[x] = fresh[x]
    BY <2>1, <2>2, SettleFacts DEF ConsumerTypes, memory
  <2>4. (e \in taken'[c] <=> e \in taken[c]) /\ (e \in fresh'[c] <=> e \in fresh[c])
    BY <2>1, <2>2, SettleFacts DEF memory
  <2>5. Keeps(c, e) => Keeps(c, e)'
    BY <2>3, <2>4 DEF Keeps
  <2> QED
    BY <1>b, <2>1, <2>3, <2>5 DEF Comes
<1>5. ASSUME NEW f \in Events, Retry(c, f) PROVE Comes(e)'
  <2>1. /\ f \in taken[c] /\ Settles(c, f) /\ Returns(c, f)
        /\ \/ inbox' = [inbox EXCEPT ![c] = [inbox[c] EXCEPT ![f] = "none"]]
           \/ inbox' = inbox
    BY <1>5 DEF Retry, Handling, ConsumerTypes
  <2>2. /\ popped' = popped /\ taken'[c] = taken[c] \ {f} /\ fresh'[c] = fresh[c] \ {f}
        /\ \A x \in Consumers : x # c => inbox'[x] = inbox[x] /\ taken'[x] = taken[x] /\ fresh'[x] = fresh[x]
        /\ e # f => inbox'[c][e] = inbox[c][e]
    BY <2>1, SettleFacts DEF ConsumerTypes
  <2>3. /\ queue[e] > 0 => queue'[e] > 0
        /\ f \in fresh[c] => queue'[f] > 0
    BY <2>1, ReturnsFacts
  <2>4. e = f /\ Keeps(c, e) => Comes(e)'
    BY <2>1, <2>3 DEF Keeps, Comes
  <2>5. e # f /\ Keeps(c, e) => Comes(e)'
    BY <2>2 DEF Keeps, Comes
  <2> QED
    BY <1>b, <2>2, <2>3, <2>4, <2>5 DEF Comes
<1>6. ASSUME NEW f \in Events, Expire(c, f) PROVE Comes(e)'
  <2>1. /\ f \in fresh[c] /\ Returns(c, f) /\ fresh' = [fresh EXCEPT ![c] = fresh[c] \ {f}]
        /\ UNCHANGED <<inbox, popped, taken>>
    BY <1>6 DEF Expire
  <2>2. /\ fresh'[c] = fresh[c] \ {f} /\ \A x \in Consumers : x # c => fresh'[x] = fresh[x]
    BY <2>1 DEF ConsumerTypes
  <2>3. (queue[e] > 0 => queue'[e] > 0) /\ queue'[f] > 0
    BY <2>1, ReturnsFacts
  <2>4. Keeps(c, e) => Comes(e)'
    BY <2>1, <2>2, <2>3 DEF Keeps, Comes
  <2> QED
    BY <1>b, <2>1, <2>2, <2>3, <2>4 DEF Comes
<1>7. CASE Forget(c)
  <2>1. /\ inbox' = inbox
        /\ popped' = [popped EXCEPT ![c] = <<>>] /\ taken' = [taken EXCEPT ![c] = {}]
        /\ fresh' = [fresh EXCEPT ![c] = {}]
    BY <1>7 DEF Forget
  <2>2. /\ taken'[c] = {}
        /\ \A x \in Consumers : x # c =>
              popped'[x] = popped[x] /\ taken'[x] = taken[x] /\ fresh'[x] = fresh[x]
    BY <2>1 DEF ConsumerTypes
  <2>3. queue[e] > 0 \/ e \in fresh[c] \/ (\E i \in DOMAIN popped[c] : popped[c][i] = e)
          => queue'[e] > 0
    BY <1>7, ForgetFacts
  <2>4. Keeps(c, e) => Comes(e)'
    BY <2>1, <2>2, <2>3 DEF Keeps, Comes
  <2> QED
    BY <1>b, <2>1, <2>2, <2>3, <2>4 DEF Comes
<1> QED
  BY <1>1, <1>2, <1>3, <1>4, <1>5, <1>6, <1>7

DeliveryInv == RowTypes /\ RowsFit /\ ConsumerTypes /\ ClaimsFit /\ TraceFits

LEMMA DeliveryInvariant == DSpec => []DeliveryInv
<1>1. DInit => DeliveryInv
  BY RowsInit, ConsumersInit, TraceInit DEF DeliveryInv
<1>2. DeliveryInv /\ [DNext]_vars => DeliveryInv'
  <2> SUFFICES ASSUME DeliveryInv, [DNext]_vars PROVE TraceFits'
    BY RowsStep, ConsumersStep DEF DeliveryInv
  <2>1. ASSUME NEW c \in Consumers,
               \/ \E b \in Batches : Pop(c, b)
               \/ Examine(c)
               \/ \E f \in Events : Handle(c, f) \/ Ack(c, f) \/ AckRaises(c, f)
                                    \/ Retry(c, f) \/ Expire(c, f)
               \/ Forget(c)
        PROVE  TraceFits'
    <3>1. UNCHANGED rows /\ served \subseteq served'
      BY <2>1 DEF Pop, Examine, Handle, Ack, AckRaises, Retry, Expire, Forget
    <3>2. ASSUME NEW e \in Events, Reached(e)', e \notin served' PROVE Comes(e)'
      <4>1. Comes(e)
        BY <3>1, <3>2 DEF DeliveryInv, TraceFits, Reached, rows
      <4> QED
        BY <2>1, <3>2, <4>1, TraceOfConsumer DEF DeliveryInv
    <3> QED
      BY <3>2 DEF TraceFits
  <2>2. CASE UNCHANGED vars
    BY <2>2 DEF vars, rows, memory, DeliveryInv, TraceFits, Reached, Comes, Keeps
  <2> QED
    BY <2>1, <2>2, TraceOfDispatchers DEF DNext, DeliveryInv
<1> QED
  BY <1>1, <1>2, PTL DEF DSpec

(* A published event that nobody has handled is on its way, or its loss can  *)
(* be found in the inbox table (dispatch_once, _claim_delivery, retry).      *)
THEOREM LossLeavesTraceCorrect == DSpec => []LossLeavesTrace
<1>1. DeliveryInv => LossLeavesTrace
  <2> SUFFICES ASSUME DeliveryInv, NEW e \in Events,
                      outbox[e] = "published", e \notin served, ~InFlight(e)
               PROVE  \E c \in Consumers : inbox[c][e] = "processing"
    BY DEF LossLeavesTrace
  <2>1. Comes(e)
    BY DEF DeliveryInv, TraceFits, Reached
  <2>2. ~(queue[e] > 0) /\ \A c \in Consumers :
           e \notin taken[c] /\ ~\E i \in DOMAIN popped[c] : popped[c][i] = e
    BY DEF InFlight
  <2>3. \A c \in Consumers : e \notin fresh[c]
    BY <2>2 DEF DeliveryInv, ClaimsFit, Claimed
  <2> QED
    BY <2>1, <2>2, <2>3 DEF Comes, Keeps
<1> QED
  BY <1>1, DeliveryInvariant, PTL

(* Type correctness of the outbox, the queue, the inbox and the consumers.   *)
THEOREM DeliveryTypeCorrect == DSpec => []DTypeOK
<1>1. DeliveryInv => DTypeOK
  BY DEF DeliveryInv, RowTypes, ConsumerTypes, ClaimsFit, Claimed, DTypeOK
<1> QED
  BY <1>1, DeliveryInvariant, PTL
-----------------------------------------------------------------------------
(* Delivery implements Handover.                                             *)

(* What a consumer remembers is what its rows say; and there is a copy only  *)
(* of an event that was committed.                                           *)
Committed(e) == outbox[e] # "absent"

HandsFit ==
  \A c \in Consumers, e \in Events :
    e \in taken[c] =>
      inbox[c][e] = "processing" \/ (inbox[c][e] = "consumed" /\ e \in done[c])

CopiesFit == \A e \in Events : InFlight(e) => Committed(e)

HandoverInv == DeliveryInv /\ HandsFit /\ CopiesFit

LEMMA HandoverInit == DInit => HandsFit /\ CopiesFit
<1> SUFFICES ASSUME DInit PROVE HandsFit /\ CopiesFit
  OBVIOUS
<1>1. HandsFit
  BY DEF DInit, HandsFit
<1>2. \A e \in Events : ~InFlight(e)
  BY DEF DInit, InFlight
<1> QED
  BY <1>1, <1>2 DEF CopiesFit

InPopped(c, e) == \E i \in DOMAIN popped[c] : popped[c][i] = e

LEMMA InFlightFrame ==
  ASSUME NEW c \in Consumers, NEW e \in Events, InFlight(e)',
         queue'[e] > 0 => InFlight(e), e \in taken'[c] => InFlight(e),
         InPopped(c, e)' => InFlight(e),
         \A x \in Consumers : x # c => taken'[x] = taken[x] /\ popped'[x] = popped[x]
  PROVE  InFlight(e)
<1>1. ASSUME NEW x \in Consumers, x # c, e \in taken'[x] \/ InPopped(x, e)' PROVE InFlight(e)
  BY <1>1 DEF InFlight, InPopped
<1> QED
  BY <1>1 DEF InFlight, InPopped

LEMMA ReturnsSource ==
  ASSUME ConsumerTypes, NEW c \in Consumers, NEW f \in Events, Returns(c, f),
         NEW e \in Events, queue'[e] > 0
  PROVE  queue[e] > 0 \/ (e = f /\ f \in fresh[c])
<1>1. CASE f \in fresh[c] /\ e = f
  BY <1>1
<1>2. CASE f \in fresh[c] /\ e # f
  BY <1>2 DEF Returns, ConsumerTypes
<1>3. CASE f \notin fresh[c]
  BY <1>3 DEF Returns
<1> QED
  BY <1>1, <1>2, <1>3

(* No step of a consumer makes a copy of an event that has none.             *)
LEMMA NoCopyFromNothing ==
  ASSUME ConsumerTypes, ClaimsFit, NEW c \in Consumers, NEW e \in Events, InFlight(e)',
         \/ \E b \in Batches : Pop(c, b)
         \/ Examine(c)
         \/ \E f \in Events : Handle(c, f) \/ Ack(c, f) \/ AckRaises(c, f)
                              \/ Retry(c, f) \/ Expire(c, f)
         \/ Forget(c)
  PROVE  InFlight(e)
<1>a. queue[e] \in Nat /\ popped[c] \in Seq(Events)
  BY DEF ConsumerTypes
<1>b. fresh[c] \subseteq taken[c] /\ taken[c] \subseteq Events
  BY DEF ConsumerTypes, ClaimsFit, Claimed
<1>c. (queue[e] > 0 \/ e \in taken[c] \/ InPopped(c, e)) => InFlight(e)
  BY DEF InFlight, InPopped
<1>1. ASSUME NEW b \in Batches, Pop(c, b) PROVE InFlight(e)
  <2>1. b \in Seq(Events)
    BY BatchIsSeq
  <2>2. /\ Copies(b, e) \in Nat /\ Copies(b, e) <= queue[e] /\ queue'[e] = queue[e] - Copies(b, e)
        /\ Copies(b, e) > 0 <=> \E i \in DOMAIN b : b[i] = e
    BY <1>1, <2>1, CopiesCount DEF Pop
  <2>3. /\ popped'[c] = b /\ taken' = taken
        /\ \A x \in Consumers : x # c => popped'[x] = popped[x]
    BY <1>1 DEF Pop, ConsumerTypes
  <2>4. queue'[e] > 0 => queue[e] > 0
    BY <1>a, <2>2
  <2>5. InPopped(c, e)' => queue[e] > 0
    <3>1. Copies(b, e) > 0 => queue[e] > 0
      BY <1>a, <2>2
    <3> QED
      BY <2>2, <2>3, <3>1 DEF InPopped
  <2> QED
    BY <1>c, <2>3, <2>4, <2>5, InFlightFrame
<1>2. CASE Examine(c)
  <2> DEFINE q == popped[c]
             t == Tail(q)
  <2>1. q # <<>> /\ popped'[c] = t /\ queue' = queue /\ taken'[c] \subseteq taken[c] \cup {Head(q)}
        /\ \A x \in Consumers : x # c => taken'[x] = taken[x] /\ popped'[x] = popped[x]
    BY <1>2 DEF Examine, ConsumerTypes
  <2>2. /\ t \in Seq(Events) /\ Len(t) = Len(q) - 1 /\ \A i \in 1..Len(t) : t[i] = q[i + 1]
        /\ DOMAIN q = 1..Len(q) /\ DOMAIN t = 1..Len(t) /\ Len(q) \in Nat /\ Len(q) > 0 /\ Head(q) = q[1]
    BY <1>a, <2>1, HeadTailProperties, LenProperties, EmptySeq
  <2> HIDE DEF t
  <2>3. InPopped(c, e)' => InPopped(c, e)
    <3> SUFFICES ASSUME NEW i \in DOMAIN t, t[i] = e PROVE \E j \in DOMAIN q : q[j] = e
      BY <2>1 DEF InPopped
    <3>1. i + 1 \in DOMAIN q /\ q[i + 1] = e
      BY <2>2
    <3> QED
      BY <3>1
  <2>4. e = Head(q) => InPopped(c, e)
    <3>1. 1 \in DOMAIN q
      BY <2>2
    <3> QED
      BY <2>2, <3>1 DEF InPopped
  <2> HIDE DEF q
  <2>5. e \in taken'[c] => InFlight(e)
    BY <1>c, <2>1, <2>4
  <2>6. queue'[e] > 0 => InFlight(e)
    BY <1>c, <2>1
  <2>7. InPopped(c, e)' => InFlight(e)
    BY <1>c, <2>3
  <2> QED
    BY <2>1, <2>5, <2>6, <2>7, InFlightFrame
<1>3. ASSUME NEW f \in Events, Handle(c, f) PROVE InFlight(e)
  BY <1>3 DEF Handle, InFlight
<1>4. ASSUME NEW f \in Events, Ack(c, f) \/ AckRaises(c, f) PROVE InFlight(e)
  <2>1. queue' = queue /\ (Settles(c, f) \/ UNCHANGED memory)
    BY <1>4 DEF Ack, AckRaises
  <2>2. popped' = popped /\ \A x \in Consumers : taken'[x] \subseteq taken[x]
    BY <2>1, SettleFacts DEF memory
  <2> QED
    BY <2>1, <2>2 DEF InFlight
<1>5. ASSUME NEW f \in Events, Retry(c, f) PROVE InFlight(e)
  <2>1. Settles(c, f) /\ Returns(c, f)
    BY <1>5 DEF Retry
  <2>2. queue'[e] > 0 => InFlight(e)
    BY <1>b, <1>c, <2>1, ReturnsSource
  <2>3. popped' = popped /\ \A x \in Consumers : taken'[x] \subseteq taken[x]
    BY <2>1, SettleFacts
  <2> QED
    BY <2>2, <2>3 DEF InFlight
<1>6. ASSUME NEW f \in Events, Expire(c, f) PROVE InFlight(e)
  <2>1. Returns(c, f) /\ UNCHANGED <<popped, taken>>
    BY <1>6 DEF Expire
  <2>2. queue'[e] > 0 => InFlight(e)
    BY <1>b, <1>c, <2>1, ReturnsSource
  <2> QED
    BY <2>1, <2>2 DEF InFlight
<1>7. CASE Forget(c)
  <2>1. /\ queue'[e] = queue[e] + Copies(popped[c], e) + (IF e \in fresh[c] THEN 1 ELSE 0)
        /\ taken'[c] = {} /\ popped'[c] = <<>>
        /\ \A x \in Consumers : x # c => taken'[x] = taken[x] /\ popped'[x] = popped[x]
    BY <1>7 DEF Forget, ConsumerTypes
  <2>2. Copies(popped[c], e) \in Nat /\ (Copies(popped[c], e) > 0 <=> InPopped(c, e))
    BY <1>a, CopiesCount DEF InPopped
  <2>3. queue'[e] > 0 => queue[e] > 0 \/ Copies(popped[c], e) > 0 \/ e \in fresh[c]
    BY <1>a, <2>1, <2>2
  <2>4. queue'[e] > 0 => InFlight(e)
    BY <1>b, <1>c, <2>2, <2>3
  <2>5. ~InPopped(c, e)'
    BY <2>1 DEF InPopped
  <2> QED
    BY <2>1, <2>4, <2>5, InFlightFrame
<1> QED
  BY <1>1, <1>2, <1>3, <1>4, <1>5, <1>6, <1>7

(* A row is committed for good; a copy is only published of a locked row.    *)
LEMMA CommittedStays ==
  ASSUME RowTypes, RowsFit, DNext, NEW e \in Events, Committed(e)
  PROVE  Committed(e)'
<1>1. ASSUME NEW f \in Events, Enqueue(f) PROVE Committed(e)'
  BY <1>1 DEF Enqueue, Committed, RowTypes
<1>2. ASSUME NEW d \in Dispatchers, CommitBatch(d) PROVE Committed(e)'
  BY <1>2 DEF CommitBatch, StatusAfter, Committed
<1>3. ASSUME NEW d \in Dispatchers, \/ \E S \in SUBSET Events : SelectBatch(d, S)
                                    \/ \E f \in Events : PublishRecord(d, f)
                                    \/ DispatcherDies(d)
      PROVE  Committed(e)'
  BY <1>3 DEF SelectBatch, PublishRecord, DispatcherDies, Committed
<1>4. ASSUME NEW c \in Consumers,
             \/ \E b \in Batches : Pop(c, b)
             \/ Examine(c)
             \/ \E f \in Events : Handle(c, f) \/ Ack(c, f) \/ AckRaises(c, f)
                                  \/ Retry(c, f) \/ Expire(c, f)
             \/ Forget(c)
      PROVE  Committed(e)'
  BY <1>4 DEF Pop, Examine, Handle, Ack, AckRaises, Retry, Expire, Forget, rows, Committed
<1> QED
  BY <1>1, <1>2, <1>3, <1>4 DEF DNext

LEMMA CopiesStep == DeliveryInv /\ CopiesFit /\ [DNext]_vars => CopiesFit'
<1> SUFFICES ASSUME DeliveryInv, CopiesFit, DNext, NEW e \in Events, InFlight(e)'
             PROVE  InFlight(e) \/ Committed(e)
  <2>1. CASE UNCHANGED vars
    BY <2>1 DEF vars, rows, memory, CopiesFit, InFlight, Committed
  <2> QED
    BY <2>1, CommittedStays DEF CopiesFit, DeliveryInv
<1>a. ASSUME UNCHANGED <<popped, taken>>, queue'[e] > 0 => queue[e] > 0 PROVE InFlight(e)
  BY <1>a DEF InFlight
<1>1. CASE \/ \E f \in Events : Enqueue(f)
           \/ \E d \in Dispatchers : \/ \E S \in SUBSET Events : SelectBatch(d, S)
                                     \/ CommitBatch(d)
                                     \/ DispatcherDies(d)
  BY <1>a, <1>1 DEF Enqueue, SelectBatch, CommitBatch, DispatcherDies, memory
<1>2. ASSUME NEW d \in Dispatchers, NEW f \in Events, PublishRecord(d, f)
      PROVE  InFlight(e) \/ Committed(e)
  <2>1. CASE e = f
    BY <1>2, <2>1 DEF PublishRecord, DeliveryInv, RowsFit, Committed
  <2>2. CASE e # f
    <3>1. UNCHANGED <<popped, taken>> /\ (Arrives(f) \/ UNCHANGED queue)
      BY <1>2 DEF PublishRecord, memory
    <3>2. queue'[e] = queue[e]
      BY <2>2, <3>1 DEF Arrives, DeliveryInv, ConsumerTypes
    <3> QED
      BY <1>a, <3>1, <3>2
  <2> QED
    BY <2>1, <2>2
<1> QED
  BY <1>1, <1>2, NoCopyFromNothing DEF DNext, DeliveryInv

LEMMA HandsStep == DeliveryInv /\ HandsFit /\ [DNext]_vars => HandsFit'
<1> SUFFICES ASSUME DeliveryInv, HandsFit, [DNext]_vars, NEW c \in Consumers, NEW e \in Events,
                    e \in taken'[c]
             PROVE  inbox'[c][e] = "processing" \/ (inbox'[c][e] = "consumed" /\ e \in done'[c])
  BY DEF HandsFit
<1> USE DEF HandsFit
<1>t. ConsumerTypes /\ \A x \in Consumers, f \in Events : Claimed(x, f)
  BY DEF DeliveryInv, ClaimsFit
<1>a. ASSUME inbox'[c][e] = inbox[c][e], taken'[c] \subseteq taken[c],
             e \in done[c] => e \in done'[c]
      PROVE  inbox'[c][e] = "processing" \/ (inbox'[c][e] = "consumed" /\ e \in done'[c])
  BY <1>a
<1>1. CASE \/ \E f \in Events : Enqueue(f)
           \/ \E d \in Dispatchers : \/ \E S \in SUBSET Events : SelectBatch(d, S)
                                     \/ \E f \in Events : PublishRecord(d, f)
                                     \/ CommitBatch(d)
                                     \/ DispatcherDies(d)
  BY <1>a, <1>1 DEF Enqueue, SelectBatch, PublishRecord, CommitBatch, DispatcherDies, memory
<1>2. ASSUME NEW x \in Consumers, \/ \E b \in Batches : Pop(x, b)
                                  \/ \E f \in Events : Expire(x, f)
      PROVE  UNCHANGED <<inbox, taken, done>>
  BY <1>2 DEF Pop, Expire
<1>3. ASSUME NEW x \in Consumers, Examine(x)
      PROVE  inbox'[c][e] = "processing" \/ (inbox'[c][e] = "consumed" /\ e \in done'[c])
  <2> DEFINE h == Head(popped[x])
  <2>1. h \in Events /\ done' = done
    BY <1>3, <1>t, ExamineFacts DEF Examine
  <2>2. \/ /\ inbox' = [inbox EXCEPT ![x] = [inbox[x] EXCEPT ![h] = "processing"]]
           /\ taken' = [taken EXCEPT ![x] = taken[x] \cup {h}]
        \/ UNCHANGED <<inbox, taken>>
    BY <1>3, <1>t DEF Examine, ConsumerTypes
  <2> HIDE DEF h
  <2>3. CASE x = c /\ e = h
    BY <1>t, <2>1, <2>2, <2>3 DEF ConsumerTypes
  <2>4. CASE ~(x = c /\ e = h)
    <3>1. inbox'[c][e] = inbox[c][e] /\ e \in taken[c]
      BY <1>t, <2>1, <2>2, <2>4 DEF ConsumerTypes
    <3> QED
      BY <2>1, <3>1
  <2> QED
    BY <2>3, <2>4
<1>4. ASSUME NEW x \in Consumers, NEW f \in Events, Handle(x, f)
      PROVE  inbox'[c][e] = "processing" \/ (inbox'[c][e] = "consumed" /\ e \in done'[c])
  <2>1. /\ f \notin done[x] /\ done[x] \subseteq {f} /\ done' = [done EXCEPT ![x] = {f}]
        /\ UNCHANGED <<inbox, taken>>
    BY <1>4 DEF Handle, Handling
  <2>2. e \in done[c] => e \in done'[c]
    BY <1>t, <2>1 DEF ConsumerTypes
  <2> QED
    BY <1>a, <2>1, <2>2
<1>5. ASSUME NEW x \in Consumers, NEW f \in Events, Ack(x, f) \/ AckRaises(x, f)
      PROVE  inbox'[c][e] = "processing" \/ (inbox'[c][e] = "consumed" /\ e \in done'[c])
  <2>1. /\ Settles(x, f) \/ UNCHANGED memory
        /\ inbox' = [inbox EXCEPT ![x] = [inbox[x] EXCEPT ![f] = "consumed"]]
    BY <1>5, <1>t DEF Ack, AckRaises, ConsumerTypes
  <2>2. f \in done[x]
    BY <1>5 DEF Ack, AckRaises
  <2>3. CASE x = c
    <3>1. \A g \in done[c] : g = f
      BY <1>t, <2>2, <2>3 DEF Claimed
    <3>2. CASE e = f
      <4>1. inbox'[c][e] = "consumed" /\ done'[c] = done[c]
        BY <1>t, <2>1, <2>3, <3>2, SettleFacts DEF ConsumerTypes, memory
      <4> QED
        BY <2>2, <2>3, <3>2, <4>1
    <3>3. CASE e # f
      <4>1. inbox'[c][e] = inbox[c][e] /\ e \in taken[c] /\ e \notin done[c]
        BY <1>t, <2>1, <2>3, <3>1, <3>3, SettleFacts DEF ConsumerTypes, memory
      <4> QED
        BY <4>1
    <3> QED
      BY <3>2, <3>3
  <2>4. CASE x # c
    <3>1. inbox'[c] = inbox[c] /\ taken'[c] = taken[c] /\ done'[c] = done[c]
      BY <1>t, <2>1, <2>4, SettleFacts DEF ConsumerTypes, memory
    <3> QED
      BY <3>1
  <2> QED
    BY <2>3, <2>4
<1>6. ASSUME NEW x \in Consumers, NEW f \in Events, Retry(x, f)
      PROVE  inbox'[c][e] = "processing" \/ (inbox'[c][e] = "consumed" /\ e \in done'[c])
  <2>1. /\ done[x] \subseteq {f} /\ Settles(x, f)
        /\ \/ inbox' = [inbox EXCEPT ![x] = [inbox[x] EXCEPT ![f] = "none"]]
           \/ inbox' = inbox
    BY <1>6, <1>t DEF Retry, Handling, ConsumerTypes
  <2>2. CASE x = c
    <3>1. e # f /\ e \in taken[c]
      BY <1>t, <2>1, <2>2, SettleFacts
    <3>2. inbox'[c][e] = inbox[c][e] /\ e \notin done[c]
      BY <1>t, <2>1, <2>2, <3>1 DEF ConsumerTypes
    <3> QED
      BY <3>1, <3>2
  <2>3. CASE x # c
    <3>1. inbox'[c] = inbox[c] /\ taken'[c] = taken[c] /\ done'[c] = done[c]
      BY <1>t, <2>1, <2>3, SettleFacts DEF ConsumerTypes
    <3> QED
      BY <3>1
  <2> QED
    BY <2>2, <2>3
<1>7. ASSUME NEW x \in Consumers, Forget(x)
      PROVE  inbox'[c][e] = "processing" \/ (inbox'[c][e] = "consumed" /\ e \in done'[c])
  <2>1. /\ inbox' = inbox /\ taken' = [taken EXCEPT ![x] = {}] /\ done' = [done EXCEPT ![x] = {}]
    BY <1>7 DEF Forget
  <2>2. x # c /\ taken'[c] = taken[c] /\ done'[c] = done[c]
    BY <1>t, <2>1 DEF ConsumerTypes
  <2> QED
    BY <2>1, <2>2
<1>8. CASE UNCHANGED vars
  BY <1>8 DEF vars, memory
<1> QED
  BY <1>a, <1>1, <1>2, <1>3, <1>4, <1>5, <1>6, <1>7, <1>8 DEF DNext

LEMMA HandoverInvariant == DSpec => []HandoverInv
<1>1. DInit => HandsFit /\ CopiesFit
  BY HandoverInit
<1>2. DeliveryInv /\ HandsFit /\ CopiesFit /\ [DNext]_vars => HandsFit' /\ CopiesFit'
  BY HandsStep, CopiesStep
<1>3. DSpec => [](HandsFit /\ CopiesFit)
  BY <1>1, <1>2, DeliveryInvariant, PTL DEF DSpec
<1>4. DeliveryInv /\ HandsFit /\ CopiesFit => HandoverInv
  BY DEF HandoverInv
<1> QED
  BY <1>3, <1>4, DeliveryInvariant, PTL
-----------------------------------------------------------------------------
(* How the steps map.                                                        *)

LEMMA ClaimOf ==
  ASSUME NEW c \in Consumers, NEW e \in Events
  PROVE  Claims[c][e] = Claim(c, e) /\ Claims'[c][e] = Claim(c, e)'
BY DEF Claims

(* A step that moves one claim is one that changes the claims at one place.  *)
LEMMA OneClaimMoves ==
  ASSUME NEW c \in Consumers, NEW e \in Events, NEW to, Claim(c, e)' = to,
         \A x \in Consumers, f \in Events : x # c \/ f # e => Claim(x, f)' = Claim(x, f)
  PROVE  Claims' = [Claims EXCEPT ![c][e] = to]
<1> DEFINE K == [Claims EXCEPT ![c][e] = to]
<1>1. Claims = [x \in Consumers |-> [f \in Events |-> Claim(x, f)]]
  BY DEF Claims
<1>2. Claims' = [x \in Consumers |-> [f \in Events |-> Claim(x, f)']]
  BY DEF Claims
<1>3. K = [x \in Consumers |-> [f \in Events |-> IF x = c /\ f = e THEN to ELSE Claim(x, f)]]
  BY <1>1
<1>4. \A x \in Consumers, f \in Events :
        Claim(x, f)' = IF x = c /\ f = e THEN to ELSE Claim(x, f)
  OBVIOUS
<1> HIDE DEF K
<1>5. Claims' = K
  BY <1>2, <1>3, <1>4
<1> QED
  BY <1>5 DEF K

LEMMA NoClaimMoves ==
  ASSUME \A x \in Consumers, f \in Events : Claim(x, f)' = Claim(x, f)
  PROVE  Claims' = Claims
<1>1. Claims = [x \in Consumers |-> [f \in Events |-> Claim(x, f)]]
  BY DEF Claims
<1>2. Claims' = [x \in Consumers |-> [f \in Events |-> Claim(x, f)']]
  BY DEF Claims
<1> QED
  BY <1>1, <1>2

LEMMA ClaimFrameOf ==
  ASSUME NEW x \in Consumers, NEW f \in Events, inbox'[x][f] = inbox[x][f],
         f \in taken'[x] <=> f \in taken[x], f \in done'[x] <=> f \in done[x]
  PROVE  Claim(x, f)' = Claim(x, f)
BY DEF Claim

LEMMA HandoverStarts == DInit => Promise!HInit
<1> SUFFICES ASSUME DInit PROVE Promise!HInit
  OBVIOUS
<1>1. \A c \in Consumers, e \in Events : Claim(c, e) = "none"
  BY DEF DInit, Claim
<1>2. Claims = [c \in Consumers |-> [e \in Events |-> "none"]]
  BY <1>1 DEF Claims
<1> QED
  BY <1>2 DEF DInit, Promise!HInit

(* A dispatcher closes rows and has no claims.                               *)
LEMMA HandoverOfDispatchers ==
  ASSUME RowTypes, RowsFit, NEW d \in Dispatchers,
         \/ \E S \in SUBSET Events : SelectBatch(d, S)
         \/ \E e \in Events : PublishRecord(d, e)
         \/ CommitBatch(d)
         \/ DispatcherDies(d)
  PROVE  Promise!HNext \/ UNCHANGED <<outbox, Claims>>
<1>a. Claims' = Claims
  <2>1. UNCHANGED <<inbox, memory>>
    BY DEF SelectBatch, PublishRecord, CommitBatch, DispatcherDies
  <2>2. \A x \in Consumers, f \in Events : Claim(x, f)' = Claim(x, f)
    BY <2>1 DEF Claim, memory
  <2> QED
    BY <2>2, NoClaimMoves
<1>1. CASE CommitBatch(d)
  <2>1. outbox' = [e \in Events |-> StatusAfter(e, batch[d][e])]
    BY <1>1 DEF CommitBatch
  <2>2. ASSUME NEW e \in Events
        PROVE  /\ outbox'[e] \in RowStatus
               /\ outbox'[e] # outbox[e] => outbox[e] = "pending" /\ outbox'[e] \in {"published", "failed"}
    <3>1. outbox[e] \in RowStatus /\ batch[d][e] \in Outcome
      BY DEF RowTypes
    <3>2. batch[d][e] # "none" => outbox[e] = "pending"
      BY DEF RowsFit
    <3>3. outbox'[e] = StatusAfter(e, batch[d][e])
      BY <2>1
    <3>4. CASE batch[d][e] = "raised"
      <4>1. outbox'[e] \in {"failed", "pending"} /\ outbox[e] = "pending"
        BY <3>2, <3>3, <3>4 DEF StatusAfter
      <4> QED
        BY <4>1 DEF RowStatus
    <3>5. CASE batch[d][e] = "sent"
      BY <3>2, <3>3, <3>5 DEF StatusAfter, RowStatus
    <3>6. CASE batch[d][e] \notin {"sent", "raised"}
      <4>1. outbox'[e] = outbox[e]
        BY <3>3, <3>6 DEF StatusAfter
      <4> QED
        BY <3>1, <4>1
    <3> QED
      BY <3>4, <3>5, <3>6
  <2>3. Promise!Close
    BY <2>1, <2>2 DEF Promise!Close, RowStatus
  <2> QED
    BY <1>a, <2>3 DEF Promise!HNext
<1>2. CASE \/ \E S \in SUBSET Events : SelectBatch(d, S)
           \/ \E e \in Events : PublishRecord(d, e)
           \/ DispatcherDies(d)
  BY <1>2, <1>a DEF SelectBatch, PublishRecord, DispatcherDies
<1> QED
  BY <1>1, <1>2

(* A consumer's steps: each is at most one move of one claim, but for a loss *)
(* of memory, which moves all the consumer holds.                            *)
LEMMA HandoverOfConsumers ==
  ASSUME HandoverInv, NEW c \in Consumers,
         \/ \E b \in Batches : Pop(c, b)
         \/ Examine(c)
         \/ \E e \in Events : Handle(c, e) \/ Ack(c, e) \/ AckRaises(c, e)
                              \/ Retry(c, e) \/ Expire(c, e)
         \/ Forget(c)
  PROVE  Promise!HNext \/ UNCHANGED <<outbox, Claims>>
<1>t. /\ ConsumerTypes
      /\ \A x \in Consumers, f \in Events : Claimed(x, f)
      /\ \A f \in Events : f \in taken[c] =>
           inbox[c][f] = "processing" \/ (inbox[c][f] = "consumed" /\ f \in done[c])
      /\ \A f \in Events : InFlight(f) => Committed(f)
  BY DEF HandoverInv, DeliveryInv, ClaimsFit, HandsFit, CopiesFit
<1>s. outbox' = outbox
  BY DEF Pop, Examine, Handle, Ack, AckRaises, Retry, Expire, Forget, rows
<1>m. ASSUME NEW e \in Events,
             \/ Promise!Accept(c, e) \/ Promise!Run(c, e) \/ Promise!Finish(c, e)
             \/ Promise!GiveBack(c, e)
      PROVE  Promise!HNext
  BY <1>s, <1>m DEF Promise!HNext
<1>1. CASE \/ \E b \in Batches : Pop(c, b)
           \/ \E e \in Events : Expire(c, e)
  <2>1. UNCHANGED <<inbox, taken, done>>
    BY <1>1 DEF Pop, Expire
  <2> QED
    BY <1>s, <2>1, NoClaimMoves, ClaimFrameOf
<1>2. CASE Examine(c)
  <2>0. PICK h \in Events : h = Head(popped[c])
    BY <1>2, <1>t, ExamineFacts
  <2>1. /\ done' = done
        /\ \/ /\ inbox[c][h] = "none"
              /\ inbox' = [inbox EXCEPT ![c] = [inbox[c] EXCEPT ![h] = "processing"]]
              /\ taken' = [taken EXCEPT ![c] = taken[c] \cup {h}]
           \/ UNCHANGED <<inbox, taken>>
    BY <1>2, <1>t, <2>0 DEF Examine, Claimable, ConsumerTypes
  <2>2. \E i \in DOMAIN popped[c] : popped[c][i] = h
    <3>1. popped[c] \in Seq(Events) /\ popped[c] # <<>>
      BY <1>2, <1>t DEF Examine, ConsumerTypes
    <3>2. Len(popped[c]) \in Nat /\ Len(popped[c]) > 0 /\ DOMAIN popped[c] = 1..Len(popped[c])
      BY <3>1, LenProperties, EmptySeq
    <3>3. 1 \in DOMAIN popped[c] /\ h = popped[c][1]
      BY <2>0, <3>1, <3>2, HeadTailProperties
    <3> QED
      BY <3>3
  <2>3. Committed(h)
    BY <1>t, <2>1, <2>2 DEF InFlight
  <2>4. CASE UNCHANGED <<inbox, taken>>
    BY <1>s, <2>1, <2>4, NoClaimMoves, ClaimFrameOf
  <2>5. CASE /\ inbox[c][h] = "none"
             /\ inbox' = [inbox EXCEPT ![c] = [inbox[c] EXCEPT ![h] = "processing"]]
             /\ taken' = [taken EXCEPT ![c] = taken[c] \cup {h}]
    <3>1. h \notin done[c]
      BY <1>t, <2>1, <2>5 DEF Claimed
    <3>2. Claim(c, h)' = "accepted"
      <4>1. inbox'[c][h] = "processing" /\ h \in taken'[c] /\ h \notin done'[c]
        BY <1>t, <2>1, <2>5, <3>1 DEF ConsumerTypes
      <4> QED
        BY <4>1 DEF Claim
    <3>3. ASSUME NEW x \in Consumers, NEW f \in Events, x # c \/ f # h
          PROVE  Claim(x, f)' = Claim(x, f)
      <4>1. inbox'[x][f] = inbox[x][f] /\ (f \in taken'[x] <=> f \in taken[x])
        BY <1>t, <2>1, <2>5, <3>3 DEF ConsumerTypes
      <4> QED
        BY <2>1, <4>1, ClaimFrameOf
    <3>4. Claims' = [Claims EXCEPT ![c][h] = "accepted"]
      BY <2>1, <3>2, <3>3, OneClaimMoves
    <3>5. Claims[c][h] = "none"
      BY <2>1, <2>5, ClaimOf DEF Claim
    <3>6. Promise!Accept(c, h)
      BY <2>3, <3>4, <3>5 DEF Promise!Accept, Promise!Advance, Committed
    <3> QED
      BY <1>m, <2>1, <3>6
  <2> QED
    BY <2>1, <2>4, <2>5
<1>3. ASSUME NEW e \in Events, Handle(c, e) PROVE Promise!HNext
  <2>1. /\ e \in taken[c] /\ e \notin done[c] /\ done[c] \subseteq {e}
        /\ done' = [done EXCEPT ![c] = {e}] /\ UNCHANGED <<inbox, taken>>
    BY <1>3 DEF Handle, Handling
  <2>2. done'[c] = {e} /\ done[c] = {} /\ \A x \in Consumers : x # c => done'[x] = done[x]
    BY <1>t, <2>1 DEF ConsumerTypes
  <2>3. inbox[c][e] = "processing"
    BY <1>t, <2>1
  <2>4. Claim(c, e) = "accepted" /\ Claim(c, e)' = "run"
    BY <2>1, <2>2, <2>3 DEF Claim
  <2>5. \A x \in Consumers, f \in Events : x # c \/ f # e => Claim(x, f)' = Claim(x, f)
    BY <2>1, <2>2, ClaimFrameOf
  <2>6. Claims' = [Claims EXCEPT ![c][e] = "run"] /\ Claims[c][e] = "accepted"
    BY <2>4, <2>5, OneClaimMoves, ClaimOf
  <2>7. Promise!Run(c, e)
    BY <2>6 DEF Promise!Run, Promise!Advance
  <2> QED
    BY <1>m, <2>7
<1>4. ASSUME NEW e \in Events, Ack(c, e) \/ AckRaises(c, e) PROVE Promise!HNext
  <2>1. /\ e \in done[c] /\ inbox[c][e] = "processing"
        /\ inbox' = [inbox EXCEPT ![c] = [inbox[c] EXCEPT ![e] = "consumed"]]
        /\ Settles(c, e) \/ UNCHANGED memory
    BY <1>4, <1>t DEF Ack, AckRaises, ConsumerTypes
  <2>2. e \in taken[c] /\ \A f \in done[c] : f = e
    BY <1>t, <2>1 DEF Claimed
  <2>3. Claim(c, e) = "run"
    BY <2>1, <2>2 DEF Claim
  <2>4. Claim(c, e)' = "finished"
    <3>1. inbox'[c][e] = "consumed"
      BY <1>t, <2>1 DEF ConsumerTypes
    <3> QED
      BY <3>1 DEF Claim
  <2>5. ASSUME NEW x \in Consumers, NEW f \in Events, x # c \/ f # e
        PROVE  Claim(x, f)' = Claim(x, f)
    <3>1. inbox'[x][f] = inbox[x][f]
      BY <1>t, <2>1, <2>5 DEF ConsumerTypes
    <3>2. (f \in taken'[x] <=> f \in taken[x]) /\ (f \in done'[x] <=> f \in done[x])
      BY <1>t, <2>1, <2>2, <2>5, SettleFacts DEF memory, ConsumerTypes
    <3> QED
      BY <3>1, <3>2, ClaimFrameOf
  <2>6. Claims' = [Claims EXCEPT ![c][e] = "finished"] /\ Claims[c][e] = "run"
    BY <2>3, <2>4, <2>5, OneClaimMoves, ClaimOf
  <2>7. Promise!Finish(c, e)
    BY <2>6 DEF Promise!Finish, Promise!Advance
  <2> QED
    BY <1>m, <2>7
<1>5. ASSUME NEW e \in Events, Retry(c, e) PROVE Promise!HNext \/ UNCHANGED <<outbox, Claims>>
  <2>1. /\ e \in taken[c] /\ done[c] \subseteq {e} /\ Settles(c, e)
        /\ \/ /\ inbox[c][e] = "processing"
              /\ inbox' = [inbox EXCEPT ![c] = [inbox[c] EXCEPT ![e] = "none"]]
           \/ inbox[c][e] # "processing" /\ inbox' = inbox
    BY <1>5, <1>t DEF Retry, Handling, ConsumerTypes
  <2>2. ASSUME NEW x \in Consumers, NEW f \in Events, x # c \/ f # e
        PROVE  Claim(x, f)' = Claim(x, f)
    <3>1. inbox'[x][f] = inbox[x][f]
      BY <1>t, <2>1, <2>2 DEF ConsumerTypes
    <3>2. (f \in taken'[x] <=> f \in taken[x]) /\ (f \in done'[x] <=> f \in done[x])
      BY <1>t, <2>1, <2>2, SettleFacts
    <3> QED
      BY <3>1, <3>2, ClaimFrameOf
  <2>3. CASE inbox[c][e] = "processing"
    <3>1. Claim(c, e)' = "none"
      <4>1. inbox'[c][e] = "none"
        BY <1>t, <2>1, <2>3 DEF ConsumerTypes
      <4> QED
        BY <4>1 DEF Claim
    <3>2. Claim(c, e) \in {"accepted", "run"}
      BY <2>1, <2>3 DEF Claim
    <3>3. Claims' = [Claims EXCEPT ![c][e] = "none"] /\ Claims[c][e] \in {"accepted", "run"}
      BY <2>2, <3>1, <3>2, OneClaimMoves, ClaimOf
    <3>4. Promise!GiveBack(c, e)
      BY <3>3 DEF Promise!GiveBack, Promise!Advance, Promise!Held
    <3> QED
      BY <1>m, <3>4
  <2>4. CASE inbox[c][e] # "processing"
    <3>1. inbox[c][e] = "consumed" /\ inbox' = inbox
      BY <1>t, <2>1, <2>4
    <3>2. Claim(c, e)' = Claim(c, e)
      BY <3>1 DEF Claim
    <3> QED
      BY <1>s, <2>2, <3>2, NoClaimMoves
  <2> QED
    BY <2>3, <2>4
<1>6. CASE Forget(c)
  <2>1. inbox' = inbox /\ taken' = [taken EXCEPT ![c] = {}] /\ done' = [done EXCEPT ![c] = {}]
    BY <1>6 DEF Forget
  <2>2. /\ taken'[c] = {} /\ done'[c] = {}
        /\ \A x \in Consumers : x # c => taken'[x] = taken[x] /\ done'[x] = done[x]
    BY <1>t, <2>1 DEF ConsumerTypes
  <2>3. ASSUME NEW f \in Events
        PROVE  Claim(c, f)' = IF Claim(c, f) \in {"accepted", "run"} THEN "lost" ELSE Claim(c, f)
    BY <1>t, <2>1, <2>2 DEF Claim
  <2>4. ASSUME NEW x \in Consumers, x # c, NEW f \in Events PROVE Claim(x, f)' = Claim(x, f)
    BY <2>1, <2>2, <2>4, ClaimFrameOf
  <2> DEFINE K == [f \in Events |-> IF Claims[c][f] \in {"accepted", "run"} THEN "lost" ELSE Claims[c][f]]
  <2>5. K = [f \in Events |-> Claim(c, f)']
    BY <2>3, ClaimOf
  <2>6. Claims' = [Claims EXCEPT ![c] = K]
    <3>1. Claims' = [x \in Consumers |-> [f \in Events |-> Claim(x, f)']]
      BY DEF Claims
    <3>2. \A x \in Consumers : x # c => Claims[x] = [f \in Events |-> Claim(x, f)']
      BY <2>4 DEF Claims
    <3>3. Claims = [x \in Consumers |-> Claims[x]]
      BY DEF Claims
    <3> HIDE DEF K
    <3> QED
      BY <2>5, <3>1, <3>2, <3>3
  <2>7. Promise!Lose(c)
    BY <2>6 DEF Promise!Lose, Promise!Held
  <2> QED
    BY <1>s, <2>7 DEF Promise!HNext
<1> QED
  BY <1>1, <1>2, <1>3, <1>4, <1>5, <1>6

(* Whatever happens to copies, rows and consumers, the message hub hands     *)
(* events over as Handover says (dispatch_once, receive, ack, retry).        *)
THEOREM DeliveryImplementsHandover == DSpec => ImplementsHandover
<1>1. DInit => Promise!HInit
  BY HandoverStarts
<1>2. HandoverInv /\ [DNext]_vars => [Promise!HNext]_Promise!hvars
  <2> SUFFICES ASSUME HandoverInv, [DNext]_vars PROVE Promise!HNext \/ UNCHANGED <<outbox, Claims>>
    BY DEF Promise!hvars
  <2>1. CASE UNCHANGED vars
    <3>1. UNCHANGED <<outbox, inbox, taken, done>>
      BY <2>1 DEF vars, rows, memory
    <3> QED
      BY <3>1, NoClaimMoves, ClaimFrameOf
  <2>2. CASE \E e \in Events : Enqueue(e)
    <3>1. Claims' = Claims
      <4>1. UNCHANGED <<inbox, taken, done>>
        BY <2>2 DEF Enqueue, memory
      <4> QED
        BY <4>1, NoClaimMoves, ClaimFrameOf
    <3> QED
      BY <2>2, <3>1 DEF Enqueue, Promise!HNext, Promise!Post
  <2>3. ASSUME NEW d \in Dispatchers, \/ \E S \in SUBSET Events : SelectBatch(d, S)
                                      \/ \E e \in Events : PublishRecord(d, e)
                                      \/ CommitBatch(d)
                                      \/ DispatcherDies(d)
        PROVE  Promise!HNext \/ UNCHANGED <<outbox, Claims>>
    BY <2>3, HandoverOfDispatchers DEF HandoverInv, DeliveryInv
  <2>4. ASSUME NEW c \in Consumers,
               \/ \E b \in Batches : Pop(c, b)
               \/ Examine(c)
               \/ \E e \in Events : Handle(c, e) \/ Ack(c, e) \/ AckRaises(c, e)
                                    \/ Retry(c, e) \/ Expire(c, e)
               \/ Forget(c)
        PROVE  Promise!HNext \/ UNCHANGED <<outbox, Claims>>
    BY <2>4, HandoverOfConsumers
  <2> QED
    BY <2>1, <2>2, <2>3, <2>4 DEF DNext
<1> QED
  BY <1>1, <1>2, HandoverInvariant, PTL DEF DSpec, ImplementsHandover, Promise!HSpec
=============================================================================
