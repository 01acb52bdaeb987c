-------------------------- MODULE DagSchedulerProofs --------------------------
(* Theorems about DagScheduler and its refinement of TaskBoard, for every  *)
(* set of tasks, runtimes, cards and plans and every number of attempts.   *)
EXTENDS SchedulerBoard, FiniteSetTheorems, WellFoundedInduction, TLAPS

(* The key of a claim: an attempt number after the last one of the task's  *)
(* execution, or the first of a new execution.                             *)
LEMMA NextKeysType ==
  ASSUME TypeOK, NEW t \in Tasks, NEW k \in NextKeys(t)
  PROVE  k \in Key
<1>1. CASE task[t].key = NoKey
  BY <1>1 DEF NextKeys, Key
<1>2. CASE task[t].key # NoKey
  <2>1. task[t].key \in Key
    BY <1>2 DEF TypeOK, TaskRow
  <2>2. k = <<task[t].key[1], task[t].key[2] + 1>>
    BY <1>2 DEF NextKeys
  <2> QED BY <2>1, <2>2 DEF Key
<1> QED BY <1>1, <1>2

LEMMA CardForType ==
  ASSUME TypeOK, NEW t \in Tasks, NEW c \in CardFor(t)
  PROVE  c \in Cards
BY DEF CardFor, ResolveActiveCard, LoadFrozenCard, TypeOK

(* blocked_by_count as recounted is a number.                              *)
LEMMA RemainingType ==
  ASSUME NEW tb, NEW d
  PROVE  /\ Remaining(tb, d) \in Nat
         /\ Remaining(tb, d) = 0 =>
              \A b \in Tasks : <<d, b>> \in deps => tb[b].status = "completed"
<1> DEFINE B == {b \in Tasks : <<d, b>> \in deps /\ tb[b].status # "completed"}
<1>1. IsFiniteSet(B)
  BY ConstantsAssumption, FS_Subset
<1>2. Cardinality(B) \in Nat /\ (Cardinality(B) = 0 <=> B = {})
  BY <1>1, FS_CardinalityType, FS_EmptySet
<1> QED BY <1>2 DEF Remaining

(* A non-empty set of positions of a list has a last one.                  *)
LEMMA LastPosition ==
  ASSUME NEW n \in Nat, NEW A \in SUBSET (1..n), A # {}
  PROVE  \E i \in A : \A j \in A : j <= i
<1> DEFINE B == {n - i : i \in A}
           R == {e \in Nat \X Nat : e[1] < e[2]}
<1>1. IsWellFoundedOn(R, Nat)
  BY NatLessThanWellFounded DEF OpToRel
<1>2. B \subseteq Nat /\ B # {}
  <2>1. \A i \in A : n - i \in Nat
    OBVIOUS
  <2> QED BY <2>1
<1>3. PICK x \in B : \A y \in B : ~ (<<y, x>> \in R)
  <2> HIDE DEF R, B
  <2> QED BY <1>1, <1>2, WFMin
<1>4. PICK i \in A : x = n - i
  OBVIOUS
<1>5. ASSUME NEW j \in A PROVE j <= i
  <2>1. n - j \in B /\ n - j \in Nat /\ x \in Nat
    BY <1>2
  <2>2. ~ (n - j < x)
    BY <1>3, <2>1
  <2> QED BY <1>4, <2>1, <2>2
<1> QED BY <1>5

LEMMA PlanRowType ==
  ASSUME NEW p \in Plans, NEW t \in PlanTasks(p)
  PROVE  /\ LastRow(p, t) \in DOMAIN p
         /\ p[LastRow(p, t)].id = t
         /\ p[LastRow(p, t)].blockedBy \in Seq(Tasks)
<1> DEFINE At == {i \in DOMAIN p : p[i].id = t}
<1>1. p \in Seq([id : Tasks, blockedBy : Seq(Tasks)])
  BY PlansAssumption
<1>2. DOMAIN p = 1..Len(p) /\ Len(p) \in Nat
  BY <1>1
<1>3. At # {} /\ At \in SUBSET (1..Len(p))
  BY <1>2 DEF PlanTasks
<1>4. \E i \in At : \A j \in At : j <= i
  <2> HIDE DEF At
  <2> QED BY <1>2, <1>3, LastPosition
<1>5. LastRow(p, t) \in DOMAIN p /\ p[LastRow(p, t)].id = t
  BY <1>4 DEF LastRow
<1>6. p[LastRow(p, t)] \in [id : Tasks, blockedBy : Seq(Tasks)]
  <2> DEFINE Row == [id : Tasks, blockedBy : Seq(Tasks)]
  <2> HIDE DEF Row
  <2>1. p \in Seq(Row)
    BY <1>1 DEF Row
  <2>2. p[LastRow(p, t)] \in Row
    BY <1>2, <1>5, <2>1
  <2> QED BY <2>2 DEF Row
<1> QED BY <1>5, <1>6

LEMMA PlanTasksType == ASSUME NEW p \in Plans PROVE PlanTasks(p) \subseteq Tasks
<1> DEFINE Row == [id : Tasks, blockedBy : Seq(Tasks)]
<1>1. \A i \in DOMAIN p : p[i] \in Row
  <2> HIDE DEF Row
  <2>1. p \in Seq(Row)
    BY PlansAssumption DEF Row
  <2> QED BY <2>1
<1> QED BY <1>1 DEF PlanTasks
-----------------------------------------------------------------------------
LEMMA EndRowsType ==
  ASSUME TypeOK, NEW k \in DOMAIN execs,
         NEW es \in TerminalStatus, NEW ts \in TaskStatus
  PROVE  /\ DOMAIN EndExec(k, es) = DOMAIN execs
         /\ EndExec(k, es) \in [DOMAIN execs -> ExecRow]
         /\ EndTask(k, ts) \in [Tasks -> TaskRow]
         /\ SetUnloading(k) \in [Runtimes -> RuntimeRow]
<1>1. EndExec(k, es) \in [DOMAIN execs -> ExecRow]
  BY DEF TypeOK, EndExec, ExecRow
<1>2. EndTask(k, ts) \in [Tasks -> TaskRow]
  BY DEF TypeOK, EndTask, ExecRow, TaskRow
<1>3. SetUnloading(k) \in [Runtimes -> RuntimeRow]
  BY DEF TypeOK, SetUnloading, RuntimeRow, RuntimeStatus
<1> QED BY <1>1, <1>2, <1>3 DEF EndExec

LEMMA InitTypeOK == Init => TypeOK
BY DEF Init, TypeOK, TaskRow, RuntimeRow, TaskStatus, RuntimeStatus

LEMMA NextTypeOK == TypeOK /\ [Next]_vars => TypeOK'
<1> SUFFICES ASSUME TypeOK, [Next]_vars PROVE TypeOK'
  OBVIOUS
<1>1. ASSUME NEW p \in Plans, Publish(p) PROVE TypeOK'
  <2>1. task' \in [Tasks -> TaskRow]
    <3> SUFFICES ASSUME NEW t \in Tasks PROVE task'[t] \in TaskRow
      BY <1>1 DEF Publish
    <3>1. CASE t \in PlanTasks(p)
      <4>1. Len(p[LastRow(p, t)].blockedBy) \in Nat
        BY <3>1, PlanRowType
      <4> QED BY <1>1, <3>1, <4>1 DEF Publish, TaskRow, TaskStatus
    <3>2. CASE t \notin PlanTasks(p)
      BY <1>1, <3>2 DEF Publish, TypeOK
    <3> QED BY <3>1, <3>2
  <2>2. deps' \subseteq Tasks \X Tasks
    BY <1>1 DEF Publish, TypeOK, PlanDeps
  <2> QED BY <1>1, <2>1, <2>2 DEF Publish, TypeOK
<1>2. ASSUME NEW r \in Runtimes, RegisterRuntime(r) \/ StopRuntime(r) PROVE TypeOK'
  BY <1>2 DEF RegisterRuntime, StopRuntime, TypeOK, RuntimeRow, RuntimeStatus
<1>3. ASSUME NEW c \in Cards, ChangeCardStatus(c) PROVE TypeOK'
  BY <1>3 DEF ChangeCardStatus, TypeOK
<1>4. ASSUME NEW r \in Runtimes, NEW t \in Tasks, Claim(r, t) PROVE TypeOK'
  <2>1. PICK k \in NextKeys(t), c \in CardFor(t) :
          /\ execs' = [j \in DOMAIN execs \cup {k} |->
                         IF j = k
                         THEN [status |-> "claimed", task |-> t, runtime |-> r,
                               card |-> c, leased |-> TRUE]
                         ELSE execs[j]]
          /\ task' = [task EXCEPT ![t] = [@ EXCEPT !.status = "in_progress",
                                                   !.owner = r, !.key = k]]
          /\ runtime' = [runtime EXCEPT ![r] = [status |-> "loading", key |-> k]]
    BY <1>4 DEF Claim
  <2>2. k \in Key /\ c \in Cards
    BY NextKeysType, CardForType
  <2>3. DOMAIN execs' \subseteq Key /\ execs' \in [DOMAIN execs' -> ExecRow]
    BY <2>1, <2>2 DEF TypeOK, ExecRow, ActiveStatus
  <2>4. task' \in [Tasks -> TaskRow]
    BY <2>1, <2>2 DEF TypeOK, TaskRow, TaskStatus
  <2>5. runtime' \in [Runtimes -> RuntimeRow]
    BY <2>1, <2>2 DEF TypeOK, RuntimeRow, RuntimeStatus
  <2> QED BY <1>4, <2>3, <2>4, <2>5 DEF Claim, TypeOK
<1>5. ASSUME NEW r \in Runtimes, NEW t \in Tasks, ClaimWithoutCard(r, t) PROVE TypeOK'
  BY <1>5 DEF ClaimWithoutCard, TypeOK, TaskRow, TaskStatus
<1>6. ASSUME NEW k \in DOMAIN execs,
             MarkExecutionStarted(k) \/ RenewLease(k) \/ LeaseRunsOut(k)
      PROVE  TypeOK'
  <2>1. DOMAIN execs' = DOMAIN execs /\ execs' \in [DOMAIN execs -> ExecRow]
    <3>1. CASE MarkExecutionStarted(k)
      BY <3>1 DEF MarkExecutionStarted, TypeOK, ExecRow, ActiveStatus
    <3>2. CASE RenewLease(k) \/ LeaseRunsOut(k)
      BY <3>2 DEF RenewLease, LeaseRunsOut, TypeOK, ExecRow
    <3> QED BY <1>6, <3>1, <3>2
  <2>2. runtime' \in [Runtimes -> RuntimeRow]
    BY <1>6 DEF MarkExecutionStarted, RenewLease, LeaseRunsOut, TypeOK,
                ExecRow, RuntimeRow, RuntimeStatus
  <2> QED BY <1>6, <2>1, <2>2
          DEF MarkExecutionStarted, RenewLease, LeaseRunsOut, TypeOK
<1>7. ASSUME NEW k \in DOMAIN execs, CompleteExecution(k) PROVE TypeOK'
  <2> DEFINE tb == EndTask(k, "completed")
  <2>1. /\ DOMAIN EndExec(k, "completed") = DOMAIN execs
        /\ EndExec(k, "completed") \in [DOMAIN execs -> ExecRow]
        /\ tb \in [Tasks -> TaskRow]
        /\ SetUnloading(k) \in [Runtimes -> RuntimeRow]
    BY EndRowsType DEF TerminalStatus, TaskStatus
  <2>2. task' \in [Tasks -> TaskRow]
    <3> HIDE DEF tb
    <3>1. task' = [d \in Tasks |-> IF d \in Dependents(execs[k].task)
                                   THEN [tb[d] EXCEPT !.blocked = Remaining(tb, d)]
                                   ELSE tb[d]]
      BY <1>7 DEF CompleteExecution, tb
    <3> QED BY <2>1, <3>1, RemainingType DEF TaskRow
  <2>3. announced' \subseteq Tasks
    BY <1>7 DEF CompleteExecution, TypeOK, Dependents
  <2> QED BY <1>7, <2>1, <2>2, <2>3 DEF CompleteExecution, TypeOK
<1>8. ASSUME NEW k \in DOMAIN execs, FailExecution(k) \/ CancelExecution(k) PROVE TypeOK'
  <2>1. StatusAfterLoss(k) \in TaskStatus
    BY DEF StatusAfterLoss, TaskStatus
  <2>2. /\ DOMAIN execs' = DOMAIN execs
        /\ execs' \in [DOMAIN execs -> ExecRow]
        /\ task' \in [Tasks -> TaskRow]
        /\ runtime' \in [Runtimes -> RuntimeRow]
    BY <1>8, <2>1, EndRowsType DEF FailExecution, CancelExecution, TerminalStatus, TaskStatus
  <2>3. announced' \subseteq Tasks
    BY <1>8 DEF FailExecution, CancelExecution, TypeOK, ExecRow
  <2> QED BY <1>8, <2>2, <2>3 DEF FailExecution, CancelExecution, TypeOK
<1>9. ASSUME NEW k \in DOMAIN execs, FinishCardUnload(k) PROVE TypeOK'
  BY <1>9 DEF FinishCardUnload, TypeOK, ExecRow, RuntimeRow, RuntimeStatus
<1>10. ASSUME NEW S \in SUBSET DOMAIN execs, ReclaimLeasedTasks(S) PROVE TypeOK'
  <2>1. DOMAIN execs' = DOMAIN execs /\ execs' \in [DOMAIN execs -> ExecRow]
    BY <1>10 DEF ReclaimLeasedTasks, TypeOK, ExecRow, TerminalStatus
  <2>2. task' \in [Tasks -> TaskRow]
    <3>1. \A k : StatusAfterLoss(k) \in TaskStatus
      BY DEF StatusAfterLoss, TaskStatus
    <3> QED BY <1>10, <3>1 DEF ReclaimLeasedTasks, TypeOK, TaskRow
  <2>3. runtime' \in [Runtimes -> RuntimeRow]
    BY <1>10 DEF ReclaimLeasedTasks, TypeOK, RuntimeRow, RuntimeStatus
  <2> QED BY <1>10, <2>1, <2>2, <2>3 DEF ReclaimLeasedTasks, TypeOK
<1>11. CASE UNCHANGED vars
  BY <1>11 DEF vars, TypeOK
<1> QED BY <1>1, <1>2, <1>3, <1>4, <1>5, <1>6, <1>7, <1>8, <1>9, <1>10, <1>11 DEF Next

(* The tables keep the shape of schema.sql under every operation of the    *)
(* scheduler: statuses, owners and keys stay in their columns' domains and *)
(* blocked_by_count never becomes negative.                                *)
THEOREM TypeCorrect == Spec => []TypeOK
BY InitTypeOK, NextTypeOK, PTL DEF Spec
-----------------------------------------------------------------------------
(* The inductive invariant: the three tables agree, and the attempts of an *)
(* execution form a history.  No part is inductive alone: a retry may only *)
(* follow a lost attempt because the task row agrees with the attempt it   *)
(* names, and that attempt is the latest because of the history.           *)
SchedulerInv == AttemptHistory /\ TasksAgreeWithAttempts /\ RuntimesAgreeWithAttempts

(* What a step may do to task_executions: rows are never removed, only     *)
(* their status and lease change, an ended attempt keeps its status, and a *)
(* new row is the claim of a ready task.                                   *)
ExecsFrame ==
  \A k \in DOMAIN execs :
    /\ k \in DOMAIN execs'
    /\ execs'[k].task = execs[k].task
    /\ execs'[k].runtime = execs[k].runtime
    /\ execs'[k].card = execs[k].card
    /\ execs[k].status \in TerminalStatus => execs'[k].status = execs[k].status

ExecsGrowth ==
  \A k \in DOMAIN execs' \ DOMAIN execs : \E t \in Tasks :
    /\ Ready(t)
    /\ k \in NextKeys(t)
    /\ execs'[k].task = t
    /\ execs'[k].card \in CardFor(t)
    /\ execs'[k].status = "claimed"

LEMMA ExecsStep == TypeOK /\ [Next]_vars => ExecsFrame /\ ExecsGrowth
<1> SUFFICES ASSUME TypeOK, [Next]_vars PROVE ExecsFrame /\ ExecsGrowth
  OBVIOUS
<1>1. CASE UNCHANGED execs
  BY <1>1 DEF ExecsFrame, ExecsGrowth
<1>2. ASSUME NEW r \in Runtimes, NEW t \in Tasks, Claim(r, t)
      PROVE  ExecsFrame /\ ExecsGrowth
  <2>1. PICK k \in NextKeys(t), c \in CardFor(t) :
          /\ k \notin DOMAIN execs
          /\ execs' = [j \in DOMAIN execs \cup {k} |->
                         IF j = k
                         THEN [status |-> "claimed", task |-> t, runtime |-> r,
                               card |-> c, leased |-> TRUE]
                         ELSE execs[j]]
    BY <1>2 DEF Claim
  <2>2. ExecsFrame
    BY <2>1 DEF ExecsFrame
  <2>3. ExecsGrowth
    <3>1. \A j \in DOMAIN execs' \ DOMAIN execs : j = k
      BY <2>1
    <3>2. Ready(t)
      BY <1>2 DEF Claim
    <3> QED BY <2>1, <3>1, <3>2 DEF ExecsGrowth
  <2> QED BY <2>2, <2>3
<1>3. ASSUME NEW k \in DOMAIN execs,
             MarkExecutionStarted(k) \/ RenewLease(k) \/ LeaseRunsOut(k)
      PROVE  ExecsFrame /\ ExecsGrowth
  <2>1. execs[k].status \notin TerminalStatus
    BY <1>3 DEF MarkExecutionStarted, RenewLease, LeaseRunsOut, IsCurrentAttempt,
                IsActive, ActiveStatus, TerminalStatus
  <2>2. /\ DOMAIN execs' = DOMAIN execs
        /\ \A j \in DOMAIN execs : j # k => execs'[j] = execs[j]
        /\ \/ execs'[k] = [[execs[k] EXCEPT !.status = "running"] EXCEPT !.leased = TRUE]
           \/ execs'[k] = [execs[k] EXCEPT !.leased = TRUE]
           \/ execs'[k] = [execs[k] EXCEPT !.leased = FALSE]
    BY <1>3 DEF MarkExecutionStarted, RenewLease, LeaseRunsOut
  <2>3. /\ execs'[k].task = execs[k].task
        /\ execs'[k].runtime = execs[k].runtime
        /\ execs'[k].card = execs[k].card
    <3>1. execs[k] \in ExecRow
      BY DEF TypeOK
    <3> QED BY <2>2, <3>1 DEF ExecRow
  <2> QED BY <2>1, <2>2, <2>3 DEF ExecsFrame, ExecsGrowth
<1>4. ASSUME NEW k \in DOMAIN execs,
             CompleteExecution(k) \/ FailExecution(k) \/ CancelExecution(k)
      PROVE  ExecsFrame /\ ExecsGrowth
  <2>1. PICK es \in TerminalStatus : execs' = EndExec(k, es)
    BY <1>4 DEF CompleteExecution, FailExecution, CancelExecution, TerminalStatus
  <2>2. execs[k].status \notin TerminalStatus
    BY <1>4 DEF CompleteExecution, FailExecution, CancelExecution, IsCurrentAttempt,
                IsActive, ActiveStatus, TerminalStatus
  <2> QED BY <2>1, <2>2 DEF EndExec, TypeOK, ExecRow, ExecsFrame, ExecsGrowth
<1>5. ASSUME NEW S \in SUBSET DOMAIN execs, ReclaimLeasedTasks(S)
      PROVE  ExecsFrame /\ ExecsGrowth
  <2>1. \A k \in S : execs[k].status \notin TerminalStatus
    BY <1>5 DEF ReclaimLeasedTasks, Reclaimable, IsActive, ActiveStatus, TerminalStatus
  <2> QED BY <1>5, <2>1 DEF ReclaimLeasedTasks, TypeOK, ExecRow, ExecsFrame, ExecsGrowth
<1> QED
  BY <1>1, <1>2, <1>3, <1>4, <1>5
  DEF Next, vars, Publish, RegisterRuntime, StopRuntime, ChangeCardStatus,
      ClaimWithoutCard, FinishCardUnload

LEMMA HistoryStep ==
  TypeOK /\ AttemptHistory /\ TasksAgreeWithAttempts /\ ExecsFrame /\ ExecsGrowth
    => AttemptHistory'
<1> SUFFICES ASSUME TypeOK, AttemptHistory, TasksAgreeWithAttempts, ExecsFrame, ExecsGrowth,
                    NEW k \in DOMAIN execs'
             PROVE  /\ k[2] \in 1..MaxAttempts
                    /\ \A n \in 1..(k[2] - 1) :
                         LET j == <<k[1], n>>
                         IN  /\ j \in DOMAIN execs'
                             /\ execs'[j].status \in {"failed", "expired"}
                             /\ execs'[j].task = execs'[k].task
                             /\ execs'[j].card = execs'[k].card
  BY DEF AttemptHistory
<1>1. CASE k \in DOMAIN execs
  BY <1>1 DEF AttemptHistory, ExecsFrame, TerminalStatus
<1>2. CASE k \notin DOMAIN execs
  <2>1. PICK t \in Tasks : /\ Ready(t)
                           /\ k \in NextKeys(t)
                           /\ execs'[k].task = t
                           /\ execs'[k].card \in CardFor(t)
    BY <1>2 DEF ExecsGrowth
  <2>2. CASE task[t].key = NoKey
    <3>1. k[2] = 1
      BY <2>1, <2>2 DEF NextKeys
    <3>2. 1..(k[2] - 1) = {} /\ k[2] \in 1..MaxAttempts
      BY <3>1, ConstantsAssumption
    <3> QED BY <3>2
  <2>3. CASE task[t].key # NoKey
    <3> DEFINE p == task[t].key
    <3>1. p \in Key /\ k = <<p[1], p[2] + 1>> /\ k[1] = p[1] /\ k[2] = p[2] + 1
      BY <2>1, <2>3 DEF NextKeys, TypeOK, TaskRow, Key
    <3>2. /\ p \in DOMAIN execs
          /\ execs[p].task = t
          /\ p[2] < MaxAttempts
          /\ execs[p].status \notin ActiveStatus \cup {"completed", "cancelled"}
      <4>1. TaskAgreesWithAttempt(t) /\ task[t].status = "pending"
        BY <2>1 DEF TasksAgreeWithAttempts, Ready
      <4> QED BY <2>3, <4>1 DEF TaskAgreesWithAttempt
    <3>3. execs[p].status \in {"failed", "expired"}
      BY <3>2 DEF TypeOK, ExecRow, TerminalStatus
    <3>4. execs'[k].card = execs[p].card
      BY <2>1, <2>3 DEF CardFor, LoadFrozenCard
    <3>5. p[2] \in 1..MaxAttempts
      BY <3>2 DEF AttemptHistory
    <3>6. ASSUME NEW n \in 1..(k[2] - 1)
          PROVE  /\ <<p[1], n>> \in DOMAIN execs
                 /\ execs[<<p[1], n>>].status \in {"failed", "expired"}
                 /\ execs[<<p[1], n>>].task = t
                 /\ execs[<<p[1], n>>].card = execs[p].card
      <4>1. CASE n = p[2]
        <5>1. <<p[1], n>> = p
          BY <3>1, <4>1 DEF Key
        <5> QED BY <5>1, <3>2, <3>3
      <4>2. CASE n # p[2]
        <5>1. n \in 1..(p[2] - 1)
          BY <3>1, <3>5, <4>2, ConstantsAssumption
        <5> QED BY <5>1, <3>2 DEF AttemptHistory
      <4> QED BY <4>1, <4>2
    <3>7. k[2] \in 1..MaxAttempts
      BY <3>1, <3>2, <3>5, ConstantsAssumption
    <3> QED BY <2>1, <3>1, <3>4, <3>6, <3>7 DEF ExecsFrame, TerminalStatus
  <2> QED BY <2>2, <2>3
<1> QED BY <1>1, <1>2
-----------------------------------------------------------------------------
(* A task keeps agreeing with its attempt when its row is untouched but    *)
(* for the blocker count, the attempt's status stays or goes from claimed  *)
(* to running, and no further attempt is inserted.                         *)
LEMMA TaskAgreesFrame ==
  ASSUME NEW t \in Tasks, TaskAgreesWithAttempt(t),
         task'[t].status = task[t].status,
         task'[t].owner = task[t].owner,
         task'[t].key = task[t].key,
         task[t].key # NoKey =>
           /\ task[t].key \in DOMAIN execs'
           /\ execs'[task[t].key].task = execs[task[t].key].task
           /\ execs'[task[t].key].runtime = execs[task[t].key].runtime
           /\ \/ execs'[task[t].key].status = execs[task[t].key].status
              \/ /\ execs[task[t].key].status \in ActiveStatus
                 /\ execs'[task[t].key].status \in ActiveStatus
           /\ <<task[t].key[1], task[t].key[2] + 1>> \notin DOMAIN execs'
  PROVE  TaskAgreesWithAttempt(t)'
BY DEF TaskAgreesWithAttempt, ActiveStatus

(* The row of a task whose attempt k is current, and the uniqueness of k.  *)
LEMMA CurrentAttemptFacts ==
  ASSUME TypeOK, TasksAgreeWithAttempts, NEW k \in DOMAIN execs,
         execs[k].status \in ActiveStatus,
         task[execs[k].task].key = k
  PROVE  /\ execs[k].task \in Tasks /\ execs[k].runtime \in Runtimes
         /\ k # NoKey
         /\ task[execs[k].task].status = "in_progress"
         /\ <<k[1], k[2] + 1>> \notin DOMAIN execs
         /\ \A t \in Tasks : task[t].key = k => t = execs[k].task
<1>1. execs[k].task \in Tasks /\ execs[k].runtime \in Runtimes
  BY DEF TypeOK, ExecRow
<1>2. k # NoKey
  BY ConstantsAssumption DEF TypeOK, Key, NoKey
<1>3. \A t \in Tasks : TaskAgreesWithAttempt(t)
  BY DEF TasksAgreeWithAttempts
<1> QED BY <1>1, <1>2, <1>3 DEF TaskAgreesWithAttempt

(* An attempt that is current ends, and its task takes the status that     *)
(* goes with it.                                                           *)
LEMMA TaskAgreesAfterEnd ==
  ASSUME TypeOK, TasksAgreeWithAttempts, NEW k \in DOMAIN execs,
         execs[k].status \in ActiveStatus,
         task[execs[k].task].key = k,
         k[2] <= MaxAttempts, k[2] \in Nat,
         NEW es, NEW ts,
         \/ es = "completed" /\ ts = "completed"
         \/ es = "cancelled" /\ ts = "cancelled"
         \/ es \in {"failed", "expired"} /\ ts = StatusAfterLoss(k),
         DOMAIN execs' = DOMAIN execs,
         execs'[k].status = es,
         execs'[k].task = execs[k].task,
         task'[execs[k].task].status = ts,
         task'[execs[k].task].owner = NoRuntime,
         task'[execs[k].task].key = k
  PROVE  TaskAgreesWithAttempt(execs[k].task)'
<1>1. k # NoKey /\ <<k[1], k[2] + 1>> \notin DOMAIN execs
  BY CurrentAttemptFacts
<1>2. ts = "pending" => k[2] < MaxAttempts
  BY DEF StatusAfterLoss, RetryScheduled
<1>3. ts \notin {"in_progress", "absent"} /\ (ts = "completed" <=> es = "completed")
        /\ (ts = "cancelled" <=> es = "cancelled") /\ es \notin ActiveStatus
  BY DEF StatusAfterLoss, ActiveStatus
<1> QED BY <1>1, <1>2, <1>3 DEF TaskAgreesWithAttempt

(* _set_runtime_unloading and the rows of an ended attempt, in the next    *)
(* state.                                                                  *)
LEMMA EndRowsStep ==
  ASSUME TypeOK, NEW k \in DOMAIN execs, NEW es, NEW ts
  PROVE  /\ DOMAIN EndExec(k, es) = DOMAIN execs
         /\ \A j \in DOMAIN execs : j # k => EndExec(k, es)[j] = execs[j]
         /\ EndExec(k, es)[k].status = es
         /\ EndExec(k, es)[k].task = execs[k].task
         /\ EndExec(k, es)[k].runtime = execs[k].runtime
         /\ \A t \in Tasks : t # execs[k].task => EndTask(k, ts)[t] = task[t]
         /\ EndTask(k, ts)[execs[k].task].status = ts
         /\ EndTask(k, ts)[execs[k].task].owner = NoRuntime
         /\ EndTask(k, ts)[execs[k].task].key = task[execs[k].task].key
<1>1. execs[k] \in ExecRow /\ execs[k].task \in Tasks /\ task[execs[k].task] \in TaskRow
  BY DEF TypeOK, ExecRow
<1>2. /\ DOMAIN EndExec(k, es) = DOMAIN execs
      /\ \A j \in DOMAIN execs : j # k => EndExec(k, es)[j] = execs[j]
      /\ EndExec(k, es)[k] = [[execs[k] EXCEPT !.status = es] EXCEPT !.leased = FALSE]
  BY DEF EndExec
<1>3. /\ \A t \in Tasks : t # execs[k].task => EndTask(k, ts)[t] = task[t]
      /\ EndTask(k, ts)[execs[k].task] =
           [[task[execs[k].task] EXCEPT !.status = ts] EXCEPT !.owner = NoRuntime]
  BY <1>1 DEF EndTask, TypeOK
<1>4. /\ EndExec(k, es)[k].status = es
      /\ EndExec(k, es)[k].task = execs[k].task
      /\ EndExec(k, es)[k].runtime = execs[k].runtime
  BY <1>1, <1>2 DEF ExecRow
<1>5. /\ EndTask(k, ts)[execs[k].task].status = ts
      /\ EndTask(k, ts)[execs[k].task].owner = NoRuntime
      /\ EndTask(k, ts)[execs[k].task].key = task[execs[k].task].key
  BY <1>1, <1>3 DEF TaskRow
<1> QED BY <1>2, <1>3, <1>4, <1>5
-----------------------------------------------------------------------------
LEMMA TasksStep ==
  TypeOK /\ AttemptHistory /\ TasksAgreeWithAttempts /\ ExecsFrame /\ [Next]_vars
    => TasksAgreeWithAttempts'
<1> SUFFICES ASSUME TypeOK, AttemptHistory, TasksAgreeWithAttempts, ExecsFrame,
                    [Next]_vars, NEW t \in Tasks
             PROVE  TaskAgreesWithAttempt(t)'
  BY DEF TasksAgreeWithAttempts
<1> USE DEF ExecsFrame
<1>1. TaskAgreesWithAttempt(t)
  BY DEF TasksAgreeWithAttempts
<1>2. task[t].key # NoKey => /\ task[t].key \in DOMAIN execs
                             /\ execs[task[t].key].task = t
                             /\ <<task[t].key[1], task[t].key[2] + 1>> \notin DOMAIN execs
  BY <1>1 DEF TaskAgreesWithAttempt
<1>3. CASE execs' = execs /\ task'[t] = task[t]
  BY <1>1, <1>2, <1>3, TaskAgreesFrame
<1>4. ASSUME NEW p \in Plans, Publish(p) PROVE TaskAgreesWithAttempt(t)'
  <2>1. CASE t \in PlanTasks(p)
    BY <1>4, <2>1 DEF Publish, TaskAgreesWithAttempt
  <2>2. CASE t \notin PlanTasks(p)
    BY <1>3, <1>4, <2>2 DEF Publish
  <2> QED BY <2>1, <2>2
<1>5. ASSUME NEW r \in Runtimes, NEW u \in Tasks, Claim(r, u)
      PROVE  TaskAgreesWithAttempt(t)'
  <2>1. PICK k \in NextKeys(u), c \in CardFor(u) :
          /\ k \notin DOMAIN execs
          /\ execs' = [j \in DOMAIN execs \cup {k} |->
                         IF j = k
                         THEN [status |-> "claimed", task |-> u, runtime |-> r,
                               card |-> c, leased |-> TRUE]
                         ELSE execs[j]]
          /\ task' = [task EXCEPT ![u] = [@ EXCEPT !.status = "in_progress",
                                                   !.owner = r, !.key = k]]
    BY <1>5 DEF Claim
  <2>2. k \in Key /\ k # NoKey /\ <<k[1], k[2] + 1>> # k
    BY NextKeysType, ConstantsAssumption DEF Key, NoKey
  <2>3. CASE t = u
    <3>1. /\ task'[t].status = "in_progress"
          /\ task'[t].owner = r
          /\ task'[t].key = k
      BY <2>1, <2>3 DEF TypeOK, TaskRow
    <3>2. <<k[1], k[2] + 1>> \notin DOMAIN execs
      <4>1. CASE task[u].key = NoKey
        BY <4>1 DEF NextKeys
      <4>2. CASE task[u].key # NoKey
        <5> DEFINE q == task[u].key
        <5>1. q \in Key /\ k = <<q[1], q[2] + 1>> /\ k[1] = q[1] /\ k[2] = q[2] + 1
          BY <4>2 DEF NextKeys, TypeOK, TaskRow, Key
        <5>2. SUFFICES ASSUME <<k[1], k[2] + 1>> \in DOMAIN execs PROVE FALSE
          OBVIOUS
        <5>3. k[2] \in 1..(<<k[1], k[2] + 1>>[2] - 1)
          BY <5>1 DEF Key
        <5>4. k \in DOMAIN execs
          BY <5>1, <5>2, <5>3 DEF AttemptHistory
        <5> QED BY <2>1, <5>4
      <4> QED BY <4>1, <4>2
    <3>3. <<k[1], k[2] + 1>> \notin DOMAIN execs'
      BY <2>1, <2>2, <3>2
    <3> QED BY <2>1, <2>2, <2>3, <3>1, <3>3 DEF TaskAgreesWithAttempt, ActiveStatus
  <2>4. CASE t # u
    <3>1. task'[t] = task[t]
      BY <2>1, <2>4
    <3>2. ASSUME task[t].key # NoKey, <<task[t].key[1], task[t].key[2] + 1>> = k
          PROVE  FALSE
      <4> DEFINE q == task[t].key
      <4>1. q \in DOMAIN execs /\ q \in Key /\ execs[q].task = t
        BY <1>2, <3>2 DEF TypeOK
      <4>2. CASE task[u].key = NoKey
        BY <3>2, <4>1, <4>2 DEF NextKeys
      <4>3. CASE task[u].key # NoKey
        <5>1. /\ task[u].key \in Key
              /\ execs[task[u].key].task = u
              /\ k = <<task[u].key[1], task[u].key[2] + 1>>
          BY <4>3 DEF NextKeys, TypeOK, TaskRow, TasksAgreeWithAttempts, TaskAgreesWithAttempt
        <5>2. task[u].key = q
          BY <3>2, <4>1, <5>1 DEF Key
        <5> QED BY <2>4, <4>1, <5>1, <5>2
      <4> QED BY <4>2, <4>3
    <3>3. task[t].key # NoKey =>
             /\ task[t].key \in DOMAIN execs'
             /\ execs'[task[t].key] = execs[task[t].key]
             /\ <<task[t].key[1], task[t].key[2] + 1>> \notin DOMAIN execs'
      BY <1>2, <2>1, <3>2
    <3> QED BY <1>1, <3>1, <3>3, TaskAgreesFrame
  <2> QED BY <2>3, <2>4
<1>6. ASSUME NEW r \in Runtimes, NEW u \in Tasks, ClaimWithoutCard(r, u)
      PROVE  TaskAgreesWithAttempt(t)'
  <2>1. CASE t = u
    <3>1. /\ task'[t].status = "failed"
          /\ task'[t].owner = NoRuntime
          /\ task'[t].key = task[t].key
          /\ execs' = execs
      BY <1>6, <2>1 DEF ClaimWithoutCard, TypeOK, TaskRow
    <3>2. task[t].status = "pending"
      BY <1>6, <2>1 DEF ClaimWithoutCard, Ready
    <3> QED BY <1>1, <3>1, <3>2 DEF TaskAgreesWithAttempt
  <2>2. CASE t # u
    BY <1>3, <1>6, <2>2 DEF ClaimWithoutCard
  <2> QED BY <2>1, <2>2
<1>7. ASSUME NEW k \in DOMAIN execs,
             MarkExecutionStarted(k) \/ RenewLease(k) \/ LeaseRunsOut(k)
      PROVE  TaskAgreesWithAttempt(t)'
  <2>1. /\ task' = task
        /\ DOMAIN execs' = DOMAIN execs
        /\ \A j \in DOMAIN execs : j # k => execs'[j] = execs[j]
        /\ execs[k].status \in ActiveStatus
        /\ \/ execs'[k] = [[execs[k] EXCEPT !.status = "running"] EXCEPT !.leased = TRUE]
           \/ execs'[k] = [execs[k] EXCEPT !.leased = TRUE]
           \/ execs'[k] = [execs[k] EXCEPT !.leased = FALSE]
    BY <1>7 DEF MarkExecutionStarted, RenewLease, LeaseRunsOut, IsCurrentAttempt, IsActive
  <2>2. execs'[k].status \in ActiveStatus
    <3>1. execs[k] \in ExecRow
      BY DEF TypeOK
    <3> QED BY <2>1, <3>1 DEF ExecRow, ActiveStatus
  <2>3. task[t].key # NoKey =>
          \/ execs'[task[t].key].status = execs[task[t].key].status
          \/ /\ execs[task[t].key].status \in ActiveStatus
             /\ execs'[task[t].key].status \in ActiveStatus
    BY <1>2, <2>1, <2>2
  <2> QED BY <1>1, <1>2, <2>1, <2>3, TaskAgreesFrame
<1>8. ASSUME NEW k \in DOMAIN execs,
             CompleteExecution(k) \/ FailExecution(k) \/ CancelExecution(k)
      PROVE  TaskAgreesWithAttempt(t)'
  <2> DEFINE es == execs'[k].status
             ts == task'[execs[k].task].status
  <2>1. execs[k].status \in ActiveStatus /\ task[execs[k].task].key = k
    BY <1>8 DEF CompleteExecution, FailExecution, CancelExecution, IsCurrentAttempt, IsActive
  <2>2. /\ execs[k].task \in Tasks
        /\ \A u \in Tasks : task[u].key = k => u = execs[k].task
    BY <2>1, CurrentAttemptFacts
  <2>3. PICK e, s :
          /\ execs' = EndExec(k, e)
          /\ \A u \in Tasks : /\ task'[u].status = EndTask(k, s)[u].status
                              /\ task'[u].owner = EndTask(k, s)[u].owner
                              /\ task'[u].key = EndTask(k, s)[u].key
          /\ \/ e = "completed" /\ s = "completed"
             \/ e = "cancelled" /\ s = "cancelled"
             \/ e = "failed" /\ s = StatusAfterLoss(k)
    <3>1. CASE FailExecution(k) \/ CancelExecution(k)
      BY <3>1 DEF FailExecution, CancelExecution
    <3>2. CASE CompleteExecution(k)
      <4> DEFINE tb == EndTask(k, "completed")
      <4>1. tb \in [Tasks -> TaskRow]
        BY EndRowsType DEF TerminalStatus, TaskStatus
      <4>2. /\ task' = [d \in Tasks |->
                          IF d \in Dependents(execs[k].task)
                          THEN [tb[d] EXCEPT !.blocked = Remaining(tb, d)]
                          ELSE tb[d]]
            /\ execs' = EndExec(k, "completed")
        BY <3>2 DEF CompleteExecution
      <4>3. \A u \in Tasks : /\ task'[u].status = tb[u].status
                             /\ task'[u].owner = tb[u].owner
                             /\ task'[u].key = tb[u].key
        <5> HIDE DEF tb
        <5> QED BY <4>1, <4>2 DEF TaskRow
      <4> QED BY <4>2, <4>3
    <3> QED BY <1>8, <3>1, <3>2
  <2>4. /\ DOMAIN execs' = DOMAIN execs
        /\ \A j \in DOMAIN execs : j # k => execs'[j] = execs[j]
        /\ execs'[k].status = e
        /\ execs'[k].task = execs[k].task
    BY <2>3, EndRowsStep
  <2>5. CASE t = execs[k].task
    <3>1. /\ task'[execs[k].task].status = s
          /\ task'[execs[k].task].owner = NoRuntime
          /\ task'[execs[k].task].key = k
      BY <2>1, <2>2, <2>3, EndRowsStep
    <3>2. k[2] \in Nat /\ k[2] <= MaxAttempts
      BY ConstantsAssumption DEF AttemptHistory
    <3> QED BY <2>1, <2>3, <2>4, <2>5, <3>1, <3>2, TaskAgreesAfterEnd
  <2>6. CASE t # execs[k].task
    <3>1. /\ task'[t].status = task[t].status
          /\ task'[t].owner = task[t].owner
          /\ task'[t].key = task[t].key
      BY <2>3, <2>6, EndRowsStep
    <3>2. task[t].key # k
      BY <2>2, <2>6
    <3> QED BY <1>1, <1>2, <2>4, <3>1, <3>2, TaskAgreesFrame
  <2> QED BY <2>5, <2>6
<1>9. ASSUME NEW S \in SUBSET DOMAIN execs, ReclaimLeasedTasks(S)
      PROVE  TaskAgreesWithAttempt(t)'
  <2>1. \A k \in S : execs[k].status \in ActiveStatus /\ task[execs[k].task].key = k
    BY <1>9 DEF ReclaimLeasedTasks, Reclaimable, IsActive
  <2>2. /\ DOMAIN execs' = DOMAIN execs
        /\ \A j \in DOMAIN execs : j \notin S => execs'[j] = execs[j]
        /\ \A j \in S : execs'[j] = [[execs[j] EXCEPT !.status = "expired"] EXCEPT !.leased = FALSE]
    BY <1>9 DEF ReclaimLeasedTasks
  <2>3. CASE \E k \in S : execs[k].task = t
    <3>1. PICK k \in S : execs[k].task = t
      BY <2>3
    <3>2. /\ task'[t].status = StatusAfterLoss(k)
          /\ task'[t].owner = NoRuntime
          /\ task'[t].key = k
      <4>1. task[t].key = k /\ task[t] \in TaskRow
        BY <2>1, <3>1 DEF TypeOK
      <4>2. task'[t] = [[task[t] EXCEPT !.status = StatusAfterLoss(k)] EXCEPT !.owner = NoRuntime]
        BY <1>9, <2>3, <4>1 DEF ReclaimLeasedTasks
      <4> QED BY <4>1, <4>2 DEF TaskRow
    <3>3. execs'[k].status = "expired" /\ execs'[k].task = t
      <4>1. execs[k] \in ExecRow
        BY DEF TypeOK
      <4> QED BY <2>2, <3>1, <4>1 DEF ExecRow
    <3>4. k[2] \in Nat /\ k[2] <= MaxAttempts
      BY ConstantsAssumption DEF AttemptHistory
    <3> QED BY <2>1, <2>2, <3>1, <3>2, <3>3, <3>4, TaskAgreesAfterEnd
  <2>4. CASE ~ \E k \in S : execs[k].task = t
    <3>1. task'[t] = task[t]
      BY <1>9, <2>4 DEF ReclaimLeasedTasks
    <3>2. task[t].key # NoKey => task[t].key \notin S
      BY <1>2, <2>4
    <3> QED BY <1>1, <1>2, <2>2, <3>1, <3>2, TaskAgreesFrame
  <2> QED BY <2>3, <2>4
<1> QED
  BY <1>3, <1>4, <1>5, <1>6, <1>7, <1>8, <1>9
  DEF Next, vars, RegisterRuntime, StopRuntime, ChangeCardStatus, FinishCardUnload

LEMMA RuntimeAgreesFrame ==
  ASSUME TypeOK, ExecsFrame, NEW r \in Runtimes, RuntimeAgreesWithAttempt(r),
         runtime'[r].key = runtime[r].key,
         \/ runtime'[r].status = runtime[r].status
         \/ runtime'[r].status \in {"running", "stopped"},
         runtime'[r].status = "loading" => IsActive(runtime[r].key)'
  PROVE  RuntimeAgreesWithAttempt(r)'
<1> DEFINE k == runtime[r].key
<1>1. k # NoKey => k \in DOMAIN execs' /\ execs'[k].runtime = r
  BY DEF RuntimeAgreesWithAttempt, ExecsFrame
<1>2. IsTerminal(k) => IsTerminal(k)'
  BY DEF IsTerminal, ExecsFrame
<1> QED BY <1>1, <1>2 DEF RuntimeAgreesWithAttempt

LEMMA RuntimesStep ==
  TypeOK /\ RuntimesAgreeWithAttempts /\ ExecsFrame /\ [Next]_vars
    => RuntimesAgreeWithAttempts'
<1> SUFFICES ASSUME TypeOK, RuntimesAgreeWithAttempts, ExecsFrame, [Next]_vars,
                    NEW r \in Runtimes
             PROVE  RuntimeAgreesWithAttempt(r)'
  BY DEF RuntimesAgreeWithAttempts
<1>1. RuntimeAgreesWithAttempt(r)
  BY DEF RuntimesAgreeWithAttempts
<1>2. NoKey \notin DOMAIN execs
  BY ConstantsAssumption DEF TypeOK, Key, NoKey
<1> DEFINE q == runtime[r].key
<1>3. ASSUME runtime'[r] = runtime[r],
             q \in DOMAIN execs => q \in DOMAIN execs' /\ execs'[q].status = execs[q].status
      PROVE  RuntimeAgreesWithAttempt(r)'
  <2>1. IsActive(q) => IsActive(q)'
    BY <1>3 DEF IsActive
  <2>2. runtime[r].status = "loading" => IsActive(q)
    BY <1>1 DEF RuntimeAgreesWithAttempt
  <2> QED BY <1>1, <1>3, <2>1, <2>2, RuntimeAgreesFrame
<1>4. ASSUME NEW u \in Runtimes, RegisterRuntime(u) \/ StopRuntime(u)
      PROVE  RuntimeAgreesWithAttempt(r)'
  <2>1. CASE r = u /\ RegisterRuntime(u)
    BY <2>1 DEF RegisterRuntime, TypeOK, RuntimeAgreesWithAttempt
  <2>2. CASE r = u /\ StopRuntime(u)
    <3>1. runtime[r] \in RuntimeRow
      BY DEF TypeOK
    <3>2. runtime'[r] = [runtime[r] EXCEPT !.status = "stopped"]
      BY <2>2 DEF StopRuntime, TypeOK
    <3>3. runtime'[r].status = "stopped" /\ runtime'[r].key = runtime[r].key
      BY <3>1, <3>2 DEF RuntimeRow
    <3> QED BY <1>1, <3>3, RuntimeAgreesFrame
  <2>3. CASE r # u
    <3>1. runtime'[r] = runtime[r] /\ execs' = execs
      BY <1>4, <2>3 DEF RegisterRuntime, StopRuntime, TypeOK
    <3> QED BY <1>3, <3>1
  <2> QED BY <1>4, <2>1, <2>2, <2>3
<1>5. ASSUME NEW u \in Runtimes, NEW t \in Tasks, Claim(u, t)
      PROVE  RuntimeAgreesWithAttempt(r)'
  <2>1. PICK k \in NextKeys(t), c \in CardFor(t) :
          /\ k \notin DOMAIN execs
          /\ execs' = [j \in DOMAIN execs \cup {k} |->
                         IF j = k
                         THEN [status |-> "claimed", task |-> t, runtime |-> u,
                               card |-> c, leased |-> TRUE]
                         ELSE execs[j]]
          /\ runtime' = [runtime EXCEPT ![u] = [status |-> "loading", key |-> k]]
    BY <1>5 DEF Claim
  <2>2. CASE r = u
    <3>1. runtime'[r].status = "loading" /\ runtime'[r].key = k
      BY <2>1, <2>2 DEF TypeOK
    <3>2. k \in DOMAIN execs' /\ execs'[k].runtime = r /\ execs'[k].status = "claimed"
      BY <2>1, <2>2
    <3> QED BY <3>1, <3>2 DEF RuntimeAgreesWithAttempt, IsActive, ActiveStatus
  <2>3. CASE r # u
    <3>1. runtime'[r] = runtime[r]
      BY <2>1, <2>3 DEF TypeOK
    <3>2. q \in DOMAIN execs => q \in DOMAIN execs' /\ execs'[q] = execs[q]
      BY <2>1
    <3> QED BY <1>3, <3>1, <3>2
  <2> QED BY <2>2, <2>3
<1>6. ASSUME NEW k \in DOMAIN execs,
             MarkExecutionStarted(k) \/ RenewLease(k) \/ LeaseRunsOut(k)
      PROVE  RuntimeAgreesWithAttempt(r)'
  <2>1. /\ DOMAIN execs' = DOMAIN execs
        /\ \A j \in DOMAIN execs : j # k => execs'[j] = execs[j]
        /\ execs[k].status \in ActiveStatus
        /\ \/ execs'[k] = [[execs[k] EXCEPT !.status = "running"] EXCEPT !.leased = TRUE]
           \/ execs'[k] = [execs[k] EXCEPT !.leased = TRUE]
           \/ execs'[k] = [execs[k] EXCEPT !.leased = FALSE]
    BY <1>6 DEF MarkExecutionStarted, RenewLease, LeaseRunsOut, IsCurrentAttempt, IsActive
  <2>2. execs'[k].status \in ActiveStatus
    <3>1. execs[k] \in ExecRow
      BY DEF TypeOK
    <3> QED BY <2>1, <3>1 DEF ExecRow, ActiveStatus
  <2>3. /\ runtime'[r].key = runtime[r].key
        /\ \/ runtime'[r].status = runtime[r].status
           \/ runtime'[r].status = "running"
    <3>1. runtime[r] \in RuntimeRow
      BY DEF TypeOK
    <3>2. \/ runtime'[r] = runtime[r]
          \/ runtime'[r] = [runtime[r] EXCEPT !.status = "running"]
      BY <1>6 DEF MarkExecutionStarted, RenewLease, LeaseRunsOut, TypeOK
    <3> QED BY <3>1, <3>2 DEF RuntimeRow
  <2>4. runtime'[r].status = "loading" => IsActive(q)'
    BY <1>1, <2>1, <2>2, <2>3 DEF RuntimeAgreesWithAttempt, IsActive
  <2> QED BY <1>1, <2>3, <2>4, RuntimeAgreesFrame
<1>7. ASSUME NEW k \in DOMAIN execs,
             CompleteExecution(k) \/ FailExecution(k) \/ CancelExecution(k)
      PROVE  RuntimeAgreesWithAttempt(r)'
  <2>1. PICK e \in TerminalStatus : execs' = EndExec(k, e)
    BY <1>7 DEF CompleteExecution, FailExecution, CancelExecution, TerminalStatus
  <2>2. runtime' = SetUnloading(k)
    BY <1>7 DEF CompleteExecution, FailExecution, CancelExecution
  <2>3. /\ DOMAIN execs' = DOMAIN execs
        /\ \A j \in DOMAIN execs : j # k => execs'[j] = execs[j]
        /\ execs'[k].status = e
    BY <2>1, EndRowsStep
  <2>4. CASE q = k
    <3>1. execs[k].runtime = r
      BY <1>1, <1>2, <2>4 DEF RuntimeAgreesWithAttempt
    <3>2. runtime'[r] = [runtime[r] EXCEPT !.status = "unloading"]
      BY <2>2, <2>4, <3>1 DEF SetUnloading
    <3>3. runtime'[r].status = "unloading" /\ runtime'[r].key = k
      BY <2>4, <3>2 DEF TypeOK, RuntimeRow
    <3>4. execs'[k].runtime = r
      BY <3>1 DEF ExecsFrame
    <3> QED BY <2>3, <3>3, <3>4 DEF RuntimeAgreesWithAttempt, IsTerminal
  <2>5. CASE q # k
    <3>1. runtime'[r] = runtime[r]
      BY <2>2, <2>5 DEF SetUnloading
    <3> QED BY <1>3, <2>3, <2>5, <3>1
  <2> QED BY <2>4, <2>5
<1>8. ASSUME NEW k \in DOMAIN execs, FinishCardUnload(k)
      PROVE  RuntimeAgreesWithAttempt(r)'
  <2>1. CASE r = execs[k].runtime
    BY <1>8, <2>1 DEF FinishCardUnload, TypeOK, RuntimeAgreesWithAttempt
  <2>2. CASE r # execs[k].runtime
    BY <1>3, <1>8, <2>2 DEF FinishCardUnload, TypeOK
  <2> QED BY <2>1, <2>2
<1>9. ASSUME NEW S \in SUBSET DOMAIN execs, ReclaimLeasedTasks(S)
      PROVE  RuntimeAgreesWithAttempt(r)'
  <2>1. CASE q \in S
    <3>1. execs[q].runtime = r
      BY <1>1, <1>2, <2>1 DEF RuntimeAgreesWithAttempt
    <3>2. runtime'[r] = [status |-> "idle", key |-> NoKey]
      BY <1>9, <2>1, <3>1 DEF ReclaimLeasedTasks
    <3> QED BY <3>2 DEF RuntimeAgreesWithAttempt
  <2>2. CASE q \notin S
    BY <1>3, <1>9, <2>2 DEF ReclaimLeasedTasks
  <2> QED BY <2>1, <2>2
<1>10. CASE UNCHANGED <<execs, runtime>>
  BY <1>3, <1>10
<1> QED
  BY <1>4, <1>5, <1>6, <1>7, <1>8, <1>9, <1>10
  DEF Next, vars, Publish, ChangeCardStatus, ClaimWithoutCard

LEMMA SchedulerInvCorrect == Spec => [](TypeOK /\ SchedulerInv)
<1>1. Init => TypeOK /\ SchedulerInv
  <2>1. ASSUME Init PROVE SchedulerInv
    BY <2>1, ConstantsAssumption
    DEF Init, SchedulerInv, AttemptHistory, TasksAgreeWithAttempts, TaskAgreesWithAttempt,
        RuntimesAgreeWithAttempts, RuntimeAgreesWithAttempt
  <2> QED BY <2>1, InitTypeOK
<1>2. TypeOK /\ SchedulerInv /\ [Next]_vars => (TypeOK /\ SchedulerInv)'
  BY NextTypeOK, ExecsStep, HistoryStep, TasksStep, RuntimesStep DEF SchedulerInv
<1> QED BY <1>1, <1>2, PTL DEF Spec

(* For any number of attempts and any interleaving of claims, late updates *)
(* and reclaims, the attempts of an execution are a gapless history in     *)
(* which only the last may be under way, completed or cancelled.           *)
THEOREM AttemptHistoryCorrect == Spec => []AttemptHistory
BY SchedulerInvCorrect, PTL DEF SchedulerInv

(* A task row always agrees with the attempt it names, the latest one.     *)
THEOREM TasksAgreeCorrect == Spec => []TasksAgreeWithAttempts
BY SchedulerInvCorrect, PTL DEF SchedulerInv

(* A runtime row never names another runtime's attempt; a loading slot     *)
(* belongs to an attempt under way and an unloading one to an ended one.   *)
THEOREM RuntimesAgreeCorrect == Spec => []RuntimesAgreeWithAttempts
BY SchedulerInvCorrect, PTL DEF SchedulerInv
-----------------------------------------------------------------------------
(* The tasks a step may take out of 'completed', and what it may do to the *)
(* readiness of a task.                                                    *)
LEMMA CompletionStep ==
  ASSUME TypeOK, TasksAgreeWithAttempts, [Next]_vars,
         NEW t \in Tasks, task[t].status = "completed"
  PROVE  \/ task'[t].status = "completed"
         \/ \E p \in submitted' \ submitted : t \in PlanTasks(p)
<1>1. \A k \in DOMAIN execs : IsCurrentAttempt(k) => execs[k].task # t
  BY CurrentAttemptFacts DEF IsCurrentAttempt, IsActive
<1>2. ASSUME NEW p \in Plans, Publish(p)
      PROVE  \/ task'[t].status = "completed"
             \/ \E q \in submitted' \ submitted : t \in PlanTasks(q)
  BY <1>2 DEF Publish
<1>3. ASSUME NEW r \in Runtimes, NEW u \in Tasks, Claim(r, u) \/ ClaimWithoutCard(r, u)
      PROVE  task'[t].status = "completed"
  <2>1. u # t
    BY <1>3 DEF Claim, ClaimWithoutCard, Ready
  <2> QED BY <1>3, <2>1 DEF Claim, ClaimWithoutCard, TypeOK
<1>4. ASSUME NEW k \in DOMAIN execs,
             CompleteExecution(k) \/ FailExecution(k) \/ CancelExecution(k)
      PROVE  task'[t].status = "completed"
  <2>1. execs[k].task # t
    BY <1>1, <1>4 DEF CompleteExecution, FailExecution, CancelExecution
  <2>2. \A s : EndTask(k, s)[t] = task[t]
    BY <2>1 DEF EndTask, TypeOK
  <2>3. CASE CompleteExecution(k)
    <3> DEFINE tb == EndTask(k, "completed")
    <3>1. tb[t] = task[t] /\ task[t] \in TaskRow
      BY <2>2 DEF TypeOK
    <3>2. task'[t] = tb[t] \/ task'[t] = [tb[t] EXCEPT !.blocked = Remaining(tb, t)]
      BY <2>3 DEF CompleteExecution
    <3> QED BY <3>1, <3>2 DEF TaskRow
  <2> QED BY <1>4, <2>2, <2>3 DEF FailExecution, CancelExecution
<1>5. ASSUME NEW S \in SUBSET DOMAIN execs, ReclaimLeasedTasks(S)
      PROVE  task'[t].status = "completed"
  <2>1. \A k \in S : execs[k].task # t
    BY <1>5, CurrentAttemptFacts DEF ReclaimLeasedTasks, Reclaimable, IsActive
  <2> QED BY <1>5, <2>1 DEF ReclaimLeasedTasks
<1> QED
  BY <1>2, <1>3, <1>4, <1>5
  DEF Next, vars, RegisterRuntime, StopRuntime, ChangeCardStatus, MarkExecutionStarted,
      RenewLease, LeaseRunsOut, FinishCardUnload

(* Whatever late completions, failures, cancellations and reclaims arrive, *)
(* only a new publication of a completed task reopens it.                  *)
THEOREM CompletionIsFinalCorrect == Spec => CompletionIsFinal
<1>1. TypeOK /\ SchedulerInv /\ [Next]_vars
        => [\A t \in Tasks :
              task[t].status = "completed" =>
                \/ task'[t].status = "completed"
                \/ \E p \in submitted' \ submitted : t \in PlanTasks(p)]_vars
  BY CompletionStep DEF SchedulerInv
<1> QED BY <1>1, SchedulerInvCorrect, PTL DEF Spec, CompletionIsFinal
-----------------------------------------------------------------------------
(* The table of tasks after a completion: only the statuses of the task    *)
(* that completed and the counters of its dependents change.               *)
LEMMA CompletedRows ==
  ASSUME TypeOK, NEW k \in DOMAIN execs, CompleteExecution(k), NEW d \in Tasks
  PROVE  LET t  == execs[k].task
             tb == EndTask(k, "completed")
         IN  /\ d = t => task'[d].status = "completed"
             /\ d # t => task'[d].status = task[d].status
             /\ tb[d].status = task'[d].status
             /\ d \in Dependents(t) => task'[d].blocked = Remaining(tb, d)
             /\ d \notin Dependents(t) => task'[d].blocked = task[d].blocked
<1> DEFINE t  == execs[k].task
           tb == EndTask(k, "completed")
<1>1. task[d] \in TaskRow /\ tb[d] \in TaskRow
  BY EndRowsType DEF TypeOK, TerminalStatus, TaskStatus
<1>2. task'[d] = IF d \in Dependents(t)
                 THEN [tb[d] EXCEPT !.blocked = Remaining(tb, d)]
                 ELSE tb[d]
  BY DEF CompleteExecution
<1>3. tb[d] = IF d = t
              THEN [[task[d] EXCEPT !.status = "completed"] EXCEPT !.owner = NoRuntime]
              ELSE task[d]
  BY DEF EndTask, TypeOK
<1>4. /\ d = t => tb[d].status = "completed"
      /\ d # t => tb[d].status = task[d].status
      /\ tb[d].blocked = task[d].blocked
  <2> HIDE DEF tb, t
  <2> QED BY <1>1, <1>3 DEF TaskRow
<1>5. /\ task'[d].status = tb[d].status
      /\ d \in Dependents(t) => task'[d].blocked = Remaining(tb, d)
      /\ d \notin Dependents(t) => task'[d].blocked = tb[d].blocked
  <2> HIDE DEF tb, t
  <2> QED BY <1>1, <1>2 DEF TaskRow
<1> QED BY <1>4, <1>5

LEMMA AnnouncedStep == TypeOK /\ ReadyIsAnnounced /\ [Next]_vars => ReadyIsAnnounced'
<1> SUFFICES ASSUME TypeOK, ReadyIsAnnounced, [Next]_vars,
                    NEW t \in Tasks, Ready(t)'
             PROVE  t \in announced'
  BY DEF ReadyIsAnnounced
<1>1. Ready(t) => t \in announced
  BY DEF ReadyIsAnnounced
<1>2. ASSUME NEW p \in Plans, Publish(p) PROVE t \in announced'
  <2>1. CASE t \in PlanTasks(p)
    <3> DEFINE i == LastRow(p, t)
    <3>1. i \in DOMAIN p /\ p[i].id = t /\ p[i].blockedBy \in Seq(Tasks)
      BY <2>1, PlanRowType
    <3>2. Len(p[i].blockedBy) = 0
      BY <1>2, <2>1 DEF Publish, Ready
    <3>3. p[i].blockedBy = << >>
      BY <3>1, <3>2
    <3> HIDE DEF i
    <3> QED BY <1>2, <3>1, <3>3 DEF Publish
  <2>2. CASE t \notin PlanTasks(p)
    BY <1>1, <1>2, <2>2 DEF Publish, Ready
  <2> QED BY <2>1, <2>2
<1>3. ASSUME NEW r \in Runtimes, NEW u \in Tasks, Claim(r, u) \/ ClaimWithoutCard(r, u)
      PROVE  t \in announced'
  <2>1. CASE t = u
    <3>1. task[t] \in TaskRow
      BY DEF TypeOK
    <3>2. CASE Claim(r, u)
      <4>1. PICK k : task' = [task EXCEPT ![t] = [@ EXCEPT !.status = "in_progress",
                                                           !.owner = r, !.key = k]]
        BY <2>1, <3>2 DEF Claim
      <4>2. task'[t].status = "in_progress"
        BY <3>1, <4>1 DEF TypeOK, TaskRow
      <4> QED BY <4>2 DEF Ready
    <3>3. CASE ClaimWithoutCard(r, u)
      <4>1. task'[t].status = "failed"
        BY <2>1, <3>1, <3>3 DEF ClaimWithoutCard, TypeOK, TaskRow
      <4> QED BY <4>1 DEF Ready
    <3> QED BY <1>3, <3>2, <3>3
  <2>2. CASE t # u
    BY <1>1, <1>3, <2>2 DEF Claim, ClaimWithoutCard, Ready, TypeOK
  <2> QED BY <2>1, <2>2
<1>4. ASSUME NEW k \in DOMAIN execs, CompleteExecution(k) PROVE t \in announced'
  <2>1. t # execs[k].task
    BY <1>4, CompletedRows DEF Ready
  <2>2. CASE t \in Dependents(execs[k].task)
    BY <1>4, <2>2, CompletedRows DEF Ready, CompleteExecution
  <2>3. CASE t \notin Dependents(execs[k].task)
    <3>1. Ready(t)
      BY <1>4, <2>1, <2>3, CompletedRows DEF Ready
    <3> QED BY <1>1, <1>4, <3>1 DEF CompleteExecution
  <2> QED BY <2>2, <2>3
<1>5. ASSUME NEW k \in DOMAIN execs, FailExecution(k) \/ CancelExecution(k)
      PROVE  t \in announced'
  <2>1. CASE t = execs[k].task
    <3>1. task[t] \in TaskRow
      BY DEF TypeOK
    <3>2. PICK s : /\ task'[t] = [[task[t] EXCEPT !.status = s] EXCEPT !.owner = NoRuntime]
                   /\ s = "cancelled" \/ (FailExecution(k) /\ s = StatusAfterLoss(k))
      BY <1>5, <2>1 DEF FailExecution, CancelExecution, EndTask, TypeOK
    <3>3. s = "pending"
      BY <3>1, <3>2 DEF Ready, TaskRow
    <3> QED BY <1>5, <2>1, <3>2, <3>3 DEF FailExecution, StatusAfterLoss
  <2>2. CASE t # execs[k].task
    BY <1>1, <1>5, <2>2 DEF FailExecution, CancelExecution, EndTask, Ready, TypeOK
  <2> QED BY <2>1, <2>2
<1>6. ASSUME NEW S \in SUBSET DOMAIN execs, ReclaimLeasedTasks(S) PROVE t \in announced'
  <2>1. CASE \E k \in S : execs[k].task = t
    <3>1. PICK k \in S : execs[k].task = t
      BY <2>1
    <3>2. task[t].key = k /\ task[t] \in TaskRow
      BY <1>6, <3>1 DEF ReclaimLeasedTasks, Reclaimable, TypeOK
    <3>3. task'[t] = [[task[t] EXCEPT !.status = StatusAfterLoss(k)] EXCEPT !.owner = NoRuntime]
      BY <1>6, <3>1, <3>2 DEF ReclaimLeasedTasks
    <3>4. StatusAfterLoss(k) = "pending"
      BY <3>2, <3>3 DEF Ready, TaskRow
    <3> QED BY <1>6, <3>1, <3>4 DEF ReclaimLeasedTasks, StatusAfterLoss
  <2>2. CASE ~ \E k \in S : execs[k].task = t
    BY <1>1, <1>6, <2>2 DEF ReclaimLeasedTasks, Ready
  <2> QED BY <2>1, <2>2
<1>7. CASE UNCHANGED <<task, announced>>
  BY <1>1, <1>7 DEF Ready
<1> QED
  BY <1>2, <1>3, <1>4, <1>5, <1>6, <1>7
  DEF Next, vars, RegisterRuntime, StopRuntime, ChangeCardStatus, MarkExecutionStarted,
      RenewLease, LeaseRunsOut, FinishCardUnload

(* No operation makes a task ready without announcing it.                  *)
THEOREM ReadyIsAnnouncedCorrect == Spec => []ReadyIsAnnounced
<1>1. Init => ReadyIsAnnounced
  BY DEF Init, ReadyIsAnnounced, Ready
<1> QED BY <1>1, AnnouncedStep, TypeCorrect, PTL DEF Spec
-----------------------------------------------------------------------------
(* What the two blocker invariants need when nothing is published again: a *)
(* published task is in a plan already submitted, and rows of the other    *)
(* tables refer to published tasks only.                                   *)
PublicationInv ==
  /\ \A t \in Tasks : Published(t) => \E p \in submitted : t \in PlanTasks(p)
  /\ \A e \in deps : Published(e[1]) /\ Published(e[2])
  /\ \A k \in DOMAIN execs : Published(execs[k].task)

BlockerInv == PublicationInv /\ UnblockedMeansDone /\ StartedAfterBlockers

LEMMA FreshPlan ==
  ASSUME PublishedOnce, TypeOK, PublicationInv, NEW p \in Plans, Publish(p)
  PROVE  /\ \A t \in PlanTasks(p) : ~ Published(t)
         /\ \A i \in DOMAIN p : LastRow(p, p[i].id) = i
<1>1. ASSUME NEW t \in PlanTasks(p), Published(t) PROVE FALSE
  <2>1. t \in Tasks
    BY PlanTasksType
  <2>2. PICK q \in submitted : t \in PlanTasks(q)
    BY <1>1, <2>1 DEF PublicationInv
  <2>3. q \in Plans /\ p \notin submitted
    BY DEF TypeOK, Publish
  <2>4. p = q
    BY <2>2, <2>3 DEF PublishedOnce, PlanTasks
  <2> QED BY <2>3, <2>4
<1>2. ASSUME NEW i \in DOMAIN p PROVE LastRow(p, p[i].id) = i
  <2>1. p[i].id \in PlanTasks(p)
    BY DEF PlanTasks
  <2>2. LastRow(p, p[i].id) \in DOMAIN p /\ p[LastRow(p, p[i].id)].id = p[i].id
    BY <2>1, PlanRowType
  <2> QED BY <2>2 DEF PublishedOnce
<1> QED BY <1>1, <1>2

LEMMA BlockersAfterPublish ==
  ASSUME PublishedOnce, TypeOK, BlockerInv, NEW p \in Plans, Publish(p)
  PROVE  BlockerInv'
<1> USE DEF BlockerInv
<1>1. \A t \in PlanTasks(p) : t \in Tasks /\ ~ Published(t) /\ task'[t].status = "pending"
  <2>1. \A t \in PlanTasks(p) : t \in Tasks
    BY PlanTasksType
  <2> QED BY <2>1, FreshPlan DEF Publish
<1>2. \A t \in Tasks \ PlanTasks(p) : task'[t] = task[t]
  BY DEF Publish
<1>3. /\ deps' = deps \cup PlanDeps(p)
      /\ execs' = execs
      /\ submitted' = submitted \cup {p}
  BY DEF Publish
<1>4. \A e \in deps : /\ e[1] \in Tasks \ PlanTasks(p)
                      /\ e[2] \in Tasks \ PlanTasks(p)
  BY <1>1 DEF TypeOK, PublicationInv
<1>5. ASSUME NEW e \in PlanDeps(p)
      PROVE  /\ e[1] \in PlanTasks(p)
             /\ e[2] \in Tasks
             /\ task'[e[1]].blocked # 0
             /\ Published(e[2])'
  <2>1. PICK i \in DOMAIN p : /\ p[i].id = e[1]
                             /\ \E j \in DOMAIN p[i].blockedBy : p[i].blockedBy[j] = e[2]
    BY DEF PlanDeps
  <2>2. e[1] \in PlanTasks(p) /\ e[2] \in Tasks
    BY <2>1 DEF PlanTasks, PlanDeps
  <2>3. LastRow(p, e[1]) = i
    BY <2>1, FreshPlan
  <2>4. p[i].blockedBy \in Seq(Tasks)
    BY <2>2, <2>3, PlanRowType
  <2>5. Len(p[i].blockedBy) # 0
    BY <2>1, <2>4
  <2>6. task'[e[1]].blocked = Len(p[i].blockedBy)
    BY <1>1, <2>2, <2>3 DEF Publish
  <2>7. Published(e[2])'
    <3>1. \/ Published(e[2])
          \/ \E m \in 1..i : p[m].id = e[2]
      BY <2>1 DEF Publish, BlockersExist
    <3>2. 1..i \subseteq DOMAIN p
      BY <2>1, PlansAssumption
    <3> QED BY <1>1, <1>2, <2>2, <3>1, <3>2 DEF Published, PlanTasks
  <2> QED BY <2>2, <2>5, <2>6, <2>7
<1>6. PublicationInv'
  <2>1. \A t \in Tasks : Published(t) => Published(t)'
    BY <1>1, <1>2 DEF Published
  <2>2. \A t \in Tasks : Published(t)' => \E q \in submitted' : t \in PlanTasks(q)
    BY <1>2, <1>3 DEF Published, PublicationInv
  <2>3. \A e \in deps' : Published(e[1])' /\ Published(e[2])'
    BY <1>1, <1>3, <1>4, <1>5, <2>1 DEF PublicationInv, Published
  <2>4. (\A k \in DOMAIN execs : Published(execs[k].task))'
    BY <1>3, <2>1 DEF PublicationInv, TypeOK, ExecRow, Published
  <2> QED BY <2>2, <2>3, <2>4 DEF PublicationInv
<1>7. UnblockedMeansDone'
  BY <1>2, <1>3, <1>4, <1>5 DEF UnblockedMeansDone
<1>8. StartedAfterBlockers'
  <2>1. \A k \in DOMAIN execs : execs[k].task \notin PlanTasks(p)
    BY <1>1 DEF PublicationInv
  <2> QED BY <1>2, <1>3, <1>4, <1>5, <2>1 DEF StartedAfterBlockers
<1> QED BY <1>6, <1>7, <1>8

(* A step that publishes nothing leaves a counter as it is, or recounts it *)
(* with the completion in the table.                                       *)
LEMMA BlockedStep ==
  ASSUME TypeOK, TasksAgreeWithAttempts, [Next]_vars, submitted' = submitted,
         NEW d \in Tasks
  PROVE  /\ deps' = deps
         /\ Published(d) <=> Published(d)'
         /\ \/ task'[d].blocked = task[d].blocked
            \/ task'[d].blocked = 0 =>
                 \A b \in Tasks : <<d, b>> \in deps => task'[b].status = "completed"
<1> DEFINE Good == /\ deps' = deps
                   /\ Published(d) <=> Published(d)'
                   /\ \/ task'[d].blocked = task[d].blocked
                      \/ task'[d].blocked = 0 =>
                           \A b \in Tasks : <<d, b>> \in deps => task'[b].status = "completed"
<1>1. task[d] \in TaskRow
  BY DEF TypeOK
<1>2. ASSUME NEW r \in Runtimes, NEW t \in Tasks, Claim(r, t) \/ ClaimWithoutCard(r, t)
      PROVE  Good
  <2>1. CASE t # d
    BY <1>2, <2>1 DEF Claim, ClaimWithoutCard, TypeOK, Published
  <2>2. CASE t = d /\ Claim(r, t)
    <3>1. PICK k : task' = [task EXCEPT ![d] = [@ EXCEPT !.status = "in_progress",
                                                         !.owner = r, !.key = k]]
      BY <2>2 DEF Claim
    <3>2. task'[d].status = "in_progress" /\ task'[d].blocked = task[d].blocked
      BY <1>1, <3>1 DEF TypeOK, TaskRow
    <3> QED BY <2>2, <3>2 DEF Claim, Ready, Published
  <2>3. CASE t = d /\ ClaimWithoutCard(r, t)
    <3>1. task'[d].status = "failed" /\ task'[d].blocked = task[d].blocked
      BY <1>1, <2>3 DEF ClaimWithoutCard, TypeOK, TaskRow
    <3> QED BY <2>3, <3>1 DEF ClaimWithoutCard, Ready, Published
  <2> QED BY <1>2, <2>1, <2>2, <2>3
<1>3. ASSUME NEW k \in DOMAIN execs, FailExecution(k) \/ CancelExecution(k) PROVE Good
  <2>1. PICK s : task' = EndTask(k, s) /\ s # "absent"
    BY <1>3 DEF FailExecution, CancelExecution, StatusAfterLoss
  <2>2. CASE d = execs[k].task
    <3>1. task[d].status = "in_progress"
      BY <1>3, <2>2, CurrentAttemptFacts
      DEF FailExecution, CancelExecution, IsCurrentAttempt, IsActive
    <3>2. task'[d].status = s /\ task'[d].blocked = task[d].blocked
      BY <1>1, <2>1, <2>2 DEF EndTask, TypeOK, TaskRow
    <3> QED BY <1>3, <2>1, <3>1, <3>2 DEF FailExecution, CancelExecution, Published
  <2>3. CASE d # execs[k].task
    BY <1>3, <2>1, <2>3 DEF EndTask, TypeOK, FailExecution, CancelExecution, Published
  <2> QED BY <2>2, <2>3
<1>4. ASSUME NEW k \in DOMAIN execs, CompleteExecution(k) PROVE Good
  <2> DEFINE t  == execs[k].task
             tb == EndTask(k, "completed")
  <2>1. deps' = deps
    BY <1>4 DEF CompleteExecution
  <2>2. Published(d) <=> Published(d)'
    <3>1. task[t].status = "in_progress"
      BY <1>4, CurrentAttemptFacts DEF CompleteExecution, IsCurrentAttempt, IsActive
    <3> QED BY <1>4, <3>1, CompletedRows DEF Published
  <2>3. CASE d \in Dependents(t)
    <3>1. task'[d].blocked = Remaining(tb, d)
      BY <1>4, <2>3, CompletedRows
    <3>2. \A b \in Tasks : task'[b].status = tb[b].status
      BY <1>4, CompletedRows
    <3>3. Remaining(tb, d) = 0 =>
            \A b \in Tasks : <<d, b>> \in deps => tb[b].status = "completed"
      BY RemainingType
    <3> QED BY <2>1, <2>2, <3>1, <3>2, <3>3
  <2>4. CASE d \notin Dependents(t)
    BY <1>4, <2>1, <2>2, <2>4, CompletedRows
  <2> QED BY <2>3, <2>4
<1>5. ASSUME NEW S \in SUBSET DOMAIN execs, ReclaimLeasedTasks(S) PROVE Good
  <2>1. CASE \E k \in S : execs[k].task = d
    <3>1. PICK k \in S : execs[k].task = d
      BY <2>1
    <3>2. task[d].status = "in_progress"
      BY <1>5, <3>1, CurrentAttemptFacts DEF ReclaimLeasedTasks, Reclaimable, IsActive
    <3> DEFINE s == StatusAfterLoss(task[d].key)
    <3>3. /\ task'[d] = [[task[d] EXCEPT !.status = s] EXCEPT !.owner = NoRuntime]
          /\ s # "absent"
      BY <1>5, <2>1 DEF ReclaimLeasedTasks, StatusAfterLoss
    <3> HIDE DEF s
    <3>4. task'[d].status = s /\ task'[d].blocked = task[d].blocked
      BY <1>1, <3>3 DEF TaskRow
    <3> QED BY <1>5, <3>2, <3>3, <3>4 DEF ReclaimLeasedTasks, Published
  <2>2. CASE ~ \E k \in S : execs[k].task = d
    BY <1>5, <2>2 DEF ReclaimLeasedTasks, Published
  <2> QED BY <2>1, <2>2
<1>6. CASE UNCHANGED <<task, deps>>
  BY <1>6 DEF Published
<1>7. ASSUME NEW p \in Plans, Publish(p) PROVE FALSE
  BY <1>7 DEF Publish
<1> QED
  BY <1>2, <1>3, <1>4, <1>5, <1>6, <1>7
  DEF Next, vars, RegisterRuntime, StopRuntime, ChangeCardStatus, MarkExecutionStarted,
      RenewLease, LeaseRunsOut, FinishCardUnload

LEMMA BlockersStep ==
  ASSUME PublishedOnce
  PROVE  TypeOK /\ SchedulerInv /\ BlockerInv /\ [Next]_vars => BlockerInv'
<1> SUFFICES ASSUME TypeOK, SchedulerInv, BlockerInv, [Next]_vars PROVE BlockerInv'
  OBVIOUS
<1>1. ASSUME NEW p \in Plans, Publish(p) PROVE BlockerInv'
  BY <1>1, BlockersAfterPublish
<1>2. CASE submitted' = submitted
  <2>1. \A t \in Tasks : task[t].status = "completed" => task'[t].status = "completed"
    BY <1>2, CompletionStep DEF SchedulerInv
  <2>2. /\ \A t \in Tasks : Published(t) <=> Published(t)'
        /\ \A t \in Tasks :
             \/ task'[t].blocked = task[t].blocked
             \/ task'[t].blocked = 0 =>
                  \A b \in Tasks : <<t, b>> \in deps => task'[b].status = "completed"
    BY <1>2, BlockedStep DEF SchedulerInv
  <2>3. deps' = deps
    <3>1. CASE Tasks = {}
      BY <1>2, <3>1
      DEF Next, vars, Publish, RegisterRuntime, StopRuntime, ChangeCardStatus, Claim,
          ClaimWithoutCard, MarkExecutionStarted, RenewLease, LeaseRunsOut, CompleteExecution,
          FailExecution, CancelExecution, FinishCardUnload, ReclaimLeasedTasks
    <3>2. CASE Tasks # {}
      BY <1>2, <3>2, BlockedStep DEF SchedulerInv
    <3> QED BY <3>1, <3>2
  <2>4. \A e \in deps : e = <<e[1], e[2]>> /\ e[1] \in Tasks /\ e[2] \in Tasks
    BY DEF TypeOK
  <2>5. ExecsFrame /\ ExecsGrowth
    BY ExecsStep
  <2>6. UnblockedMeansDone'
    BY <2>1, <2>2, <2>3, <2>4 DEF UnblockedMeansDone, BlockerInv
  <2>7. ASSUME NEW k \in DOMAIN execs' \ DOMAIN execs
        PROVE  /\ execs'[k].task \in Tasks
               /\ Ready(execs'[k].task)
    BY <2>5 DEF ExecsGrowth
  <2>8. ASSUME NEW k \in DOMAIN execs
        PROVE  execs'[k].task = execs[k].task /\ execs[k].task \in Tasks
    BY <2>5 DEF ExecsFrame, TypeOK, ExecRow
  <2>9. PublicationInv'
    <3>1. \A t \in Tasks : Published(t)' => \E p \in submitted' : t \in PlanTasks(p)
      BY <1>2, <2>2 DEF PublicationInv, BlockerInv
    <3>2. \A e \in deps' : Published(e[1])' /\ Published(e[2])'
      BY <2>2, <2>3, <2>4 DEF PublicationInv, BlockerInv
    <3>3. (\A k \in DOMAIN execs : Published(execs[k].task))'
      BY <2>2, <2>7, <2>8 DEF PublicationInv, BlockerInv, Published, Ready
    <3> QED BY <3>1, <3>2, <3>3 DEF PublicationInv
  <2>10. StartedAfterBlockers'
    <3> SUFFICES ASSUME NEW k \in DOMAIN execs', NEW e \in deps, e[1] = execs'[k].task
                 PROVE  task'[e[2]].status = "completed"
      BY <2>3 DEF StartedAfterBlockers
    <3>1. CASE k \in DOMAIN execs
      BY <2>1, <2>4, <2>8, <3>1 DEF StartedAfterBlockers, BlockerInv
    <3>2. CASE k \notin DOMAIN execs
      <4>1. task[e[1]].blocked = 0
        BY <2>7, <3>2 DEF Ready
      <4> QED BY <2>1, <2>4, <4>1 DEF UnblockedMeansDone, BlockerInv
    <3> QED BY <3>1, <3>2
  <2> QED BY <2>6, <2>9, <2>10 DEF BlockerInv
<1> QED
  BY <1>1, <1>2
  DEF Next, vars, RegisterRuntime, StopRuntime, ChangeCardStatus, Claim, ClaimWithoutCard,
      MarkExecutionStarted, RenewLease, LeaseRunsOut, CompleteExecution, FailExecution,
      CancelExecution, FinishCardUnload, ReclaimLeasedTasks

LEMMA BlockerInvCorrect == ASSUME PublishedOnce PROVE Spec => []BlockerInv
<1>1. Init => BlockerInv
  BY DEF Init, BlockerInv, PublicationInv, Published, UnblockedMeansDone, StartedAfterBlockers
<1>2. TypeOK /\ SchedulerInv /\ BlockerInv /\ [Next]_vars => BlockerInv'
  BY BlockersStep
<1> QED BY <1>1, <1>2, SchedulerInvCorrect, PTL DEF Spec

(* Published once, a task's counter reaches zero only when every blocker   *)
(* has completed, in whatever order completions, failures, retries and     *)
(* reclaims of the blockers happen.                                        *)
THEOREM UnblockedMeansDoneCorrect == ASSUME PublishedOnce PROVE Spec => []UnblockedMeansDone
BY BlockerInvCorrect, PTL DEF BlockerInv

(* Published once, no task is started before all its blockers completed.   *)
THEOREM StartedAfterBlockersCorrect == ASSUME PublishedOnce PROVE Spec => []StartedAfterBlockers
BY BlockerInvCorrect, PTL DEF BlockerInv
-----------------------------------------------------------------------------
(* The refinement of TaskBoard.                                            *)

(* A step that leaves the status and the key of every task and the verdict  *)
(* on every claim alone is invisible on the board.                         *)
LEMMA InvisibleStep ==
  ASSUME \A t \in Tasks : task'[t].status = task[t].status /\ task'[t].key = task[t].key,
         DOMAIN execs' = DOMAIN execs,
         \A k \in DOMAIN execs : Verdict(k)' = Verdict(k)
  PROVE  UNCHANGED Board!bvars
<1>1. \A t \in Tasks : BoardRow(t)' = BoardRow(t)
  BY DEF BoardRow
<1>2. [t \in Tasks |-> BoardRow(t)]' = [t \in Tasks |-> BoardRow(t)]
  BY <1>1
<1>3. [k \in DOMAIN execs |-> Verdict(k)]' = [k \in DOMAIN execs |-> Verdict(k)]
  OBVIOUS
<1> QED BY <1>2, <1>3 DEF Board!bvars

(* A publication posts the tasks of its plan.                              *)
LEMMA PostStep ==
  ASSUME NEW p \in Plans, Publish(p)
  PROVE  Board!Post(PlanTasks(p))
<1>1. \A t \in Tasks : BoardRow(t)' =
        IF t \in PlanTasks(p) THEN Board!Posted ELSE BoardRow(t)
  BY DEF Publish, BoardRow, Board!Posted, NoKey
<1>2. [k \in DOMAIN execs |-> Verdict(k)]' = [k \in DOMAIN execs |-> Verdict(k)]
  BY DEF Publish, Verdict
<1> QED BY <1>1, <1>2 DEF Board!Post

(* A claim takes a task that has tries left, under a key not used before.  *)
LEMMA TakeStep ==
  ASSUME TypeOK, TasksAgreeWithAttempts, NEW r \in Runtimes, NEW t \in Tasks, Claim(r, t)
  PROVE  \E c \in ExecIds \X (1..MaxAttempts) : Board!Take(t, c)
<1>1. PICK k \in NextKeys(t), c \in CardFor(t) :
        /\ k \notin DOMAIN execs
        /\ execs' = [j \in DOMAIN execs \cup {k} |->
                       IF j = k
                       THEN [status |-> "claimed", task |-> t, runtime |-> r,
                             card |-> c, leased |-> TRUE]
                       ELSE execs[j]]
        /\ task' = [task EXCEPT ![t] = [@ EXCEPT !.status = "in_progress",
                                                 !.owner = r, !.key = k]]
  BY DEF Claim
<1>2. task[t] \in TaskRow /\ task[t].status = "pending"
  BY DEF TypeOK, Claim, Ready
<1>3. task[t].key[2] \in Nat /\ task[t].key[2] < MaxAttempts
  <2>1. TaskAgreesWithAttempt(t)
    BY DEF TasksAgreeWithAttempts
  <2>2. CASE task[t].key = NoKey
    BY <2>2, ConstantsAssumption DEF NoKey
  <2>3. CASE task[t].key # NoKey
    BY <1>2, <2>1, <2>3 DEF TaskAgreesWithAttempt, TaskRow, Key
  <2> QED BY <2>2, <2>3
<1>4. k \in ExecIds \X (1..MaxAttempts) /\ k[2] = task[t].key[2] + 1
  <2>1. CASE task[t].key = NoKey
    BY <1>1, <2>1, ConstantsAssumption DEF NextKeys, NoKey
  <2>2. CASE task[t].key # NoKey
    BY <1>1, <1>2, <1>3, <2>2, ConstantsAssumption DEF NextKeys, TaskRow, Key
  <2> QED BY <2>1, <2>2
<1>5. \A u \in Tasks : BoardRow(u)' =
        IF u = t THEN [status |-> "in_progress", holder |-> k, tries |-> BoardRow(t).tries + 1]
                 ELSE BoardRow(u)
  <2>1. task'[t].status = "in_progress" /\ task'[t].key = k
    BY <1>1, <1>2 DEF TypeOK, TaskRow
  <2>2. \A u \in Tasks \ {t} : task'[u] = task[u]
    BY <1>1 DEF TypeOK
  <2> QED BY <1>4, <2>1, <2>2 DEF BoardRow
<1>6. [j \in DOMAIN execs |-> Verdict(j)]' =
        [j \in DOMAIN execs \cup {k} |-> IF j = k THEN "held" ELSE Verdict(j)]
  BY <1>1 DEF Verdict, ActiveStatus
<1> DEFINE B == [u \in Tasks |-> BoardRow(u)]
           V == [j \in DOMAIN execs |-> Verdict(j)]
<1>7. B[t].status = "pending" /\ B[t].tries < MaxAttempts /\ k \notin DOMAIN V
  BY <1>1, <1>2, <1>3 DEF BoardRow
<1>8. B' = [B EXCEPT ![t] = [status |-> "in_progress", holder |-> k, tries |-> @.tries + 1]]
  BY <1>5
<1>9. V' = [j \in DOMAIN V \cup {k} |-> IF j = k THEN "held" ELSE V[j]]
  BY <1>6
<1>10. Board!Take(t, k)
  BY <1>7, <1>8, <1>9 DEF Board!Take
<1> QED BY <1>4, <1>10

(* Current attempts that end with one verdict settle their tasks.          *)
LEMMA SettleStep ==
  ASSUME TypeOK, TasksAgreeWithAttempts,
         NEW S \in SUBSET DOMAIN execs, NEW outcome, NEW status,
         \A k \in S : IsActive(k) /\ task[execs[k].task].key = k,
         DOMAIN execs' = DOMAIN execs,
         \A k \in DOMAIN execs : Verdict(k)' = IF k \in S THEN outcome ELSE Verdict(k),
         \A t \in Tasks : task'[t].key = task[t].key,
         \A t \in Tasks : task'[t].status = IF \E k \in S : execs[k].task = t
                                            THEN status[t] ELSE task[t].status,
         \A k \in S : status[execs[k].task] # "in_progress"
  PROVE  Board!Settle({execs[k].task : k \in S}, outcome, status)
<1> DEFINE T == {execs[k].task : k \in S}
           B == [t \in Tasks |-> BoardRow(t)]
           V == [k \in DOMAIN execs |-> Verdict(k)]
<1>1. \A k \in S : /\ execs[k].task \in Tasks
                   /\ task[execs[k].task].status = "in_progress"
                   /\ task[execs[k].task].key = k
  <2> TAKE k \in S
  <2>1. k \in DOMAIN execs /\ execs[k].status \in ActiveStatus /\ task[execs[k].task].key = k
    BY DEF IsActive
  <2> QED BY <2>1, CurrentAttemptFacts
<1>2. \A t \in T : t \in Tasks /\ B[t].status = "in_progress"
  BY <1>1 DEF BoardRow
<1>3. \A t \in Tasks : t \in T <=> \E k \in S : execs[k].task = t
  OBVIOUS
<1>4. \A t \in T : status[t] # "in_progress"
  OBVIOUS
<1>5. \A t \in Tasks : BoardRow(t)' =
        IF t \in T THEN [status |-> status[t], holder |-> NoKey, tries |-> B[t].tries]
                   ELSE B[t]
  <2> TAKE t \in Tasks
  <2> HIDE DEF T
  <2>1. CASE t \in T
    BY <1>3, <1>4, <2>1 DEF BoardRow
  <2>2. CASE t \notin T
    BY <1>3, <2>2 DEF BoardRow
  <2> QED BY <2>1, <2>2
<1>6. Board!Held(T) = S
  <2>1. \A k \in S : execs[k].task \in T /\ B[execs[k].task].holder = k
    BY <1>1 DEF BoardRow
  <2>2. \A t \in T : B[t].holder \in S
    BY <1>1, <2>1
  <2>3. {B[t].holder : t \in T} = S
    <3> HIDE DEF T, B
    <3> QED BY <2>1, <2>2
  <2> QED BY <2>3 DEF Board!Held
<1>7. V' = [k \in DOMAIN V |-> IF k \in Board!Held(T) THEN outcome ELSE V[k]]
  BY <1>6
<1>8. B' = [t \in Tasks |->
              IF t \in T THEN [status |-> status[t], holder |-> NoKey, tries |-> B[t].tries]
                         ELSE B[t]]
  BY <1>5
<1> QED BY <1>2, <1>7, <1>8 DEF Board!Settle

(* A task for which no card is found is refused.                           *)
LEMMA RefuseStep ==
  ASSUME TypeOK, NEW r \in Runtimes, NEW t \in Tasks, ClaimWithoutCard(r, t)
  PROVE  Board!Refuse(t)
<1> DEFINE B == [u \in Tasks |-> BoardRow(u)]
<1>1. task[t] \in TaskRow /\ task[t].status = "pending"
  BY DEF TypeOK, ClaimWithoutCard, Ready
<1>2. /\ task'[t].status = "failed"
      /\ task'[t].key = task[t].key
      /\ \A u \in Tasks \ {t} : task'[u] = task[u]
  BY <1>1 DEF ClaimWithoutCard, TypeOK, TaskRow
<1>3. \A u \in Tasks : BoardRow(u)' =
        IF u = t THEN [status |-> "failed", holder |-> NoKey, tries |-> task[t].key[2]]
                 ELSE BoardRow(u)
  BY <1>2 DEF BoardRow
<1>4. B[t] = [status |-> "pending", holder |-> NoKey, tries |-> task[t].key[2]]
  BY <1>1 DEF BoardRow
<1>5. B' = [B EXCEPT ![t].status = "failed"]
  <2>1. [B[t] EXCEPT !.status = "failed"] =
          [status |-> "failed", holder |-> NoKey, tries |-> task[t].key[2]]
    <3> HIDE DEF B
    <3> QED BY <1>4
  <2>2. B' = [u \in Tasks |-> IF u = t THEN [B[t] EXCEPT !.status = "failed"] ELSE B[u]]
    BY <1>3, <2>1
  <2> QED BY <2>2
<1>6. [k \in DOMAIN execs |-> Verdict(k)]' = [k \in DOMAIN execs |-> Verdict(k)]
  BY DEF ClaimWithoutCard, Verdict
<1> QED BY <1>4, <1>5, <1>6 DEF Board!Refuse

(* One current attempt that ends settles its task.                         *)
LEMMA EndStep ==
  ASSUME TypeOK, TasksAgreeWithAttempts, NEW k \in DOMAIN execs, IsCurrentAttempt(k),
         NEW es \in TerminalStatus, NEW ts, ts # "in_progress",
         NEW status, status[execs[k].task] = ts,
         execs' = EndExec(k, es),
         \A t \in Tasks : /\ task'[t].status = EndTask(k, ts)[t].status
                          /\ task'[t].key = EndTask(k, ts)[t].key
  PROVE  Board!Settle({execs[k].task},
                      IF es \in {"failed", "expired"} THEN "lost" ELSE es, status)
<1> DEFINE outcome == IF es \in {"failed", "expired"} THEN "lost" ELSE es
<1>1. IsActive(k) /\ task[execs[k].task].key = k
  BY DEF IsCurrentAttempt
<1>2. /\ DOMAIN execs' = DOMAIN execs
      /\ \A j \in DOMAIN execs : j # k => execs'[j] = execs[j]
      /\ execs'[k].status = es
      /\ \A t \in Tasks : t # execs[k].task => EndTask(k, ts)[t] = task[t]
      /\ EndTask(k, ts)[execs[k].task].status = ts
      /\ EndTask(k, ts)[execs[k].task].key = task[execs[k].task].key
  BY EndRowsStep
<1>3. \A j \in DOMAIN execs : Verdict(j)' = IF j \in {k} THEN outcome ELSE Verdict(j)
  BY <1>2 DEF Verdict, ActiveStatus, TerminalStatus
<1>4. \A t \in Tasks : /\ task'[t].key = task[t].key
                       /\ task'[t].status = IF \E j \in {k} : execs[j].task = t
                                            THEN status[t] ELSE task[t].status
  BY <1>2
<1>5. Board!Settle({execs[j].task : j \in {k}}, outcome, status)
  <2> HIDE DEF outcome
  <2> QED BY <1>1, <1>2, <1>3, <1>4, SettleStep
<1>6. {execs[j].task : j \in {k}} = {execs[k].task}
  OBVIOUS
<1> QED BY <1>5, <1>6

LEMMA CompleteStep ==
  ASSUME TypeOK, TasksAgreeWithAttempts, NEW k \in DOMAIN execs, CompleteExecution(k)
  PROVE  Board!Finish(execs[k].task)
<1> DEFINE tb == EndTask(k, "completed")
           status == [u \in Tasks |-> "completed"]
<1>1. IsCurrentAttempt(k) /\ execs' = EndExec(k, "completed")
  BY DEF CompleteExecution
<1>2. execs[k].task \in Tasks /\ tb \in [Tasks -> TaskRow]
  <2>1. "completed" \in TerminalStatus /\ "completed" \in TaskStatus
    BY DEF TerminalStatus, TaskStatus
  <2> QED BY <2>1, EndRowsType DEF TypeOK, ExecRow
<1>3. \A t \in Tasks : task'[t].status = tb[t].status /\ task'[t].key = tb[t].key
  <2> HIDE DEF tb
  <2>1. task' = [d \in Tasks |-> IF d \in Dependents(execs[k].task)
                                 THEN [tb[d] EXCEPT !.blocked = Remaining(tb, d)]
                                 ELSE tb[d]]
    BY DEF CompleteExecution, tb
  <2> QED BY <1>2, <2>1 DEF TaskRow
<1>4. Board!Settle({execs[k].task}, IF "completed" \in {"failed", "expired"} THEN "lost"
                                    ELSE "completed", status)
  <2>1. "completed" \in TerminalStatus /\ status[execs[k].task] = "completed"
    BY <1>2 DEF TerminalStatus
  <2> HIDE DEF status
  <2> QED BY <1>1, <1>3, <2>1, EndStep
<1> QED BY <1>4 DEF Board!Finish

LEMMA CancelStep ==
  ASSUME TypeOK, TasksAgreeWithAttempts, NEW k \in DOMAIN execs, CancelExecution(k)
  PROVE  Board!Withdraw(execs[k].task)
<1> DEFINE status == [u \in Tasks |-> "cancelled"]
<1>1. IsCurrentAttempt(k) /\ execs' = EndExec(k, "cancelled") /\ task' = EndTask(k, "cancelled")
  BY DEF CancelExecution
<1>2. "cancelled" \in TerminalStatus /\ status[execs[k].task] = "cancelled"
  BY DEF TerminalStatus, TypeOK, ExecRow
<1>3. Board!Settle({execs[k].task}, IF "cancelled" \in {"failed", "expired"} THEN "lost"
                                    ELSE "cancelled", status)
  <2> HIDE DEF status
  <2> QED BY <1>1, <1>2, EndStep
<1> QED BY <1>3 DEF Board!Withdraw

(* What becomes of the task of a lost attempt.                             *)
LEMMA LossStatus ==
  ASSUME NEW t \in Tasks
  PROVE  /\ Board!AfterLoss[t] = StatusAfterLoss(task[t].key)
         /\ Board!AfterLoss[t] # "in_progress"
BY DEF Board!AfterLoss, StatusAfterLoss, RetryScheduled, BoardRow

LEMMA FailStep ==
  ASSUME TypeOK, TasksAgreeWithAttempts, NEW k \in DOMAIN execs, FailExecution(k)
  PROVE  Board!Lose({execs[k].task})
<1> DEFINE ts == StatusAfterLoss(k)
<1>1. /\ IsCurrentAttempt(k)
      /\ execs' = EndExec(k, "failed")
      /\ task' = EndTask(k, ts)
      /\ task[execs[k].task].key = k
  BY DEF FailExecution, IsCurrentAttempt
<1>2. "failed" \in TerminalStatus /\ execs[k].task \in Tasks
  BY DEF TerminalStatus, TypeOK, ExecRow
<1>3. Board!AfterLoss[execs[k].task] = ts /\ ts # "in_progress"
  BY <1>1, <1>2, LossStatus
<1>4. Board!Settle({execs[k].task}, IF "failed" \in {"failed", "expired"} THEN "lost"
                                    ELSE "failed", Board!AfterLoss)
  <2> HIDE DEF ts
  <2> QED BY <1>1, <1>2, <1>3, EndStep
<1> QED BY <1>4 DEF Board!Lose

LEMMA ReclaimStep ==
  ASSUME TypeOK, TasksAgreeWithAttempts,
         NEW S \in SUBSET DOMAIN execs, ReclaimLeasedTasks(S)
  PROVE  Board!Lose({execs[k].task : k \in S})
<1> DEFINE status == Board!AfterLoss
<1>1. \A k \in S : IsActive(k) /\ task[execs[k].task].key = k
  BY DEF ReclaimLeasedTasks, Reclaimable
<1>2. /\ DOMAIN execs' = DOMAIN execs
      /\ \A k \in DOMAIN execs : Verdict(k)' = IF k \in S THEN "lost" ELSE Verdict(k)
  <2>1. \A k \in DOMAIN execs : k \notin S => execs'[k] = execs[k]
    BY DEF ReclaimLeasedTasks
  <2>2. \A k \in S : execs'[k].status = "expired"
    BY DEF ReclaimLeasedTasks, TypeOK, ExecRow
  <2>3. DOMAIN execs' = DOMAIN execs
    BY DEF ReclaimLeasedTasks
  <2> QED BY <2>1, <2>2, <2>3 DEF Verdict, ActiveStatus
<1>3. \A t \in Tasks : /\ task'[t].key = task[t].key
                       /\ task'[t].status = IF \E k \in S : execs[k].task = t
                                            THEN status[t] ELSE task[t].status
  <2> TAKE t \in Tasks
  <2> HIDE DEF status
  <2>1. CASE \E k \in S : execs[k].task = t
    <3>1. task'[t] = [task[t] EXCEPT !.status = StatusAfterLoss(task[t].key),
                                     !.owner = NoRuntime]
      BY <2>1 DEF ReclaimLeasedTasks
    <3>2. task'[t].status = StatusAfterLoss(task[t].key) /\ task'[t].key = task[t].key
      BY <3>1 DEF TypeOK, TaskRow
    <3> QED BY <2>1, <3>2, LossStatus DEF status
  <2>2. CASE ~ \E k \in S : execs[k].task = t
    BY <2>2 DEF ReclaimLeasedTasks
  <2> QED BY <2>1, <2>2
<1>4. \A k \in S : status[execs[k].task] # "in_progress"
  BY LossStatus DEF TypeOK, ExecRow
<1>5. Board!Settle({execs[k].task : k \in S}, "lost", status)
  <2> HIDE DEF status
  <2> QED BY <1>1, <1>2, <1>3, <1>4, SettleStep
<1> QED BY <1>5 DEF Board!Lose

(* The empty tables are an empty board.                                    *)
LEMMA InitBoard == Init => Board!BInit
<1> SUFFICES ASSUME Init PROVE Board!BInit
  OBVIOUS
<1>1. \A t \in Tasks : BoardRow(t) = Board!NotPosted
  BY DEF Init, BoardRow, Board!NotPosted, NoKey
<1>2. [k \in DOMAIN execs |-> Verdict(k)] = [c \in {} |-> "held"]
  <2>1. DOMAIN execs = {}
    BY DEF Init
  <2> QED BY <2>1
<1> QED BY <1>1, <1>2 DEF Board!BInit

(* Every step of the scheduler is a step of the board or leaves it alone.  *)
LEMMA StepBoard ==
  TypeOK /\ TasksAgreeWithAttempts /\ [Next]_vars => [Board!BNext]_Board!bvars
<1> SUFFICES ASSUME TypeOK, TasksAgreeWithAttempts, [Next]_vars
             PROVE  [Board!BNext]_Board!bvars
  OBVIOUS
<1> USE DEF Board!BNext
<1>1. CASE UNCHANGED vars
  BY <1>1, InvisibleStep DEF vars, Verdict
<1>2. ASSUME NEW p \in Plans, Publish(p) PROVE Board!BNext
  <2>1. PlanTasks(p) \in SUBSET Tasks
    BY PlanTasksType
  <2> QED BY <1>2, <2>1, PostStep
<1>3. ASSUME NEW r \in Runtimes, RegisterRuntime(r) \/ StopRuntime(r)
      PROVE  UNCHANGED Board!bvars
  BY <1>3, InvisibleStep DEF RegisterRuntime, StopRuntime, Verdict
<1>4. ASSUME NEW c \in Cards, ChangeCardStatus(c) PROVE UNCHANGED Board!bvars
  BY <1>4, InvisibleStep DEF ChangeCardStatus, Verdict
<1>5. ASSUME NEW r \in Runtimes, NEW t \in Tasks, Claim(r, t) PROVE Board!BNext
  BY <1>5, TakeStep
<1>6. ASSUME NEW r \in Runtimes, NEW t \in Tasks, ClaimWithoutCard(r, t) PROVE Board!BNext
  BY <1>6, RefuseStep
<1>7. ASSUME NEW k \in DOMAIN execs,
             MarkExecutionStarted(k) \/ RenewLease(k) \/ LeaseRunsOut(k)
      PROVE  UNCHANGED Board!bvars
  <2>1. /\ task' = task
        /\ DOMAIN execs' = DOMAIN execs
        /\ \A j \in DOMAIN execs : j # k => execs'[j] = execs[j]
    BY <1>7 DEF MarkExecutionStarted, RenewLease, LeaseRunsOut
  <2>2. execs[k].status \in ActiveStatus /\ execs'[k].status \in ActiveStatus
    <3>1. CASE MarkExecutionStarted(k)
      <4>1. execs[k].status = "claimed" /\ execs[k] \in ExecRow
        BY <3>1 DEF MarkExecutionStarted, TypeOK
      <4>2. execs'[k] = [[execs[k] EXCEPT !.status = "running"] EXCEPT !.leased = TRUE]
        BY <3>1 DEF MarkExecutionStarted
      <4>3. execs'[k].status = "running"
        BY <4>1, <4>2 DEF ExecRow
      <4> QED BY <4>1, <4>3 DEF ActiveStatus
    <3>2. CASE RenewLease(k)
      <4>1. execs[k].status \in ActiveStatus /\ execs[k] \in ExecRow
        BY <3>2 DEF RenewLease, IsCurrentAttempt, IsActive, TypeOK
      <4>2. execs'[k] = [execs[k] EXCEPT !.leased = TRUE]
        BY <3>2 DEF RenewLease
      <4> QED BY <4>1, <4>2 DEF ExecRow
    <3>3. CASE LeaseRunsOut(k)
      <4>1. execs[k].status \in ActiveStatus /\ execs[k] \in ExecRow
        BY <3>3 DEF LeaseRunsOut, IsActive, TypeOK
      <4>2. execs'[k] = [execs[k] EXCEPT !.leased = FALSE]
        BY <3>3 DEF LeaseRunsOut
      <4> QED BY <4>1, <4>2 DEF ExecRow
    <3> QED BY <1>7, <3>1, <3>2, <3>3
  <2>3. \A j \in DOMAIN execs : Verdict(j)' = Verdict(j)
    BY <2>1, <2>2 DEF Verdict, ActiveStatus
  <2> QED BY <2>1, <2>3, InvisibleStep
<1>8. ASSUME NEW k \in DOMAIN execs,
             CompleteExecution(k) \/ FailExecution(k) \/ CancelExecution(k)
      PROVE  Board!BNext
  <2>1. execs[k].task \in Tasks
    BY DEF TypeOK, ExecRow
  <2> QED BY <1>8, <2>1, CompleteStep, FailStep, CancelStep
<1>9. ASSUME NEW k \in DOMAIN execs, FinishCardUnload(k) PROVE UNCHANGED Board!bvars
  BY <1>9, InvisibleStep DEF FinishCardUnload, Verdict
<1>10. ASSUME NEW S \in SUBSET DOMAIN execs, ReclaimLeasedTasks(S) PROVE Board!BNext
  <2>1. {execs[k].task : k \in S} \in SUBSET Tasks
    BY DEF TypeOK, ExecRow
  <2> QED BY <1>10, <2>1, ReclaimStep
<1> HIDE DEF Board!BNext
<1> QED BY <1>1, <1>2, <1>3, <1>4, <1>5, <1>6, <1>7, <1>8, <1>9, <1>10 DEF Next

(* Whatever calls arrive, the scheduler only posts tasks, hands out new     *)
(* claims on waiting tasks, and settles a claim together with its task,     *)
(* once, while the task is in progress under it.                           *)
THEOREM SchedulerImplementsTaskBoard == Spec => ImplementsTaskBoard
<1>1. Init => Board!BInit
  BY InitBoard
<1>2. TypeOK /\ SchedulerInv /\ [Next]_vars => [Board!BNext]_Board!bvars
  BY StepBoard DEF SchedulerInv
<1> QED BY <1>1, <1>2, SchedulerInvCorrect, PTL DEF Spec, ImplementsTaskBoard, Board!BSpec
=============================================================================
