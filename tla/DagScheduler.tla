----------------------------- MODULE DagScheduler -----------------------------
(***************************************************************************)
(* The task scheduler of lib/dag_scheduler.py over the tables of           *)
(* schema.sql.  Every public operation of DAGScheduler that changes rows   *)
(* runs in one PostgreSQL transaction and is one action here; the          *)
(* statement-level interleavings inside a transaction are the subject of   *)
(* SchedulerTxns.                                                          *)
(*                                                                         *)
(* The operations that finish, renew or cancel an attempt take the claim   *)
(* (task, execution, attempt, runtime) the caller was given; an action     *)
(* takes the key of the claim's row, and any claim ever given may be used  *)
(* at any later time, however late.  A call that is refused as stale only  *)
(* adds an audit row (execution.stale_update_rejected) and is a stuttering *)
(* step.  The other audit events, the timestamps and the payloads are left *)
(* out; of the lease only whether it has run out is kept.                  *)
(***************************************************************************)
EXTENDS Integers, FiniteSets, Sequences

CONSTANTS Tasks,        (* tasks.id                                        *)
          Runtimes,     (* agent_runtimes.runtime_id                       *)
          ExecIds,      (* the UUIDs a claim can draw: bounds the number of *)
                        (* executions of a behaviour                       *)
          Cards,        (* (agent_card_id, version) in agent_cards         *)
          Plans,        (* the task lists publish_dag may be called with   *)
          MaxAttempts,  (* DAGScheduler.max_attempts                       *)
          Selector,     (* tasks.card_selector, NoCard when it is null     *)
          TypeCards,    (* the cards whose task_types hold the task's type *)
          NoRuntime, NoExec, NoCard   (* SQL NULL of each column           *)

ASSUME ConstantsAssumption ==
  /\ IsFiniteSet(Tasks)
  /\ MaxAttempts \in Nat \ {0}
  /\ NoRuntime \notin Runtimes
  /\ NoExec \notin ExecIds
  /\ NoCard \notin Cards
  /\ Selector \in [Tasks -> Cards \cup {NoCard}]
  /\ TypeCards \in [Tasks -> SUBSET Cards]

(* A plan is the list of tasks of one publish_dag call.                    *)
ASSUME PlansAssumption ==
  \A p \in Plans : p \in Seq([id : Tasks, blockedBy : Seq(Tasks)])

VARIABLES
  task,       (* table tasks: status, owner, blocked_by_count, current key  *)
  execs,      (* table task_executions, a function on the inserted keys     *)
  runtime,    (* table agent_runtimes: status and current key               *)
  deps,       (* table task_dependencies: pairs <<task_id, blocker_id>>     *)
  active,     (* the cards of agent_cards whose status is 'active'          *)
  announced,  (* tasks with a task_available event enqueued since the task  *)
              (* was last claimed or published                              *)
  submitted   (* plans already published; each is published at most once,   *)
              (* which bounds the number of publications                    *)

vars == <<task, execs, runtime, deps, active, announced, submitted>>
-----------------------------------------------------------------------------
(* An attempt is identified by (execution_id, attempt).                    *)
Key   == ExecIds \X Nat
NoKey == <<NoExec, 0>>

ActiveStatus   == {"claimed", "running"}
TerminalStatus == {"completed", "failed", "expired", "cancelled"}

TaskStatus    == {"absent", "pending", "in_progress", "completed", "failed", "cancelled"}
RuntimeStatus == {"absent", "idle", "loading", "running", "unloading", "stopped"}

TaskRow == [status  : TaskStatus,
            owner   : Runtimes \cup {NoRuntime},
            blocked : Nat,
            key     : Key \cup {NoKey}]

ExecRow == [status  : ActiveStatus \cup TerminalStatus,
            task    : Tasks,
            runtime : Runtimes,
            card    : Cards,
            leased  : BOOLEAN]

RuntimeRow == [status : RuntimeStatus, key : Key \cup {NoKey}]

Published(t) == task[t].status # "absent"

(* Mutant: a claim that does not look at blocked_by_count.                 *)
ReadyWithoutBlockers(t) == task[t].status = "pending"

Ready(t)     == task[t].status = "pending" /\ task[t].blocked = 0

IsActive(k)   == k \in DOMAIN execs /\ execs[k].status \in ActiveStatus
IsTerminal(k) == k \in DOMAIN execs /\ execs[k].status \in TerminalStatus

(* DAGScheduler._is_current_attempt                                        *)
IsCurrentAttempt(k) ==
  /\ IsActive(k)
  /\ task[execs[k].task].key = k
  /\ task[execs[k].task].owner = execs[k].runtime

Init ==
  /\ task = [t \in Tasks |-> [status |-> "absent", owner |-> NoRuntime,
                              blocked |-> 0, key |-> NoKey]]
  /\ execs = [k \in {} |-> 0]
  /\ runtime = [r \in Runtimes |-> [status |-> "absent", key |-> NoKey]]
  /\ deps = {}
  /\ active \in SUBSET Cards
  /\ announced = {}
  /\ submitted = {}
-----------------------------------------------------------------------------
(* Publication.                                                            *)

PlanTasks(p) == {p[i].id : i \in DOMAIN p}

PlanDeps(p) ==
  {e \in Tasks \X Tasks :
     \E i \in DOMAIN p : /\ p[i].id = e[1]
                         /\ \E j \in DOMAIN p[i].blockedBy : p[i].blockedBy[j] = e[2]}

(* A blocker must be a row already: published before, or inserted earlier  *)
(* in the same list.  Otherwise the foreign key aborts the transaction.    *)
BlockersExist(p) ==
  \A i \in DOMAIN p : \A j \in DOMAIN p[i].blockedBy :
    \/ Published(p[i].blockedBy[j])
    \/ \E m \in 1..i : p[m].id = p[i].blockedBy[j]

(* The upsert of a later row of the list replaces that of an earlier one.  *)
LastRow(p, t) ==
  CHOOSE i \in DOMAIN p : /\ p[i].id = t
                          /\ \A j \in DOMAIN p : p[j].id = t => j <= i

(* insert_dag_to_db: every listed task becomes a pending row without an    *)
(* execution, whatever it was before; blocked_by_count is the length of    *)
(* its blockedBy list; a task listed with no blocker is announced.         *)
Publish(p) ==
  /\ p \in Plans \ submitted
  /\ p # << >>
  /\ BlockersExist(p)
  /\ task' = [t \in Tasks |->
                IF t \in PlanTasks(p)
                THEN [status |-> "pending", owner |-> NoRuntime,
                      blocked |-> Len(p[LastRow(p, t)].blockedBy), key |-> NoKey]
                ELSE task[t]]
  /\ deps' = deps \cup PlanDeps(p)
  /\ announced' = (announced \ PlanTasks(p))
                    \cup {t \in Tasks : \E i \in DOMAIN p : p[i].id = t /\ p[i].blockedBy = << >>}
  /\ submitted' = submitted \cup {p}
  /\ UNCHANGED <<execs, runtime, active>>
-----------------------------------------------------------------------------
(* Runtime registration.                                                   *)

(* register_runtime: a new or restarted worker becomes idle; the row of    *)
(* the attempt it was running, if any, is left as it is.                   *)
RegisterRuntime(r) ==
  /\ runtime' = [runtime EXCEPT ![r] = [status |-> "idle", key |-> NoKey]]
  /\ UNCHANGED <<task, execs, deps, active, announced, submitted>>

(* stop_runtime                                                            *)
StopRuntime(r) ==
  /\ runtime[r].status # "absent"
  /\ runtime' = [runtime EXCEPT ![r].status = "stopped"]
  /\ UNCHANGED <<task, execs, deps, active, announced, submitted>>

(* Whoever maintains the card registry activates or retires a version; the *)
(* content of a version never changes (trigger of schema.sql).             *)
ChangeCardStatus(c) ==
  /\ active' = IF c \in active THEN active \ {c} ELSE active \cup {c}
  /\ UNCHANGED <<task, execs, runtime, deps, announced, submitted>>
-----------------------------------------------------------------------------
(* Claiming.                                                               *)

(* _resolve_active_card: the selected version if it is active, else the    *)
(* one active card for the task's type; empty when there is none or more.  *)
ResolveActiveCard(t) ==
  IF Selector[t] # NoCard
  THEN {Selector[t]} \cap active
  ELSE {c \in TypeCards[t] \cap active : \A d \in TypeCards[t] \cap active : d = c}

(* _load_frozen_card: a retry uses the card of the attempt before it, and  *)
(* only while that version is active.                                      *)
LoadFrozenCard(k) == {execs[k].card} \cap active

(* Mutant: a card that is not found is stored as null.                     *)
CardOrNull(t) ==
  LET found == IF task[t].key = NoKey THEN ResolveActiveCard(t) ELSE LoadFrozenCard(task[t].key)
  IN  IF found = {} THEN {NoCard} ELSE found

(* The card the next attempt of t would use, as a set of at most one.      *)
CardFor(t) ==
  IF task[t].key = NoKey THEN ResolveActiveCard(t) ELSE LoadFrozenCard(task[t].key)

(* A first attempt draws a new execution_id; a retry keeps it.             *)
NextKeys(t) ==
  IF task[t].key = NoKey
  THEN {<<x, 1>> : x \in {y \in ExecIds : \A k \in DOMAIN execs : k[1] # y}}
  ELSE {<<task[t].key[1], task[t].key[2] + 1>>}

(* claim_next_available_task, a card found.                                *)
Claim(r, t) ==
  /\ runtime[r].status = "idle"
  /\ Ready(t)
  /\ \E k \in NextKeys(t), c \in CardFor(t) :
       /\ k \notin DOMAIN execs       \* PRIMARY KEY (execution_id, attempt)
       /\ execs' = [j \in DOMAIN execs \cup {k} |->
                      IF j = k
                      THEN [status |-> "claimed", task |-> t, runtime |-> r,
                            card |-> c, leased |-> TRUE]
                      ELSE execs[j]]
       /\ task' = [task EXCEPT ![t] = [@ EXCEPT !.status = "in_progress",
                                                !.owner = r, !.key = k]]
       /\ runtime' = [runtime EXCEPT ![r] = [status |-> "loading", key |-> k]]
  /\ announced' = announced \ {t}
  /\ UNCHANGED <<deps, active, submitted>>

(* claim_next_available_task, no card: the task fails on the spot.         *)
ClaimWithoutCard(r, t) ==
  /\ runtime[r].status = "idle"
  /\ Ready(t)
  /\ CardFor(t) = {}
  /\ task' = [task EXCEPT ![t] = [@ EXCEPT !.status = "failed", !.owner = NoRuntime]]
  /\ announced' = announced \ {t}
  /\ UNCHANGED <<execs, runtime, deps, active, submitted>>
-----------------------------------------------------------------------------
(* Running an attempt.                                                     *)

(* Mutant: the runtime row is left as it was.                              *)
MarkExecutionOnly(k) ==
  /\ IsCurrentAttempt(k)
  /\ execs[k].status = "claimed"
  /\ execs' = [execs EXCEPT ![k] = [@ EXCEPT !.status = "running", !.leased = TRUE]]
  /\ UNCHANGED <<task, runtime, deps, active, announced, submitted>>

(* mark_execution_started: the runtime's status is set without a look at   *)
(* the attempt its row names.                                              *)
MarkExecutionStarted(k) ==
  /\ IsCurrentAttempt(k)
  /\ execs[k].status = "claimed"
  /\ execs' = [execs EXCEPT ![k] = [@ EXCEPT !.status = "running", !.leased = TRUE]]
  /\ runtime' = [runtime EXCEPT ![execs[k].runtime].status = "running"]
  /\ UNCHANGED <<task, deps, active, announced, submitted>>

(* renew_lease                                                             *)
RenewLease(k) ==
  /\ IsCurrentAttempt(k)
  /\ execs' = [execs EXCEPT ![k].leased = TRUE]
  /\ UNCHANGED <<task, runtime, deps, active, announced, submitted>>

(* Time passes beyond lease_expires_at of an attempt nobody renewed.       *)
LeaseRunsOut(k) ==
  /\ IsActive(k)
  /\ execs' = [execs EXCEPT ![k].leased = FALSE]
  /\ UNCHANGED <<task, runtime, deps, active, announced, submitted>>

(* The rows of an attempt that ends with the given statuses.               *)
EndExec(k, status) == [execs EXCEPT ![k] = [@ EXCEPT !.status = status, !.leased = FALSE]]
EndTask(k, status) ==
  [task EXCEPT ![execs[k].task] = [@ EXCEPT !.status = status, !.owner = NoRuntime]]

(* _set_runtime_unloading                                                  *)
SetUnloading(k) ==
  [r \in Runtimes |->
     IF r = execs[k].runtime /\ runtime[r].key = k
     THEN [runtime[r] EXCEPT !.status = "unloading"]
     ELSE runtime[r]]

Dependents(t) == {d \in Tasks : <<d, t>> \in deps}

(* Mutant: the completion is not written when the blockers are counted.    *)
RemainingBefore(tb, d) ==
  Cardinality({b \in Tasks : <<d, b>> \in deps /\ task[b].status # "completed"})

(* blocked_by_count as _update_downstream_dependencies recounts it, tb     *)
(* being the tasks table with the completion already in it.                *)
Remaining(tb, d) ==
  Cardinality({b \in Tasks : <<d, b>> \in deps /\ tb[b].status # "completed"})

(* complete_execution, with the recount of the task's dependents.          *)
CompleteExecution(k) ==
  LET t  == execs[k].task
      tb == EndTask(k, "completed")
  IN  /\ IsCurrentAttempt(k)
      /\ execs' = EndExec(k, "completed")
      /\ task' = [d \in Tasks |->
                    IF d \in Dependents(t)
                    THEN [tb[d] EXCEPT !.blocked = Remaining(tb, d)]
                    ELSE tb[d]]
      /\ runtime' = SetUnloading(k)
      /\ announced' = announced \cup {d \in Dependents(t) : Remaining(tb, d) = 0}
      /\ UNCHANGED <<deps, active, submitted>>

(* Mutant: a retry more than the limit allows.                             *)
RetryOnceMore(k) == k[2] <= MaxAttempts

(* The task of a lost or failed attempt waits for a retry or has failed.   *)
RetryScheduled(k) == k[2] < MaxAttempts
StatusAfterLoss(k) == IF RetryScheduled(k) THEN "pending" ELSE "failed"

(* fail_execution; mark_card_load_failed is the same with an audit event.  *)
FailExecution(k) ==
  /\ IsCurrentAttempt(k)
  /\ execs' = EndExec(k, "failed")
  /\ task' = EndTask(k, StatusAfterLoss(k))
  /\ runtime' = SetUnloading(k)
  /\ announced' = IF RetryScheduled(k) THEN announced \cup {execs[k].task} ELSE announced
  /\ UNCHANGED <<deps, active, submitted>>

(* cancel_execution                                                        *)
CancelExecution(k) ==
  /\ IsCurrentAttempt(k)
  /\ execs' = EndExec(k, "cancelled")
  /\ task' = EndTask(k, "cancelled")
  /\ runtime' = SetUnloading(k)
  /\ UNCHANGED <<deps, active, announced, submitted>>

(* finish_card_unload: the runtime is released only from 'unloading' and   *)
(* only by the attempt its row names.                                      *)
FinishCardUnload(k) ==
  /\ IsTerminal(k)
  /\ LET r == execs[k].runtime
     IN  /\ runtime[r].key = k
         /\ runtime[r].status = "unloading"
         /\ runtime' = [runtime EXCEPT ![r] = [status |-> "idle", key |-> NoKey]]
  /\ UNCHANGED <<task, execs, deps, active, announced, submitted>>

(* Mutant: an attempt that was claimed but not started is not reclaimed.   *)
ReclaimableRunning(k) ==
  /\ k \in DOMAIN execs
  /\ execs[k].status = "running"
  /\ ~ execs[k].leased
  /\ task[execs[k].task].key = k

(* Mutant: the task is not asked which attempt it names.                   *)
ReclaimableOrphan(k) == IsActive(k) /\ ~ execs[k].leased

(* The attempts reclaim_leased_tasks selects: the lease ran out and the    *)
(* task still names the attempt.                                           *)
Reclaimable(k) ==
  /\ IsActive(k)
  /\ ~ execs[k].leased
  /\ task[execs[k].task].key = k

(* reclaim_leased_tasks over the rows it could lock (FOR UPDATE SKIP       *)
(* LOCKED: any of the candidates may be locked by another transaction).    *)
ReclaimLeasedTasks(S) ==
  /\ S # {}
  /\ \A k \in S : Reclaimable(k)
  /\ execs' = [k \in DOMAIN execs |->
                 IF k \in S THEN [execs[k] EXCEPT !.status = "expired", !.leased = FALSE]
                            ELSE execs[k]]
  /\ task' = [t \in Tasks |->
                IF \E k \in S : execs[k].task = t
                THEN [task[t] EXCEPT !.status = StatusAfterLoss(task[t].key),
                                     !.owner = NoRuntime]
                ELSE task[t]]
  /\ runtime' = [r \in Runtimes |->
                   IF \E k \in S : execs[k].runtime = r /\ runtime[r].key = k
                   THEN [status |-> "idle", key |-> NoKey]
                   ELSE runtime[r]]
  /\ announced' = announced \cup {t \in Tasks : \E k \in S : execs[k].task = t /\ RetryScheduled(k)}
  /\ UNCHANGED <<deps, active, submitted>>
-----------------------------------------------------------------------------
Next ==
  \/ \E p \in Plans : Publish(p)
  \/ \E r \in Runtimes : RegisterRuntime(r)
  \/ \E r \in Runtimes : StopRuntime(r)
  \/ \E c \in Cards : ChangeCardStatus(c)
  \/ \E r \in Runtimes, t \in Tasks : Claim(r, t)
  \/ \E r \in Runtimes, t \in Tasks : ClaimWithoutCard(r, t)
  \/ \E k \in DOMAIN execs : MarkExecutionStarted(k)
  \/ \E k \in DOMAIN execs : RenewLease(k)
  \/ \E k \in DOMAIN execs : LeaseRunsOut(k)
  \/ \E k \in DOMAIN execs : CompleteExecution(k)
  \/ \E k \in DOMAIN execs : FailExecution(k)
  \/ \E k \in DOMAIN execs : CancelExecution(k)
  \/ \E k \in DOMAIN execs : FinishCardUnload(k)
  \/ \E S \in SUBSET DOMAIN execs : ReclaimLeasedTasks(S)

Spec == Init /\ [][Next]_vars
-----------------------------------------------------------------------------
(* The rows have the shape schema.sql and the scheduler give them.         *)
TypeOK ==
  /\ task \in [Tasks -> TaskRow]
  /\ DOMAIN execs \subseteq Key
  /\ execs \in [DOMAIN execs -> ExecRow]
  /\ runtime \in [Runtimes -> RuntimeRow]
  /\ deps \subseteq Tasks \X Tasks
  /\ active \subseteq Cards
  /\ announced \subseteq Tasks
  /\ submitted \subseteq Plans

(* The attempts of an execution are numbered 1, 2, ... up to at most       *)
(* MaxAttempts, work on one task with one frozen card, and every attempt   *)
(* but the last was lost (failed or expired).  So at most one attempt of   *)
(* an execution is under way, at most one completes, and none follows a    *)
(* completed or cancelled one: claim_next_available_task against           *)
(* complete_execution, fail_execution, cancel_execution and                *)
(* reclaim_leased_tasks called late and in any order.                      *)
AttemptHistory ==
  \A k \in DOMAIN execs :
    /\ k[2] \in 1..MaxAttempts
    /\ \A n \in 1..(k[2] - 1) :
         LET j == <<k[1], n>>
         IN  /\ j \in DOMAIN execs
             /\ execs[j].status \in {"failed", "expired"}
             /\ execs[j].task = execs[k].task
             /\ execs[j].card = execs[k].card

(* A task row agrees with the attempt it names, which is the latest of its *)
(* execution: it is in progress, and owned by that attempt's runtime, just *)
(* while the attempt is active; completed or cancelled just when the       *)
(* attempt is; and it waits for a retry only after a lost attempt that was *)
(* not the last allowed.  This is what makes a late update of an earlier   *)
(* attempt unable to change the task.                                      *)
TaskAgreesWithAttempt(t) ==
  LET s == task[t].status
      k == task[t].key
  IN  IF k = NoKey
      THEN s \in {"absent", "pending", "failed"} /\ task[t].owner = NoRuntime
      ELSE /\ k \in DOMAIN execs
           /\ execs[k].task = t
           /\ <<k[1], k[2] + 1>> \notin DOMAIN execs
           /\ s = "in_progress" <=> execs[k].status \in ActiveStatus
           /\ s = "completed" <=> execs[k].status = "completed"
           /\ s = "cancelled" <=> execs[k].status = "cancelled"
           /\ s = "pending" => k[2] < MaxAttempts
           /\ s # "absent"
           /\ task[t].owner = IF s = "in_progress" THEN execs[k].runtime ELSE NoRuntime

TasksAgreeWithAttempts == \A t \in Tasks : TaskAgreesWithAttempt(t)

(* A runtime row names only an attempt that was claimed by that runtime;   *)
(* an idle runtime names none, a loading one an attempt still under way,   *)
(* an unloading one an attempt that has ended: fail, cancel, complete and  *)
(* reclaim all move the slot with the attempt.                             *)
RuntimeAgreesWithAttempt(r) ==
  LET s == runtime[r].status
      k == runtime[r].key
  IN  /\ k # NoKey => k \in DOMAIN execs /\ execs[k].runtime = r
      /\ s \in {"idle", "absent"} => k = NoKey
      /\ s = "loading" => IsActive(k)
      /\ s = "unloading" => IsTerminal(k)

RuntimesAgreeWithAttempts == \A r \in Runtimes : RuntimeAgreesWithAttempt(r)

(* A task that is ready to be claimed has been announced since it became   *)
(* ready: by its publication, by the completion of its last blocker or by  *)
(* the loss of its last attempt, in the transaction that made it ready.    *)
ReadyIsAnnounced == \A t \in Tasks : Ready(t) => t \in announced

(* A completed task changes only by being published again: no late         *)
(* failure, cancellation or reclaim of any attempt reopens it.             *)
CompletionIsFinal ==
  [][\A t \in Tasks :
        task[t].status = "completed" =>
          \/ task'[t].status = "completed"
          \/ \E p \in submitted' \ submitted : t \in PlanTasks(p)]_vars
-----------------------------------------------------------------------------
(* No task is in two plans, nor listed twice in one: nothing is published  *)
(* again.                                                                  *)
PublishedOnce ==
  \A p, q \in Plans : \A i \in DOMAIN p, j \in DOMAIN q :
    p[i].id = q[j].id => p = q /\ i = j

(* When nothing is published again, the counter blocked_by_count is never  *)
(* zero too early: the blockers of an unblocked task are all completed.    *)
UnblockedMeansDone ==
  \A e \in deps : task[e[1]].blocked = 0 => task[e[2]].status = "completed"

(* When nothing is published again, no attempt of a task exists before all *)
(* its blockers have completed.                                            *)
StartedAfterBlockers ==
  \A k \in DOMAIN execs : \A e \in deps :
    e[1] = execs[k].task => task[e[2]].status = "completed"
=============================================================================
