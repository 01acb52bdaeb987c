------------------------------ MODULE SchedulerTxns ------------------------------
(***************************************************************************)
(* The transactions of lib/dag_scheduler.py statement by statement, at the *)
(* isolation level PostgreSQL gives them (READ COMMITTED): a statement      *)
(* sees what was committed when it runs and the writes of its own          *)
(* transaction; an UPDATE or SELECT FOR UPDATE takes the row, waits while   *)
(* another transaction has it, and judges its WHERE clause by the version   *)
(* it then finds; SKIP LOCKED passes over rows that are taken.  DagScheduler*)
(* has the same operations in one step each; that they behave like that is *)
(* the property Serializable.                                              *)
(*                                                                         *)
(* The variables of DagScheduler are the committed rows.  What a            *)
(* transaction wrote is kept as the rows it holds and what it computed, and *)
(* its writes are made when it commits.  A transaction may be rolled back   *)
(* at any time: a lost connection, an exception, or PostgreSQL that breaks  *)
(* a deadlock.                                                              *)
(*                                                                         *)
(* Left out: the waits for foreign key checks, which only delay, and the    *)
(* audit events.                                                           *)
(***************************************************************************)
EXTENDS DagScheduler

CONSTANTS Slots,      (* connections: transactions open at the same time     *)
          Calls       (* the calls made: bounds an instance to some of them  *)

AttemptCalls == {"start", "renew", "complete", "fail", "cancel", "finish"}
AllCalls     == AttemptCalls \cup {"publish", "claim", "reclaim", "register", "stop"}

ASSUME TxnAssumption == Calls \subseteq AllCalls

VARIABLE txn          (* the open transaction of each slot                   *)

tvars == <<vars, txn>>

NoTxn == [op |-> "none", at |-> "none", key |-> NoKey, runtime |-> NoRuntime,
          card |-> NoCard, plan |-> << >>, n |-> 0, hit |-> FALSE, rows |-> {},
          count |-> << >>, left |-> {}, execs |-> {}, tasks |-> {}, runtimes |-> {}]

TInit == Init /\ txn = [s \in Slots |-> NoTxn]

(* Rows no other transaction has.                                          *)
FreeExec(s, k)    == \A o \in Slots \ {s} : k \notin txn[o].execs
FreeTask(s, t)    == \A o \in Slots \ {s} : t \notin txn[o].tasks
FreeRuntime(s, r) == \A o \in Slots \ {s} : r \notin txn[o].runtimes

Goes(s, place) == txn' = [txn EXCEPT ![s] = [txn[s] EXCEPT !.at = place]]
Closes(s)      == txn' = [txn EXCEPT ![s] = NoTxn]

Begins(s, op) == op \in Calls /\ txn[s] = NoTxn

RollBack(s) ==
  /\ txn[s] # NoTxn
  /\ Closes(s)
  /\ UNCHANGED vars
-----------------------------------------------------------------------------
(* The calls about an attempt: _is_current_attempt, then an UPDATE of the  *)
(* execution, of the task and of the runtime.                              *)

Opens(s, op, k, place) ==
  txn' = [txn EXCEPT ![s] = [NoTxn EXCEPT !.op = op, !.at = place, !.key = k,
                                          !.runtime = execs[k].runtime]]

(* The check reads without a lock; if it fails nothing is written.         *)
BeginAttemptCall(s, op, k) ==
  /\ op \in AttemptCalls
  /\ Begins(s, op)
  /\ IF op = "finish" THEN Opens(s, op, k, "exec")
     ELSE IsCurrentAttempt(k) /\ Opens(s, op, k, "exec")
  /\ UNCHANGED vars

(* Mutant: the UPDATE does not repeat the test of the status.              *)
ExecMatchesAlways(op, k) == TRUE

(* The WHERE clause of the UPDATE, or FOR UPDATE, of task_executions.      *)
ExecMatches(op, k) ==
  CASE op = "start"  -> execs[k].status = "claimed"
    [] op = "finish" -> IsTerminal(k)
    [] OTHER         -> IsActive(k)

TakeExec(s) ==
  LET x == txn[s]
  IN  /\ x.at = "exec"
      /\ \/ /\ ExecMatches(x.op, x.key)
            /\ FreeExec(s, x.key)
            /\ txn' = [txn EXCEPT ![s] =
                 [x EXCEPT !.execs = {x.key},
                           !.at = IF x.op \in {"start", "finish"} THEN "runtime" ELSE "task"]]
         \/ ~ ExecMatches(x.op, x.key) /\ Closes(s)
  /\ UNCHANGED vars

(* Mutant: the UPDATE names the task alone.                                *)
TaskMatchesAlways(k, r) == TRUE

(* The WHERE clause of the UPDATE of tasks; that it may match no row is    *)
(* not looked at.                                                          *)
TaskMatches(k, r) == LET row == task[execs[k].task] IN row.key = k /\ row.owner = r

TakeTask(s) ==
  LET x == txn[s]
      t == execs[x.key].task
  IN  /\ x.at = "task"
      /\ \/ /\ TaskMatches(x.key, x.runtime)
            /\ FreeTask(s, t)
            /\ txn' = [txn EXCEPT ![s] = [x EXCEPT !.tasks = {t}, !.hit = TRUE, !.at = "runtime"]]
         \/ ~ TaskMatches(x.key, x.runtime) /\ Goes(s, "runtime")
  /\ UNCHANGED vars

(* Mutant: the UPDATE names the runtime alone.                             *)
RuntimeMatchesAlways(op, k, r) == TRUE

(* The WHERE clause of the UPDATE of agent_runtimes.                       *)
RuntimeMatches(op, k, r) ==
  CASE op \in {"start", "renew"} -> TRUE
    [] op = "finish"             -> runtime[r] = [status |-> "unloading", key |-> k]
    [] OTHER                     -> runtime[r].key = k

TakeRuntime(s) ==
  LET x    == txn[s]
      next == IF x.op = "complete" THEN "dependents" ELSE "commit"
  IN  /\ x.at = "runtime"
      /\ x.op \in AttemptCalls
      /\ \/ /\ RuntimeMatches(x.op, x.key, x.runtime)
            /\ FreeRuntime(s, x.runtime)
            /\ txn' = [txn EXCEPT ![s] = [x EXCEPT !.runtimes = {x.runtime}, !.at = next]]
         \/ /\ ~ RuntimeMatches(x.op, x.key, x.runtime)
            /\ IF x.op = "finish" THEN Closes(s) ELSE Goes(s, next)
  /\ UNCHANGED vars

(* _update_downstream_dependencies: the dependents are found, ...          *)
FindDependents(s) ==
  /\ txn[s].at = "dependents"
  /\ txn' = [txn EXCEPT ![s] = [txn[s] EXCEPT !.at = "downstream",
                                              !.rows = Dependents(execs[txn[s].key].task)]]
  /\ UNCHANGED vars

(* Mutant: SELECT without FOR UPDATE.                                      *)
NothingToLock(x) == {}

DependentsToLock(x) == x.rows \ x.tasks

(* ... their rows taken, in the order the plan of the query yields, ...    *)
TakeDependent(s, d) ==
  /\ txn[s].at = "downstream"
  /\ d \in DependentsToLock(txn[s])
  /\ FreeTask(s, d)
  /\ txn' = [txn EXCEPT ![s] = [txn[s] EXCEPT !.tasks = txn[s].tasks \cup {d}]]
  /\ UNCHANGED vars

(* The tasks table as the transaction of a completion sees it.             *)
Seen(x) == IF x.hit THEN EndTask(x.key, "completed") ELSE task

(* ... and, when all are taken, the blockers of each are counted.          *)
CountBlockers(s, d) ==
  LET x == txn[s]
  IN  /\ x.at = "downstream"
      /\ DependentsToLock(x) = {}
      /\ d \in x.rows \ DOMAIN x.count
      /\ txn' = [txn EXCEPT ![s] =
                   [x EXCEPT !.count = [e \in DOMAIN x.count \cup {d} |->
                                          IF e = d THEN Remaining(Seen(x), d) ELSE x.count[e]]]]
  /\ UNCHANGED vars

(* The rows that were matched are written.                                 *)
EndedTask(x, status)  == IF x.hit THEN EndTask(x.key, status) ELSE task
UnloadingRuntime(x)   == IF x.runtimes # {} THEN [runtime EXCEPT ![x.runtime].status = "unloading"]
                                           ELSE runtime

CommitStart(s) ==
  LET x == txn[s]
  IN  /\ x.op = "start" /\ x.at = "commit"
      /\ execs' = [execs EXCEPT ![x.key] = [@ EXCEPT !.status = "running", !.leased = TRUE]]
      /\ runtime' = [runtime EXCEPT ![x.runtime].status = "running"]
      /\ Closes(s)
      /\ UNCHANGED <<task, deps, active, announced, submitted>>

CommitRenew(s) ==
  LET x == txn[s]
  IN  /\ x.op = "renew" /\ x.at = "commit"
      /\ execs' = [execs EXCEPT ![x.key].leased = TRUE]
      /\ Closes(s)
      /\ UNCHANGED <<task, runtime, deps, active, announced, submitted>>

CommitComplete(s) ==
  LET x == txn[s]
  IN  /\ x.at = "downstream"
      /\ DependentsToLock(x) = {} /\ x.rows \subseteq DOMAIN x.count
      /\ execs' = EndExec(x.key, "completed")
      /\ task' = [t \in Tasks |-> IF t \in DOMAIN x.count
                                  THEN [Seen(x)[t] EXCEPT !.blocked = x.count[t]]
                                  ELSE Seen(x)[t]]
      /\ runtime' = UnloadingRuntime(x)
      /\ announced' = announced \cup {d \in DOMAIN x.count : x.count[d] = 0}
      /\ Closes(s)
      /\ UNCHANGED <<deps, active, submitted>>

(* Mutant: the retry is scheduled without an event.                        *)
CommitFailSilently(s) ==
  LET x == txn[s]
  IN  /\ x.op = "fail" /\ x.at = "commit"
      /\ execs' = EndExec(x.key, "failed")
      /\ task' = EndedTask(x, StatusAfterLoss(x.key))
      /\ runtime' = UnloadingRuntime(x)
      /\ Closes(s)
      /\ UNCHANGED <<deps, active, announced, submitted>>

CommitFail(s) ==
  LET x == txn[s]
  IN  /\ x.op = "fail" /\ x.at = "commit"
      /\ execs' = EndExec(x.key, "failed")
      /\ task' = EndedTask(x, StatusAfterLoss(x.key))
      /\ runtime' = UnloadingRuntime(x)
      /\ announced' = IF RetryScheduled(x.key) THEN announced \cup {execs[x.key].task} ELSE announced
      /\ Closes(s)
      /\ UNCHANGED <<deps, active, submitted>>

CommitCancel(s) ==
  LET x == txn[s]
  IN  /\ x.op = "cancel" /\ x.at = "commit"
      /\ execs' = EndExec(x.key, "cancelled")
      /\ task' = EndedTask(x, "cancelled")
      /\ runtime' = UnloadingRuntime(x)
      /\ Closes(s)
      /\ UNCHANGED <<deps, active, announced, submitted>>

CommitFinish(s) ==
  LET x == txn[s]
  IN  /\ x.op = "finish" /\ x.at = "commit"
      /\ runtime' = [runtime EXCEPT ![x.runtime] = [status |-> "idle", key |-> NoKey]]
      /\ Closes(s)
      /\ UNCHANGED <<task, execs, deps, active, announced, submitted>>
-----------------------------------------------------------------------------
(* claim_next_available_task: the runtime's row is taken, then that of a   *)
(* ready task nobody else has; what follows finds no row taken.            *)

BeginClaim(s, r) ==
  /\ Begins(s, "claim")
  /\ FreeRuntime(s, r)
  /\ runtime[r].status = "idle"
  /\ txn' = [txn EXCEPT ![s] = [NoTxn EXCEPT !.op = "claim", !.at = "pick", !.runtime = r,
                                             !.runtimes = {r}]]
  /\ UNCHANGED vars

Drawn == {txn[o].key[1] : o \in {q \in Slots : txn[q].op = "claim"}}

ReadyAndFree(s, t) == Ready(t) /\ FreeTask(s, t)

(* The execution_id of a first attempt is not that of any other claim.     *)
PickTask(s, t) ==
  /\ txn[s].at = "pick"
  /\ ReadyAndFree(s, t)
  /\ \/ \E k \in NextKeys(t), c \in CardFor(t) :
          /\ k \notin DOMAIN execs
          /\ k[1] \notin Drawn
          /\ txn' = [txn EXCEPT ![s] = [txn[s] EXCEPT !.at = "commit", !.tasks = {t},
                                                      !.key = k, !.card = c]]
     \/ /\ CardFor(t) = {}
        /\ txn' = [txn EXCEPT ![s] = [txn[s] EXCEPT !.at = "commit", !.tasks = {t}]]
  /\ UNCHANGED vars

CommitClaim(s) ==
  LET x == txn[s]
      t == CHOOSE u \in x.tasks : TRUE
      r == x.runtime
  IN  /\ x.op = "claim" /\ x.at = "commit"
      /\ IF x.card = NoCard
         THEN /\ task' = [task EXCEPT ![t] = [@ EXCEPT !.status = "failed", !.owner = NoRuntime]]
              /\ UNCHANGED <<execs, runtime>>
         ELSE /\ execs' = [j \in DOMAIN execs \cup {x.key} |->
                             IF j = x.key
                             THEN [status |-> "claimed", task |-> t, runtime |-> r,
                                   card |-> x.card, leased |-> TRUE]
                             ELSE execs[j]]
              /\ task' = [task EXCEPT ![t] = [@ EXCEPT !.status = "in_progress",
                                                       !.owner = r, !.key = x.key]]
              /\ runtime' = [runtime EXCEPT ![r] = [status |-> "loading", key |-> x.key]]
      /\ announced' = announced \ {t}
      /\ Closes(s)
      /\ UNCHANGED <<deps, active, submitted>>
-----------------------------------------------------------------------------
(* reclaim_leased_tasks: all expired attempts whose two rows nobody has    *)
(* are taken, then their runtimes' rows one by one.                        *)

Expired(s) == {k \in DOMAIN execs : Reclaimable(k) /\ FreeExec(s, k) /\ FreeTask(s, execs[k].task)}

BeginReclaim(s) ==
  /\ Begins(s, "reclaim")
  /\ Expired(s) # {}
  /\ txn' = [txn EXCEPT ![s] =
               [NoTxn EXCEPT !.op = "reclaim", !.at = "runtime", !.execs = Expired(s),
                             !.tasks = {execs[k].task : k \in Expired(s)}, !.left = Expired(s)]]
  /\ UNCHANGED vars

TakeReclaimed(s, k) ==
  LET x == txn[s]
      r == execs[k].runtime
  IN  /\ x.op = "reclaim"
      /\ k \in x.left
      /\ \/ /\ runtime[r].key = k
            /\ FreeRuntime(s, r)
            /\ txn' = [txn EXCEPT ![s] = [x EXCEPT !.left = x.left \ {k},
                                                    !.runtimes = x.runtimes \cup {r}]]
         \/ runtime[r].key # k /\ txn' = [txn EXCEPT ![s] = [x EXCEPT !.left = x.left \ {k}]]
  /\ UNCHANGED vars

CommitReclaim(s) ==
  LET x == txn[s]
  IN  /\ x.op = "reclaim" /\ x.left = {}
      /\ execs' = [k \in DOMAIN execs |->
                     IF k \in x.execs THEN [execs[k] EXCEPT !.status = "expired", !.leased = FALSE]
                                      ELSE execs[k]]
      /\ task' = [t \in Tasks |->
                    IF t \in x.tasks
                    THEN [task[t] EXCEPT !.status = StatusAfterLoss(task[t].key),
                                         !.owner = NoRuntime]
                    ELSE task[t]]
      /\ runtime' = [r \in Runtimes |-> IF r \in x.runtimes
                                        THEN [status |-> "idle", key |-> NoKey] ELSE runtime[r]]
      /\ announced' = announced \cup {execs[k].task : k \in {j \in x.execs : RetryScheduled(j)}}
      /\ Closes(s)
      /\ UNCHANGED <<deps, active, submitted>>
-----------------------------------------------------------------------------
(* insert_dag_to_db: an upsert for each task of the list, in its order.    *)

BeginPublish(s, p) ==
  /\ Begins(s, "publish")
  /\ p \in Plans \ submitted
  /\ p # << >>
  /\ \A o \in Slots : txn[o].plan # p
  /\ txn' = [txn EXCEPT ![s] = [NoTxn EXCEPT !.op = "publish", !.at = "row", !.plan = p, !.n = 1]]
  /\ UNCHANGED vars

(* A row whose blockers are not there yet raises: see RollBack.            *)
UpsertRow(s) ==
  LET x   == txn[s]
      row == x.plan[x.n]
  IN  /\ x.at = "row"
      /\ x.n <= Len(x.plan)
      /\ FreeTask(s, row.id)
      /\ \A j \in DOMAIN row.blockedBy :
           \/ Published(row.blockedBy[j])
           \/ \E m \in 1..x.n : x.plan[m].id = row.blockedBy[j]
      /\ txn' = [txn EXCEPT ![s] = [x EXCEPT !.n = x.n + 1, !.tasks = x.tasks \cup {row.id}]]
  /\ UNCHANGED vars

CommitPublish(s) ==
  /\ txn[s].at = "row"
  /\ txn[s].n > Len(txn[s].plan)
  /\ Publish(txn[s].plan)
  /\ Closes(s)
-----------------------------------------------------------------------------
(* Calls of one statement: they wait for the row and are done.             *)

Registers(s, r) ==
  /\ Begins(s, "register")
  /\ FreeRuntime(s, r)
  /\ RegisterRuntime(r)
  /\ UNCHANGED txn

Stops(s, r) ==
  /\ Begins(s, "stop")
  /\ FreeRuntime(s, r)
  /\ StopRuntime(r)
  /\ UNCHANGED txn

LeaseLapses(k) == LeaseRunsOut(k) /\ UNCHANGED txn

(* Nothing reads the status of a card after a claim has read it, so that a  *)
(* change of the registry before that claim commits is one after it.       *)
Changes(c) ==
  /\ \A s \in Slots : ~ (txn[s].op = "claim" /\ txn[s].at = "commit")
  /\ ChangeCardStatus(c)
  /\ UNCHANGED txn

TNext ==
  \/ \E s \in Slots :
       \/ RollBack(s)
       \/ \E op \in AttemptCalls, k \in DOMAIN execs : BeginAttemptCall(s, op, k)
       \/ TakeExec(s)
       \/ TakeTask(s)
       \/ TakeRuntime(s)
       \/ FindDependents(s)
       \/ \E d \in Tasks : TakeDependent(s, d)
       \/ \E d \in Tasks : CountBlockers(s, d)
       \/ CommitStart(s)
       \/ CommitRenew(s)
       \/ CommitComplete(s)
       \/ CommitFail(s)
       \/ CommitCancel(s)
       \/ CommitFinish(s)
       \/ \E r \in Runtimes : BeginClaim(s, r)
       \/ \E t \in Tasks : PickTask(s, t)
       \/ CommitClaim(s)
       \/ BeginReclaim(s)
       \/ \E k \in DOMAIN execs : TakeReclaimed(s, k)
       \/ CommitReclaim(s)
       \/ \E p \in Plans : BeginPublish(s, p)
       \/ UpsertRow(s)
       \/ CommitPublish(s)
       \/ \E r \in Runtimes : Registers(s, r)
       \/ \E r \in Runtimes : Stops(s, r)
  \/ \E k \in DOMAIN execs : LeaseLapses(k)
  \/ \E c \in Cards : Changes(c)

TSpec == TInit /\ [][TNext]_tvars
-----------------------------------------------------------------------------
(* The rows a transaction holds are held by it alone, and are those its    *)
(* statements named.                                                       *)
TTypeOK ==
  /\ \A s \in Slots :
       /\ txn[s].op \in Calls \cup {"none"}
       /\ txn[s].execs \subseteq DOMAIN execs
       /\ txn[s].tasks \subseteq Tasks
       /\ txn[s].runtimes \subseteq Runtimes
       /\ DOMAIN txn[s].count \subseteq txn[s].rows
  /\ \A s, o \in Slots : s # o => /\ txn[s].execs \cap txn[o].execs = {}
                                  /\ txn[s].tasks \cap txn[o].tasks = {}
                                  /\ txn[s].runtimes \cap txn[o].runtimes = {}

(* The blockers of a task are tasks of the same plan.                      *)
PublishedAsWhole ==
  \A p \in Plans : \A i \in DOMAIN p : \A j \in DOMAIN p[i].blockedBy :
    p[i].blockedBy[j] \in PlanTasks(p)

(* Interleaved statement by statement, the transactions change the         *)
(* committed rows as the operations of DagScheduler do in one step, as     *)
(* long as no task is published again (PublishedOnce), nor published while *)
(* a blocker of it is being completed (PublishedAsWhole): the completion   *)
(* would not find it, and its blocked_by_count would never be recounted.   *)
Serializable == Spec

(* A task is named once in the blockedBy list of another.                  *)
BlockersListedOnce ==
  \A p \in Plans : \A i \in DOMAIN p : \A j, m \in DOMAIN p[i].blockedBy :
    p[i].blockedBy[j] = p[i].blockedBy[m] => j = m

(* When a plan was published as a whole, blocked_by_count is the number of *)
(* blockers not completed in every committed state: of two completions     *)
(* that run at the same time the later one sees the earlier.               *)
BlockedCountIsExact ==
  \A t \in Tasks : Published(t) => task[t].blocked = Remaining(task, t)
=============================================================================
