----------------------------- MODULE SchedulerBoard -----------------------------
(***************************************************************************)
(* DagScheduler implements TaskBoard: the refinement mapping.              *)
(***************************************************************************)
EXTENDS DagScheduler

(* What a row of tasks shows of a task ...                                 *)
BoardRow(t) ==
  [status |-> task[t].status,
   holder |-> IF task[t].status = "in_progress" THEN task[t].key ELSE NoKey,
   tries  |-> task[t].key[2]]

(* ... and a row of task_executions of a claim.                            *)
Verdict(k) ==
  CASE execs[k].status \in ActiveStatus          -> "held"
    [] execs[k].status \in {"failed", "expired"} -> "lost"
    [] OTHER                                     -> execs[k].status

Board == INSTANCE TaskBoard
           WITH Claims   <- ExecIds \X (1..MaxAttempts),
                NoClaim  <- NoKey,
                MaxTries <- MaxAttempts,
                board    <- [t \in Tasks |-> BoardRow(t)],
                verdict  <- [k \in DOMAIN execs |-> Verdict(k)]

(* Whatever calls arrive, however late and in whatever order, the scheduler *)
(* only posts tasks, hands out new claims on waiting tasks, and settles a   *)
(* claim together with its task, once, while the task is in progress under  *)
(* it.  A claim is settled alone only when its task was posted again.       *)
ImplementsTaskBoard == Board!BSpec
=============================================================================
