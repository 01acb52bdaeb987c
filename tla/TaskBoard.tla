------------------------------- MODULE TaskBoard -------------------------------
(***************************************************************************)
(* What the scheduler of lib/dag_scheduler.py promises to those who use it: *)
(* the lead posts tasks, and workers take claims on them.  There are no    *)
(* tables, runtimes, leases, cards or dependencies here: only which task    *)
(* waits, which is in progress under which claim, how often it was tried,   *)
(* and what became of each claim.                                          *)
(*                                                                         *)
(* A claim and its task are settled together, by the claim the task is in   *)
(* progress under, once.  A claim whose task was posted again may still be  *)
(* closed, without its task.  The board is about what may happen: that      *)
(* every claim is closed in the end is AttemptsEnd of RuntimeWorker.        *)
(***************************************************************************)
EXTENDS Integers

CONSTANTS Tasks, Claims, NoClaim,
          MaxTries       (* claims on a task between two postings            *)

VARIABLES board,     (* status, holder and number of tries of each task      *)
          verdict    (* of each claim given out                              *)

bvars == <<board, verdict>>

NotPosted == [status |-> "absent",  holder |-> NoClaim, tries |-> 0]
Posted    == [status |-> "pending", holder |-> NoClaim, tries |-> 0]

BInit ==
  /\ board = [t \in Tasks |-> NotPosted]
  /\ verdict = [c \in {} |-> "held"]

(* Tasks are posted, whatever they were.                                   *)
Post(T) ==
  /\ board' = [t \in Tasks |-> IF t \in T THEN Posted ELSE board[t]]
  /\ UNCHANGED verdict

(* A waiting task is taken under a claim never given out before, ...       *)
Take(t, c) ==
  /\ board[t].status = "pending"
  /\ board[t].tries < MaxTries
  /\ c \notin DOMAIN verdict
  /\ board' = [board EXCEPT ![t] = [status |-> "in_progress", holder |-> c, tries |-> @.tries + 1]]
  /\ verdict' = [d \in DOMAIN verdict \cup {c} |-> IF d = c THEN "held" ELSE verdict[d]]

(* ... or cannot be worked on and fails.                                   *)
Refuse(t) ==
  /\ board[t].status = "pending"
  /\ board' = [board EXCEPT ![t].status = "failed"]
  /\ UNCHANGED verdict

Outcomes == {"completed", "lost", "cancelled"}

Held(T) == {board[t].holder : t \in T}

(* The claims of T, all tasks in progress, get the verdict; the tasks      *)
(* their new status.                                                       *)
Settle(T, outcome, status) ==
  /\ \A t \in T : board[t].status = "in_progress"
  /\ board' = [t \in Tasks |->
                 IF t \in T
                 THEN [status |-> status[t], holder |-> NoClaim, tries |-> board[t].tries]
                 ELSE board[t]]
  /\ verdict' = [c \in DOMAIN verdict |-> IF c \in Held(T) THEN outcome ELSE verdict[c]]

Finish(t)   == Settle({t}, "completed", [u \in Tasks |-> "completed"])
Withdraw(t) == Settle({t}, "cancelled", [u \in Tasks |-> "cancelled"])

(* Lost claims give their tasks back, until the tries are used up.         *)
AfterLoss == [t \in Tasks |-> IF board[t].tries < MaxTries THEN "pending" ELSE "failed"]
Lose(T)   == Settle(T, "lost", AfterLoss)

(* A claim whose task was posted again is closed by itself, once.           *)
Close(c, outcome) ==
  /\ c \in DOMAIN verdict
  /\ verdict[c] = "held"
  /\ \A t \in Tasks : board[t].holder # c
  /\ verdict' = [verdict EXCEPT ![c] = outcome]
  /\ UNCHANGED board

BNext ==
  \/ \E T \in SUBSET Tasks : Post(T) \/ Lose(T)
  \/ \E t \in Tasks : Refuse(t) \/ Finish(t) \/ Withdraw(t)
  \/ \E t \in Tasks, c \in Claims : Take(t, c)
  \/ \E c \in Claims, outcome \in Outcomes : Close(c, outcome)

BSpec == BInit /\ [][BNext]_bvars
=============================================================================
