----------------------------- MODULE Decomposer -----------------------------
(* The plan maker of skills/dag-decomposer: it asks a model for a plan,     *)
(* checks the answer, asks again if it does not pass, and stores a plan     *)
(* that passes with insert_dag_to_db.  A plan is a list of tasks, each with *)
(* an id and the ids of its blockers.                                       *)
EXTENDS Naturals, Sequences, FiniteSets, SequencesExt

CONSTANTS
  Answers,      \* lists of tasks a model may answer with
  OldTasks,     \* tasks that are stored already
  MaxRetries    \* bound of the code: RetryHandler.max_retries

ASSUME DecomposerAssumption ==
  /\ MaxRetries \in Nat \ {0}
  /\ \A p \in Answers : p \in Seq({p[i] : i \in DOMAIN p})

VARIABLES
  attempt,      \* answers asked for so far
  plan,         \* the list just answered
  stage,        \* "ask", "walk", "judged", "saved", "failed"
  passed,       \* what validate_dag says of plan
  colour,       \* detect_cycles: the colours given to the tasks so far
  path,         \* detect_cycles: the calls of dfs under way, one inside the other
  stored        \* rows of tasks

search == <<colour, path>>
dcVars == <<attempt, plan, stage, passed, search, stored>>

DcInit ==
  /\ attempt = 0 /\ plan = << >> /\ stage = "ask" /\ passed = FALSE
  /\ colour = << >> /\ path = << >>
  /\ stored = OldTasks
-----------------------------------------------------------------------------
(* components/cycle_detector.py                                             *)

Ids(p) == {p[i].id : i \in DOMAIN p}

ReferencesExist(p) == \A i \in DOMAIN p : p[i].blockedBy \subseteq Ids(p)

Roots(p) == {i \in DOMAIN p : p[i].blockedBy = {}}

HasRoot(p) == Roots(p) # {}

IdsAreUnique(p) == Cardinality(Ids(p)) = Len(p)

(* adjacency: the tasks that task n blocks.                                 *)
Blocked(p, n) == {p[i].id : i \in {j \in DOMAIN p : n \in p[j].blockedBy}}

(* Mutant: the walk starts at the roots only.                               *)
AheadOfRoots ==
  IF path = << >> THEN {plan[i].id : i \in Roots(plan)} ELSE Blocked(plan, Last(path))

(* Where the walk can go on: from the task of the innermost dfs to those it *)
(* blocks, else, in the order of a Python set, to any task.  The order of   *)
(* an adjacency list is left open, too; those of it that are done with are  *)
(* black.                                                                   *)
Ahead == IF path = << >> THEN Ids(plan) ELSE Blocked(plan, Last(path))

(* dfs is called for a white task.                                          *)
Enter ==
  /\ stage = "walk"
  /\ \E n \in Ahead :
       /\ colour[n] = "white"
       /\ colour' = [colour EXCEPT ![n] = "grey"]
       /\ path' = Append(path, n)
  /\ UNCHANGED <<attempt, plan, stage, passed, stored>>

(* dfs returns without a cycle.                                             *)
Leave ==
  /\ stage = "walk" /\ path # << >>
  /\ \A n \in Ahead : colour[n] = "black"
  /\ colour' = [colour EXCEPT ![Last(path)] = "black"]
  /\ path' = Front(path)
  /\ UNCHANGED <<attempt, plan, stage, passed, stored>>

(* A grey task closes a cycle: every dfs returns, and the plan is refused.  *)
CycleFound ==
  /\ stage = "walk"
  /\ \E n \in Ahead : colour[n] = "grey"
  /\ stage' = "judged" /\ passed' = FALSE
  /\ colour' = << >> /\ path' = << >>
  /\ UNCHANGED <<attempt, plan, stored>>

(* Nothing is left to visit: the verdict of validate_dag is up to its other *)
(* checks.                                                                  *)
WalkEnds ==
  /\ stage = "walk" /\ path = << >>
  /\ \A n \in Ahead : colour[n] = "black"
  /\ stage' = "judged"
  /\ passed' = (IdsAreUnique(plan) /\ ReferencesExist(plan) /\ HasRoot(plan))
  /\ colour' = << >>
  /\ UNCHANGED <<attempt, plan, path, stored>>
-----------------------------------------------------------------------------
(* execute_with_retry and decompose                                         *)

(* An answer that is no JSON, or lacks a field, fails before it is judged.  *)
Garbled ==
  /\ stage = "ask" /\ attempt < MaxRetries
  /\ attempt' = attempt + 1
  /\ UNCHANGED <<plan, stage, passed, search, stored>>

(* An empty list is refused at once.                                        *)
Judge ==
  /\ stage = "ask" /\ attempt < MaxRetries
  /\ attempt' = attempt + 1
  /\ \E p \in Answers :
       /\ plan' = p
       /\ IF p = << >>
          THEN stage' = "judged" /\ UNCHANGED search
          ELSE /\ stage' = "walk"
               /\ colour' = [n \in Ids(p) |-> "white"] /\ path' = << >>
  /\ passed' = FALSE
  /\ UNCHANGED stored

Retry ==
  /\ stage = "judged" /\ ~passed
  /\ stage' = "ask" /\ plan' = << >>
  /\ UNCHANGED <<attempt, passed, search, stored>>

(* The last error is raised, or the model call itself fails: not retried.   *)
GiveUp ==
  /\ stage = "ask"
  /\ stage' = "failed"
  /\ UNCHANGED <<attempt, plan, passed, search, stored>>

(* The foreign key asks that a blocker is stored before its task: the plan  *)
(* is stored as a whole or, when its list runs against its order, not at    *)
(* all, and the caller is told "Database error".                            *)
ListedInOrder ==
  \A i \in DOMAIN plan : \A b \in plan[i].blockedBy :
     b \in stored \/ \E j \in 1..i : plan[j].id = b

Save ==
  /\ stage = "judged" /\ passed
  /\ IF ListedInOrder
     THEN stage' = "saved" /\ stored' = stored \cup Ids(plan)
     ELSE stage' = "failed" /\ UNCHANGED stored
  /\ UNCHANGED <<attempt, plan, passed, search>>

DcNext == Enter \/ Leave \/ CycleFound \/ WalkEnds \/ Garbled \/ Judge \/ Retry \/ GiveUp \/ Save

DcSpec == DcInit /\ [][DcNext]_dcVars
-----------------------------------------------------------------------------
(* A plan can be carried out: its tasks are told apart and wait only for    *)
(* each other, and in every group of them one waits for none of the group.  *)
Sound(p) ==
  /\ p # << >>
  /\ \A i, j \in DOMAIN p : p[i].id = p[j].id => i = j
  /\ \A i \in DOMAIN p : p[i].blockedBy \subseteq Ids(p)
  /\ \A S \in (SUBSET DOMAIN p) \ {{}} :
       \E i \in S : \A j \in S : p[j].id \notin p[i].blockedBy

(* validate_dag passes exactly the plans that can be carried out: no set of *)
(* tasks that wait for each other for ever gets to the scheduler, wherever  *)
(* in the list the cycle is and whatever can or cannot be reached from a    *)
(* root, and no plan that could run is refused and asked for again.         *)
VerdictIsRight == stage \in {"judged", "saved"} => (passed <=> Sound(plan))
=============================================================================
