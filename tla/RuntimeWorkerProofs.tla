-------------------------- MODULE RuntimeWorkerProofs --------------------------
(***************************************************************************)
(* Theorems about RuntimeWorker, for every set of workers, tasks and plans *)
(* and every number of attempts and commands: the workers only call the    *)
(* scheduler, and the slot of a worker goes with the attempt it holds.     *)
(***************************************************************************)
EXTENDS RuntimeWorker, DagSchedulerProofs

(* A worker, the lead and the passing of time change the tables by nothing *)
(* but operations of the scheduler.                                        *)
LEMMA WorkerStepIsSchedulerStep == [WNext]_wvars => [Next]_vars
<1> SUFFICES ASSUME [WNext]_wvars PROVE [Next]_vars
  OBVIOUS
<1>1. ASSUME NEW k, CompleteExecution(k) \/ FailExecution(k) \/ CancelExecution(k)
                    \/ MarkExecutionStarted(k) \/ RenewLease(k) \/ FinishCardUnload(k)
                    \/ LeaseRunsOut(k)
      PROVE  Next
  <2>1. k \in DOMAIN execs
    BY <1>1 DEF CompleteExecution, FailExecution, CancelExecution, MarkExecutionStarted,
                RenewLease, FinishCardUnload, LeaseRunsOut, IsCurrentAttempt, IsActive, IsTerminal
  <2> QED BY <1>1, <2>1 DEF Next
<1>2. ASSUME NEW r \in Runtimes, NEW t \in Tasks, Claim(r, t) \/ ClaimWithoutCard(r, t)
      PROVE  Next
  BY <1>2 DEF Next
<1>3. ASSUME NEW r \in Runtimes, RegisterRuntime(r) \/ StopRuntime(r) PROVE Next
  BY <1>3 DEF Next
<1>4. CASE UNCHANGED wvars
  BY <1>4 DEF wvars, tables
<1>5. ASSUME NEW r \in Runtimes,
             Start(r) \/ LoopTop(r) \/ ScanClaims(r) \/ ScanFindsNothing(r) \/ ScanRaises(r)
             \/ Receive(r) \/ Exit(r)
      PROVE  [Next]_vars
  BY <1>2, <1>3, <1>5 DEF Start, LoopTop, ScanClaims, ScanFindsNothing, ScanRaises, Receive, Exit,
                          Raises, tables
<1>6. ASSUME NEW r \in Runtimes,
             BeginLoad(r) \/ BeginWork(r) \/ CompleteWork(r) \/ WorkFails(r) \/ ReportFailure(r)
             \/ Unload(r) \/ Release(r) \/ CancelArrives(r)
      PROVE  [Next]_vars
  BY <1>1, <1>6 DEF BeginLoad, BeginWork, CompleteWork, WorkFails, ReportFailure, Unload, Release,
                    CancelArrives, Completes, Fails, Finishes, Raises, tables
<1>7. ASSUME NEW r \in Runtimes,
             Heartbeat(r) \/ Shutdown(r) \/ ControlReceives(r) \/ ControlCancels(r)
             \/ Interrupt(r) \/ Crash(r)
      PROVE  [Next]_vars
  BY <1>1, <1>7 DEF Heartbeat, Shutdown, ControlReceives, ControlCancels, Interrupt, Crash, tables
<1>8. CASE Publishes
  BY <1>8 DEF Publishes, Next
<1>9. ASSUME NEW k, LeaseLapses(k) PROVE Next
  BY <1>1, <1>9 DEF LeaseLapses
<1>10. ASSUME NEW S \in SUBSET DOMAIN execs, Reclaims(S) PROVE Next
  BY <1>10 DEF Reclaims, Next
<1> QED BY <1>4, <1>5, <1>6, <1>7, <1>8, <1>9, <1>10 DEF WNext

(* Every behaviour of the workers is one of the scheduler, so all that is  *)
(* proved of the scheduler holds with the workers that call it.            *)
THEOREM WorkersImplementScheduler == WSpec => Spec
<1>1. WInit => Init
  BY DEF WInit
<1> QED BY <1>1, WorkerStepIsSchedulerStep, PTL DEF WSpec, Spec
-----------------------------------------------------------------------------
(* What the process of r becomes in each step, as a set of processes.      *)
LEMMA WorkerTypeStep ==
  ASSUME TypeOK, TypeOK', WTypeOK, [WNext]_wvars
  PROVE  WTypeOK'
<1> USE DEF InLoop, Loaded, InExecution, Places
<1>1. \A r \in Runtimes : proc[r] \in Process /\ runtime[r].key \in Key \cup {NoKey}
                          /\ runtime'[r].key \in Key \cup {NoKey}
  BY DEF WTypeOK, TypeOK, RuntimeRow
<1>2. NoProcess \in Process
  BY DEF NoProcess, Process
<1>3. ASSUME NEW r \in Runtimes, NEW p \in Process, proc' = [proc EXCEPT ![r] = p],
             UNCHANGED <<commands, sent>>
      PROVE  WTypeOK'
  BY <1>3 DEF WTypeOK
<1>4. ASSUME NEW r \in Runtimes, NEW place \in Places, Goes(r, place)
      PROVE  \E p \in Process : proc' = [proc EXCEPT ![r] = p]
  <2>1. [proc[r] EXCEPT !.pc = place] \in Process
    BY <1>1 DEF Process
  <2> QED BY <1>1, <1>4, <2>1 DEF Goes
<1>5. ASSUME NEW r \in Runtimes, NEW place \in {"receive", "top"}, TakesClaim(r, place)
      PROVE  \E p \in Process : proc' = [proc EXCEPT ![r] = p]
  <2>1. [proc[r] EXCEPT !.pc = "claimed", !.held = runtime'[r].key, !.back = place,
                        !.unheard = FALSE] \in Process
    BY <1>1 DEF Process
  <2> QED BY <1>5, <2>1 DEF TakesClaim
<1>6. ASSUME NEW r \in Runtimes, NEW raises \in BOOLEAN, EntersUnload(r, raises)
      PROVE  \E p \in Process : proc' = [proc EXCEPT ![r] = p]
  <2>1. [proc[r] EXCEPT !.pc = "unload", !.beating = FALSE, !.raising = raises] \in Process
    BY <1>1 DEF Process
  <2> QED BY <1>6, <2>1 DEF EntersUnload
<1>7. ASSUME NEW r \in Runtimes, NEW raises \in BOOLEAN, EntersRelease(r, raises)
      PROVE  \E p \in Process : proc' = [proc EXCEPT ![r] = p]
  <2>1. [proc[r] EXCEPT !.pc = "release", !.beating = FALSE, !.cancelled = FALSE,
                        !.raising = raises] \in Process
    BY <1>1 DEF Process
  <2> QED BY <1>7, <2>1 DEF EntersRelease
<1>8. ASSUME NEW r \in Runtimes, NEW raises \in BOOLEAN, LeavesClaim(r, raises)
      PROVE  \E p \in Process : proc' = [proc EXCEPT ![r] = p]
  <2>1. [proc[r] EXCEPT !.pc = IF ~ raises THEN proc[r].back
                               ELSE IF proc[r].back = "receive" THEN "exit" ELSE "top",
                        !.held = NoKey, !.back = "top", !.raising = FALSE,
                        !.unheard = FALSE] \in Process
    BY <1>1 DEF Process
  <2> QED BY <1>8, <2>1 DEF LeavesClaim
<1>9. \A r \in Runtimes : proc[r].raising \in BOOLEAN
  BY <1>1 DEF Process
<1> HIDE DEF InLoop, Loaded, InExecution, Places
<1>10. {"down", "top", "scan", "receive", "claimed", "loading", "working", "failing",
        "unload", "release", "exit"} \subseteq Places
  BY DEF InLoop, Loaded, InExecution, Places
<1>11. ASSUME NEW r \in Runtimes,
              Start(r) \/ LoopTop(r) \/ ScanClaims(r) \/ ScanFindsNothing(r) \/ ScanRaises(r)
              \/ Receive(r) \/ Exit(r)
       PROVE  WTypeOK'
  <2>1. CASE Start(r)
    BY <1>3, <1>4, <1>10, <2>1 DEF Start
  <2>2. CASE LoopTop(r)
    BY <1>3, <1>4, <1>10, <2>2 DEF LoopTop
  <2>3. CASE ScanClaims(r)
    BY <1>3, <1>5, <2>3 DEF ScanClaims, WTypeOK
  <2>4. CASE ScanFindsNothing(r) \/ ScanRaises(r)
    BY <1>3, <1>4, <1>10, <2>4 DEF ScanFindsNothing, ScanRaises
  <2>5. CASE Receive(r)
    BY <1>3, <1>4, <1>5, <1>10, <2>5 DEF Receive
  <2>6. CASE Exit(r)
    BY <1>2, <1>3, <2>6 DEF Exit
  <2> QED BY <1>11, <2>1, <2>2, <2>3, <2>4, <2>5, <2>6
<1>12. ASSUME NEW r \in Runtimes,
              BeginLoad(r) \/ BeginWork(r) \/ CompleteWork(r) \/ WorkFails(r) \/ ReportFailure(r)
              \/ Unload(r) \/ Release(r) \/ CancelArrives(r)
       PROVE  WTypeOK'
  <2>1. CASE BeginLoad(r)
    <3>1. [proc[r] EXCEPT !.pc = "loading", !.beating = TRUE] \in Process
      BY <1>1, <1>10 DEF Process
    <3> QED BY <1>3, <1>7, <2>1, <3>1 DEF BeginLoad
  <2>2. CASE BeginWork(r)
    BY <1>3, <1>4, <1>6, <1>10, <2>2 DEF BeginWork
  <2>3. CASE CompleteWork(r) \/ WorkFails(r)
    BY <1>3, <1>4, <1>6, <1>10, <2>3 DEF CompleteWork, WorkFails
  <2>4. CASE ReportFailure(r)
    BY <1>3, <1>6, <2>4 DEF ReportFailure
  <2>5. CASE Unload(r)
    BY <1>3, <1>7, <1>9, <2>5 DEF Unload
  <2>6. CASE Release(r)
    BY <1>3, <1>8, <1>9, <2>6 DEF Release
  <2>7. CASE CancelArrives(r)
    <3>1. [proc[r] EXCEPT !.pc = "unload", !.beating = FALSE, !.cancelled = FALSE] \in Process
      BY <1>1, <1>10 DEF Process
    <3> QED BY <1>3, <1>7, <2>7, <3>1 DEF CancelArrives
  <2> QED BY <1>12, <2>1, <2>2, <2>3, <2>4, <2>5, <2>6, <2>7
<1>13. ASSUME NEW r \in Runtimes,
              Heartbeat(r) \/ Shutdown(r) \/ ControlReceives(r) \/ ControlCancels(r)
              \/ Interrupt(r) \/ Crash(r)
       PROVE  WTypeOK'
  <2>1. CASE Heartbeat(r)
    <3>1. [proc[r] EXCEPT !.beating = FALSE, !.cancelled = TRUE] \in Process
      BY <1>1 DEF Process
    <3> QED BY <1>3, <2>1, <3>1 DEF Heartbeat, WTypeOK
  <2>2. CASE Shutdown(r)
    BY <1>1, <2>2, WorkerAssumption DEF Shutdown, WTypeOK
  <2>3. CASE ControlReceives(r)
    <3>1. [proc[r] EXCEPT !.cancelling = TRUE] \in Process
          /\ [proc[r] EXCEPT !.unheard = TRUE] \in Process
          /\ [proc[r] EXCEPT !.stopping = TRUE] \in Process
      BY <1>1 DEF Process
    <3>2. commands' \subseteq commands /\ sent' = sent
      BY <2>3 DEF ControlReceives, Acknowledges
    <3>3. proc' = proc \/ \E p \in Process : proc' = [proc EXCEPT ![r] = p]
      BY <2>3, <3>1 DEF ControlReceives
    <3> QED BY <3>2, <3>3 DEF WTypeOK
  <2>4. CASE ControlCancels(r)
    <3> DEFINE p == [proc[r] EXCEPT !.cancelling = FALSE, !.stopping = TRUE,
                                    !.cancelled = proc[r].cancelled \/ Executing(r)]
    <3>1. p \in Process
      BY <1>1 DEF Process, Executing
    <3>2. proc' = [proc EXCEPT ![r] = p]
      BY <2>4, Zenon DEF ControlCancels
    <3>3. UNCHANGED <<commands, sent>>
      BY <2>4 DEF ControlCancels
    <3> HIDE DEF p
    <3> QED BY <1>3, <3>1, <3>2, <3>3
  <2>5. CASE Interrupt(r)
    <3>1. /\ [proc[r] EXCEPT !.interrupted = TRUE, !.cancelled = TRUE] \in Process
          /\ [proc[r] EXCEPT !.interrupted = TRUE, !.pc = "exit"] \in Process
      BY <1>1, <1>10 DEF Process
    <3> QED BY <1>2, <1>3, <2>5, <3>1 DEF Interrupt
  <2>6. CASE Crash(r)
    BY <1>2, <1>3, <2>6 DEF Crash
  <2> QED BY <1>13, <2>1, <2>2, <2>3, <2>4, <2>5, <2>6
<1>14. CASE Publishes \/ (\E k \in DOMAIN execs : LeaseLapses(k))
            \/ (\E S \in SUBSET DOMAIN execs : Reclaims(S)) \/ UNCHANGED wvars
  BY <1>14 DEF Publishes, LeaseLapses, Reclaims, wvars, WTypeOK
<1> QED BY <1>11, <1>12, <1>13, <1>14 DEF WNext
-----------------------------------------------------------------------------
(* The invariant, worker by worker: a worker that holds an attempt, from   *)
(* its claim to its release, holds one of its own runtime, and the two     *)
(* properties of RuntimeWorker hold of it.  So no other worker ever        *)
(* touches its row or its attempt.                                         *)
Holding(r) == proc[r].pc \in InExecution \cup {"release"}

HoldsItsOwn(r) ==
  Holding(r) => proc[r].held \in DOMAIN execs /\ execs[proc[r].held].runtime = r

SlotFits(r) ==
  Executing(r) /\ IsActive(proc[r].held) =>
    /\ runtime[r].key = proc[r].held
    /\ runtime[r].status = IF execs[proc[r].held].status = "claimed" THEN "loading" ELSE "running"

IsCancelling(r) == proc[r].cancelling \/ proc[r].cancelled \/ proc[r].unheard

LossIsNoticed(r) ==
  proc[r].pc \in Loaded /\ IsTerminal(proc[r].held) =>
    \/ execs[proc[r].held].status = "expired"
    \/ execs[proc[r].held].status = "cancelled" /\ IsCancelling(r)
    \/ execs[proc[r].held].status \in {"completed", "failed"} /\ proc[r].pc = "failing"

(* The heartbeat runs from the start of the load on, until it has told the *)
(* coroutine that the lease is gone.                                       *)
IsWatched(r) == proc[r].pc \in Loaded => proc[r].beating \/ proc[r].cancelled

SafeAt(r) == HoldsItsOwn(r) /\ SlotFits(r) /\ LossIsNoticed(r) /\ IsWatched(r)

(* The row of r and the status of its attempts are left alone.             *)
Undisturbed(r) ==
  /\ runtime'[r] = runtime[r]
  /\ \A k \in DOMAIN execs :
       execs[k].runtime = r =>
         /\ k \in DOMAIN execs'
         /\ execs'[k].runtime = r
         /\ execs'[k].status = execs[k].status

SameProcess(r) ==
  /\ proc'[r].pc = proc[r].pc
  /\ proc'[r].held = proc[r].held
  /\ proc'[r].cancelling = proc[r].cancelling
  /\ proc'[r].cancelled = proc[r].cancelled
  /\ proc'[r].unheard = proc[r].unheard
  /\ proc'[r].beating = proc[r].beating

LEMMA StaysSafe ==
  ASSUME NEW r \in Runtimes, SafeAt(r), Undisturbed(r), SameProcess(r)
  PROVE  SafeAt(r)'
<1>1. Executing(r)' = Executing(r) /\ Holding(r)' = Holding(r) /\ (Executing(r) => Holding(r))
  BY DEF SameProcess, Executing, Holding
<1>2. CASE ~ Holding(r)
  <2>1. proc'[r].pc \notin Loaded
    BY <1>1, <1>2 DEF Holding, InExecution
  <2> QED BY <1>1, <1>2, <2>1 DEF SafeAt, HoldsItsOwn, SlotFits, LossIsNoticed, IsWatched
<1>3. CASE Holding(r)
  <2> DEFINE k == proc[r].held
  <2>1. k \in DOMAIN execs /\ execs[k].runtime = r
    BY <1>3 DEF SafeAt, HoldsItsOwn
  <2>2. k \in DOMAIN execs' /\ execs'[k].runtime = r /\ execs'[k].status = execs[k].status
        /\ runtime'[r] = runtime[r]
    BY <2>1 DEF Undisturbed
  <2>3. proc'[r].held = k /\ proc'[r].pc = proc[r].pc /\ proc'[r].cancelling = proc[r].cancelling
        /\ proc'[r].cancelled = proc[r].cancelled /\ proc'[r].unheard = proc[r].unheard
        /\ proc'[r].beating = proc[r].beating
    BY DEF SameProcess
  <2> HIDE DEF k
  <2>4. HoldsItsOwn(r)'
    BY <2>2, <2>3 DEF HoldsItsOwn
  <2>5. SlotFits(r)'
    BY <1>1, <2>1, <2>2, <2>3 DEF SafeAt, SlotFits, IsActive, k
  <2>6. LossIsNoticed(r)'
    BY <2>1, <2>2, <2>3 DEF SafeAt, LossIsNoticed, IsCancelling, IsTerminal, k
  <2>7. IsWatched(r)'
    BY <2>3 DEF SafeAt, IsWatched
  <2> QED BY <2>4, <2>5, <2>6, <2>7 DEF SafeAt
<1> QED BY <1>2, <1>3

(* A process that holds nothing is safe; one that releases its attempt is  *)
(* if the attempt is its own.                                              *)
LEMMA IdleIsSafe ==
  ASSUME NEW r \in Runtimes, ~ Holding(r)' PROVE SafeAt(r)'
BY DEF SafeAt, HoldsItsOwn, SlotFits, LossIsNoticed, IsWatched, Executing, Holding, InExecution

LEMMA ReleasingIsSafe ==
  ASSUME NEW r \in Runtimes, proc'[r].pc = "release", HoldsItsOwn(r)' PROVE SafeAt(r)'
BY DEF SafeAt, SlotFits, LossIsNoticed, IsWatched, Executing, InExecution, Loaded

LEMMA SafeProperties ==
  (\A r \in Runtimes : SafeAt(r)) => SlotNamesHeldAttempt /\ LostAttemptIsNoticed
BY DEF SafeAt, SlotFits, LossIsNoticed, IsCancelling, IsWatched, SlotNamesHeldAttempt,
       LostAttemptIsNoticed
-----------------------------------------------------------------------------
(* What the operations of the scheduler leave alone.                       *)

LEMMA SameTablesUndisturbed ==
  ASSUME NEW r \in Runtimes, UNCHANGED tables PROVE Undisturbed(r)
BY DEF tables, vars, Undisturbed

(* Claiming adds an attempt and touches the row of the claimer only.       *)
LEMMA ClaimUndisturbed ==
  ASSUME TypeOK, NEW q \in Runtimes, NEW t \in Tasks, NEW r \in Runtimes, r # q,
         Claim(q, t) \/ ClaimWithoutCard(q, t)
  PROVE  Undisturbed(r)
<1>1. CASE Claim(q, t)
  <2>1. PICK k \in NextKeys(t), c \in CardFor(t) :
          /\ k \notin DOMAIN execs
          /\ execs' = [j \in DOMAIN execs \cup {k} |->
                         IF j = k
                         THEN [status |-> "claimed", task |-> t, runtime |-> q,
                               card |-> c, leased |-> TRUE]
                         ELSE execs[j]]
          /\ runtime' = [runtime EXCEPT ![q] = [status |-> "loading", key |-> k]]
    BY <1>1 DEF Claim
  <2>2. \A j \in DOMAIN execs : j \in DOMAIN execs' /\ execs'[j] = execs[j]
    BY <2>1
  <2>3. runtime'[r] = runtime[r]
    BY <2>1 DEF TypeOK
  <2> QED BY <2>2, <2>3 DEF Undisturbed
<1>2. CASE ClaimWithoutCard(q, t)
  BY <1>2 DEF ClaimWithoutCard, Undisturbed
<1> QED BY <1>1, <1>2

LEMMA RegisterUndisturbed ==
  ASSUME TypeOK, NEW q \in Runtimes, NEW r \in Runtimes, r # q,
         RegisterRuntime(q) \/ StopRuntime(q)
  PROVE  Undisturbed(r)
BY DEF RegisterRuntime, StopRuntime, Undisturbed, TypeOK

(* The rows of an attempt that is ended, and those of the others.          *)
LEMMA EndRows ==
  ASSUME TypeOK, NEW k \in DOMAIN execs, NEW s, execs' = EndExec(k, s)
  PROVE  /\ DOMAIN execs' = DOMAIN execs
         /\ execs'[k].status = s
         /\ \A j \in DOMAIN execs : execs'[j].runtime = execs[j].runtime
         /\ \A j \in DOMAIN execs \ {k} : execs'[j] = execs[j]
<1>1. execs[k] \in ExecRow
  BY DEF TypeOK
<1>2. execs'[k] = [execs[k] EXCEPT !.status = s, !.leased = FALSE]
  BY DEF TypeOK, EndExec
<1>3. \A j \in DOMAIN execs \ {k} : execs'[j] = execs[j]
  BY DEF TypeOK, EndExec
<1>4. DOMAIN execs' = DOMAIN execs
  BY DEF TypeOK, EndExec
<1>5. execs'[k].status = s /\ execs'[k].runtime = execs[k].runtime
  BY <1>1, <1>2 DEF ExecRow
<1> QED BY <1>3, <1>4, <1>5

(* Ending an attempt.                                                      *)
Ends(k) == CompleteExecution(k) \/ FailExecution(k) \/ CancelExecution(k)

LEMMA EndsStep ==
  ASSUME TypeOK, NEW k, Ends(k)
  PROVE  /\ k \in DOMAIN execs
         /\ \E s \in TerminalStatus :
              /\ execs' = EndExec(k, s)
              /\ CompleteExecution(k) => s = "completed"
              /\ FailExecution(k) => s = "failed"
              /\ CancelExecution(k) => s = "cancelled"
         /\ runtime' = SetUnloading(k)
<1>1. k \in DOMAIN execs /\ execs[k].status \in ActiveStatus
  BY DEF Ends, CompleteExecution, FailExecution, CancelExecution, IsCurrentAttempt, IsActive
<1>2. runtime' = SetUnloading(k)
  BY DEF Ends, CompleteExecution, FailExecution, CancelExecution
<1>3. \A s : execs' = EndExec(k, s) => execs'[k].status = s
  BY <1>1, EndRows
<1>4. CASE CompleteExecution(k)
  <2>1. execs' = EndExec(k, "completed")
    BY <1>4 DEF CompleteExecution
  <2>2. ~ CancelExecution(k) /\ ~ FailExecution(k)
    BY <1>3, <2>1 DEF CancelExecution, FailExecution
  <2> QED BY <1>1, <1>2, <2>1, <2>2 DEF TerminalStatus
<1>5. CASE CancelExecution(k)
  <2>1. execs' = EndExec(k, "cancelled")
    BY <1>5 DEF CancelExecution
  <2>2. ~ CompleteExecution(k) /\ ~ FailExecution(k)
    BY <1>3, <2>1 DEF CompleteExecution, FailExecution
  <2> QED BY <1>1, <1>2, <2>1, <2>2 DEF TerminalStatus
<1>6. CASE FailExecution(k)
  <2>1. execs' = EndExec(k, "failed")
    BY <1>6 DEF FailExecution
  <2>2. ~ CompleteExecution(k) /\ ~ CancelExecution(k)
    BY <1>3, <2>1 DEF CompleteExecution, CancelExecution
  <2> QED BY <1>1, <1>2, <2>1, <2>2 DEF TerminalStatus
<1> QED BY <1>4, <1>5, <1>6 DEF Ends

LEMMA EndsUndisturbed ==
  ASSUME TypeOK, NEW k, Ends(k), NEW r \in Runtimes, execs[k].runtime # r
  PROVE  Undisturbed(r)
<1>1. k \in DOMAIN execs /\ runtime' = SetUnloading(k) /\ \E s : execs' = EndExec(k, s)
  BY EndsStep
<1>2. \A j \in DOMAIN execs \ {k} : j \in DOMAIN execs' /\ execs'[j] = execs[j]
  BY <1>1, EndRows
<1>3. runtime'[r] = runtime[r]
  BY <1>1 DEF SetUnloading
<1> QED BY <1>2, <1>3 DEF Undisturbed

LEMMA StartedStep ==
  ASSUME TypeOK, NEW k, MarkExecutionStarted(k)
  PROVE  /\ k \in DOMAIN execs
         /\ DOMAIN execs' = DOMAIN execs
         /\ execs'[k].status = "running" /\ execs'[k].runtime = execs[k].runtime
         /\ \A j \in DOMAIN execs \ {k} : execs'[j] = execs[j]
         /\ \A r \in Runtimes \ {execs[k].runtime} : runtime'[r] = runtime[r]
         /\ runtime'[execs[k].runtime].status = "running"
         /\ runtime'[execs[k].runtime].key = runtime[execs[k].runtime].key
<1>1. k \in DOMAIN execs /\ execs[k] \in ExecRow
  BY DEF MarkExecutionStarted, IsCurrentAttempt, IsActive, TypeOK
<1>2. execs[k].runtime \in Runtimes /\ runtime[execs[k].runtime] \in RuntimeRow
  BY <1>1 DEF TypeOK, ExecRow
<1>3. execs' = [execs EXCEPT ![k] = [@ EXCEPT !.status = "running", !.leased = TRUE]]
      /\ runtime' = [runtime EXCEPT ![execs[k].runtime].status = "running"]
  BY DEF MarkExecutionStarted
<1>4. execs'[k] = [execs[k] EXCEPT !.status = "running", !.leased = TRUE]
  BY <1>1, <1>3 DEF TypeOK
<1>5. execs'[k].status = "running" /\ execs'[k].runtime = execs[k].runtime
  BY <1>1, <1>4 DEF ExecRow
<1>6. runtime'[execs[k].runtime] = [runtime[execs[k].runtime] EXCEPT !.status = "running"]
  BY <1>2, <1>3 DEF TypeOK
<1>7. runtime'[execs[k].runtime].status = "running"
      /\ runtime'[execs[k].runtime].key = runtime[execs[k].runtime].key
  BY <1>2, <1>6 DEF RuntimeRow
<1>8. DOMAIN execs' = DOMAIN execs /\ \A j \in DOMAIN execs \ {k} : execs'[j] = execs[j]
  BY <1>1, <1>3 DEF TypeOK
<1>9. \A r \in Runtimes \ {execs[k].runtime} : runtime'[r] = runtime[r]
  BY <1>2, <1>3 DEF TypeOK
<1> QED BY <1>1, <1>5, <1>7, <1>8, <1>9

LEMMA LeaseUndisturbed ==
  ASSUME TypeOK, NEW k, RenewLease(k) \/ LeaseRunsOut(k), NEW r \in Runtimes
  PROVE  Undisturbed(r)
<1>1. PICK l \in BOOLEAN : execs' = [execs EXCEPT ![k].leased = l]
  BY DEF RenewLease, LeaseRunsOut
<1>2. k \in DOMAIN execs /\ runtime' = runtime
  BY DEF RenewLease, LeaseRunsOut, IsCurrentAttempt, IsActive
<1>3. \A j \in DOMAIN execs : execs[j] \in ExecRow
  BY DEF TypeOK
<1>4. DOMAIN execs' = DOMAIN execs
  BY <1>1 DEF TypeOK
<1>5. \A j \in DOMAIN execs : execs'[j].status = execs[j].status
                              /\ execs'[j].runtime = execs[j].runtime
  <2>1. execs'[k] = [execs[k] EXCEPT !.leased = l]
    BY <1>1, <1>2 DEF TypeOK
  <2>2. \A j \in DOMAIN execs \ {k} : execs'[j] = execs[j]
    BY <1>1 DEF TypeOK
  <2> QED BY <1>3, <2>1, <2>2 DEF ExecRow
<1> QED BY <1>2, <1>4, <1>5 DEF Undisturbed

(* An unload leaves every attempt alone and the row of every other runtime.*)
LEMMA FinishUndisturbed ==
  ASSUME TypeOK, NEW k, FinishCardUnload(k), NEW r \in Runtimes,
         execs[k].runtime # r
  PROVE  Undisturbed(r)
<1>1. runtime' = [runtime EXCEPT ![execs[k].runtime] = [status |-> "idle", key |-> NoKey]]
      /\ execs' = execs
  BY DEF FinishCardUnload
<1> QED BY <1>1 DEF Undisturbed, TypeOK
-----------------------------------------------------------------------------
(* The fields of a process after a step.                                   *)

OthersStay(q) == \A r \in Runtimes \ {q} : proc'[r] = proc[r]

LEMMA GoesStep ==
  ASSUME WTypeOK, NEW q \in Runtimes, NEW place, Goes(q, place)
  PROVE  /\ OthersStay(q)
         /\ proc'[q].pc = place /\ proc'[q].held = proc[q].held
         /\ proc'[q].cancelling = proc[q].cancelling /\ proc'[q].cancelled = proc[q].cancelled
         /\ proc'[q].unheard = proc[q].unheard /\ proc'[q].beating = proc[q].beating
<1>1. proc[q] \in Process
  BY DEF WTypeOK
<1>2. proc'[q] = [proc[q] EXCEPT !.pc = place]
  BY DEF WTypeOK, Goes
<1> QED BY <1>1, <1>2 DEF Process, OthersStay, WTypeOK, Goes

LEMMA TakesStep ==
  ASSUME WTypeOK, NEW q \in Runtimes, NEW place, TakesClaim(q, place)
  PROVE  /\ OthersStay(q)
         /\ proc'[q].pc = "claimed" /\ proc'[q].held = runtime'[q].key
<1>1. proc[q] \in Process
  BY DEF WTypeOK
<1>2. proc'[q] = [proc[q] EXCEPT !.pc = "claimed", !.held = runtime'[q].key, !.back = place,
                                 !.unheard = FALSE]
  BY DEF WTypeOK, TakesClaim
<1> QED BY <1>1, <1>2 DEF Process, OthersStay, WTypeOK, TakesClaim

LEMMA UnloadStep ==
  ASSUME WTypeOK, NEW q \in Runtimes, NEW raises, EntersUnload(q, raises)
  PROVE  OthersStay(q) /\ proc'[q].pc = "unload" /\ proc'[q].held = proc[q].held
<1>1. proc[q] \in Process
  BY DEF WTypeOK
<1>2. proc'[q] = [proc[q] EXCEPT !.pc = "unload", !.beating = FALSE, !.raising = raises]
  BY DEF WTypeOK, EntersUnload
<1> QED BY <1>1, <1>2 DEF Process, OthersStay, WTypeOK, EntersUnload

LEMMA ReleaseStep ==
  ASSUME WTypeOK, NEW q \in Runtimes, NEW raises, EntersRelease(q, raises)
  PROVE  OthersStay(q) /\ proc'[q].pc = "release" /\ proc'[q].held = proc[q].held
<1>1. proc[q] \in Process
  BY DEF WTypeOK
<1>2. proc'[q] = [proc[q] EXCEPT !.pc = "release", !.beating = FALSE, !.cancelled = FALSE,
                                 !.raising = raises]
  BY DEF WTypeOK, EntersRelease
<1> QED BY <1>1, <1>2 DEF Process, OthersStay, WTypeOK, EntersRelease

LEMMA LeavesStep ==
  ASSUME WTypeOK, NEW q \in Runtimes, NEW raises, LeavesClaim(q, raises)
  PROVE  OthersStay(q) /\ proc'[q].pc \in {"receive", "top", "exit"}
<1>1. proc[q] \in Process
  BY DEF WTypeOK
<1>2. proc'[q] = [proc[q] EXCEPT !.pc = IF ~ raises THEN proc[q].back
                                        ELSE IF proc[q].back = "receive" THEN "exit" ELSE "top",
                                 !.held = NoKey, !.back = "top", !.raising = FALSE,
                                 !.unheard = FALSE]
  BY DEF WTypeOK, LeavesClaim
<1> QED BY <1>1, <1>2 DEF Process, OthersStay, WTypeOK, LeavesClaim

LEMMA ResetStep ==
  ASSUME WTypeOK, NEW q \in Runtimes, proc' = [proc EXCEPT ![q] = NoProcess]
  PROVE  OthersStay(q) /\ proc'[q].pc = "down"
BY DEF WTypeOK, OthersStay, NoProcess

(* A place where nothing is held.                                          *)
LEMMA FreePlace ==
  ASSUME NEW q \in Runtimes,
         proc'[q].pc \in {"down", "top", "scan", "receive", "exit"}
  PROVE  SafeAt(q)'
<1>1. ~ Holding(q)'
  BY DEF Holding, InExecution, Loaded
<1> QED BY <1>1, IdleIsSafe
-----------------------------------------------------------------------------
(* The steps of the worker itself, by what they do to its attempt.         *)

(* The tables keep its row and attempt, and a loss it still runs into      *)
(* stays noticed.                                                          *)
LEMMA MovesSafely ==
  ASSUME NEW q \in Runtimes, SafeAt(q), Undisturbed(q), Executing(q),
         proc'[q].held = proc[q].held,
         proc'[q].pc \in InExecution \cup {"release"}, IsWatched(q)',
         \/ proc'[q].pc \notin Loaded
         \/ IsActive(proc[q].held)
         \/ /\ proc[q].pc \in Loaded
            /\ proc[q].pc = "failing" => proc'[q].pc = "failing"
            /\ IsCancelling(q) => IsCancelling(q)'
  PROVE  SafeAt(q)'
<1> DEFINE k == proc[q].held
<1>1. k \in DOMAIN execs /\ execs[k].runtime = q
  BY DEF SafeAt, HoldsItsOwn, Executing, Holding
<1>2. k \in DOMAIN execs' /\ execs'[k].runtime = q /\ execs'[k].status = execs[k].status
      /\ runtime'[q] = runtime[q]
  BY <1>1 DEF Undisturbed
<1>3. proc'[q].held = k
  OBVIOUS
<1> HIDE DEF k
<1>4. HoldsItsOwn(q)'
  BY <1>2, <1>3 DEF HoldsItsOwn
<1>5. SlotFits(q)'
  BY <1>1, <1>2, <1>3 DEF SafeAt, SlotFits, IsActive, k
<1>6. LossIsNoticed(q)'
  <2> SUFFICES ASSUME proc'[q].pc \in Loaded, execs'[k].status \in TerminalStatus
               PROVE  LossIsNoticed(q)'
    BY <1>3 DEF LossIsNoticed, IsTerminal
  <2>1. ~ IsActive(k) /\ IsTerminal(k)
    BY <1>1, <1>2 DEF IsActive, IsTerminal, ActiveStatus, TerminalStatus
  <2>2. /\ proc[q].pc \in Loaded
        /\ proc[q].pc = "failing" => proc'[q].pc = "failing"
        /\ IsCancelling(q) => IsCancelling(q)'
    BY <2>1 DEF k
  <2> QED BY <1>2, <1>3, <2>1, <2>2 DEF SafeAt, LossIsNoticed, k
<1> QED BY <1>4, <1>5, <1>6 DEF SafeAt

(* The worker itself, or its control loop, ends its attempt.               *)
LEMMA EndsSafely ==
  ASSUME TypeOK, NEW q \in Runtimes, SafeAt(q), Executing(q), Ends(proc[q].held),
         proc'[q].held = proc[q].held,
         IsWatched(q)',
         proc'[q].pc \in Loaded =>
           \/ CancelExecution(proc[q].held) /\ IsCancelling(q)'
           \/ /\ CompleteExecution(proc[q].held) \/ FailExecution(proc[q].held)
              /\ proc'[q].pc = "failing"
  PROVE  SafeAt(q)'
<1> DEFINE k == proc[q].held
<1>1. k \in DOMAIN execs /\ execs[k].runtime = q
  BY DEF SafeAt, HoldsItsOwn, Executing, Holding
<1>2. PICK s \in TerminalStatus : /\ execs' = EndExec(k, s)
                                  /\ CompleteExecution(k) => s = "completed"
                                  /\ FailExecution(k) => s = "failed"
                                  /\ CancelExecution(k) => s = "cancelled"
  BY EndsStep
<1>3. k \in DOMAIN execs' /\ execs'[k].status = s /\ execs'[k].runtime = q
  BY <1>1, <1>2, EndRows
<1>4. proc'[q].held = k
  OBVIOUS
<1>5. proc'[q].pc \in Loaded =>
        \/ CancelExecution(k) /\ IsCancelling(q)'
        \/ (CompleteExecution(k) \/ FailExecution(k)) /\ proc'[q].pc = "failing"
  OBVIOUS
<1> HIDE DEF k
<1>6. HoldsItsOwn(q)'
  BY <1>3, <1>4 DEF HoldsItsOwn
<1>7. SlotFits(q)'
  BY <1>3, <1>4 DEF SlotFits, IsActive, ActiveStatus, TerminalStatus
<1>8. LossIsNoticed(q)'
  BY <1>2, <1>3, <1>4, <1>5 DEF LossIsNoticed
<1> QED BY <1>6, <1>7, <1>8 DEF SafeAt

(* A claim gives the worker an attempt of its own and the loading slot.    *)
LEMMA ClaimsSafely ==
  ASSUME TypeOK, NEW q \in Runtimes, NEW t \in Tasks, Claim(q, t),
         proc'[q].pc = "claimed", proc'[q].held = runtime'[q].key
  PROVE  SafeAt(q)'
<1>1. PICK k \in NextKeys(t), c \in CardFor(t) :
        /\ execs' = [j \in DOMAIN execs \cup {k} |->
                       IF j = k
                       THEN [status |-> "claimed", task |-> t, runtime |-> q,
                             card |-> c, leased |-> TRUE]
                       ELSE execs[j]]
        /\ runtime' = [runtime EXCEPT ![q] = [status |-> "loading", key |-> k]]
  BY DEF Claim
<1>2. k \in DOMAIN execs' /\ execs'[k].status = "claimed" /\ execs'[k].runtime = q
  BY <1>1
<1>3. runtime'[q] = [status |-> "loading", key |-> k]
  BY <1>1 DEF TypeOK
<1>4. proc'[q].held = k
  BY <1>3
<1>5. HoldsItsOwn(q)'
  BY <1>2, <1>4 DEF HoldsItsOwn
<1>6. SlotFits(q)'
  BY <1>2, <1>3, <1>4 DEF SlotFits
<1>7. LossIsNoticed(q)' /\ IsWatched(q)'
  BY <1>2, <1>4 DEF LossIsNoticed, IsWatched, Loaded
<1> QED BY <1>5, <1>6, <1>7 DEF SafeAt

(* The attempt is marked as running, and its slot with it.                 *)
LEMMA StartsSafely ==
  ASSUME TypeOK, NEW q \in Runtimes, SafeAt(q), Executing(q), MarkExecutionStarted(proc[q].held),
         proc'[q].held = proc[q].held, IsWatched(q)'
  PROVE  SafeAt(q)'
<1> DEFINE k == proc[q].held
<1>1. k \in DOMAIN execs /\ execs[k].runtime = q /\ IsActive(k)
  BY DEF SafeAt, HoldsItsOwn, Executing, Holding, MarkExecutionStarted, IsCurrentAttempt
<1>2. runtime[q].key = k
  BY <1>1 DEF SafeAt, SlotFits
<1>3. k \in DOMAIN execs' /\ execs'[k].status = "running" /\ execs'[k].runtime = q
      /\ runtime'[q].status = "running" /\ runtime'[q].key = k
  BY <1>1, <1>2, StartedStep
<1>4. proc'[q].held = k
  OBVIOUS
<1> HIDE DEF k
<1>5. HoldsItsOwn(q)'
  BY <1>3, <1>4 DEF HoldsItsOwn
<1>6. SlotFits(q)'
  BY <1>3, <1>4 DEF SlotFits
<1>7. LossIsNoticed(q)'
  BY <1>3, <1>4 DEF LossIsNoticed, IsTerminal, TerminalStatus
<1> QED BY <1>5, <1>6, <1>7 DEF SafeAt
-----------------------------------------------------------------------------
(* The steps, group by group, in a state where every worker is safe.       *)
WorkerInv == WTypeOK /\ \A r \in Runtimes : SafeAt(r)

AllSafe == \A r \in Runtimes : SafeAt(r)

(* The workers a step does not belong to stay safe.                        *)
LEMMA OthersSafe ==
  ASSUME WorkerInv, NEW q \in Runtimes, OthersStay(q),
         \A r \in Runtimes \ {q} : Undisturbed(r)
  PROVE  \A r \in Runtimes \ {q} : SafeAt(r)'
<1> TAKE r \in Runtimes \ {q}
<1>1. SameProcess(r)
  BY DEF OthersStay, SameProcess
<1> QED BY <1>1, StaysSafe DEF WorkerInv

LEMMA LoopSafe ==
  ASSUME TypeOK, WorkerInv, NEW q \in Runtimes,
         Start(q) \/ LoopTop(q) \/ ScanClaims(q) \/ ScanFindsNothing(q) \/ ScanRaises(q)
         \/ Receive(q) \/ Exit(q)
  PROVE  AllSafe'
<1> USE DEF WorkerInv
<1>1. \A r \in Runtimes \ {q} : Undisturbed(r)
  <2>1. (\E t \in Tasks : Claim(q, t) \/ ClaimWithoutCard(q, t)) \/ UNCHANGED tables
        \/ RegisterRuntime(q) \/ StopRuntime(q)
    BY DEF Start, LoopTop, ScanClaims, ScanFindsNothing, ScanRaises, Receive, Exit, Raises
  <2> QED BY <2>1, ClaimUndisturbed, SameTablesUndisturbed, RegisterUndisturbed
<1>2. OthersStay(q) /\ SafeAt(q)'
  <2>1. CASE \E place \in {"top", "scan", "receive", "exit"} : Goes(q, place)
    BY <2>1, GoesStep, FreePlace
  <2>2. CASE \E t \in Tasks : Claim(q, t) /\ \E place \in {"receive", "top"} : TakesClaim(q, place)
    BY <2>2, TakesStep, ClaimsSafely
  <2>3. CASE ScanClaims(q) /\ UNCHANGED proc
    <3>1. proc'[q].pc = "scan" /\ OthersStay(q)
      BY <2>3 DEF ScanClaims, OthersStay
    <3> QED BY <3>1, FreePlace
  <2>4. CASE proc' = [proc EXCEPT ![q] = NoProcess]
    BY <2>4, ResetStep, FreePlace
  <2> QED BY <2>1, <2>2, <2>3, <2>4
          DEF Start, LoopTop, ScanClaims, ScanFindsNothing, ScanRaises, Receive, Exit
<1> QED BY <1>1, <1>2, OthersSafe DEF AllSafe

(* The operations a worker calls on the attempt it holds concern no other. *)
LEMMA OwnCallUndisturbed ==
  ASSUME TypeOK, WorkerInv, NEW q \in Runtimes, Holding(q),
         LET k == proc[q].held
         IN  Ends(k) \/ MarkExecutionStarted(k) \/ RenewLease(k) \/ FinishCardUnload(k)
             \/ UNCHANGED tables
  PROVE  \A r \in Runtimes \ {q} : Undisturbed(r)
<1> TAKE r \in Runtimes \ {q}
<1> DEFINE k == proc[q].held
<1>1. k \in DOMAIN execs /\ execs[k].runtime # r
  BY DEF WorkerInv, SafeAt, HoldsItsOwn
<1>2. CASE Ends(k)
  BY <1>1, <1>2, EndsUndisturbed
<1>3. CASE MarkExecutionStarted(k)
  <2>1. /\ DOMAIN execs' = DOMAIN execs
        /\ \A j \in DOMAIN execs \ {k} : execs'[j] = execs[j]
        /\ runtime'[r] = runtime[r]
    BY <1>1, <1>3, StartedStep
  <2> QED BY <1>1, <2>1 DEF Undisturbed
<1>4. CASE RenewLease(k) \/ UNCHANGED tables
  BY <1>4, LeaseUndisturbed, SameTablesUndisturbed
<1>5. CASE FinishCardUnload(k)
  BY <1>1, <1>5, FinishUndisturbed
<1> QED BY <1>2, <1>3, <1>4, <1>5

(* A worker that enters the release of its claim still holds it.           *)
LEMMA EntersReleaseSafe ==
  ASSUME TypeOK, WorkerInv, NEW q \in Runtimes, Holding(q), NEW raises, EntersRelease(q, raises),
         FinishCardUnload(proc[q].held) \/ UNCHANGED tables
  PROVE  SafeAt(q)'
<1>1. proc[q].held \in DOMAIN execs /\ execs[proc[q].held].runtime = q /\ execs' = execs
  BY DEF WorkerInv, SafeAt, HoldsItsOwn, FinishCardUnload, tables, vars
<1>2. proc'[q].pc = "release" /\ proc'[q].held = proc[q].held
  BY ReleaseStep DEF WorkerInv
<1>3. HoldsItsOwn(q)'
  BY <1>1, <1>2 DEF HoldsItsOwn
<1> QED BY <1>2, <1>3, ReleasingIsSafe

LEMMA ExecutionSafe ==
  ASSUME TypeOK, WorkerInv, NEW q \in Runtimes,
         BeginLoad(q) \/ BeginWork(q) \/ CompleteWork(q) \/ WorkFails(q) \/ ReportFailure(q)
         \/ Unload(q) \/ Release(q) \/ CancelArrives(q)
  PROVE  AllSafe'
<1> DEFINE k == proc[q].held
<1>1. WTypeOK /\ SafeAt(q) /\ proc[q] \in Process
  BY DEF WorkerInv, WTypeOK
<1>2. Holding(q)
  BY DEF Holding, InExecution, Loaded, Executing, BeginLoad, BeginWork, CompleteWork, WorkFails,
         ReportFailure, Unload, Release, CancelArrives
<1>3. Ends(k) \/ MarkExecutionStarted(k) \/ FinishCardUnload(k) \/ UNCHANGED tables
  BY DEF BeginLoad, BeginWork, CompleteWork, WorkFails, ReportFailure, Unload, Release,
         CancelArrives, Completes, Fails, Finishes, Raises, Ends, tables
<1>4. \A r \in Runtimes \ {q} : Undisturbed(r)
  BY <1>2, <1>3, OwnCallUndisturbed
<1> HIDE DEF k
<1>5. CASE BeginLoad(q)
  <2>1. UNCHANGED tables /\ Undisturbed(q) /\ Executing(q)
    BY <1>5, SameTablesUndisturbed DEF BeginLoad, Executing, InExecution
  <2>2. CASE /\ IsCurrentAttempt(k)
             /\ proc' = [proc EXCEPT ![q] = [@ EXCEPT !.pc = "loading", !.beating = TRUE]]
    <3>1. proc'[q] = [proc[q] EXCEPT !.pc = "loading", !.beating = TRUE]
      BY <1>1, <2>2 DEF WTypeOK
    <3>2. proc'[q].pc = "loading" /\ proc'[q].held = proc[q].held /\ proc'[q].beating
          /\ OthersStay(q)
      BY <1>1, <2>2, <3>1 DEF Process, OthersStay, WTypeOK
    <3>3. IsActive(proc[q].held)
      BY <2>2 DEF IsCurrentAttempt, k
    <3>4. SafeAt(q)'
      BY <1>1, <2>1, <3>2, <3>3, MovesSafely DEF InExecution, Loaded, IsWatched
    <3> QED BY <1>4, <3>2, <3>4, OthersSafe DEF AllSafe
  <2>3. CASE \E raises : EntersRelease(q, raises)
    BY <1>1, <1>2, <1>4, <2>1, <2>3, ReleaseStep, EntersReleaseSafe, OthersSafe DEF AllSafe
  <2> QED BY <1>5, <2>2, <2>3 DEF BeginLoad, k
<1>6. CASE BeginWork(q)
  <2>1. Executing(q) /\ proc[q].pc = "loading"
    BY <1>6 DEF BeginWork, Executing, InExecution, Loaded
  <2>2. CASE MarkExecutionStarted(k) /\ Goes(q, "working")
    <3>1. OthersStay(q) /\ proc'[q].held = proc[q].held /\ IsWatched(q)'
      BY <1>1, <2>1, <2>2, GoesStep DEF SafeAt, IsWatched, Loaded
    <3> QED BY <1>1, <1>4, <2>1, <2>2, <3>1, StartsSafely, OthersSafe DEF AllSafe, k
  <2>3. CASE EntersUnload(q, FALSE) /\ UNCHANGED tables
    <3>1. proc'[q].pc = "unload" /\ proc'[q].held = proc[q].held /\ OthersStay(q) /\ Undisturbed(q)
      BY <1>1, <2>3, UnloadStep, SameTablesUndisturbed
    <3>2. SafeAt(q)'
      BY <1>1, <2>1, <3>1, MovesSafely DEF InExecution, Loaded, IsWatched
    <3> QED BY <1>4, <3>1, <3>2, OthersSafe DEF AllSafe
  <2> QED BY <1>6, <2>2, <2>3 DEF BeginWork, k
<1>7. CASE CompleteWork(q) \/ ReportFailure(q) \/ WorkFails(q)
  <2>1. Executing(q) /\ proc[q].pc \in Loaded
    BY <1>7 DEF CompleteWork, ReportFailure, WorkFails, Executing, InExecution, Loaded
  <2>2. CASE Ends(k) /\ \E raises : EntersUnload(q, raises)
    <3>1. proc'[q].pc = "unload" /\ proc'[q].held = proc[q].held /\ OthersStay(q)
      BY <1>1, <2>2, UnloadStep
    <3>2. SafeAt(q)'
      BY <1>1, <2>1, <2>2, <3>1, EndsSafely DEF Loaded, IsWatched, k
    <3> QED BY <1>4, <3>1, <3>2, OthersSafe DEF AllSafe
  <2>3. CASE UNCHANGED tables /\ \E raises : EntersUnload(q, raises)
    <3>1. proc'[q].pc = "unload" /\ proc'[q].held = proc[q].held /\ OthersStay(q) /\ Undisturbed(q)
      BY <1>1, <2>3, UnloadStep, SameTablesUndisturbed
    <3>2. SafeAt(q)'
      BY <1>1, <2>1, <3>1, MovesSafely DEF InExecution, Loaded, IsWatched
    <3> QED BY <1>4, <3>1, <3>2, OthersSafe DEF AllSafe
  <2>4. CASE (CompleteExecution(k) \/ FailExecution(k)) /\ Goes(q, "failing")
    <3>1. proc'[q].pc = "failing" /\ proc'[q].held = proc[q].held /\ OthersStay(q)
          /\ IsWatched(q)'
      BY <1>1, <2>1, <2>4, GoesStep DEF SafeAt, IsWatched
    <3>2. SafeAt(q)'
      BY <1>1, <2>1, <2>4, <3>1, EndsSafely DEF Ends, k
    <3> QED BY <1>4, <3>1, <3>2, OthersSafe DEF AllSafe
  <2>5. CASE UNCHANGED tables /\ Goes(q, "failing")
    <3>1. /\ proc'[q].pc = "failing" /\ proc'[q].held = proc[q].held /\ OthersStay(q)
          /\ IsCancelling(q) => IsCancelling(q)'
          /\ IsWatched(q)' /\ Undisturbed(q)
      BY <1>1, <2>1, <2>5, GoesStep, SameTablesUndisturbed DEF SafeAt, IsWatched, IsCancelling
    <3>2. SafeAt(q)'
      BY <1>1, <2>1, <3>1, MovesSafely DEF InExecution, Loaded
    <3> QED BY <1>4, <3>1, <3>2, OthersSafe DEF AllSafe
  <2> QED BY <1>7, <2>2, <2>3, <2>4, <2>5
          DEF CompleteWork, ReportFailure, WorkFails, Completes, Fails, Raises, Ends, k
<1>8. CASE Unload(q)
  <2>1. (FinishCardUnload(k) \/ UNCHANGED tables) /\ \E raises : EntersRelease(q, raises)
    BY <1>8 DEF Unload, Finishes, Raises, k
  <2> QED BY <1>1, <1>2, <1>4, <2>1, ReleaseStep, EntersReleaseSafe, OthersSafe DEF AllSafe, k
<1>9. CASE Release(q)
  <2>1. \E raises : LeavesClaim(q, raises)
    BY <1>9 DEF Release
  <2> QED BY <1>1, <1>4, <2>1, LeavesStep, FreePlace, OthersSafe DEF AllSafe
<1>10. CASE CancelArrives(q)
  <2>1. Executing(q) /\ UNCHANGED tables /\ Undisturbed(q)
    BY <1>10, SameTablesUndisturbed DEF CancelArrives
  <2>2. CASE \E raises : EntersRelease(q, raises)
    BY <1>1, <1>2, <1>4, <2>1, <2>2, ReleaseStep, EntersReleaseSafe, OthersSafe DEF AllSafe
  <2>3. CASE proc' = [proc EXCEPT ![q] = [@ EXCEPT !.pc = "unload", !.beating = FALSE,
                                                   !.cancelled = FALSE]]
    <3>1. proc'[q] = [proc[q] EXCEPT !.pc = "unload", !.beating = FALSE, !.cancelled = FALSE]
      BY <1>1, <2>3 DEF WTypeOK
    <3>2. proc'[q].pc = "unload" /\ proc'[q].held = proc[q].held /\ OthersStay(q)
      BY <1>1, <2>3, <3>1 DEF Process, OthersStay, WTypeOK
    <3>3. SafeAt(q)'
      BY <1>1, <2>1, <3>2, MovesSafely DEF InExecution, Loaded, IsWatched
    <3> QED BY <1>4, <3>2, <3>3, OthersSafe DEF AllSafe
  <2> QED BY <1>10, <2>2, <2>3 DEF CancelArrives
<1> QED BY <1>5, <1>6, <1>7, <1>8, <1>9, <1>10

(* The heartbeat, the control loop, and what happens to the process from   *)
(* outside.                                                                *)
LEMMA ControlSafe ==
  ASSUME TypeOK, WorkerInv, NEW q \in Runtimes,
         Heartbeat(q) \/ Shutdown(q) \/ ControlReceives(q) \/ ControlCancels(q)
         \/ Interrupt(q) \/ Crash(q)
  PROVE  AllSafe'
<1>1. WTypeOK /\ SafeAt(q) /\ proc[q] \in Process
  BY DEF WorkerInv, WTypeOK
<1>2. ASSUME OthersStay(q), UNCHANGED tables,
             proc'[q].pc = proc[q].pc, proc'[q].held = proc[q].held,
             IsCancelling(q) => IsCancelling(q)',
             proc[q].beating \/ proc[q].cancelled => proc'[q].beating \/ proc'[q].cancelled
      PROVE  AllSafe'
  <2>1. \A r \in Runtimes : Undisturbed(r)
    BY <1>2, SameTablesUndisturbed
  <2>2. CASE Executing(q)
    <3>1. SafeAt(q)'
      BY <1>1, <1>2, <2>1, <2>2, MovesSafely DEF Executing, Loaded, SafeAt, IsWatched
    <3> QED BY <1>2, <2>1, <3>1, OthersSafe DEF AllSafe
  <2>3. CASE proc[q].pc = "release"
    <3>1. HoldsItsOwn(q)'
      BY <1>1, <1>2, <2>1, <2>3 DEF SafeAt, HoldsItsOwn, Holding, Undisturbed
    <3>2. SafeAt(q)'
      BY <1>2, <2>3, <3>1, ReleasingIsSafe
    <3> QED BY <1>2, <2>1, <3>2, OthersSafe DEF AllSafe
  <2>4. CASE ~ Holding(q)
    <3>1. SafeAt(q)'
      BY <1>2, <2>4, IdleIsSafe DEF Holding
    <3> QED BY <1>2, <2>1, <3>1, OthersSafe DEF AllSafe
  <2> QED BY <2>2, <2>3, <2>4 DEF Holding, Executing
<1>3. CASE Heartbeat(q)
  <2>1. CASE RenewLease(proc[q].held) /\ UNCHANGED proc
    <3>1. \A r \in Runtimes : Undisturbed(r) /\ SameProcess(r)
      BY <2>1, LeaseUndisturbed DEF SameProcess
    <3> QED BY <3>1, StaysSafe DEF WorkerInv, AllSafe
  <2>2. CASE /\ proc' = [proc EXCEPT ![q] = [@ EXCEPT !.beating = FALSE, !.cancelled = TRUE]]
             /\ UNCHANGED tables
    <3>1. proc'[q] = [proc[q] EXCEPT !.beating = FALSE, !.cancelled = TRUE]
      BY <1>1, <2>2 DEF WTypeOK
    <3>2. proc'[q].pc = proc[q].pc /\ proc'[q].held = proc[q].held /\ proc'[q].cancelled = TRUE
      BY <1>1, <3>1 DEF Process
    <3>3. OthersStay(q)
      BY <1>1, <2>2 DEF OthersStay, WTypeOK
    <3> QED BY <1>2, <2>2, <3>2, <3>3 DEF IsCancelling
  <2> QED BY <1>3, <2>1, <2>2 DEF Heartbeat
<1>4. CASE Shutdown(q)
  BY <1>2, <1>4 DEF Shutdown, OthersStay, IsCancelling
<1>5. CASE ControlReceives(q)
  <2>1. CASE /\ Executing(q) /\ CancelExecution(proc[q].held)
             /\ \/ proc' = [proc EXCEPT ![q].cancelling = TRUE]
                \/ proc' = [proc EXCEPT ![q].unheard = TRUE]
    <3>1. \/ proc'[q] = [proc[q] EXCEPT !.cancelling = TRUE]
          \/ proc'[q] = [proc[q] EXCEPT !.unheard = TRUE]
      BY <1>1, <2>1 DEF WTypeOK
    <3>2. /\ proc'[q].pc = proc[q].pc /\ proc'[q].held = proc[q].held
          /\ proc'[q].beating = proc[q].beating /\ proc'[q].cancelled = proc[q].cancelled
          /\ IsCancelling(q)'
      BY <1>1, <3>1 DEF Process, IsCancelling
    <3>3. OthersStay(q)
      BY <1>1, <2>1 DEF OthersStay, WTypeOK
    <3>4. SafeAt(q)'
      BY <1>1, <2>1, <3>2, EndsSafely DEF Ends, SafeAt, IsWatched
    <3>5. \A r \in Runtimes \ {q} : Undisturbed(r)
      BY <2>1, OwnCallUndisturbed DEF Ends, Executing, Holding
    <3> QED BY <3>3, <3>4, <3>5, OthersSafe DEF AllSafe
  <2>2. CASE proc' = [proc EXCEPT ![q].stopping = TRUE] /\ UNCHANGED tables
    <3>1. proc'[q] = [proc[q] EXCEPT !.stopping = TRUE]
      BY <1>1, <2>2 DEF WTypeOK
    <3>2. /\ proc'[q].pc = proc[q].pc /\ proc'[q].held = proc[q].held
          /\ proc'[q].beating = proc[q].beating /\ proc'[q].cancelled = proc[q].cancelled
          /\ IsCancelling(q)' = IsCancelling(q)
      BY <1>1, <3>1 DEF Process, IsCancelling
    <3>3. OthersStay(q)
      BY <1>1, <2>2 DEF OthersStay, WTypeOK
    <3> QED BY <1>2, <2>2, <3>2, <3>3
  <2>3. CASE UNCHANGED <<tables, proc>>
    BY <1>2, <2>3 DEF OthersStay, IsCancelling
  <2> QED BY <1>5, <2>1, <2>2, <2>3 DEF ControlReceives
<1>6. CASE ControlCancels(q)
  <2> DEFINE p == [proc[q] EXCEPT !.cancelling = FALSE, !.stopping = TRUE,
                                  !.cancelled = proc[q].cancelled \/ Executing(q)]
  <2>1. p.pc = proc[q].pc /\ p.held = proc[q].held
    BY <1>1 DEF Process
  <2>2. p.cancelled = (proc[q].cancelled \/ Executing(q))
    BY <1>1, Zenon DEF Process
  <2>3. proc' = [proc EXCEPT ![q] = p] /\ UNCHANGED tables
    BY <1>6, Zenon DEF ControlCancels
  <2> HIDE DEF p
  <2>4. proc'[q] = p /\ OthersStay(q)
    BY <1>1, <2>3 DEF OthersStay, WTypeOK
  <2>5. CASE Executing(q)
    <3>1. proc'[q].cancelled
      BY <2>2, <2>4, <2>5
    <3> QED BY <1>2, <2>1, <2>3, <2>4, <3>1 DEF IsCancelling
  <2>6. CASE ~ Executing(q)
    <3>1. \A r \in Runtimes : Undisturbed(r)
      BY <2>3, SameTablesUndisturbed
    <3>2. SafeAt(q)'
      <4>1. CASE proc[q].pc = "release"
        <5>1. HoldsItsOwn(q)'
          BY <1>1, <2>1, <2>4, <3>1, <4>1 DEF SafeAt, HoldsItsOwn, Holding, Undisturbed
        <5> QED BY <2>1, <2>4, <4>1, <5>1, ReleasingIsSafe
      <4>2. CASE proc[q].pc # "release"
        BY <2>1, <2>4, <2>6, <4>2, IdleIsSafe DEF Holding, Executing
      <4> QED BY <4>1, <4>2
    <3> QED BY <2>4, <3>1, <3>2, OthersSafe DEF AllSafe
  <2> QED BY <2>5, <2>6
<1>7. CASE proc' = [proc EXCEPT ![q] = NoProcess] /\ UNCHANGED tables
  BY <1>1, <1>7, ResetStep, FreePlace, SameTablesUndisturbed, OthersSafe DEF AllSafe
<1>8. CASE Interrupt(q)
  <2>1. CASE /\ proc' = [proc EXCEPT ![q] = [@ EXCEPT !.interrupted = TRUE, !.cancelled = TRUE]]
             /\ UNCHANGED tables
    <3>1. proc'[q] = [proc[q] EXCEPT !.interrupted = TRUE, !.cancelled = TRUE]
      BY <1>1, <2>1 DEF WTypeOK
    <3>2. proc'[q].pc = proc[q].pc /\ proc'[q].held = proc[q].held /\ proc'[q].cancelled = TRUE
      BY <1>1, <3>1 DEF Process
    <3>3. OthersStay(q)
      BY <1>1, <2>1 DEF OthersStay, WTypeOK
    <3> QED BY <1>2, <2>1, <3>2, <3>3 DEF IsCancelling
  <2>2. CASE /\ proc' = [proc EXCEPT ![q] = [@ EXCEPT !.interrupted = TRUE, !.pc = "exit"]]
             /\ UNCHANGED tables
    <3>1. proc'[q] = [proc[q] EXCEPT !.interrupted = TRUE, !.pc = "exit"]
      BY <1>1, <2>2 DEF WTypeOK
    <3>2. proc'[q].pc = "exit"
      BY <1>1, <3>1 DEF Process
    <3>3. OthersStay(q)
      BY <1>1, <2>2 DEF OthersStay, WTypeOK
    <3> QED BY <2>2, <3>2, <3>3, FreePlace, SameTablesUndisturbed, OthersSafe DEF AllSafe
  <2> QED BY <1>7, <1>8, <2>1, <2>2 DEF Interrupt
<1>9. CASE Crash(q)
  BY <1>7, <1>9 DEF Crash
<1> QED BY <1>3, <1>4, <1>5, <1>6, <1>8, <1>9

(* Publication, time and reclaim.  A reclaim resets the row only of an     *)
(* attempt it expires, and then the loss is noticed for what it is.        *)
LEMMA EnvironmentSafe ==
  ASSUME TypeOK, WorkerInv,
         \/ Publishes
         \/ \E k \in DOMAIN execs : LeaseLapses(k)
         \/ \E S \in SUBSET DOMAIN execs : Reclaims(S)
         \/ UNCHANGED wvars
  PROVE  AllSafe'
<1>1. \A r \in Runtimes : SameProcess(r) /\ proc'[r] = proc[r]
  BY DEF Publishes, LeaseLapses, Reclaims, wvars, SameProcess
<1>2. CASE Publishes \/ UNCHANGED wvars
  <2>1. execs' = execs /\ runtime' = runtime
    BY <1>2 DEF Publishes, Publish, wvars, tables, vars
  <2> QED BY <1>1, <2>1, StaysSafe DEF WorkerInv, AllSafe, Undisturbed
<1>3. CASE \E k \in DOMAIN execs : LeaseLapses(k)
  BY <1>1, <1>3, LeaseUndisturbed, StaysSafe DEF LeaseLapses, WorkerInv, AllSafe
<1>4. ASSUME NEW S \in SUBSET DOMAIN execs, Reclaims(S) PROVE AllSafe'
  <2> SUFFICES ASSUME NEW r \in Runtimes PROVE SafeAt(r)'
    BY DEF AllSafe
  <2> DEFINE h == proc[r].held
  <2>1. SafeAt(r) /\ proc'[r] = proc[r]
    BY <1>1 DEF WorkerInv
  <2>2. /\ \A k \in S : IsActive(k)
        /\ execs' = [k \in DOMAIN execs |->
                       IF k \in S THEN [execs[k] EXCEPT !.status = "expired", !.leased = FALSE]
                                  ELSE execs[k]]
        /\ runtime' = [x \in Runtimes |->
                         IF \E k \in S : execs[k].runtime = x /\ runtime[x].key = k
                         THEN [status |-> "idle", key |-> NoKey]
                         ELSE runtime[x]]
    BY <1>4 DEF Reclaims, ReclaimLeasedTasks, Reclaimable
  <2>3. DOMAIN execs' = DOMAIN execs
        /\ \A k \in DOMAIN execs : execs[k] \in ExecRow
    BY <2>2 DEF TypeOK
  <2>4. \A k \in DOMAIN execs \ S : execs'[k] = execs[k]
    BY <2>2
  <2>5. \A k \in S : execs'[k].status = "expired" /\ execs'[k].runtime = execs[k].runtime
    <3> TAKE k \in S
    <3>1. execs'[k] = [execs[k] EXCEPT !.status = "expired", !.leased = FALSE]
      BY <2>2
    <3> QED BY <2>3, <3>1 DEF ExecRow
  <2>6. CASE Holding(r) /\ h \in S
    <3>1. HoldsItsOwn(r)'
      BY <2>1, <2>3, <2>5, <2>6 DEF SafeAt, HoldsItsOwn, Holding
    <3>2. execs'[h].status = "expired" /\ proc'[r].held = h
      BY <2>1, <2>5, <2>6
    <3> HIDE DEF h
    <3>3. SlotFits(r)'
      BY <3>2 DEF SlotFits, IsActive, ActiveStatus
    <3>4. LossIsNoticed(r)'
      BY <3>2 DEF LossIsNoticed
    <3>5. IsWatched(r)'
      BY <2>1 DEF SafeAt, IsWatched
    <3> QED BY <3>1, <3>3, <3>4, <3>5 DEF SafeAt
  <2>7. CASE Holding(r) /\ h \notin S
    <3>1. h \in DOMAIN execs /\ execs[h].runtime = r /\ execs'[h] = execs[h] /\ h \in DOMAIN execs'
      BY <2>1, <2>3, <2>4, <2>7 DEF SafeAt, HoldsItsOwn
    <3>2. proc'[r].held = h
      BY <2>1
    <3>3. Executing(r) /\ IsActive(h) => runtime'[r] = runtime[r]
      BY <2>1, <2>2, <2>7 DEF SafeAt, SlotFits
    <3>4. Executing(r)' = Executing(r) /\ proc'[r] = proc[r]
      BY <2>1 DEF Executing
    <3>5. IsActive(h) <=> execs'[h].status \in ActiveStatus
      BY <3>1 DEF IsActive
    <3>6. IsTerminal(h) <=> execs'[h].status \in TerminalStatus
      BY <3>1 DEF IsTerminal
    <3> HIDE DEF h
    <3>7. HoldsItsOwn(r)'
      BY <3>1, <3>2 DEF HoldsItsOwn
    <3>8. SlotFits(r)'
      BY <2>1, <3>1, <3>2, <3>3, <3>4, <3>5 DEF SafeAt, SlotFits, IsActive, h
    <3>9. LossIsNoticed(r)'
      BY <2>1, <3>1, <3>2, <3>4, <3>6 DEF SafeAt, LossIsNoticed, IsCancelling, IsTerminal, h
    <3>10. IsWatched(r)'
      BY <2>1 DEF SafeAt, IsWatched
    <3> QED BY <3>7, <3>8, <3>9, <3>10 DEF SafeAt
  <2>8. CASE ~ Holding(r)
    BY <2>1, <2>8, IdleIsSafe DEF Holding
  <2> QED BY <2>6, <2>7, <2>8
<1> QED BY <1>2, <1>3, <1>4

LEMMA WorkerInvStep ==
  ASSUME TypeOK, TypeOK', WorkerInv, [WNext]_wvars PROVE WorkerInv'
<1>1. WTypeOK'
  BY WorkerTypeStep DEF WorkerInv
<1>2. AllSafe'
  BY LoopSafe, ExecutionSafe, ControlSafe, EnvironmentSafe DEF WNext
<1> QED BY <1>1, <1>2 DEF WorkerInv, AllSafe

LEMMA WorkerInvInit == WInit => WorkerInv
<1> SUFFICES ASSUME WInit PROVE WorkerInv
  OBVIOUS
<1>1. \A r \in Runtimes : proc[r] = NoProcess
  BY DEF WInit
<1>2. NoProcess \in Process /\ NoProcess.pc = "down"
  BY DEF NoProcess, Process, Places
<1>3. WTypeOK
  BY <1>1, <1>2, WorkerAssumption DEF WInit, WTypeOK
<1>4. \A r \in Runtimes : SafeAt(r)
  BY <1>1, <1>2 DEF SafeAt, HoldsItsOwn, SlotFits, LossIsNoticed, IsWatched, Holding, Executing,
                    InExecution, Loaded
<1> QED BY <1>3, <1>4 DEF WorkerInv

LEMMA WorkerInvCorrect == WSpec => []WorkerInv
<1>1. WSpec => []TypeOK
  BY WorkersImplementScheduler, TypeCorrect, PTL
<1>2. TypeOK /\ TypeOK' /\ WorkerInv /\ [WNext]_wvars => WorkerInv'
  BY WorkerInvStep
<1> QED BY <1>1, <1>2, WorkerInvInit, PTL DEF WSpec

(* The variables of the worker processes stay in their domains.            *)
THEOREM WorkerTypeCorrect == WSpec => []WTypeOK
<1>1. WorkerInv => WTypeOK
  BY DEF WorkerInv
<1> QED BY <1>1, WorkerInvCorrect, PTL

(* While the attempt a worker holds is under way, the worker's row names   *)
(* it with the status that goes with it: completion, unload and reclaim    *)
(* find the slot they have to release, whatever the other coroutines and   *)
(* workers do in between.                                                  *)
THEOREM SlotNamesHeldAttemptCorrect == WSpec => []SlotNamesHeldAttempt
<1>1. WorkerInv => SlotNamesHeldAttempt
  BY SafeProperties DEF WorkerInv
<1> QED BY <1>1, WorkerInvCorrect, PTL

(* A worker that still runs an attempt that has ended is being cancelled,  *)
(* or lost its lease, or a call of it that ended the attempt raised; and   *)
(* its heartbeat, which finds the lease gone, runs or has told it so.      *)
THEOREM LostAttemptIsNoticedCorrect == WSpec => []LostAttemptIsNoticed
<1>1. WorkerInv => LostAttemptIsNoticed
  BY SafeProperties DEF WorkerInv
<1> QED BY <1>1, WorkerInvCorrect, PTL
=============================================================================
