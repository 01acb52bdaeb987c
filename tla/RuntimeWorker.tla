----------------------------- MODULE RuntimeWorker -----------------------------
(***************************************************************************)
(* The generic Agent Runtime processes of lib/sub_agent.py and worker.py,  *)
(* composed with the scheduler they call: every scheduler call of a worker *)
(* is an action of DagScheduler, or no change of the tables when the call  *)
(* is refused as stale.                                                    *)
(*                                                                         *)
(* A worker process runs four coroutines that interleave at every await:   *)
(* the main loop with the execution of the claim it holds, the heartbeat   *)
(* of that execution, the consumer of control messages, and the loop that  *)
(* reclaims expired leases (which the lead runs too).  A process may be    *)
(* killed at any time and started again.                                   *)
(*                                                                         *)
(* Left out: the wakeup event and the contents of task_available messages  *)
(* (hints that only hasten a claim), the mailbox of ordinary messages, the *)
(* agent's own work.                                                       *)
(***************************************************************************)
EXTENDS DagScheduler

CONSTANTS Steady,       (* workers that are never killed, interrupted or   *)
                        (* told to stop, and whose calls never raise       *)
          MaxCommands   (* bounds the shutdown commands the lead sends     *)

ASSUME WorkerAssumption == Steady \subseteq Runtimes /\ MaxCommands \in Nat

VARIABLES
  proc,      (* the process of each runtime                                *)
  commands,  (* execution_cancel messages on their way to a runtime        *)
  sent       (* number of them sent                                        *)

tables == vars
wvars  == <<tables, proc, commands, sent>>

(* Where the main loop is: "claimed" to "failing" are the steps of         *)
(* _run_claimed_execution before its finally block, "unload" that block,   *)
(* "release" the finally block of execute_claim, "exit" that of            *)
(* run_sub_agent.                                                          *)
InLoop      == {"top", "scan", "receive"}
Loaded      == {"loading", "working", "failing"}
InExecution == {"claimed", "unload"} \cup Loaded
Places      == {"down", "release", "exit"} \cup InLoop \cup InExecution

Process ==
  [pc          : Places,
   held        : Key \cup {NoKey},   (* the claim execute_claim was given   *)
   back        : {"receive", "top"}, (* where the loop goes on after it     *)
   beating     : BOOLEAN,  (* the execution heartbeat loop is running       *)
   cancelled   : BOOLEAN,  (* cancel() was called on the execution          *)
   raising     : BOOLEAN,  (* an exception leaves the execution             *)
   stopping    : BOOLEAN,  (* state.stop_requested                          *)
   cancelling  : BOOLEAN,  (* the control loop has cancelled the attempt in *)
                           (* the tables, not yet the coroutine             *)
   unheard     : BOOLEAN,  (* history: it has, but the call raised          *)
   interrupted : BOOLEAN]  (* the main task was cancelled                   *)

NoProcess == [pc |-> "down", held |-> NoKey, back |-> "top", beating |-> FALSE,
              cancelled |-> FALSE, raising |-> FALSE, stopping |-> FALSE,
              cancelling |-> FALSE, unheard |-> FALSE, interrupted |-> FALSE]

Executing(r) == proc[r].pc \in InExecution

WInit ==
  /\ Init
  /\ proc = [r \in Runtimes |-> NoProcess]
  /\ commands = {}
  /\ sent = 0

Goes(r, place) == proc' = [proc EXCEPT ![r].pc = place]
-----------------------------------------------------------------------------
(* The scheduler calls as a worker makes them: effective, or refused.  A   *)
(* call of a worker that is not steady may also raise, without effect or   *)
(* after its commit.                                                       *)

Completes(k) == CompleteExecution(k) \/ (~ IsCurrentAttempt(k) /\ UNCHANGED tables)
Fails(k)     == FailExecution(k) \/ (~ IsCurrentAttempt(k) /\ UNCHANGED tables)

CanFinish(k) ==
  /\ IsTerminal(k)
  /\ runtime[execs[k].runtime] = [status |-> "unloading", key |-> k]

Finishes(k) == FinishCardUnload(k) \/ (~ CanFinish(k) /\ UNCHANGED tables)

Raises(r, commit) == r \notin Steady /\ (commit \/ UNCHANGED tables)
-----------------------------------------------------------------------------
(* The main loop of run_sub_agent.                                         *)

Start(r) ==
  /\ proc[r].pc = "down"
  /\ RegisterRuntime(r)
  /\ Goes(r, "top")
  /\ UNCHANGED <<commands, sent>>

(* while not state.stop_requested; then a scan, if woken or 15 s after the *)
(* last one.                                                               *)
LoopTop(r) ==
  /\ proc[r].pc = "top"
  /\ \E place \in IF proc[r].stopping THEN {"exit"} ELSE {"scan", "receive"} : Goes(r, place)
  /\ UNCHANGED <<tables, commands, sent>>

TakesClaim(r, place) ==
  proc' = [proc EXCEPT ![r] = [@ EXCEPT !.pc = "claimed", !.held = runtime'[r].key,
                                        !.back = place, !.unheard = FALSE]]

ScanClaims(r) ==
  /\ proc[r].pc = "scan"
  /\ \/ (\E t \in Tasks : Claim(r, t)) /\ TakesClaim(r, "receive")
     \/ (\E t \in Tasks : ClaimWithoutCard(r, t)) /\ UNCHANGED proc
  /\ UNCHANGED <<commands, sent>>

ScanFindsNothing(r) ==
  /\ proc[r].pc = "scan"
  /\ Goes(r, "receive")
  /\ UNCHANGED <<tables, commands, sent>>

(* A call of the scan raises, the claim possibly having committed.         *)
ScanRaises(r) ==
  /\ proc[r].pc = "scan"
  /\ Raises(r, \E t \in Tasks : Claim(r, t) \/ ClaimWithoutCard(r, t))
  /\ Goes(r, "exit")
  /\ UNCHANGED <<commands, sent>>

(* A task_available message leads to a claim of whatever task is ready.    *)
(* The claim has committed when the message is acknowledged; if that       *)
(* raises, the claim is forgotten.                                         *)
Receive(r) ==
  /\ proc[r].pc = "receive"
  /\ \/ (\E t \in Tasks : Claim(r, t)) /\ TakesClaim(r, "top")
     \/ r \notin Steady /\ (\E t \in Tasks : Claim(r, t)) /\ Goes(r, "top")
     \/ (\E t \in Tasks : ClaimWithoutCard(r, t)) /\ Goes(r, "top")
     \/ Goes(r, "top") /\ UNCHANGED tables
     \/ r \notin Steady /\ Goes(r, "exit") /\ UNCHANGED tables   \* receive() raises
  /\ UNCHANGED <<commands, sent>>

(* stop_runtime, which may raise, and the end of the process.              *)
Exit(r) ==
  /\ proc[r].pc = "exit"
  /\ StopRuntime(r) \/ (r \notin Steady /\ UNCHANGED tables)
  /\ proc' = [proc EXCEPT ![r] = NoProcess]
  /\ UNCHANGED <<commands, sent>>
-----------------------------------------------------------------------------
(* The execution of a claim, _run_claimed_execution.                       *)

EntersUnload(r, raises) ==
  proc' = [proc EXCEPT ![r] = [@ EXCEPT !.pc = "unload", !.beating = FALSE, !.raising = raises]]

EntersRelease(r, raises) ==
  proc' = [proc EXCEPT ![r] = [@ EXCEPT !.pc = "release", !.beating = FALSE,
                                        !.cancelled = FALSE, !.raising = raises]]

(* mark_card_load_started writes an audit event only; then the heartbeat   *)
(* starts and the Card is loaded.                                          *)
BeginLoad(r) ==
  /\ proc[r].pc = "claimed"
  /\ \/ /\ IsCurrentAttempt(proc[r].held)
        /\ proc' = [proc EXCEPT ![r] = [@ EXCEPT !.pc = "loading", !.beating = TRUE]]
     \/ ~ IsCurrentAttempt(proc[r].held) /\ EntersRelease(r, FALSE)
     \/ r \notin Steady /\ EntersRelease(r, TRUE)
  /\ UNCHANGED <<tables, commands, sent>>

(* The Card is loaded and the attempt marked as running.                   *)
BeginWork(r) ==
  /\ proc[r].pc = "loading"
  /\ LET k == proc[r].held
     IN  \/ MarkExecutionStarted(k) /\ Goes(r, "working")
         \/ /\ ~ (IsCurrentAttempt(k) /\ execs[k].status = "claimed")
            /\ EntersUnload(r, FALSE)
            /\ UNCHANGED tables
  /\ UNCHANGED <<commands, sent>>

(* The agent has answered.  The commit may have succeeded although the     *)
(* call raises.                                                            *)
CompleteWork(r) ==
  /\ proc[r].pc = "working"
  /\ \/ Completes(proc[r].held) /\ EntersUnload(r, FALSE)
     \/ r \notin Steady /\ CompleteExecution(proc[r].held) /\ Goes(r, "failing")
  /\ UNCHANGED <<commands, sent>>

(* The Card cannot be loaded, the agent raises or runs out of rounds, or a *)
(* scheduler call raises: also mark_card_load_failed or fail_execution in  *)
(* the try block, after which the except clause calls fail_execution again.*)
WorkFails(r) ==
  /\ proc[r].pc \in {"loading", "working"}
  /\ UNCHANGED tables \/ Raises(r, FailExecution(proc[r].held))
  /\ Goes(r, "failing")
  /\ UNCHANGED <<commands, sent>>

ReportFailure(r) ==
  /\ proc[r].pc = "failing"
  /\ \/ Fails(proc[r].held) /\ EntersUnload(r, FALSE)
     \/ Raises(r, FailExecution(proc[r].held)) /\ EntersUnload(r, TRUE)
  /\ UNCHANGED <<commands, sent>>

Unload(r) ==
  /\ proc[r].pc = "unload"
  /\ \/ Finishes(proc[r].held) /\ EntersRelease(r, proc[r].raising)
     \/ Raises(r, FinishCardUnload(proc[r].held)) /\ EntersRelease(r, TRUE)
  /\ UNCHANGED <<commands, sent>>

(* The finally block of execute_claim repeats finish_card_unload.  An      *)
(* exception ends the process when the claim came from a scan; when it     *)
(* came from a message it is logged and the loop goes on.                  *)
LeavesClaim(r, raises) ==
  proc' = [proc EXCEPT ![r] =
             [@ EXCEPT !.pc = IF ~ raises THEN proc[r].back
                              ELSE IF proc[r].back = "receive" THEN "exit" ELSE "top",
                       !.held = NoKey, !.back = "top", !.raising = FALSE,
                       !.unheard = FALSE]]

Release(r) ==
  /\ proc[r].pc = "release"
  /\ \/ Finishes(proc[r].held) /\ LeavesClaim(r, proc[r].raising)
     \/ Raises(r, FinishCardUnload(proc[r].held)) /\ LeavesClaim(r, TRUE)
  /\ UNCHANGED <<commands, sent>>

(* CancelledError at the await where the execution stands: its finally     *)
(* block runs, except before the try and within the block itself.          *)
CancelArrives(r) ==
  /\ Executing(r)
  /\ proc[r].cancelled
  /\ IF proc[r].pc \in Loaded
     THEN proc' = [proc EXCEPT ![r] = [@ EXCEPT !.pc = "unload", !.beating = FALSE,
                                                !.cancelled = FALSE]]
     ELSE EntersRelease(r, FALSE)
  /\ UNCHANGED <<tables, commands, sent>>
-----------------------------------------------------------------------------
(* _execution_heartbeat_loop                                               *)

Heartbeat(r) ==
  /\ proc[r].beating
  /\ \/ RenewLease(proc[r].held) /\ UNCHANGED proc
     \/ /\ ~ IsCurrentAttempt(proc[r].held)
        /\ proc' = [proc EXCEPT ![r] = [@ EXCEPT !.beating = FALSE, !.cancelled = TRUE]]
        /\ UNCHANGED tables
  /\ UNCHANGED <<commands, sent>>
-----------------------------------------------------------------------------
(* Cancellation by the lead.                                               *)

(* shutdown_agent: the attempt is the one the runtime row names when the   *)
(* message is written.                                                     *)
Shutdown(r) ==
  /\ r \notin Steady
  /\ sent < MaxCommands
  /\ commands' = commands \cup {[to |-> r, key |-> runtime[r].key]}
  /\ sent' = sent + 1
  /\ UNCHANGED <<tables, proc>>

(* The message is acknowledged, or comes again: the process died or the    *)
(* acknowledgement raised, or retry() after a call that raised.            *)
Acknowledges(cmd) == commands' \in {commands \ {cmd}, commands}

(* _runtime_control_loop, up to the commit of cancel_execution: effective, *)
(* effective but raising, so that nothing after it is done, refused, or    *)
(* not called as the message is about another attempt.                     *)
ControlReceives(r) ==
  \E cmd \in commands :
    /\ cmd.to = r
    /\ proc[r].pc # "down"
    /\ ~ proc[r].cancelling
    /\ Acknowledges(cmd)
    /\ LET k     == proc[r].held
           match == Executing(r) /\ cmd.key \in {NoKey, k}
       IN  \/ /\ match
              /\ CancelExecution(k)
              /\ proc' = [proc EXCEPT ![r].cancelling = TRUE]
           \/ /\ match
              /\ CancelExecution(k)
              /\ proc' = [proc EXCEPT ![r].unheard = TRUE]
           \/ match /\ UNCHANGED <<tables, proc>>     \* raises without effect
           \/ /\ ~ match \/ ~ IsCurrentAttempt(k)
              /\ proc' = [proc EXCEPT ![r].stopping = TRUE]
              /\ UNCHANGED tables
    /\ UNCHANGED sent

(* Mutant: the coroutine of the cancelled attempt is left running.         *)
ControlStopsOnly(r) ==
  /\ proc[r].cancelling
  /\ proc' = [proc EXCEPT ![r] = [@ EXCEPT !.cancelling = FALSE, !.stopping = TRUE]]
  /\ UNCHANGED <<tables, commands, sent>>

(* The rest of it: whatever execution is active by then is cancelled.      *)
ControlCancels(r) ==
  /\ proc[r].cancelling
  /\ proc' = [proc EXCEPT ![r] = [@ EXCEPT !.cancelling = FALSE, !.stopping = TRUE,
                                           !.cancelled = proc[r].cancelled \/ Executing(r)]]
  /\ UNCHANGED <<tables, commands, sent>>
-----------------------------------------------------------------------------
(* Failures.                                                               *)

(* The main task is cancelled once.  In an execution the cancellation goes *)
(* to the coroutine awaited there, and execute_claim takes it for one by a *)
(* control message.                                                        *)
Interrupt(r) ==
  /\ r \notin Steady
  /\ proc[r].pc # "down"
  /\ ~ proc[r].interrupted
  /\ proc' = [proc EXCEPT ![r] =
                IF Executing(r)
                THEN [@ EXCEPT !.interrupted = TRUE, !.cancelled = TRUE]
                ELSE IF proc[r].pc = "exit"
                THEN NoProcess
                ELSE [@ EXCEPT !.interrupted = TRUE, !.pc = "exit"]]
  /\ UNCHANGED <<tables, commands, sent>>

(* The process is killed.                                                  *)
Crash(r) ==
  /\ r \notin Steady
  /\ proc[r].pc # "down"
  /\ proc' = [proc EXCEPT ![r] = NoProcess]
  /\ UNCHANGED <<tables, commands, sent>>
-----------------------------------------------------------------------------
(* What happens to the tables without a worker: publication, the passing   *)
(* of time, and the reclaim loops of the lead and of the workers.          *)
Publishes     == (\E p \in Plans : Publish(p)) /\ UNCHANGED <<proc, commands, sent>>
LeaseLapses(k) == LeaseRunsOut(k) /\ UNCHANGED <<proc, commands, sent>>
Reclaims(S)   == ReclaimLeasedTasks(S) /\ UNCHANGED <<proc, commands, sent>>

WNext ==
  \/ \E r \in Runtimes :
       \/ Start(r)
       \/ LoopTop(r)
       \/ ScanClaims(r)
       \/ ScanFindsNothing(r)
       \/ ScanRaises(r)
       \/ Receive(r)
       \/ Exit(r)
       \/ BeginLoad(r)
       \/ BeginWork(r)
       \/ CompleteWork(r)
       \/ WorkFails(r)
       \/ ReportFailure(r)
       \/ Unload(r)
       \/ Release(r)
       \/ CancelArrives(r)
       \/ Heartbeat(r)
       \/ Shutdown(r)
       \/ ControlReceives(r)
       \/ ControlCancels(r)
       \/ Interrupt(r)
       \/ Crash(r)
  \/ Publishes
  \/ \E k \in DOMAIN execs : LeaseLapses(k)
  \/ \E S \in SUBSET DOMAIN execs : Reclaims(S)

WSpec == WInit /\ [][WNext]_wvars
-----------------------------------------------------------------------------
(* Fairness.  A running process goes on (a coroutine that can continue is  *)
(* resumed, the agent answers or gives up); while the loop turns, a scan   *)
(* comes every 15 s and claims a task that stays ready; a lease nobody     *)
(* renews runs out; and a reclaim loop (every 10 s in the lead, every 20 s *)
(* in each worker) expires it.  Only the steady workers are sure to be     *)
(* started.                                                                *)
MainLoop(r) ==
  \/ LoopTop(r) \/ ScanClaims(r) \/ ScanFindsNothing(r) \/ Receive(r) \/ Exit(r)
  \/ BeginLoad(r) \/ BeginWork(r) \/ CompleteWork(r) \/ WorkFails(r) \/ ReportFailure(r)
  \/ Unload(r) \/ Release(r) \/ CancelArrives(r)

Unattended(k) == \A r \in Runtimes : ~ (proc[r].beating /\ proc[r].held = k)

Attempts == ExecIds \X (1..MaxAttempts)

Fairness ==
  /\ \A r \in Runtimes :
       /\ WF_wvars(MainLoop(r))
       /\ WF_wvars(ControlCancels(r))
       /\ SF_wvars(LoopTop(r) /\ proc'[r].pc = "scan")
       /\ SF_wvars(ScanClaims(r))
  /\ \A r \in Steady : WF_wvars(Start(r))
  /\ \A k \in Attempts :
       /\ WF_wvars(Unattended(k) /\ LeaseLapses(k))
       /\ WF_wvars(\E S \in SUBSET DOMAIN execs : k \in S /\ Reclaims(S))

FairSpec == WSpec /\ Fairness
-----------------------------------------------------------------------------
WTypeOK ==
  /\ proc \in [Runtimes -> Process]
  /\ commands \subseteq [to : Runtimes, key : Key \cup {NoKey}]
  /\ sent \in 0..MaxCommands

(* The slot of a worker goes with the attempt it holds: while the attempt  *)
(* is under way the runtime row names it, so that reclaim, completion and  *)
(* unload all find the row they have to release.                           *)
SlotNamesHeldAttempt ==
  \A r \in Runtimes :
    Executing(r) /\ IsActive(proc[r].held) =>
      /\ runtime[r].key = proc[r].held
      /\ runtime[r].status = IF execs[proc[r].held].status = "claimed" THEN "loading" ELSE "running"

(* A worker goes on with an attempt that has ended in the tables only when *)
(* its lease ran out, when the cancellation of the coroutine is on its way *)
(* or was never heard of because the call raised, or when the answer to    *)
(* its own report was lost; and whatever the reason, the cancellation is   *)
(* on its way or the heartbeat still runs, which finds the lease gone.     *)
LostAttemptIsNoticed ==
  \A r \in Runtimes :
    proc[r].pc \in Loaded /\ IsTerminal(proc[r].held) =>
      LET status == execs[proc[r].held].status
      IN  /\ proc[r].beating \/ proc[r].cancelled
          /\ \/ status = "expired"
             \/ /\ status = "cancelled"
                /\ proc[r].cancelling \/ proc[r].cancelled \/ proc[r].unheard
             \/ status \in {"completed", "failed"} /\ proc[r].pc = "failing"

(* Every attempt is closed, whatever happens to the worker that claimed it.*)
AttemptsEnd == \A k \in Attempts : IsActive(k) ~> IsTerminal(k)

(* A worker that is back in its loop while its row still shows an attempt  *)
(* in progress (the claim's acknowledgement or a report raised, or the     *)
(* execution was interrupted) gets its slot back.                          *)
SlotsReturn ==
  \A r \in Runtimes :
    LET stuck == proc[r].pc \in InLoop /\ runtime[r].status \in {"loading", "running"}
    IN  stuck ~> ~ stuck

(* The tasks t waits for, directly or through others, t among them: the    *)
(* least set that holds t and the blockers of its members.                 *)
Upstream(t) ==
  {b \in Tasks : \A S \in SUBSET Tasks :
     t \in S /\ (\A e \in deps : e[1] \in S => e[2] \in S) => b \in S}

(* With one steady worker, every published task is completed in the end,   *)
(* or it or a task it waits for, directly or through others, has failed or *)
(* was cancelled.                                                          *)
Settled(t) ==
  \/ task[t].status = "completed"
  \/ \E b \in Upstream(t) : task[b].status \in {"failed", "cancelled"}

TasksSettle == \A t \in Tasks : Published(t) ~> Settled(t)

=============================================================================
