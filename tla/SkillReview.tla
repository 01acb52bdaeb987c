----------------------------- MODULE SkillReview -----------------------------
(***************************************************************************)
(* Background reviews of the conversations of a thread                     *)
(* (src/lib/skill_review.py, src/middlewares/skill_review_middleware.py),  *)
(* on top of SkillStore.                                                   *)
(*                                                                         *)
(* A manager is the SkillReviewManager of one process; the store of its    *)
(* current review, and the thread in which that store works, carry its     *)
(* name.  The managers of one project share the lock skill-review.lock.    *)
(* A position is the last message of a finished agent run.                 *)
(***************************************************************************)
EXTENDS SkillStore, Sequences

CONSTANTS
    Interval,       \* tool rounds between two reviews
    MaxTurns,       \* SKILL_REVIEW_MAX_TURNS
    MaxPositions    \* bound: agent runs

Managers  == Background
Positions == 1 .. MaxPositions

ASSUME ReviewAssumption ==
    /\ Interval \in Nat \ {0}
    /\ MaxTurns \in Nat \ {0}
    /\ MaxPositions \in Nat

VARIABLES
    rounds,         \* skill_review_rounds, counted up to Interval
    lastSubmitted,  \* skill_review_last_submitted
    accepted,       \* SkillReviewManager._submitted
    queue,          \* SkillReviewManager._queue
    worker,         \* where the task of _run stands
    current,        \* the position under review, 0 if none
    turns,          \* the review's turns
    phase,          \* "open", "closing", "closed"
    reviewHolder,   \* the manager that holds skill-review.lock, or "none"
    outcome         \* history: what has become of each position

reviewVars == <<rounds, lastSubmitted, accepted, queue, worker, current, turns,
                phase, reviewHolder, outcome>>
rvars == <<storeVars, reviewVars>>

Ended == {"reviewed", "failed", "cut", "dropped"}

RvTypeOK ==
    /\ SkTypeOK
    /\ rounds \in [Managers -> 0 .. Interval]
    /\ lastSubmitted \in [Managers -> 0 .. MaxPositions]
    /\ accepted \in [Managers -> SUBSET Positions]
    /\ queue \in [Managers -> Seq(Positions)]
    /\ worker \in [Managers -> {"none", "new", "locking", "thinking", "tools",
                                "done"}]
    /\ current \in [Managers -> 0 .. MaxPositions]
    /\ turns \in [Managers -> 0 .. MaxTurns]
    /\ phase \in [Managers -> {"open", "closing", "closed"}]
    /\ reviewHolder \in Managers \cup {"none"}
    /\ outcome \in [Managers -> [Positions -> {"none", "queued", "running"} \cup Ended]]

RvInit ==
    /\ SkInit
    /\ rounds = [m \in Managers |-> 0]
    /\ lastSubmitted = [m \in Managers |-> 0]
    /\ accepted = [m \in Managers |-> {}]
    /\ queue = [m \in Managers |-> <<>>]
    /\ worker = [m \in Managers |-> "none"]
    /\ current = [m \in Managers |-> 0]
    /\ turns = [m \in Managers |-> 0]
    /\ phase = [m \in Managers |-> "open"]
    /\ reviewHolder = "none"
    /\ outcome = [m \in Managers |-> [p \in Positions |-> "none"]]

Busy(m) == worker[m] \in {"locking", "thinking", "tools"}

-----------------------------------------------------------------------------
(* The agent: SkillReviewMiddleware.                                       *)

\* aafter_model: an answer with tool calls is one more round.
AfterModel(m) ==
    /\ rounds[m] < Interval
    /\ rounds' = [rounds EXCEPT ![m] = @ + 1]
    /\ UNCHANGED <<storeVars, lastSubmitted, accepted, queue, worker, current,
                   turns, phase, reviewHolder, outcome>>

\* submit: refused after close() and for a position it has accepted before.
Accepts(m, p) == phase[m] = "open" /\ p \notin accepted[m]

\* Whether submit starts a new task for the queue.
\* Mutant: a task that has ended is taken for one at work.
StartsFirstWorker(m) == worker[m] = "none"
StartsWorker(m) == worker[m] \in {"none", "done"}

\* aafter_agent, with submit: the run has ended with the message p, enough
\* rounds after the last review.  What it returns may not be saved, when the
\* process is interrupted before the checkpoint (saved = FALSE); and an old
\* position comes again when a thread is resumed.
AfterAgent(m, p, saved) ==
    /\ rounds[m] = Interval
    /\ p # lastSubmitted[m]
    /\ Accepts(m, p)
    /\ accepted' = [accepted EXCEPT ![m] = @ \cup {p}]
    /\ queue' = [queue EXCEPT ![m] = Append(@, p)]
    /\ outcome' = [outcome EXCEPT ![m][p] = "queued"]
    /\ worker' = IF StartsWorker(m) THEN [worker EXCEPT ![m] = "new"] ELSE worker
    /\ rounds' = IF saved THEN [rounds EXCEPT ![m] = 0] ELSE rounds
    /\ lastSubmitted' = IF saved THEN [lastSubmitted EXCEPT ![m] = p]
                                 ELSE lastSubmitted
    /\ UNCHANGED <<storeVars, current, turns, phase, reviewHolder>>

-----------------------------------------------------------------------------
(* The worker task: _run, and the graph of one review.                     *)

\* The loop of _run comes round: it takes the next position, or the task ends.
\* No await lies between the end of a review and this.
NextItem(m, how) ==
    /\ outcome' = [outcome EXCEPT ![m] = [p \in Positions |->
                     CASE p = current[m] -> how
                       [] p # current[m] /\ queue[m] # <<>> /\ p = Head(queue[m]) ->
                              "running"
                       [] OTHER -> @[p]]]
    /\ IF queue[m] = <<>>
       THEN /\ worker' = [worker EXCEPT ![m] = "done"]
            /\ current' = [current EXCEPT ![m] = 0]
            /\ UNCHANGED queue
       ELSE /\ worker' = [worker EXCEPT ![m] = "locking"]
            /\ current' = [current EXCEPT ![m] = Head(queue[m])]
            /\ queue' = [queue EXCEPT ![m] = Tail(@)]
    /\ turns' = [turns EXCEPT ![m] = 0]

StartTask(m) ==
    /\ worker[m] = "new"
    /\ NextItem(m, "none")
    /\ UNCHANGED <<storeVars, rounds, lastSubmitted, accepted, phase, reviewHolder>>

\* The review lock is polled; the review gets a store of its own.
TakeReviewLock(m) ==
    /\ worker[m] = "locking"
    /\ reviewHolder = "none"
    /\ reviewHolder' = m
    /\ worker' = [worker EXCEPT ![m] = "thinking"]
    /\ NewStore(m)
    /\ UNCHANGED <<rounds, lastSubmitted, accepted, queue, current, turns, phase,
                   outcome>>

\* Mutant: one turn too many.
TurnsLeftOver(m) == turns[m] <= MaxTurns
TurnsLeft(m) == turns[m] < MaxTurns

\* review, after_model: the model answers with tool calls.
AnswersWithCalls(m) ==
    /\ worker[m] = "thinking"
    /\ TurnsLeft(m)
    /\ turns' = [turns EXCEPT ![m] = @ + 1]
    /\ worker' = [worker EXCEPT ![m] = "tools"]
    /\ UNCHANGED <<storeVars, rounds, lastSubmitted, accepted, queue, current,
                   phase, reviewHolder, outcome>>

\* A step of a tool call, in the task or in a thread the task has left behind.
ToolStep(m) ==
    /\ \/ worker[m] = "tools" /\ Begin(m)
       \/ Continue(m) /\ (worker[m] = "tools" \/ pc[m] \in {"wait", "handler", "write"})
    /\ UNCHANGED reviewVars

\* after_tools: the calls of an answer have been executed.
ToolsDone(m) ==
    /\ worker[m] = "tools"
    /\ pc[m] = "idle"
    /\ TurnsLeft(m)
    /\ worker' = [worker EXCEPT ![m] = "thinking"]
    /\ UNCHANGED <<storeVars, rounds, lastSubmitted, accepted, queue, current,
                   turns, phase, reviewHolder, outcome>>

\* The finally block of _run: cancel_event is set, the lock released.
EndReview(m, how) ==
    /\ Cancel(m)
    /\ reviewHolder' = IF reviewHolder = m THEN "none" ELSE reviewHolder
    /\ NextItem(m, how)
    /\ UNCHANGED <<rounds, lastSubmitted, accepted, phase>>

\* summarize: an answer without tool calls, or the last turn is over.
ReviewEnds(m) ==
    /\ \/ worker[m] = "thinking"
       \/ worker[m] = "tools" /\ pc[m] = "idle" /\ ~TurnsLeft(m)
    /\ EndReview(m, "reviewed")

\* The lock or the model raises; _run logs it and goes on.
ReviewFails(m) ==
    /\ worker[m] \in {"locking", "thinking"}
    /\ EndReview(m, "failed")

-----------------------------------------------------------------------------
(* close().                                                                *)

\* It waits for the task, if there ever was one.
Close(m) ==
    /\ phase[m] = "open"
    /\ phase' = [phase EXCEPT ![m] = IF worker[m] = "none" THEN "closed" ELSE "closing"]
    /\ UNCHANGED <<storeVars, rounds, lastSubmitted, accepted, queue, worker,
                   current, turns, reviewHolder, outcome>>

CloseEnds(m) ==
    /\ phase[m] = "closing"
    /\ worker[m] = "done"
    /\ phase' = [phase EXCEPT ![m] = "closed"]
    /\ UNCHANGED <<storeVars, rounds, lastSubmitted, accepted, queue, worker,
                   current, turns, reviewHolder, outcome>>

\* The time is over: the task is cancelled at its await, the review is cut off,
\* and the queue is emptied.
CloseTimesOut(m) ==
    /\ phase[m] = "closing"
    /\ worker[m] # "done"
    /\ phase' = [phase EXCEPT ![m] = "closed"]
    /\ worker' = [worker EXCEPT ![m] = "done"]
    /\ current' = [current EXCEPT ![m] = 0]
    /\ queue' = [queue EXCEPT ![m] = <<>>]
    /\ outcome' = [outcome EXCEPT ![m] = [p \in Positions |->
                     CASE @[p] = "running" -> "cut"
                       [] @[p] = "queued" -> "dropped"
                       [] OTHER -> @[p]]]
    /\ IF Busy(m)
       THEN /\ Cancel(m)
            /\ reviewHolder' = IF reviewHolder = m THEN "none" ELSE reviewHolder
       ELSE UNCHANGED <<storeVars, reviewHolder>>
    /\ UNCHANGED <<rounds, lastSubmitted, accepted, turns>>

-----------------------------------------------------------------------------
ManagerNext(m) ==
    \/ AfterModel(m)
    \/ \E p \in Positions, saved \in BOOLEAN : AfterAgent(m, p, saved)
    \/ StartTask(m)
    \/ TakeReviewLock(m)
    \/ AnswersWithCalls(m)
    \/ ToolStep(m)
    \/ ToolsDone(m)
    \/ ReviewEnds(m)
    \/ ReviewFails(m)
    \/ Close(m)
    \/ CloseEnds(m)
    \/ CloseTimesOut(m)

AgentNext == \E c \in Foreground : (Begin(c) \/ Continue(c)) /\ UNCHANGED reviewVars

RvNext == \/ \E m \in Managers : ManagerNext(m)
          \/ AgentNext
          \/ Outside /\ UNCHANGED reviewVars

RvSpec == RvInit /\ [][RvNext]_rvars

-----------------------------------------------------------------------------
(* Properties.                                                             *)

\* Nothing accepted is stranded: a position waits in the queue only while a
\* task is there to take it, exactly one is under review, and a position is
\* given up only by close() (submit, _run).
AcceptedIsAccountedFor ==
    \A m \in Managers :
        /\ queue[m] # <<>> => worker[m] \notin {"none", "done"}
        /\ \A p \in Positions :
            /\ (p \in accepted[m]) <=> (outcome[m][p] # "none")
            /\ (outcome[m][p] = "queued") <=> (\E i \in DOMAIN queue[m] : queue[m][i] = p)
            /\ (outcome[m][p] = "running") <=> (Busy(m) /\ current[m] = p)
            /\ outcome[m][p] \in {"cut", "dropped"} => phase[m] = "closed"

\* After close() has returned no review goes on or begins, none is accepted,
\* and a thread that its review has left behind gets no further than the file
\* lock, also when it was waiting for it (close, cancel_event, manage).
ClosedForGood ==
    [][\A m \in Managers :
         phase[m] = "closed" =>
            /\ worker'[m] \in {"none", "done"} /\ queue'[m] = <<>>
            /\ accepted'[m] = accepted[m]
            /\ ~InsideLock(m) => ~InsideLock(m)']_rvars
=============================================================================
