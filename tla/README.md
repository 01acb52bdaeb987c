# graph-code: TLA+ models and proofs

graph-code is a multi-agent coding assistant. A *lead* agent splits a request
into a DAG of tasks and stores it in PostgreSQL; *Agent Runtime* worker
processes claim tasks, load an Agent Card, run an LLM agent and report; lead
and workers talk over RocketMQ through a transactional outbox. This directory
specifies the parts of that system in which the order of events decides whether
it works, checks them with TLC on small instances, and proves the central
invariants with TLAPS for instances of every size.

Paths below are relative to the repository; `dag_scheduler.py` etc. stand for
`src/lib/dag_scheduler.py`.

## 1. Inventory

### 1.1 DAG scheduler (`dag_scheduler.py`, `schema.sql`)

*State.* Tables `tasks` (status, owner, `blocked_by_count`, the current
execution id and attempt), `task_executions` (one row per attempt, with its
runtime, frozen card and lease), `agent_runtimes` (one slot per runtime),
`task_dependencies`, `agent_cards`, and the `task_available` events it enqueues.

*Operations.* `insert_dag_to_db`, `register_runtime`, `stop_runtime`,
`claim_next_available_task`, `mark_card_load_started`,
`mark_execution_started`, `renew_lease`, `complete_execution`,
`fail_execution`, `cancel_execution`, `mark_card_load_failed`,
`finish_card_unload`, `reclaim_leased_tasks`. Each is one transaction.

*Hard.* Calls about an attempt arrive late, after a reclaim or a retry;
transactions of several processes interleave under READ COMMITTED; blockers of
one task complete at the same time; a plan is published again while attempts of
it are under way; a worker that starts again registers over its own slot.

*Correct when* the rows of tasks, attempts and runtimes agree; the attempts of
an execution form a gapless history with one card; a completed task is never
reopened by a late call; a task that becomes claimable is announced; a task
never starts before its blockers completed; concurrent transactions have the
effect of whole operations.

### 1.2 Agent Runtime worker (`sub_agent.py`, `worker.py`)

*State.* The main loop's position, the claim it holds, the execution task and
its heartbeat, `stop_requested`, a pending cancellation.

*Operations.* Scan and claim (every 15 s or when an event wakes it), load, run,
report, unload; execution heartbeat; control messages; shutdown; reclaim loop.

*Hard.* Four coroutines interleave at every await; cancellation may hit any of
them; every database call may raise; the process may be killed while it holds a
claim; its lease may run out while it works.

*Correct when* every attempt ends, a slot goes with the attempt that holds it
and comes back, a lost or cancelled attempt is noticed, and published tasks
settle.

### 1.3 Message hub (`message_hub.py`)

*State.* `message_outbox`, `message_consumer_inbox`, the broker's queues, what a
consumer popped and claimed but did not settle.

*Operations.* `enqueue_outbox_event` (in the sender's transaction),
`OutboxDispatcher.dispatch_once`, `receive`, `ack`, `retry`.

*Hard.* Several dispatchers work on the same rows; a publish call that raised
may have succeeded; messages are duplicated, delivered again, delivered out of
order; a consumer may die between its inbox row and its handler.

*Correct when* rows settle and keep their final status, a handler runs once per
event, and a published event is handled, or at least leaves a trace.

### 1.4 Permission requests (`permission_middleware.py`, `message_hub.py`)

*State.* `permission_audit_log`, the middleware's cache of responses, the one
pending poll of the consumer, the tool calls that wait.

*Operations.* `create_permission_request`, `decide_permission`, the wait loop,
`receive`.

*Hard.* The tool calls of one turn wait concurrently on shared cache and poll;
responses reach the wrong waiter; the deadline races the decision; the lead may
decide twice.

*Correct when* a dangerous call runs only on an approval of that very call, a
decision reaches the call that waits for it, whoever receives it, and a wait ends
at its deadline.

### 1.5 Skill store (`skills.py`, `knowledge_tools.py`)

*State.* Skill directories under a project root and a user root, the file lock
`skills.lock`, per store a cache with the signature it was made under, the
digests of what a review has been shown, `cancel_event`.

*Operations.* `_discover`, `view`, `manage` with six actions, the tool
`skill_manage` with its question to the user; and file tools that know no lock.

*Hard.* Lookups take no lock and race the writes of other agents and processes;
a skill may change, appear or hide another between the look, the permission and
the lock; a review's thread goes on after its task was cancelled.

*Correct when* the cache never hides a change, a review overwrites only what it
has seen and only skills that agents made, and a user's skill is changed only
with the user's permission.

### 1.6 Background skill review (`skill_review.py`, its middleware)

*State.* Rounds since the last review, the positions accepted, the queue, the
task that works it off, the review lock shared by processes.

*Operations.* `submit`, `_run`, the review graph, `close(timeout)`.

*Hard.* A submission races the end of the task; `close` gives a bounded time;
cancellation reaches the task at an await, while its thread may be writing.

*Correct when* nothing accepted is stranded, and nothing goes on after `close`.

### 1.7 Memories (`memories.py`, `memory_tools.py`, `memory_saver.py`, middleware)

*State.* One file per project memory, one row per user memory, the flag
`memory_management_written` of a turn, the candidates of an extraction.

*Operations.* update, delete (tools), extraction of new memories from the final
answer of a turn.

*Hard.* `save` looks and writes under two separate locks; tool calls of one answer
and other leads run in between; an extraction works from an old list.

*Correct when* a deleted memory stays deleted and an explicit change by the user
is the last word of its turn.

### 1.8 Model calls (`context_compression_middleware.py`, `error_recovery_middleware.py`)

*State.* The stored history, the list sent to the model, the counters of an
error recovery.

*Operations.* Three stages of compression, the emergency summary, continuation
of a truncated answer, retries with a fallback model.

*Hard.* The stages cut and replace messages one after another, and the reducer
of the stored history never removes one.

*Correct when* the model is always sent each tool call next to its results, and the
fallback is asked after a real row of 529 answers.

### 1.9 Code graph (`code_graph.py` and helpers), decomposer (`skills/dag-decomposer`)

*State.* A SQLite cache of files, nodes, edges, vectors and an impact snapshot;
of the decomposer, the plan under judgement and its number of attempts.

*Operations.* refresh, search, semantic search, query, impact; `validate_dag`,
retry, insert.

*Hard.* Files change while they are read; the call that re-indexes a file is the
only one that sees what the file was before, and may die; edges of untouched
files depend on other files; vectors are committed batch by batch.

*Correct when* the index is what a rebuild would give, an impact answer forgets no
user, and exactly the plans that can be carried out are accepted.

### 1.10 Other parts

Lead tools (`lead_agent_tools.py`: `publish_dag`, `shutdown_agent`,
`approve_permission`, ...) have no state of their own. The lead process (`cli.py`)
runs the terminal loop, a reclaim loop (10 s), a dispatcher task and the worker
processes. Database pool, logging and container set-up are configuration.

### 1.11 Interactions

    lead --publish_dag--> scheduler tables --outbox--> broker --task_available--> workers
    workers --claim/report/renew--> scheduler tables <--reclaim-- lead and workers
    lead --execution_cancel--> outbox --> control consumer of a worker
    worker --permission_request--> audit table; lead --decision--> outbox --> worker
    lead --plan text--> decomposer --insert_dag_to_db--> scheduler tables
    lead turn --compressed history--> model --tool calls--> memories, skills, code graph
    end of a lead turn --> extraction of memories; --submit--> background review --> skills

Processes share the database, the broker and the files of project and user.
Inside a process everything is asyncio: code between two awaits is atomic, except
for threads (`asyncio.to_thread`), in which skills, memories and the code graph
do their work.

## 2. Modules

| module | models | extends |
|---|---|---|
| `DagScheduler` | the scheduler, one action per transaction | - |
| `TaskBoard` | what the scheduler promises: tasks and claims only | - |
| `SchedulerBoard` | the mapping from `DagScheduler` to `TaskBoard` | `DagScheduler`; INSTANCE `TaskBoard` |
| `SchedulerTxns` | the same transactions statement by statement | `DagScheduler` |
| `RuntimeWorker` | worker processes calling the scheduler | `DagScheduler` |
| `Delivery` | outbox, dispatchers, one consumer group and its inbox | - |
| `Handover` | what outbox, broker and inbox together promise a handler | - |
| `DeliveryHandover` | the mapping from `Delivery` to `Handover` | `Delivery`; INSTANCE `Handover` |
| `Permission` | concurrent waits for permission | - |
| `SkillStore` | the files of a skill and the stores that read and change them | - |
| `SkillReview` | review managers, their queue, task and close | `SkillStore` |
| `MemoryStore` | memories shared by several leads, tools and extraction | - |
| `ModelCall` | the history of a thread, compression and error recovery | - |
| `LeadTurn` | a lead's turn: `ModelCall` with `MemoryStore` | both |
| `CodeGraph` | index, snapshot and vectors of the code graph | - |
| `Decomposer` | check, retry and insertion of a plan | - |
| `DagSchedulerProofs`, `SchedulerTxnsProofs`, `RuntimeWorkerProofs`, `DeliveryProofs`, `PermissionProofs`, `SkillReviewProofs`, `LeadTurnProofs`, `GraphProofs` | theorems | the module named, TLAPS |
| `MC...` | values of the constants for TLC | the module it names |

Four compositions: `RuntimeWorker` is the worker with the scheduler (its steps
that call the database are the actions of `DagScheduler`), `SkillReview` the
managers with the store their reviews write to, `LeadTurn` the conversation with
the memories it changes, and `SchedulerTxns` the scheduler with the locks of the
database. Three levels describe the scheduler: `DagScheduler` implements
`TaskBoard`, and `SchedulerTxns` refines `DagScheduler`: its property
`Serializable` is the formula `Spec` of `DagScheduler`, under the identity
mapping of the committed rows. `Delivery` implements `Handover`. `Permission` takes from `Delivery` what a
consumer sees of its inbox: a response is given out once, and again only after
`retry()`.

Operators marked *Mutant* are no part of the specifications. Each is a plausible
mistake in the code it stands beside, put in place of the real operator to show
that a property would notice.

### 2.1 DagScheduler

`task`, `execs`, `runtime`, `deps` and `active` are the tables, reduced to the
columns that decide anything. `execs` is a function on the keys (execution id,
attempt), and a key stands for the whole claim (task, execution, attempt,
runtime), since these never change once the row exists. `announced` holds the
tasks that have a `task_available` event since they were last claimed or
published.

| action | code |
|---|---|
| `Publish` | `insert_dag_to_db` with its upserts, dependency rows and announcements |
| `RegisterRuntime`, `StopRuntime` | the methods of these names |
| `ChangeCardStatus` | activation and retirement in the card registry |
| `Claim`, `ClaimWithoutCard` | `claim_next_available_task`, where a card is found and where none is |
| `MarkExecutionStarted`, `RenewLease`, `CompleteExecution`, `FailExecution`, `CancelExecution`, `FinishCardUnload` | the methods of these names |
| `LeaseRunsOut` | time passing `lease_expires_at` |
| `ReclaimLeasedTasks` | one pass of `reclaim_leased_tasks` over any set of expired rows (the others were locked) |

Any key ever given out may be used by any call at any later time, so late,
repeated and reordered calls are all included. A refused call only writes an
audit row and stutters.

The scan of `claim_next_available_task` orders the ready tasks by shard, priority
and age. `Claim` takes any ready task: every order the code can produce is
included, and no property depends on one.

`TaskBoard` is the scheduler as its users see it. A task waits, is in progress
under a claim with a number of tries, or has ended; a claim is held, or has one
verdict (completed, lost, cancelled). `SchedulerBoard` reads both off the tables:
the holder of a task is its current attempt while it is in progress, its tries
are the attempt's number, and a claim whose row says failed or expired is lost.
Registration, starting, renewal, lapse of a lease, unloading and changes of cards
do not show on the board. `ImplementsTaskBoard` says that nothing else happens to
tasks and claims than `Post`, `Take`, `Refuse`, `Finish`, `Withdraw`, `Lose` and
`Close`: in particular, a claim is settled together with the task that is in
progress under it, once. A claim whose task was posted again may still be closed,
by itself and once (`Close`). The board says what *may* happen to a claim; that
each one *is* closed in the end is `AttemptsEnd`, a property of the workers, which
holds for plans published once and which the run `worker_republish` finds violated
when a task is posted again.

### 2.2 SchedulerTxns

A slot of `txn` is an open connection. A statement judges its WHERE clause by
what is committed when it runs, takes the rows it updates or selects for update,
and waits for rows that are taken; `SKIP LOCKED` passes over them. What a
transaction wrote stays in its slot until its `Commit...` action, which performs
the operation of `DagScheduler` on the rows it holds. `_is_current_attempt` is a
plain read with no lock, so another transaction may commit between it and the
UPDATE. `RollBack` ends any transaction at any point; it stands for errors, lost
connections and the deadlocks that PostgreSQL breaks.

With a second publication in between, the transactions are **not** serializable:
`insert_dag_to_db` may commit between the check and the UPDATE of a late
`fail_execution`, which then closes the attempt without finding its task. Nor are
they when a task is published after its blocker: if that blocker is being completed
meanwhile, `complete_execution` has read `task_dependencies` before the new row is
there, and nobody counts the blockers of the new task again. `Serializable` is
therefore stated for plans whose tasks are published once (`PublishedOnce`) and whose
tasks depend on tasks of the same plan (`PublishedAsWhole`; the decomposer lets only
such plans pass, the lead's own call of `insert_dag_to_db` is not held to it). The run
`txns_again` checks the invariants themselves, and `ImplementsTaskBoard`, under
republication: a late update that closes the attempt without its task is a `Close`
of the board. `Changes` is a change of the card registry between the statements:
nothing reads a card's status after a claim has, so one that comes before the
claim's commit is put after it.

### 2.3 RuntimeWorker

`proc[r]` is the process of a runtime; `pc` names the await the main loop stands
at. `claimed` to `failing` are the steps of `_run_claimed_execution`, `unload`
its finally block, `release` that of `execute_claim`, `exit` that of
`run_sub_agent`. The heartbeat, the control loop and the reclaim loop act beside
it. `Crash` kills the process, `Start` starts it again, `Interrupt` cancels its
main task. Every database call of a worker that is not `Steady` may raise, with
or without having committed (`Raises`): the scan, the report in the try block, the
one in the except clause, both calls of `finish_card_unload`, and in the control
loop `cancel_execution`, whose commit is then unheard of: the coroutine is not
cancelled, and the message that comes again finds the cancellation refused.
`Acknowledges` lets every control message come again. `unheard` is history: it marks
the attempt that was cancelled by such a call. `LostAttemptIsNoticed` counts it
among the ways a worker can lose its attempt unnoticed by its control loop, and
asks that the heartbeat runs on, whose next renewal finds the attempt gone.
`task_available` events only hasten a scan, which happens every 15 s anyway, so
they are left out.

`TasksSettle` says that a published task is completed, or that it, or a task it
waits for directly or through others (`Upstream`), has failed or was cancelled. The
code propagates no failure: behind a failed task the others stay pending, and
nothing in the repository says they should not.

### 2.4 Delivery

One consumer group. `queue` counts the visible copies of each event; `popped`,
`taken`, `fresh`, `done` are what consumers hold. A poll takes its whole batch at
once, as the broker's client does: taking copies one at a time would let a copy
that was given back during `receive()` appear in the same batch. `PublishRecord`
raises with or without having sent the message, and a dispatcher that dies
(`DispatcherDies`) rolls its marks back but not its messages. `Expire` ends the
invisibility of a copy whose handler still runs. `Forget` loses what a consumer
holds, while its rows in the database stay. `handlings` and `served` are history
variables.

`Handover` is the hub without copies, dispatchers and acknowledgements. The row of an
event is absent, pending, published or failed; each consumer has accepted the event,
has run its handler, has finished with it or has lost it. `DeliveryHandover` reads how
far a consumer is off its inbox row and, while that says "processing", off its memory;
a row in processing that nobody remembers is a lost event. `ImplementsHandover` says
that outbox, broker and inbox add nothing to that: an event is accepted only after it
was committed, its handler runs once for each time it is accepted, it is accepted
again only after it was given back, and what was finished or lost stays so. Delivery
is therefore at most once for a consumer that dies, whatever is published twice.

### 2.5 Permission

`call[c]` is the coroutine of a dangerous tool call in
`_wait_for_permission_decision`; `poll` and `pending` are the asyncio tasks that
poll the broker and `subscription.pending_receive`. Code between awaits is one
action, so `Resume` shows what the code does after `asyncio.wait`: it reads the
shared attribute again, which another call may have taken. Then the call ends by an
exception (`robbed`), even when the poll had nothing to hand out, and the agent's
turn ends with it (`TurnBroken`): this is how two calls that wait for one poll fare
in the present code. `DecisionIsHeard` excepts such turns and says so; what it
shows is that a decision reaches a call that waits alone, or that takes turns with
another, whichever of the two receives the response, without any failure and before
the deadline. `ClaimRaises` is an error of the database while the responses are
claimed: those already claimed are lost. The responses of a poll nobody refers to
any more go back to the broker.

### 2.6 SkillStore and SkillReview

A caller is one `SkillStore` object with its thread: of an agent (`Foreground`) or
of the review of a manager (`Background`). `pc` is `scan` while `_discover` runs
without a lock, `wait` while `manage` waits for `skills.lock`, `handler` and `write`
while it holds it. `Begin` takes the signature and scans the user's root, `EndLookup`
scans the project's root and fills the cache. Under the lock the code looks the
skill up twice: `Admit` is the taking of the lock, the look at `cancel_event` and the
check of the permission on the first lookup; `Handle` is what the handler of the
action checks on its own, second lookup. `Write`, `WriteFails` and
`DeleteFailsHalfway` are what the file system makes of it; `FileTool` is an agent's
`write_file`, which knows no lock and may come between any two of these. A digest
is modelled by what it is good for: a change of a file makes worthless every
signature and digest taken before. The SKILL.md that is put, by a file tool or by a
review, may also turn its skill off.

`UserSkillNeedsPermission` says that the user's own skill is changed only in a
foreground call for which the user was asked, or when a file tool has put a SKILL.md
between the two lookups (`turned`, history): turning the project's skill of that name
off makes the name resolve to the user's own, which the handler then writes unasked.
That exception is the code's; `BackgroundKeepsToAgentSkills` needs none, since the
handler checks a review's rights on its own lookup. `raced` (project files put by a
file tool during the write under way) and `outcome` are history too.

A manager's task is at `locking` (polling the lock between processes), `thinking`
(the review model) or `tools`. `EndReview` is the finally block of `_run` with the
next turn of its loop, between which there is no await. `CloseTimesOut` cuts the
task off but not the thread of a `manage` under way, which may still finish what
it began.

### 2.7 MemoryStore, ModelCall and LeadTurn

A tool call runs in a slot. `save` is two steps, `SaveLooksUp` and `SavePuts`, as
the code takes the lock twice; `delete` is a look and `Remove`. `known` is the list
an extraction was begun with. `changed`, `used` and `buried` are history.
`AccessFails` is a call of the database that raises without effect, `AccessRaises`
one that has committed: the tool then reports a failure and does not set
`memory_management_written`, so `changed` means that a tool changed a memory *and
said so*; the extraction may follow a change whose tool call reported an error.

Of a message there remains who it is from, how many calls an answer holds and its
identity; of the token counts, a choice at every estimate. `Snip`, `Micro`, `AutoCompact`
and `Reactive` are the stages of the pipeline. `Merge` is LangGraph's reducer of
`messages`, which is external: it replaces by id and appends, and never removes.
`LeadTurn` puts each step of a turn together with what it means for the memories:
the last answer ends the turn and may start an extraction, which is held back while
a tool call runs; a turn may be killed anywhere.

### 2.8 CodeGraph

What a text defines and uses is given by the constants `Defs` and `Uses`. `Begin`
lists the files, `ReadFile` reads one, `Refresh` is the transaction that follows,
`EmbedBatch` commits one batch of vectors, and the answers are `Search`,
`SemanticSearch`, `Query` and `Impact`. `Fail` is an exception or a death at any
point. The file lock admits one call at a time of any process, so there is one
`call`; the files and git change meanwhile. `owed` is a history variable: who used
a symbol of a file when the file was re-indexed under the present commit.
Left out: `CONTAINS` edges (queries filter them out, but the impact snapshot keeps
those that lead to a changed definition and `_impact` reads them unfiltered,
`code_graph.py:588` and 1034-1037: the code's answer may name a file or class
around the change that the model's does not, never fewer, and `ImpactIsComplete` is a
lower bound), the overview, the rank and the limit of answers, the full-text table
(triggers keep it equal to the nodes), and the expansion of embedding contexts.
`EmbeddingFails` is a failure of the provider in any batch, or on the query after the
last one.

### 2.9 Decomposer

`Enter`, `Leave`, `CycleFound` and `WalkEnds` are the depth-first walk of
`detect_cycles`, one action per call and return of `dfs`: `colour` is its table of
colours, `path` the calls under way, which is also the list the code passes down. As
steps of a state machine the recursion can be reasoned about with an invariant. Nothing
else happens during a walk (the code does not await), so the steps only spell out one
computation. Each call colours a white task and each return a grey one: it ends. The
order of the walk is left open, the code's being that of a Python set. `WalkEnds` adds
the other checks of `validate_dag`; `Judge`, `Retry`, `GiveUp` and `Save` are the loop
of `execute_with_retry` and `decompose`. The reference definition `Sound` says without
any walk that a plan can be carried out.

## 3. Runs

| run | instance | question |
|---|---|---|
| `txns_join` | 2 blockers of a third task, 2 runtimes, 2 open transactions, every call but `stop_runtime`, 1 attempt | do interleaved transactions behave as whole operations; do runtimes agree; are concurrent recounts exact; does nothing start before its blockers |
| `txns_again` | 2 tasks published twice, 1 runtime, 2 executions of 2 attempts, 2 open transactions, with `stop_runtime`, a card that comes and goes | is the attempts' history whole, do the tables agree although a publication commits inside a late call, is every readiness announced, does a completion stand, does the scheduler do nothing but what `TaskBoard` allows |
| `worker_safety` | 1 task published up to twice, 1 worker that may fail anyhow and 1 that never fails, 2 shutdown commands to either | does the slot stay with the attempt, is a lost attempt noticed |
| `worker_settle` | a chain of 3 tasks, the first of 2 attempts, the others without a card (they fail when claimed); 1 worker that never fails and 1 that may fail anyhow | do attempts end, slots return and tasks settle, also those behind a failed one |
| `delivery_crash` | 2 events, 2 consumers that may forget, batches of 2, a dispatcher | does a handler run once, does a loss leave a trace, is the promise of `Handover` kept |
| `delivery_live` | 1 event, 2 consumers, batches of 2, 2 dispatchers of which 1 may die | do rows settle for good, are published events handled |
| `permission_calls` | 2 concurrent calls, 2 polls, 2 decisions, 1 failure | does only an approved call run, is a decision heard, does a wait end |
| `skill_review` | 1 agent, 2 managers, one skill in two roots with a supporting file; 2 positions, 1 turn | the seven properties of store and review |
| `lead_turn` | 2 leads, 3 slots, 2 memories; up to 6 messages, 2 calls in an answer, 3 attempts, a threshold of 2 | deletion and explicit change of memories; calls meet their results; the fallback follows a streak |
| `graphs` | 2 files of 3 texts, 2 edits, 1 commit; every list of up to 3 tasks with up to 2 blockers each | is the index a rebuild, is impact complete; does `validate_dag` pass exactly the sound plans |

`skill_review` checks two scenes in one run: the agent and one review at the files,
in every order; and both managers with their reviews, whose tools look and edit,
while the agent is quiet. Their product is out of TLC's reach; `SkillReviewProofs`
proves the seven properties for the whole specification. `graphs` checks two
independent parts, told apart by the variable `part`, that share no state.

Two runs look for a behaviour that contradicts a document and find it.
`delivery_loss`: against `消息与log改造.md:486` (no permanent loss), a consumer dies
after it inserted its inbox row, and the redelivered copy is acknowledged as a
duplicate. `worker_republish`: against `消息与log改造.md:481` (every attempt has a
complete closure), a task is published again while a worker that never fails works
on it; `insert_dag_to_db` clears the task's current attempt, so that completion,
failure, renewal and cancellation are refused as stale, reclaim does not select the
row, and the attempt stays open for ever.

### 3.1 What else was met while modelling

These behaviours differ from what a text in the repository says or are surprising;
the models have the code's behaviour.

* Scheduler and workers. Cancelled during an execution, `execute_claim` takes the
  `CancelledError` for a cancelled execution and the worker goes on (docstring at
  `sub_agent.py:209`, code at 292-294). Reclaim makes a runtime row idle while its worker
  may still have the Card loaded (`消息与log改造.md:334`).
* Messages. Two calls that wait for one poll: the second reads `pending_receive`
  after the first has cleared it and raises "RocketMQ receive failed"
  (`message_hub.py:697-702`), which ends its turn even when the poll was empty. A
  database error ends `OutboxDispatcher.run` and nothing starts it again (`README.md:92`; `RowsSettle` assumes one dispatcher is
  spared). `decide_permission` overwrites an earlier decision.
* Model calls. The reducer never removes a message, so compression shortens no
  stored history (docstring of `context_compression_middleware.py` line 22). A
  temporary failure of the *first* call is raised (`error_recovery_middleware.py`
  308-312; backoff and fallback are for the retry after an overflow). Retries,
  fallback and continuations are asked without tools. A turn killed while its tools
  ran, and resumed (`cli.py:305`), keeps calls without results: `interrupted` marks
  these threads, and the properties except them. The tail kept by
  `reactive_compact` may begin inside the results of an answer with several calls
  (`RetryCutsOneAnswer` says how much is lost at most).
* Memories. A `save` that has looked a memory up writes it after it was deleted
  (`DeletedStaysDeleted` says that nothing else can bring one back).
* Skills. The permission is checked on one lookup and the write follows another;
  both are under the lock, but `write_file` is not (`skills.py:259-263`, 479, 509,
  554, 595, 619).
* Code graph and decomposer. The impact snapshot is dropped at any commit of git,
  also of unrelated files. `validate_dag` does not look at the order of the list, so
  an accepted plan may be refused at its insertion by the foreign key.

### 3.2 Bounds, and why they are enough

* Tasks, runtimes, executions: the invariants relate one task, its attempts, and
  the runtimes that hold them. Two runtimes give every race for a task or between
  a late call and its successor, two attempts a retry, a chain a dependent, and
  a join (three tasks) two recounts at once. For `DagScheduler` and the safety of
  `RuntimeWorker` the proofs remove these bounds.
* `MaxAttempts`: in the code 2 unless `TASK_MAX_ATTEMPTS` says otherwise
  (`dag_scheduler.py:100-102`). Two has a last and a not-last attempt.
* `Plans`: each plan is published at most once, so the set bounds the number of
  publications; two plans that share a task give a republication. In
  `worker_settle` the three tasks of the chain are published at once.
* `Slots` = 2 in `SchedulerTxns`: the isolation anomalies at stake need two
  transactions. A third could only add a longer deadlock, which `RollBack` covers.
  `Calls` splits the calls over the two runs.
* `MaxCommands` = 2 in `worker_safety`: a shutdown sent for one attempt and
  received during another, and a second one while the first is carried out. That both workers fail at once is left to the proof,
  which has no bounds.
* `MaxRetries` = 2 in `Delivery` (code: 12) has a retry and a giving up.
  `MaxMessages` = 2 has two copies of one event, or two events, in one batch.
* `MaxDecisions`, `MaxFaults`, two `Polls`: a decision that is changed, a failure
  of poll or acknowledgement, and a new poll begun while another call still
  waits for the old one. The proofs remove these bounds for the safety part.
* `Interval` = 1, `MaxTurns` = 1, `MaxPositions` = 2: every round may submit; a
  review has a last turn; a second position is queued behind the first.
* `MaxHistory` = 6 with the thresholds of the pipeline scaled down (4, 1, 3, 3 for
  50, 3, 10, 5): long enough that a list is snipped, shortened and summed up, more
  than once, and that a cut may fall between the two results of an answer. Threshold 2 and
  3 attempts (code: 3 and 5) have a streak, a broken streak and a last attempt.
* `ModelCall`'s constants and those of `MemoryStore` are independent; two memories
  are one of the project and one of the user, three slots two calls of one lead
  beside one of the other.
* `Files` = 2, three texts, `BatchSize` = 2: names that are unique, beside, local or
  ambiguous; edges that cross files; a batch that does not hold all nodes. Proofs
  remove the bounds of `CodeGraph`. Three tasks of the decomposer have every shape
  of cycle, reachable from a root and not; four are out of reach in the time of a run.

Symmetry is declared where the members of a set are used alike and only invariants
and action properties are checked: execution ids in `worker_safety` (its workers
differ), runtimes, execution ids and connections in the two runs of `SchedulerTxns`,
the two slots of one lead in `lead_turn`, events and consumers in `delivery_crash`.

Deadlock checking is off where a behaviour may really end: all events delivered,
all calls ended, all managers closed, the bound on edits or messages reached. In
the scheduler and worker models something is always possible, and it is on.

### 3.3 Fairness, and what justifies it

* `RuntimeWorker!Fairness`. A coroutine that can continue is resumed (weak, on
  the main loop and on the cancellation by the control loop). While the loop turns
  it scans at least every 15 s, and a scan that again and again could claim does
  so in the end (strong: a claim races other workers and may raise). A lease whose
  heartbeat has stopped runs out, and an expired lease is reclaimed by one of the
  loops (10 s in the lead, 20 s in a worker). Only `Steady` workers are sure to be
  started; those also never fail. No other call is assumed to succeed.
* `Delivery!DFairness`. A dispatcher that lives selects every due row and
  finishes its batch. The broker redelivers what is not acknowledged (strong,
  since a copy is visible and invisible by turns). A handler that is run again
  and again does not raise for ever (strong). Nothing is assumed of consumers
  and dispatchers outside the steady sets that would keep them alive.
* `Permission!PFairness`. Coroutines are resumed; a poll ends within its
  `await_duration`; polled again and again, the broker hands out what it has.
  The deadline is not fair: `DecisionIsHeard` does not rest on it.

## 4. Proofs

All proofs are complete; their only assumptions are the named `ASSUME`s on
constants, which TLC evaluates in every run of the module concerned.

**`DagSchedulerProofs`** (assumes `ConstantsAssumption`, `PlansAssumption`: any
finite set of tasks, any set of runtimes, cards, execution ids and plans).
`TypeOK` is inductive by itself (`TypeCorrect`). None of the three agreement
invariants is: that a late call cannot change a task needs the shape of the
attempts' history, and that a slot is released by the right attempt needs both.
`SchedulerInv`, their conjunction, is inductive together with `TypeOK`. The
argument has two layers. `ExecsStep` shows once what any step may do to
`task_executions` (rows stay, ended attempts keep their status, a new row is the
claim of a ready task); `HistoryStep`, `TasksStep` and `RuntimesStep` use it
action by action. From it follow `AttemptHistoryCorrect`, `TasksAgreeCorrect`,
`RuntimesAgreeCorrect` and the action property `CompletionIsFinalCorrect`.
`ReadyIsAnnounced` is inductive relative to `TypeOK` alone.

`UnblockedMeansDone` and `StartedAfterBlockers` hold only if no task is published
twice; the theorems assume that as `PublishedOnce`, a condition on the constant
`Plans`. They need `PublicationInv` (what has rows has been published) and each
other: a zero counter is right because blockers, once completed, stay so.

The last part of the module, `SchedulerImplementsTaskBoard`, is the refinement for
all constants: `InitBoard` maps the empty tables to the empty board and
`StepBoard` maps each action to a step of the board or to a stutter, one lemma per
action of the board. It rests on `TypeOK` and `TasksAgreeWithAttempts`, which the
theorems above make invariants. The agreement is what the steps need: an attempt
that is current is the holder of its task (`SettleStep`), and a task that waits
has tries left (`TakeStep`).

**`SchedulerTxnsProofs`** (the same assumptions; any number of connections). `TxnInv`
says of each open transaction what it knows and what it holds: the rows its
statements matched still match, those it did not match name another attempt, a claim
holds a ready task and an idle runtime (`AttemptTxn`, `ClaimTxn`, `ReclaimTxn`,
`PublishTxn`), and no row has two holders (`LocksExclusive`). It is inductive because
a commit spares the rows of the others: what a transaction knows is about rows it
holds, or cannot become false (an attempt that has lost its task never gets it back).
`TxnTypeCorrect`, `TxnAttemptHistoryCorrect`, `TxnTasksAgreeCorrect`,
`TxnRuntimesAgreeCorrect` and `TxnCompletionIsFinalCorrect` need no hypothesis: they
hold under republication, where a commit can be late and is no step of `DagScheduler`.

`SerializableCorrect` assumes `PublishedOnce` and `PublishedAsWhole` (section 2.2).
`OnceInv` adds two facts to `TxnInv`: an attempt that is not ended is the current one
of its task, so the plain read of `_is_current_attempt` is never stale when the UPDATE
runs; and the counts a completion has computed for the dependents it holds are still
those of the committed rows (`CountsExact`; two completions with a common dependent
follow one another at its row, and the later one reads after the earlier has
committed). With these each commit is one action of `DagScheduler`
(`TxnStepIsNext`), and `UnblockedMeansDone` and `StartedAfterBlockers` carry over to
the transactions. `TxnReadyIsAnnouncedCorrect` and `TxnImplementsTaskBoard` need
no hypothesis on the plans: each commit is a step of the board, a late one of an
attempt whose task was published again being a `Close`.

`BlockedCountCorrect` and `TxnBlockedCountCorrect`: `blocked_by_count` is the number
of blockers not completed. `insert_dag_to_db` stores the length of the list, so
besides the two hypotheses a task must be named once in a list
(`BlockersListedOnce`); afterwards every completion recounts, and nothing else adds or
removes a completed task.

**`RuntimeWorkerProofs`**. `WorkersImplementScheduler`: every step of the workers, of
the lead and of time is a step of `DagScheduler` or leaves the tables alone, so
`WSpec => Spec` and every theorem about the scheduler holds of the composition.
The invariant `WorkerInv` says of each worker by itself (`SafeAt`) that from its
claim to its release it holds an attempt of its own runtime (`HoldsItsOwn`), that
its row names it while it is under way and that a loss is noticed: by the
cancellation on its way, or by the heartbeat, which runs as long as the worker has not
been cancelled. The argument is
that nobody disturbs another: an operation concerns the row and the attempt of one
runtime (the lemmas `...Undisturbed`), and a worker calls it only for what it holds
(`OwnCallUndisturbed`). Only reclaim reaches other workers' attempts, and those it
expires.

**`DeliveryProofs`** (assumes `DeliveryAssumption`). `RowStatusIsFinal` rests on
`RowsFit`: a row is in the open transaction of at most one dispatcher, and only
while it is pending. `HandledOnce` rests on `ClaimsFit`: an event is claimed only by the
consumer whose inbox row it inserted, and its handler has run at most once since.
`LossLeavesTrace` needs `TraceFits`: whenever a copy is dropped (acknowledged as a
duplicate, forgotten with the consumer) another copy is on its way, or a row
"processing" stays for ever.

`DeliveryImplementsHandover` is the refinement. `HandoverInv` adds two facts to
`DeliveryInv`: what a consumer remembers agrees with its inbox rows (`HandsFit`), and
there is a copy only of a committed event (`CopiesFit`). Each step of a consumer then
moves one claim (`OneClaimMoves`) or none, and `Forget` all the consumer holds.

**`PermissionProofs`** (assumes `PermissionAssumption`: any number of calls,
polls, decisions and failures). `RunsOnlyIfApproved` is not inductive: a call
takes its answer from the cache, which other calls fill. `PermissionInv` adds
that every decision in the cache, in a batch or in a poll is one that
`decide_permission` sent for that request. `DecisionIsKeptCorrect` is the safety half
of the liveness property `DecisionIsHeard`, and is proved only: while broker and
database do not fail, a decision a call waits for can still be received, is in the
hands of a call of the turn or in the cache. Its invariant `KeptInv` adds `HandsFull`:
only a call that is storing what it received has responses in its hands, so a call
that times out or gives up drops none.

**`SkillReviewProofs`** (assumes `SkillAssumption`, `ReviewAssumption`).
`ReviewImplementsStore`, `RvSpec => SkSpec`, carries what is proved of the store
over to the managers. `StoreInv` adds to the types and `CacheMatchesDisk` that a
scan whose signature still holds has seen what is there (`LookFits`) and that a
caller that writes has passed its checks and holds the lock (`WritesAreChecked`). For
the user's skills the part of the invariant in `handler` matters: the permission was
given on what the name resolved to at `Admit`, and only a SKILL.md put since then,
which `turned` records, can make it resolve to anything else.
`AllAccounted` is the inductive form of `AcceptedIsAccountedFor`, a queue without
repetitions being its core; `ClosedForGood` follows from `Stopped`: a closed manager
has no task and its `cancel_event` is set.

**`LeadTurnProofs`** (assumes `MemoryAssumption`, `CallAssumption`,
`LeadAssumption`). `LeadImplementsMemory` and `LeadImplementsConversation`: a lead's
turn is a behaviour of `MemoryStore` whatever happens in its model calls, and one of
`ModelCall` whatever happens to the memories; what is proved of the parts holds of the
turn. A buried memory does not come back because ids are used once, and every write of
a known memory was looked up at a moment when the memory was there (`PutIsAlive`). No
extraction follows an explicit change because a turn that changed a memory has its
flag set (`ChangeIsWritten`) and a turn in extraction has not (`ExtractUnwritten`).

For the conversation, `CallInv` says that the messages of the state are numbered by
their place and that the state, unless the turn was killed while tools ran, is
`WellFormed`: each result follows its answer and each answer has all its results, but
for the last answer while its tools run. `CallsMeetTheirResultsCorrect` then needs that every list
sent is the state itself or a part of it behind notes (`DrawnFrom`), and
`RetryCutsOneAnswerCorrect` that the cut of the reactive compaction, if it falls among
results, falls among those of one answer (`ReactiveCutsOneAnswer`): two answers with
results on both sides of the cut would stand one within the results of the other.
`FallbackAfterStreakCorrect` rests on `RetryInv`, which ties `_consecutive_529_count`
to the end of the list of outcomes.

**`GraphProofs`** (assumes `GraphAssumption`, `DecomposerAssumption`). `IndexIsRebuild` is inductive with
the types: a refresh resolves every edge anew against the nodes of all files, and
what `Resolve` gives depends on an edge's fields but its target. `ImpactIsComplete`
rests on `OwedIsKept`: what is owed under the present commit is an incoming edge of
the snapshot, whoever made it.

`VerdictIsRightCorrect`: for every list of tasks and every order of the walk the verdict
agrees with `Sound`. The invariant of the walk, `WalkInv`, says that the grey tasks are
the path and each blocks the next (`Chain`), that what a black task blocks is black
(`DoneIsClosed`), and that no group of black tasks is stuck, i.e. waits for itself
(`NoneDoneIsStuck`). A task that turns black waits for no black one, since that one
would have had to wait for it to turn black; so no group becomes stuck. When a grey
task is met, the path from it on is a stuck group. `SoundMeansNoneStuck` translates
between groups of ids and `Sound`.

**Only model-checked.** The liveness properties `AttemptsEnd`, `SlotsReturn`,
`TasksSettle`, `RowsSettle`, `PublishedIsHandled`, `DecisionIsHeard` and `WaitEnds`:
fairness and ENABLED are beyond the proof system here. Every invariant and every action
property the runs check is also proved. No recursive definition is left in the models,
so nothing rests on induction over data.

Some type invariants are no property of a run: `WTypeOK`, `DTypeOK`, `PTypeOK`,
`CgTypeOK` and `TTypeOK` (proved instead: `WorkerTypeCorrect`, `DeliveryTypeCorrect`,
`PermissionTypeCorrect`, `GraphTypeCorrect`, `TxnTypeCorrect`), `SkTypeOK` (a conjunct of `RvTypeOK`), and
`MemTypeOK` and `CallTypeOK` (conjuncts of `LeadTypeOK`; both checked and proved).
`UnblockedMeansDone` and `DecisionIsKept` are proved only.

## 5. Not modelled, and why

* Audit events, timestamps, payloads, logging: nothing reads them back to decide.
* The rules that call a tool dangerous, prompts, parsing, path checks, front matter,
  ranking and limits of answers: handling of text and data.
* The tree-sitter walk that finds what a text defines and uses: a constant of
  `CodeGraph`.
* The lead's wait for its own permission requests (`cli.py:199`): it uses a consumer
  of four subscriptions shared with `check_inbox`, and acknowledges what it does not
  wait for. `Permission` has the consumer of a worker.
* The ordinary mailbox of a worker, its wakeup event and the runtime heartbeat: a
  message is text for the agent, the event a hint, and nothing reads the heartbeat.
* The terminal loop of `cli.py` and the start and termination of worker processes;
  `Start`, `Crash` and `Interrupt` of `RuntimeWorker` are what comes of them.
* Database pool, container set-up, the broker itself beyond what a consumer
  sees: configuration and external software.

## 6. Plan

Done, in the order of the plan: scheduler with its proofs, worker, delivery,
transactions, permission, task board and the refinement, skill store and review,
memories, model calls and the lead's turn, decomposer, code graph, and the proofs of
worker, delivery with its refinement, review, memories, code graph, transactions and
conversation. Left:

1. The lead's permission consumer, added to `Permission`: four subscriptions, and
   what it acknowledges and drops while it waits.
2. The worker's mailbox, if a decision is ever made to depend on a message.
