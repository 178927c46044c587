# WeKnora: verification project

TLA+ models of the concurrent core of this repository, TLC configurations that
check them on small instances, and TLAPS proofs of their main results for every
value of the constants. File names and line numbers are the repository's;
`internal/` stands for `src/internal/`, and `service/` for
`src/internal/application/service/`.

| module | models | proofs |
|---|---|---|
| `PromptBroker` (abstract: `PromptContract`) | an agent run that waits for a person: prompts, answers, takeovers, resumption | `PromptBrokerProofs` |
| `KnowledgePipeline` | parsing one document: tasks, post-processing, enrichment counter, cancel, reparse, housekeeping | `KnowledgePipelineProofs` |
| `MultimodalFanIn` | the images of one document and the Redis counter that joins them | `MultimodalFanInProofs` |
| `QAQueue` | questions from chat platforms: queues, limits, gate and `/stop` over several instances | `QAQueueProofs` |
| `WikiIngest` | the wiki of a knowledge base: its durable queue, concurrent batches, a page they share | `WikiIngestProofs`, `WikiPageProofs` |
| `WikiTriggers` | the tasks that wake those batches: cap, retries, rechecks, follow-ups | `WikiTriggersProofs` |
| `SandboxSession` | the remote sandbox of a chat session, its renewable lock and its turn lease | `SandboxSessionProofs` |

`MC<module>.tla` with a `.cfg` per run instantiates a model for TLC. Run one with
`tlc -config MCQAQueue_imqueue.cfg MCQAQueue`, check the proofs with `tlapm
QAQueueProofs.tla`.

## 1. The system

WeKnora answers questions over documents. A Go server (`internal/`) takes
uploads, turns them into chunks, vectors, summaries, questions, a graph and wiki
pages, and runs agents that use them. Several instances share a database, Redis
and a task queue (asynq); nothing but these connects them, so every cooperation
is a sequence of separate commands with crashes, retries and stale reads in
between. That is what the models are about. Lite mode (one process, an in-process
executor instead of asynq) is the same code with one instance.

### Components that are modelled

| component | state | operations | interacts with | hard | what makes it correct |
|---|---|---|---|---|---|
| prompt broker and reaper (`internal/agent/hitl`) | one row per prompt, one saved run per message | `Await`, `Resolve`, `Consume`, `MarkExecuted`, lease renewal, sweeps, superseding | the agent engine, the approval gate, the browser, the message row | a lease that lapses under a live owner; takeovers; writes nobody confirms | one answer, one side effect, one run that drives the message; nothing stays pending |
| resuming a run (`handler/session/resume.go`, `suspended_run.go`) | the message row | wait, reopen, act on the answer, wrap up, abandon | the broker | the suspended run may still write the message | run state is kept exactly as long as it can be used |
| approval gate (`internal/agent/approval`) | none of its own | claims an answer before the tool, records it after | the broker | a claim written but not confirmed | the tool runs at most once |
| document pipeline (`knowledge_process.go`, `knowledge_post_process.go`, `extract.go`, `knowledge.go`) | the row's `parse_status` and `pending_subtasks_count`, attempts, spans, chunks | parse, post-process, summary / question / graph subtasks, cancel, reparse, dead letter | asynq, the row, the sweep | redelivery, late tasks of an old run, a counter drained by many | no slot without an owner, cancelled stays cancelled, a row always settles |
| housekeeping (`knowledge_housekeeping.go`) | none of its own | promote drained rows, fail stuck ones | the row, the queue, spans | what it read is stale when it writes | it helps, and never hurts a live run |
| image fan-in (`image_multimodal.go`, `multimodal_pending_counter.go`) | one Redis counter per document | seed, enqueue, count, release, hand over | the parse, post-process | any image may be last, the release too; the key is shared by all runs | exactly one hands over, after the last image |
| chat-platform queue (`im/qaqueue.go`, the worker and `/stop` in `im/service.go`) | a queue and an in-flight map per instance; counters, gate and marker in Redis | enqueue, work, wait, discard, stop, shut down | Redis, the answer pipeline | a slot is given back on nine paths; keys expire; `/stop` races the worker | counters equal what is owed, limits hold, accepted questions end |
| wiki ingest (`service/wiki_ingest.go`, `wiki_ingest_batch.go`, `repository/task_queue.go`, `service/knowledge_delete.go`) | rows of `task_pending_ops`, the pages, a lock per slug | queue, claim, map, rewrite pages, drain, trim, put back, dead letter; scrub by reparse, cancel, delete; withdraw | the document's row and counter, asynq, Redis | batches in parallel, a delete under a batch, a lock that lapses | one batch per document, no text lost, no deleted document back on a page, the slot released |
| wiki triggers (`wiki_ingest.go`, `wiki_ingest_followup.go`) | named tasks, slots of the cap, follow-up reservations | reserve a slot, turn away, recheck, reserve and enqueue follow-ups, probe, re-arm | asynq, Redis, housekeeping | a task cannot enqueue its own name; crashes leave slots and claims | rows always have a task that will look at them; the caps hold |
| session sandbox (`internal/sandbox`, `service/session.go`) with the token lock (`common/redislock`) | a binding and a turn lease in Redis, the provider's sandboxes, the session's row | resolve (connect, rebuild, adopt, create), delete, invalidate, begin and end of a turn | the provider, Redis, background jobs, configuration | a lock lost in the middle, replies lost, a rebuild under a running turn | one sandbox per session, none replaced in use, none left behind |

### Components that are not

Planned ones first; the plan's order is in section 3. `PROJECT.json` lists all of
them with their files.

| component | state and operations | hard | property to state |
|---|---|---|---|
| model limiter (`models/limiter`) | a sorted set of leases, local semaphores | fails open; a heartbeat that stops | live holders never exceed the limit unless Redis failed; crashed leases are reclaimed |
| session busy gate, fork, rewind | an in-process map, a rewind lock beside the turn lease | two layers of exclusion | a rewind never runs with a send |
| sandbox admission, allocation, collection (user machines) | leases, assignments, a collector's cursor | collecting what a session is about to use | no live session loses its machine; no orphan stays |
| automation scheduler | due rows, runs, leases | claims by several instances, overlap policy, runs awaiting a prompt | one run per due time; an abandoned run settles |
| agent collaboration | child runs, limits, continuations | recovery of a parent with finished children | every child's result reaches its parent once |
| shell jobs | jobs, leases, a sweeper | the job ends before it is registered | an outcome is recorded once; lost jobs are noticed |
| background work and notices | registries, an inbox, per-run rounds | a notice that arrives as the run ends | each notice is delivered or kept |
| answer streams | append-only event lists, the live run | reset, reconnect, claim of the live run | a reader sees a prefix and then the end |
| data source sync | sync runs, acknowledgements | partial ingestion, resync during a sync | what is acknowledged was ingested |
| MCP OAuth | cached tokens, a refresh lease | two refreshes with a one-time token | one refresh per expiry |
| document deletion, creation, transfer | rows, chunks, source replacement | a task of a row that is being removed | nothing writes chunks for a removed row |
| smart archive, tenant skills | resumable imports, installs and their reaper | restart in the middle | every item settles |
| task queue and recovery at start | handlers, Lite-mode executor, resets at start | | appears in the models as redelivery and archiving |

Left out for good: the agent engine's think/act loop (sequential; what it shares
with other runs is the broker), retrieval and question answering, document
parsing and text splitting, model and vector-store adapters (request-local data
transformations or external services), sandbox providers, terminal and desktop,
the browser skill, contract review, accounts and configuration, HTTP handlers and
repositories as such, clients and deployment files.

## 2. How the models are made

* One module per component; one action per atomic access to shared state, with
  the local computation up to it. A transaction, a Lua script, a body under a
  mutex or a single SQL statement is one action; a read and a write that depends
  on it are two, unless the write itself fences what was read.
* Data is reduced to what the properties tell apart. A document's chunks are the
  set of attempts that stored some; an answer is the user who gave it; a deadline
  is a BOOLEAN and its passing an action.
* Failure is explicit and bounded: crashes, lost replies, refused calls, closed
  connections. Each bound is a CONSTANT and nothing else limits the behaviours, but
  for the one CONSTRAINT of `broker_takeover` (section 4).
* Some operators are variants of another one with a plausible bug; they stand
  beside it, or at the end of the module under "Mutant" comments. No action uses
  them; `PROJECT.json` names the property each one breaks.
* No module has a RECURSIVE operator, so that theorems can be proved about all.

## 3. Plan

Done, in this order: `PromptBroker` with `PromptContract`, `KnowledgePipeline`,
`MultimodalFanIn`, `QAQueue`, `WikiIngest`, `WikiTriggers`, `SandboxSession`, each
with its proofs module.

Next:

1. The session's rewind lock and busy gate on top of `SandboxSession`'s turn
   lease; user machines (admission, allocation, collection), whose collector runs
   under the same lock.
2. `ModelLimiter`: sorted-set leases, heartbeat, fail-open. Runs: three callers,
   limit two, one crash, one Redis fault. Theorem: the limit without faults.
3. Composition: `KnowledgePipeline` over `MultimodalFanIn` (the parse ends in the
   fan-in instead of a hand-over), and its wiki slot over `WikiIngest`; overlapping
   reparses of a row.
4. `AutomationScheduler`, which composes with `PromptBroker` (a run that awaits a
   prompt, `reconcileAwaiting`); `ShellJobs`.
5. Proofs: the safety properties of the modules above; that the pipeline's accounts
   survive one reparse, with the old attempt's tasks counted apart.

## 4. Prompts that wait for a person (`PromptBroker`, `PromptContract`)

### The code

An agent run that needs a person (to approve a tool call, fill a form, answer a
question) raises a *prompt* and waits. `internal/agent/hitl/broker.go` keeps one
row per prompt (`agent_prompts`); the row is the only shared truth, and every
move of it is one compare-and-set (`agent_prompt_repository.go`, `Transition`)
fenced by status, owner token and lease. A prompt that can outlive its process
saves the state of its run first (`AgentRunSuspension`, one per assistant
message). Who takes part:

| actor | code | what it does to the row |
|---|---|---|
| the waiting run | `Broker.Await`, `suspend`, `closeAsOwner`, `closed` | creates it, renews its lease, suspends or closes it, notices that it ended or was taken over |
| the gate | `approval.Gate.consumeDecision`, `Broker.Consume`, `MarkExecuted` | claims the answer before the tool runs, records that it ran |
| the user | `Broker.Resolve` | takes over a lapsed owner's prompt, then two compare-and-sets: the suspended row, the pending row |
| the resumed run | `handler/session/resume.go` | waits until the suspended run let go of its message, reopens the message, acts on the answer, wraps up |
| the reaper | `Broker.Reap`, `SupersedeSession`, `reapPending`, `closeRun` | takes over rows whose lease lapsed or whose time is up, then completes the message and drops the run state |

### The model

`PromptBroker` models the prompts of **one assistant message**. The message is
the unit of isolation: run state is keyed by message, and no operation touches
the rows of two messages together.

| variable | code |
|---|---|
| `status`, `owner`, `kept`, `answer` | the row's `Status`, `OwnerInstance`, `Suspendable`, `Response`/`ResolvedBy` |
| `lease` | `LeaseUntil`, as "still in the future": `Lapse` is the passing of that time |
| `overdue` | `ExpiresAt` has passed |
| `snap` | the prompt whose run state the message has (`AgentRunSuspension.PromptID`), or `None` |
| `msgDone`, `msgAwaiting` | the message's `IsCompleted` and `RunState = awaiting_input` |
| `pc`, `at`, `out`, `res`, `orphan` | a run: its place in the code, the prompt it waits on or acts on, the `Outcome` of `Await`, the prompt it resumes, `Resolution.OwnerGone` |
| `job` | what a takeover (`reapPending`, `closeRun`) read before its write, and how far it got |
| `verdict` | how far a `Resolve` call is and what it told its user |
| `effects` | how often the tool an answer authorizes ran |
| `strayed` | history: a run could not show its prompt, which had been taken over by then, and went on (`EmitFails`) |

One action is one atomic access to the store or to the message, with the local
computation up to it. Reads and the writes that depend on them are separate
actions wherever the code does not fence them by the write itself: the deferred
clean-up (`LeaveWait`, `DropState`), takeovers (`Sweep`, `TakeOver`, `Hook`,
`DropTaken`) and `Resolve` (`ReadForAnswer`, `Reread`, `AnswerSuspended`,
`AnswerPending`). Every actor may stall anywhere; a lease may lapse under a live
owner. `Crash` stops a run, `CrashJanitor` a sweep.

A run shows its prompt after the row exists (`Create`, then `Emit` or `EmitFails`).
When that fails, `Await` lets `closeAsOwner` cancel the row but ignores what came of
it (broker.go:315): it returns an error, the tool fails, and the run goes on. The
timer that renews the lease starts only after that (broker.go:326), so a prompt that
took long to show may have been taken over, and even answered for a resumed run.
`strayed` records that this happened.

`MaxFaults` bounds the writes that the store fails to confirm and the message hooks
that fail (`HookFails`). A waiter that
closes its prompt then leaves with whatever it believes (`CloseUnconfirmed`).
`Consume` tries its claim again and in the end reads the row back:
`ClaimUnconfirmed` leaves the run "claimed" (the lost reply was a success) or
"unsure" (nothing was written), which the run cannot tell apart, and `Confirm`
is the retry that succeeds, the row that turns out to be its own claim
(`IsMine`) or somebody else's, or the run closing its own prompt as failed.
Attempts in between that fail again change nothing and are one state.

`PromptContract` is the promise without the mechanism: asked once, answered
once, claimed at most once, one side effect per claim.

Left out: which tools need a prompt, standing grants, the content of forms,
events to the browser. One value stands for the engine state in a snapshot.

### Runs

| run | instance | shows |
|---|---|---|
| `broker_answers` | 1 prompt, 2 runs, 2 users (one approves), 1 sweep, 1 crash, 1 fault of the store or a hook; 1,961,978 states | `EffectOnce`: the tool runs at most once and only if approved. `AcceptedIsActedOn`: two users are never both told yes. `RefinesContract`: the rows implement `PromptContract` |
| `broker_takeover` | 2 prompts, 2 runs, 1 user, 1 sweep, no crash, no fault, fair; 372,288 states | `SoleDriver`: never two runs that generate the message. `SuspendedResumable`: a suspended prompt has its own saved run. `ReapedRunsClose`, `EndedStateIsDropped`: a run that is closed for its owner completes its message and drops its state. The first three except on a message of which a run has strayed |
| `broker_live` | 1 prompt, 1 crash, fair; 38,799 states | `PendingEnds`, `AnsweredSettles`: neither a pending prompt nor an answer is left behind |

Two runs are what a takeover needs (the one that lost the prompt and the one that
resumes it); a third would repeat the second. Two users are the smallest race
between answers. Two prompts are needed only where the saved run of one prompt
may be mistaken for another's. One crash and one fault give every single point
of failure; the proofs have no bound.

A run that has strayed stays so, and three of the four properties of
`broker_takeover` promise nothing from then on: its CONSTRAINT `NobodyStrayed` stops
there. `MCPromptBroker_strayed.cfg` is the same instance without the constraint; it
passes with the same properties in 1,103,372 states and about five minutes.

*Fairness* (`Fairness`): a live goroutine goes on, a started takeover and a
`Resolve` call go on, a sweep looks at each row again (it is a ticker), and a
lease that nobody renews runs out. A lease need not lapse while its owner lives,
no user has to answer, and nobody has to crash.

### What does not hold

Five configurations beside the runs state it; TLC refutes each.

* `MCPromptBroker_undelivered.cfg` (`LoserLeaves`, no fault and no crash): a run is
  slow to show its prompt, the reaper suspends the prompt, showing it fails, and the
  run goes on (above). `Outcome.Detached` says that such a waiter must exit
  (broker.go:77). The resumed run then generates the same message beside it, and the
  one that strayed may ask again and save its state over the suspended prompt's: the
  exceptions of `SoleDriver` and `SuspendedResumable`.
* `MCPromptBroker_crashed_close.cfg` (`ReapedRunsClose` with one crash): `closeRun`
  writes the row's terminal status before it completes the message and drops the
  run state (reaper.go:226). A replica that stops in between leaves the message
  open for good, since no sweep lists terminal rows; container.go:2585 says that a
  crash never does. A hook that fails (reaper.go:238, `HookFails`) ends the same way.
  `ReapedRunsClose` and `EndedStateIsDropped` are therefore checked without crashes
  and faults only: they show that a takeover which is carried through closes the run.
* `MCPromptBroker_rejected.cfg` (`RejectedMeansClosed`): `Resolve` tries the
  suspended row, then the pending row (broker.go:621). A waiter that suspends
  between the two makes both miss, and the user is told `ErrAlreadyResolved` for a
  prompt that is still open.
* `MCPromptBroker_outcome.cfg` (`OutcomeReflectsRow`): a store that fails the
  closing write and the read after it makes a run report a timeout for a prompt
  whose row holds an answer.
* `MCPromptBroker_awaiting.cfg` (`AwaitingIsNotLive`): when the answer finds a
  lapsed lease, the resumed run does not wait for the previous one, which may
  still mark the message as awaiting input.

### Proofs

For any number of prompts, runs, users, sweeps, crashes and faults:

| theorem | states | from |
|---|---|---|
| `TypeCorrect` | `TypeOK` | `TInv`: types, and what a `Resolve` call has read (`ReadOK`) |
| `EffectOnceHolds` | `EffectOnce` | `EInv`, below |
| `AcceptedIsActedOnHolds` | `AcceptedIsActedOn` | `EInv` and `CallOK` |
| `ImplementsContract` | `RefinesContract` | `EInv` |
| `SoleDriverHolds` | `SoleDriver`, so `~strayed`, while `faults = 0` | `EInv` and `Tokens` |
| `SuspendedResumableHolds` | `SuspendedResumable`, so `~strayed`, while `faults = 0` | `SInv` |

`EffectOnce` is not inductive: a second `RunTool` would have to start
where a run is "acting" on a prompt whose effect already happened. `EInv` adds

* `ActOK`: a run whose claim was written (`Claims`: "acting", or "claimed" while
  it does not know) has a claimed row and is the only such run of that row; if
  the claim permits the tool (`Granted`), the answer approves and nothing has
  been run yet;
* `FreshOK`: the row of a run that waits, resumes or is unsure is not claimed
  while the run owns it, so a claim that the run reads back is its own;
* `PlaceOK`: a raised prompt has no row and one run that raises it; from then on
  the row exists, so `Create` cannot put a claimed row back to pending;
* `MovesOK`: a takeover moves open rows to suspended, expired or superseded, and
  answered or executing ones only to failed.

The argument: the claim is the one compare-and-set out of "answered", no step
leaves the claimed statuses or changes their answer (`RowStep`), so of all runs
only the winner of the claim comes to "acting" (`ComesStep`), and it leaves with
the effect. `FreshOK` is what the read-back needs: only the owner claims
(`ClaimStep`), and a row changes owner only into "pending" or "answered"
(`OwnerStep`).

`CallOK`: a `Resolve` call that was told its answer was recorded has no takeover of
its own under way, and its prompt carries its answer. A row that holds an answer
never returns to a status that takes one (`Legal` lists the moves of a row), so no
later call can replace it.

`ImplementsContract` shows that every step of the broker is a step of
`PromptContract` or leaves its variables alone, action by action (`StepRefines`).
`Legal` orders the phases of a prompt; a permission to run the tool begins with the
claim, is held by one run (`ActOK`), and ends with the effect or with that run.

`SoleDriver` needs that the right to generate a message is one token (`OneToken`):
one run that drives it, or one open row whose answer will start one, never both and
never two. A waiter that loses its prompt leaves the token with the row; a takeover
moves it from row to row; an answer gives it to the run it starts. `CleanRun` says
what that takes: no claim in doubt, an outcome for every run that comes back from its
wait, and a suspended row that its old owner no longer owns. `SuspendedResumable`
adds where the saved state is: that of an open prompt is the message's (`Kept`), a
state saved for no row belongs to a run about to create one or to a dead one
(`Orphans`), and only a prompt that is past is resumed or dropped (`PastOK`).

Both hypotheses of the last two are needed: with one write that is carried out but not
confirmed TLC finds two drivers, and a state dropped under a suspended prompt; so it
does without `~strayed`. That nobody has strayed is where the waiter's own prompt is
still its own when `EmitFails` lets it go on. Crashes and stalled owners are in, and
so are prompts that are taken over while they are being shown, as long as showing
them succeeds: `Notice` then finds the new owner.

## 5. Parsing a document (`KnowledgePipeline`)

### The code

`ProcessDocument` checks the row, marks it processing, opens an attempt,
converts the file, replaces the chunks, indexes them and enqueues the
post-process task. `KnowledgePostProcessService.Handle` seeds
`pending_subtasks_count`, hands the row to `finalizing` and enqueues the
subtasks; each subtask releases one slot when it ends for good
(`finalizeSubtaskDetached`, `FinalizeSubtask`), and the last one completes the
row. asynq redelivers a task whose handler failed or whose worker died, and calls
the dead-letter handler after the last retry. A user may cancel
(`CancelKnowledgeParse`) or reparse (`reparseKnowledge`) at any time; every five
minutes `runSweep` promotes drained rows and fails stuck ones.

### The model

| variable | code |
|---|---|
| `status`, `pending` | `parse_status`, `pending_subtasks_count` |
| `latest`, `open` | the newest attempt of the span tracker, the attempt whose root span is open |
| `chunks` | the attempts whose chunk rows (and vectors) are stored |
| `pc`, `tries` | every task: `<<"process", request>>`, `<<"post", attempt, copy>>`, `<<"sub", attempt, copy, slot>>`; queued, at a place of its handler, done or archived; redeliveries so far |
| `given`, `mine` | the attempt in a process task's payload (0: none), the one its handler works for |
| `todo`, `short` | a fan-out: slots it has not enqueued, slots the queue refused |
| `reparse`, `cancel` | how far a user's request is |
| `sweep` | the row the housekeeping sweep has picked, and why |

Actions follow the handlers in order: `StartProcess`, `Recheck` (three abort
checks of the same form), `MarkProcessing`, `ResolveAttempt`, `Convert`, `Wipe`,
`WriteChunks`, `Index`, `StoreIndexed`, `HandOver` with their failures
(`ConvertFails` saves the row as failed, `ConvertErrs` returns an error to the
queue, `IndexFails` removes what was stored); `StartPost`, `CompleteBare`,
`EnterFinalizing`, `EnqueueSub`, `Release`, `FinishPost`; `StartSub`, `RetrySub`,
`EndSub`; the steps of a reparse, of a cancel and of the sweep; `Crash` of a
worker and `CrashUser` of the server in the middle of a user's request. `Errs`,
`DeadLetter` and `Acked` are asynq's part: redelivery, the dead-letter callback,
and a worker that dies after its handler succeeded. Saves that write the whole
row write the whole row in the model too (`MarkProcessing` overwrites a cancel).
Removing the tasks of an old run (`Dequeue`) is best effort: nothing, the
waiting ones, or these and the ones at work.

Left out: images (section 6; a parse without them enqueues its post-process
itself), the wiki slot, a graph that is switched off in the middle, deletion,
manual knowledge and source replacement, automatic tagging, a failing
`OpenAttempt`, `summary_status`. A reparse finishes before the next begins.

### Runs

| run | instance | shows |
|---|---|---|
| `pipeline_accounts` | 3 subtasks, 2 redeliveries, 2 refused calls; 55,919 states | `SlotsOwned`: the counter is what is still owed. `CompletedIsDrained`: completed means nothing is left. `ChunksAreCurrent`: only the latest attempt's chunks. `FinalizingDrains`: enrichment ends without the sweep |
| `pipeline_settles` | 1 subtask, 1 reparse, 2 cancels, 1 crash, 1 refused call, 1 lost write; 473,856 states | `CancelledStays`: a cancel holds until a reparse, except against a parse already at work or a sweep that had picked the row. `Settles`: no row stays in flight |
| `pipeline_sweep` | 1 subtask, 1 reparse, 1 lost release | finding: `SweepPreservesWork` fails |

The first run has three subtasks so that one can be refused, one retried and one
still to be enqueued at the same time; it has no reparse, crash or lost write,
because the accounting is exact only within one run (below). The second run has
every kind of disturbance once, two cancels so that one may hit the run of the
reparse, and asks only for what the code keeps under all of them.

*Fairness*: each task's steps (`Workers`: asynq hands out queued tasks and
handlers return), the steps of a reparse or cancel once begun, and, for
`Settles` only, the sweep (a cron job). `FinalizingDrains` is checked without
the sweep's fairness. Deadlock is not checked: a settled row stays as it is.

### Findings

`pipeline_sweep`: the sweep selects rows by status, spans and queue, and promotes
them by id (knowledge_housekeeping.go:223). A reparse in between is marked
completed, and its task then finds a completed row and skips; line 206 says that
valid queued work is preserved.

Beside the runs, five configurations show where the code's comments say more
than it keeps, each refuted by TLC: `_cancel` (`CancelSticks`: the re-check
narrows but does not close the window before the full-row save), `_stale`
(`StaleNeverDrains`: the attempt is compared on entry only), `_fence`
(`FinalizingIsCurrent`: check and hand-over are two accesses), `_drains`
(`DrainsOnce`: the release commits before the acknowledgement, so a redelivered
subtask drains again), `_retries` (`RetriesKeepAttempt`: a first upload carries
no attempt, so each redelivery opens another).

### Proofs

For any number of subtasks, reparses, cancels, redeliveries, crashes and refused or
lost writes. `CancelHolds` states `CancelledStays`, an action property that needs no
invariant: each step that
writes the status is either guarded by it (`DeadLetter`, `Drain`,
`EnterFinalizing`, `FailStuck`), or belongs to a parse at work, a reparse or a
sweep that already picked the row, which the property excepts.

`PipelineTyped` states `TypeOK`, which says that the counter fits one fan-out and that
the attempts do not outrun requests and redeliveries. Neither is inductive. `PInv`
adds `AttemptInv` (the numbers opened, and those that the upload's delivery or the
reparse under way will still open, are at most the requests and the upload's
redeliveries: any other process task was given its attempt), `MineInv` (a parse that
opened an attempt has a number) and `FanInv` (what is not yet enqueued and what nobody
owns are part of one fan-out's slots).

The accounts of a row are proved for a document parsed for one request with no worker
dying (`Fresh`):

| theorem | states | while |
|---|---|---|
| `CounterIsExact` | `SlotsOwned`: the counter is what is owed | no cancel, no release or clean-up given up |
| `CompletesLast` | `CompletedIsDrained`: a completed row has no enrichment left | |
| `ChunksOfOneRun` | `ChunksAreCurrent`: the chunks are those of the latest attempt | no clean-up given up |

Each hypothesis is needed, and TLC shows it by raising one bound: a subtask that was
drained and redelivered after a crash drains again; a reparse mixes two runs; a
cancel takes counted tasks off the queue, and a release that is given up leaves the
counter too high. `pipeline_accounts` stays inside these hypotheses. The invariant
(`AInv`) follows the row: one task parses and hands over
once (`OneHandOver`), the chunks are those of the parse that got this far
(`Parsed`, `Handed`), every subtask was fanned out by that post-process and is no
longer to be enqueued (`Fanned`), and `Books`: the counter is at least what is owed, and exactly
that while nothing was lost or cancelled. The weaker half is what survives lost
releases and cancels and still keeps the promote from coming early; `Swept` says that
the sweep, which promotes by id, picks only rows with no task left. Each action of the
fan-out is shown to keep the sum of enqueued, not enqueued and unowned slots
(`EnqueueKeeps`, `EnqueueFailsKeeps`), and each release to take one from it and from
the counter (`ReleaseBooks`).

## 6. The images of a document (`MultimodalFanIn`)

### The code

A parse with images writes their number to the Redis key
`multimodal:pending:<id>`, enqueues one task per image and gives back the slots
of tasks the queue refused (`releaseUnownedMultimodalSlots`). An image that ends
for good takes one slot (`checkAndFinalizeAllImages`); whoever brings the key to
zero or below enqueues the post-process task. All attempts on a document share
the key.

### The model

| variable | code |
|---|---|
| `counter` | the key; a missing key reads as zero |
| `latest`, `runs`, `attempt`, `carries` | attempts, and whether a task's payload carries one |
| `fan`, `seeded`, `tried` | where each run of the fan-out is, `counterSeeded`, failed releases |
| `img`, `tries`, `spent` | image tasks; the ones whose next error is their last |
| `handed` | post-process tasks enqueued, by attempt |
| `owner`, `counted` | history: the run the key was last seeded for, the tasks that took a slot |

`Seed`, `EnqueueImage`, `EndFanOut`, `Release`, `HandOverRun`, `ForgetRun` are
the fan-out in its order; `DropStale`, `Process`, `Count`, `HandOver`, `Forget`
an image task; `Reparse` and `Redeliver` start another run. A Redis command that
fails has had its effect or not. The VLM call with its outcome is one step.
Left out: the recovery in knowledgebase.go that seeds the same key.

### The run

`fanin` (2 images, 2 runs, 1 redelivery, 1 refused task, 1 fault; 854,257 states)
shows `HandsOverLast` (one undisturbed run goes to post-process only after its
last image is counted or given back), `HandsOverOnce` (the release and the images
never both hand over), `FanInEnds` (the newest run whose seed is in the key
reaches post-process, or it is superseded, or its key was seeded by another run,
or it is left to the sweep: an archived task or a release given up) and
`HandOverIsDue`, the invariant behind it: until then one of the run's image tasks
is still to count or to hand over. Two images suffice: one that is last and one
that is not, one refused and one at work.

*Fairness*: the steps of each run of the fan-out and of each image task; asynq
hands out every queued task.

Three configurations beside the run are refuted: `_stale` (`StaleNeverCounts`: an
image compares its attempt before the VLM call and counts after it, against a key
the runs share), `_seed` (`SeedlessIsAbsent`: a failed seed leaves the key of an
earlier run), `_handover` (`FailedHandOverIsRetried`: the hand-over's error is
dropped where the image's own error is permanent).

### Proofs

`FanInTypeCorrect` (`TypeOK`, which the run leaves to this proof; with: attempts are
numbered in the order of the runs, the counter never exceeds the images) and
`HandsOverLastHolds`, for any number of images. `HandsOverLast` says nothing of the counter, so it is not inductive;
`FInv` says that while any slot of the undisturbed run is open the counter is the
number of open slots, nobody has seen zero, the fan-out is at a place before its
hand-over, and an image that took its slot is done.

`HandsOverOnceHolds` goes on from there with `OInv`: once no slot is open there is one
hand-over left to make, the fan-out's own or that of one image, whose task a retry may
bring back, and none once it was made (`OneLeft`); and the fan-out releases only if the
queue refused something (`Refusals`), so it never takes a last slot twice.

`HandOverIsDueAlways` states `HandOverIsDue` for any number of images, runs, retries,
crashes and Redis errors: where the first two speak of one undisturbed run, this is
what every disturbance leaves. The counter is then no longer exact, but it errs on one
side. `Due` says that it never exceeds the slots to come (`ToCome`: images not yet
counted, given up by a failed DECR or counted again): a stale run's count, a repeated
one, a lost reply and a deleted key only lower it, or set it to zero (`CounterFalls`),
and only a seed raises it, which makes the key another run's. So whichever image or release comes
last finds zero and hands over. `Expects` leaves out a run that is superseded, handed
over or left to the sweep, each for good (`GoneForGood`); `RunInv` says that a run's
tasks are enqueued after its seed and before its fan-out is over.

## 7. Questions from chat platforms (`QAQueue`)

### The code

Each instance has a bounded queue and a fixed number of workers
(`im/qaqueue.go`). In Redis, for all instances: a counter of each user's
requests, a gate that counts executing requests, and the marker a `/stop` leaves
for 30 seconds. A request takes a slot of the user counter when it arrives and
gives it back wherever it ends: too many, queue full, queue closed, removed by
`/stop`, discarded because it waited too long or its context ended, given up at
the gate, executed. Counters have a time to live; Redis errors are ignored in
favour of answering.

### The model

| variable | code |
|---|---|
| `st`, `who`, `at` | a request: where it is, its user, its instance |
| `gone` | requests whose context is cancelled |
| `queue`, `inflight`, `closed` | an instance's queue, the request `/stop` can cancel by user, `Stop` was called |
| `userCount`, `gate`, `marker` | the keys in Redis |
| `fresh` | history: requests that came after their user's last `/stop` |

`Arrive` (`redisCheckAndIncrUser`), `Refuse`, `Enqueue`, `Release` are the
caller's; `Dequeue`, `Discard`, `Wait`, `Acquire` (one attempt at the gate with
the check for the marker), `GiveUp`, `Finish`, `FreeGate`, `Leave` the worker's;
`Stop`, `ForgetStop`, `Disconnect` (a channel is stopped, its contexts end),
`Close`, `ExpireUser`, `ExpireGate`, `Crash` come from outside. Each Redis command
is a step of its own and may fail (`MaxFault`).

Left out: the single-instance mode without Redis, leader election,
deduplication, the answer itself and its delivery; the event that tells other
instances of a `/stop` (it only makes a handler return earlier).

### Runs

| run | instance | shows |
|---|---|---|
| `imqueue` | 2 instances, 2 users, 2 questions, all limits 1, 1 closed connection, 1 fault; 987,744 states | `UserSlots`: a counter is exactly what is still owed. `LimitsHold`: gate and counters bound all instances together. `QuestionsEnd`: an accepted question ends, unless its instance dies or a slot of the gate is lost |

With every limit at 1 two questions already meet each limit: a full queue, a user
over the limit, a worker that waits at the gate for the other instance. The
properties about counters speak of behaviours without faults (an expired key or a
lost reply makes the counters wrong by design); `QuestionsEnd` holds with them.

*Fairness*: each request's caller and worker steps and `Dequeue`: the handler
"must not block indefinitely" (service.go:1941), a waiting worker tries again
every 500 ms. With finitely many requests, weak fairness of a step that a worker
of the pool takes is what the pool provides.

### What does not hold

Four configurations beside the run are refuted. `_stop` (`StopSparesLater`):
`/stop` leaves its marker also when it has removed or cancelled the question it
was meant for (service.go:2193), and the worker then ends the user's next question
without a reply; the check at service.go:1951 is for a `/stop` "issued while this
request was queued". `_gate` (`GateHolds`): a context that ends between two
attempts makes the script fail, the worker goes on without a slot and gives one
back. `_heals` (`GateHeals`): failed attempts of waiting workers renew the key, so
a slot lost in a crash comes back only when nobody waits. `_tracks`
(`InflightTracks`): the in-flight map is keyed by user, so the first of two
requests to end removes the other's entry.

### Proofs

`UserSlotsHold` and `LimitsHoldAlways`, for any numbers and limits, from the
inductive invariant of `Invariance`: types; a queue holds queued requests of its
instance, none twice (`QueueInv`), so that dequeuing and `/stop` never give the
same slot back twice; an entry for `/stop` is a running request of that user
(`FlightInv`); without closed connections only requests past the gate are
cancelled (`GoneInv`), so that no attempt at the gate fails; the user counters
(`SlotInv`) and the gate (`GateInv`) equal the requests that hold a slot. Every
step either leaves these sets alone or counts the one request it moves
(`MovesKeepSlots`, `GivesBackSlots`).

`QueuesHold` states `TypeOK`, which says that a queue holds each request queued at its
instance exactly once and keeps within its capacity. "Exactly once" is `QueueInv` and
its converse `PlaceInv` (a queued request has a place); the capacity is `BoundInv`.
`/stop` takes a request out of the middle of a queue, so both need that removing
one place keeps every other.

## 8. The wiki of a knowledge base (`WikiIngest`)

### The code

Every document that reaches post-processing queues an operation for the wiki in
the durable table `task_pending_ops`; a deleted one queues a retract. A batch
(`ProcessWikiIngest`) claims whole documents (`ClaimBatch`, by `dedup_key`),
extracts their text (map), rewrites each page they touch under the lock of its
slug (reduce: the page is saved only if it is still the one that was read),
releases the wiki's slot in the documents' count of pending subtasks, deletes the
rows it carried out (`trimPendingList`) and puts failed ones back or, after the
last retry, archives them (`requeueFailedOps`). A batch that dies leaves claims
that go stale after 90 minutes. Reparse, cancel and delete scrub the document's
queued operations; a delete also takes the document off the pages itself.

### The model

| variable | code |
|---|---|
| `row`, `last` | the rows of the lane (`TaskPendingOp`): operation, attempt, fail count, claim; how many were ever written |
| `doc` | what the queue reads of a document: parse state, attempt, the progress of `cleanupWikiReferences` |
| `page` | the page the documents share: its sources (`source_refs`) and whose text, of which attempt, is on it |
| `batch` | each worker's batch: its place, claimed rows, additions and retracts, the page it read |
| `lock` | the key `wiki:slug:<kb>:<slug>` |
| `drained` | releases of the wiki's slot for the current attempt |
| `applied`, `torn`, `clobbered`, `stranded` | history: the attempt last written; the documents the three exceptions below are about |

One page stands for the slug that the documents share; pages of one document are
not contended. `SeedFinalizing`, `Reparse`, `Cancel`, `Tombstone`, `ScrubDeleted`,
`QueueRetract`, `Unlink` are the document's side; `ClaimBatch`, `MapPhase`,
`TakeSlug`, `CheckSources`, `SavePage`, `Conflict`, `DrainMapped`,
`TrimPendingList`, `RequeueFailedOps`, `EndBatch`, `Abort` a batch in its order;
`Crash`, `ClaimGoesStale`, `LockExpires`, `DrainUnclaimedAndRelease` and
`DiscardUnclaimed` (a trigger finds the wiki unusable) go on around them.

Left out: what the model extracts, merging of similar pages, the taxonomy and the
folder tree, links, the lane that finalizes the index, single-page regeneration,
Lite mode (a list in memory). A release whose commit succeeds and whose reply is lost
counts as failed in the code, is retried and drains twice; the model follows the
comment there ("a failed attempt rolled back", knowledge.go:285). A failed read of the
latest attempt makes an operation look current (knowledge_span_tracker.go:313), so one
of an older attempt would release a slot of the new run; in the model that read
succeeds. Which tasks start a batch is section 9.

### Runs

| run | instance | shows |
|---|---|---|
| `wiki_lane` | 2 documents, 2 workers, 3 rows, 1 reparse, cancel or delete, 1 fault, no retry; symmetric, 1,773,563 states | `DocAlone`: two batches never work for one document. `SlotHasRow`: who waits for the wiki has a row in the queue, unless the release of its slot was given up. `DrainedOnce`: one release per attempt. `ContributionKept`: no batch's text is lost. `NoGhost`: a deleted document does not come back |
| `wiki_ghost` | the same without a fault | finding: `DeletedStaysOff` fails |

Three rows are two documents and the operation a user's request adds. Without
retries (`MaxFails = 0`) the first failure is also the last, so a row that is put
back and one that is archived are both reached: a crash or an aborted batch
returns rows without counting. A third worker could only repeat what the second
does to the first.

Three exceptions are part of the properties, and all are in the code. `torn`: a
scrub deletes rows under the batch that claimed them, and the deferred release of
a batch whose settling failed (wiki_ingest_batch.go:526) releases rows that it
has already put back and another batch has claimed since. `clobbered`: a deletion
takes its document off the page by slug, or writes back the sources it listed,
without a look at what a batch wrote in between (knowledge_delete.go:290); and a
retract whose look-up of pages failed has only the pages of its payload. `stranded`:
`releaseSubtaskSlot` gives up after three tries or ten seconds, and its caller only
logs that the "row will be left to the housekeeping sweep" (knowledge.go:269); the
batch deletes the operation all the same, so the document waits for a slot that has no
row behind it until the sweep of section 5 ends it. A release that fails costs the
run's one fault (`FinalizeWikiSubtask`), at each of its three places: a skipped
document, a written one, one that used up its retries. A new attempt starts with a new
count and is not stranded any more. Without this exception TLC refutes `SlotHasRow`.

`RowsSettle` (every row is worked off, under `FairSpec`) is stated in the module
and not among the runs: its state space does not fit beside the fault bounds of
`wiki_lane`.

### Findings

`wiki_ghost`: `DeleteByDedupKey` (task_queue.go:551) removes rows that a running
batch has claimed. Nothing then protects the document: the retract of its deletion
is claimed by another batch and carried out before the first batch writes its
page. `ClaimBatch` says (task_queue.go:228) that a document "must never be split
across two concurrent batches", lest "a stale ingest could resurrect a retracted
doc". The batch's own check for tombstones narrows the window to its last look
before the save.

Seen while modelling, outside the model: at its end `ProcessWikiFinalize` enqueues
its successor under a task identity it still owns, which asynq coalesces with
itself; and a finalize that is redelivered after a crash finds the lock of its
predecessor and is acknowledged without doing anything.

### Proofs

`DocumentsAreNotShared`: `DocAlone` for any number of documents, workers, rows,
retries and faults. It is not inductive: a batch could claim what another one
works on. `ClaimInv` adds the types of what is claimed (`ClaimTypes`) and
`HeldIsClaimed`: what a batch holds is queued and claimed, unless its document is
torn. A batch claims only documents none of whose rows is claimed
(`ClaimStep`), so whatever it takes nobody else holds.
`WikiTyped` states `TypeOK` of the whole module.

`WikiPageProofs` goes on from `ClaimInv`, under the same constants:

* `SlotsHaveRows` (`SlotHasRow`), from `SlotInv`: a document's ingests are written one
  for each attempt, in their order (`RowsInOrder`), a retract is its last row
  (`RetractIsLast`), and a batch that holds the row of a document that waits has either
  extracted or failed it, and before it deletes rows has failed it, released its slot,
  or stranded it (`SlotInBatch`, `Finalized`). So the row that is trimmed is never the
  one a document still waits for, and a newer row never makes the batch skip the older one for good.
* `ContributionsAreKept` (`ContributionKept`), from `KeptInv`: what a batch is about to
  add comes from a document it works for and is not older than what is on the page, and it drops
  only documents on their way out (`Contributes`). With `DocAlone` nobody else writes
  for that document, and a save lands only on the page it was made from.
* `NoGhosts` (`NoGhost`), from `GhostInv`: a batch that holds a retract holds all rows of
  its document and adds nothing of it (`RetractHeld`); until the document is off the
  page with no row left, its retract is queued or was given up (`RetractPending`).

* `SlotsDrainOnce` (`DrainedOnce`), from `DrainInv`. The count alone is not inductive:
  it says nothing of the batches that hold a row and have not settled yet. For the row
  of the attempt a document waits in, `Covered` adds to what was released every batch
  that may still release it (`Pledged`), every batch whose settling failed and whose
  end puts the row back (`PutBack`), and one while another batch or a withdrawal may
  still take a row of the document (`Open`); the sum is at most one and the faults so
  far. A claim takes the open row for one pledge, a release takes a pledge for one
  release or, when the release fails, for nothing; a retry opens what it no longer
  pledges, and an aborted batch or a settling
  that fails is a fault that pays for opening the row again; so is the death of a
  batch, which leaves its row to whoever claims it once the claim is stale. `Pays` says
  so of one batch, one lemma for each action. Three facts make it go through: a batch
  that settled holds nothing but its failed ops (`BatchesSettle`); a batch that holds a
  row holds the older ones of its document, so that none of them is left behind to be
  withdrawn (`HeldWhole`); and who waits has a written row (`HasRow`). The invariant
  keeps the counted batches a finite set, so nothing is assumed of the set of workers.

The exceptions are the ones of the properties, `torn`, `clobbered` and `stranded` above;
`SlotsDrainOnce` has none.

## 9. What wakes the wiki (`WikiTriggers`)

### The code

Rows are durable; the asynq tasks that make somebody look at them are not tied to
them. A batch reserves one of `IngestMaxInflight` slots or is turned away, which
arms one shared retry; it may find every row claimed and arm a recheck for when
claims go stale; when it leaves rows behind it reserves identities for follow-ups
in Redis, enqueues them, and, where nothing could be reserved, arms one of two
probes. asynq coalesces an enqueue under a name that exists, and a name exists
until the worker of its task has acknowledged it. Housekeeping re-arms lanes that
have waited too long.

### The model

| variable | code |
|---|---|
| `row`, `claimed` | the rows of the lane and their claims |
| `task` | the tasks in asynq, by identity: `Capped`, `Recheck`, `Probe`, `ProbeNext`, housekeeping's, and unnamed ones and follow-ups |
| `inflight`, `ghosts` | the sorted set of slots: live batches, and entries of dead ones that have yet to expire |
| `reserved` | the set `wiki:followup:<kb>` |
| `lost` | history: a handler returned without the successor it needed |

What a batch does with its rows is section 8. Accesses that nothing can disturb
from outside are merged: the reservation of a slot with the start of the task, the
counts with the reservation that uses them, and the release of slot and
reservation with the acknowledgement. `Arms` is the heart: enqueuing under a name
that exists does nothing, and is a loss only if the task under that name has
already looked at the rows.

Left out: triggers that a user starts for one document, deletion of the knowledge
base, a wiki that is unusable (section 8), Lite mode, asynq's last retry, the
finalize lane. `MaxTask` bounds unnamed tasks at a time and is never reached.

### The run

`wiki_triggers` (rows of one live and one deleted document, one slot, batches of
one row, 2 faults of which at most 1 crash and 1 error; fair; 651,730 states)
shows `Armed` (rows always have a task that will look at them), `CapsHold` (the
batches at work and the follow-ups of a knowledge base stay within its cap) and
`RowsAreWorked` (the lane is emptied, again and again). One slot and batches of
one row make two rows already exceed everything: one trigger is turned away, one
row is always left for a follow-up.

*Fairness*: asynq delivers what is queued and handlers return, housekeeping runs,
slots and claims expire. Nobody restarts a server for the rows' sake, although
`RecoverPendingWikiTasks` would find them.

`MCWikiTriggers_turned_away.cfg` (`TurnedAwayDrain`) is refuted: a crashed batch
leaves its slot behind, the shared retry is turned away by it, and cannot enqueue
itself, since its own identity still exists. Housekeeping rescues documents that
wait for their wiki, not the retract of a deleted one, which stays until a restart
or the next upload; the comment of `scheduleCappedRetry` (wiki_ingest.go:1149)
says that the "turned-away rows are guaranteed to drain once a slot frees".

### Proofs

`ArmedAlways` and `TriggersTyped`, for any rows, caps, batch sizes and faults,
from `Inv`: types, `Follows` (a batch about to enqueue follow-ups has reserved
some) and `Armed`. Each step either keeps the task that looks, or leaves one it
has just armed, or says so in `lost`.

`CapsAreKept` (`CapsHold`): the slots taken stay within the cap, and each batch that
works without one came with a Redis error (`CapInv`). A follow-up keeps its
reservation as long as it exists, and an identity that waits to be enqueued belongs to no
task yet and to one batch only (`ReservedInv`); that is what keeps the set
`wiki:followup:<kb>`, and with it the follow-ups, within the cap and one.

## 10. The sandbox of a session (`SandboxSession`)

### The code

The tools of a chat run in a remote sandbox that is bound to the session in Redis
(`sandbox/session_binding_redis.go`). Everything that touches the binding runs
under a renewable lock with an owner token (`common/redislock/token_lock.go`,
`WithLock`): `Resolve` connects what is bound, rebuilds it when a newer image made
it stale, adopts a sandbox that lost its binding, or creates one
(`session_lifecycle.go`); a deletion of the session destroys it. A configuration
change only marks the binding. A chat turn keeps a lease, whose first resolve may
rebuild; background work in the sandbox forbids it.

### The model

| variable | code |
|---|---|
| `owner` | whose token the lifecycle lock holds |
| `bound`, `stale` | the binding and its mark |
| `cloud` | the provider's sandboxes of the session: coming up, live, or on whose behalf they ended |
| `cut` | history: the sandboxes whose create returned an error, until they are bound |
| `refs`, `rebuild` | the turn lease: open turns, whether one may rebuild |
| `work` | the activity registry: the sandbox with background work |
| `exists` | the session's row |
| `turn`, `op` | each turn; each request: its place in the code, its context, what it read |

Each call to Redis or to the provider is an action. A call that fails, because it was
refused or because its context ended while it was under way, may have been carried out
or not: a delete, a bind and an unbind (`Kill`, `AdoptOwned`, `Bind`, `DeleteBinding`,
`DropBinding`), and a create. The request's own context goes to the provider
(e2b_remote_client.go:683, cube_remote_client.go:745), and after an error
`createAndBind` returns without a clean-up (session_lifecycle.go:643): the sandbox
stays "starting" and may come up at any time later (`Create`, `BoxComesUp`), or never.
`FailCall` is a call that was not carried out. `Acquire`, `GiveUp`,
`RenewalFails`, `Release`, `Lapse`, `LeaseExpires` are the lock, with a lost reply
of its SET NX. A request whose lease lapsed works on until a renewal tells it, and
its calls fail from then on. `Resolve` runs from `Look` to `ConnectWinner`, a
deletion from `Look` to `DeleteRow`; `InvalidateByConfig`, `DropBoundSandbox`,
`BoxDies` and the turns go on beside them.

Left out: user machines that several sessions share (their admission and their
collector), a binding of another provider, refreshing inbound tokens (only
whether a sandbox without its binding can be adopted, `Adopts`), templates, the
store in memory, the rewind lock. `MaxBox` is enough for one creation by each
request and one sandbox from before.

### The run

`sandbox` (3 requests, 1 turn, 4 sandboxes, 1 fault; symmetric, 3,653,281 states)
shows `LockIsOwn` (only its own lapsed lease takes the lock from a request at
work), `InUseIsKept` (no rebuild destroys a sandbox that an open turn has used or
in which background work runs), `OneSandbox` (all who hold a live sandbox of the
session hold the same one, unless two locks lapsed) and `NoOrphan` (a sandbox that
lives is bound, or the holder of the lock is about to see to it, unless its create was
cut off). Three requests are needed for
`OneSandbox`: one whose lock lapses while it creates, one that binds another
sandbox, and one that is handed that one. With one fault the run covers every single
lapse. Two lapsed locks can leave a session with two sandboxes: the rollback of one
request unbinds the sandbox that others were given, and the other binds its own.

The exceptions are faults the code does not recover from. A turn lease that is
leaked (its end was refused) is renewed by every read
(session_binding_redis.go:107), the end of a turn whose lease expired takes away
that of another, and an error while the one rebuild is spent is only logged; hence
`InUseIsKept` speaks of behaviours without such faults. A refused delete or a dead
process leaves a sandbox to the next resolve, hence `NoOrphan`'s. A cancelled caller is
no fault there: it is an ordinary event, and everywhere but in one call `NoOrphan`
holds through it. The one is the create: if it is cancelled while the provider is at it,
the sandbox that comes up is nobody's, and `NoOrphan` leaves it out (`cut`). Without
that exception TLC refutes it in nine steps (`Cancel`, `Create`, `BoxComesUp`). The next
request that finds no binding lists the sandbox and adopts or deletes it; if there is
none, or another sandbox is bound first, only the provider's own limit ends it.

Beside the run: `MCSandboxSession_ends.cfg` (2 requests, fair, 441,861 states)
holds and shows that requests end (`RequestsEnd`) when handlers go on and keys
expire. `MCSandboxSession_outlives.cfg` (`DiesWithSession`) is refuted: a deletion
destroys the sandbox before it deletes the row (session.go:680); a request that
resolves in between creates another, which nobody reclaims, where the comment in
session_lifecycle.go:211 says "A per-session machine dies with its session."

### Proofs

`LockIsOwnAlways` and `SandboxTyped`, for any number of requests, turns, sandboxes
and faults. `LockIsOwn` is inductive with the types: every action under the lock
is the work of one request (`LockedWorks`), which keeps the lock or leaves with
it, the compare-and-delete frees only one's own, and a key expires under a request
at work only as `Lapse`, which records it.

The other three each follow the requests through `Resolve` and the deletion, place by
place, under the hypothesis their property states. `Base` is the types with what holds
at the start of a request (`StartedInv`, `IdleInv`).

* `NoOrphans` (`NoOrphan`): without a lapse, `HeldInv` says what the holder of the lock
  knows at each place (`Holder`: the binding is the one it read, or what it made is
  bound, or nothing is), and so that a sandbox handed out is bound. Without a failed
  call or a dead process either, `CleanInv` adds that whatever lives and is not `cut` is
  bound or the holder's, wherever the request was cancelled. What is still starting is
  `cut` (`CutInv`), and a request that adopts what it listed binds something `cut`, or
  what it made (`Tidy`).
* `InUseStays` (`InUseIsKept`), from `SteadyInv`: while the lock and the lease hold, the
  lease counts the open turns, and the one rebuild is spent before a turn is given a
  sandbox (`SpentInv`); so a request that may still replace a sandbox knows that
  nobody has used it (`Careful`).
* `OneSandboxAlways` (`OneSandbox`), from `SoleInv`, with up to one lapsed lock and any
  other faults. A request whose lock lapsed works on beside the new holder; `Sole`
  says that every sandbox that was handed out is bound, or that the rollback of
  that one request has unbound it (`Sound`), and that the new holder comes upon it,
  bound or by adoption (`Meets`), before it could create another.

## 11. What the proofs rest on, and what is only model-checked

The theorems assume what the modules' `ASSUME`s say of the constants (finite sets
of subtasks and requests, `None` outside the other sets, bounds that are natural
numbers); TLC evaluates them in every run. Fault bounds are constants, so a
theorem holds for any number of faults, except for what its statement says: the
hypotheses of the broker's and the pipeline's theorems (sections 4 and 5), and the exceptions
that are part of a property (`Undisturbed`, `strayed`, `torn`, `clobbered`, `stranded`,
`cut`, the faults named in the sandbox's properties). The runs check every one of these
properties within its hypotheses.

Only model-checked: every liveness property (`PendingEnds`, `AnsweredSettles`,
`ReapedRunsClose`, `EndedStateIsDropped`, `FinalizingDrains`, `Settles`,
`FanInEnds`, `QuestionsEnd`, `RowsAreWorked`), which TLAPS cannot prove under
fairness. What they rest on besides fairness, that the work is not lost and somebody is
there to do it, is an invariant for four of them, and a theorem: `HandOverIsDue` for
`FanInEnds`, `SlotsOwned` for `FinalizingDrains`, `Armed` for `RowsAreWorked`, the queue
part of `TypeOK` for `QuestionsEnd`. Every safety property of a passing run is also a
theorem. ENABLED, induction
over data and RECURSIVE operators are out of the prover's reach; no model needs the
latter two.
