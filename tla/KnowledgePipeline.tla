-------------------------- MODULE KnowledgePipeline --------------------------
(***************************************************************************)
(* Parsing one document (a `knowledge' row): the document-process task,    *)
(* the post-process task it hands over to, the enrichment subtasks that    *)
(* one fans out and the counter they drain, and what moves the same row    *)
(* from outside: a user's cancel, a user's reparse, the housekeeping sweep *)
(* and the dead-letter callback.                                           *)
(*                                                                         *)
(* A task is queued, worked on and acknowledged; asynq redelivers it when  *)
(* its handler fails or its worker dies, up to MaxRetry times.  Every read *)
(* and every write of the row is a step.  Reads that directly follow one   *)
(* another are one step when they only decide between going on and leaving *)
(* the row alone: `latest' only grows, so the later read implies the       *)
(* earlier.  Images (MultimodalFanIn) are left out here: a parse without   *)
(* them enqueues its post-process itself.                                  *)
(***************************************************************************)
EXTENDS Naturals, FiniteSets

CONSTANTS Slot,           \* enrichment subtasks of one fan-out
          MaxReparse,     \* bound on reparse requests
          MaxCancel,      \* bound on cancel requests
          MaxRetry,       \* redeliveries of a task
          MaxCrash,       \* bound on worker crashes
          MaxRefused,     \* bound on calls the queue or the store refuses
          MaxLost         \* bound on writes given up for good: a slot release, a clean-up

ASSUME PipelineAssumption ==
    /\ IsFiniteSet(Slot)
    /\ {MaxReparse, MaxCancel, MaxRetry, MaxCrash, MaxRefused, MaxLost} \subseteq Nat

Request == 1..(1 + MaxReparse)             \* the upload, then each reparse
Attempt == 1..(1 + MaxReparse + MaxRetry)  \* numbers OpenAttempt can hand out
Copy    == 1..(1 + MaxRetry)               \* post-process tasks of one attempt

ProcessTask == {<<"process", n>> : n \in Request}
PostTask    == {<<"post", a, k>> : a \in Attempt, k \in Copy}
SubTask     == {<<"sub", p[2], p[3], s>> : p \in PostTask, s \in Slot}
Task        == ProcessTask \cup PostTask \cup SubTask

VARIABLES status, pending,       \* parse_status, pending_subtasks_count
          latest, open,          \* newest attempt, and the one whose root span is open
          chunks,                \* attempts whose chunk rows are stored
          pc, tries,             \* the tasks
          given, mine,           \* attempt in a process task's payload, in its context
          todo, short,           \* a post-process: slots not yet enqueued, not owned
          reparse, request,      \* the reparse under way, requests so far
          cancel, cancels,       \* the cancel under way, cancels so far
          sweep,                 \* the row the sweep has picked
          crashes, refused, lost

row   == <<status, pending>>
spans == <<latest, open>>
fan   == <<todo, short>>
user  == <<reparse, request, cancel, cancels>>
used  == <<crashes, refused, lost>>
vars  == <<row, spans, chunks, pc, tries, given, mine, fan, user, sweep, used>>

Status   == {"pending", "processing", "finalizing", "completed", "failed", "cancelled"}
InFlight == {"pending", "processing", "finalizing"}
Aborted  == status = "cancelled"

Live(t)    == pc[t] \notin {"none", "done", "archived"}
Working(t) == Live(t) /\ pc[t] # "queued"

\* attemptSuperseded: 0 is a payload without attempt, never superseded.
Superseded(a) == a > 0 /\ latest > a

Goto(t, l) == pc' = [pc EXCEPT ![t] = l]

\* OpenAttempt: the next number; earlier root spans are closed.
OpenAttempt ==
    /\ latest' = latest + 1
    /\ open' = latest + 1

\* FinalizeAttempt, AbortAttempt.
CloseAttempt(a) == open' = IF open = a THEN 0 ELSE open

Init ==
    /\ status = "pending" /\ pending = 0
    /\ latest = 0 /\ open = 0
    /\ chunks = {}
    /\ pc = [t \in Task |-> IF t = <<"process", 1>> THEN "queued" ELSE "none"]
    /\ tries = [t \in Task |-> 0]
    /\ given = [t \in ProcessTask |-> 0]   \* CreateKnowledge* send no attempt
    /\ mine = [t \in ProcessTask |-> 0]
    /\ todo = [p \in PostTask |-> {}]
    /\ short = [p \in PostTask |-> 0]
    /\ reparse = "idle" /\ request = 1
    /\ cancel = "idle" /\ cancels = 0
    /\ sweep = "idle"
    /\ crashes = 0 /\ refused = 0 /\ lost = 0

-----------------------------------------------------------------------------
(* Delivery.                                                               *)

Requeued(t) ==
    /\ pc' = [pc EXCEPT ![t] = "queued"]
    /\ tries' = [tries EXCEPT ![t] = @ + 1]

\* A handler that returned nil: acknowledged, or its worker died before that.
Acked(t) ==
    \/ Goto(t, "done") /\ UNCHANGED <<tries, crashes>>
    \/ /\ crashes < MaxCrash /\ tries[t] < MaxRetry
       /\ crashes' = crashes + 1
       /\ Requeued(t)

\* The dead-letter callback fails the row of a task that is out of retries.
DeadLetter(a) ==
    status' = IF status \in InFlight /\ ~Superseded(a) THEN "failed" ELSE status

\* A handler that returned an error.
Errs(t, a) ==
    \/ tries[t] < MaxRetry /\ Requeued(t) /\ UNCHANGED <<status, open>>
    \/ /\ tries[t] >= MaxRetry
       /\ Goto(t, "done") /\ UNCHANGED tries
       /\ DeadLetter(a)
       /\ IF status' # status THEN CloseAttempt(a) ELSE UNCHANGED open

\* The worker dies; asynq's recoverer redelivers the task or archives it.
Crash(t) ==
    /\ Working(t) /\ crashes < MaxCrash
    /\ crashes' = crashes + 1
    /\ IF tries[t] < MaxRetry THEN Requeued(t) ELSE Goto(t, "archived") /\ UNCHANGED tries
    /\ todo' = [p \in PostTask |-> IF p = t THEN {} ELSE todo[p]]
    /\ short' = [p \in PostTask |-> IF p = t THEN 0 ELSE short[p]]
    /\ UNCHANGED <<row, spans, chunks, given, mine, user, sweep, refused, lost>>

-----------------------------------------------------------------------------
(* ProcessDocument.                                                        *)

\* A failed row is parsed again, and so is one in any other state.
StartProcess(t) ==
    /\ pc[t] = "queued"
    /\ Goto(t, IF Superseded(given[t]) \/ status \in {"cancelled", "completed"}
               THEN "done" ELSE "read")
    /\ UNCHANGED <<row, spans, chunks, tries, given, mine, fan, user, sweep, used>>

\* The aborted checks: before it marks the row, stores chunks, indexes them.
Recheck(t) ==
    /\ \E hop \in {<<"read", "clear">>, <<"wiped", "writing">>, <<"written", "indexing">>} :
          /\ pc[t] = hop[1]
          /\ Goto(t, IF Aborted THEN "done" ELSE hop[2])
    /\ UNCHANGED <<row, spans, chunks, tries, given, mine, fan, user, sweep, used>>

\* A full-row save.
MarkProcessing(t) ==
    /\ pc[t] = "clear"
    /\ status' = "processing"
    /\ Goto(t, "marked")
    /\ UNCHANGED <<pending, spans, chunks, tries, given, mine, fan, user, sweep, used>>

ResolveAttempt(t) ==
    /\ pc[t] = "marked"
    /\ IF given[t] > 0 THEN UNCHANGED spans ELSE OpenAttempt
    /\ mine' = [mine EXCEPT ![t] = IF given[t] > 0 THEN given[t] ELSE latest + 1]
    /\ Goto(t, "opened")
    /\ UNCHANGED <<row, chunks, tries, given, fan, user, sweep, used>>

\* A permanent failure, or the last try of a passing one, saves the row.
ConvertFails(t) ==
    /\ pc[t] \in {"read", "opened", "writing"}
    /\ status' = "failed"
    /\ Goto(t, "done")
    /\ UNCHANGED <<pending, spans, chunks, tries, given, mine, fan, user, sweep, used>>

\* A passing failure: the error goes to the queue.
ConvertErrs(t) ==
    /\ pc[t] \in {"read", "clear", "opened", "wiped", "written", "indexing"}
    /\ Errs(t, given[t])
    /\ UNCHANGED <<pending, latest, chunks, given, mine, fan, user, sweep, used>>

Convert(t) ==
    /\ pc[t] = "opened"
    /\ Goto(t, IF Aborted \/ Superseded(mine[t]) THEN "done" ELSE "wiping")
    /\ UNCHANGED <<row, spans, chunks, tries, given, mine, fan, user, sweep, used>>

\* Mutant: the rows of an earlier run stay.
WipeNothing(t) ==
    /\ pc[t] = "wiping"
    /\ Goto(t, "wiped")
    /\ UNCHANGED <<row, spans, chunks, tries, given, mine, fan, user, sweep, used>>

\* A delete that fails is only logged.
Wipe(t) ==
    /\ pc[t] = "wiping"
    /\ \/ chunks' = {} /\ UNCHANGED lost
       \/ lost < MaxLost /\ lost' = lost + 1 /\ UNCHANGED chunks
    /\ Goto(t, "wiped")
    /\ UNCHANGED <<row, spans, tries, given, mine, fan, user, sweep, crashes, refused>>

WriteChunks(t) ==
    /\ pc[t] = "writing"
    /\ chunks' = chunks \cup {mine[t]}
    /\ Goto(t, "written")
    /\ UNCHANGED <<row, spans, tries, given, mine, fan, user, sweep, used>>

Index(t) ==
    /\ pc[t] = "indexing"
    /\ Goto(t, IF Aborted \/ Superseded(mine[t]) THEN "done" ELSE "indexed")
    /\ UNCHANGED <<row, spans, chunks, tries, given, mine, fan, user, sweep, used>>

\* Out of quota, or an embedding that keeps failing, fails the row at once.
IndexFails(t) ==
    /\ pc[t] = "indexing"
    /\ chunks' = {}
    /\ \/ tries[t] < MaxRetry /\ Requeued(t) /\ UNCHANGED status
       \/ Goto(t, "done") /\ status' = "failed" /\ UNCHANGED tries
    /\ UNCHANGED <<pending, spans, given, mine, fan, user, sweep, used>>

\* finalizeIndexedKnowledgeState: without text there is nothing to enrich.  A save
\* that fails is only logged.
StoreIndexed(t) ==
    /\ pc[t] = "indexed"
    /\ status' \in {"processing", status} \cup (IF Slot = {} THEN {"completed"} ELSE {})
    /\ Goto(t, "stored")
    /\ UNCHANGED <<pending, spans, chunks, tries, given, mine, fan, user, sweep, used>>

Free(a) == {k \in Copy : pc[<<"post", a, k>>] = "none"}

HandOver(t) ==
    /\ pc[t] = "stored" /\ Free(mine[t]) # {}
    /\ LET k == CHOOSE k \in Free(mine[t]) : TRUE
           post == <<"post", mine[t], k>>
       IN \/ /\ pc' = [pc EXCEPT ![t] = "done", ![post] = "queued"]
             /\ UNCHANGED <<tries, crashes>>
          \/ /\ crashes < MaxCrash /\ tries[t] < MaxRetry
             /\ crashes' = crashes + 1
             /\ pc' = [pc EXCEPT ![t] = "queued", ![post] = "queued"]
             /\ tries' = [tries EXCEPT ![t] = @ + 1]
    /\ UNCHANGED <<row, spans, chunks, given, mine, fan, user, sweep, refused, lost>>

HandOverFails(t) ==
    /\ pc[t] = "stored" /\ refused < MaxRefused
    /\ refused' = refused + 1
    /\ Errs(t, given[t])
    /\ UNCHANGED <<pending, latest, chunks, given, mine, fan, user, sweep, crashes, lost>>

-----------------------------------------------------------------------------
(* KnowledgePostProcessService.Handle.                                     *)

StartPost(p) ==
    /\ pc[p] = "queued"
    /\ IF Superseded(p[2]) \/ Aborted
       THEN Goto(p, "done") /\ UNCHANGED open
       ELSE IF status # "processing"
            THEN Goto(p, "done") /\ CloseAttempt(p[2])
            ELSE /\ Goto(p, IF chunks = {} \/ Slot = {} THEN "bare" ELSE "ready")
                 /\ UNCHANGED open
    /\ UNCHANGED <<row, latest, chunks, tries, given, mine, fan, user, sweep, used>>

\* CompleteProcessingWithoutSubtasks.
CompleteBare(p) ==
    /\ pc[p] = "bare"
    /\ IF status = "processing" THEN status' = "completed" /\ pending' = 0 ELSE UNCHANGED row
    /\ Goto(p, "done") /\ CloseAttempt(p[2])
    /\ UNCHANGED <<latest, chunks, tries, given, mine, fan, user, sweep, used>>

\* Mutant: the counter is seeded one short.
SeedOneShort(p) ==
    /\ pc[p] = "ready"
    /\ IF status = "processing"
       THEN /\ status' = "finalizing" /\ pending' = Cardinality(Slot) - 1
            /\ todo' = [todo EXCEPT ![p] = Slot]
            /\ Goto(p, "fanout") /\ UNCHANGED open
       ELSE Goto(p, "done") /\ CloseAttempt(p[2]) /\ UNCHANGED <<row, todo>>
    /\ UNCHANGED <<latest, chunks, tries, given, mine, short, user, sweep, used>>

\* Mutant: the automatic tagging, which drains nothing, is counted too.
SeedTagging(p) ==
    /\ pc[p] = "ready"
    /\ IF status = "processing"
       THEN /\ status' = "finalizing" /\ pending' = Cardinality(Slot) + 1
            /\ todo' = [todo EXCEPT ![p] = Slot]
            /\ Goto(p, "fanout") /\ UNCHANGED open
       ELSE Goto(p, "done") /\ CloseAttempt(p[2]) /\ UNCHANGED <<row, todo>>
    /\ UNCHANGED <<latest, chunks, tries, given, mine, short, user, sweep, used>>

\* SetFinalizing: the guarded hand-over, with the counter seeded first.
EnterFinalizing(p) ==
    /\ pc[p] = "ready"
    /\ IF status = "processing"
       THEN /\ status' = "finalizing" /\ pending' = Cardinality(Slot)
            /\ todo' = [todo EXCEPT ![p] = Slot]
            /\ Goto(p, "fanout") /\ UNCHANGED open
       ELSE Goto(p, "done") /\ CloseAttempt(p[2]) /\ UNCHANGED <<row, todo>>
    /\ UNCHANGED <<latest, chunks, tries, given, mine, short, user, sweep, used>>

PostErrs(p) ==
    /\ pc[p] \in {"queued", "bare", "ready"} /\ refused < MaxRefused
    /\ refused' = refused + 1
    /\ Errs(p, p[2])
    /\ UNCHANGED <<pending, latest, chunks, given, mine, fan, user, sweep, crashes, lost>>

EnqueueSub(p, s) ==
    /\ pc[p] = "fanout" /\ s \in todo[p]
    /\ pc' = [pc EXCEPT ![<<"sub", p[2], p[3], s>>] = "queued"]
    /\ todo' = [todo EXCEPT ![p] = @ \ {s}]
    /\ UNCHANGED <<row, spans, chunks, tries, given, mine, short, user, sweep, used>>

EnqueueSubFails(p, s) ==
    /\ pc[p] = "fanout" /\ s \in todo[p] /\ refused < MaxRefused
    /\ refused' = refused + 1
    /\ todo' = [todo EXCEPT ![p] = @ \ {s}]
    /\ short' = [short EXCEPT ![p] = @ + 1]
    /\ UNCHANGED <<row, spans, chunks, pc, tries, given, mine, user, sweep, crashes, lost>>

\* Mutant: the promote looks at the counter only.
DrainAnyStatus ==
    LET left == IF pending > 0 THEN pending - 1 ELSE 0
    IN /\ pending' = left
       /\ status' = IF left = 0 THEN "completed" ELSE status

\* FinalizeSubtask: decrement above zero, then the guarded promote, in one transaction.
Drain ==
    LET left == IF pending > 0 THEN pending - 1 ELSE 0
    IN /\ pending' = left
       /\ status' = IF status = "finalizing" /\ left = 0 THEN "completed" ELSE status

\* releaseSubtaskSlot: three tries may all fail.
ReleaseSlot ==
    \/ Drain /\ UNCHANGED lost
    \/ lost < MaxLost /\ lost' = lost + 1 /\ UNCHANGED row

Release(p) ==
    /\ pc[p] = "fanout" /\ todo[p] = {} /\ short[p] > 0
    /\ ReleaseSlot
    /\ short' = [short EXCEPT ![p] = @ - 1]
    /\ UNCHANGED <<spans, chunks, pc, tries, given, mine, todo, user, sweep, crashes, refused>>

\* Mutant: the slots nobody owns are never released.
ForgetShort(p) ==
    /\ pc[p] = "fanout" /\ todo[p] = {}
    /\ CloseAttempt(p[2])
    /\ Acked(p)
    /\ UNCHANGED <<row, latest, chunks, given, mine, fan, user, sweep, refused, lost>>

FinishPost(p) ==
    /\ pc[p] = "fanout" /\ todo[p] = {} /\ short[p] = 0
    /\ CloseAttempt(p[2])
    /\ Acked(p)
    /\ UNCHANGED <<row, latest, chunks, given, mine, fan, user, sweep, refused, lost>>

-----------------------------------------------------------------------------
(* An enrichment subtask: summary, a batch of questions, a graph chunk.    *)

StartSub(t) ==
    /\ pc[t] = "queued"
    /\ Goto(t, IF Superseded(t[2]) THEN "done" ELSE "running")
    /\ UNCHANGED <<row, spans, chunks, tries, given, mine, fan, user, sweep, used>>

\* Mutant: every exit releases the slot, a failed one with retries left too.
RetrySubDrains(t) ==
    /\ pc[t] = "running" /\ tries[t] < MaxRetry
    /\ Requeued(t) /\ Drain
    /\ UNCHANGED <<spans, chunks, given, mine, fan, user, sweep, used>>

\* An error with retries left leaves the slot to the next delivery.
RetrySub(t) ==
    /\ pc[t] = "running" /\ tries[t] < MaxRetry
    /\ Requeued(t)
    /\ UNCHANGED <<row, spans, chunks, given, mine, fan, user, sweep, used>>

\* Success, an abort seen by the handler, or the last failure.
EndSub(t) ==
    /\ pc[t] = "running"
    /\ ReleaseSlot
    /\ Acked(t)
    /\ UNCHANGED <<spans, chunks, given, mine, fan, user, sweep, refused>>

-----------------------------------------------------------------------------
(* From outside: reparseKnowledge, CancelKnowledgeParse and the sweep.     *)

\* dequeueKnowledgeTasks is best effort.  A fan-out under way does not use its
\* context and goes on.
Dequeue ==
    LET waiting == {t \in Task : pc[t] = "queued"}
        stopped == {t \in Task : Working(t) /\ pc[t] # "fanout"}
    IN \E gone \in {{}, waiting, waiting \cup stopped} :
          pc' = [t \in Task |-> IF t \in gone THEN "done" ELSE pc[t]]

BeginReparse ==
    /\ reparse = "idle" /\ request <= MaxReparse
    /\ request' = request + 1
    /\ chunks' = {}
    /\ reparse' = IF status \in InFlight THEN "stopping" ELSE "opening"
    /\ UNCHANGED <<row, spans, pc, tries, given, mine, fan, cancel, cancels, sweep, used>>

StopOldRun ==
    /\ reparse = "stopping" /\ reparse' = "opening"
    /\ Dequeue
    /\ UNCHANGED <<row, spans, chunks, tries, given, mine, fan, request, cancel, cancels, sweep, used>>

OpenReparse ==
    /\ reparse = "opening" /\ reparse' = "saving"
    /\ OpenAttempt
    /\ given' = [given EXCEPT ![<<"process", request>>] = latest + 1]
    /\ UNCHANGED <<row, chunks, pc, tries, mine, fan, request, cancel, cancels, sweep, used>>

\* A full-row save, which omits the counter.
SaveReset ==
    /\ reparse = "saving" /\ reparse' = "zeroing"
    /\ status' = "pending"
    /\ UNCHANGED <<pending, spans, chunks, pc, tries, given, mine, fan, request, cancel, cancels, sweep, used>>

ResetCount ==
    /\ reparse = "zeroing" /\ reparse' = "enqueuing"
    /\ pending' = 0
    /\ UNCHANGED <<status, spans, chunks, pc, tries, given, mine, fan, request, cancel, cancels, sweep, used>>

EnqueueProcess ==
    /\ reparse = "enqueuing" /\ reparse' = "idle"
    /\ \/ Goto(<<"process", request>>, "queued") /\ UNCHANGED <<status, refused>>
       \/ refused < MaxRefused /\ refused' = refused + 1 /\ status' = "failed" /\ UNCHANGED pc
    /\ UNCHANGED <<pending, spans, chunks, tries, given, mine, fan, request, cancel, cancels, sweep, crashes, lost>>

BeginCancel ==
    /\ cancel = "idle" /\ cancels < MaxCancel
    /\ cancels' = cancels + 1
    /\ \/ status \in InFlight /\ cancel' = "writing"
       \/ Aborted /\ cancel' = "stopping"
    /\ UNCHANGED <<row, spans, chunks, pc, tries, given, mine, fan, reparse, request, sweep, used>>

WriteCancel ==
    /\ cancel = "writing" /\ cancel' = "closing"
    /\ status' = "cancelled" /\ pending' = 0
    /\ UNCHANGED <<spans, chunks, pc, tries, given, mine, fan, reparse, request, cancels, sweep, used>>

AbortLatest ==
    /\ cancel = "closing" /\ cancel' = "stopping"
    /\ CloseAttempt(latest)
    /\ UNCHANGED <<row, latest, chunks, pc, tries, given, mine, fan, reparse, request, cancels, sweep, used>>

StopCancelled ==
    /\ cancel = "stopping" /\ cancel' = "idle"
    /\ Dequeue
    /\ UNCHANGED <<row, spans, chunks, tries, given, mine, fan, reparse, request, cancels, sweep, used>>

\* The server dies during a user's request.
CrashUser ==
    /\ crashes < MaxCrash /\ crashes' = crashes + 1
    /\ \/ reparse # "idle" /\ reparse' = "idle" /\ UNCHANGED cancel
       \/ cancel # "idle" /\ cancel' = "idle" /\ UNCHANGED reparse
    /\ UNCHANGED <<row, spans, chunks, pc, tries, given, mine, fan, request, cancels, sweep, refused, lost>>

\* filterOutQueued: no task of the row is queued or worked on.
Backlogged == \E t \in Task : Live(t)

\* noOpenCurrentAttemptSpanSQL: neither the root nor an abandoned subtask's span.
SpanOpen ==
    \/ open = latest
    \/ \E t \in SubTask : pc[t] = "archived" /\ t[2] = latest

PickDrained ==
    /\ sweep = "idle" /\ status = "finalizing" /\ ~SpanOpen /\ ~Backlogged
    /\ sweep' = IF pending = 0 THEN "drained" ELSE "stale"
    /\ UNCHANGED <<row, spans, chunks, pc, tries, given, mine, fan, user, used>>

\* By id only.
PromotePicked ==
    /\ sweep \in {"drained", "stale"} /\ sweep' = "idle"
    /\ status' = "completed"
    /\ pending' = IF sweep = "stale" THEN 0 ELSE pending
    /\ UNCHANGED <<spans, chunks, pc, tries, given, mine, fan, user, used>>

\* Mutant: a row that waits for its first task is not looked at.
PickStuckStarted ==
    /\ sweep = "idle" /\ status \in InFlight \ {"pending"} /\ ~Backlogged
    /\ reparse = "idle" /\ cancel = "idle"
    /\ sweep' = "stuck"
    /\ UNCHANGED <<row, spans, chunks, pc, tries, given, mine, fan, user, used>>

\* Sweep A: nothing has moved the row or its spans for the stale threshold.
PickStuck ==
    /\ sweep = "idle" /\ status \in InFlight /\ ~Backlogged
    /\ reparse = "idle" /\ cancel = "idle"
    /\ sweep' = "stuck"
    /\ UNCHANGED <<row, spans, chunks, pc, tries, given, mine, fan, user, used>>

FailStuck ==
    /\ sweep = "stuck" /\ sweep' = "idle"
    /\ IF status \in InFlight
       THEN status' = "failed" /\ pending' = 0 /\ CloseAttempt(latest)
       ELSE UNCHANGED <<row, open>>
    /\ UNCHANGED <<latest, chunks, pc, tries, given, mine, fan, user, used>>

-----------------------------------------------------------------------------
ProcessStep(t) ==
    \/ StartProcess(t) \/ Recheck(t) \/ MarkProcessing(t) \/ ResolveAttempt(t)
    \/ ConvertFails(t) \/ ConvertErrs(t) \/ Convert(t) \/ Wipe(t) \/ WriteChunks(t)
    \/ Index(t) \/ IndexFails(t) \/ StoreIndexed(t) \/ HandOver(t) \/ HandOverFails(t)

PostStep(p) ==
    \/ StartPost(p) \/ CompleteBare(p) \/ EnterFinalizing(p) \/ PostErrs(p)
    \/ \E s \in Slot : EnqueueSub(p, s) \/ EnqueueSubFails(p, s)
    \/ Release(p) \/ FinishPost(p)

SubStep(t) == StartSub(t) \/ RetrySub(t) \/ EndSub(t)

ReparseStep == StopOldRun \/ OpenReparse \/ SaveReset \/ ResetCount \/ EnqueueProcess
CancelStep  == WriteCancel \/ AbortLatest \/ StopCancelled
SweepStep   == PickDrained \/ PromotePicked \/ PickStuck \/ FailStuck

Next ==
    \/ \E t \in ProcessTask : ProcessStep(t)
    \/ \E p \in PostTask : PostStep(p)
    \/ \E t \in SubTask : SubStep(t)
    \/ \E t \in Task : Crash(t)
    \/ BeginReparse \/ ReparseStep
    \/ BeginCancel \/ CancelStep
    \/ CrashUser
    \/ SweepStep

Spec == Init /\ [][Next]_vars

\* The queue hands every task to a worker and a worker goes on; the sweep is a
\* cron job.  Nobody has to ask for a reparse or a cancel, one asked for goes on.
Workers ==
    /\ \A t \in ProcessTask : WF_vars(ProcessStep(t))
    /\ \A p \in PostTask : WF_vars(PostStep(p))
    /\ \A t \in SubTask : WF_vars(SubStep(t))
    /\ WF_vars(ReparseStep) /\ WF_vars(CancelStep)

WorkersSpec == Spec /\ Workers
FairSpec    == WorkersSpec /\ WF_vars(SweepStep)

-----------------------------------------------------------------------------
(* Properties.                                                             *)

Where == {"none", "queued", "read", "clear", "marked", "opened", "wiping", "wiped",
          "writing", "written", "indexing", "indexed", "stored", "bare", "ready", "fanout", "running",
          "done", "archived"}

\* Every variable stays in its range: the counter is never above what one fan-out
\* seeds, and no more attempts are opened than there are requests and redeliveries.
TypeOK ==
    /\ status \in Status
    /\ pending \in 0..Cardinality(Slot)
    /\ latest \in Attempt \cup {0} /\ open \in {0, latest}
    /\ chunks \subseteq Attempt
    /\ pc \in [Task -> Where]
    /\ tries \in [Task -> 0..MaxRetry]
    /\ given \in [ProcessTask -> Attempt \cup {0}] /\ mine \in [ProcessTask -> Attempt \cup {0}]
    /\ todo \in [PostTask -> SUBSET Slot] /\ short \in [PostTask -> 0..Cardinality(Slot)]
    /\ reparse \in {"idle", "stopping", "opening", "saving", "zeroing", "enqueuing"}
    /\ request \in Request
    /\ cancel \in {"idle", "writing", "closing", "stopping"} /\ cancels \in 0..MaxCancel
    /\ sweep \in {"idle", "drained", "stale", "stuck"}
    /\ crashes \in 0..MaxCrash /\ refused \in 0..MaxRefused /\ lost \in 0..MaxLost

\* Who will still release a slot: a subtask that has not ended, a subtask that is
\* about to be enqueued, a slot the fan-out releases itself.
Subs(a) == {t \in SubTask : t[2] = a /\ Live(t)}
Posts   == {p \in PostTask : p[2] = latest /\ pc[p] = "fanout"}
Owed ==
    LET p == CHOOSE p \in Posts : TRUE
    IN Cardinality(Subs(latest)) + IF Posts = {} THEN 0 ELSE Cardinality(todo[p]) + short[p]

\* While a row is finalizing, its counter is what is still owed to it, whatever the
\* order of fan-out, refused enqueues, retries and drains (KnowledgePostProcess
\* Handle, FinalizeSubtask): no slot without an owner, no owner without a slot.
SlotsOwned == status = "finalizing" => pending = Owed

\* A completed row has no enrichment left: no subtask of its run is queued or at work,
\* none is still to be enqueued (the promote in FinalizeSubtask).
CompletedIsDrained == status = "completed" => Owed = 0

\* The chunks of a row that is handed to enrichment are those of one run, the latest,
\* although earlier deliveries may have stored theirs (processChunks).
ChunksAreCurrent == status \in {"finalizing", "completed"} => chunks = {latest}

\* A cancelled row stays so until a user asks for a reparse, except for a parse that
\* already works on it and a sweep that had already picked the row: late
\* subtasks, post-process tasks and redeliveries leave it alone.
Parsing == \E t \in ProcessTask : Working(t)
CancelledStays ==
    [][status = "cancelled" /\ reparse = "idle" /\ sweep = "idle" /\ ~Parsing
         => status' = "cancelled"]_vars

\* Without the sweep's help, enrichment ends: every slot is released once
\* (finalizeSubtaskDetached, the shortfall loop of Handle).
FinalizingDrains == status = "finalizing" ~> status # "finalizing"

\* A row never stays in flight for good, whatever crashes, is refused or is lost:
\* the run ends it or housekeeping does (runSweep).
Settles == status \in InFlight ~> status \notin InFlight

(* What comments in the code claim, and the code does not keep.            *)

\* ProcessDocument, before it marks the row as processing: the re-check of the status
\* closes the race with a user's cancel, so that the worker never marks a cancelled row.
CancelSticks == [][status = "cancelled" => status' # "processing"]_vars

\* attemptSuperseded: a stale subtask must not decrement the counter of a newer run.
StaleNeverDrains ==
    [][\A t \in SubTask :
         EndSub(t) /\ Superseded(t[2]) /\ reparse = "idle" => pending' = pending]_vars

\* Handle: a superseded post-process does not seed the counter of a newer run.
FinalizingIsCurrent ==
    [][\A p \in PostTask : EnterFinalizing(p) /\ status' = "finalizing" => ~Superseded(p[2])]_vars

\* runSweep: valid queued and running work is preserved when it promotes a row.
SweepPreservesWork == [][PromotePicked => ~Backlogged]_vars

\* finalizeSubtaskDetached: a subtask drains exactly once, so a row is never promoted
\* while a subtask is still on its first delivery.
DrainsOnce == status = "completed" => \A t \in Subs(latest) : tries[t] > 0

\* ProcessDocument: the retries of one request record onto the same attempt.
RetriesKeepAttempt == latest <= request
=============================================================================
