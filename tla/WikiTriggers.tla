---------------------------- MODULE WikiTriggers ----------------------------
(***************************************************************************)
(* The tasks that wake the ingest lane of a wiki with Redis                *)
(* (wiki_ingest.go, wiki_ingest_batch.go, wiki_ingest_followup.go).  The   *)
(* rows of the lane are durable, the tasks that make a batch look at them  *)
(* are not: plain triggers, a retry after the cap on batches in flight, a  *)
(* recheck of stale claims, follow-ups with a reserved identity, and two   *)
(* probes where nothing could be reserved.  A named task exists once until *)
(* its worker acknowledges it; enqueuing it again meanwhile does nothing.  *)
(* What a batch does with its rows is WikiIngest's.                        *)
(***************************************************************************)
EXTENDS Integers, FiniteSets

CONSTANTS Row,      \* rows of the lane, each of a document of its own
          Retract,  \* those of deleted documents
          Cap,      \* IngestMaxInflight
          Batch,    \* IngestBatchSize
          MaxTask,  \* bound on unnamed tasks at a time; never reached
          MaxFault, MaxKind \* bounds on faults, and on crashes and on errors

ASSUME ConstantsAreSound ==
    /\ IsFiniteSet(Row) /\ Retract \subseteq Row
    /\ {Cap, Batch, MaxTask} \subseteq Nat \ {0} /\ {MaxFault, MaxKind} \subseteq Nat

\* The named tasks of a knowledge base, and what stands for the others.  Rearmed is
\* housekeeping's trigger, one per threshold.
Capped == -1
Recheck == -2
Probe == -3
ProbeNext == -4
Rearmed == -5
Slot == 1..MaxTask
Task == {Capped, Recheck, Probe, ProbeNext, Rearmed} \cup Slot

VARIABLES row,      \* state of each row of the lane
          claimed,  \* rows with a claim
          task,     \* the tasks in asynq
          inflight, \* tasks with a live slot of the cap
          ghosts,   \* slots of the cap left behind by crashes
          reserved, \* wiki:followup:<kb>: identities of outstanding follow-ups
          lost,     \* a handler returned without the successor it needed
          faults    \* faults of each kind so far

rowVars == <<row, claimed>>
capVars == <<inflight, ghosts>>
vars == <<row, claimed, task, inflight, ghosts, reserved, lost, faults>>

-----------------------------------------------------------------------------

\* ops: rows the batch claimed.  ids: follow-ups it reserved and has yet to enqueue.
\* follow: a follow-up that was enqueued under its reservation.
Run == [pc : {"none", "waiting", "claim", "work", "count", "enqueue", "leave"},
        ops : SUBSET Row, ids : SUBSET Slot, follow : BOOLEAN]

NoTask == [pc |-> "none", ops |-> {}, ids |-> {}, follow |-> FALSE]

\* fail: a batch puts a document back.  error: Redis, the database or asynq refuses.
Kind == {"crash", "error", "fail"}

Init ==
    /\ row = [r \in Row |-> "none"] /\ claimed = {}
    /\ task = [t \in Task |-> NoTask]
    /\ inflight = {} /\ ghosts = 0 /\ reserved = {}
    /\ lost = FALSE /\ faults = [k \in Kind |-> 0]

Fault(k) ==
    /\ faults["crash"] + faults["error"] + faults["fail"] < MaxFault
    /\ k = "fail" \/ faults[k] < MaxKind
    /\ faults' = [faults EXCEPT ![k] = @ + 1]
NoFault == UNCHANGED faults

Pending == {r \in Row : row[r] = "pending"}
Claimable == Pending \ claimed

Exists(t) == task[t].pc # "none"
Enqueuing == UNION {task[t].ids : t \in Task}

\* k new identities: of no task, and of no reservation.
Unused == {s \in Slot : ~Exists(s)} \ (reserved \cup Enqueuing)
Fresh(k) == {K \in SUBSET Unused : Cardinality(K) = k /\ \A s \in K, u \in Unused \ K : s < u}

\* Enqueues the tasks of S in the queue tk; one that exists is coalesced.
With(tk, S) == [s \in Task |-> IF s \in S /\ tk[s].pc = "none" THEN [NoTask EXCEPT !.pc = "waiting"] ELSE tk[s]]
At(t, pc) == [task EXCEPT ![t] = [@ EXCEPT !.pc = pc]]

\* A task that has yet to look at the rows, or to arm a successor.
Looks(t) == task[t].pc \notin {"none", "leave"}

\* Enqueuing id does nothing if it exists; the handler of t then relies on it and on
\* the tasks of others.
Arms(t, id, others) ==
    /\ task' = With(At(t, "leave"), {id})
    /\ lost' = (lost \/ (Exists(id) /\ ~\E u \in (others \cup {id}) \ {t} : Looks(u)))

\* It returns without a successor.
Disarms(t) == task' = At(t, "leave") /\ lost' = TRUE

-----------------------------------------------------------------------------
(* Rows and the triggers that come with them *)

EnqueueTrigger == \E K \in Fresh(1) : task' = With(task, K)

\* The row is durable; its trigger follows, or fails and is only logged.
EnqueueWiki(r) ==
    /\ row[r] = "none"
    /\ row' = [row EXCEPT ![r] = "pending"]
    /\ \/ NoFault /\ EnqueueTrigger /\ UNCHANGED lost
       \/ Fault("error") /\ lost' = TRUE /\ UNCHANGED task
    /\ UNCHANGED <<claimed, capVars, reserved>>

\* Housekeeping finds a document that waited for its wiki a threshold long; a deleted
\* one is no document any more.  Only a recheck is delayed longer than that; that
\* another task waits as long, behind a backlog, counts as a fault.
Silent == \A t \in Task \ {Recheck} : ~Looks(t)
RearmWikiTriggers ==
    /\ Pending \ Retract # {} /\ ~Exists(Rearmed)
    /\ IF Silent THEN NoFault ELSE Fault("error")
    /\ task' = With(task, {Rearmed})
    /\ UNCHANGED <<rowVars, capVars, reserved, lost>>

\* A server starts and finds rows.
RecoverPendingWikiTasks ==
    /\ Pending # {} /\ Fault("crash")
    /\ EnqueueTrigger
    /\ UNCHANGED <<rowVars, capVars, reserved, lost>>

-----------------------------------------------------------------------------
(* A task *)

\* The number of slots taken, those of crashed batches until they expire included.
Taken == Cardinality(inflight) + ghosts
Full == Taken >= Cap

ReserveInflightSlot(t) ==
    /\ task[t].pc = "waiting"
    /\ \/ /\ ~Full /\ NoFault
          /\ inflight' = inflight \cup {t}
          /\ task' = At(t, "claim")
       \/ /\ Fault("error")                              \* Redis error: uncapped
          /\ task' = At(t, "claim")
          /\ UNCHANGED inflight
    /\ UNCHANGED <<rowVars, ghosts, reserved, lost>>

\* At the cap: a retry that all the turned away share, beside the batches that hold
\* the slots.
ScheduleCappedRetry(t) ==
    /\ task[t].pc = "waiting" /\ Full
    /\ (NoFault /\ Arms(t, Capped, inflight)) \/ (Fault("error") /\ Disarms(t))
    /\ UNCHANGED <<rowVars, capVars, reserved>>

\* An error of the handler: asynq delivers the task again.  The slot is released,
\* the reservation is not.
Retried(t) ==
    /\ task' = [task EXCEPT ![t] = [@ EXCEPT !.pc = "waiting", !.ops = {}, !.ids = {}]]
    /\ inflight' = inflight \ {t}

ClaimPendingList(t) ==
    /\ task[t].pc = "claim"
    /\ \/ \E S \in SUBSET Claimable :
            /\ S # {} /\ Cardinality(S) <= Batch
            /\ Cardinality(S) = Batch \/ S = Claimable
            /\ claimed' = claimed \cup S
            /\ task' = [task EXCEPT ![t] = [@ EXCEPT !.pc = "work", !.ops = S]]
            /\ NoFault /\ UNCHANGED inflight
       \/ Fault("error") /\ Retried(t) /\ UNCHANGED claimed
    /\ UNCHANGED <<row, ghosts, reserved, lost>>

NoRecheck(t) == NoFault /\ task' = At(t, "leave") /\ UNCHANGED lost

\* Nothing to claim although there are rows: a recheck after the longest life of a
\* claim, beside the batches that hold the claims.
StaleClaimRecheck(t) ==
    \/ NoFault /\ Arms(t, Recheck, {u \in Task : task[u].ops # {}})
    \/ Fault("error") /\ Disarms(t)

ScheduleStaleClaimRecheck(t) ==
    /\ task[t].pc = "claim" /\ Claimable = {}
    /\ IF Pending = {} THEN NoFault /\ task' = At(t, "leave") /\ UNCHANGED lost
                       ELSE StaleClaimRecheck(t)
    /\ UNCHANGED <<rowVars, capVars, reserved>>

\* The batch settles: its rows are done, or some go back to the queue.
Settle(t) ==
    /\ task[t].pc = "work"
    /\ \E S \in SUBSET task[t].ops :
         /\ IF S = task[t].ops THEN NoFault ELSE Fault("fail")
         /\ row' = [r \in Row |-> IF r \in S THEN "done" ELSE row[r]]
    /\ claimed' = claimed \ task[t].ops
    /\ task' = [task EXCEPT ![t] = [@ EXCEPT !.pc = "count", !.ops = {}]]
    /\ UNCHANGED <<capVars, reserved, lost>>

\* The batch fails before it settles: its claims are released.
AbortBatch(t) ==
    /\ task[t].pc = "work" /\ Fault("error")
    /\ claimed' = claimed \ task[t].ops
    /\ Retried(t)
    /\ UNCHANGED <<row, ghosts, reserved, lost>>

\* A probe arms the other one.
ProbeFor(t) == IF t = Probe THEN ProbeNext ELSE Probe
FollowUpRecheck(t) == Arms(t, ProbeFor(t), reserved)

Ceil(a, b) == (a + b - 1) \div b
Least(a, b) == IF a <= b THEN a ELSE b
FollowUpTriggerCount(pending, active) ==
    IF Cap <= 1 THEN 1
    ELSE Least(Ceil(pending, Batch), IF Cap - active + 1 < 1 THEN 1 ELSE Cap - active + 1)

\* Reservations whose task is not in asynq.  One is removed once it is two minutes
\* old, the delay of a probe; by then an enqueue in progress is over, or stalled.
Missing == {s \in reserved : ~Exists(s) /\ s \notin Enqueuing}
Stalled == {s \in reserved : s \in Enqueuing}
Due(t, gone) ==
    /\ gone \subseteq Missing \cup Stalled
    /\ gone \cap Missing \in {{}, Missing}
    /\ t \in {Probe, ProbeNext} => Missing \subseteq gone

\* What the cap and one successor leave.
AvailableAlways(left) == Cap + 1
Available(left) == IF Cap + 1 >= Cardinality(left) THEN Cap + 1 - Cardinality(left) ELSE 0

\* Reconciles, and reserves up to n follow-ups in one access to Redis.
ReserveFollowUpTasks(t, n) ==
    \E gone \in SUBSET reserved : \E ids \in Fresh(Least(n, Available(reserved \ gone))) :
        /\ Due(t, gone)
        /\ IF gone \subseteq Missing THEN NoFault ELSE Fault("error")
        /\ reserved' = (reserved \ gone) \cup ids
        /\ IF ids = {} THEN FollowUpRecheck(t)
           ELSE /\ task' = [task EXCEPT ![t] = [@ EXCEPT !.pc = "enqueue", !.ids = ids]]
                /\ UNCHANGED lost

\* scheduleFollowUp.  An error of the first count loses the chain, one of the second
\* leads to a probe, one of the reservation to a follow-up without it.  A batch that
\* was rate-limited, or cannot count the slots, wants one follow-up.
ScheduleFollowUp(t) ==
    /\ task[t].pc = "count"
    /\ \/ Pending = {} /\ NoFault /\ task' = At(t, "leave") /\ UNCHANGED <<reserved, lost>>
       \/ Fault("error") /\ Disarms(t) /\ UNCHANGED reserved
       \/ Pending # {} /\ Fault("error") /\ FollowUpRecheck(t) /\ UNCHANGED reserved
       \/ Pending # {} /\ Claimable = {} /\ StaleClaimRecheck(t) /\ UNCHANGED reserved
       \/ /\ Claimable # {} /\ Fault("error")
          /\ \E K \in Fresh(1) : task' = With(At(t, "leave"), K)
          /\ UNCHANGED <<reserved, lost>>
       \/ /\ Claimable # {}
          /\ \E n \in {1, FollowUpTriggerCount(Cardinality(Claimable), Taken)} : ReserveFollowUpTasks(t, n)
    /\ UNCHANGED <<rowVars, capVars>>

\* The follow-ups that are refused keep their reservation, and a probe comes.
EnqueueFollowUps(t) ==
    /\ task[t].pc = "enqueue"
    /\ \E S \in SUBSET task[t].ids :
         LET left == [task EXCEPT ![t] = [@ EXCEPT !.pc = "leave", !.ids = {}]]
             sent == [s \in Task |-> IF s \in S THEN [NoTask EXCEPT !.pc = "waiting", !.follow = s \in reserved]
                                     ELSE left[s]] IN
         IF S = task[t].ids
         THEN NoFault /\ task' = sent /\ UNCHANGED lost
         ELSE /\ Fault("error")
              /\ task' = With(sent, {ProbeFor(t)})
              /\ lost' = (lost \/ (S = {} /\ Exists(ProbeFor(t)) /\ ~Looks(ProbeFor(t))))
    /\ UNCHANGED <<rowVars, capVars, reserved>>

\* The handler returns: the slot and the reservation are given back and asynq forgets
\* the task.
Leave(t) ==
    /\ task[t].pc = "leave"
    /\ inflight' = inflight \ {t}
    /\ reserved' = reserved \ {t}
    /\ task' = [task EXCEPT ![t] = NoTask]
    /\ UNCHANGED <<rowVars, ghosts, lost, faults>>

-----------------------------------------------------------------------------
(* Crashes and the passing of time *)

\* asynq delivers a task again when the lease of its worker is over.
Crash(t) ==
    /\ task[t].pc \notin {"none", "waiting"} /\ Fault("crash")
    /\ Retried(t)
    /\ ghosts' = IF t \in inflight THEN ghosts + 1 ELSE ghosts
    /\ UNCHANGED <<rowVars, reserved, lost>>

SlotExpiresWhenQuiet ==
    /\ ghosts > 0 /\ \A t \in Task : ~Exists(t)
    /\ ghosts' = ghosts - 1
    /\ UNCHANGED <<rowVars, task, inflight, reserved, lost, faults>>

ForgetSlot ==
    /\ ghosts' = ghosts - 1
    /\ UNCHANGED <<rowVars, task, inflight, reserved, lost, faults>>

SlotExpires ==
    /\ ghosts > 0
    /\ ghosts' = ghosts - 1
    /\ UNCHANGED <<rowVars, task, inflight, reserved, lost, faults>>

ClaimGoesStale(r) ==
    /\ r \in claimed /\ \A t \in Task : r \notin task[t].ops
    /\ claimed' = claimed \ {r}
    /\ UNCHANGED <<row, task, capVars, reserved, lost, faults>>

-----------------------------------------------------------------------------

Step(t) ==
    \/ ReserveInflightSlot(t) \/ ScheduleCappedRetry(t)
    \/ ClaimPendingList(t) \/ ScheduleStaleClaimRecheck(t) \/ Settle(t) \/ AbortBatch(t)
    \/ ScheduleFollowUp(t) \/ EnqueueFollowUps(t) \/ Leave(t)

Next ==
    \/ \E r \in Row : EnqueueWiki(r) \/ ClaimGoesStale(r)
    \/ \E t \in Task : Step(t) \/ Crash(t)
    \/ RearmWikiTriggers \/ RecoverPendingWikiTasks \/ SlotExpires

Spec == Init /\ [][Next]_vars

\* asynq delivers what is in the queue and handlers return; housekeeping runs; slots
\* and claims run out.  Nobody restarts a server for a row.
FairSpec ==
    /\ Spec
    /\ \A t \in Task : WF_vars(Step(t))
    /\ \A r \in Row : WF_vars(ClaimGoesStale(r))
    /\ WF_vars(RearmWikiTriggers) /\ WF_vars(SlotExpires)

-----------------------------------------------------------------------------
(* What the triggers promise *)

TypeOK ==
    /\ row \in [Row -> {"none", "pending", "done"}] /\ claimed \subseteq Row
    /\ task \in [Task -> Run]
    /\ inflight \subseteq Task /\ ghosts \in Nat
    /\ reserved \subseteq Slot
    /\ lost \in BOOLEAN /\ faults \in [Kind -> Nat]

\* Rows never wait for nothing: some task will still look at the lane, unless a
\* handler could not arm its successor.
Armed ==
    Pending # {} => (lost \/ \E t \in Task : Looks(t))

\* The batches at work and the follow-ups of a knowledge base keep within its cap,
\* however many batches end at once, die or are retried; a Redis error lets one batch
\* through.
CapsHold ==
    /\ Cardinality({t \in Task : task[t].pc \in {"claim", "work", "count", "enqueue"}})
         <= Cap + faults["error"]
    /\ Cardinality({s \in Slot : task[s].follow}) <= Cap + 1

\* Every row is worked off, although rows are claimed by batches that die, triggers
\* are turned away and identities are taken; the row of a deleted document, which
\* housekeeping does not see, unless a successor was lost.
RowsAreWorked ==
    []<>(Pending \subseteq {r \in Retract : lost})

\* The comment of scheduleCappedRetry: the rows of the triggers that were turned away
\* are guaranteed to drain once a slot frees, as no enqueue failed.
TurnedAwayDrain ==
    []<>(Pending = {} \/ faults["error"] > 0)
=============================================================================
