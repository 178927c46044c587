------------------------ MODULE WikiTriggersProofs ------------------------
(* For any number of rows, tasks and faults: a row that waits has a task   *)
(* that will look at it, unless a handler could not arm its successor; and *)
(* batches and follow-ups keep within their caps.                          *)
EXTENDS WikiTriggers, FiniteSetTheorems, TLAPS

\* A batch that is about to enqueue follow-ups has reserved some.
Follows == \A t \in Task : task[t].pc = "enqueue" => task[t].ids # {}

Inv == TypeOK /\ Follows /\ Armed

\* What a step of a task leaves behind, the rows apart: the types of the tasks, and
\* a task that looks unless a successor was lost.
Queue == task' \in [Task -> Run] /\ Follows' /\ lost' \in BOOLEAN
Awake == \E t \in Task : Looks(t)

-----------------------------------------------------------------------------
(* The queue *)

\* Enqueuing changes only tasks that did not exist.
LEMMA Enqueued ==
    ASSUME NEW tk \in [Task -> Run], NEW S
    PROVE  /\ With(tk, S) \in [Task -> Run]
           /\ \A s \in Task : \/ With(tk, S)[s] = tk[s]
                              \/ tk[s].pc = "none" /\ With(tk, S)[s].pc = "waiting"
           /\ \A s \in Task : tk[s].pc = "none" /\ s \in S => With(tk, S)[s].pc = "waiting"
  BY DEF With, NoTask, Run

\* A new identity is that of a slot, and of no task.
LEMMA FreshIsNew ==
    ASSUME NEW k, NEW K \in Fresh(k)
    PROVE  /\ K \subseteq Slot /\ \A s \in K : task[s].pc = "none"
           /\ k = 1 => K # {}
  <1>1. K \subseteq Slot /\ \A s \in K : task[s].pc = "none"
    BY DEF Fresh, Unused, Exists
  <1>2. ASSUME k = 1 PROVE K # {}
    BY <1>2, FS_EmptySet DEF Fresh
  <1> QED BY <1>1, <1>2

\* A handler that relies on the task id, or on those of others, returns: then
\* somebody still looks at the lane, or the loss is on record.
LEMMA SuccessorLooks ==
    ASSUME Inv, NEW t \in Task, Looks(t), NEW id \in Task, NEW others \in SUBSET Task,
           Arms(t, id, others)
    PROVE  Queue /\ (lost' \/ Awake')
  <1> DEFINE left == At(t, "leave")
  <1>1. left \in [Task -> Run] /\ left[t].pc = "leave" /\ \A s \in Task \ {t} : left[s] = task[s]
    BY DEF At, Inv, TypeOK, Run
  <1>2. task' = With(left, {id})
    BY DEF Arms
  <1> HIDE DEF left
  <1>3. task' \in [Task -> Run] /\ \A s \in Task : task'[s] = left[s] \/ (left[s].pc = "none" /\ task'[s].pc = "waiting")
    BY <1>1, <1>2, Enqueued
  <1>4. Follows'
    BY <1>1, <1>3 DEF Follows, Inv
  <1>5. lost' \in BOOLEAN
    BY DEF Arms, Inv, TypeOK
  <1>6. CASE Exists(id) /\ ~\E u \in (others \cup {id}) \ {t} : Looks(u)
    BY <1>3, <1>4, <1>5, <1>6 DEF Arms, Queue
  <1>7. CASE ~Exists(id)
    <2>1. id # t /\ left[id].pc = "none"
      BY <1>1, <1>7 DEF Exists, Looks
    <2>2. task'[id].pc = "waiting"
      BY <1>1, <1>2, <2>1, Enqueued
    <2> QED BY <1>3, <1>4, <1>5, <2>2 DEF Queue, Awake, Looks
  <1>8. CASE \E u \in (others \cup {id}) \ {t} : Looks(u)
    <2>1. PICK u \in (others \cup {id}) \ {t} : Looks(u)
      BY <1>8
    <2>2. u \in Task /\ task'[u].pc = task[u].pc
      BY <1>1, <1>3, <2>1 DEF Looks
    <2> QED BY <1>3, <1>4, <1>5, <2>1, <2>2 DEF Queue, Awake, Looks
  <1> QED BY <1>6, <1>7, <1>8

\* A handler that returns without a successor records it.
LEMMA LossIsRecorded ==
    ASSUME Inv, NEW t \in Task, Disarms(t)
    PROVE  Queue /\ lost'
  BY DEF Disarms, At, Inv, TypeOK, Follows, Queue, Run

\* A task that is delivered again looks again.
LEMMA RetriedLooks ==
    ASSUME Inv, NEW t \in Task, Retried(t), UNCHANGED lost
    PROVE  Queue /\ Awake' /\ inflight' \subseteq Task
  <1>1. task' \in [Task -> Run] /\ task'[t].pc = "waiting" /\ \A s \in Task \ {t} : task'[s] = task[s]
    BY DEF Retried, Inv, TypeOK, Run
  <1>2. lost' \in BOOLEAN /\ inflight' \subseteq Task
    BY DEF Retried, Inv, TypeOK
  <1> QED BY <1>1, <1>2 DEF Queue, Follows, Awake, Looks, Inv

\* Moving on to another step of the handler.
LEMMA MovesOn ==
    ASSUME Inv, NEW t \in Task, NEW run \in Run, task' = [task EXCEPT ![t] = run], UNCHANGED lost,
           run.pc = "enqueue" => run.ids # {}
    PROVE  Queue /\ (run.pc \notin {"none", "leave"} => Awake')
  BY DEF Inv, TypeOK, Follows, Queue, Awake, Looks

-----------------------------------------------------------------------------
(* The steps.  One lemma each for those that arm a successor. *)

LEMMA InitInv == Init => Inv
  <1> SUFFICES ASSUME Init PROVE Inv
    OBVIOUS
  <1>1. NoTask \in Run /\ NoTask.pc = "none"
    BY DEF NoTask, Run
  <1>2. TypeOK
    BY <1>1 DEF Init, TypeOK
  <1>3. Follows
    BY <1>1 DEF Init, Follows
  <1>4. Pending = {}
    BY DEF Init, Pending
  <1> QED BY <1>2, <1>3, <1>4 DEF Inv, Armed

\* What a step must leave behind.
LEMMA StepInv ==
    ASSUME Inv, Queue, UNCHANGED <<row, claimed>> \/ (row' \in [Row -> {"none", "pending", "done"}] /\ claimed' \subseteq Row),
           inflight' \subseteq Task, ghosts' \in Nat, reserved' \subseteq Slot, faults' \in [Kind -> Nat],
           lost' \/ Awake' \/ Pending' = {}
    PROVE  Inv'
  <1>1. TypeOK'
    BY DEF Inv, TypeOK, Queue
  <1>2. Armed'
    BY DEF Armed, Awake
  <1> QED BY <1>1, <1>2 DEF Inv, Queue

LEMMA FaultsCount ==
    ASSUME Inv, NoFault \/ \E k \in Kind : Fault(k)
    PROVE  faults' \in [Kind -> Nat]
  BY DEF Inv, TypeOK, NoFault, Fault

LEMMA Kinds == "crash" \in Kind /\ "error" \in Kind /\ "fail" \in Kind
  BY DEF Kind

LEMMA NewTrigger ==
    ASSUME Inv, EnqueueTrigger, UNCHANGED lost
    PROVE  Queue /\ Awake'
  <1>1. PICK K \in Fresh(1) : task' = With(task, K)
    BY DEF EnqueueTrigger
  <1>2. K \subseteq Slot /\ K # {} /\ \A s \in K : task[s].pc = "none"
    BY FreshIsNew
  <1>3. task \in [Task -> Run]
    BY DEF Inv, TypeOK
  <1>4. PICK s \in K : s \in Task
    BY <1>2 DEF Task
  <1>5. task' \in [Task -> Run] /\ task'[s].pc = "waiting" /\
        \A u \in Task : task'[u] = task[u] \/ task'[u].pc = "waiting"
    BY <1>1, <1>2, <1>3, <1>4, Enqueued
  <1> QED BY <1>4, <1>5 DEF Queue, Awake, Looks, Follows, Inv, TypeOK

LEMMA EnqueueWikiInv == ASSUME Inv, NEW r \in Row, EnqueueWiki(r) PROVE Inv'
  <1>1. row' \in [Row -> {"none", "pending", "done"}] /\ claimed' \subseteq Row /\ inflight' \subseteq Task
        /\ ghosts' \in Nat /\ reserved' \subseteq Slot /\ faults' \in [Kind -> Nat]
    BY FaultsCount, Kinds DEF EnqueueWiki, Inv, TypeOK, capVars
  <1>2. Queue /\ (lost' \/ Awake')
    <2>1. CASE EnqueueTrigger /\ UNCHANGED lost
      BY <2>1, NewTrigger
    <2>2. CASE lost' = TRUE /\ UNCHANGED task
      BY <2>2 DEF Queue, Follows, Inv, TypeOK
    <2> QED BY <2>1, <2>2 DEF EnqueueWiki
  <1> QED BY <1>1, <1>2, StepInv

LEMMA RearmInv == ASSUME Inv, RearmWikiTriggers PROVE Inv'
  <1>1. task \in [Task -> Run] /\ Rearmed \in Task /\ task[Rearmed].pc = "none" /\ task' = With(task, {Rearmed})
    BY DEF RearmWikiTriggers, Inv, TypeOK, Exists, Task
  <1>2. task' \in [Task -> Run] /\ task'[Rearmed].pc = "waiting" /\
        \A u \in Task : task'[u] = task[u] \/ task'[u].pc = "waiting"
    BY <1>1, Enqueued
  <1>3. Queue /\ Awake'
    BY <1>1, <1>2 DEF RearmWikiTriggers, Queue, Awake, Looks, Follows, Inv, TypeOK
  <1>4. faults' \in [Kind -> Nat]
    BY FaultsCount, Kinds DEF RearmWikiTriggers
  <1> QED BY <1>3, <1>4, StepInv DEF RearmWikiTriggers, rowVars, capVars, Inv, TypeOK

LEMMA RecoverInv == ASSUME Inv, RecoverPendingWikiTasks PROVE Inv'
  <1>1. Queue /\ Awake'
    BY NewTrigger DEF RecoverPendingWikiTasks
  <1>2. faults' \in [Kind -> Nat]
    BY FaultsCount, Kinds DEF RecoverPendingWikiTasks
  <1> QED BY <1>1, <1>2, StepInv DEF RecoverPendingWikiTasks, rowVars, capVars, Inv, TypeOK

LEMMA ReserveInv == ASSUME Inv, NEW t \in Task, ReserveInflightSlot(t) PROVE Inv'
  <1> DEFINE run == [task[t] EXCEPT !.pc = "claim"]
  <1>1. run \in Run /\ run.pc = "claim" /\ task' = [task EXCEPT ![t] = run] /\ UNCHANGED lost
    BY DEF ReserveInflightSlot, At, Inv, TypeOK, Run
  <1> HIDE DEF run
  <1>2. Queue /\ Awake'
    BY <1>1, MovesOn
  <1>3. faults' \in [Kind -> Nat]
    BY FaultsCount, Kinds DEF ReserveInflightSlot
  <1>4. inflight' \subseteq Task
    BY DEF ReserveInflightSlot, Inv, TypeOK
  <1> QED BY <1>2, <1>3, <1>4, StepInv DEF ReserveInflightSlot, rowVars, Inv, TypeOK

LEMMA CappedInv == ASSUME Inv, NEW t \in Task, ScheduleCappedRetry(t) PROVE Inv'
  <1>1. Looks(t) /\ Capped \in Task /\ inflight \in SUBSET Task
    BY DEF ScheduleCappedRetry, Looks, Task, Inv, TypeOK
  <1>2. Queue /\ (lost' \/ Awake')
    BY <1>1, SuccessorLooks, LossIsRecorded DEF ScheduleCappedRetry
  <1>3. faults' \in [Kind -> Nat]
    BY FaultsCount, Kinds DEF ScheduleCappedRetry
  <1> QED BY <1>2, <1>3, StepInv DEF ScheduleCappedRetry, rowVars, capVars, Inv, TypeOK

LEMMA ClaimInv == ASSUME Inv, NEW t \in Task, ClaimPendingList(t) PROVE Inv'
  <1>1. CASE Fault("error") /\ Retried(t) /\ UNCHANGED claimed
    <2>1. Queue /\ Awake' /\ inflight' \subseteq Task
      BY <1>1, RetriedLooks DEF ClaimPendingList
    <2>2. faults' \in [Kind -> Nat]
      BY <1>1, FaultsCount, Kinds
    <2> QED BY <1>1, <2>1, <2>2, StepInv DEF ClaimPendingList, Inv, TypeOK
  <1>2. CASE NoFault /\ UNCHANGED inflight /\ \E S \in SUBSET Claimable :
               /\ claimed' = claimed \cup S
               /\ task' = [task EXCEPT ![t] = [@ EXCEPT !.pc = "work", !.ops = S]]
    <2>1. PICK S \in SUBSET Claimable : /\ claimed' = claimed \cup S
                                       /\ task' = [task EXCEPT ![t] = [@ EXCEPT !.pc = "work", !.ops = S]]
      BY <1>2
    <2>2. S \subseteq Row
      BY DEF Claimable, Pending
    <2> DEFINE run == [task[t] EXCEPT !.pc = "work", !.ops = S]
    <2>3. run \in Run /\ run.pc = "work" /\ task' = [task EXCEPT ![t] = run]
      BY <2>1, <2>2 DEF Inv, TypeOK, Run
    <2> HIDE DEF run
    <2>4. Queue /\ Awake'
      BY <2>3, MovesOn DEF ClaimPendingList
    <2>5. faults' \in [Kind -> Nat]
      BY <1>2, FaultsCount
    <2> QED BY <1>2, <2>1, <2>2, <2>4, <2>5, StepInv DEF ClaimPendingList, Inv, TypeOK
  <1> QED BY <1>1, <1>2 DEF ClaimPendingList

\* A recheck that other batches cover.
LEMMA RecheckArms ==
    ASSUME Inv, NEW t \in Task, Looks(t), StaleClaimRecheck(t)
    PROVE  Queue /\ (lost' \/ Awake') /\ faults' \in [Kind -> Nat]
  <1>1. Recheck \in Task /\ {u \in Task : task[u].ops # {}} \in SUBSET Task
    BY DEF Task
  <1>2. Queue /\ (lost' \/ Awake')
    BY <1>1, SuccessorLooks, LossIsRecorded DEF StaleClaimRecheck
  <1> QED BY <1>2, FaultsCount, Kinds DEF StaleClaimRecheck

LEMMA NothingToClaimInv == ASSUME Inv, NEW t \in Task, ScheduleStaleClaimRecheck(t) PROVE Inv'
  <1>1. Looks(t)
    BY DEF ScheduleStaleClaimRecheck, Looks
  <1>2. CASE Pending = {}
    <2> DEFINE run == [task[t] EXCEPT !.pc = "leave"]
    <2>1. run \in Run /\ run.pc = "leave" /\ task' = [task EXCEPT ![t] = run] /\ UNCHANGED lost /\ NoFault
      BY <1>2 DEF ScheduleStaleClaimRecheck, At, Inv, TypeOK, Run
    <2> HIDE DEF run
    <2>2. Queue
      BY <2>1, MovesOn
    <2>3. Pending' = {} /\ faults' \in [Kind -> Nat]
      BY <1>2, <2>1, FaultsCount DEF ScheduleStaleClaimRecheck, rowVars, Pending
    <2> QED BY <2>2, <2>3, StepInv DEF ScheduleStaleClaimRecheck, rowVars, capVars, Inv, TypeOK
  <1>3. CASE StaleClaimRecheck(t)
    BY <1>1, <1>3, RecheckArms, StepInv DEF ScheduleStaleClaimRecheck, rowVars, capVars, Inv, TypeOK
  <1> QED BY <1>2, <1>3 DEF ScheduleStaleClaimRecheck

LEMMA SettleInv == ASSUME Inv, NEW t \in Task, Settle(t) PROVE Inv'
  <1> DEFINE run == [task[t] EXCEPT !.pc = "count", !.ops = {}]
  <1>1. run \in Run /\ run.pc = "count" /\ task' = [task EXCEPT ![t] = run] /\ UNCHANGED lost
    BY DEF Settle, Inv, TypeOK, Run
  <1> HIDE DEF run
  <1>2. Queue /\ Awake'
    BY <1>1, MovesOn
  <1>3. faults' \in [Kind -> Nat]
    BY FaultsCount, Kinds DEF Settle
  <1>4. row' \in [Row -> {"none", "pending", "done"}] /\ claimed' \subseteq Row
    BY DEF Settle, Inv, TypeOK
  <1> QED BY <1>2, <1>3, <1>4, StepInv DEF Settle, capVars, Inv, TypeOK

LEMMA AbortInv == ASSUME Inv, NEW t \in Task, AbortBatch(t) PROVE Inv'
  <1>1. Queue /\ Awake' /\ inflight' \subseteq Task
    BY RetriedLooks DEF AbortBatch
  <1>2. faults' \in [Kind -> Nat]
    BY FaultsCount, Kinds DEF AbortBatch
  <1>3. row' \in [Row -> {"none", "pending", "done"}] /\ claimed' \subseteq Row
    BY DEF AbortBatch, Inv, TypeOK
  <1> QED BY <1>1, <1>2, <1>3, StepInv DEF AbortBatch, Inv, TypeOK

LEMMA CrashInv == ASSUME Inv, NEW t \in Task, Crash(t) PROVE Inv'
  <1>1. Queue /\ Awake' /\ inflight' \subseteq Task
    BY RetriedLooks DEF Crash
  <1>2. faults' \in [Kind -> Nat] /\ ghosts' \in Nat
    BY FaultsCount, Kinds DEF Crash, Inv, TypeOK
  <1> QED BY <1>1, <1>2, StepInv DEF Crash, rowVars, Inv, TypeOK

\* A probe that stands in for follow-ups, beside those that are reserved.
LEMMA ProbeArms ==
    ASSUME Inv, NEW t \in Task, Looks(t), FollowUpRecheck(t)
    PROVE  Queue /\ (lost' \/ Awake')
  <1>1. ProbeFor(t) \in Task /\ reserved \in SUBSET Task
    BY DEF ProbeFor, Task, Inv, TypeOK
  <1> QED BY <1>1, SuccessorLooks DEF FollowUpRecheck

LEMMA ReservationArms ==
    ASSUME Inv, NEW t \in Task, Looks(t), NEW n, ReserveFollowUpTasks(t, n)
    PROVE  Queue /\ (lost' \/ Awake') /\ reserved' \subseteq Slot /\ faults' \in [Kind -> Nat]
  <1>1. PICK gone \in SUBSET reserved : \E ids \in Fresh(Least(n, Available(reserved \ gone))) :
               /\ IF gone \subseteq Missing THEN NoFault ELSE Fault("error")
               /\ reserved' = (reserved \ gone) \cup ids
               /\ IF ids = {} THEN FollowUpRecheck(t)
                  ELSE /\ task' = [task EXCEPT ![t] = [@ EXCEPT !.pc = "enqueue", !.ids = ids]]
                       /\ UNCHANGED lost
    BY DEF ReserveFollowUpTasks
  <1>2. PICK ids \in Fresh(Least(n, Available(reserved \ gone))) :
               /\ IF gone \subseteq Missing THEN NoFault ELSE Fault("error")
               /\ reserved' = (reserved \ gone) \cup ids
               /\ IF ids = {} THEN FollowUpRecheck(t)
                  ELSE /\ task' = [task EXCEPT ![t] = [@ EXCEPT !.pc = "enqueue", !.ids = ids]]
                       /\ UNCHANGED lost
    BY <1>1
  <1>3. ids \subseteq Slot
    BY FreshIsNew
  <1>4. reserved' \subseteq Slot /\ faults' \in [Kind -> Nat]
    BY <1>2, <1>3, FaultsCount, Kinds DEF Inv, TypeOK
  <1>5. CASE ids = {}
    BY <1>2, <1>4, <1>5, ProbeArms
  <1>6. CASE ids # {}
    <2> DEFINE run == [task[t] EXCEPT !.pc = "enqueue", !.ids = ids]
    <2>1. run \in Run /\ run.pc = "enqueue" /\ run.ids = ids /\ task' = [task EXCEPT ![t] = run] /\ UNCHANGED lost
      <3>1. task[t] \in Run
        BY DEF Inv, TypeOK
      <3>2. run \in Run /\ run.pc = "enqueue" /\ run.ids = ids
        BY <1>3, <3>1 DEF Run
      <3>3. task' = [task EXCEPT ![t] = run] /\ UNCHANGED lost
        BY <1>2, <1>6
      <3> QED BY <3>2, <3>3
    <2> HIDE DEF run
    <2> QED BY <1>4, <1>6, <2>1, MovesOn
  <1> QED BY <1>5, <1>6

LEMMA FollowUpInv == ASSUME Inv, NEW t \in Task, ScheduleFollowUp(t) PROVE Inv'
  <1> USE DEF rowVars, capVars
  <1>1. Looks(t) /\ UNCHANGED <<rowVars, capVars>>
    BY DEF ScheduleFollowUp, Looks
  <1>2. ASSUME Queue, reserved' \subseteq Slot, faults' \in [Kind -> Nat], lost' \/ Awake' \/ Pending' = {}
        PROVE  Inv'
    BY <1>1, <1>2, StepInv DEF Inv, TypeOK
  <1>3. UNCHANGED reserved => reserved' \subseteq Slot
    BY DEF Inv, TypeOK
  <1>4. CASE Pending = {} /\ NoFault /\ task' = At(t, "leave") /\ UNCHANGED <<reserved, lost>>
    <2> DEFINE run == [task[t] EXCEPT !.pc = "leave"]
    <2>1. run \in Run /\ run.pc = "leave" /\ task' = [task EXCEPT ![t] = run]
      BY <1>4 DEF At, Inv, TypeOK, Run
    <2> HIDE DEF run
    <2>2. Queue
      BY <1>4, <2>1, MovesOn
    <2>3. Pending' = {}
      BY <1>1, <1>4 DEF Pending
    <2> QED BY <1>2, <1>3, <1>4, <2>2, <2>3, FaultsCount
  <1>5. CASE Fault("error") /\ Disarms(t) /\ UNCHANGED reserved
    BY <1>2, <1>3, <1>5, LossIsRecorded, FaultsCount, Kinds
  <1>6. CASE Fault("error") /\ FollowUpRecheck(t) /\ UNCHANGED reserved
    BY <1>1, <1>2, <1>3, <1>6, ProbeArms, FaultsCount, Kinds
  <1>7. CASE StaleClaimRecheck(t) /\ UNCHANGED reserved
    BY <1>1, <1>2, <1>3, <1>7, RecheckArms
  <1>8. CASE /\ Fault("error")
             /\ \E K \in Fresh(1) : task' = With(At(t, "leave"), K)
             /\ UNCHANGED <<reserved, lost>>
    <2>1. PICK K \in Fresh(1) : task' = With(At(t, "leave"), K)
      BY <1>8
    <2>2. K \subseteq Slot /\ K # {} /\ \A s \in K : task[s].pc = "none"
      BY FreshIsNew
    <2>3. PICK s \in K : s \in Task
      BY <2>2 DEF Task
    <2> DEFINE left == At(t, "leave")
    <2>4. left \in [Task -> Run] /\ left[t].pc = "leave" /\ left[s].pc = "none" /\ \A u \in Task \ {t} : left[u] = task[u]
      BY <1>1, <2>2, <2>3 DEF At, Looks, Inv, TypeOK, Run
    <2>5. task' = With(left, K)
      BY <2>1
    <2> HIDE DEF left
    <2>6. task' \in [Task -> Run] /\ task'[s].pc = "waiting" /\
          \A u \in Task : task'[u] = left[u] \/ task'[u].pc = "waiting"
      BY <2>3, <2>4, <2>5, Enqueued
    <2>7. Queue /\ Awake'
      BY <1>8, <2>3, <2>4, <2>6 DEF Queue, Awake, Looks, Follows, Inv, TypeOK
    <2> QED BY <1>2, <1>3, <1>8, <2>7, FaultsCount, Kinds
  <1>9. CASE \E n \in {1, FollowUpTriggerCount(Cardinality(Claimable), Taken)} : ReserveFollowUpTasks(t, n)
    BY <1>1, <1>2, <1>9, ReservationArms
  <1> QED BY <1>4, <1>5, <1>6, <1>7, <1>8, <1>9 DEF ScheduleFollowUp

LEMMA SentInv == ASSUME Inv, NEW t \in Task, EnqueueFollowUps(t) PROVE Inv'
  <1> DEFINE left == [task EXCEPT ![t] = [@ EXCEPT !.pc = "leave", !.ids = {}]]
             sent(S) == [s \in Task |-> IF s \in S THEN [NoTask EXCEPT !.pc = "waiting", !.follow = s \in reserved]
                                        ELSE left[s]]
             probe == ProbeFor(t)
  <1>1. PICK S \in SUBSET task[t].ids :
              IF S = task[t].ids
              THEN NoFault /\ task' = sent(S) /\ UNCHANGED lost
              ELSE /\ Fault("error")
                   /\ task' = With(sent(S), {probe})
                   /\ lost' = (lost \/ (S = {} /\ Exists(probe) /\ ~Looks(probe)))
    BY DEF EnqueueFollowUps
  <1>2. task \in [Task -> Run] /\ task[t].pc = "enqueue" /\ task[t].ids # {} /\ S \subseteq Slot /\ lost \in BOOLEAN
    BY DEF EnqueueFollowUps, Inv, TypeOK, Follows, Run
  <1>3. left \in [Task -> Run] /\ left[t].pc = "leave" /\ \A u \in Task \ {t} : left[u] = task[u]
    BY <1>2 DEF Run
  <1> HIDE DEF left
  <1>4. /\ sent(S) \in [Task -> Run]
        /\ \A s \in S : sent(S)[s].pc = "waiting"
        /\ \A s \in Task \ S : sent(S)[s] = left[s]
    <2> DEFINE new(s) == [NoTask EXCEPT !.pc = "waiting", !.follow = s \in reserved]
    <2>1. \A s : new(s) \in Run /\ new(s).pc = "waiting"
      <3>1. \A b \in BOOLEAN : /\ [NoTask EXCEPT !.pc = "waiting", !.follow = b] \in Run
                              /\ [NoTask EXCEPT !.pc = "waiting", !.follow = b].pc = "waiting"
        BY DEF NoTask, Run
      <3>2. \A s : (s \in reserved) \in BOOLEAN
        OBVIOUS
      <3> QED BY <3>1, <3>2
    <2>2. sent(S) = [s \in Task |-> IF s \in S THEN new(s) ELSE left[s]]
      OBVIOUS
    <2>3. S \subseteq Task
      BY <1>2 DEF Task
    <2> HIDE DEF new, sent
    <2> QED BY <1>3, <2>1, <2>2, <2>3
  <1> HIDE DEF sent
  <1>5. probe \in Task /\ probe # t
    BY DEF ProbeFor, Task, Probe, ProbeNext
  <1> HIDE DEF probe
  <1>6. /\ task' \in [Task -> Run]
        /\ \A u \in Task : task'[u] = sent(S)[u] \/ (sent(S)[u].pc = "none" /\ task'[u].pc = "waiting")
        /\ S # task[t].ids /\ sent(S)[probe].pc = "none" => task'[probe].pc = "waiting"
    BY <1>1, <1>4, <1>5, Enqueued
  <1>7. Follows'
    BY <1>3, <1>4, <1>6 DEF Follows, Inv
  <1>8. lost' \in BOOLEAN
    BY <1>1, <1>2
  <1>9. lost' \/ Awake'
    <2>1. CASE S # {}
      <3>1. PICK s \in S : s \in Task
        BY <1>2, <2>1 DEF Task
      <3> QED BY <1>4, <1>6, <3>1 DEF Awake, Looks
    <2>2. CASE S = {} /\ Exists(probe) /\ ~Looks(probe)
      BY <1>1, <1>2, <2>2
    <2>3. CASE S = {} /\ ~Exists(probe)
      BY <1>2, <1>3, <1>4, <1>5, <1>6, <2>3 DEF Exists, Awake, Looks
    <2>4. CASE S = {} /\ Looks(probe)
      BY <1>3, <1>4, <1>5, <1>6, <2>4 DEF Awake, Looks
    <2> QED BY <2>1, <2>2, <2>3, <2>4
  <1>10. faults' \in [Kind -> Nat]
    BY <1>1, FaultsCount, Kinds
  <1> QED BY <1>6, <1>7, <1>8, <1>9, <1>10, StepInv DEF EnqueueFollowUps, Queue, rowVars, capVars, Inv, TypeOK

LEMMA LeaveInv == ASSUME Inv, NEW t \in Task, Leave(t) PROVE Inv'
  <1>1. NoTask \in Run /\ NoTask.pc = "none" /\ task \in [Task -> Run] /\ task[t].pc = "leave"
    BY DEF Leave, NoTask, Run, Inv, TypeOK
  <1>2. task' \in [Task -> Run] /\ task'[t].pc = "none" /\ \A u \in Task \ {t} : task'[u] = task[u]
    BY <1>1 DEF Leave
  <1>3. Queue
    BY <1>2 DEF Leave, Queue, Follows, Inv, TypeOK
  <1>4. lost' \/ Awake' \/ Pending' = {}
    <2>1. Pending' = Pending /\ lost' = lost
      BY DEF Leave, Pending, rowVars
    <2>2. Awake => Awake'
      BY <1>1, <1>2 DEF Awake, Looks
    <2> QED BY <2>1, <2>2 DEF Inv, Armed, Awake
  <1> QED BY <1>3, <1>4, StepInv DEF Leave, rowVars, Inv, TypeOK

\* The passing of time changes no task and adds no row.
LEMMA TimeInv ==
    ASSUME Inv, UNCHANGED <<row, task, inflight, reserved, lost, faults>>, claimed' \subseteq Row, ghosts' \in Nat
    PROVE  Inv'
  BY DEF Inv, TypeOK, Follows, Armed, Pending, Looks

LEMMA NextInv == Inv /\ [Next]_vars => Inv'
  <1> SUFFICES ASSUME Inv, [Next]_vars PROVE Inv'
    OBVIOUS
  <1>1. ASSUME NEW r \in Row, EnqueueWiki(r) PROVE Inv'
    BY <1>1, EnqueueWikiInv
  <1>2. ASSUME NEW r \in Row, ClaimGoesStale(r) PROVE Inv'
    BY <1>2, TimeInv DEF ClaimGoesStale, capVars, Inv, TypeOK
  <1>3. ASSUME NEW t \in Task, Step(t) PROVE Inv'
    BY <1>3, ReserveInv, CappedInv, ClaimInv, NothingToClaimInv, SettleInv, AbortInv,
       FollowUpInv, SentInv, LeaveInv DEF Step
  <1>4. ASSUME NEW t \in Task, Crash(t) PROVE Inv'
    BY <1>4, CrashInv
  <1>5. CASE RearmWikiTriggers
    BY <1>5, RearmInv
  <1>6. CASE RecoverPendingWikiTasks
    BY <1>6, RecoverInv
  <1>7. CASE SlotExpires
    BY <1>7, TimeInv DEF SlotExpires, rowVars, Inv, TypeOK
  <1>8. CASE UNCHANGED vars
    BY <1>8, TimeInv DEF vars, Inv, TypeOK
  <1> QED BY <1>1, <1>2, <1>3, <1>4, <1>5, <1>6, <1>7, <1>8 DEF Next

-----------------------------------------------------------------------------

\* scheduleFollowUp, scheduleCappedRetry, scheduleStaleClaimRecheck and the enqueuing of
\* rows together: at any time a task will still look at the rows that wait, unless a
\* handler found the identity of its successor taken by a task that no longer looks,
\* or could not enqueue it.
THEOREM ArmedAlways == Spec => []Armed
  <1>1. Inv => Armed
    BY DEF Inv
  <1> QED BY InitInv, NextInv, <1>1, PTL DEF Spec

\* The types of the tasks, slots and reservations.
THEOREM TriggersTyped == Spec => []TypeOK
  <1>1. Inv => TypeOK
    BY DEF Inv
  <1> QED BY InitInv, NextInv, <1>1, PTL DEF Spec

-----------------------------------------------------------------------------
(* The caps *)

ActivePc == {"claim", "work", "count", "enqueue"}
Active == {t \in Task : task[t].pc \in ActivePc}

\* The slots taken stay within the cap; each batch without one came with a Redis error.
CapInv ==
    /\ Cardinality(inflight) <= Cap
    /\ Cardinality(Active \ inflight) <= faults["error"]

\* Follow-ups that were enqueued under their reservation keep it while they exist; the
\* identities that wait to be enqueued are of no task yet, and of one batch only.
ReservedInv ==
    /\ Cardinality(reserved) <= Cap + 1
    /\ \A s \in Task : task[s].follow => s \in reserved /\ task[s].pc # "none"
    /\ \A t \in Task : \A s \in task[t].ids : task[s].pc = "none"
    /\ \A t, u \in Task : t # u => task[t].ids \cap task[u].ids = {}

LEMMA FiniteTasks ==
    /\ IsFiniteSet(Slot) /\ IsFiniteSet(Task) /\ Slot \subseteq Task
    /\ Cap \in Nat /\ Cap >= 1 /\ MaxTask \in Nat
    /\ Capped \notin Slot /\ Recheck \notin Slot /\ Probe \notin Slot /\ ProbeNext \notin Slot
    /\ Rearmed \notin Slot
<1>1. Cap \in Nat /\ Cap >= 1 /\ MaxTask \in Nat
  BY ConstantsAreSound
<1>2. IsFiniteSet(Slot)
  BY <1>1, FS_Interval DEF Slot
<1>3. IsFiniteSet({Capped}) /\ IsFiniteSet({Recheck}) /\ IsFiniteSet({Probe})
      /\ IsFiniteSet({ProbeNext}) /\ IsFiniteSet({Rearmed})
  BY FS_Singleton
<1>4. Task = {Capped} \cup ({Recheck} \cup ({Probe} \cup ({ProbeNext} \cup ({Rearmed} \cup Slot))))
  BY DEF Task
<1>5. IsFiniteSet(Task)
  BY <1>2, <1>3, <1>4, FS_Union
<1> QED BY <1>1, <1>2, <1>4, <1>5 DEF Capped, Recheck, Probe, ProbeNext, Rearmed, Slot

\* A task that is new to the queue, and none of those a batch is about to enqueue.
Appears(s) ==
    /\ task[s].pc = "none" /\ s \notin Enqueuing
    /\ task'[s].pc = "waiting" /\ ~task'[s].follow /\ task'[s].ids = {}

Others(t) == \A s \in Task \ {t} : task'[s] = task[s] \/ Appears(s)

\* Tasks come, and none goes on.
Grows == /\ \A s \in Task : task'[s] = task[s] \/ Appears(s)
         /\ UNCHANGED <<inflight, reserved>>

\* A task goes on without a new slot or a new reservation.
Moves(t) ==
    /\ Others(t)
    /\ task[t].pc # "none" /\ task'[t].pc # "none"
    /\ task'[t].follow = task[t].follow /\ task'[t].ids \subseteq task[t].ids
    /\ task'[t].pc \in ActivePc => task[t].pc \in ActivePc
    /\ \/ inflight' = inflight
       \/ inflight' = inflight \ {t} /\ task'[t].pc = "waiting"
    /\ reserved' \subseteq reserved /\ \A s \in reserved \ reserved' : task[s].pc = "none"

\* A task goes on with a new reservation.
Reserves(t) ==
    \E gone \in SUBSET reserved :
        \E n : \E ids \in Fresh(Least(n, Available(reserved \ gone))) :
            /\ gone \subseteq Missing \cup Stalled
            /\ reserved' = (reserved \ gone) \cup ids
            /\ task' = [task EXCEPT ![t] = [@ EXCEPT !.pc = "enqueue", !.ids = ids]]
            /\ task[t].pc = "count" /\ inflight' = inflight

LEMMA WithAppears ==
    ASSUME TypeOK, NEW tk \in [Task -> Run], NEW S, task' = With(tk, S), NEW s \in Task, tk[s] = task[s],
           s \in S => s \notin Enqueuing
    PROVE  task'[s] = task[s] \/ Appears(s)
<1>1. CASE s \in S /\ tk[s].pc = "none"
  <2>1. task'[s] = [NoTask EXCEPT !.pc = "waiting"]
    BY <1>1 DEF With
  <2>2. task'[s].pc = "waiting" /\ ~task'[s].follow /\ task'[s].ids = {}
    BY <2>1 DEF NoTask
  <2> QED BY <1>1, <2>2 DEF Appears
<1>2. CASE ~(s \in S /\ tk[s].pc = "none")
  BY <1>2 DEF With
<1> QED BY <1>1, <1>2

LEMMA LeavesTask ==
    ASSUME TypeOK, NEW t \in Task, NEW pc \in {"leave", "claim"}
    PROVE  /\ At(t, pc) \in [Task -> Run] /\ At(t, pc)[t].pc = pc
           /\ At(t, pc)[t].follow = task[t].follow /\ At(t, pc)[t].ids = task[t].ids
           /\ \A s \in Task \ {t} : At(t, pc)[s] = task[s]
  BY DEF At, TypeOK, Run

LEMMA NamedNotEnqueued ==
    ASSUME TypeOK
    PROVE  Enqueuing \subseteq Slot
  BY DEF Enqueuing, TypeOK, Run

LEMMA ArmsMoves ==
    ASSUME TypeOK, NEW t \in Task, task[t].pc # "none", NEW id \in Task, id \notin Slot, NEW others,
           Arms(t, id, others), inflight' = inflight,
           reserved' \subseteq reserved, \A s \in reserved \ reserved' : task[s].pc = "none"
    PROVE  Moves(t)
<1>1. task' = With(At(t, "leave"), {id}) /\ id \notin Enqueuing
  BY NamedNotEnqueued DEF Arms
<1> DEFINE S == {id}
<1>0. task' = With(At(t, "leave"), S) /\ \A s \in S : s \notin Enqueuing
  BY <1>1
<1> HIDE DEF S
<1>2. Others(t)
  BY <1>0, LeavesTask, WithAppears DEF Others
<1>3. task'[t] = At(t, "leave")[t]
  BY <1>1, LeavesTask DEF With
<1> QED BY <1>2, <1>3, LeavesTask DEF Moves, ActivePc

LEMMA LeaveMoves ==
    ASSUME TypeOK, NEW t \in Task, task[t].pc # "none", task' = At(t, "leave"), UNCHANGED <<inflight, reserved>>
    PROVE  Moves(t)
  BY LeavesTask DEF Moves, Others, ActivePc

LEMMA RetriedMoves ==
    ASSUME TypeOK, NEW t \in Task, task[t].pc # "none", Retried(t), UNCHANGED reserved
    PROVE  Moves(t)
<1>1. /\ task'[t].pc = "waiting" /\ task'[t].ids = {} /\ task'[t].follow = task[t].follow
      /\ \A s \in Task \ {t} : task'[s] = task[s]
  BY DEF Retried, TypeOK, Run
<1>2. inflight' = inflight \ {t} /\ reserved' = reserved
  BY DEF Retried
<1>3. Others(t)
  BY <1>1 DEF Others
<1> QED BY <1>1, <1>2, <1>3 DEF Moves, ActivePc

LEMMA TriggerGrows ==
    ASSUME TypeOK, EnqueueTrigger, UNCHANGED <<inflight, reserved>>
    PROVE  Grows
<1>1. PICK K \in Fresh(1) : task' = With(task, K)
  BY DEF EnqueueTrigger
<1>2. \A s \in K : s \notin Enqueuing
  BY DEF Fresh, Unused
<1>3. task \in [Task -> Run]
  BY DEF TypeOK
<1> QED BY <1>1, <1>2, <1>3, WithAppears DEF Grows

LEMMA FollowUpMoves ==
    ASSUME TypeOK, ReservedInv, NEW t \in Task, ScheduleFollowUp(t)
    PROVE  Moves(t) \/ Reserves(t)
<1>1. task[t].pc = "count" /\ inflight' = inflight
  BY DEF ScheduleFollowUp, capVars
<1>2. CASE task' = At(t, "leave") /\ UNCHANGED reserved
  BY <1>1, <1>2, LeaveMoves
<1>3. CASE Disarms(t) /\ UNCHANGED reserved
  BY <1>1, <1>3, LeaveMoves DEF Disarms
<1>4. ProbeFor(t) \in Task /\ ProbeFor(t) \notin Slot /\ Recheck \in Task /\ Recheck \notin Slot
  BY FiniteTasks DEF ProbeFor, Task
<1>5. CASE FollowUpRecheck(t) /\ UNCHANGED reserved
  BY <1>1, <1>4, <1>5, ArmsMoves DEF FollowUpRecheck
<1>6. CASE StaleClaimRecheck(t) /\ UNCHANGED reserved
  BY <1>1, <1>2, <1>3, <1>4, <1>6, ArmsMoves DEF StaleClaimRecheck
<1>7. ASSUME NEW K \in Fresh(1), task' = With(At(t, "leave"), K), UNCHANGED reserved
      PROVE  Moves(t)
  <2>1. \A s \in K : s \notin Enqueuing /\ task[s].pc = "none"
    BY DEF Fresh, Unused, Exists
  <2>2. Others(t)
    BY <1>7, <2>1, LeavesTask, WithAppears DEF Others
  <2>3. task'[t] = At(t, "leave")[t]
    BY <1>1, <1>7, <2>1, LeavesTask DEF With
  <2> QED BY <1>1, <1>7, <2>2, <2>3, LeavesTask DEF Moves, ActivePc
<1>8. ASSUME NEW n, ReserveFollowUpTasks(t, n)
      PROVE  Moves(t) \/ Reserves(t)
  <2>1. PICK gone \in SUBSET reserved : \E ids \in Fresh(Least(n, Available(reserved \ gone))) :
           /\ gone \subseteq Missing \cup Stalled
           /\ reserved' = (reserved \ gone) \cup ids
           /\ IF ids = {} THEN FollowUpRecheck(t)
              ELSE task' = [task EXCEPT ![t] = [@ EXCEPT !.pc = "enqueue", !.ids = ids]]
    BY <1>8 DEF ReserveFollowUpTasks, Due
  <2>2. PICK ids \in Fresh(Least(n, Available(reserved \ gone))) :
           /\ gone \subseteq Missing \cup Stalled
           /\ reserved' = (reserved \ gone) \cup ids
           /\ IF ids = {} THEN FollowUpRecheck(t)
              ELSE task' = [task EXCEPT ![t] = [@ EXCEPT !.pc = "enqueue", !.ids = ids]]
    BY <2>1
  <2>3. CASE ids # {}
    BY <1>1, <2>2, <2>3 DEF Reserves
  <2>4. CASE ids = {}
    <3>1. \A s \in gone : task[s].pc = "none"
      BY <2>2 DEF Missing, Stalled, Exists, Enqueuing, ReservedInv
    <3>2. reserved' \subseteq reserved /\ \A s \in reserved \ reserved' : task[s].pc = "none"
      BY <2>2, <2>4, <3>1
    <3>3. Arms(t, ProbeFor(t), reserved) /\ task[t].pc # "none"
      BY <1>1, <2>2, <2>4 DEF FollowUpRecheck
    <3> QED BY <1>1, <1>4, <3>2, <3>3, ArmsMoves
  <2> QED BY <2>3, <2>4
<1> QED BY <1>2, <1>3, <1>5, <1>6, <1>7, <1>8 DEF ScheduleFollowUp

LEMMA TaskShapes ==
    ASSUME TypeOK, ReservedInv, NEW t \in Task, Step(t) \/ Crash(t)
    PROVE  Moves(t) \/ ReserveInflightSlot(t) \/ Reserves(t) \/ EnqueueFollowUps(t) \/ Leave(t)
<1>0. Capped \in Task /\ Capped \notin Slot /\ Recheck \in Task /\ Recheck \notin Slot
  BY FiniteTasks DEF Task
<1>1. CASE ScheduleCappedRetry(t)
  <2>1. task[t].pc # "none" /\ UNCHANGED <<inflight, reserved>>
    BY <1>1 DEF ScheduleCappedRetry, capVars
  <2> QED BY <1>0, <1>1, <2>1, ArmsMoves, LeaveMoves DEF ScheduleCappedRetry, Disarms
<1>2. CASE ClaimPendingList(t)
  <2>1. task[t].pc = "claim" /\ reserved' = reserved
    BY <1>2 DEF ClaimPendingList
  <2>2. CASE Retried(t)
    BY <2>1, <2>2, RetriedMoves
  <2>3. ASSUME NEW S \in SUBSET Claimable, inflight' = inflight,
               task' = [task EXCEPT ![t] = [@ EXCEPT !.pc = "work", !.ops = S]]
        PROVE  Moves(t)
    <3>1. /\ task'[t].pc = "work" /\ task'[t].ids = task[t].ids /\ task'[t].follow = task[t].follow
          /\ \A s \in Task \ {t} : task'[s] = task[s]
      BY <2>3 DEF TypeOK, Run
    <3> QED BY <2>1, <2>3, <3>1 DEF Moves, Others, ActivePc
  <2> QED BY <1>2, <2>2, <2>3 DEF ClaimPendingList
<1>3. CASE ScheduleStaleClaimRecheck(t)
  <2>1. task[t].pc = "claim" /\ UNCHANGED <<inflight, reserved>>
    BY <1>3 DEF ScheduleStaleClaimRecheck, capVars
  <2> QED BY <1>0, <1>3, <2>1, ArmsMoves, LeaveMoves DEF ScheduleStaleClaimRecheck, StaleClaimRecheck, Disarms
<1>4. CASE Settle(t)
  <2>1. /\ task[t].pc = "work" /\ UNCHANGED <<inflight, reserved>>
        /\ task'[t].pc = "count" /\ task'[t].ids = task[t].ids /\ task'[t].follow = task[t].follow
        /\ \A s \in Task \ {t} : task'[s] = task[s]
    BY <1>4 DEF Settle, capVars, TypeOK, Run
  <2> QED BY <2>1 DEF Moves, Others, ActivePc
<1>5. CASE AbortBatch(t)
  BY <1>5, RetriedMoves DEF AbortBatch
<1>6. CASE Crash(t)
  BY <1>6, RetriedMoves DEF Crash
<1>7. CASE ScheduleFollowUp(t)
  BY <1>7, FollowUpMoves
<1> QED BY <1>1, <1>2, <1>3, <1>4, <1>5, <1>6, <1>7 DEF Step

LEMMA OtherShapes ==
    ASSUME TypeOK, \/ \E r \in Row : EnqueueWiki(r) \/ ClaimGoesStale(r)
                   \/ RearmWikiTriggers \/ RecoverPendingWikiTasks \/ SlotExpires \/ UNCHANGED vars
    PROVE  Grows
<1>1. CASE UNCHANGED <<task, inflight, reserved>>
  BY <1>1 DEF Grows
<1>2. ASSUME NEW r \in Row, EnqueueWiki(r) PROVE Grows
  BY <1>1, <1>2, TriggerGrows DEF EnqueueWiki, capVars
<1>3. CASE RearmWikiTriggers
  <2> DEFINE S == {Rearmed}
  <2>1. task' = With(task, S) /\ \A s \in S : s \notin Enqueuing
    BY <1>3, NamedNotEnqueued, FiniteTasks DEF RearmWikiTriggers
  <2> HIDE DEF S
  <2>2. task \in [Task -> Run]
    BY DEF TypeOK
  <2> QED BY <1>3, <2>1, <2>2, WithAppears DEF Grows, RearmWikiTriggers, capVars
<1>4. CASE RecoverPendingWikiTasks
  BY <1>4, TriggerGrows DEF RecoverPendingWikiTasks, capVars
<1>5. CASE (\E r \in Row : ClaimGoesStale(r)) \/ SlotExpires \/ UNCHANGED vars
  BY <1>1, <1>5 DEF ClaimGoesStale, SlotExpires, vars, rowVars, capVars
<1> QED BY <1>2, <1>3, <1>4, <1>5

\* The follow-ups that are sent, and the queue they leave behind.
LEMMA EnqueuesOthers ==
    ASSUME TypeOK, NEW t \in Task, EnqueueFollowUps(t)
    PROVE  /\ task'[t].pc \in {"leave", "waiting"}
           /\ \A s \in Task \ {t} : task'[s] = task[s] \/ task'[s].pc = "waiting"
<1> DEFINE left == [task EXCEPT ![t] = [@ EXCEPT !.pc = "leave", !.ids = {}]]
           sent(S) == [s \in Task |-> IF s \in S THEN [NoTask EXCEPT !.pc = "waiting", !.follow = s \in reserved]
                                      ELSE left[s]]
<1>1. left[t].pc = "leave" /\ \A s \in Task \ {t} : left[s] = task[s]
  BY DEF TypeOK, Run
<1> HIDE DEF left
<1>2. ASSUME NEW S, NEW s \in Task
      PROVE  \/ s \in S /\ sent(S)[s].pc = "waiting"
             \/ sent(S)[s] = left[s]
  BY DEF NoTask
<1>3. PICK S \in SUBSET task[t].ids : task' = sent(S) \/ task' = With(sent(S), {ProbeFor(t)})
  BY DEF EnqueueFollowUps, left
<1> HIDE DEF sent
<1>4. ASSUME NEW s \in Task
      PROVE  task'[s] = sent(S)[s] \/ task'[s].pc = "waiting"
  BY <1>3 DEF With, NoTask
<1> QED BY <1>1, <1>2, <1>4

\* A step shrinks the set of batches without a slot, or takes a slot, or is the Redis
\* error that lets one batch through.
LEMMA ActiveShrinks ==
    ASSUME TypeOK, \/ Grows
                   \/ \E t \in Task : Moves(t) \/ Reserves(t) \/ EnqueueFollowUps(t) \/ Leave(t)
    PROVE  inflight' \subseteq inflight /\ Active' \ inflight' \subseteq Active \ inflight
<1>1. CASE Grows
  BY <1>1 DEF Grows, Active, ActivePc, Appears
<1>2. ASSUME NEW t \in Task, Moves(t)
      PROVE  inflight' \subseteq inflight /\ Active' \ inflight' \subseteq Active \ inflight
  <2>1. \A s \in Task : task'[s].pc \in ActivePc => task[s].pc \in ActivePc
    BY <1>2 DEF Moves, Others, Appears, ActivePc
  <2>2. inflight' = inflight \/ (inflight' = inflight \ {t} /\ task'[t].pc \notin ActivePc)
    BY <1>2 DEF Moves, ActivePc
  <2> QED BY <2>1, <2>2 DEF Active
<1>3. ASSUME NEW t \in Task, Reserves(t)
      PROVE  inflight' \subseteq inflight /\ Active' \ inflight' \subseteq Active \ inflight
  <2>1. inflight' = inflight /\ task[t].pc = "count" /\ \A s \in Task \ {t} : task'[s] = task[s]
    BY <1>3 DEF Reserves, TypeOK
  <2> QED BY <2>1 DEF Active, ActivePc
<1>4. ASSUME NEW t \in Task, EnqueueFollowUps(t)
      PROVE  inflight' \subseteq inflight /\ Active' \ inflight' \subseteq Active \ inflight
  <2>1. inflight' = inflight /\ task[t].pc = "enqueue"
    BY <1>4 DEF EnqueueFollowUps, capVars
  <2>2. \A s \in Task \ {t} : task'[s] = task[s] \/ task'[s].pc = "waiting"
    BY <1>4, EnqueuesOthers
  <2>3. \A s \in Task : task'[s].pc \in ActivePc => s = t \/ task[s].pc \in ActivePc
    BY <2>2 DEF ActivePc
  <2> QED BY <2>1, <2>3 DEF Active, ActivePc
<1>5. ASSUME NEW t \in Task, Leave(t)
      PROVE  inflight' \subseteq inflight /\ Active' \ inflight' \subseteq Active \ inflight
  <2>1. /\ inflight' = inflight \ {t} /\ task'[t].pc = "none"
        /\ \A s \in Task \ {t} : task'[s] = task[s]
    BY <1>5 DEF Leave, NoTask, TypeOK
  <2> QED BY <2>1 DEF Active, ActivePc
<1> QED BY <1>1, <1>2, <1>3, <1>4, <1>5

LEMMA ErrorsGrow ==
    ASSUME TypeOK, [Next]_vars
    PROVE  faults'["error"] >= faults["error"] /\ faults["error"] \in Nat /\ faults'["error"] \in Nat
<1>1. ASSUME NEW k \in Kind, Fault(k) PROVE faults'["error"] >= faults["error"] /\ faults'["error"] \in Nat
  BY <1>1, Kinds DEF Fault, TypeOK
<1>2. NoFault \/ (\E k \in Kind : Fault(k)) \/ faults' = faults
  <2>1. CASE \E t \in Task : Step(t) \/ Crash(t)
    BY <2>1, Kinds DEF Step, ReserveInflightSlot, ScheduleCappedRetry, ClaimPendingList,
       ScheduleStaleClaimRecheck, StaleClaimRecheck, Settle, AbortBatch, ScheduleFollowUp,
       ReserveFollowUpTasks, EnqueueFollowUps, Leave, Crash
  <2>2. CASE ~\E t \in Task : Step(t) \/ Crash(t)
    BY <2>2, Kinds DEF Next, EnqueueWiki, ClaimGoesStale, RearmWikiTriggers, RecoverPendingWikiTasks,
       SlotExpires, vars
  <2> QED BY <2>1, <2>2
<1>3. faults["error"] \in Nat
  BY Kinds DEF TypeOK
<1> QED BY <1>1, <1>2, <1>3 DEF NoFault

LEMMA AddsOne ==
    ASSUME NEW S, IsFiniteSet(S), NEW x
    PROVE  /\ IsFiniteSet(S \cup {x}) /\ Cardinality(S \cup {x}) \in Nat
           /\ Cardinality(S \cup {x}) <= Cardinality(S) + 1
<1>1. IsFiniteSet(S \cup {x}) /\ Cardinality(S) \in Nat
  BY FS_AddElement, FS_CardinalityType
<1>2. Cardinality(S \cup {x}) = Cardinality(S) \/ Cardinality(S \cup {x}) = Cardinality(S) + 1
  BY FS_AddElement
<1> QED BY <1>1, <1>2

LEMMA CapStep ==
    ASSUME TypeOK, ReservedInv, CapInv, [Next]_vars
    PROVE  CapInv'
<1> DEFINE Bare == Active \ inflight
<1>0. /\ IsFiniteSet(inflight) /\ IsFiniteSet(Bare)
      /\ Cardinality(inflight) \in Nat /\ Cardinality(Bare) \in Nat
      /\ Cap \in Nat /\ ghosts \in Nat
  BY FiniteTasks, FS_Subset, FS_CardinalityType DEF TypeOK, Active
<1>1. faults'["error"] >= faults["error"] /\ faults["error"] \in Nat /\ faults'["error"] \in Nat
  BY ErrorsGrow
<1>2. CASE inflight' \subseteq inflight /\ Bare' \subseteq Bare
  <2>1. Cardinality(inflight') <= Cardinality(inflight) /\ Cardinality(inflight') \in Nat
    BY <1>0, <1>2, FS_Subset, FS_CardinalityType
  <2>2. Cardinality(Bare') <= Cardinality(Bare) /\ Cardinality(Bare') \in Nat
    BY <1>0, <1>2, FS_Subset, FS_CardinalityType
  <2> QED BY <1>0, <1>1, <2>1, <2>2 DEF CapInv
<1>3. ASSUME NEW t \in Task, ReserveInflightSlot(t)
      PROVE  CapInv'
  <2>1. Active' \subseteq Active \cup {t}
    BY <1>3, LeavesTask DEF ReserveInflightSlot, Active
  <2>2. CASE ~Full /\ inflight' = inflight \cup {t}
    <3>1. Cardinality(inflight') <= Cardinality(inflight) + 1 /\ Cardinality(inflight') \in Nat
      BY <1>0, <2>2, AddsOne
    <3>2. Cardinality(inflight) + ghosts < Cap
      BY <1>0, <2>2 DEF Full, Taken
    <3>3. Bare' \subseteq Bare
      BY <2>1, <2>2
    <3>4. Cardinality(Bare') <= Cardinality(Bare) /\ Cardinality(Bare') \in Nat
      BY <1>0, <3>3, FS_Subset, FS_CardinalityType
    <3> QED BY <1>0, <1>1, <3>1, <3>2, <3>4 DEF CapInv
  <2>3. CASE Fault("error") /\ inflight' = inflight
    <3>1. Bare' \subseteq Bare \cup {t}
      BY <2>1, <2>3
    <3>2. IsFiniteSet(Bare \cup {t}) /\ Cardinality(Bare \cup {t}) <= Cardinality(Bare) + 1
          /\ Cardinality(Bare \cup {t}) \in Nat
      BY <1>0, AddsOne
    <3>3. Cardinality(Bare') <= Cardinality(Bare \cup {t}) /\ Cardinality(Bare') \in Nat
      BY <3>1, <3>2, FS_Subset, FS_CardinalityType
    <3>4. faults'["error"] = faults["error"] + 1
      BY <2>3, Kinds DEF Fault, TypeOK
    <3> QED BY <1>0, <1>1, <2>3, <3>2, <3>3, <3>4 DEF CapInv
  <2> QED BY <1>3, <2>2, <2>3 DEF ReserveInflightSlot
<1> QED BY <1>2, <1>3, ActiveShrinks, TaskShapes, OtherShapes DEF Next

LEMMA GrowsReserved ==
    ASSUME TypeOK, ReservedInv, Grows
    PROVE  ReservedInv'
<1>1. \A s \in Task : task'[s].follow => task[s].follow /\ task'[s] = task[s]
  BY DEF Grows, Appears
<1>2. \A t \in Task : task'[t].ids \subseteq task[t].ids
  BY DEF Grows, Appears
<1>3. \A t \in Task : \A s \in task'[t].ids : task'[s].pc = "none"
  <2> TAKE t \in Task
  <2> TAKE s \in task'[t].ids
  <2>1. s \in task[t].ids /\ s \in Task /\ s \in Enqueuing
    BY <1>2, FiniteTasks DEF Enqueuing, TypeOK, Run
  <2> QED BY <2>1 DEF Grows, Appears, ReservedInv
<1> QED BY <1>1, <1>2, <1>3 DEF ReservedInv, Grows

LEMMA MovesReserved ==
    ASSUME TypeOK, ReservedInv, NEW t \in Task, Moves(t)
    PROVE  ReservedInv'
<1>1. \A s \in Task : task'[s].follow => task[s].follow /\ task'[s].pc # "none"
  BY DEF Moves, Others, Appears, ReservedInv
<1>2. \A u \in Task : task'[u].ids \subseteq task[u].ids
  BY DEF Moves, Others, Appears
<1>3. \A u \in Task : \A s \in task'[u].ids : task'[s].pc = "none"
  <2> TAKE u \in Task
  <2> TAKE s \in task'[u].ids
  <2>1. s \in task[u].ids /\ s \in Task /\ s \in Enqueuing /\ task[s].pc = "none"
    BY <1>2, FiniteTasks DEF Enqueuing, TypeOK, Run, ReservedInv
  <2> QED BY <2>1 DEF Moves, Others, Appears
<1>4. \A s \in Task : task'[s].follow => s \in reserved'
  BY <1>1 DEF Moves, ReservedInv
<1>5. Cardinality(reserved') <= Cap + 1
  <2>1. IsFiniteSet(reserved)
    BY FiniteTasks, FS_Subset DEF TypeOK
  <2>2. Cardinality(reserved') <= Cardinality(reserved) /\ Cardinality(reserved') \in Nat /\ Cardinality(reserved) \in Nat
    BY <2>1, FS_Subset, FS_CardinalityType DEF Moves
  <2> QED BY <2>2, FiniteTasks DEF ReservedInv
<1> QED BY <1>1, <1>2, <1>3, <1>4, <1>5 DEF ReservedInv

\* The identities a batch reserves are within the cap, and of no task and no other batch.
LEMMA ReservesReserved ==
    ASSUME TypeOK, ReservedInv, NEW t \in Task, Reserves(t)
    PROVE  ReservedInv'
<1>1. PICK gone \in SUBSET reserved : \E n : \E ids \in Fresh(Least(n, Available(reserved \ gone))) :
            /\ gone \subseteq Missing \cup Stalled
            /\ reserved' = (reserved \ gone) \cup ids
            /\ task' = [task EXCEPT ![t] = [@ EXCEPT !.pc = "enqueue", !.ids = ids]]
            /\ task[t].pc = "count" /\ inflight' = inflight
  BY DEF Reserves
<1>0. PICK n : \E ids \in Fresh(Least(n, Available(reserved \ gone))) :
            /\ gone \subseteq Missing \cup Stalled
            /\ reserved' = (reserved \ gone) \cup ids
            /\ task' = [task EXCEPT ![t] = [@ EXCEPT !.pc = "enqueue", !.ids = ids]]
            /\ task[t].pc = "count" /\ inflight' = inflight
  BY <1>1
<1>2. PICK ids \in Fresh(Least(n, Available(reserved \ gone))) :
            /\ gone \subseteq Missing \cup Stalled
            /\ reserved' = (reserved \ gone) \cup ids
            /\ task' = [task EXCEPT ![t] = [@ EXCEPT !.pc = "enqueue", !.ids = ids]]
            /\ task[t].pc = "count" /\ inflight' = inflight
  BY <1>0
<1>3. /\ ids \subseteq Slot /\ ids \cap Enqueuing = {} /\ \A s \in ids : task[s].pc = "none"
      /\ Cardinality(ids) = Least(n, Available(reserved \ gone))
  BY <1>2 DEF Fresh, Unused, Exists
<1>4. /\ task'[t].pc = "enqueue" /\ task'[t].ids = ids /\ task'[t].follow = task[t].follow
      /\ \A s \in Task \ {t} : task'[s] = task[s]
  BY <1>2 DEF TypeOK, Run
<1>5. Cardinality(reserved') <= Cap + 1
  <2>1. IsFiniteSet(reserved) /\ IsFiniteSet(reserved \ gone) /\ IsFiniteSet(ids)
    BY <1>3, FiniteTasks, FS_Subset DEF TypeOK
  <2>2. /\ Cardinality(reserved \ gone) <= Cardinality(reserved) /\ Cardinality(reserved) \in Nat
        /\ Cardinality(reserved \ gone) \in Nat /\ Cardinality(ids) \in Nat
    BY <2>1, FS_Subset, FS_CardinalityType
  <2>3. Cardinality(ids) <= Cap + 1 - Cardinality(reserved \ gone)
    BY <1>3, <2>2, FiniteTasks DEF Least, Available, ReservedInv
  <2>4. Cardinality(reserved') <= Cardinality(reserved \ gone) + Cardinality(ids) /\ Cardinality(reserved') \in Nat
    <3>1. /\ IsFiniteSet((reserved \ gone) \cup ids)
          /\ Cardinality((reserved \ gone) \cup ids)
               = Cardinality(reserved \ gone) + Cardinality(ids) - Cardinality((reserved \ gone) \cap ids)
      BY <2>1, FS_Union
    <3>2. Cardinality((reserved \ gone) \cap ids) \in Nat
      BY <2>1, FS_Intersection, FS_CardinalityType
    <3> QED BY <1>2, <2>2, <3>1, <3>2, FS_CardinalityType
  <2> QED BY <2>2, <2>3, <2>4, FiniteTasks
<1>6. \A s \in Task : task'[s].follow => s \in reserved' /\ task'[s].pc # "none"
  <2>1. \A s \in gone : task[s].pc = "none"
    BY <1>2 DEF Missing, Stalled, Exists, Enqueuing, ReservedInv
  <2> QED BY <1>2, <1>4, <2>1 DEF ReservedInv
<1>7. \A u \in Task : \A s \in task'[u].ids : task'[s].pc = "none"
  <2> TAKE u \in Task
  <2> TAKE s \in task'[u].ids
  <2>1. s \in Task /\ task[s].pc = "none"
    BY <1>3, <1>4, FiniteTasks DEF TypeOK, Run, ReservedInv
  <2> QED BY <1>2, <1>4, <2>1
<1>8. \A u, v \in Task : u # v => task'[u].ids \cap task'[v].ids = {}
  <2>1. \A u \in Task : task[u].ids \cap ids = {}
    BY <1>3 DEF Enqueuing
  <2> QED BY <1>4, <2>1 DEF ReservedInv
<1> QED BY <1>5, <1>6, <1>7, <1>8 DEF ReservedInv

\* What is sent is of the batch's own identities, and follows where it is still reserved.
Sends(t, S) ==
    /\ S \subseteq task[t].ids
    /\ \A s \in S : task'[s].pc = "waiting" /\ (task'[s].follow <=> s \in reserved) /\ task'[s].ids = {}
    /\ \/ t \in S
       \/ task'[t].pc = "leave" /\ task'[t].ids = {} /\ task'[t].follow = task[t].follow
    /\ \A s \in Task \ (S \cup {t}) :
          \/ task'[s] = task[s]
          \/ s \notin Slot /\ task'[s].pc = "waiting" /\ ~task'[s].follow /\ task'[s].ids = {}

LEMMA EnqueuesSends ==
    ASSUME TypeOK, NEW t \in Task, EnqueueFollowUps(t)
    PROVE  \E S \in SUBSET task[t].ids : Sends(t, S)
<1> DEFINE left == [task EXCEPT ![t] = [@ EXCEPT !.pc = "leave", !.ids = {}]]
           sent(S) == [s \in Task |-> IF s \in S THEN [NoTask EXCEPT !.pc = "waiting", !.follow = s \in reserved]
                                      ELSE left[s]]
<1>1. /\ left[t].pc = "leave" /\ left[t].ids = {} /\ left[t].follow = task[t].follow
      /\ \A s \in Task \ {t} : left[s] = task[s]
  BY DEF TypeOK, Run
<1>2. ASSUME NEW b \in BOOLEAN
      PROVE  LET q == [NoTask EXCEPT !.pc = "waiting", !.follow = b] IN
               q.pc = "waiting" /\ q.follow = b /\ q.ids = {}
  BY DEF NoTask
<1> HIDE DEF left
<1>3. PICK S \in SUBSET task[t].ids : task' = sent(S) \/ task' = With(sent(S), {ProbeFor(t)})
  BY DEF EnqueueFollowUps, left
<1>4. S \subseteq Slot /\ S \subseteq Task
  BY <1>3, FiniteTasks DEF TypeOK, Run
<1>5. \A s \in S : sent(S)[s].pc = "waiting" /\ (sent(S)[s].follow <=> s \in reserved) /\ sent(S)[s].ids = {}
  <2> TAKE s \in S
  <2> DEFINE b == s \in reserved
             q == [NoTask EXCEPT !.pc = "waiting", !.follow = b]
  <2>0. s \in Task /\ b \in BOOLEAN
    BY <1>4
  <2>1. sent(S)[s] = q
    BY <2>0, Zenon
  <2> HIDE DEF b
  <2>2. q.pc = "waiting" /\ q.follow = b /\ q.ids = {}
    BY <1>2, <2>0
  <2> QED BY <2>1, <2>2 DEF b
<1>6. \A s \in Task \ S : sent(S)[s] = left[s]
  OBVIOUS
<1> HIDE DEF sent
<1>7. ProbeFor(t) \in Task /\ ProbeFor(t) \notin Slot
  BY FiniteTasks DEF ProbeFor, Task
<1> DEFINE P == {ProbeFor(t)}
<1>8. \A s \in Task : s \notin P => task'[s] = sent(S)[s]
  BY <1>3 DEF With
<1>9. ASSUME NEW s \in Task
      PROVE  \/ task'[s] = sent(S)[s]
             \/ /\ s \notin Slot /\ sent(S)[s].pc = "none"
                /\ task'[s].pc = "waiting" /\ ~task'[s].follow /\ task'[s].ids = {}
  <2>1. CASE s \in P /\ sent(S)[s].pc = "none"
    <3>1. task' = sent(S) \/ task'[s] = [NoTask EXCEPT !.pc = "waiting"]
      BY <1>3, <2>1 DEF With
    <3> QED BY <1>7, <2>1, <3>1 DEF NoTask
  <2>2. CASE ~(s \in P /\ sent(S)[s].pc = "none")
    BY <1>3, <2>2 DEF With
  <2> QED BY <2>1, <2>2
<1>10. \A s \in S : task'[s].pc = "waiting" /\ (task'[s].follow <=> s \in reserved) /\ task'[s].ids = {}
  BY <1>4, <1>5, <1>9
<1>11. t \in S \/ (task'[t].pc = "leave" /\ task'[t].ids = {} /\ task'[t].follow = task[t].follow)
  BY <1>1, <1>6, <1>9
<1>12. \A s \in Task \ (S \cup {t}) :
          \/ task'[s] = task[s]
          \/ s \notin Slot /\ task'[s].pc = "waiting" /\ ~task'[s].follow /\ task'[s].ids = {}
  BY <1>1, <1>6, <1>9
<1> QED BY <1>10, <1>11, <1>12 DEF Sends

LEMMA SendsReserved ==
    ASSUME TypeOK, ReservedInv, NEW t \in Task, EnqueueFollowUps(t)
    PROVE  ReservedInv'
<1>1. PICK S \in SUBSET task[t].ids : Sends(t, S)
  BY EnqueuesSends
<1>2. task[t].pc = "enqueue" /\ reserved' = reserved
  BY DEF EnqueueFollowUps
<1>3. S \subseteq Slot /\ S \subseteq Task /\ t \notin S /\ \A s \in S : task[s].pc = "none"
  BY <1>1, <1>2, FiniteTasks DEF TypeOK, Run, ReservedInv
<1>4. task'[t].pc = "leave" /\ task'[t].ids = {} /\ task'[t].follow = task[t].follow
  BY <1>1, <1>3 DEF Sends
<1>5. \A s \in Task \ {t} : task'[s] = task[s] \/ (task'[s].pc = "waiting" /\ task'[s].ids = {}
          /\ (task'[s].follow => s \in reserved))
  BY <1>1 DEF Sends
<1>6. \A s \in Task : task'[s].follow => s \in reserved' /\ task'[s].pc # "none"
  BY <1>2, <1>4, <1>5 DEF ReservedInv
<1>7. \A u \in Task : (task'[u].ids = task[u].ids /\ u # t) \/ task'[u].ids = {}
  BY <1>4, <1>5
<1>8. \A u \in Task : \A s \in task'[u].ids : task'[s].pc = "none"
  <2> TAKE u \in Task
  <2> TAKE s \in task'[u].ids
  <2>1. u # t /\ s \in task[u].ids
    BY <1>7
  <2>2. s \in Slot /\ s \in Task /\ task[s].pc = "none"
    BY <2>1, FiniteTasks DEF TypeOK, Run, ReservedInv
  <2>3. s \notin S /\ s # t
    BY <1>1, <1>2, <2>1, <2>2 DEF ReservedInv
  <2>4. task'[s] = task[s]
    BY <1>1, <2>2, <2>3 DEF Sends
  <2> QED BY <2>2, <2>4
<1>9. \A u, v \in Task : u # v => task'[u].ids \cap task'[v].ids = {}
  BY <1>7 DEF ReservedInv
<1> QED BY <1>2, <1>6, <1>8, <1>9 DEF ReservedInv

LEMMA ReservedStep ==
    ASSUME TypeOK, ReservedInv, [Next]_vars
    PROVE  ReservedInv'
<1>1. ASSUME NEW t \in Task, ReserveInflightSlot(t)
      PROVE  ReservedInv'
  <2>1. /\ task[t].pc = "waiting" /\ task'[t].pc = "claim" /\ reserved' = reserved
        /\ task'[t].follow = task[t].follow /\ task'[t].ids = task[t].ids
        /\ \A s \in Task \ {t} : task'[s] = task[s]
    BY <1>1, LeavesTask DEF ReserveInflightSlot
  <2>2. \A s \in Task : /\ task'[s].follow = task[s].follow /\ task'[s].ids = task[s].ids
                         /\ task'[s].pc = "none" <=> task[s].pc = "none"
    BY <2>1
  <2>3. \A u \in Task : \A s \in task[u].ids : s \in Task
    BY FiniteTasks DEF TypeOK, Run
  <2> QED BY <2>1, <2>2, <2>3 DEF ReservedInv
<1>2. ASSUME NEW t \in Task, Leave(t)
      PROVE  ReservedInv'
  <2>1. /\ reserved' = reserved \ {t} /\ task'[t] = NoTask /\ \A s \in Task \ {t} : task'[s] = task[s]
    BY <1>2 DEF Leave, TypeOK
  <2>2. task'[t].pc = "none" /\ ~task'[t].follow /\ task'[t].ids = {}
    BY <2>1 DEF NoTask
  <2>3. Cardinality(reserved') <= Cap + 1
    <3>1. IsFiniteSet(reserved)
      BY FiniteTasks, FS_Subset DEF TypeOK
    <3>2. Cardinality(reserved') <= Cardinality(reserved) /\ Cardinality(reserved') \in Nat
          /\ Cardinality(reserved) \in Nat
      BY <2>1, <3>1, FS_Subset, FS_CardinalityType
    <3> QED BY <3>2, FiniteTasks DEF ReservedInv
  <2>4. \A u \in Task : \A s \in task'[u].ids : s \in task[u].ids /\ s \in Task
    BY <2>1, <2>2, FiniteTasks DEF TypeOK, Run
  <2>5. \A u \in Task : \A s \in task'[u].ids : task'[s].pc = "none"
    BY <2>1, <2>2, <2>4 DEF ReservedInv
  <2>6. \A s \in Task : task'[s].follow => s \in reserved' /\ task'[s].pc # "none"
    BY <2>1, <2>2 DEF ReservedInv
  <2>7. \A u, v \in Task : u # v => task'[u].ids \cap task'[v].ids = {}
    BY <2>1, <2>2 DEF ReservedInv
  <2> QED BY <2>3, <2>5, <2>6, <2>7 DEF ReservedInv
<1> QED BY <1>1, <1>2, GrowsReserved, MovesReserved, ReservesReserved, SendsReserved,
           TaskShapes, OtherShapes DEF Next

LEMMA CapsFit ==
    ASSUME TypeOK, CapInv, ReservedInv
    PROVE  CapsHold
<1>0. /\ IsFiniteSet(inflight) /\ IsFiniteSet(Active) /\ IsFiniteSet(Active \ inflight)
      /\ IsFiniteSet(Active \cap inflight) /\ IsFiniteSet(reserved)
  BY FiniteTasks, FS_Subset DEF TypeOK, Active
<1>1. Cardinality(Active) <= Cap + faults["error"]
  <2>1. Cardinality(Active \cap inflight) <= Cardinality(inflight)
    BY <1>0, FS_Subset
  <2>2. Cardinality((Active \cap inflight) \cup (Active \ inflight))
          = Cardinality(Active \cap inflight) + Cardinality(Active \ inflight)
              - Cardinality((Active \cap inflight) \cap (Active \ inflight))
    BY <1>0, FS_Union
  <2>3. /\ (Active \cap inflight) \cup (Active \ inflight) = Active
        /\ (Active \cap inflight) \cap (Active \ inflight) = {}
    OBVIOUS
  <2>4. Cardinality({}) = 0
    BY FS_EmptySet
  <2>5. /\ Cardinality(Active \cap inflight) \in Nat /\ Cardinality(Active \ inflight) \in Nat
        /\ Cardinality(inflight) \in Nat /\ faults["error"] \in Nat
    BY <1>0, FS_CardinalityType, Kinds DEF TypeOK
  <2> QED BY <2>1, <2>2, <2>3, <2>4, <2>5, FiniteTasks DEF CapInv
<1>2. Cardinality({s \in Slot : task[s].follow}) <= Cap + 1
  <2>1. {s \in Slot : task[s].follow} \subseteq reserved
    BY FiniteTasks DEF ReservedInv
  <2>2. /\ Cardinality({s \in Slot : task[s].follow}) <= Cardinality(reserved)
        /\ IsFiniteSet({s \in Slot : task[s].follow})
    BY <1>0, <2>1, FS_Subset
  <2>3. Cardinality({s \in Slot : task[s].follow}) \in Nat /\ Cardinality(reserved) \in Nat
    BY <1>0, <2>2, FS_CardinalityType
  <2> QED BY <2>2, <2>3, FiniteTasks DEF ReservedInv
<1> QED BY <1>1, <1>2 DEF CapsHold, Active, ActivePc

LEMMA CapsInit ==
    ASSUME Init
    PROVE  CapInv /\ ReservedInv
<1>1. inflight = {} /\ reserved = {} /\ Active = {} /\ \A t \in Task : task[t].ids = {} /\ ~task[t].follow
  BY DEF Init, Active, ActivePc, NoTask
<1>2. Active \ inflight = {} /\ Cardinality({}) = 0
  BY <1>1, FS_EmptySet
<1>3. faults["error"] = 0
  BY Kinds DEF Init
<1>4. CapInv
  BY <1>1, <1>2, <1>3, FiniteTasks DEF CapInv
<1> QED BY <1>1, <1>2, <1>4, FiniteTasks DEF ReservedInv

\* wiki_ingest's cap on batches in flight and reserveWikiFollowUpTasks: however batches end,
\* die or are retried, no more of them work than the cap, but for one per Redis error, and
\* no more reserved follow-ups exist than the cap and one.
THEOREM CapsAreKept == Spec => []CapsHold
<1>1. Init => TypeOK /\ CapInv /\ ReservedInv
  BY InitInv, CapsInit DEF Inv
<1>2. TypeOK /\ CapInv /\ ReservedInv /\ [Next]_vars => CapInv' /\ ReservedInv'
  BY CapStep, ReservedStep
<1>3. TypeOK /\ CapInv /\ ReservedInv => CapsHold
  BY CapsFit
<1> QED BY <1>1, <1>2, <1>3, TriggersTyped, PTL DEF Spec
=============================================================================
