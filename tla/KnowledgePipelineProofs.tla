---------------------- MODULE KnowledgePipelineProofs ----------------------
(***************************************************************************)
(* Proofs about KnowledgePipeline for any number of subtasks, reparses,    *)
(* cancels, redeliveries, crashes and refused or lost writes: a cancelled  *)
(* row stays so (CancelHolds), the types (PipelineTyped), and the accounts *)
(* of a row parsed for one request without a crash: its counter            *)
(* (CounterIsExact), its completion (CompletesLast) and its chunks         *)
(* (ChunksOfOneRun).                                                       *)
(***************************************************************************)
EXTENDS KnowledgePipeline, FiniteSetTheorems, TLAPS

\* A task at one of the places of ProcessDocument is a parse at work.
LEMMA WorkingProcess ==
    ASSUME NEW t \in ProcessTask,
           pc[t] \in {"read", "clear", "marked", "opened", "wiping", "wiped", "writing",
                      "written", "indexing", "indexed", "stored"}
    PROVE  Parsing
  BY DEF Parsing, Working, Live

\* The dead-letter callback and a failing handler leave a cancelled row alone.
LEMMA ErrsKeepsCancelled ==
    ASSUME NEW t, NEW a, status = "cancelled", Errs(t, a)
    PROVE  status' = "cancelled"
  BY DEF Errs, DeadLetter, InFlight

\* So does the release of a slot, however late: the promote asks for finalizing.
LEMMA ReleaseKeepsCancelled ==
    ASSUME status = "cancelled", ReleaseSlot
    PROVE  status' = "cancelled"
  BY DEF ReleaseSlot, Drain, row

\* One step of the system keeps a cancelled row cancelled.
LEMMA StepKeepsCancelled ==
    ASSUME [Next]_vars, status = "cancelled", reparse = "idle", sweep = "idle", ~Parsing
    PROVE  status' = "cancelled"
<1> USE DEF row
<1>1. CASE \E t \in ProcessTask : ProcessStep(t)
  <2>1. PICK t \in ProcessTask : ProcessStep(t)
    BY <1>1
  <2>2. pc[t] \notin {"read", "clear", "marked", "opened", "wiping", "wiped", "writing",
                      "written", "indexing", "indexed", "stored"}
    BY WorkingProcess
  <2>3. StartProcess(t)
    BY <2>1, <2>2 DEF ProcessStep, Recheck, MarkProcessing, ResolveAttempt, ConvertFails,
       ConvertErrs, Convert, Wipe, WriteChunks, Index, IndexFails, StoreIndexed, HandOver,
       HandOverFails
  <2> QED BY <2>3 DEF StartProcess
<1>2. CASE \E p \in PostTask : PostStep(p)
  <2>1. PICK p \in PostTask : PostStep(p)
    BY <1>2
  <2>2. CASE StartPost(p)
    BY <2>2 DEF StartPost
  <2>3. CASE CompleteBare(p)
    BY <2>3 DEF CompleteBare
  <2>4. CASE EnterFinalizing(p)
    BY <2>4 DEF EnterFinalizing
  <2>5. CASE PostErrs(p)
    BY <2>5, ErrsKeepsCancelled DEF PostErrs
  <2>6. CASE \E s \in Slot : EnqueueSub(p, s) \/ EnqueueSubFails(p, s)
    BY <2>6 DEF EnqueueSub, EnqueueSubFails
  <2>7. CASE Release(p)
    BY <2>7, ReleaseKeepsCancelled DEF Release
  <2>8. CASE FinishPost(p)
    BY <2>8 DEF FinishPost
  <2> QED BY <2>1, <2>2, <2>3, <2>4, <2>5, <2>6, <2>7, <2>8 DEF PostStep
<1>3. CASE \E t \in SubTask : SubStep(t)
  BY <1>3, ReleaseKeepsCancelled DEF SubStep, StartSub, RetrySub, EndSub
<1>4. CASE \E t \in Task : Crash(t)
  BY <1>4 DEF Crash
<1>5. CASE BeginReparse \/ ReparseStep
  BY <1>5 DEF BeginReparse, ReparseStep, StopOldRun, OpenReparse, SaveReset, ResetCount,
     EnqueueProcess
<1>6. CASE BeginCancel \/ CancelStep
  BY <1>6 DEF BeginCancel, CancelStep, WriteCancel, AbortLatest, StopCancelled
<1>7. CASE CrashUser
  BY <1>7 DEF CrashUser
<1>8. CASE SweepStep
  BY <1>8 DEF SweepStep, PickDrained, PromotePicked, PickStuck, FailStuck
<1>9. CASE UNCHANGED vars
  BY <1>9 DEF vars
<1> QED BY <1>1, <1>2, <1>3, <1>4, <1>5, <1>6, <1>7, <1>8, <1>9 DEF Next

\* A user's cancel holds until the user asks for a reparse: no late subtask, no
\* post-process task and no redelivery revives the row (FinalizeSubtask, SetFinalizing,
\* newDeadLetterKnowledgeFailer guard their writes by the status).
THEOREM CancelHolds == Spec => CancelledStays
<1>1. [Next]_vars =>
        [status = "cancelled" /\ reparse = "idle" /\ sweep = "idle" /\ ~Parsing
           => status' = "cancelled"]_vars
  BY StepKeepsCancelled
<1> QED BY <1>1, PTL DEF Spec, CancelledStays

-----------------------------------------------------------------------------
(* Types.  The counter fits what one fan-out seeds, and the attempts fit the *)
(* requests and the deliveries of the upload, which carries no attempt and   *)
(* opens one each time.                                                      *)

Upload == <<"process", 1>>

\* The numbers still to be taken: by the reparse that will open an attempt, and by a
\* delivery of the upload that has not opened its own.
WillOpen ==
    (IF reparse \in {"stopping", "opening"} THEN 1 ELSE 0)
      + (IF pc[Upload] \in {"queued", "read", "clear", "marked"} THEN 1 ELSE 0)

\* Only a reparse enqueues another process task, and it gives it its attempt.
AttemptInv ==
    /\ latest + WillOpen <= request + tries[Upload]
    /\ reparse # "idle" => request > 1
    /\ reparse \in {"saving", "zeroing", "enqueuing"} => given[<<"process", request>>] > 0
    /\ \A t \in ProcessTask : t # Upload /\ pc[t] # "none" => given[t] > 0

InAttempt == {"opened", "wiping", "wiped", "writing", "written", "indexing", "indexed", "stored"}

MineInv == \A t \in ProcessTask : pc[t] \in InAttempt => mine[t] > 0

\* What a fan-out has not enqueued and what nobody owns are part of its slots.
FanInv ==
    \A p \in PostTask : /\ pc[p] # "fanout" => todo[p] = {} /\ short[p] = 0
                        /\ short[p] + Cardinality(todo[p]) <= Cardinality(Slot)

PInv == TypeOK /\ AttemptInv /\ MineInv /\ FanInv

LEMMA Bounds ==
    /\ MaxReparse \in Nat /\ MaxCancel \in Nat /\ MaxRetry \in Nat
    /\ MaxCrash \in Nat /\ MaxRefused \in Nat /\ MaxLost \in Nat
  BY PipelineAssumption

LEMMA SlotsFinite == /\ IsFiniteSet(Slot) /\ Cardinality(Slot) \in Nat
                     /\ \A S \in SUBSET Slot : IsFiniteSet(S) /\ Cardinality(S) \in Nat
                                               /\ Cardinality(S) <= Cardinality(Slot)
  BY PipelineAssumption, FS_Subset, FS_CardinalityType

\* The kinds of tasks are told apart by their names.
LEMMA TaskShapes ==
    /\ \A t \in ProcessTask : t[1] = "process"
    /\ \A p \in PostTask : /\ p[1] = "post" /\ p[2] \in Attempt /\ p[3] \in Copy
                           /\ p = <<"post", p[2], p[3]>>
    /\ \A t \in SubTask : t[1] = "sub" /\ t[4] \in Slot /\ <<"post", t[2], t[3]>> \in PostTask
                          /\ t = <<"sub", t[2], t[3], t[4]>>
<1>1. \A t \in ProcessTask : t[1] = "process"
  BY DEF ProcessTask
<1>2. ASSUME NEW p \in PostTask
      PROVE  p[1] = "post" /\ p[2] \in Attempt /\ p[3] \in Copy /\ p = <<"post", p[2], p[3]>>
  <2>1. PICK a \in Attempt, k \in Copy : p = <<"post", a, k>>
    BY DEF PostTask
  <2> QED BY <2>1
<1>3. ASSUME NEW t \in SubTask
      PROVE  t[1] = "sub" /\ t[4] \in Slot /\ <<"post", t[2], t[3]>> \in PostTask
             /\ t = <<"sub", t[2], t[3], t[4]>>
  <2>1. PICK p \in PostTask, s \in Slot : t = <<"sub", p[2], p[3], s>>
    BY DEF SubTask
  <2>2. t[1] = "sub" /\ t[2] = p[2] /\ t[3] = p[3] /\ t[4] = s
    BY <2>1
  <2> QED BY <1>2, <2>1, <2>2
<1> QED BY <1>1, <1>2, <1>3

LEMMA TasksDiffer ==
    /\ Upload \in ProcessTask
    /\ ProcessTask \cap PostTask = {} /\ ProcessTask \cap SubTask = {} /\ PostTask \cap SubTask = {}
<1>1. 1 \in Request
  BY Bounds DEF Request
<1>2. Upload \in ProcessTask
  BY <1>1 DEF ProcessTask, Upload
<1>3. ASSUME NEW t PROVE ~(t \in ProcessTask /\ t \in PostTask)
  BY TaskShapes
<1>4. ASSUME NEW t PROVE ~(t \in ProcessTask /\ t \in SubTask)
  BY TaskShapes
<1>5. ASSUME NEW t PROVE ~(t \in PostTask /\ t \in SubTask)
  BY TaskShapes
<1> QED BY <1>2, <1>3, <1>4, <1>5

LEMMA PInit == Init => PInv
<1> SUFFICES ASSUME Init PROVE PInv
  OBVIOUS
<1> USE Bounds, SlotsFinite, TasksDiffer DEF Init
<1>1. status \in Status /\ pending \in 0..Cardinality(Slot) /\ latest \in Attempt \cup {0}
      /\ open \in {0, latest} /\ chunks \subseteq Attempt
  BY DEF Status
<1>2. pc \in [Task -> Where] /\ tries \in [Task -> 0..MaxRetry]
  BY DEF Where
<1>3. given \in [ProcessTask -> Attempt \cup {0}] /\ mine \in [ProcessTask -> Attempt \cup {0}]
  OBVIOUS
<1>4. todo \in [PostTask -> SUBSET Slot] /\ short \in [PostTask -> 0..Cardinality(Slot)]
  OBVIOUS
<1>5. request \in Request /\ cancels \in 0..MaxCancel /\ crashes \in 0..MaxCrash
      /\ refused \in 0..MaxRefused /\ lost \in 0..MaxLost
  BY DEF Request
<1>6. TypeOK
  BY <1>1, <1>2, <1>3, <1>4, <1>5 DEF TypeOK
<1>7. \A t \in ProcessTask : pc[t] = IF t = Upload THEN "queued" ELSE "none"
  BY DEF Task, Upload
<1>8. tries[Upload] = 0
  BY DEF Task
<1>9. AttemptInv /\ MineInv
  BY <1>7, <1>8 DEF AttemptInv, WillOpen, MineInv, InAttempt
<1>10. Cardinality({}) = 0
  BY FS_EmptySet
<1>11. FanInv
  BY <1>10 DEF FanInv
<1> QED BY <1>6, <1>9, <1>11 DEF PInv
-----------------------------------------------------------------------------
(* What a step does to the tasks *)

PcTyped == pc \in [Task -> Where] /\ tries \in [Task -> 0..MaxRetry]

LEMMA GotoTyped ==
    ASSUME PcTyped, NEW t, NEW l \in Where, Goto(t, l), tries' = tries
    PROVE  PcTyped'
  BY DEF PcTyped, Goto

LEMMA RequeuedTyped ==
    ASSUME PcTyped, NEW t \in Task, tries[t] < MaxRetry, Requeued(t)
    PROVE  PcTyped'
<1>1. tries[t] + 1 \in 0..MaxRetry
  BY Bounds DEF PcTyped
<1> QED BY <1>1 DEF PcTyped, Requeued, Where

LEMMA ErrsTyped ==
    ASSUME PcTyped, NEW t \in Task, NEW a, Errs(t, a)
    PROVE  PcTyped'
<1>1. CASE tries[t] < MaxRetry /\ Requeued(t)
  BY <1>1, RequeuedTyped
<1>2. CASE Goto(t, "done") /\ tries' = tries
  BY <1>2, GotoTyped DEF Where
<1> QED BY <1>1, <1>2 DEF Errs

LEMMA AckedTyped ==
    ASSUME PcTyped, NEW t \in Task, Acked(t)
    PROVE  PcTyped'
<1>1. CASE tries[t] < MaxRetry /\ Requeued(t)
  BY <1>1, RequeuedTyped
<1>2. CASE Goto(t, "done") /\ tries' = tries
  BY <1>2, GotoTyped DEF Where
<1> QED BY <1>1, <1>2 DEF Acked

\* The hand-over ends the parse, unless its worker dies, and queues a post-process.
LEMMA HandOverDoes ==
    ASSUME NEW t, HandOver(t)
    PROVE  \E k \in Copy :
             /\ pc[<<"post", mine[t], k>>] = "none"
             /\ \/ /\ pc' = [pc EXCEPT ![t] = "done", ![<<"post", mine[t], k>>] = "queued"]
                   /\ UNCHANGED <<tries, crashes>>
                \/ /\ tries[t] < MaxRetry /\ crashes' = crashes + 1
                   /\ pc' = [pc EXCEPT ![t] = "queued", ![<<"post", mine[t], k>>] = "queued"]
                   /\ tries' = [tries EXCEPT ![t] = @ + 1]
<1> DEFINE k == CHOOSE k \in Free(mine[t]) : TRUE
<1>1. k \in Free(mine[t])
  BY DEF HandOver
<1>2. k \in Copy /\ pc[<<"post", mine[t], k>>] = "none"
  BY <1>1 DEF Free
<1> QED BY <1>2 DEF HandOver

LEMMA HandOverTyped == ASSUME PcTyped, NEW t \in Task, HandOver(t) PROVE PcTyped'
<1>1. PICK k \in Copy :
        \/ /\ pc' = [pc EXCEPT ![t] = "done", ![<<"post", mine[t], k>>] = "queued"]
           /\ tries' = tries
        \/ /\ tries[t] < MaxRetry
           /\ pc' = [pc EXCEPT ![t] = "queued", ![<<"post", mine[t], k>>] = "queued"]
           /\ tries' = [tries EXCEPT ![t] = @ + 1]
  BY HandOverDoes
<1>2. pc' \in [Task -> Where]
  BY <1>1 DEF PcTyped, Where
<1>3. tries[t] < MaxRetry => tries[t] + 1 \in 0..MaxRetry
  BY Bounds DEF PcTyped
<1> QED BY <1>1, <1>2, <1>3 DEF PcTyped

LEMMA PcStep == ASSUME PcTyped, [Next]_vars PROVE PcTyped'
<1>1. ProcessTask \subseteq Task /\ PostTask \subseteq Task /\ SubTask \subseteq Task
  BY DEF Task
<1>2. ASSUME UNCHANGED <<pc, tries>> PROVE PcTyped'
  BY <1>2 DEF PcTyped
<1>3. ASSUME NEW t \in ProcessTask,
             \/ StartProcess(t) \/ Recheck(t) \/ MarkProcessing(t) \/ ResolveAttempt(t)
             \/ ConvertFails(t) \/ Convert(t)
      PROVE  PcTyped'
  <2>1. \E l \in Where : Goto(t, l)
    BY <1>3 DEF StartProcess, Recheck, MarkProcessing, ResolveAttempt, ConvertFails, Convert, Where
  <2>2. tries' = tries
    BY <1>3 DEF StartProcess, Recheck, MarkProcessing, ResolveAttempt, ConvertFails, Convert
  <2> QED BY <2>1, <2>2, GotoTyped
<1>4. ASSUME NEW t \in ProcessTask,
             \/ Wipe(t) \/ WriteChunks(t) \/ Index(t) \/ StoreIndexed(t)
      PROVE  PcTyped'
  <2>1. \E l \in Where : Goto(t, l)
    BY <1>4 DEF Wipe, WriteChunks, Index, StoreIndexed, Where
  <2>2. tries' = tries
    BY <1>4 DEF Wipe, WriteChunks, Index, StoreIndexed, used
  <2> QED BY <2>1, <2>2, GotoTyped
<1>5. ASSUME NEW t \in ProcessTask, ConvertErrs(t) \/ HandOverFails(t) PROVE PcTyped'
  BY <1>1, <1>5, ErrsTyped DEF ConvertErrs, HandOverFails
<1>6. ASSUME NEW t \in ProcessTask, IndexFails(t) PROVE PcTyped'
  <2>1. CASE tries[t] < MaxRetry /\ Requeued(t)
    BY <1>1, <2>1, RequeuedTyped
  <2>2. CASE Goto(t, "done") /\ tries' = tries
    BY <2>2, GotoTyped DEF Where
  <2> QED BY <1>6, <2>1, <2>2 DEF IndexFails
<1>7. ASSUME NEW t \in ProcessTask, HandOver(t) PROVE PcTyped'
  BY <1>1, <1>7, HandOverTyped
<1>8. ASSUME NEW p \in PostTask, StartPost(p) \/ CompleteBare(p) \/ EnterFinalizing(p)
      PROVE  PcTyped'
  <2>1. \E l \in Where : Goto(p, l)
    BY <1>8 DEF StartPost, CompleteBare, EnterFinalizing, Where
  <2>2. tries' = tries
    BY <1>8 DEF StartPost, CompleteBare, EnterFinalizing
  <2> QED BY <2>1, <2>2, GotoTyped
<1>9. ASSUME NEW p \in PostTask, PostErrs(p) \/ FinishPost(p) PROVE PcTyped'
  BY <1>1, <1>9, ErrsTyped, AckedTyped DEF PostErrs, FinishPost
<1>10. ASSUME NEW p \in PostTask, NEW s \in Slot, EnqueueSub(p, s) PROVE PcTyped'
  BY <1>10 DEF EnqueueSub, PcTyped, Where
<1>11. ASSUME NEW p \in PostTask, Release(p) \/ \E s \in Slot : EnqueueSubFails(p, s)
       PROVE  PcTyped'
  BY <1>2, <1>11 DEF Release, EnqueueSubFails
<1>12. ASSUME NEW t \in SubTask, SubStep(t) PROVE PcTyped'
  <2>1. CASE StartSub(t)
    <3>1. \E l \in Where : Goto(t, l)
      BY <2>1 DEF StartSub, Where
    <3> QED BY <2>1, <3>1, GotoTyped DEF StartSub
  <2>2. CASE RetrySub(t)
    BY <1>1, <2>2, RequeuedTyped DEF RetrySub
  <2>3. CASE EndSub(t)
    BY <1>1, <2>3, AckedTyped DEF EndSub
  <2> QED BY <1>12, <2>1, <2>2, <2>3 DEF SubStep
<1>13. ASSUME NEW t \in Task, Crash(t) PROVE PcTyped'
  <2>1. CASE tries[t] < MaxRetry /\ Requeued(t)
    BY <2>1, RequeuedTyped
  <2>2. CASE Goto(t, "archived") /\ tries' = tries
    BY <2>2, GotoTyped DEF Where
  <2> QED BY <1>13, <2>1, <2>2 DEF Crash
<1>14. ASSUME Dequeue, tries' = tries PROVE PcTyped'
  <2>1. PICK gone : pc' = [t \in Task |-> IF t \in gone THEN "done" ELSE pc[t]]
    BY <1>14 DEF Dequeue
  <2> QED BY <1>14, <2>1 DEF PcTyped, Where
<1>15. ASSUME StopOldRun \/ StopCancelled PROVE PcTyped'
  BY <1>14, <1>15 DEF StopOldRun, StopCancelled
<1>16. ASSUME EnqueueProcess PROVE PcTyped'
  <2>1. CASE Goto(<<"process", request>>, "queued")
    BY <1>16, <2>1, GotoTyped DEF EnqueueProcess, Where
  <2> QED BY <1>2, <1>16, <2>1 DEF EnqueueProcess
<1>17. ASSUME \/ BeginReparse \/ OpenReparse \/ SaveReset \/ ResetCount \/ BeginCancel
              \/ WriteCancel \/ AbortLatest \/ CrashUser \/ SweepStep \/ UNCHANGED vars
       PROVE  PcTyped'
  BY <1>2, <1>17 DEF BeginReparse, OpenReparse, SaveReset, ResetCount, BeginCancel, WriteCancel,
     AbortLatest, CrashUser, SweepStep, PickDrained, PromotePicked, PickStuck, FailStuck, vars
<1>18. CASE \E t \in ProcessTask : ProcessStep(t)
  BY <1>3, <1>4, <1>5, <1>6, <1>7, <1>18 DEF ProcessStep
<1>19. CASE \E p \in PostTask : PostStep(p)
  BY <1>8, <1>9, <1>10, <1>11, <1>19 DEF PostStep
<1> QED BY <1>12, <1>13, <1>15, <1>16, <1>17, <1>18, <1>19 DEF Next, ReparseStep, CancelStep
-----------------------------------------------------------------------------
(* Who moves a task: its handler, a crash of its worker, a request that takes *)
(* tasks out of the queue, or the step that enqueues it.                      *)

Only(u) == \A t \in Task : t # u => pc'[t] = pc[t] /\ tries'[t] = tries[t]

LEMMA GotoOnly == ASSUME PcTyped, NEW u, NEW l, Goto(u, l), tries' = tries PROVE Only(u)
  BY DEF PcTyped, Goto, Only

LEMMA RequeuedOnly == ASSUME PcTyped, NEW u, Requeued(u) PROVE Only(u)
  BY DEF PcTyped, Requeued, Only

LEMMA ErrsOnly == ASSUME PcTyped, NEW u, NEW a, Errs(u, a) PROVE Only(u)
  BY GotoOnly, RequeuedOnly DEF Errs

LEMMA AckedOnly == ASSUME PcTyped, NEW u, Acked(u) PROVE Only(u)
  BY GotoOnly, RequeuedOnly DEF Acked

LEMMA ParseOnly ==
    ASSUME PcTyped, NEW u, ProcessStep(u), ~HandOver(u) PROVE Only(u)
<1>1. ASSUME \/ StartProcess(u) \/ Recheck(u) \/ MarkProcessing(u) \/ ResolveAttempt(u)
             \/ ConvertFails(u) \/ Convert(u) \/ Wipe(u) \/ WriteChunks(u) \/ Index(u)
             \/ StoreIndexed(u)
      PROVE  Only(u)
  <2>1. \E l : Goto(u, l)
    BY <1>1 DEF StartProcess, Recheck, MarkProcessing, ResolveAttempt, ConvertFails, Convert,
       Wipe, WriteChunks, Index, StoreIndexed
  <2>2. tries' = tries
    BY <1>1 DEF StartProcess, Recheck, MarkProcessing, ResolveAttempt, ConvertFails, Convert,
       Wipe, WriteChunks, Index, StoreIndexed, used
  <2> QED BY <2>1, <2>2, GotoOnly
<1>2. ASSUME ConvertErrs(u) \/ HandOverFails(u) PROVE Only(u)
  BY <1>2, ErrsOnly DEF ConvertErrs, HandOverFails
<1>3. ASSUME IndexFails(u) PROVE Only(u)
  BY <1>3, GotoOnly, RequeuedOnly DEF IndexFails
<1> QED BY <1>1, <1>2, <1>3 DEF ProcessStep

LEMMA PostOnly ==
    ASSUME PcTyped, NEW u, PostStep(u), ~(\E s \in Slot : EnqueueSub(u, s)) PROVE Only(u)
<1>1. ASSUME StartPost(u) \/ CompleteBare(u) \/ EnterFinalizing(u) PROVE Only(u)
  <2>1. \E l : Goto(u, l)
    BY <1>1 DEF StartPost, CompleteBare, EnterFinalizing
  <2>2. tries' = tries
    BY <1>1 DEF StartPost, CompleteBare, EnterFinalizing
  <2> QED BY <2>1, <2>2, GotoOnly
<1>2. ASSUME PostErrs(u) \/ FinishPost(u) PROVE Only(u)
  BY <1>2, ErrsOnly, AckedOnly DEF PostErrs, FinishPost
<1>3. ASSUME Release(u) \/ \E s \in Slot : EnqueueSubFails(u, s) PROVE Only(u)
  BY <1>3 DEF Release, EnqueueSubFails, Only
<1> QED BY <1>1, <1>2, <1>3 DEF PostStep

LEMMA SubOnly == ASSUME PcTyped, NEW u, SubStep(u) PROVE Only(u)
  BY GotoOnly, RequeuedOnly, AckedOnly DEF SubStep, StartSub, RetrySub, EndSub

LEMMA CrashOnly == ASSUME PcTyped, NEW u, Crash(u) PROVE Only(u)
  BY GotoOnly, RequeuedOnly DEF Crash

\* Requests and housekeeping do not move a task, but for the tasks they take away.
LEMMA OutsideMoves ==
    ASSUME PcTyped,
           \/ BeginReparse \/ ReparseStep \/ BeginCancel \/ CancelStep \/ CrashUser \/ SweepStep
           \/ UNCHANGED vars,
           NEW t \in Task, pc'[t] # pc[t]
    PROVE  \/ t = <<"process", request>> /\ EnqueueProcess /\ pc'[t] = "queued"
           \/ pc'[t] = "done" /\ Live(t)
<1>1. ASSUME pc' = pc PROVE FALSE
  BY <1>1
<1>2. ASSUME Dequeue PROVE pc'[t] = "done" /\ Live(t)
  <2>1. PICK gone : /\ \A x \in gone : pc[x] = "queued" \/ Working(x)
                    /\ pc' = [x \in Task |-> IF x \in gone THEN "done" ELSE pc[x]]
    BY <1>2 DEF Dequeue
  <2>2. t \in gone
    BY <2>1
  <2> QED BY <2>1, <2>2 DEF Working, Live
<1>3. CASE StopOldRun \/ StopCancelled
  BY <1>2, <1>3 DEF StopOldRun, StopCancelled
<1>4. CASE EnqueueProcess
  BY <1>1, <1>4 DEF EnqueueProcess, Goto, PcTyped
<1>5. CASE \/ BeginReparse \/ OpenReparse \/ SaveReset \/ ResetCount \/ BeginCancel
           \/ WriteCancel \/ AbortLatest \/ CrashUser \/ SweepStep \/ UNCHANGED vars
  BY <1>1, <1>5 DEF BeginReparse, OpenReparse, SaveReset, ResetCount, BeginCancel, WriteCancel,
     AbortLatest, CrashUser, SweepStep, PickDrained, PromotePicked, PickStuck, FailStuck, vars
<1> QED BY <1>3, <1>4, <1>5 DEF ReparseStep, CancelStep

\* Where a task comes from.
LEMMA Births ==
    ASSUME PcTyped, [Next]_vars, NEW t \in Task, pc[t] = "none", pc'[t] # "none"
    PROVE  \/ \E u \in ProcessTask, k \in Copy : HandOver(u) /\ t = <<"post", mine[u], k>>
           \/ \E p \in PostTask, s \in Slot : EnqueueSub(p, s) /\ t = <<"sub", p[2], p[3], s>>
           \/ EnqueueProcess /\ t = <<"process", request>>
<1> DEFINE Goal == \/ \E u \in ProcessTask, k \in Copy : HandOver(u) /\ t = <<"post", mine[u], k>>
                   \/ \E p \in PostTask, s \in Slot : EnqueueSub(p, s) /\ t = <<"sub", p[2], p[3], s>>
                   \/ EnqueueProcess /\ t = <<"process", request>>
<1>1. ASSUME NEW u, Only(u), pc[u] # "none" PROVE FALSE
  BY <1>1 DEF Only
<1>2. ASSUME NEW u \in ProcessTask, ProcessStep(u) PROVE Goal
  <2>1. CASE HandOver(u)
    <3>1. pc[u] # "none"
      BY <2>1 DEF HandOver
    <3>2. PICK k \in Copy :
            \/ pc' = [pc EXCEPT ![u] = "done", ![<<"post", mine[u], k>>] = "queued"]
            \/ pc' = [pc EXCEPT ![u] = "queued", ![<<"post", mine[u], k>>] = "queued"]
      BY <2>1, HandOverDoes
    <3>3. \A x \in Task : x # u /\ x # <<"post", mine[u], k>> => pc'[x] = pc[x]
      BY <3>2 DEF PcTyped
    <3> QED BY <2>1, <3>1, <3>3
  <2>2. CASE ~HandOver(u)
    <3>1. pc[u] # "none"
      BY <1>2, <2>2 DEF ProcessStep, StartProcess, Recheck, MarkProcessing, ResolveAttempt,
         ConvertFails, ConvertErrs, Convert, Wipe, WriteChunks, Index, IndexFails, StoreIndexed,
         HandOverFails
    <3> QED BY <1>1, <1>2, <2>2, <3>1, ParseOnly
  <2> QED BY <2>1, <2>2
<1>3. ASSUME NEW u \in PostTask, PostStep(u) PROVE Goal
  <2>1. CASE \E s \in Slot : EnqueueSub(u, s)
    <3>1. PICK s \in Slot : EnqueueSub(u, s)
      BY <2>1
    <3> QED BY <3>1 DEF EnqueueSub, PcTyped
  <2>2. CASE ~(\E s \in Slot : EnqueueSub(u, s))
    <3>1. pc[u] # "none"
      BY <1>3, <2>2 DEF PostStep, StartPost, CompleteBare, EnterFinalizing, PostErrs,
         EnqueueSubFails, Release, FinishPost
    <3> QED BY <1>1, <1>3, <2>2, <3>1, PostOnly
  <2> QED BY <2>1, <2>2
<1>4. ASSUME NEW u \in SubTask, SubStep(u) PROVE Goal
  <2>1. pc[u] # "none"
    BY <1>4 DEF SubStep, StartSub, RetrySub, EndSub
  <2> QED BY <1>1, <1>4, <2>1, SubOnly
<1>5. ASSUME NEW u \in Task, Crash(u) PROVE Goal
  <2>1. pc[u] # "none"
    BY <1>5 DEF Crash, Working, Live
  <2> QED BY <1>1, <1>5, <2>1, CrashOnly
<1>6. CASE \/ BeginReparse \/ ReparseStep \/ BeginCancel \/ CancelStep \/ CrashUser \/ SweepStep
           \/ UNCHANGED vars
  <2>1. ~Live(t)
    BY DEF Live
  <2> QED BY <1>6, <2>1, OutsideMoves
<1> QED BY <1>2, <1>3, <1>4, <1>5, <1>6 DEF Next
-----------------------------------------------------------------------------
(* Attempts *)

Opening == {"queued", "read", "clear", "marked"}

\* A task that was not opening an attempt and is now has been delivered once more.
LEMMA OwnOpens ==
    ASSUME PcTyped, NEW t \in Task, ProcessStep(t), pc'[t] \in Opening, pc[t] \notin Opening
    PROVE  tries'[t] = tries[t] + 1
<1>1. ASSUME Requeued(t) PROVE tries'[t] = tries[t] + 1
  BY <1>1 DEF PcTyped, Requeued
<1>2. ASSUME Goto(t, "done") PROVE FALSE
  BY <1>2 DEF PcTyped, Goto, Opening
<1>3. ASSUME NEW a, Errs(t, a) PROVE tries'[t] = tries[t] + 1
  BY <1>1, <1>2, <1>3 DEF Errs
<1>4. CASE ConvertErrs(t) \/ HandOverFails(t)
  BY <1>3, <1>4 DEF ConvertErrs, HandOverFails
<1>5. CASE IndexFails(t)
  BY <1>1, <1>2, <1>5 DEF IndexFails
<1>6. CASE StartProcess(t) \/ MarkProcessing(t)
  BY <1>6 DEF StartProcess, MarkProcessing, Opening
<1>7. CASE Recheck(t)
  BY <1>7 DEF Recheck, Goto, PcTyped, Opening
<1>8. CASE ResolveAttempt(t) \/ ConvertFails(t) \/ Convert(t) \/ Wipe(t) \/ WriteChunks(t)
  BY <1>8 DEF ResolveAttempt, ConvertFails, Convert, Wipe, WriteChunks, Goto, PcTyped, Opening
<1>9. CASE Index(t) \/ StoreIndexed(t)
  BY <1>9 DEF Index, StoreIndexed, Goto, PcTyped, Opening
<1>10. CASE HandOver(t)
  <2>1. PICK k \in Copy :
          /\ pc[<<"post", mine[t], k>>] = "none"
          /\ \/ pc' = [pc EXCEPT ![t] = "done", ![<<"post", mine[t], k>>] = "queued"]
             \/ /\ pc' = [pc EXCEPT ![t] = "queued", ![<<"post", mine[t], k>>] = "queued"]
                /\ tries' = [tries EXCEPT ![t] = @ + 1]
    BY <1>10, HandOverDoes
  <2>2. t # <<"post", mine[t], k>>
    BY <1>10, <2>1 DEF HandOver
  <2> QED BY <2>1, <2>2 DEF PcTyped, Opening
<1> QED BY <1>4, <1>5, <1>6, <1>7, <1>8, <1>9, <1>10 DEF ProcessStep

\* The tries of a task only grow.
LEMMA TriesGrow ==
    ASSUME PcTyped, [Next]_vars, NEW t \in Task
    PROVE  tries'[t] \in {tries[t], tries[t] + 1}
<1> DEFINE Goal == tries'[t] \in {tries[t], tries[t] + 1}
<1>1. ASSUME tries' = tries PROVE Goal
  BY <1>1
<1>2. ASSUME NEW u, tries' = [tries EXCEPT ![u] = @ + 1] PROVE Goal
  BY <1>2 DEF PcTyped
<1>3. ASSUME NEW u, Requeued(u) PROVE Goal
  BY <1>2, <1>3 DEF Requeued
<1>4. ASSUME NEW u, NEW a, Errs(u, a) PROVE Goal
  BY <1>1, <1>3, <1>4 DEF Errs
<1>5. ASSUME NEW u, Acked(u) PROVE Goal
  BY <1>1, <1>3, <1>5 DEF Acked
<1>6. ASSUME NEW u, ProcessStep(u) PROVE Goal
  <2>1. CASE HandOver(u)
    BY <1>1, <1>2, <2>1, HandOverDoes
  <2>2. CASE ConvertErrs(u) \/ HandOverFails(u) \/ IndexFails(u)
    BY <1>1, <1>3, <1>4, <2>2 DEF ConvertErrs, HandOverFails, IndexFails
  <2>3. CASE \/ StartProcess(u) \/ Recheck(u) \/ MarkProcessing(u) \/ ResolveAttempt(u)
             \/ ConvertFails(u) \/ Convert(u) \/ Wipe(u) \/ WriteChunks(u) \/ Index(u)
             \/ StoreIndexed(u)
    BY <1>1, <2>3 DEF StartProcess, Recheck, MarkProcessing, ResolveAttempt, ConvertFails, Convert,
       Wipe, WriteChunks, Index, StoreIndexed
  <2> QED BY <1>6, <2>1, <2>2, <2>3 DEF ProcessStep
<1>7. ASSUME NEW u, PostStep(u) PROVE Goal
  <2>1. CASE PostErrs(u) \/ FinishPost(u)
    BY <1>4, <1>5, <2>1 DEF PostErrs, FinishPost
  <2>2. CASE \/ StartPost(u) \/ CompleteBare(u) \/ EnterFinalizing(u) \/ Release(u)
             \/ \E s \in Slot : EnqueueSub(u, s) \/ EnqueueSubFails(u, s)
    BY <1>1, <2>2 DEF StartPost, CompleteBare, EnterFinalizing, Release, EnqueueSub, EnqueueSubFails
  <2> QED BY <1>7, <2>1, <2>2 DEF PostStep
<1>8. ASSUME NEW u, SubStep(u) PROVE Goal
  BY <1>1, <1>3, <1>5, <1>8 DEF SubStep, StartSub, RetrySub, EndSub
<1>9. ASSUME NEW u, Crash(u) PROVE Goal
  BY <1>1, <1>3, <1>9 DEF Crash
<1>10. CASE \/ BeginReparse \/ ReparseStep \/ BeginCancel \/ CancelStep \/ CrashUser \/ SweepStep
            \/ UNCHANGED vars
  BY <1>1, <1>10 DEF BeginReparse, ReparseStep, StopOldRun, OpenReparse, SaveReset, ResetCount,
     EnqueueProcess, BeginCancel, CancelStep, WriteCancel, AbortLatest, StopCancelled, CrashUser,
     SweepStep, PickDrained, PromotePicked, PickStuck, FailStuck, vars
<1> QED BY <1>6, <1>7, <1>8, <1>9, <1>10 DEF Next

\* The upload opens once for each delivery.
LEMMA UploadOpens ==
    ASSUME PcTyped, AttemptInv, [Next]_vars, pc'[Upload] \in Opening, pc[Upload] \notin Opening
    PROVE  tries'[Upload] = tries[Upload] + 1
<1> DEFINE Goal == tries'[Upload] = tries[Upload] + 1
<1>0. Upload \in Task /\ Upload \in ProcessTask /\ Upload \notin PostTask /\ Upload \notin SubTask
  BY TasksDiffer DEF Task
<1>1. ASSUME NEW u, u # Upload, Only(u) PROVE FALSE
  BY <1>0, <1>1 DEF Only
<1>2. ASSUME NEW u \in ProcessTask, ProcessStep(u) PROVE Goal
  <2>1. CASE u = Upload
    BY <1>0, <1>2, <2>1, OwnOpens
  <2>2. CASE u # Upload /\ HandOver(u)
    <3>1. PICK k \in Copy :
            \/ pc' = [pc EXCEPT ![u] = "done", ![<<"post", mine[u], k>>] = "queued"]
            \/ pc' = [pc EXCEPT ![u] = "queued", ![<<"post", mine[u], k>>] = "queued"]
      BY <2>2, HandOverDoes
    <3>2. Upload # <<"post", mine[u], k>>
      BY DEF Upload
    <3> QED BY <1>0, <2>2, <3>1, <3>2 DEF PcTyped
  <2> QED BY <1>1, <1>2, <2>1, <2>2, ParseOnly
<1>3. ASSUME NEW u \in PostTask, PostStep(u) PROVE Goal
  <2>1. CASE \E s \in Slot : EnqueueSub(u, s)
    <3>1. PICK s \in Slot : EnqueueSub(u, s)
      BY <2>1
    <3>2. Upload # <<"sub", u[2], u[3], s>>
      BY DEF Upload
    <3> QED BY <1>0, <3>1, <3>2 DEF EnqueueSub, PcTyped
  <2> QED BY <1>0, <1>1, <1>3, <2>1, PostOnly
<1>4. ASSUME NEW u \in SubTask, SubStep(u) PROVE Goal
  BY <1>0, <1>1, <1>4, SubOnly
<1>5. ASSUME NEW u \in Task, Crash(u) PROVE Goal
  <2>1. CASE u = Upload
    <3>1. pc'[u] = "queued" \/ pc'[u] = "archived"
      BY <1>5 DEF Crash, Requeued, Goto, PcTyped
    <3>2. pc'[u] # "archived"
      BY <2>1 DEF Opening
    <3>3. Requeued(u)
      BY <1>5, <3>1, <3>2 DEF Crash, Goto, PcTyped
    <3> QED BY <2>1, <3>3 DEF Requeued, PcTyped
  <2> QED BY <1>1, <1>5, <2>1, CrashOnly
<1>6. CASE \/ BeginReparse \/ ReparseStep \/ BeginCancel \/ CancelStep \/ CrashUser \/ SweepStep
           \/ UNCHANGED vars
  <2>1. Upload # <<"process", request>> \/ ~EnqueueProcess
    BY DEF Upload, EnqueueProcess, AttemptInv
  <2>2. pc'[Upload] # "done"
    BY DEF Opening
  <2> QED BY <1>0, <1>6, <2>1, <2>2, OutsideMoves
<1> QED BY <1>2, <1>3, <1>4, <1>5, <1>6 DEF Next
\* Who takes a new number.
LEMMA LatestMoves ==
    ASSUME [Next]_vars
    PROVE  \/ latest' = latest
           \/ latest' = latest + 1 /\ OpenReparse
           \/ /\ latest' = latest + 1
              /\ \E t \in ProcessTask : ResolveAttempt(t) /\ ~(given[t] > 0)
<1>1. CASE \E t \in ProcessTask : ProcessStep(t)
  <2>1. PICK t \in ProcessTask : ProcessStep(t)
    BY <1>1
  <2>2. CASE ResolveAttempt(t)
    <3>1. CASE given[t] > 0
      BY <2>2, <3>1 DEF ResolveAttempt, spans
    <3>2. CASE ~(given[t] > 0)
      BY <2>2, <3>2 DEF ResolveAttempt, OpenAttempt
    <3> QED BY <3>1, <3>2
  <2>3. CASE ~ResolveAttempt(t)
    BY <2>1, <2>3 DEF ProcessStep, StartProcess, Recheck, MarkProcessing, ConvertFails, ConvertErrs,
       Convert, Wipe, WriteChunks, Index, IndexFails, StoreIndexed, HandOver, HandOverFails, spans
  <2> QED BY <2>2, <2>3
<1>2. CASE \E p \in PostTask : PostStep(p)
  BY <1>2 DEF PostStep, StartPost, CompleteBare, EnterFinalizing, PostErrs, EnqueueSub,
     EnqueueSubFails, Release, FinishPost, spans
<1>3. CASE \/ \E t \in SubTask : SubStep(t)
           \/ \E t \in Task : Crash(t)
           \/ UNCHANGED vars
  BY <1>3 DEF SubStep, StartSub, RetrySub, EndSub, Crash, vars, spans
<1>4. CASE OpenReparse
  BY <1>4 DEF OpenReparse, OpenAttempt
<1>5. CASE \/ BeginReparse \/ StopOldRun \/ SaveReset \/ ResetCount \/ EnqueueProcess
           \/ BeginCancel \/ CancelStep \/ CrashUser \/ SweepStep
  BY <1>5 DEF BeginReparse, StopOldRun, SaveReset, ResetCount, EnqueueProcess, BeginCancel,
     CancelStep, WriteCancel, AbortLatest, StopCancelled, CrashUser, SweepStep, PickDrained,
     PromotePicked, PickStuck, FailStuck, spans
<1> QED BY <1>1, <1>2, <1>3, <1>4, <1>5 DEF Next, ReparseStep

\* The parse and the post-process leave the user's requests and the sweep alone.
LEMMA WorkersLeave ==
    ASSUME NEW t, ProcessStep(t) \/ PostStep(t)
    PROVE  UNCHANGED <<user, given>> /\ UNCHANGED sweep
<1>1. CASE ProcessStep(t)
  BY <1>1 DEF ProcessStep, StartProcess, Recheck, MarkProcessing, ResolveAttempt, ConvertFails,
     ConvertErrs, Convert, Wipe, WriteChunks, Index, IndexFails, StoreIndexed, HandOver, HandOverFails
<1>2. CASE PostStep(t)
  BY <1>2 DEF PostStep, StartPost, CompleteBare, EnterFinalizing, PostErrs, EnqueueSub,
     EnqueueSubFails, Release, FinishPost
<1> QED BY <1>1, <1>2

\* What a step does to the reparse under way.
LEMMA ReparseMoves ==
    ASSUME [Next]_vars
    PROVE  \/ UNCHANGED <<reparse, request, given>>
           \/ BeginReparse
           \/ OpenReparse
           \/ /\ reparse \in {"saving", "zeroing", "enqueuing"} /\ UNCHANGED <<request, given>>
              /\ reparse' \in {"zeroing", "enqueuing", "idle"}
           \/ reparse = "stopping" /\ reparse' = "opening" /\ UNCHANGED <<request, given>>
           \/ reparse' = "idle" /\ UNCHANGED <<request, given>>
<1>1. CASE \/ \E t \in ProcessTask : ProcessStep(t)
           \/ \E p \in PostTask : PostStep(p)
  BY <1>1, WorkersLeave DEF user
<1>2. CASE \/ \E t \in SubTask : SubStep(t)
           \/ \E t \in Task : Crash(t)
           \/ UNCHANGED vars
  BY <1>2 DEF SubStep, StartSub, RetrySub, EndSub, Crash, vars, user
<1>3. CASE StopOldRun \/ SaveReset \/ ResetCount \/ EnqueueProcess
  BY <1>3 DEF StopOldRun, SaveReset, ResetCount, EnqueueProcess
<1>4. CASE BeginCancel \/ CancelStep \/ CrashUser \/ SweepStep
  BY <1>4 DEF BeginCancel, CancelStep, WriteCancel, AbortLatest, StopCancelled, CrashUser, SweepStep,
     PickDrained, PromotePicked, PickStuck, FailStuck, user
<1> QED BY <1>1, <1>2, <1>3, <1>4 DEF Next, ReparseStep

LEMMA NumbersTyped ==
    ASSUME TypeOK
    PROVE  /\ latest \in Nat /\ request \in Nat /\ tries[Upload] \in Nat /\ WillOpen \in 0..2
           /\ request <= 1 + MaxReparse /\ tries[Upload] <= MaxRetry
           /\ \A t \in ProcessTask : given[t] \in Nat
<1>1. Upload \in Task
  BY TasksDiffer DEF Task
<1> QED BY <1>1, Bounds DEF TypeOK, Attempt, Request, WillOpen

\* The new number is within Attempt.
LEMMA NextAttempt == ASSUME TypeOK, AttemptInv, WillOpen > 0 PROVE latest + 1 \in Attempt
  BY NumbersTyped, Bounds DEF AttemptInv, Attempt

LEMMA GivenStep == ASSUME TypeOK, AttemptInv, [Next]_vars PROVE
      /\ reparse' # "idle" => request' > 1
      /\ reparse' \in {"saving", "zeroing", "enqueuing"} => given'[<<"process", request'>>] > 0
      /\ \A t \in ProcessTask : given[t] > 0 => given'[t] > 0
<1>0. latest \in Nat /\ request \in Nat
  BY NumbersTyped
<1>1. CASE BeginReparse
  <2>1. request' = request + 1 /\ given' = given /\ reparse' \in {"stopping", "opening"} /\ request >= 1
    BY <1>1, Bounds DEF BeginReparse, TypeOK, Request
  <2> QED BY <1>0, <2>1
<1>2. CASE OpenReparse
  <2>1. <<"process", request>> \in ProcessTask
    BY DEF ProcessTask, TypeOK
  <2>2. /\ request > 1 /\ request' = request
        /\ given' = [given EXCEPT ![<<"process", request>>] = latest + 1]
    BY <1>2 DEF OpenReparse, AttemptInv
  <2> QED BY <1>0, <2>1, <2>2 DEF TypeOK
<1>3. CASE ~BeginReparse /\ ~OpenReparse
  BY <1>3, ReparseMoves DEF AttemptInv
<1> QED BY <1>1, <1>2, <1>3

LEMMA AttemptStep == ASSUME TypeOK, AttemptInv, [Next]_vars PROVE AttemptInv'
<1>0. PcTyped /\ Upload \in Task /\ Upload \in ProcessTask
  BY TasksDiffer DEF PcTyped, TypeOK, Task
<1>1. \A t \in ProcessTask : t # Upload /\ pc'[t] # "none" => given'[t] > 0
  <2> SUFFICES ASSUME NEW t \in ProcessTask, t # Upload, pc'[t] # "none" PROVE given'[t] > 0
    OBVIOUS
  <2>1. CASE pc[t] # "none"
    BY <2>1, GivenStep DEF AttemptInv
  <2>2. CASE pc[t] = "none"
    <3>1. t \in Task /\ t \notin PostTask /\ t \notin SubTask
      BY TasksDiffer DEF Task
    <3>2. ASSUME NEW u \in ProcessTask, NEW k \in Copy, HandOver(u), t = <<"post", mine[u], k>>
          PROVE  FALSE
      <4>1. t[1] = "post"
        BY <3>2
      <4> QED BY <4>1, TaskShapes
    <3>3. ASSUME NEW p \in PostTask, NEW s \in Slot, t = <<"sub", p[2], p[3], s>> PROVE FALSE
      BY <3>1, <3>3 DEF SubTask
    <3>4. EnqueueProcess /\ t = <<"process", request>>
      BY <1>0, <2>2, <3>1, <3>2, <3>3, Births
    <3>5. given[t] > 0
      BY <3>4 DEF EnqueueProcess, AttemptInv
    <3> QED BY <3>5, GivenStep
  <2> QED BY <2>1, <2>2
<1>2. latest' + WillOpen' <= request' + tries'[Upload]
  <2>1. PICK r \in {0, 1} : r = IF reparse \in {"stopping", "opening"} THEN 1 ELSE 0
    OBVIOUS
  <2>2. PICK o \in {0, 1} : o = IF pc[Upload] \in Opening THEN 1 ELSE 0
    OBVIOUS
  <2>3. PICK rr \in {0, 1} : rr = IF reparse' \in {"stopping", "opening"} THEN 1 ELSE 0
    OBVIOUS
  <2>4. PICK oo \in {0, 1} : oo = IF pc'[Upload] \in Opening THEN 1 ELSE 0
    OBVIOUS
  <2>5. PICK n \in Nat : n = tries[Upload]
    BY NumbersTyped
  <2>6. PICK nn \in {n, n + 1} : nn = tries'[Upload]
    BY <1>0, <2>5, TriesGrow
  <2>7. WillOpen = r + o /\ WillOpen' = rr + oo
    BY <2>1, <2>2, <2>3, <2>4 DEF WillOpen, Opening
  <2>8. latest \in Nat /\ request \in Nat /\ latest + (r + o) <= request + n
    BY <2>5, <2>7, NumbersTyped DEF AttemptInv
  <2>9. oo + n <= o + nn
    BY <1>0, <2>2, <2>4, <2>5, <2>6, UploadOpens
  <2>10. request' \in Nat /\ rr + request <= r + request'
    BY <2>1, <2>3, <2>8, ReparseMoves DEF BeginReparse, OpenReparse
  <2>11. latest' + (rr + oo) <= request' + nn
    <3>1. CASE latest' = latest
      <4>1. PICK l \in Nat, q \in Nat, qq \in Nat : l = latest /\ q = request /\ qq = request'
        BY <2>8, <2>10
      <4>2. l + (r + o) <= q + n /\ rr + q <= r + qq
        BY <2>8, <2>10, <4>1
      <4>3. l + (rr + oo) <= qq + nn
        BY <2>9, <4>2
      <4> QED BY <3>1, <4>1, <4>3
    <3>2. CASE latest' = latest + 1 /\ OpenReparse
      <4>1. r = 1 /\ rr = 0 /\ request' = request
        BY <2>1, <2>3, <3>2 DEF OpenReparse
      <4> QED BY <2>8, <2>9, <3>2, <4>1
    <3>3. ASSUME latest' = latest + 1, NEW t \in ProcessTask, ResolveAttempt(t), ~(given[t] > 0)
          PROVE  latest' + (rr + oo) <= request' + nn
      <4>1. pc[t] = "marked" /\ t = Upload
        BY <3>3 DEF ResolveAttempt, AttemptInv
      <4>2. pc'[Upload] = "opened" /\ nn = n /\ reparse' = reparse /\ request' = request
        BY <1>0, <2>5, <2>6, <3>3, <4>1 DEF ResolveAttempt, Goto, PcTyped, user
      <4>3. o = 1 /\ oo = 0 /\ rr = r
        BY <2>1, <2>2, <2>3, <2>4, <4>1, <4>2 DEF Opening
      <4> QED BY <2>8, <3>3, <4>2, <4>3
    <3> QED BY <3>1, <3>2, <3>3, LatestMoves
  <2> QED BY <2>6, <2>7, <2>11
<1> QED BY <1>1, <1>2, GivenStep DEF AttemptInv
-----------------------------------------------------------------------------
(* Where the tasks are *)

LEMMA ProcessMoves ==
    ASSUME PcTyped, [Next]_vars, NEW t \in ProcessTask
    PROVE  pc'[t] = pc[t] \/ ProcessStep(t) \/ pc'[t] \in {"queued", "archived", "done"}
<1> DEFINE Goal == pc'[t] = pc[t] \/ ProcessStep(t) \/ pc'[t] \in {"queued", "archived", "done"}
<1>0. t \in Task /\ t \notin PostTask /\ t \notin SubTask
  BY TasksDiffer DEF Task
<1>1. ASSUME NEW u, u # t, Only(u) PROVE Goal
  BY <1>0, <1>1 DEF Only
<1>2. ASSUME NEW u \in ProcessTask, ProcessStep(u) PROVE Goal
  <2>1. CASE u # t /\ HandOver(u)
    <3>1. PICK k \in Copy :
            \/ pc' = [pc EXCEPT ![u] = "done", ![<<"post", mine[u], k>>] = "queued"]
            \/ pc' = [pc EXCEPT ![u] = "queued", ![<<"post", mine[u], k>>] = "queued"]
      BY <2>1, HandOverDoes
    <3> QED BY <1>0, <2>1, <3>1 DEF PcTyped
  <2> QED BY <1>1, <1>2, <2>1, ParseOnly
<1>3. ASSUME NEW u \in PostTask, PostStep(u) PROVE Goal
  <2>1. CASE \E s \in Slot : EnqueueSub(u, s)
    BY <1>0, <2>1 DEF EnqueueSub, PcTyped
  <2> QED BY <1>0, <1>1, <1>3, <2>1, PostOnly
<1>4. ASSUME NEW u \in SubTask, SubStep(u) PROVE Goal
  BY <1>0, <1>1, <1>4, SubOnly
<1>5. ASSUME NEW u \in Task, Crash(u) PROVE Goal
  <2>1. pc'[u] \in {"queued", "archived"}
    BY <1>5 DEF Crash, Requeued, Goto, PcTyped
  <2> QED BY <1>1, <1>5, <2>1, CrashOnly
<1>6. CASE \/ BeginReparse \/ ReparseStep \/ BeginCancel \/ CancelStep \/ CrashUser \/ SweepStep
           \/ UNCHANGED vars
  BY <1>0, <1>6, OutsideMoves
<1> QED BY <1>2, <1>3, <1>4, <1>5, <1>6 DEF Next

LEMMA PostMoves ==
    ASSUME PcTyped, [Next]_vars, NEW p \in PostTask
    PROVE  \/ pc'[p] = pc[p] \/ PostStep(p) \/ Crash(p)
           \/ pc[p] # "fanout" /\ pc'[p] \in {"queued", "done"}
<1> DEFINE Goal == \/ pc'[p] = pc[p] \/ PostStep(p) \/ Crash(p)
                   \/ pc[p] # "fanout" /\ pc'[p] \in {"queued", "done"}
<1>0. p \in Task /\ p \notin ProcessTask /\ p \notin SubTask
  BY TasksDiffer DEF Task
<1>1. ASSUME NEW u, u # p, Only(u) PROVE Goal
  BY <1>0, <1>1 DEF Only
<1>2. ASSUME NEW u \in ProcessTask, ProcessStep(u) PROVE Goal
  <2>1. CASE HandOver(u)
    <3>1. PICK k \in Copy :
            /\ pc[<<"post", mine[u], k>>] = "none"
            /\ \/ pc' = [pc EXCEPT ![u] = "done", ![<<"post", mine[u], k>>] = "queued"]
               \/ pc' = [pc EXCEPT ![u] = "queued", ![<<"post", mine[u], k>>] = "queued"]
      BY <2>1, HandOverDoes
    <3>2. CASE p = <<"post", mine[u], k>>
      BY <1>0, <3>1, <3>2 DEF PcTyped
    <3>3. CASE p # <<"post", mine[u], k>>
      BY <1>0, <3>1, <3>3 DEF PcTyped
    <3> QED BY <3>2, <3>3
  <2> QED BY <1>0, <1>1, <1>2, <2>1, ParseOnly
<1>3. ASSUME NEW u \in PostTask, PostStep(u) PROVE Goal
  <2>1. CASE \E s \in Slot : EnqueueSub(u, s)
    BY <1>0, <2>1 DEF EnqueueSub, PcTyped, SubTask
  <2> QED BY <1>1, <1>3, <2>1, PostOnly
<1>4. ASSUME NEW u \in SubTask, SubStep(u) PROVE Goal
  BY <1>0, <1>1, <1>4, SubOnly
<1>5. ASSUME NEW u \in Task, Crash(u) PROVE Goal
  BY <1>1, <1>5, CrashOnly
<1>6. CASE \/ BeginReparse \/ ReparseStep \/ BeginCancel \/ CancelStep \/ CrashUser \/ SweepStep
           \/ UNCHANGED vars
  <2>1. ASSUME pc[p] = "fanout", pc' # pc PROVE pc'[p] = pc[p]
    <3>1. CASE Dequeue
      BY <1>0, <2>1, <3>1 DEF Dequeue, Working
    <3>2. CASE EnqueueProcess
      <4>1. p # <<"process", request>>
        <5>1. p[1] = "post"
          BY TaskShapes
        <5> QED BY <5>1
      <4> QED BY <1>0, <3>2, <4>1 DEF EnqueueProcess, Goto, PcTyped
    <3> QED BY <1>6, <2>1, <3>1, <3>2 DEF BeginReparse, ReparseStep, StopOldRun, OpenReparse,
       SaveReset, ResetCount, BeginCancel, CancelStep, WriteCancel, AbortLatest, StopCancelled,
       CrashUser, SweepStep, PickDrained, PromotePicked, PickStuck, FailStuck, vars
  <2>2. CASE pc'[p] = pc[p]
    BY <2>2
  <2>3. CASE pc'[p] # pc[p]
    <3>1. pc[p] # "fanout"
      BY <2>1, <2>3
    <3>2. pc'[p] \in {"queued", "done"}
      BY <1>0, <1>6, <2>3, OutsideMoves
    <3> QED BY <3>1, <3>2
  <2> QED BY <2>2, <2>3
<1> QED BY <1>2, <1>3, <1>4, <1>5, <1>6 DEF Next

\* A number once in a task's context is a number of an attempt.
LEMMA MineStep ==
    ASSUME TypeOK, AttemptInv, MineInv, [Next]_vars
    PROVE  MineInv' /\ mine' \in [ProcessTask -> Attempt \cup {0}]
<1>0. PcTyped /\ ProcessTask \subseteq Task
  BY DEF PcTyped, TypeOK, Task
<1>1. ASSUME NEW t \in ProcessTask, ResolveAttempt(t)
      PROVE  \E a \in Attempt : a > 0 /\ mine' = [mine EXCEPT ![t] = a]
  <2>1. CASE given[t] > 0
    <3>1. given[t] \in Attempt
      <4>1. given[t] \in Attempt \cup {0} /\ given[t] # 0
        BY <2>1 DEF TypeOK
      <4> QED BY <4>1
    <3>2. mine' = [mine EXCEPT ![t] = given[t]]
      BY <1>1, <2>1 DEF ResolveAttempt
    <3> QED BY <2>1, <3>1, <3>2
  <2>2. CASE ~(given[t] > 0)
    <3>1. pc[t] = "marked" /\ t = Upload
      BY <1>1, <2>2 DEF ResolveAttempt, AttemptInv
    <3>2. latest \in Nat /\ WillOpen > 0
      BY <3>1, NumbersTyped DEF WillOpen
    <3>3. latest + 1 \in Attempt /\ latest + 1 > 0
      BY <3>2, NextAttempt
    <3> QED BY <1>1, <2>2, <3>3 DEF ResolveAttempt
  <2> QED BY <2>1, <2>2
<1>2. mine' = mine \/ \E t \in ProcessTask : ResolveAttempt(t)
  <2>1. CASE \E t \in ProcessTask : ProcessStep(t)
    BY <2>1 DEF ProcessStep, StartProcess, Recheck, MarkProcessing, ConvertFails, ConvertErrs,
       Convert, Wipe, WriteChunks, Index, IndexFails, StoreIndexed, HandOver, HandOverFails
  <2>2. CASE \E p \in PostTask : PostStep(p)
    BY <2>2 DEF PostStep, StartPost, CompleteBare, EnterFinalizing, PostErrs, EnqueueSub,
       EnqueueSubFails, Release, FinishPost
  <2>3. CASE \/ \E t \in SubTask : SubStep(t)
             \/ \E t \in Task : Crash(t)
             \/ UNCHANGED vars
    BY <2>3 DEF SubStep, StartSub, RetrySub, EndSub, Crash, vars
  <2>4. CASE BeginReparse \/ ReparseStep \/ BeginCancel \/ CancelStep \/ CrashUser \/ SweepStep
    BY <2>4 DEF BeginReparse, ReparseStep, StopOldRun, OpenReparse, SaveReset, ResetCount,
       EnqueueProcess, BeginCancel, CancelStep, WriteCancel, AbortLatest, StopCancelled, CrashUser,
       SweepStep, PickDrained, PromotePicked, PickStuck, FailStuck
  <2> QED BY <2>1, <2>2, <2>3, <2>4 DEF Next
<1>3. mine' \in [ProcessTask -> Attempt \cup {0}]
  BY <1>1, <1>2 DEF TypeOK
<1>4. ASSUME NEW t \in ProcessTask, pc'[t] \in InAttempt PROVE mine'[t] > 0
  <2>1. CASE ResolveAttempt(t)
    BY <1>1, <2>1 DEF TypeOK
  <2>2. CASE ~ResolveAttempt(t)
    <3>1. mine'[t] = mine[t] \/ mine'[t] > 0
      BY <1>1, <1>2 DEF TypeOK
    <3>2. pc[t] \in InAttempt
      <4>1. CASE ProcessStep(t) /\ ~HandOver(t)
        <5>1. ASSUME NEW a, Errs(t, a) PROVE FALSE
          BY <1>0, <1>4, <5>1 DEF Errs, Requeued, Goto, PcTyped, InAttempt
        <5>2. ~(pc'[t] \in {"queued", "done"})
          BY <1>4 DEF InAttempt
        <5> QED BY <1>0, <1>4, <2>2, <4>1, <5>1, <5>2 DEF ProcessStep, StartProcess, Recheck,
           MarkProcessing, ConvertFails, ConvertErrs, Convert, Wipe, WriteChunks, Index,
           IndexFails, StoreIndexed, HandOverFails, Goto, Requeued, PcTyped, InAttempt
      <4>2. CASE HandOver(t)
        BY <4>2 DEF HandOver, InAttempt
      <4> QED BY <1>0, <1>4, <4>1, <4>2, ProcessMoves DEF InAttempt
    <3> QED BY <3>1, <3>2 DEF MineInv
  <2> QED BY <2>1, <2>2
<1> QED BY <1>3, <1>4 DEF MineInv
LEMMA TakeSlot ==
    ASSUME NEW S \in SUBSET Slot, NEW s \in S
    PROVE  /\ S \ {s} \in SUBSET Slot /\ Cardinality(S) \in Nat /\ Cardinality(S \ {s}) \in Nat
           /\ Cardinality(S) = Cardinality(S \ {s}) + 1
<1>1. IsFiniteSet(S) /\ Cardinality(S) \in Nat /\ Cardinality(S \ {s}) \in Nat
  BY SlotsFinite
<1>2. Cardinality(S \ {s}) = Cardinality(S) - 1
  BY <1>1, FS_RemoveElement
<1> QED BY <1>1, <1>2

FanTyped == todo \in [PostTask -> SUBSET Slot] /\ short \in [PostTask -> 0..Cardinality(Slot)]

LEMMA FanUnmoved ==
    ASSUME [Next]_vars
    PROVE  \/ UNCHANGED <<todo, short>>
           \/ \E p \in PostTask : EnterFinalizing(p) \/ Release(p)
           \/ \E p \in PostTask, s \in Slot : EnqueueSub(p, s) \/ EnqueueSubFails(p, s)
           \/ \E t \in Task : Crash(t)
<1>1. CASE \E t \in ProcessTask : ProcessStep(t)
  BY <1>1 DEF ProcessStep, StartProcess, Recheck, MarkProcessing, ResolveAttempt, ConvertFails,
     ConvertErrs, Convert, Wipe, WriteChunks, Index, IndexFails, StoreIndexed, HandOver,
     HandOverFails, fan
<1>2. CASE \E p \in PostTask : StartPost(p) \/ CompleteBare(p) \/ PostErrs(p) \/ FinishPost(p)
  BY <1>2 DEF StartPost, CompleteBare, PostErrs, FinishPost, fan
<1>3. CASE \/ \E t \in SubTask : SubStep(t)
           \/ UNCHANGED vars
  BY <1>3 DEF SubStep, StartSub, RetrySub, EndSub, vars, fan
<1>4. CASE BeginReparse \/ ReparseStep \/ BeginCancel \/ CancelStep \/ CrashUser \/ SweepStep
  BY <1>4 DEF BeginReparse, ReparseStep, StopOldRun, OpenReparse, SaveReset, ResetCount,
     EnqueueProcess, BeginCancel, CancelStep, WriteCancel, AbortLatest, StopCancelled, CrashUser,
     SweepStep, PickDrained, PromotePicked, PickStuck, FailStuck, fan
<1> QED BY <1>1, <1>2, <1>3, <1>4 DEF Next, PostStep

\* What the steps of a fan-out do to its slots.
LEMMA FanMoves ==
    ASSUME PcTyped, FanTyped, FanInv, NEW p \in PostTask,
           \/ EnterFinalizing(p) \/ Release(p)
           \/ \E s \in Slot : EnqueueSub(p, s) \/ EnqueueSubFails(p, s)
    PROVE  /\ FanTyped'
           /\ \A q \in PostTask : q # p => todo'[q] = todo[q] /\ short'[q] = short[q]
           /\ short'[p] + Cardinality(todo'[p]) <= Cardinality(Slot)
           /\ pc[p] = "fanout" \/ pc'[p] = "fanout" \/ UNCHANGED <<todo, short>>
<1>0. /\ short[p] \in Nat /\ todo[p] \in SUBSET Slot /\ Cardinality(todo[p]) \in Nat
      /\ short[p] + Cardinality(todo[p]) <= Cardinality(Slot) /\ Cardinality(Slot) \in Nat
  BY SlotsFinite DEF FanTyped, FanInv
<1>1. ASSUME UNCHANGED <<todo, short>>
      PROVE  /\ FanTyped'
             /\ \A q \in PostTask : q # p => todo'[q] = todo[q] /\ short'[q] = short[q]
             /\ short'[p] + Cardinality(todo'[p]) <= Cardinality(Slot)
  BY <1>0, <1>1 DEF FanTyped
<1>2. CASE EnterFinalizing(p)
  <2>1. CASE UNCHANGED todo
    BY <1>1, <1>2, <2>1 DEF EnterFinalizing
  <2>2. CASE /\ todo' = [todo EXCEPT ![p] = Slot]
             /\ Goto(p, "fanout")
    <3>1. pc[p] = "ready" /\ short' = short
      BY <1>2 DEF EnterFinalizing
    <3>2. short[p] = 0
      BY <3>1 DEF FanInv
    <3>3. todo'[p] = Slot /\ short'[p] = 0
      BY <2>2, <3>1, <3>2 DEF FanTyped
    <3>4. pc[p] = "fanout" \/ pc'[p] = "fanout" \/ UNCHANGED <<todo, short>>
      BY <2>2 DEF Goto, PcTyped, Task
    <3> QED BY <1>0, <2>2, <3>1, <3>3, <3>4 DEF FanTyped
  <2> QED BY <1>2, <2>1, <2>2 DEF EnterFinalizing
<1>3. CASE Release(p)
  <2>1. /\ pc[p] = "fanout" /\ short[p] > 0 /\ todo' = todo
        /\ short' = [short EXCEPT ![p] = @ - 1]
    BY <1>3 DEF Release
  <2>2. short[p] - 1 \in 0..Cardinality(Slot)
    BY <1>0, <2>1
  <2>3. short'[p] = short[p] - 1
    BY <2>1 DEF FanTyped
  <2>4. short'[p] + Cardinality(todo'[p]) <= Cardinality(Slot)
    BY <1>0, <2>1, <2>3
  <2> QED BY <2>1, <2>2, <2>4 DEF FanTyped
<1>4. ASSUME NEW s \in Slot, EnqueueSub(p, s) \/ EnqueueSubFails(p, s)
      PROVE  /\ FanTyped'
             /\ \A q \in PostTask : q # p => todo'[q] = todo[q] /\ short'[q] = short[q]
             /\ short'[p] + Cardinality(todo'[p]) <= Cardinality(Slot)
             /\ pc[p] = "fanout"
  <2>1. pc[p] = "fanout" /\ s \in todo[p] /\ todo' = [todo EXCEPT ![p] = @ \ {s}]
    BY <1>4 DEF EnqueueSub, EnqueueSubFails
  <2>2. /\ todo[p] \ {s} \in SUBSET Slot /\ Cardinality(todo[p] \ {s}) \in Nat
        /\ Cardinality(todo[p]) = Cardinality(todo[p] \ {s}) + 1
    BY <1>0, <2>1, TakeSlot
  <2>3. todo'[p] = todo[p] \ {s} /\ \A q \in PostTask : q # p => todo'[q] = todo[q]
    BY <2>1 DEF FanTyped
  <2>4. todo' \in [PostTask -> SUBSET Slot]
    BY <2>1, <2>2 DEF FanTyped
  <2>5. CASE short' = short
    <3>1. short'[p] + Cardinality(todo'[p]) <= Cardinality(Slot)
      BY <1>0, <2>2, <2>3, <2>5
    <3> QED BY <2>1, <2>3, <2>4, <2>5, <3>1 DEF FanTyped
  <2>6. CASE short' = [short EXCEPT ![p] = @ + 1]
    <3>1. short[p] + 1 \in 0..Cardinality(Slot)
      BY <1>0, <2>2
    <3>2. short'[p] = short[p] + 1
      BY <2>6 DEF FanTyped
    <3>3. short'[p] + Cardinality(todo'[p]) <= Cardinality(Slot)
      BY <1>0, <2>2, <2>3, <3>2
    <3> QED BY <2>1, <2>3, <2>4, <2>6, <3>1, <3>3 DEF FanTyped
  <2> QED BY <1>4, <2>5, <2>6 DEF EnqueueSub, EnqueueSubFails
<1> QED BY <1>2, <1>3, <1>4
\* A fan-out ends with nothing left, or with its worker.
LEMMA FanoutEnds ==
    ASSUME PcTyped, NEW p \in PostTask, PostStep(p), pc[p] = "fanout", pc'[p] # "fanout"
    PROVE  todo[p] = {} /\ short[p] = 0 /\ UNCHANGED <<todo, short>>
<1>1. FinishPost(p)
  <2>1. ASSUME NEW s \in Slot, EnqueueSub(p, s) PROVE FALSE
    <3>1. p # <<"sub", p[2], p[3], s>>
      BY TasksDiffer DEF SubTask
    <3> QED BY <2>1, <3>1 DEF EnqueueSub, PcTyped, Task
  <2> QED BY <2>1 DEF PostStep, StartPost, CompleteBare, EnterFinalizing, PostErrs,
     EnqueueSubFails, Release
<1> QED BY <1>1 DEF FinishPost, fan

LEMMA FanStep ==
    ASSUME PcTyped, FanTyped, FanInv, [Next]_vars
    PROVE  FanTyped' /\ FanInv'
<1>1. CASE UNCHANGED <<todo, short>>
  <2>1. FanTyped'
    BY <1>1 DEF FanTyped
  <2>2. ASSUME NEW p \in PostTask, pc'[p] # "fanout" PROVE todo'[p] = {} /\ short'[p] = 0
    <3>1. CASE pc[p] # "fanout"
      BY <1>1, <3>1 DEF FanInv
    <3>2. CASE pc[p] = "fanout" /\ PostStep(p)
      BY <1>1, <2>2, <3>2, FanoutEnds
    <3>3. CASE Crash(p)
      BY <3>3 DEF Crash
    <3> QED BY <2>2, <3>1, <3>2, <3>3, PostMoves
  <2> QED BY <1>1, <2>1, <2>2 DEF FanInv
<1>2. ASSUME NEW p \in PostTask,
             \/ EnterFinalizing(p) \/ Release(p)
             \/ \E s \in Slot : EnqueueSub(p, s) \/ EnqueueSubFails(p, s)
      PROVE  FanTyped' /\ FanInv'
  <2>1. /\ FanTyped'
        /\ \A q \in PostTask : q # p => todo'[q] = todo[q] /\ short'[q] = short[q]
        /\ short'[p] + Cardinality(todo'[p]) <= Cardinality(Slot)
        /\ pc[p] = "fanout" \/ pc'[p] = "fanout" \/ UNCHANGED <<todo, short>>
    BY <1>2, FanMoves
  <2>2. PostStep(p)
    BY <1>2 DEF PostStep
  <2>3. ASSUME NEW q \in PostTask
        PROVE  /\ pc'[q] # "fanout" => todo'[q] = {} /\ short'[q] = 0
               /\ short'[q] + Cardinality(todo'[q]) <= Cardinality(Slot)
    <3>1. CASE q = p
      <4>1. ASSUME pc'[p] # "fanout" PROVE todo'[p] = {} /\ short'[p] = 0
        <5>1. CASE pc[p] = "fanout"
          BY <2>2, <4>1, <5>1, FanoutEnds
        <5>2. CASE pc[p] # "fanout"
          BY <2>1, <4>1, <5>2 DEF FanInv
        <5> QED BY <5>1, <5>2
      <4> QED BY <2>1, <3>1, <4>1
    <3>2. CASE q # p
      <4>1. q \in Task /\ p \in Task
        BY DEF Task
      <4>2. pc'[q] = pc[q]
        <5>1. CASE \E s \in Slot : EnqueueSub(p, s)
          <6>1. PICK s \in Slot : EnqueueSub(p, s)
            BY <5>1
          <6>2. q # <<"sub", p[2], p[3], s>>
            BY TasksDiffer DEF SubTask
          <6> QED BY <4>1, <6>1, <6>2 DEF EnqueueSub, PcTyped
        <5>2. CASE ~(\E s \in Slot : EnqueueSub(p, s))
          BY <2>2, <3>2, <4>1, <5>2, PostOnly DEF Only
        <5> QED BY <5>1, <5>2
      <4> QED BY <2>1, <3>2, <4>2 DEF FanInv
    <3> QED BY <3>1, <3>2
  <2> QED BY <2>1, <2>3 DEF FanInv
<1>3. ASSUME NEW t \in Task, Crash(t) PROVE FanTyped' /\ FanInv'
  <2>1. /\ todo' = [p \in PostTask |-> IF p = t THEN {} ELSE todo[p]]
        /\ short' = [p \in PostTask |-> IF p = t THEN 0 ELSE short[p]]
    BY <1>3 DEF Crash
  <2>2. FanTyped'
    <3>1. 0 \in 0..Cardinality(Slot)
      BY SlotsFinite
    <3> QED BY <2>1, <3>1 DEF FanTyped
  <2>3. ASSUME NEW q \in PostTask
        PROVE  /\ pc'[q] # "fanout" => todo'[q] = {} /\ short'[q] = 0
               /\ short'[q] + Cardinality(todo'[q]) <= Cardinality(Slot)
    <3>1. CASE q = t
      <4>1. todo'[q] = {} /\ short'[q] = 0
        BY <2>1, <3>1
      <4>2. 0 + Cardinality({}) <= Cardinality(Slot)
        BY FS_EmptySet, SlotsFinite
      <4> QED BY <4>1, <4>2
    <3>2. CASE q # t
      <4>1. pc'[q] = pc[q] /\ todo'[q] = todo[q] /\ short'[q] = short[q]
        BY <1>3, <2>1, <3>2, CrashOnly DEF Only, Task
      <4> QED BY <4>1 DEF FanInv
    <3> QED BY <3>1, <3>2
  <2> QED BY <2>2, <2>3 DEF FanInv
<1> QED BY <1>1, <1>2, <1>3, FanUnmoved
-----------------------------------------------------------------------------
(* The other variables *)

LEMMA DrainTyped ==
    ASSUME status \in Status, pending \in 0..Cardinality(Slot), Drain
    PROVE  status' \in Status /\ pending' \in 0..Cardinality(Slot)
<1>1. pending > 0 => pending - 1 \in 0..Cardinality(Slot)
  BY SlotsFinite
<1>2. 0 \in 0..Cardinality(Slot)
  BY SlotsFinite
<1> QED BY <1>1, <1>2 DEF Drain, Status

LEMMA RowTyped == ASSUME TypeOK, [Next]_vars
                  PROVE  status' \in Status /\ pending' \in 0..Cardinality(Slot)
<1> DEFINE Goal == status' \in Status /\ pending' \in 0..Cardinality(Slot)
<1>0. /\ status \in Status /\ pending \in 0..Cardinality(Slot)
      /\ 0 \in 0..Cardinality(Slot) /\ Cardinality(Slot) \in 0..Cardinality(Slot)
  BY SlotsFinite DEF TypeOK
<1>1. ASSUME status' \in Status, pending' = pending \/ pending' = 0 PROVE Goal
  BY <1>0, <1>1
<1>2. ASSUME NEW t, NEW a, Errs(t, a) PROVE status' \in Status
  BY <1>0, <1>2 DEF Errs, DeadLetter, Status
<1>3. ASSUME ReleaseSlot PROVE Goal
  BY <1>0, <1>3, DrainTyped DEF ReleaseSlot, row
<1>4. CASE \E t \in ProcessTask : ProcessStep(t)
  <2>1. PICK t \in ProcessTask : ProcessStep(t)
    BY <1>4
  <2>2. CASE ConvertErrs(t) \/ HandOverFails(t)
    BY <1>1, <1>2, <2>2 DEF ConvertErrs, HandOverFails
  <2>3. CASE \/ StartProcess(t) \/ Recheck(t) \/ ResolveAttempt(t) \/ Convert(t) \/ Wipe(t)
             \/ WriteChunks(t) \/ Index(t) \/ HandOver(t)
    BY <1>0, <2>3 DEF StartProcess, Recheck, ResolveAttempt, Convert, Wipe, WriteChunks, Index,
       HandOver, row
  <2>4. CASE MarkProcessing(t) \/ ConvertFails(t) \/ IndexFails(t) \/ StoreIndexed(t)
    BY <1>0, <2>4 DEF MarkProcessing, ConvertFails, IndexFails, StoreIndexed, Status
  <2> QED BY <2>1, <2>2, <2>3, <2>4 DEF ProcessStep
<1>5. CASE \E p \in PostTask : PostStep(p)
  <2>1. PICK p \in PostTask : PostStep(p)
    BY <1>5
  <2>2. CASE PostErrs(p)
    BY <1>1, <1>2, <2>2 DEF PostErrs
  <2>3. CASE StartPost(p) \/ FinishPost(p) \/ \E s \in Slot : EnqueueSub(p, s) \/ EnqueueSubFails(p, s)
    BY <1>0, <2>3 DEF StartPost, FinishPost, EnqueueSub, EnqueueSubFails, row
  <2>4. CASE CompleteBare(p) \/ EnterFinalizing(p)
    BY <1>0, <2>4 DEF CompleteBare, EnterFinalizing, Status, row
  <2>5. CASE Release(p)
    BY <1>3, <2>5 DEF Release
  <2> QED BY <2>1, <2>2, <2>3, <2>4, <2>5 DEF PostStep
<1>6. CASE \E t \in SubTask : SubStep(t)
  <2>1. ASSUME NEW t, EndSub(t) PROVE Goal
    BY <1>3, <2>1 DEF EndSub
  <2> QED BY <1>0, <1>6, <2>1 DEF SubStep, StartSub, RetrySub, row
<1>7. CASE \/ \E t \in Task : Crash(t)
           \/ UNCHANGED vars
  BY <1>0, <1>7 DEF Crash, vars, row
<1>8. CASE BeginReparse \/ ReparseStep
  BY <1>0, <1>8 DEF BeginReparse, ReparseStep, StopOldRun, OpenReparse, SaveReset, ResetCount,
     EnqueueProcess, Status, row
<1>9. CASE BeginCancel \/ CancelStep \/ CrashUser \/ SweepStep
  BY <1>0, <1>9 DEF BeginCancel, CancelStep, WriteCancel, AbortLatest, StopCancelled, CrashUser,
     SweepStep, PickDrained, PromotePicked, PickStuck, FailStuck, Status, row
<1> QED BY <1>4, <1>5, <1>6, <1>7, <1>8, <1>9 DEF Next

\* The root span that is open is the newest attempt's.
LEMMA OpenTyped == ASSUME TypeOK, [Next]_vars PROVE open' \in {0, latest'}
<1> DEFINE Goal == open' \in {0, latest'}
<1>0. open \in {0, latest}
  BY DEF TypeOK
<1>1. ASSUME UNCHANGED <<latest, open>> PROVE Goal
  BY <1>0, <1>1
<1>2. ASSUME NEW a, CloseAttempt(a), latest' = latest PROVE Goal
  BY <1>0, <1>2 DEF CloseAttempt
<1>3. ASSUME OpenAttempt PROVE Goal
  BY <1>3 DEF OpenAttempt
<1>4. ASSUME NEW t, NEW a, Errs(t, a), latest' = latest PROVE Goal
  BY <1>1, <1>2, <1>4 DEF Errs
<1>5. CASE \E t \in ProcessTask : ProcessStep(t)
  <2>1. PICK t \in ProcessTask : ProcessStep(t)
    BY <1>5
  <2>2. CASE ConvertErrs(t) \/ HandOverFails(t)
    BY <1>4, <2>2 DEF ConvertErrs, HandOverFails
  <2>3. CASE ResolveAttempt(t)
    BY <1>1, <1>3, <2>3 DEF ResolveAttempt, spans
  <2>4. CASE \/ StartProcess(t) \/ Recheck(t) \/ MarkProcessing(t) \/ ConvertFails(t) \/ Convert(t)
             \/ Wipe(t) \/ WriteChunks(t) \/ Index(t) \/ IndexFails(t) \/ StoreIndexed(t)
             \/ HandOver(t)
    BY <1>1, <2>4 DEF StartProcess, Recheck, MarkProcessing, ConvertFails, Convert, Wipe,
       WriteChunks, Index, IndexFails, StoreIndexed, HandOver, spans
  <2> QED BY <2>1, <2>2, <2>3, <2>4 DEF ProcessStep
<1>6. CASE \E p \in PostTask : PostStep(p)
  <2>1. PICK p \in PostTask : PostStep(p)
    BY <1>6
  <2>2. CASE PostErrs(p)
    BY <1>4, <2>2 DEF PostErrs
  <2>3. CASE StartPost(p) \/ CompleteBare(p) \/ EnterFinalizing(p) \/ FinishPost(p)
    BY <1>1, <1>2, <2>3 DEF StartPost, CompleteBare, EnterFinalizing, FinishPost
  <2>4. CASE Release(p) \/ \E s \in Slot : EnqueueSub(p, s) \/ EnqueueSubFails(p, s)
    BY <1>1, <2>4 DEF Release, EnqueueSub, EnqueueSubFails, spans
  <2> QED BY <2>1, <2>2, <2>3, <2>4 DEF PostStep
<1>7. CASE \/ \E t \in SubTask : SubStep(t)
           \/ \E t \in Task : Crash(t)
           \/ UNCHANGED vars
  BY <1>1, <1>7 DEF SubStep, StartSub, RetrySub, EndSub, Crash, vars, spans
<1>8. CASE BeginReparse \/ ReparseStep
  BY <1>1, <1>3, <1>8 DEF BeginReparse, ReparseStep, StopOldRun, OpenReparse, SaveReset, ResetCount,
     EnqueueProcess, spans
<1>9. CASE BeginCancel \/ CancelStep \/ CrashUser
  BY <1>1, <1>2, <1>9 DEF BeginCancel, CancelStep, WriteCancel, AbortLatest, StopCancelled, CrashUser,
     spans
<1>10. CASE SweepStep
  BY <1>1, <1>2, <1>10 DEF SweepStep, PickDrained, PromotePicked, PickStuck, FailStuck, spans
<1> QED BY <1>5, <1>6, <1>7, <1>8, <1>9, <1>10 DEF Next

\* A reparse gives its task the number it opened.
LEMMA LatestTyped ==
    ASSUME TypeOK, AttemptInv, [Next]_vars
    PROVE  latest' \in Attempt \cup {0} /\ given' \in [ProcessTask -> Attempt \cup {0}]
<1>1. ASSUME OpenReparse PROVE latest + 1 \in Attempt
  <2>1. WillOpen > 0
    BY <1>1 DEF OpenReparse, WillOpen
  <2> QED BY <2>1, NextAttempt
<1>2. ASSUME NEW t \in ProcessTask, ResolveAttempt(t), ~(given[t] > 0) PROVE latest + 1 \in Attempt
  <2>1. pc[t] = "marked" /\ t = Upload
    BY <1>2 DEF ResolveAttempt, AttemptInv
  <2>2. WillOpen > 0
    BY <2>1 DEF WillOpen
  <2> QED BY <2>2, NextAttempt
<1>3. latest' \in Attempt \cup {0}
  BY <1>1, <1>2, LatestMoves DEF TypeOK
<1>4. given' \in [ProcessTask -> Attempt \cup {0}]
  <2>1. CASE OpenReparse
    BY <1>1, <2>1 DEF OpenReparse, TypeOK
  <2>2. CASE ~OpenReparse
    BY <2>2, ReparseMoves DEF BeginReparse, TypeOK
  <2> QED BY <2>1, <2>2
<1> QED BY <1>3, <1>4

LEMMA ChunksTyped == ASSUME TypeOK, MineInv, [Next]_vars PROVE chunks' \subseteq Attempt
<1>1. ASSUME NEW t \in ProcessTask, WriteChunks(t) PROVE chunks' \subseteq Attempt
  <2>1. mine[t] \in Attempt
    <3>1. mine[t] \in Attempt \cup {0} /\ mine[t] # 0
      BY <1>1 DEF WriteChunks, MineInv, InAttempt, TypeOK
    <3> QED BY <3>1
  <2> QED BY <1>1, <2>1 DEF WriteChunks, TypeOK
<1>2. ASSUME chunks' = chunks \/ chunks' = {} PROVE chunks' \subseteq Attempt
  BY <1>2 DEF TypeOK
<1>3. CASE \E t \in ProcessTask : ProcessStep(t)
  BY <1>1, <1>2, <1>3 DEF ProcessStep, StartProcess, Recheck, MarkProcessing, ResolveAttempt,
     ConvertFails, ConvertErrs, Convert, Wipe, Index, IndexFails, StoreIndexed, HandOver,
     HandOverFails
<1>4. CASE \E p \in PostTask : PostStep(p)
  BY <1>2, <1>4 DEF PostStep, StartPost, CompleteBare, EnterFinalizing, PostErrs, EnqueueSub,
     EnqueueSubFails, Release, FinishPost
<1>5. CASE \/ \E t \in SubTask : SubStep(t)
           \/ \E t \in Task : Crash(t)
           \/ UNCHANGED vars
  BY <1>2, <1>5 DEF SubStep, StartSub, RetrySub, EndSub, Crash, vars
<1>6. CASE BeginReparse \/ ReparseStep \/ BeginCancel \/ CancelStep \/ CrashUser \/ SweepStep
  BY <1>2, <1>6 DEF BeginReparse, ReparseStep, StopOldRun, OpenReparse, SaveReset, ResetCount,
     EnqueueProcess, BeginCancel, CancelStep, WriteCancel, AbortLatest, StopCancelled, CrashUser,
     SweepStep, PickDrained, PromotePicked, PickStuck, FailStuck
<1> QED BY <1>3, <1>4, <1>5, <1>6 DEF Next
LEMMA UserTyped ==
    ASSUME TypeOK, [Next]_vars
    PROVE  /\ reparse' \in {"idle", "stopping", "opening", "saving", "zeroing", "enqueuing"}
           /\ request' \in Request
           /\ cancel' \in {"idle", "writing", "closing", "stopping"} /\ cancels' \in 0..MaxCancel
           /\ sweep' \in {"idle", "drained", "stale", "stuck"}
<1> DEFINE Goal ==
           /\ reparse' \in {"idle", "stopping", "opening", "saving", "zeroing", "enqueuing"}
           /\ request' \in Request
           /\ cancel' \in {"idle", "writing", "closing", "stopping"} /\ cancels' \in 0..MaxCancel
           /\ sweep' \in {"idle", "drained", "stale", "stuck"}
<1>0. /\ reparse \in {"idle", "stopping", "opening", "saving", "zeroing", "enqueuing"}
      /\ request \in Request
      /\ cancel \in {"idle", "writing", "closing", "stopping"} /\ cancels \in 0..MaxCancel
      /\ sweep \in {"idle", "drained", "stale", "stuck"}
  BY DEF TypeOK
<1>1. ASSUME UNCHANGED user, UNCHANGED sweep PROVE Goal
  BY <1>0, <1>1 DEF user
<1>2. CASE \/ \E t \in ProcessTask : ProcessStep(t)
           \/ \E p \in PostTask : PostStep(p)
  BY <1>1, <1>2, WorkersLeave
<1>3. CASE \/ \E t \in SubTask : SubStep(t)
           \/ \E t \in Task : Crash(t)
           \/ UNCHANGED vars
  BY <1>1, <1>3 DEF SubStep, StartSub, RetrySub, EndSub, Crash, vars
<1>4. CASE BeginReparse
  <2>1. request + 1 \in Request
    BY <1>4, Bounds DEF BeginReparse, TypeOK, Request
  <2> QED BY <1>0, <1>4, <2>1 DEF BeginReparse
<1>5. CASE ReparseStep
  BY <1>0, <1>5 DEF ReparseStep, StopOldRun, OpenReparse, SaveReset, ResetCount, EnqueueProcess
<1>6. CASE BeginCancel
  <2>1. cancels + 1 \in 0..MaxCancel
    BY <1>6, Bounds DEF BeginCancel, TypeOK
  <2> QED BY <1>0, <1>6, <2>1 DEF BeginCancel
<1>7. CASE CancelStep \/ CrashUser
  BY <1>0, <1>7 DEF CancelStep, WriteCancel, AbortLatest, StopCancelled, CrashUser
<1>8. CASE SweepStep
  BY <1>0, <1>8 DEF SweepStep, PickDrained, PromotePicked, PickStuck, FailStuck, user
<1> QED BY <1>2, <1>3, <1>4, <1>5, <1>6, <1>7, <1>8 DEF Next

\* A bounded counter that is raised below its bound stays within it.
LEMMA Raised == ASSUME NEW m \in Nat, NEW n \in 0..m, n < m PROVE n + 1 \in 0..m
  OBVIOUS

LEMMA UsedTyped ==
    ASSUME TypeOK, [Next]_vars
    PROVE  crashes' \in 0..MaxCrash /\ refused' \in 0..MaxRefused /\ lost' \in 0..MaxLost
<1> DEFINE Goal == crashes' \in 0..MaxCrash /\ refused' \in 0..MaxRefused /\ lost' \in 0..MaxLost
<1>0. /\ crashes \in 0..MaxCrash /\ refused \in 0..MaxRefused /\ lost \in 0..MaxLost
      /\ crashes < MaxCrash => crashes + 1 \in 0..MaxCrash
      /\ refused < MaxRefused => refused + 1 \in 0..MaxRefused
      /\ lost < MaxLost => lost + 1 \in 0..MaxLost
  BY Bounds, Raised DEF TypeOK
<1>1. ASSUME UNCHANGED used PROVE Goal
  BY <1>0, <1>1 DEF used
<1>2. CASE \E t \in ProcessTask : ProcessStep(t)
  <2>1. PICK t \in ProcessTask : ProcessStep(t)
    BY <1>2
  <2>2. CASE HandOver(t)
    BY <1>0, <2>2 DEF HandOver
  <2>3. CASE HandOverFails(t) \/ Wipe(t)
    BY <1>0, <2>3 DEF HandOverFails, Wipe
  <2> QED BY <1>1, <2>1, <2>2, <2>3 DEF ProcessStep, StartProcess, Recheck, MarkProcessing,
     ResolveAttempt, ConvertFails, ConvertErrs, Convert, WriteChunks, Index, IndexFails, StoreIndexed
<1>3. CASE \E p \in PostTask : PostStep(p)
  <2>1. PICK p \in PostTask : PostStep(p)
    BY <1>3
  <2>2. CASE PostErrs(p) \/ \E s \in Slot : EnqueueSubFails(p, s)
    BY <1>0, <2>2 DEF PostErrs, EnqueueSubFails
  <2>3. CASE Release(p)
    BY <1>0, <2>3 DEF Release, ReleaseSlot
  <2>4. CASE FinishPost(p)
    BY <1>0, <2>4 DEF FinishPost, Acked
  <2> QED BY <1>1, <2>1, <2>2, <2>3, <2>4 DEF PostStep, StartPost, CompleteBare, EnterFinalizing,
     EnqueueSub
<1>4. CASE \E t \in SubTask : SubStep(t)
  <2>1. ASSUME NEW t, EndSub(t) PROVE Goal
    BY <1>0, <2>1 DEF EndSub, ReleaseSlot, Acked
  <2> QED BY <1>1, <1>4, <2>1 DEF SubStep, StartSub, RetrySub
<1>5. CASE \E t \in Task : Crash(t)
  BY <1>0, <1>5 DEF Crash
<1>6. CASE EnqueueProcess \/ CrashUser
  BY <1>0, <1>6 DEF EnqueueProcess, CrashUser
<1>7. CASE \/ BeginReparse \/ StopOldRun \/ OpenReparse \/ SaveReset \/ ResetCount \/ BeginCancel
           \/ CancelStep \/ SweepStep \/ UNCHANGED vars
  BY <1>1, <1>7 DEF BeginReparse, StopOldRun, OpenReparse, SaveReset, ResetCount, BeginCancel,
     CancelStep, WriteCancel, AbortLatest, StopCancelled, SweepStep, PickDrained, PromotePicked,
     PickStuck, FailStuck, vars
<1> QED BY <1>2, <1>3, <1>4, <1>5, <1>6, <1>7 DEF Next, ReparseStep

LEMMA PStep == ASSUME PInv, [Next]_vars PROVE PInv'
<1>1. TypeOK /\ AttemptInv /\ MineInv /\ FanInv /\ PcTyped /\ FanTyped
  BY DEF PInv, TypeOK, PcTyped, FanTyped
<1>2. AttemptInv' /\ MineInv' /\ mine' \in [ProcessTask -> Attempt \cup {0}]
  BY <1>1, AttemptStep, MineStep
<1>3. PcTyped' /\ FanTyped' /\ FanInv'
  BY <1>1, PcStep, FanStep
<1>4. status' \in Status /\ pending' \in 0..Cardinality(Slot) /\ open' \in {0, latest'}
  BY <1>1, RowTyped, OpenTyped
<1>5. latest' \in Attempt \cup {0} /\ given' \in [ProcessTask -> Attempt \cup {0}]
      /\ chunks' \subseteq Attempt
  BY <1>1, LatestTyped, ChunksTyped
<1>6. TypeOK'
  BY <1>1, <1>2, <1>3, <1>4, <1>5, UserTyped, UsedTyped DEF TypeOK, PcTyped, FanTyped
<1> QED BY <1>2, <1>3, <1>6 DEF PInv

\* The types of the pipeline.  The counter of a row never exceeds what one fan-out
\* seeds (SetFinalizing, FinalizeSubtask), and OpenAttempt never hands out more numbers
\* than there were requests and deliveries of the upload.
THEOREM PipelineTyped == Spec => []TypeOK
<1>1. PInv => TypeOK
  BY DEF PInv
<1> QED BY <1>1, PInit, PStep, PTL DEF Spec
-----------------------------------------------------------------------------
(* Enrichment.  A row that was parsed for one request, with no worker dying,  *)
(* is handed over once: its counter, its status and its chunks are then moved *)
(* by that fan-out and its subtasks alone.                                    *)

Fresh == request = 1 /\ crashes = 0

\* One task parses, the upload's, and the one post-process it queues is of its attempt.
OneHandOver ==
    /\ reparse = "idle" /\ given[Upload] = 0
    /\ \A t \in ProcessTask : t # Upload => pc[t] = "none"
    /\ \A p, q \in PostTask : pc[p] # "none" /\ pc[q] # "none" => p = q
    /\ \A p \in PostTask : pc[p] # "none" => pc[Upload] = "done" /\ p[2] = latest
    /\ pc[Upload] \in InAttempt => mine[Upload] = latest

\* A subtask was enqueued by the fan-out of that post-process, once.
Begun(p) == pc[p] \in {"fanout", "done"}

Fanned ==
    \A t \in SubTask : pc[t] # "none" =>
        \E p \in PostTask : Begun(p) /\ t[2] = p[2] /\ t[3] = p[3] /\ t[4] \notin todo[p]

\* The counter covers what is owed; it is exact while no release was lost and no
\* cancel has taken tasks off the queue.
Books ==
    /\ status = "finalizing" => Owed <= pending /\ (cancels = 0 /\ lost = 0 => pending = Owed)
    /\ status = "completed" => Owed = 0

Accounts ==
    /\ IsFiniteSet(Subs(latest)) /\ Books
    /\ cancel # "idle" => cancels > 0
    /\ status = "finalizing" => \E p \in PostTask : Begun(p)

Reading == {"read", "clear", "marked", "opened", "wiping", "wiped", "writing", "written",
            "indexing", "indexed"}

\* The chunks are those of the parse that got this far.
Parsed ==
    /\ pc[Upload] \in Reading => status # "completed"
    /\ lost = 0 => /\ pc[Upload] \in {"wiped", "writing"} => chunks = {}
                   /\ pc[Upload] \in {"written", "indexing", "indexed", "stored"} => chunks = {latest}
                   /\ status = "completed" => chunks = {latest}

Handed == (\E p \in PostTask : pc[p] # "none") /\ lost = 0 => chunks = {latest}

\* A row the sweep has picked has no task any more.
Swept ==
    sweep # "idle" => ~Backlogged /\ (sweep # "stuck" => \E p \in PostTask : pc[p] # "none")

Whole == OneHandOver /\ Fanned /\ Accounts /\ Parsed /\ Handed /\ Swept

AInv == PInv /\ (Fresh => Whole)

LEMMA Chosen == ASSUME NEW x PROVE (CHOOSE y \in {x} : TRUE) = x
  OBVIOUS

LEMMA OwedNone == ASSUME Posts = {} PROVE Owed = Cardinality(Subs(latest)) + 0
  BY DEF Owed

LEMMA OwedOf ==
    ASSUME NEW p, Posts = {p}
    PROVE  Owed = Cardinality(Subs(latest)) + (Cardinality(todo[p]) + short[p])
<1>1. (CHOOSE q \in Posts : TRUE) = p /\ Posts # {}
  BY Chosen
<1> QED BY <1>1 DEF Owed

\* The same of the next state.
LEMMA OwedOfNext ==
    ASSUME NEW p, Posts' = {p}
    PROVE  Owed' = Cardinality(Subs(latest)') + (Cardinality(todo'[p]) + short'[p])
<1>1. (CHOOSE q \in Posts' : TRUE) = p /\ Posts' # {}
  BY Chosen
<1> QED BY <1>1 DEF Owed

LEMMA OwedNoneNext == ASSUME Posts' = {} PROVE Owed' = Cardinality(Subs(latest)') + 0
  BY DEF Owed

\* A run that may still be fresh is: neither bound is ever taken back.
LEMMA FreshStays ==
    ASSUME PInv, [Next]_vars, Fresh'
    PROVE  Fresh /\ ~BeginReparse /\ crashes' = crashes
<1>1. request \in Nat /\ request >= 1 /\ crashes \in Nat
  BY Bounds DEF PInv, TypeOK, Request
<1>2. request = 1 /\ ~BeginReparse
  <2>1. ~BeginReparse
    BY <1>1 DEF BeginReparse, Fresh
  <2>2. request' = request
    BY <2>1, ReparseMoves DEF OpenReparse
  <2> QED BY <2>1, <2>2 DEF Fresh
<1>3. crashes' = crashes \/ crashes' = crashes + 1
  <2>1. CASE \E t \in ProcessTask : ProcessStep(t)
    BY <2>1 DEF ProcessStep, StartProcess, Recheck, MarkProcessing, ResolveAttempt, ConvertFails,
       ConvertErrs, Convert, Wipe, WriteChunks, Index, IndexFails, StoreIndexed, HandOver,
       HandOverFails, used
  <2>2. CASE \E p \in PostTask : PostStep(p)
    BY <2>2 DEF PostStep, StartPost, CompleteBare, EnterFinalizing, PostErrs, EnqueueSub,
       EnqueueSubFails, Release, FinishPost, Acked, used
  <2>3. CASE \/ \E t \in SubTask : SubStep(t)
             \/ \E t \in Task : Crash(t)
             \/ UNCHANGED vars
    BY <2>3 DEF SubStep, StartSub, RetrySub, EndSub, Acked, Crash, vars, used
  <2>4. CASE BeginReparse \/ ReparseStep \/ BeginCancel \/ CancelStep \/ CrashUser \/ SweepStep
    BY <2>4 DEF BeginReparse, ReparseStep, StopOldRun, OpenReparse, SaveReset, ResetCount,
       EnqueueProcess, BeginCancel, CancelStep, WriteCancel, AbortLatest, StopCancelled, CrashUser,
       SweepStep, PickDrained, PromotePicked, PickStuck, FailStuck, used
  <2> QED BY <2>1, <2>2, <2>3, <2>4 DEF Next
<1>4. crashes = 0 /\ crashes' = crashes
  BY <1>1, <1>3 DEF Fresh
<1> QED BY <1>2, <1>4 DEF Fresh

\* Before the hand-over nothing is owed, and after it the upload is not parsed again.
LEMMA NothingYet ==
    ASSUME OneHandOver, Fanned, pc[Upload] # "done"
    PROVE  /\ \A p \in PostTask : pc[p] = "none"
           /\ \A t \in SubTask : pc[t] = "none"
<1>1. \A p \in PostTask : pc[p] = "none"
  BY DEF OneHandOver
<1>2. \A p \in PostTask : ~Begun(p)
  BY <1>1 DEF Begun
<1> QED BY <1>1, <1>2 DEF Fanned

LEMMA NothingOwed ==
    ASSUME \A p \in PostTask : pc'[p] # "fanout", \A t \in SubTask : pc'[t] = "none"
    PROVE  IsFiniteSet(Subs(latest))' /\ Owed' = 0
<1>1. Subs(latest)' = {}
  BY DEF Subs, Live
<1>2. Posts' = {}
  BY DEF Posts
<1>3. IsFiniteSet({}) /\ Cardinality({}) = 0
  BY FS_EmptySet
<1>4. Owed' = 0
  BY <1>1, <1>2, <1>3, OwedNoneNext
<1> QED BY <1>1, <1>3, <1>4

\* What a parse does to its document, up to the hand-over.
ParseOK ==
    /\ status # "finalizing" /\ given[Upload] = 0
    /\ pc[Upload] \in InAttempt => mine[Upload] = latest
    /\ Parsed

LEMMA ErrsParse ==
    ASSUME PcTyped, ParseOK, NEW a, Errs(Upload, a), UNCHANGED <<latest, chunks, given, mine, lost>>
    PROVE  ParseOK'
<1>1. Upload \in Task
  BY TasksDiffer DEF Task
<1>2. pc'[Upload] \in {"queued", "done"}
  BY <1>1 DEF Errs, Requeued, Goto, PcTyped
<1>3. status' = status \/ status' = "failed"
  BY DEF Errs, DeadLetter
<1> QED BY <1>2, <1>3 DEF ParseOK, Parsed, InAttempt, Reading

LEMMA ParseStep ==
    ASSUME TypeOK, ParseOK, ProcessStep(Upload), ~HandOver(Upload), lost' = 0 => lost = 0
    PROVE  ParseOK'
<1>0. PcTyped /\ Upload \in Task /\ Upload \in ProcessTask
  BY TasksDiffer DEF Task, PcTyped, TypeOK
<1>1. \A l : Goto(Upload, l) => pc'[Upload] = l
  BY <1>0 DEF Goto, PcTyped
<1>2. ASSUME ConvertErrs(Upload) \/ HandOverFails(Upload) PROVE ParseOK'
  BY <1>0, <1>2, ErrsParse DEF ConvertErrs, HandOverFails, used
<1>3. CASE StartProcess(Upload)
  <2>1. /\ pc'[Upload] \in {"done", "read"}
        /\ pc'[Upload] = "read" => status # "completed"
    BY <1>1, <1>3 DEF StartProcess
  <2> QED BY <1>3, <2>1 DEF StartProcess, ParseOK, Parsed, InAttempt, Reading, row, spans, used
<1>4. CASE Recheck(Upload)
  <2>1. \/ pc'[Upload] = "done"
        \/ pc[Upload] = "read" /\ pc'[Upload] = "clear"
        \/ pc[Upload] = "wiped" /\ pc'[Upload] = "writing"
        \/ pc[Upload] = "written" /\ pc'[Upload] = "indexing"
    BY <1>1, <1>4 DEF Recheck
  <2> QED BY <1>4, <2>1 DEF Recheck, ParseOK, Parsed, InAttempt, Reading, row, spans, used
<1>5. CASE MarkProcessing(Upload)
  <2>1. pc'[Upload] = "marked" /\ status' = "processing"
    BY <1>1, <1>5 DEF MarkProcessing
  <2> QED BY <1>5, <2>1 DEF MarkProcessing, ParseOK, Parsed, InAttempt, Reading, spans, used
<1>6. CASE ResolveAttempt(Upload)
  <2>1. pc[Upload] = "marked" /\ pc'[Upload] = "opened" /\ UNCHANGED <<status, chunks, lost, given>>
    BY <1>1, <1>6 DEF ResolveAttempt, row, used
  <2>2. given[Upload] = 0 /\ ~(0 > 0)
    BY DEF ParseOK
  <2>3. latest' = latest + 1 /\ mine' = [mine EXCEPT ![Upload] = latest + 1]
    BY <1>6, <2>2 DEF ResolveAttempt, OpenAttempt
  <2>4. mine'[Upload] = latest'
    BY <1>0, <2>3 DEF TypeOK
  <2> QED BY <2>1, <2>4 DEF ParseOK, Parsed, InAttempt, Reading
<1>7. CASE ConvertFails(Upload)
  <2>1. pc'[Upload] = "done" /\ status' = "failed"
    BY <1>1, <1>7 DEF ConvertFails
  <2> QED BY <1>7, <2>1 DEF ConvertFails, ParseOK, Parsed, InAttempt, Reading, spans, used
<1>8. CASE Convert(Upload)
  <2>1. pc[Upload] = "opened" /\ pc'[Upload] \in {"done", "wiping"}
    BY <1>1, <1>8 DEF Convert
  <2> QED BY <1>8, <2>1 DEF Convert, ParseOK, Parsed, InAttempt, Reading, row, spans, used
<1>9. CASE Wipe(Upload)
  <2>1. pc[Upload] = "wiping" /\ pc'[Upload] = "wiped" /\ UNCHANGED <<status, latest, given, mine>>
    BY <1>1, <1>9 DEF Wipe, row, spans
  <2>2. lost' = 0 => chunks' = {}
    <3>1. lost \in Nat
      BY DEF TypeOK
    <3> QED BY <1>9, <3>1 DEF Wipe
  <2> QED BY <2>1, <2>2 DEF ParseOK, Parsed, InAttempt, Reading
<1>10. CASE WriteChunks(Upload)
  <2>1. /\ pc[Upload] = "writing" /\ pc'[Upload] = "written" /\ UNCHANGED <<status, latest, given, mine, lost>>
        /\ chunks' = chunks \cup {mine[Upload]}
    BY <1>1, <1>10 DEF WriteChunks, row, spans, used
  <2>2. mine[Upload] = latest /\ (lost = 0 => chunks = {})
    BY <2>1 DEF ParseOK, Parsed, InAttempt
  <2>3. lost = 0 => chunks' = {latest}
    BY <2>1, <2>2
  <2> QED BY <2>1, <2>2, <2>3 DEF ParseOK, Parsed, InAttempt, Reading
<1>11. CASE Index(Upload)
  <2>1. pc[Upload] = "indexing" /\ pc'[Upload] \in {"done", "indexed"}
    BY <1>1, <1>11 DEF Index
  <2> QED BY <1>11, <2>1 DEF Index, ParseOK, Parsed, InAttempt, Reading, row, spans, used
<1>12. CASE IndexFails(Upload)
  <2>1. pc[Upload] = "indexing" /\ pc'[Upload] \in {"queued", "done"} /\ status' \in {status, "failed"}
    BY <1>0, <1>1, <1>12 DEF IndexFails, Requeued, PcTyped
  <2>2. UNCHANGED <<latest, given, mine, lost>>
    BY <1>12 DEF IndexFails, spans, used
  <2> QED BY <2>1, <2>2 DEF ParseOK, Parsed, InAttempt, Reading
<1>13. CASE StoreIndexed(Upload)
  <2>1. /\ pc[Upload] = "indexed" /\ pc'[Upload] = "stored" /\ status' \in {"processing", "completed", status}
        /\ UNCHANGED <<latest, chunks, given, mine, lost>>
    BY <1>1, <1>13 DEF StoreIndexed, spans, used
  <2> QED BY <2>1 DEF ParseOK, Parsed, InAttempt, Reading
<1> QED BY <1>2, <1>3, <1>4, <1>5, <1>6, <1>7, <1>8, <1>9, <1>10, <1>11, <1>12, <1>13 DEF ProcessStep
LEMMA ParseLeaves ==
    ASSUME NEW u, ProcessStep(u)
    PROVE  /\ Live(u) /\ pc[u] # "done"
           /\ UNCHANGED <<reparse, request, cancel, cancels, sweep, todo, short, given>>
           /\ lost' = lost \/ (lost < MaxLost /\ lost' = lost + 1)
<1>1. Live(u) /\ pc[u] # "done"
  BY DEF Live, ProcessStep, StartProcess, Recheck, MarkProcessing, ResolveAttempt, ConvertFails,
     ConvertErrs, Convert, Wipe, WriteChunks, Index, IndexFails, StoreIndexed, HandOver, HandOverFails
<1>2. /\ UNCHANGED <<reparse, request, cancel, cancels, sweep, todo, short, given>>
      /\ lost' = lost \/ (lost < MaxLost /\ lost' = lost + 1)
  BY DEF ProcessStep, StartProcess, Recheck, MarkProcessing, ResolveAttempt, ConvertFails,
     ConvertErrs, Convert, Wipe, WriteChunks, Index, IndexFails, StoreIndexed, HandOver, HandOverFails,
     user, fan, used
<1> QED BY <1>1, <1>2

\* A parse that works on its document finds it as the request left it.
LEMMA ParseFinds ==
    ASSUME PInv, Whole, pc[Upload] # "done"
    PROVE  ParseOK
<1>1. \A p \in PostTask : pc[p] = "none"
  BY NothingYet DEF Whole
<1>2. status # "finalizing"
  BY <1>1 DEF Whole, Accounts, Begun
<1> QED BY <1>2 DEF ParseOK, Whole, OneHandOver

LEMMA ParseKeeps ==
    ASSUME PInv, Whole, ProcessStep(Upload), ~HandOver(Upload)
    PROVE  Whole'
<1>1. TypeOK /\ PcTyped
  BY DEF PInv, TypeOK, PcTyped
<1>2. /\ Live(Upload) /\ pc[Upload] # "done"
      /\ UNCHANGED <<reparse, cancel, cancels, sweep, todo, short, given>>
      /\ lost' = 0 => lost = 0
  <2>1. lost \in Nat
    BY <1>1, Bounds DEF TypeOK
  <2> QED BY <2>1, ParseLeaves
<1>3. ParseOK'
  <2>1. ParseOK
    BY <1>2, ParseFinds
  <2> QED BY <1>1, <1>2, <2>1, ParseStep
<1>4. \A p \in PostTask : pc'[p] = "none"
  BY <1>1, <1>2, ParseOnly, NothingYet, TasksDiffer DEF Only, Task, Whole
<1>5. \A t \in SubTask : pc'[t] = "none"
  BY <1>1, <1>2, ParseOnly, NothingYet, TasksDiffer DEF Only, Task, Whole
<1>6. \A t \in ProcessTask : t # Upload => pc'[t] = "none"
  BY <1>1, ParseOnly DEF Only, Task, Whole, OneHandOver
<1>7. OneHandOver'
  <2>1. reparse' = "idle"
    BY <1>2 DEF Whole, OneHandOver
  <2> QED BY <1>3, <1>4, <1>6, <2>1 DEF OneHandOver, ParseOK
<1>8. Fanned' /\ Handed'
  BY <1>4, <1>5 DEF Fanned, Handed
<1>9. Accounts'
  <2>1. IsFiniteSet(Subs(latest))' /\ Owed' = 0
    BY <1>4, <1>5, NothingOwed
  <2>2. status' # "finalizing"
    BY <1>3 DEF ParseOK
  <2> QED BY <1>2, <2>1, <2>2 DEF Accounts, Books, Whole
<1>10. Swept'
  <2>1. Upload \in Task
    BY TasksDiffer DEF Task
  <2> QED BY <1>2, <2>1 DEF Whole, Swept, Backlogged
<1> QED BY <1>3, <1>7, <1>8, <1>9, <1>10 DEF Whole, ParseOK

LEMMA HandOverKeeps ==
    ASSUME PInv, Whole, HandOver(Upload), crashes' = crashes
    PROVE  Whole'
<1>1. /\ TypeOK /\ PcTyped /\ Upload \in Task /\ crashes \in Nat
      /\ pc[Upload] = "stored" /\ mine[Upload] = latest /\ latest \in Attempt
  <2>1. TypeOK /\ Upload \in ProcessTask /\ Upload \in Task
    BY TasksDiffer DEF PInv, Task
  <2>2. pc[Upload] = "stored" /\ mine[Upload] = latest /\ mine[Upload] > 0
    BY <2>1 DEF HandOver, Whole, OneHandOver, InAttempt, PInv, MineInv
  <2>3. latest \in Attempt \cup {0} /\ latest # 0
    BY <2>1, <2>2 DEF TypeOK
  <2> QED BY <2>1, <2>2, <2>3, Bounds DEF TypeOK, PcTyped
<1>2. PICK k \in Copy : pc' = [pc EXCEPT ![Upload] = "done", ![<<"post", latest, k>>] = "queued"]
  <2>1. crashes' # crashes + 1
    BY <1>1
  <2> QED BY <1>1, <2>1, HandOverDoes
<1> DEFINE post == <<"post", latest, k>>
<1>3. post \in PostTask /\ post \in Task /\ post # Upload /\ post[2] = latest
  BY <1>1 DEF PostTask, Task, Upload
<1>4. /\ UNCHANGED <<reparse, cancel, cancels, sweep, todo, short, given, status, latest, chunks, mine, lost>>
      /\ Live(Upload)
  BY DEF HandOver, row, spans, fan, user, Live
<1>5. /\ pc'[Upload] = "done" /\ pc'[post] = "queued"
      /\ \A t \in Task : t # Upload /\ t # post => pc'[t] = pc[t]
  BY <1>1, <1>2, <1>3 DEF PcTyped
<1> HIDE DEF post
<1>6. (\A p \in PostTask : pc[p] = "none") /\ (\A t \in SubTask : pc[t] = "none")
  BY <1>1, NothingYet DEF Whole
<1>7. \A p \in PostTask : p # post => pc'[p] = "none"
  BY <1>5, <1>6, TasksDiffer DEF Task
<1>8. \A t \in SubTask : pc'[t] = "none"
  BY <1>3, <1>5, <1>6, TasksDiffer DEF Task
<1>9. \A t \in ProcessTask : t # Upload => pc'[t] = "none"
  BY <1>3, <1>5, TasksDiffer DEF Task, Whole, OneHandOver
<1>10. OneHandOver'
  <2>1. reparse' = "idle" /\ given'[Upload] = 0
    BY <1>4 DEF Whole, OneHandOver
  <2>2. \A p \in PostTask : pc'[p] # "none" => p = post
    BY <1>7
  <2>3. pc'[Upload] \notin InAttempt
    BY <1>5 DEF InAttempt
  <2> QED BY <1>3, <1>4, <1>5, <1>9, <2>1, <2>2, <2>3 DEF OneHandOver
<1>11. lost = 0 => chunks = {latest}
  BY <1>1 DEF Whole, Parsed
<1>12. Fanned' /\ Handed'
  BY <1>4, <1>8, <1>11 DEF Fanned, Handed
<1>13. Accounts'
  <2>1. IsFiniteSet(Subs(latest))' /\ Owed' = 0
    BY <1>5, <1>7, <1>8, NothingOwed
  <2>2. status' # "finalizing"
    BY <1>4, <1>6 DEF Whole, Accounts, Begun
  <2> QED BY <1>4, <2>1, <2>2 DEF Accounts, Books, Whole
<1>14. Parsed'
  BY <1>4, <1>5, <1>11 DEF Parsed, Reading
<1>15. Swept'
  BY <1>1, <1>4 DEF Whole, Swept, Backlogged
<1> QED BY <1>10, <1>12, <1>13, <1>14, <1>15 DEF Whole
\* A released slot is one the row was owed.
LEMMA ReleaseBooks ==
    ASSUME TypeOK, Books, ReleaseSlot, cancels' = cancels, NEW o \in Nat, Owed' = o, Owed = o + 1
    PROVE  Books'
<1>1. PICK n \in Nat : n = pending
  BY SlotsFinite DEF TypeOK
<1> DEFINE m == o + 1
<1>2. Owed' = o
  OBVIOUS
<1>6. m \in Nat /\ m = o + 1 /\ Owed = m /\ m # 0
  OBVIOUS
<1> HIDE DEF m
<1>7. /\ status # "completed"
      /\ status = "finalizing" => m <= pending /\ (cancels = 0 /\ lost = 0 => pending = m)
  BY <1>6 DEF Books
<1>8. status = "finalizing" => o + 1 <= n /\ (cancels = 0 /\ lost = 0 => n = o + 1)
  <2>1. status = "finalizing" => m <= n
    BY <1>1, <1>7
  <2>2. status = "finalizing" /\ cancels = 0 /\ lost = 0 => n = m
    BY <1>1, <1>7
  <2> QED BY <1>6, <2>1, <2>2
<1>3. PICK l \in Nat : l = lost
  BY Bounds DEF TypeOK
<1>4. CASE Drain /\ UNCHANGED lost
  <2> DEFINE left == IF pending > 0 THEN pending - 1 ELSE 0
  <2>1. pending' = left /\ status' = IF status = "finalizing" /\ left = 0 THEN "completed" ELSE status
    BY <1>4 DEF Drain
  <2>2. left = IF n > 0 THEN n - 1 ELSE 0
    BY <1>1
  <2> HIDE DEF left
  <2>4. CASE status = "finalizing" /\ left = 0
    <3>1. o + 1 <= n /\ n <= 1
      BY <1>8, <2>2, <2>4
    <3>2. o = 0
      BY <3>1
    <3>3. status' = "completed"
      BY <2>1, <2>4
    <3> QED BY <1>2, <3>2, <3>3 DEF Books
  <2>5. CASE status = "finalizing" /\ left # 0
    <3>1. o + 1 <= n /\ (cancels = 0 /\ lost = 0 => n = o + 1)
      BY <1>8, <2>5
    <3>2. o <= left /\ (cancels = 0 /\ lost = 0 => left = o)
      BY <2>2, <3>1
    <3>3. status' = "finalizing" /\ pending' = left /\ Owed' = o /\ cancels' = cancels /\ lost' = lost
      BY <1>2, <1>4, <2>1, <2>5
    <3> QED BY <3>2, <3>3 DEF Books
  <2>6. CASE status # "finalizing"
    <3>1. status' # "finalizing" /\ status' # "completed"
      BY <1>7, <2>1, <2>6
    <3> QED BY <3>1 DEF Books
  <2> QED BY <2>4, <2>5, <2>6
<1>5. CASE lost' = lost + 1 /\ UNCHANGED row
  <2>1. lost' # 0 /\ status' = status /\ pending' = n
    BY <1>1, <1>3, <1>5 DEF row
  <2>2. status = "finalizing" => o <= n
    BY <1>1, <1>8
  <2>3. status' = "finalizing" => Owed' <= pending'
    BY <1>2, <2>1, <2>2
  <2> QED BY <1>7, <2>1, <2>3 DEF Books
<1> QED BY <1>4, <1>5 DEF ReleaseSlot

LEMMA PostLeaves ==
    ASSUME NEW p, PostStep(p)
    PROVE  /\ Live(p) /\ pc[p] # "none"
           /\ UNCHANGED <<reparse, cancel, cancels, sweep, given, mine, latest, chunks>>
           /\ lost' = lost \/ (lost < MaxLost /\ lost' = lost + 1)
<1>1. Live(p) /\ pc[p] # "none"
  BY DEF Live, PostStep, StartPost, CompleteBare, EnterFinalizing, PostErrs, EnqueueSub,
     EnqueueSubFails, Release, FinishPost
<1>2. /\ UNCHANGED <<reparse, cancel, cancels, sweep, given, mine, latest, chunks>>
      /\ lost' = lost \/ (lost < MaxLost /\ lost' = lost + 1)
  BY DEF PostStep, StartPost, CompleteBare, EnterFinalizing, PostErrs, EnqueueSub,
     EnqueueSubFails, Release, ReleaseSlot, FinishPost, user, spans, used
<1> QED BY <1>1, <1>2

\* A post-process is the only task of its row beside its subtasks.
LEMMA PostAlone ==
    ASSUME PInv, Whole, NEW p \in PostTask, pc[p] # "none"
    PROVE  /\ p \in Task /\ p[2] = latest /\ pc[Upload] = "done"
           /\ \A t \in ProcessTask : t # Upload => pc[t] = "none"
           /\ \A q \in PostTask : q # p => pc[q] = "none"
           /\ lost = 0 => chunks = {latest}
  BY DEF Whole, OneHandOver, Handed, Task

LEMMA PostFrame ==
    ASSUME PInv, Whole, NEW p \in PostTask, PostStep(p)
    PROVE  /\ OneHandOver' /\ Parsed' /\ Handed' /\ Swept'
           /\ \A q \in PostTask : q # p => pc'[q] = "none"
<1>1. /\ PcTyped /\ Live(p) /\ pc[p] # "none" /\ lost \in Nat
      /\ UNCHANGED <<reparse, cancel, cancels, sweep, given, mine, latest, chunks>>
      /\ lost' = lost \/ lost' = lost + 1
  BY PostLeaves, Bounds DEF PInv, TypeOK, PcTyped
<1>2. lost' = 0 => lost = 0
  BY <1>1
<1>3. /\ p \in Task /\ p[2] = latest /\ pc[Upload] = "done"
      /\ \A t \in ProcessTask : t # Upload => pc[t] = "none"
      /\ \A q \in PostTask : q # p => pc[q] = "none"
      /\ lost = 0 => chunks = {latest}
  BY <1>1, PostAlone
<1>4. \A t \in ProcessTask \cup PostTask : t # p => pc'[t] = pc[t]
  <2>1. CASE ~(\E s \in Slot : EnqueueSub(p, s))
    BY <1>1, <2>1, PostOnly DEF Only, Task
  <2>2. ASSUME NEW s \in Slot, EnqueueSub(p, s)
        PROVE  \A t \in ProcessTask \cup PostTask : t # p => pc'[t] = pc[t]
    <3>1. pc' = [pc EXCEPT ![<<"sub", p[2], p[3], s>>] = "queued"]
      BY <2>2 DEF EnqueueSub
    <3>2. <<"sub", p[2], p[3], s>> \in SubTask
      BY DEF SubTask
    <3> QED BY <1>1, <3>1, <3>2, TasksDiffer DEF PcTyped, Task
  <2> QED BY <2>1, <2>2
<1>5. /\ pc'[Upload] = "done" /\ \A t \in ProcessTask : t # Upload => pc'[t] = "none"
      /\ \A q \in PostTask : q # p => pc'[q] = "none"
  BY <1>3, <1>4, TasksDiffer
<1>6. OneHandOver'
  <2>1. reparse' = "idle" /\ given'[Upload] = 0
    BY <1>1 DEF Whole, OneHandOver
  <2>2. pc'[Upload] \notin InAttempt
    BY <1>5 DEF InAttempt
  <2> QED BY <1>1, <1>3, <1>5, <2>1, <2>2 DEF OneHandOver
<1>7. Parsed'
  BY <1>1, <1>2, <1>3, <1>5 DEF Parsed, Reading
<1>8. Handed'
  BY <1>1, <1>2, <1>3 DEF Handed
<1>9. Swept'
  BY <1>1, <1>3 DEF Whole, Swept, Backlogged
<1> QED BY <1>5, <1>6, <1>7, <1>8, <1>9

\* Before its fan-out.
LEMMA BeforeFanout ==
    ASSUME PInv, Whole, NEW p \in PostTask, pc[p] # "none", ~Begun(p)
    PROVE  (\A t \in SubTask : pc[t] = "none") /\ status # "finalizing"
<1>1. \A q \in PostTask : ~Begun(q)
  BY PostAlone DEF Begun
<1> QED BY <1>1 DEF Whole, Fanned, Accounts
\* A post-process that ends, or is delivered again, before its fan-out.
LEMMA QuietKeeps ==
    ASSUME PInv, Whole, NEW p \in PostTask,
           StartPost(p) \/ CompleteBare(p) \/ PostErrs(p) \/ (EnterFinalizing(p) /\ status # "processing")
    PROVE  Whole'
<1>1. PostStep(p) /\ PcTyped /\ p \in Task
  BY DEF PostStep, PInv, TypeOK, PcTyped, Task
<1>2. /\ pc[p] # "none" /\ ~Begun(p)
      /\ pc'[p] \notin {"none", "fanout"}
  <2>1. pc[p] \in {"queued", "bare", "ready"}
    BY DEF StartPost, CompleteBare, PostErrs, EnterFinalizing
  <2>2. CASE PostErrs(p)
    <3>1. Errs(p, p[2])
      BY <2>2 DEF PostErrs
    <3>2. pc'[p] \in {"queued", "done"}
      BY <1>1, <3>1 DEF Errs, Requeued, Goto, PcTyped
    <3> QED BY <2>1, <3>2 DEF Begun
  <2>3. CASE StartPost(p) \/ CompleteBare(p) \/ (EnterFinalizing(p) /\ status # "processing")
    <3>1. Goto(p, "done") \/ Goto(p, "bare") \/ Goto(p, "ready")
      BY <2>3 DEF StartPost, CompleteBare, EnterFinalizing
    <3>2. pc'[p] \in {"done", "bare", "ready"}
      BY <1>1, <3>1 DEF Goto, PcTyped
    <3> QED BY <2>1, <3>2 DEF Begun
  <2> QED BY <2>2, <2>3
<1>3. (\A t \in SubTask : pc[t] = "none") /\ status # "finalizing"
  BY <1>2, BeforeFanout
<1>4. /\ OneHandOver' /\ Parsed' /\ Handed' /\ Swept'
      /\ \A q \in PostTask : q # p => pc'[q] = "none"
  BY <1>1, PostFrame
<1>5. \A t \in SubTask : pc'[t] = "none"
  <2>1. ~(\E s \in Slot : EnqueueSub(p, s))
    BY <1>2 DEF EnqueueSub, Begun
  <2> QED BY <1>1, <1>3, <2>1, PostOnly, TasksDiffer DEF Only, Task
<1>6. status' # "finalizing" /\ UNCHANGED <<cancel, cancels>>
  <2>1. PostErrs(p) => status' \in {status, "failed"}
    BY DEF PostErrs, Errs, DeadLetter
  <2>2. StartPost(p) \/ CompleteBare(p) \/ (EnterFinalizing(p) /\ status # "processing")
          => status' \in {status, "completed"}
    BY DEF StartPost, CompleteBare, EnterFinalizing, row
  <2> QED BY <1>1, <1>3, <2>1, <2>2, PostLeaves
<1>7. Accounts'
  <2>1. IsFiniteSet(Subs(latest))' /\ Owed' = 0
    BY <1>2, <1>4, <1>5, NothingOwed
  <2> QED BY <1>6, <2>1 DEF Accounts, Books, Whole
<1>8. Fanned'
  BY <1>5 DEF Fanned
<1> QED BY <1>4, <1>7, <1>8 DEF Whole

\* The fan-out starts with the counter it seeds.
LEMMA EnterKeeps ==
    ASSUME PInv, Whole, NEW p \in PostTask, EnterFinalizing(p), status = "processing"
    PROVE  Whole'
<1>1. PostStep(p) /\ PcTyped /\ p \in Task /\ pc[p] = "ready"
  BY DEF PostStep, PInv, TypeOK, PcTyped, Task, EnterFinalizing
<1>2. pc[p] # "none" /\ ~Begun(p) /\ p[2] = latest
  <2>1. pc[p] # "none" /\ ~Begun(p)
    BY <1>1 DEF Begun
  <2> QED BY <2>1, PostAlone
<1>3. /\ status' = "finalizing" /\ pending' = Cardinality(Slot)
      /\ todo' = [todo EXCEPT ![p] = Slot] /\ short' = short /\ Goto(p, "fanout")
      /\ UNCHANGED <<latest, cancel, cancels>>
  BY DEF EnterFinalizing, user
<1>4. pc'[p] = "fanout" /\ todo'[p] = Slot /\ short'[p] = 0
  BY <1>1, <1>3 DEF Goto, PcTyped, PInv, TypeOK, FanInv
<1>5. /\ OneHandOver' /\ Parsed' /\ Handed' /\ Swept'
      /\ \A q \in PostTask : q # p => pc'[q] = "none"
  BY <1>1, PostFrame
<1>6. \A t \in SubTask : pc'[t] = "none"
  <2>1. ~(\E s \in Slot : EnqueueSub(p, s))
    BY <1>1 DEF EnqueueSub
  <2> QED BY <1>1, <1>2, <2>1, PostOnly, TasksDiffer, BeforeFanout DEF Only, Task
<1>7. IsFiniteSet(Subs(latest)') /\ Cardinality(Subs(latest)') = 0
  <2>1. Subs(latest)' = {}
    BY <1>6 DEF Subs, Live
  <2> QED BY <2>1, FS_EmptySet
<1>8. Owed' = Cardinality(Slot)
  <2>1. Posts' = {p}
    BY <1>2, <1>3, <1>4, <1>5 DEF Posts
  <2>2. Owed' = Cardinality(Subs(latest)') + (Cardinality(todo'[p]) + short'[p])
    BY <2>1, OwedOfNext
  <2>3. Cardinality(Slot) \in Nat
    BY SlotsFinite
  <2> QED BY <1>4, <1>7, <2>2, <2>3
<1>9. Accounts'
  <2>1. Cardinality(Slot) \in Nat /\ Owed' = pending' /\ Owed' <= pending'
    BY <1>3, <1>8, SlotsFinite
  <2>2. Books'
    BY <1>3, <2>1 DEF Books
  <2> QED BY <1>3, <1>4, <1>7, <2>2 DEF Accounts, Begun, Whole
<1>10. Fanned'
  BY <1>6 DEF Fanned
<1> QED BY <1>5, <1>9, <1>10 DEF Whole
\* While it fans out, what is owed is what is enqueued, what is not and what nobody owns.
LEMMA Fanning ==
    ASSUME PInv, Whole, NEW p \in PostTask, pc[p] = "fanout"
    PROVE  /\ p[2] = latest /\ p \in Task /\ PcTyped /\ Begun(p)
           /\ IsFiniteSet(Subs(latest)) /\ Cardinality(Subs(latest)) \in Nat
           /\ todo[p] \in SUBSET Slot /\ Cardinality(todo[p]) \in Nat /\ short[p] \in Nat
           /\ Owed = Cardinality(Subs(latest)) + (Cardinality(todo[p]) + short[p])
<1>1. /\ p[2] = latest /\ p \in Task
      /\ \A q \in PostTask : q # p => pc[q] = "none"
  BY PostAlone
<1>2. Posts = {p}
  BY <1>1 DEF Posts
<1>3. IsFiniteSet(Subs(latest)) /\ Cardinality(Subs(latest)) \in Nat
  BY FS_CardinalityType DEF Whole, Accounts
<1>4. todo[p] \in SUBSET Slot /\ Cardinality(todo[p]) \in Nat /\ short[p] \in Nat
  BY SlotsFinite DEF PInv, TypeOK
<1> QED BY <1>1, <1>2, <1>3, <1>4, OwedOf DEF PInv, TypeOK, PcTyped, Begun

\* Only an enqueue gives birth to a subtask.
LEMMA SubsStay ==
    ASSUME PInv, NEW p \in PostTask, PostStep(p),
           pc' = pc \/ ~(\E s \in Slot : EnqueueSub(p, s))
    PROVE  (\A t \in SubTask : pc'[t] = pc[t]) /\ Subs(latest)' = Subs(latest)
<1>1. PcTyped /\ latest' = latest
  BY PostLeaves DEF PInv, TypeOK, PcTyped
<1>2. \A t \in SubTask : pc'[t] = pc[t]
  BY <1>1, PostOnly, TasksDiffer DEF Only, Task
<1> QED BY <1>1, <1>2 DEF Subs, Live

\* A subtask keeps the post-process that fanned it out.
LEMMA FannedStays ==
    ASSUME Fanned, NEW p \in PostTask, PostStep(p), Begun(p),
           \A t \in SubTask : pc'[t] = pc[t],
           \A q \in PostTask : q # p => pc[q] = "none",
           Begun(p)', todo'[p] \subseteq todo[p]
    PROVE  Fanned'
<1> SUFFICES ASSUME NEW t \in SubTask, pc'[t] # "none"
             PROVE  \E q \in PostTask : Begun(q)' /\ t[2] = q[2] /\ t[3] = q[3] /\ t[4] \notin todo'[q]
  BY DEF Fanned
<1>1. PICK q \in PostTask : Begun(q) /\ t[2] = q[2] /\ t[3] = q[3] /\ t[4] \notin todo[q]
  BY DEF Fanned
<1>2. q = p
  BY <1>1 DEF Begun
<1> QED BY <1>1, <1>2

LEMMA EnqueueKeeps ==
    ASSUME PInv, Whole, NEW p \in PostTask, NEW s \in Slot, EnqueueSub(p, s)
    PROVE  Whole'
<1> DEFINE new == <<"sub", p[2], p[3], s>>
<1>1. /\ PostStep(p) /\ pc[p] = "fanout" /\ s \in todo[p]
      /\ pc' = [pc EXCEPT ![new] = "queued"] /\ todo' = [todo EXCEPT ![p] = @ \ {s}]
      /\ UNCHANGED <<status, pending, latest, short, cancel, cancels, lost>>
  BY DEF PostStep, EnqueueSub, row, spans, user, used
<1>2. /\ new \in SubTask /\ new \in Task /\ new # p
      /\ new[2] = p[2] /\ new[3] = p[3] /\ new[4] = s
  BY TasksDiffer DEF SubTask, Task
<1> HIDE DEF new
<1>3. /\ p[2] = latest /\ p \in Task /\ PcTyped /\ Begun(p)
      /\ IsFiniteSet(Subs(latest)) /\ Cardinality(Subs(latest)) \in Nat
      /\ todo[p] \in SUBSET Slot /\ Cardinality(todo[p]) \in Nat /\ short[p] \in Nat
      /\ Owed = Cardinality(Subs(latest)) + (Cardinality(todo[p]) + short[p])
  BY <1>1, Fanning
<1>4. \A q \in PostTask : q # p => pc[q] = "none"
  BY <1>1, PostAlone
<1>5. /\ OneHandOver' /\ Parsed' /\ Handed' /\ Swept'
      /\ \A q \in PostTask : q # p => pc'[q] = "none"
  BY <1>1, PostFrame
<1>6. pc[new] = "none"
  <2>1. SUFFICES ASSUME pc[new] # "none" PROVE FALSE
    OBVIOUS
  <2>2. PICK q \in PostTask : Begun(q) /\ new[4] \notin todo[q]
    BY <1>2, <2>1 DEF Whole, Fanned
  <2>3. q = p
    BY <1>4, <2>2 DEF Begun
  <2> QED BY <1>1, <1>2, <2>2, <2>3
<1>7. /\ pc'[new] = "queued" /\ pc'[p] = "fanout" /\ todo'[p] = todo[p] \ {s}
      /\ \A t \in SubTask : t # new => pc'[t] = pc[t]
  BY <1>1, <1>2, <1>3 DEF PcTyped, Task, PInv, TypeOK
<1>8. Subs(latest)' = Subs(latest) \cup {new} /\ new \notin Subs(latest)
  BY <1>1, <1>2, <1>3, <1>6, <1>7 DEF Subs, Live
<1>9. /\ IsFiniteSet(Subs(latest)') /\ Cardinality(Subs(latest)') = Cardinality(Subs(latest)) + 1
  <2>1. /\ IsFiniteSet(Subs(latest) \cup {new})
        /\ Cardinality(Subs(latest) \cup {new}) = Cardinality(Subs(latest)) + 1
    BY <1>3, <1>8, FS_AddElement
  <2> QED BY <1>8, <2>1
<1>10. Owed' = Owed
  <2>1. Posts' = {p}
    BY <1>1, <1>3, <1>5, <1>7 DEF Posts
  <2>2. Owed' = Cardinality(Subs(latest)') + (Cardinality(todo'[p]) + short'[p])
    BY <2>1, OwedOfNext
  <2>3. PICK c \in Nat : c = Cardinality(Subs(latest))
    BY <1>3
  <2>4. PICK d \in Nat : d = Cardinality(todo'[p]) /\ Cardinality(todo[p]) = d + 1
    BY <1>1, <1>3, <1>7, TakeSlot
  <2>5. PICK h \in Nat : h = short[p]
    BY <1>3
  <2>6. Owed = c + ((d + 1) + h)
    BY <1>3, <2>3, <2>4, <2>5
  <2>7. Owed' = (c + 1) + (d + h)
    BY <1>1, <1>9, <2>2, <2>3, <2>4, <2>5
  <2> QED BY <2>6, <2>7
<1>11. Accounts'
  <2>1. Books'
    BY <1>1, <1>10 DEF Whole, Accounts, Books
  <2> QED BY <1>1, <1>7, <1>9, <2>1 DEF Accounts, Whole, Begun
<1>12. Fanned'
  <2> SUFFICES ASSUME NEW t \in SubTask, pc'[t] # "none"
               PROVE  \E q \in PostTask : Begun(q)' /\ t[2] = q[2] /\ t[3] = q[3] /\ t[4] \notin todo'[q]
    BY DEF Fanned
  <2>1. CASE t = new
    BY <1>2, <1>7, <2>1 DEF Begun
  <2>2. CASE t # new
    <3>1. PICK q \in PostTask : Begun(q) /\ t[2] = q[2] /\ t[3] = q[3] /\ t[4] \notin todo[q]
      BY <1>7, <2>2 DEF Fanned, Whole
    <3>2. q = p
      BY <1>4, <3>1 DEF Begun
    <3> QED BY <1>7, <3>1, <3>2 DEF Begun
  <2> QED BY <2>1, <2>2
<1> QED BY <1>5, <1>11, <1>12 DEF Whole
LEMMA EnqueueFailsKeeps ==
    ASSUME PInv, Whole, NEW p \in PostTask, NEW s \in Slot, EnqueueSubFails(p, s)
    PROVE  Whole'
<1>1. /\ PostStep(p) /\ pc[p] = "fanout" /\ s \in todo[p]
      /\ todo' = [todo EXCEPT ![p] = @ \ {s}] /\ short' = [short EXCEPT ![p] = @ + 1]
      /\ UNCHANGED <<pc, status, pending, latest, cancel, cancels, lost>>
  BY DEF PostStep, EnqueueSubFails, row, spans, user
<1>2. /\ p[2] = latest /\ p \in Task /\ PcTyped /\ Begun(p)
      /\ IsFiniteSet(Subs(latest)) /\ Cardinality(Subs(latest)) \in Nat
      /\ todo[p] \in SUBSET Slot /\ Cardinality(todo[p]) \in Nat /\ short[p] \in Nat
      /\ Owed = Cardinality(Subs(latest)) + (Cardinality(todo[p]) + short[p])
  BY <1>1, Fanning
<1>3. \A q \in PostTask : q # p => pc[q] = "none"
  BY <1>1, PostAlone
<1>4. OneHandOver' /\ Parsed' /\ Handed' /\ Swept'
  BY <1>1, PostFrame
<1>5. todo'[p] = todo[p] \ {s} /\ short'[p] = short[p] + 1
  BY <1>1 DEF PInv, TypeOK
<1>6. (\A t \in SubTask : pc'[t] = pc[t]) /\ Subs(latest)' = Subs(latest)
  BY <1>1, SubsStay
<1>7. Owed' = Owed
  <2>1. Posts' = {p}
    BY <1>1, <1>2, <1>3 DEF Posts
  <2>2. Owed' = Cardinality(Subs(latest)') + (Cardinality(todo'[p]) + short'[p])
    BY <2>1, OwedOfNext
  <2>3. PICK c \in Nat : c = Cardinality(Subs(latest))
    BY <1>2
  <2>4. PICK d \in Nat : d = Cardinality(todo'[p]) /\ Cardinality(todo[p]) = d + 1
    BY <1>1, <1>2, <1>5, TakeSlot
  <2>5. PICK h \in Nat : h = short[p]
    BY <1>2
  <2>6. Owed = c + ((d + 1) + h)
    BY <1>2, <2>3, <2>4, <2>5
  <2>7. Owed' = c + (d + (h + 1))
    BY <1>5, <1>6, <2>2, <2>3, <2>4, <2>5
  <2> QED BY <2>6, <2>7
<1>8. Accounts'
  <2>1. Books'
    BY <1>1, <1>7 DEF Whole, Accounts, Books
  <2> QED BY <1>1, <1>2, <1>6, <2>1 DEF Accounts, Whole, Begun
<1>9. Fanned'
  BY <1>1, <1>2, <1>3, <1>5, <1>6, FannedStays DEF Whole, Begun
<1> QED BY <1>4, <1>8, <1>9 DEF Whole

LEMMA ShortKeeps ==
    ASSUME PInv, Whole, NEW p \in PostTask, Release(p)
    PROVE  Whole'
<1>1. /\ PostStep(p) /\ pc[p] = "fanout" /\ ReleaseSlot /\ short[p] > 0
      /\ short' = [short EXCEPT ![p] = @ - 1]
      /\ UNCHANGED <<pc, todo, latest, cancel, cancels>>
  BY DEF PostStep, Release, spans, user
<1>2. /\ p[2] = latest /\ p \in Task /\ PcTyped /\ Begun(p)
      /\ IsFiniteSet(Subs(latest)) /\ Cardinality(Subs(latest)) \in Nat
      /\ todo[p] \in SUBSET Slot /\ Cardinality(todo[p]) \in Nat /\ short[p] \in Nat
      /\ Owed = Cardinality(Subs(latest)) + (Cardinality(todo[p]) + short[p])
  BY <1>1, Fanning
<1>3. \A q \in PostTask : q # p => pc[q] = "none"
  BY <1>1, PostAlone
<1>4. OneHandOver' /\ Parsed' /\ Handed' /\ Swept'
  BY <1>1, PostFrame
<1>5. todo'[p] = todo[p] /\ short'[p] = short[p] - 1
  BY <1>1 DEF PInv, TypeOK
<1>6. (\A t \in SubTask : pc'[t] = pc[t]) /\ Subs(latest)' = Subs(latest)
  BY <1>1, SubsStay
<1>7. PICK o \in Nat : Owed' = o /\ Owed = o + 1
  <2>1. Posts' = {p}
    BY <1>1, <1>2, <1>3 DEF Posts
  <2>2. Owed' = Cardinality(Subs(latest)') + (Cardinality(todo'[p]) + short'[p])
    BY <2>1, OwedOfNext
  <2>3. PICK c \in Nat : c = Cardinality(Subs(latest))
    BY <1>2
  <2>4. PICK d \in Nat : d = Cardinality(todo[p])
    BY <1>2
  <2>5. PICK h \in Nat : short[p] = h + 1
    <3>1. PICK i \in Nat : i = short[p] /\ i > 0
      BY <1>1, <1>2
    <3>2. i - 1 \in Nat /\ i = (i - 1) + 1
      BY <3>1
    <3> QED BY <3>1, <3>2
  <2>6. Owed = c + (d + (h + 1))
    BY <1>2, <2>3, <2>4, <2>5
  <2>7. short'[p] = h
    BY <1>5, <2>5
  <2>8. Owed' = c + (d + h)
    BY <1>5, <1>6, <2>2, <2>3, <2>4, <2>7
  <2>9. c + (d + h) \in Nat /\ c + (d + (h + 1)) = (c + (d + h)) + 1
    OBVIOUS
  <2> QED BY <2>6, <2>8, <2>9
<1>8. Accounts'
  <2>1. TypeOK /\ Books
    BY DEF PInv, Whole, Accounts
  <2>2. Books'
    BY <1>1, <1>7, <2>1, ReleaseBooks
  <2> QED BY <1>1, <1>2, <1>6, <2>2 DEF Accounts, Whole, Begun
<1>9. Fanned'
  BY <1>1, <1>2, <1>3, <1>5, <1>6, FannedStays DEF Whole, Begun
<1> QED BY <1>4, <1>8, <1>9 DEF Whole

LEMMA FinishKeeps ==
    ASSUME PInv, Whole, NEW p \in PostTask, FinishPost(p), crashes' = crashes
    PROVE  Whole'
<1>1. /\ PostStep(p) /\ pc[p] = "fanout" /\ todo[p] = {} /\ short[p] = 0 /\ Acked(p)
      /\ UNCHANGED <<todo, short, status, pending, latest, cancel, cancels, lost>>
  BY DEF PostStep, FinishPost, row, fan, user
<1>2. /\ p[2] = latest /\ p \in Task /\ PcTyped /\ Begun(p)
      /\ IsFiniteSet(Subs(latest)) /\ Cardinality(Subs(latest)) \in Nat
      /\ Owed = Cardinality(Subs(latest)) + (Cardinality(todo[p]) + short[p])
  BY <1>1, Fanning
<1>3. \A q \in PostTask : q # p => pc[q] = "none"
  BY <1>1, PostAlone
<1>4. /\ OneHandOver' /\ Parsed' /\ Handed' /\ Swept'
      /\ \A q \in PostTask : q # p => pc'[q] = "none"
  BY <1>1, PostFrame
<1>5. pc'[p] = "done"
  <2>1. crashes \in Nat
    BY Bounds DEF PInv, TypeOK
  <2>2. Goto(p, "done")
    BY <1>1, <2>1 DEF Acked
  <2> QED BY <1>2, <2>2 DEF Goto, PcTyped
<1>6. (\A t \in SubTask : pc'[t] = pc[t]) /\ Subs(latest)' = Subs(latest)
  <2>1. ~(\E s \in Slot : EnqueueSub(p, s))
    BY <1>1 DEF EnqueueSub
  <2> QED BY <1>1, <2>1, SubsStay
<1>7. Owed' = Owed
  <2>1. Posts' = {}
    BY <1>4, <1>5 DEF Posts
  <2>2. Owed' = Cardinality(Subs(latest)') + 0
    BY <2>1, OwedNoneNext
  <2>3. Owed = Cardinality(Subs(latest)) + (0 + 0)
    <3>1. Cardinality(todo[p]) = 0
      BY <1>1, FS_EmptySet
    <3> QED BY <1>1, <1>2, <3>1
  <2> QED BY <1>2, <1>6, <2>2, <2>3
<1>8. Accounts'
  <2>1. Books'
    BY <1>1, <1>7 DEF Whole, Accounts, Books
  <2> QED BY <1>1, <1>2, <1>5, <1>6, <2>1 DEF Accounts, Whole, Begun
<1>9. Fanned'
  BY <1>1, <1>2, <1>3, <1>5, <1>6, FannedStays DEF Whole, Begun
<1> QED BY <1>4, <1>8, <1>9 DEF Whole

LEMMA PostKeeps ==
    ASSUME PInv, Whole, NEW p \in PostTask, PostStep(p), crashes' = crashes
    PROVE  Whole'
<1>1. CASE \E s \in Slot : EnqueueSub(p, s) \/ EnqueueSubFails(p, s)
  BY <1>1, EnqueueKeeps, EnqueueFailsKeeps
<1>2. CASE Release(p) \/ FinishPost(p)
  BY <1>2, ShortKeeps, FinishKeeps
<1>3. CASE StartPost(p) \/ CompleteBare(p) \/ EnterFinalizing(p) \/ PostErrs(p)
  BY <1>3, QuietKeeps, EnterKeeps
<1> QED BY <1>1, <1>2, <1>3 DEF PostStep
\* What the fan-out still owes, beside its subtasks.
LEMMA OwedBeside ==
    ASSUME PInv, OneHandOver, UNCHANGED <<todo, short>>, Posts' = Posts
    PROVE  \E r \in Nat : /\ Owed = Cardinality(Subs(latest)) + r
                          /\ Owed' = Cardinality(Subs(latest)') + r
<1>1. CASE Posts = {}
  <2>1. Owed = Cardinality(Subs(latest)) + 0
    BY <1>1, OwedNone
  <2>2. Owed' = Cardinality(Subs(latest)') + 0
    BY <1>1, OwedNoneNext
  <2> QED BY <2>1, <2>2
<1>2. CASE Posts # {}
  <2>1. PICK p \in PostTask : Posts = {p}
    BY <1>2 DEF Posts, OneHandOver
  <2>2. Cardinality(todo[p]) + short[p] \in Nat
    <3>1. Cardinality(todo[p]) \in Nat /\ short[p] \in Nat
      BY SlotsFinite DEF PInv, TypeOK
    <3> QED BY <3>1
  <2>3. Owed = Cardinality(Subs(latest)) + (Cardinality(todo[p]) + short[p])
    BY <2>1, OwedOf
  <2>4. Owed' = Cardinality(Subs(latest)') + (Cardinality(todo[p]) + short[p])
    <3>1. Owed' = Cardinality(Subs(latest)') + (Cardinality(todo'[p]) + short'[p])
      BY <2>1, OwedOfNext
    <3> QED BY <3>1
  <2> QED BY <2>2, <2>3, <2>4
<1> QED BY <1>1, <1>2

LEMMA SubLeaves ==
    ASSUME NEW t, SubStep(t)
    PROVE  /\ Live(t)
           /\ UNCHANGED <<reparse, cancel, cancels, sweep, given, mine, latest, chunks, todo, short>>
           /\ lost' = lost \/ (lost < MaxLost /\ lost' = lost + 1)
<1>1. Live(t)
  BY DEF Live, SubStep, StartSub, RetrySub, EndSub
<1>2. /\ UNCHANGED <<reparse, cancel, cancels, sweep, given, mine, latest, chunks, todo, short>>
      /\ lost' = lost \/ (lost < MaxLost /\ lost' = lost + 1)
  BY DEF SubStep, StartSub, RetrySub, EndSub, ReleaseSlot, user, fan, spans, used
<1> QED BY <1>1, <1>2

LEMMA SubFrame ==
    ASSUME PInv, Whole, NEW t \in SubTask, SubStep(t)
    PROVE  /\ OneHandOver' /\ Fanned' /\ Parsed' /\ Handed' /\ Swept'
           /\ t \in Task /\ t[2] = latest /\ Posts' = Posts
           /\ \A p \in PostTask : pc'[p] = pc[p]
           /\ \A u \in SubTask : u # t => pc'[u] = pc[u]
<1>1. /\ PcTyped /\ Live(t) /\ pc[t] # "none" /\ lost \in Nat
      /\ UNCHANGED <<reparse, cancel, cancels, sweep, given, mine, latest, chunks, todo, short>>
      /\ lost' = lost \/ lost' = lost + 1
  BY SubLeaves, Bounds DEF PInv, TypeOK, PcTyped, Live
<1>2. lost' = 0 => lost = 0
  BY <1>1
<1>3. /\ t \in Task
      /\ \A u \in ProcessTask \cup PostTask : pc'[u] = pc[u]
      /\ \A u \in SubTask : u # t => pc'[u] = pc[u]
  BY <1>1, SubOnly, TasksDiffer DEF Only, Task
<1>4. PICK p \in PostTask : Begun(p) /\ t[2] = p[2]
  BY <1>1 DEF Whole, Fanned
<1>5. p[2] = latest /\ pc[Upload] = "done" /\ (lost = 0 => chunks = {latest})
  BY <1>4, PostAlone DEF Begun
<1>6. OneHandOver'
  BY <1>1, <1>3, TasksDiffer DEF Whole, OneHandOver
<1>7. Fanned'
  <2> SUFFICES ASSUME NEW u \in SubTask, pc'[u] # "none"
               PROVE  \E q \in PostTask : Begun(q)' /\ u[2] = q[2] /\ u[3] = q[3] /\ u[4] \notin todo'[q]
    BY DEF Fanned
  <2>1. pc[u] # "none"
    BY <1>1, <1>3
  <2>2. PICK q \in PostTask : Begun(q) /\ u[2] = q[2] /\ u[3] = q[3] /\ u[4] \notin todo[q]
    BY <2>1 DEF Whole, Fanned
  <2> QED BY <1>1, <1>3, <2>2 DEF Begun
<1>8. Parsed' /\ Handed'
  <2>1. pc'[Upload] = "done"
    BY <1>3, <1>5, TasksDiffer
  <2> QED BY <1>1, <1>2, <1>5, <2>1 DEF Parsed, Handed, Reading
<1>9. Swept'
  BY <1>1, <1>3 DEF Whole, Swept, Backlogged
<1>10. Posts' = Posts
  BY <1>1, <1>3 DEF Posts
<1> QED BY <1>3, <1>4, <1>5, <1>6, <1>7, <1>8, <1>9, <1>10

LEMMA SubKeeps ==
    ASSUME PInv, Whole, NEW t \in SubTask, SubStep(t), crashes' = crashes
    PROVE  Whole'
<1>1. /\ OneHandOver' /\ Fanned' /\ Parsed' /\ Handed' /\ Swept'
      /\ t \in Task /\ t[2] = latest /\ Posts' = Posts
      /\ \A p \in PostTask : pc'[p] = pc[p]
      /\ \A u \in SubTask : u # t => pc'[u] = pc[u]
  BY SubFrame
<1>2. /\ PcTyped /\ Live(t) /\ UNCHANGED <<cancel, cancels, latest, todo, short>>
      /\ IsFiniteSet(Subs(latest)) /\ latest \in Nat
  BY SubLeaves DEF PInv, TypeOK, PcTyped, Whole, Accounts, Attempt
<1>3. PICK r \in Nat : /\ Owed = Cardinality(Subs(latest)) + r
                       /\ Owed' = Cardinality(Subs(latest)') + r
  BY <1>1, <1>2, OwedBeside DEF Whole
<1>4. CASE StartSub(t) \/ RetrySub(t)
  <2>1. UNCHANGED <<status, pending, lost>>
    BY <1>4 DEF StartSub, RetrySub, row, used
  <2>2. Live(t)'
    <3>1. CASE StartSub(t)
      <4>1. ~Superseded(t[2])
        BY <1>1, <1>2 DEF Superseded
      <4>2. pc' = [pc EXCEPT ![t] = "running"]
        BY <3>1, <4>1 DEF StartSub, Goto
      <4> QED BY <1>1, <1>2, <4>2 DEF PcTyped, Live
    <3>2. CASE RetrySub(t)
      BY <1>1, <1>2, <3>2 DEF RetrySub, Requeued, PcTyped, Live
    <3> QED BY <1>4, <3>1, <3>2
  <2>3. Subs(latest)' = Subs(latest)
    BY <1>1, <1>2, <2>2 DEF Subs, Live
  <2>4. Owed' = Owed
    BY <1>3, <2>3
  <2>5. Books'
    BY <1>2, <2>1, <2>4 DEF Whole, Accounts, Books
  <2>6. Accounts'
    BY <1>1, <1>2, <2>1, <2>3, <2>5 DEF Whole, Accounts, Begun
  <2> QED BY <1>1, <2>6 DEF Whole
<1>5. CASE EndSub(t)
  <2>1. ReleaseSlot /\ pc'[t] = "done"
    <3>1. crashes \in Nat
      BY Bounds DEF PInv, TypeOK
    <3>2. ReleaseSlot /\ Goto(t, "done")
      BY <1>5, <3>1 DEF EndSub, Acked
    <3> QED BY <1>1, <1>2, <3>2 DEF Goto, PcTyped
  <2>2. Subs(latest)' = Subs(latest) \ {t} /\ t \in Subs(latest)
    BY <1>1, <1>2, <2>1 DEF Subs, Live
  <2>3. PICK c \in Nat : c = Cardinality(Subs(latest)') /\ Cardinality(Subs(latest)) = c + 1
    <3>1. /\ IsFiniteSet(Subs(latest) \ {t})
          /\ Cardinality(Subs(latest) \ {t}) = Cardinality(Subs(latest)) - 1
      BY <1>2, <2>2, FS_RemoveElement
    <3>2. Cardinality(Subs(latest)) \in Nat /\ Cardinality(Subs(latest) \ {t}) \in Nat
      BY <1>2, <3>1, FS_CardinalityType
    <3> QED BY <2>2, <3>1, <3>2
  <2>4. IsFiniteSet(Subs(latest)')
    BY <1>2, <2>2, FS_RemoveElement
  <2>5. c + r \in Nat /\ Owed' = c + r /\ Owed = (c + r) + 1
    BY <1>3, <2>3
  <2>6. TypeOK /\ Books
    BY DEF PInv, Whole, Accounts
  <2>7. Books'
    BY <1>2, <2>1, <2>5, <2>6, ReleaseBooks
  <2>8. status' = "finalizing" => status = "finalizing"
    BY <2>1 DEF ReleaseSlot, Drain, row
  <2>9. Accounts'
    BY <1>1, <1>2, <2>4, <2>7, <2>8 DEF Whole, Accounts, Begun
  <2> QED BY <1>1, <2>9 DEF Whole
<1> QED BY <1>4, <1>5 DEF SubStep
\* A step that moves no task.
LEMMA StillKeeps ==
    ASSUME PInv, Whole,
           UNCHANGED <<pc, todo, short, latest, chunks, given, mine, reparse, lost>>,
           Swept', cancel' # "idle" => cancels' > 0, cancels' = 0 => cancels = 0,
           \/ UNCHANGED <<status, pending>>
           \/ status' \in {"cancelled", "failed"}
           \/ status' = "completed" /\ ~Backlogged /\ \E p \in PostTask : pc[p] # "none"
    PROVE  Whole'
<1>1. OneHandOver' /\ Fanned' /\ Handed'
  BY DEF Whole, OneHandOver, Fanned, Begun, Handed
<1>2. Owed' = Owed
  BY DEF Owed, Subs, Posts, Live
<1>3. IsFiniteSet(Subs(latest))'
  BY DEF Whole, Accounts, Subs, Live
<1>4. CASE UNCHANGED <<status, pending>>
  <2>1. Books'
    BY <1>2, <1>4 DEF Whole, Accounts, Books
  <2>2. Accounts'
    BY <1>3, <1>4, <2>1 DEF Whole, Accounts, Begun
  <2>3. Parsed'
    BY <1>4 DEF Whole, Parsed
  <2> QED BY <1>1, <2>2, <2>3 DEF Whole
<1>5. CASE status' \in {"cancelled", "failed"}
  <2>1. Accounts'
    BY <1>3, <1>5 DEF Accounts, Books
  <2>2. Parsed'
    BY <1>5 DEF Whole, Parsed
  <2> QED BY <1>1, <2>1, <2>2 DEF Whole
<1>6. CASE status' = "completed" /\ ~Backlogged /\ \E p \in PostTask : pc[p] # "none"
  <2>1. /\ \A p \in PostTask : pc[p] # "fanout"
        /\ pc[Upload] \notin Reading
        /\ Posts = {} /\ Subs(latest) = {}
    BY <1>6, TasksDiffer DEF Backlogged, Live, Task, Posts, Subs, Reading
  <2>2. Owed = 0
    <3>1. Owed = Cardinality({}) + 0
      BY <2>1, OwedNone
    <3>2. Cardinality({}) = 0
      BY FS_EmptySet
    <3> QED BY <3>1, <3>2
  <2>3. Accounts'
    BY <1>2, <1>3, <1>6, <2>2 DEF Accounts, Books
  <2>4. Parsed'
    BY <1>6, <2>1 DEF Whole, Parsed, Handed
  <2> QED BY <1>1, <2>3, <2>4 DEF Whole
<1> QED BY <1>4, <1>5, <1>6

LEMMA SweepKeeps ==
    ASSUME PInv, Whole, SweepStep
    PROVE  Whole'
<1>1. /\ UNCHANGED <<pc, todo, short, latest, chunks, given, mine, reparse, lost, cancel, cancels>>
      /\ cancel # "idle" => cancels > 0
  BY DEF SweepStep, PickDrained, PromotePicked, PickStuck, FailStuck, spans, fan, user, used,
     Whole, Accounts
<1>2. CASE PickDrained
  <2>1. UNCHANGED <<status, pending>> /\ ~Backlogged /\ \E p \in PostTask : pc[p] # "none"
    BY <1>2 DEF PickDrained, row, Whole, Accounts, Begun
  <2>2. Swept'
    BY <1>1, <2>1 DEF Swept, Backlogged, Live
  <2> QED BY <1>1, <2>1, <2>2, StillKeeps
<1>3. CASE PickStuck
  <2>1. UNCHANGED <<status, pending>> /\ ~Backlogged /\ sweep' = "stuck"
    BY <1>3 DEF PickStuck, row
  <2>2. Swept'
    BY <1>1, <2>1 DEF Swept, Backlogged, Live
  <2> QED BY <1>1, <2>1, <2>2, StillKeeps
<1>4. CASE PromotePicked
  <2>1. status' = "completed" /\ ~Backlogged /\ \E p \in PostTask : pc[p] # "none"
    BY <1>4 DEF PromotePicked, Whole, Swept
  <2>2. Swept'
    BY <1>4 DEF PromotePicked, Swept
  <2> QED BY <1>1, <2>1, <2>2, StillKeeps
<1>5. CASE FailStuck
  <2>1. UNCHANGED <<status, pending>> \/ status' = "failed"
    BY <1>5 DEF FailStuck, row
  <2>2. Swept'
    BY <1>5 DEF FailStuck, Swept
  <2> QED BY <1>1, <2>1, <2>2, StillKeeps
<1> QED BY <1>2, <1>3, <1>4, <1>5 DEF SweepStep

LEMMA CancelKeeps ==
    ASSUME PInv, Whole, BeginCancel \/ WriteCancel \/ AbortLatest
    PROVE  Whole'
<1>1. /\ UNCHANGED <<pc, todo, short, latest, chunks, given, mine, reparse, lost, sweep>>
      /\ UNCHANGED <<status, pending>> \/ status' = "cancelled"
  BY DEF BeginCancel, WriteCancel, AbortLatest, row, spans, fan, used
<1>2. cancels' > 0
  <2>1. cancels \in Nat
    BY Bounds DEF PInv, TypeOK
  <2>2. CASE BeginCancel
    <3>1. cancels' = cancels + 1
      BY <2>2 DEF BeginCancel
    <3> QED BY <2>1, <3>1
  <2>3. CASE WriteCancel \/ AbortLatest
    BY <2>3 DEF WriteCancel, AbortLatest, Whole, Accounts
  <2> QED BY <2>2, <2>3
<1>3. Swept'
  BY <1>1 DEF Whole, Swept, Backlogged, Live
<1>4. cancels' # 0
  BY <1>2
<1> QED BY <1>1, <1>2, <1>3, <1>4, StillKeeps

LEMMA StopKeeps ==
    ASSUME PInv, Whole, StopCancelled
    PROVE  Whole'
<1>1. /\ UNCHANGED <<todo, short, latest, chunks, given, mine, reparse, lost, sweep, cancels, status, pending>>
      /\ cancel' = "idle" /\ cancels > 0
  BY DEF StopCancelled, row, spans, fan, used, Whole, Accounts
<1>2. /\ pc' \in [Task -> Where]
      /\ \A t \in Task : pc'[t] = pc[t] \/ (pc'[t] = "done" /\ Live(t) /\ pc[t] # "fanout")
  <2> DEFINE waiting == {t \in Task : pc[t] = "queued"}
             stopped == {t \in Task : Working(t) /\ pc[t] # "fanout"}
  <2>1. PICK gone \in {{}, waiting, waiting \cup stopped} :
           pc' = [t \in Task |-> IF t \in gone THEN "done" ELSE pc[t]]
    BY Zenon DEF StopCancelled, Dequeue
  <2>2. \A t \in gone : Live(t) /\ pc[t] # "fanout"
    BY DEF Working, Live
  <2> QED BY <2>1, <2>2 DEF PInv, TypeOK, Where
<1>3. \A t \in Task : (pc'[t] # "none" <=> pc[t] # "none") /\ (Live(t)' => Live(t))
  BY <1>2 DEF Live
<1>4. \A p \in PostTask : (pc'[p] = "fanout" <=> pc[p] = "fanout") /\ (Begun(p) => Begun(p)')
  BY <1>2 DEF Task, Begun, Live
<1>5. OneHandOver'
  <2>1. pc'[Upload] = pc[Upload] \/ (pc'[Upload] = "done" /\ pc[Upload] # "done")
    BY <1>2, TasksDiffer DEF Task, Live
  <2> QED BY <1>1, <1>3, <2>1 DEF Whole, OneHandOver, Task, InAttempt
<1>6. Fanned'
  <2> SUFFICES ASSUME NEW u \in SubTask, pc'[u] # "none"
               PROVE  \E q \in PostTask : Begun(q)' /\ u[2] = q[2] /\ u[3] = q[3] /\ u[4] \notin todo'[q]
    BY DEF Fanned
  <2>1. PICK q \in PostTask : Begun(q) /\ u[2] = q[2] /\ u[3] = q[3] /\ u[4] \notin todo[q]
    BY <1>3 DEF Whole, Fanned, Task
  <2> QED BY <1>1, <1>4, <2>1
<1>7. Parsed'
  <2>1. pc'[Upload] = pc[Upload] \/ pc'[Upload] = "done"
    BY <1>2, TasksDiffer DEF Task
  <2> QED BY <1>1, <2>1 DEF Whole, Parsed, Reading
<1>8. Handed' /\ Swept'
  BY <1>1, <1>3 DEF Whole, Handed, Swept, Backlogged, Task
<1>9. /\ IsFiniteSet(Subs(latest)) /\ IsFiniteSet(Subs(latest)')
      /\ Cardinality(Subs(latest)') \in Nat /\ Cardinality(Subs(latest)) \in Nat
      /\ Cardinality(Subs(latest)') <= Cardinality(Subs(latest))
  <2>1. IsFiniteSet(Subs(latest))
    BY DEF Whole, Accounts
  <2>2. Subs(latest)' \subseteq Subs(latest)
    BY <1>1, <1>3 DEF Subs, Task
  <2> QED BY <2>1, <2>2, FS_Subset, FS_CardinalityType
<1>10. Posts' = Posts
  BY <1>1, <1>4 DEF Posts
<1>11. PICK r \in Nat : /\ Owed = Cardinality(Subs(latest)) + r
                        /\ Owed' = Cardinality(Subs(latest)') + r
  BY <1>1, <1>10, OwedBeside DEF Whole
<1>12. Books'
  <2>1. PICK o \in Nat, n \in Nat : o = Owed /\ n = Owed' /\ n <= o
    <3>1. PICK c \in Nat, d \in Nat : c = Cardinality(Subs(latest)) /\ d = Cardinality(Subs(latest)') /\ d <= c
      BY <1>9
    <3>2. Owed = c + r /\ Owed' = d + r /\ d + r <= c + r
      BY <1>11, <3>1
    <3> QED BY <3>2
  <2>2. PICK m \in Nat : m = pending
    BY SlotsFinite DEF PInv, TypeOK
  <2>3. status = "finalizing" => o <= m
    BY <2>1, <2>2 DEF Whole, Accounts, Books
  <2>4. status = "completed" => o = 0
    BY <2>1 DEF Whole, Accounts, Books
  <2>5. status = "finalizing" => n <= m
    BY <2>1, <2>3
  <2>6. status = "completed" => n = 0
    BY <2>1, <2>4
  <2>7. cancels' # 0 /\ pending' = m /\ Owed' = n /\ status' = status
    BY <1>1, <2>1, <2>2
  <2> QED BY <2>5, <2>6, <2>7 DEF Books
<1>13. Accounts'
  BY <1>1, <1>4, <1>9, <1>12 DEF Whole, Accounts
<1> QED BY <1>5, <1>6, <1>7, <1>8, <1>13 DEF Whole
LEMMA AInit == Init => AInv
<1> SUFFICES ASSUME Init PROVE Whole
  BY PInit DEF AInv
<1>1. \A t \in Task : pc[t] = IF t = Upload THEN "queued" ELSE "none"
  BY DEF Init, Upload
<1>2. /\ pc[Upload] = "queued" /\ \A t \in ProcessTask : t # Upload => pc[t] = "none"
      /\ \A p \in PostTask : pc[p] = "none"
      /\ \A t \in SubTask : pc[t] = "none"
  BY <1>1, TasksDiffer DEF Task
<1>3. OneHandOver
  BY <1>2, TasksDiffer DEF Init, OneHandOver, InAttempt
<1>4. Accounts
  <2>1. Subs(latest) = {}
    BY <1>2 DEF Subs, Live
  <2>2. IsFiniteSet(Subs(latest))
    BY <2>1, FS_EmptySet
  <2> QED BY <2>2 DEF Init, Accounts, Books
<1> QED BY <1>2, <1>3, <1>4 DEF Init, Whole, Fanned, Parsed, Handed, Swept, Reading

LEMMA AStep == ASSUME AInv, [Next]_vars PROVE AInv'
<1> SUFFICES ASSUME Fresh' PROVE Whole'
  BY PStep DEF AInv
<1>1. PInv /\ Whole /\ ~BeginReparse /\ crashes' = crashes
  BY FreshStays DEF AInv
<1>2. crashes \in Nat
  BY <1>1, Bounds DEF PInv, TypeOK
<1>3. ASSUME NEW t \in ProcessTask, ProcessStep(t) PROVE Whole'
  <2>1. t = Upload
    BY <1>1, <1>3, ParseLeaves DEF Whole, OneHandOver, Live
  <2> QED BY <1>1, <1>3, <2>1, ParseKeeps, HandOverKeeps
<1>4. CASE \E p \in PostTask : PostStep(p)
  BY <1>1, <1>4, PostKeeps
<1>5. CASE \E t \in SubTask : SubStep(t)
  BY <1>1, <1>5, SubKeeps
<1>6. CASE (\E t \in Task : Crash(t)) \/ CrashUser
  BY <1>1, <1>2, <1>6 DEF Crash, CrashUser
<1>7. CASE BeginCancel \/ CancelStep
  BY <1>1, <1>7, CancelKeeps, StopKeeps DEF CancelStep
<1>8. CASE ReparseStep
  BY <1>1, <1>8 DEF Whole, OneHandOver, ReparseStep, StopOldRun, OpenReparse, SaveReset, ResetCount,
     EnqueueProcess
<1>9. CASE SweepStep
  BY <1>1, <1>9, SweepKeeps
<1>10. CASE UNCHANGED vars
  <2>1. UNCHANGED <<pc, todo, short, latest, chunks, given, mine, reparse, lost, sweep, cancel, cancels,
                    status, pending>>
    BY <1>10 DEF vars, row, spans, fan, user, used
  <2>2. Swept' /\ (cancel' # "idle" => cancels' > 0)
    BY <1>1, <2>1 DEF Whole, Accounts, Swept, Backlogged, Live
  <2> QED BY <1>1, <2>1, <2>2, StillKeeps
<1> QED BY <1>1, <1>3, <1>4, <1>5, <1>6, <1>7, <1>8, <1>9, <1>10 DEF Next

LEMMA AHolds == Spec => []AInv
  BY AInit, AStep, PTL DEF Spec

\* Until a document is cancelled or parsed again, a worker dies or a release is given up,
\* the counter of a finalizing row is what its fan-out and its subtasks will still
\* release: refused enqueues, redeliveries, retries and the order of the drains
\* (FinalizeSubtask, the shortfall loop of Handle) make no difference to it.
THEOREM CounterIsExact == Spec => [](Fresh /\ cancels = 0 /\ lost = 0 => SlotsOwned)
<1>1. AInv => (Fresh /\ cancels = 0 /\ lost = 0 => SlotsOwned)
  BY DEF AInv, Whole, Accounts, Books, SlotsOwned
<1> QED BY <1>1, AHolds, PTL

\* For one request and without a crash, a completed row has no enrichment left, although
\* releases are lost, tasks are dequeued by a cancel and the sweep promotes rows by id:
\* the counter never falls below what is owed (FinalizeSubtask, runSweep).
THEOREM CompletesLast == Spec => [](Fresh => CompletedIsDrained)
<1>1. AInv => (Fresh => CompletedIsDrained)
  BY DEF AInv, Whole, Accounts, Books, CompletedIsDrained
<1> QED BY <1>1, AHolds, PTL

\* For one request, without a crash and with every clean-up done, a row that is handed to
\* enrichment has the chunks of the latest attempt and no others, whichever deliveries
\* of the upload failed half-way before (processChunks).
THEOREM ChunksOfOneRun == Spec => [](Fresh /\ lost = 0 => ChunksAreCurrent)
<1>1. AInv => (Fresh /\ lost = 0 => ChunksAreCurrent)
  <2> SUFFICES ASSUME AInv, Fresh, lost = 0, status \in {"finalizing", "completed"}
               PROVE  chunks = {latest}
    BY DEF ChunksAreCurrent
  <2>1. Whole
    BY DEF AInv
  <2>2. CASE status = "completed"
    BY <2>1, <2>2 DEF Whole, Parsed
  <2>3. CASE status = "finalizing"
    BY <2>1, <2>3 DEF Whole, Accounts, Handed, Begun
  <2> QED BY <2>2, <2>3
<1> QED BY <1>1, AHolds, PTL
=============================================================================
