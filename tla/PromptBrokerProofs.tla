------------------------ MODULE PromptBrokerProofs ------------------------
(* Proofs about PromptBroker, for every set of prompts, runs, answers and   *)
(* janitors and every bound on crashes and faults: types, the effect of an  *)
(* answer, what an accepted answer means, that the broker implements        *)
(* PromptContract; and, while the store confirms every write, the one run   *)
(* that drives a message and the state a suspended prompt resumes from.     *)
EXTENDS PromptBroker, TLAPS

Jobs == [pc : {"idle", "cas", "hook", "drop"}, p : Prompt \cup {None},
         own : Run \cup {None}, from : Status, to : Status, has : BOOLEAN, gone : BOOLEAN]

Places == {"unborn", "working", "raised", "emitting", "waiting", "leaving", "dropping", "returned",
           "unsure", "claimed", "acting", "marking", "settling", "building", "wrapping", "abandoning",
           "closing", "gone", "dead"}

\* A taker that does nothing has a well-typed job.
LEMMA IdleJobType == IdleJob \in Jobs
  BY DEF IdleJob, Jobs, Status

\* The types hold before the first prompt is raised.
LEMMA InitType == Init => TypeOK
<1> SUFFICES ASSUME Init PROVE TypeOK
  OBVIOUS
<1>1. job \in [Taker -> Jobs]
  BY IdleJobType DEF Init
<1>2. crashes \in 0..MaxCrashes /\ faults \in 0..MaxFaults
  BY PromptAssumption DEF Init
<1> QED BY <1>1, <1>2, Zenon DEF Init, TypeOK, Status, Jobs

\* A bounded counter that is raised below its bound stays within it.
LEMMA Bump == ASSUME NEW m \in Nat, NEW n \in 0..m, n < m PROVE n + 1 \in 0..m
  OBVIOUS

\* Raising a prompt and waiting on it keeps the types.
LEMMA WaitType ==
    ASSUME TypeOK, NEW r \in Run,
           \/ \E p \in Prompt : SaveState(r, p) \/ RaisePlain(r, p)
           \/ Create(r) \/ Emit(r) \/ Notice(r) \/ SuspendWait(r) \/ CloseWait(r) \/ EmitFails(r)
           \/ CloseUnconfirmed(r) \/ LeaveWait(r) \/ DropState(r) \/ Renew(r)
    PROVE  TypeOK'
<1>1. ASSUME NEW p \in Prompt, SaveState(r, p) PROVE TypeOK'
  BY <1>1 DEF SaveState, TypeOK, Goto, msg
<1>2. ASSUME NEW p \in Prompt, RaisePlain(r, p) PROVE TypeOK'
  BY <1>2 DEF RaisePlain, TypeOK, Goto, msg, row
<1>3. CASE Create(r)
  BY <1>3 DEF Create, TypeOK, Goto, msg, Status
<1>4. CASE Notice(r)
  BY <1>4 DEF Notice, TypeOK, Goto, Leave, OutcomeOf, msg, row
<1>5. CASE SuspendWait(r)
  BY <1>5 DEF SuspendWait, TypeOK, Goto, Leave, CAS, msg, Status
<1>6. CASE CloseWait(r)
  <2>1. PICK to \in {"expired", "canceled"} : CAS(at[r], {"pending"}, to, r)
    BY <1>6 DEF CloseWait
  <2>2. to \in Status /\ status' = [status EXCEPT ![at[r]] = to]
    BY <2>1 DEF CAS, Status
  <2>3. status' \in [Prompt -> Status]
    BY <2>2 DEF TypeOK
  <2>4. QED BY <1>6, <2>3 DEF CloseWait, TypeOK, Goto, Leave, msg
<1>7. CASE CloseUnconfirmed(r)
  <2>1. faults' \in 0..MaxFaults
    <3>1. faults' = faults \/ (faults < MaxFaults /\ faults' = faults + 1)
      BY <1>7 DEF CloseUnconfirmed
    <3>2. QED BY <3>1, Bump, PromptAssumption DEF TypeOK
  <2>2. QED BY <1>7, <2>1 DEF CloseUnconfirmed, TypeOK, Goto, Leave, msg, row
<1>8. CASE LeaveWait(r)
  BY <1>8 DEF LeaveWait, TypeOK, Goto, msg, row
<1>9. CASE DropState(r)
  BY <1>9 DEF DropState, DropSnap, TypeOK, Goto, msg, row
<1>10. CASE Renew(r)
  BY <1>10 DEF Renew, TypeOK, msg, run
<1>11. CASE Emit(r)
  BY <1>11 DEF Emit, TypeOK, Goto, msg, row
<1>12. CASE EmitFails(r)
  <2>1. status' = status \/ status' = [status EXCEPT ![at[r]] = "canceled"]
    BY <1>12 DEF EmitFails, CAS
  <2>2. status' \in [Prompt -> Status] /\ strayed' \in BOOLEAN
    BY <1>12, <2>1 DEF EmitFails, TypeOK, Status
  <2>3. QED BY <1>12, <2>2 DEF EmitFails, TypeOK, Goto, Leave, msg
<1> QED
  BY <1>1, <1>2, <1>3, <1>4, <1>5, <1>6, <1>7, <1>8, <1>9, <1>10, <1>11, <1>12

\* Consuming the answer, running the tool, ending the run keep the types.
LEMMA GateType ==
    ASSUME TypeOK, NEW r \in Run,
           \/ Consume(r) \/ ConsumeFails(r) \/ ClaimUnconfirmed(r) \/ Confirm(r)
           \/ RunTool(r) \/ MarkExecuted(r) \/ AfterWait(r) \/ Finish(r)
    PROVE  TypeOK'
<1>0. \A p : ClaimOf(p) \in Status
  BY DEF ClaimOf, Status
<1>1. CASE Consume(r)
  <2>1. status' \in [Prompt -> Status] /\ pc' \in [Run -> Places]
    BY <1>0, <1>1 DEF Consume, TypeOK, Goto, CAS, Ends, Places
  <2>2. QED BY <1>1, <2>1 DEF Consume, TypeOK, Places, msg
<1>2. CASE ConsumeFails(r)
  BY <1>2 DEF ConsumeFails, TypeOK, Goto, row, msg
<1>7. CASE ClaimUnconfirmed(r)
  <2>1. faults' \in 0..MaxFaults
    BY <1>7, Bump, PromptAssumption DEF ClaimUnconfirmed, TypeOK
  <2>2. status' \in [Prompt -> Status] /\ pc' \in [Run -> Places]
    <3>1. \E l \in {"claimed", "unsure"} : pc' = [pc EXCEPT ![r] = l]
      BY <1>7 DEF ClaimUnconfirmed, Goto
    <3>2. status' = status \/ status' = [status EXCEPT ![at[r]] = ClaimOf(at[r])]
      BY <1>7 DEF ClaimUnconfirmed, CAS
    <3>3. QED BY <1>0, <3>1, <3>2 DEF TypeOK, Places
  <2>3. QED BY <1>7, <2>1, <2>2 DEF ClaimUnconfirmed, TypeOK, Places, msg
<1>8. CASE Confirm(r)
  <2>1. status' \in [Prompt -> Status] /\ pc' \in [Run -> Places]
    BY <1>0, <1>8 DEF Confirm, TypeOK, Goto, CAS, Ends, Places, Status
  <2>2. QED BY <1>8, <2>1 DEF Confirm, TypeOK, Places, msg
<1>3. CASE RunTool(r)
  <2>1. effects' \in [Prompt -> Nat]
    <3>1. \A p \in Prompt : effects[p] + 1 \in Nat
      BY DEF TypeOK
    <3>2. QED BY <1>3, <3>1 DEF RunTool, TypeOK
  <2>2. QED BY <1>3, <2>1 DEF RunTool, TypeOK, Goto, msg, row
<1>4. CASE MarkExecuted(r)
  BY <1>4 DEF MarkExecuted, TypeOK, Goto, msg, Status
<1>5. CASE AfterWait(r)
  BY <1>5 DEF AfterWait, TypeOK, Goto, Ends, row
<1>6. CASE Finish(r)
  BY <1>6 DEF Finish, TypeOK, Goto, Ends, row
<1> QED
  BY <1>1, <1>2, <1>3, <1>4, <1>5, <1>6, <1>7, <1>8

\* So do the steps of a resumed run.
LEMMA ResumeType ==
    ASSUME TypeOK, NEW r \in Run,
           Settle(r) \/ Build(r) \/ WrapUp(r) \/ Abandon(r) \/ CloseAbandoned(r)
    PROVE  TypeOK'
<1>1. CASE Settle(r)
  BY <1>1 DEF Settle, TypeOK, Goto, msg, row
<1>2. CASE Build(r)
  <2>1. /\ at' \in [Run -> Prompt \cup {None}]
        /\ msgAwaiting' \in BOOLEAN
    <3>1. res[r] \in Prompt \cup {None}
      BY DEF TypeOK
    <3>2. at' = at \/ at' = [at EXCEPT ![r] = res[r]]
      BY <1>2 DEF Build
    <3>3. msgAwaiting' = msgAwaiting \/ msgAwaiting' = FALSE
      BY <1>2 DEF Build
    <3>4. QED BY <3>1, <3>2, <3>3 DEF TypeOK
  <2>2. \E l \in {"returned", "abandoning"} : Goto(r, l)
    BY <1>2 DEF Build
  <2>3. out' \in [Run -> {"none", "answered", "closed", "suspended", "detached"}]
    BY <1>2 DEF Build, TypeOK
  <2>4. QED BY <1>2, <2>1, <2>2, <2>3 DEF Build, TypeOK, Goto, row
<1>3. CASE WrapUp(r)
  BY <1>3 DEF WrapUp, TypeOK, Goto, DropSnap, msg, Status
<1>4. CASE Abandon(r)
  BY <1>4 DEF Abandon, TypeOK, Goto, msg, Status
<1>5. CASE CloseAbandoned(r)
  BY <1>5 DEF CloseAbandoned, TypeOK, Goto, DropSnap, msg, row
<1> QED
  BY <1>1, <1>2, <1>3, <1>4, <1>5

\* A takeover that begins records a well-typed job: the row its janitor read.
LEMMA StartJobType ==
    ASSUME TypeOK, NEW t \in Taker, NEW p \in Prompt,
           NEW from \in Status, NEW to \in Status, StartJob(t, p, from, to)
    PROVE  job' \in [Taker -> Jobs]
<1>1. HasState(p) \in BOOLEAN
  BY DEF HasState, TypeOK
<1>2. [pc |-> "cas", p |-> p, own |-> owner[p], from |-> from, to |-> to,
       has |-> HasState(p), gone |-> FALSE] \in Jobs
  BY <1>1 DEF TypeOK, Jobs
<1> QED BY <1>2 DEF StartJob, TypeOK, Jobs

\* A takeover that ends leaves a well-typed job behind.
LEMMA OverType == ASSUME TypeOK, NEW t \in Taker PROVE Over(t) \in Jobs
  BY DEF Over, IdleJob, TypeOK, Jobs, Status

\* Takeovers keep the types.
LEMMA TakeoverType ==
    ASSUME TypeOK,
           \/ \E j \in Janitor, p \in Prompt : Sweep(j, p) \/ Supersede(j, p)
           \/ \E t \in Taker : TakeOver(t) \/ Hook(t) \/ HookFails(t) \/ DropTaken(t)
    PROVE  TypeOK'
<1> USE DEF Jobs
<1>1. ASSUME NEW j \in Janitor, NEW p \in Prompt, Sweep(j, p) \/ Supersede(j, p)
      PROVE  TypeOK'
  <2>1. job' \in [Taker -> Jobs]
    <3>1. j \in Taker /\ {"pending", "suspended", "expired", "failed", "superseded",
                          "answered", "executing"} \subseteq Status
      BY DEF Taker, Status
    <3>2. \E from, to \in Status : StartJob(j, p, from, to)
      BY <1>1, <3>1 DEF Sweep, Supersede, StartReapPending, Abandoned
    <3>3. QED BY <3>1, <3>2, StartJobType
  <2>2. QED BY <1>1, <2>1 DEF Sweep, Supersede, TypeOK, row, msg, run
<1>2. ASSUME NEW t \in Taker, TakeOver(t) PROVE TypeOK'
  <2>1. job[t] \in Jobs /\ Over(t) \in Jobs
    BY OverType DEF TypeOK
  <2>2. [job[t] EXCEPT !.pc = "hook"] \in Jobs
    BY <2>1
  <2>3. job' \in [Taker -> Jobs]
    BY <1>2, <2>1, <2>2 DEF TakeOver, TypeOK
  <2>4. status' \in [Prompt -> Status] /\ owner' \in [Prompt -> Run \cup {None}]
    BY <1>2, <2>1 DEF TakeOver, TypeOK
  <2>5. QED BY <1>2, <2>3, <2>4 DEF TakeOver, TypeOK, msg, run
<1>3. ASSUME NEW t \in Taker, Hook(t) PROVE TypeOK'
  <2>1. job[t] \in Jobs /\ Over(t) \in Jobs
    BY OverType DEF TypeOK
  <2>2. [job[t] EXCEPT !.pc = "drop"] \in Jobs
    BY <2>1
  <2>3. job' \in [Taker -> Jobs]
    BY <1>3, <2>1, <2>2 DEF Hook, TypeOK
  <2>4. QED BY <1>3, <2>3 DEF Hook, Completes, TypeOK, row, run
<1>4. ASSUME NEW t \in Taker, DropTaken(t) PROVE TypeOK'
  <2>1. job' \in [Taker -> Jobs] /\ snap' \in Prompt \cup {None}
    BY <1>4, OverType DEF DropTaken, DropSnap, TypeOK
  <2>2. QED BY <1>4, <2>1 DEF DropTaken, TypeOK, row, msg, run
<1>5. ASSUME NEW t \in Taker, HookFails(t) PROVE TypeOK'
  <2>1. job' \in [Taker -> Jobs] /\ faults' \in 0..MaxFaults
    BY <1>5, OverType, Bump, PromptAssumption DEF HookFails, TypeOK
  <2>2. QED BY <1>5, <2>1 DEF HookFails, TypeOK, row, msg, run
<1> QED
  BY <1>1, <1>2, <1>3, <1>4, <1>5

\* The prompt a Resolve call is about is fixed by its first read.
ReadOK == \A u \in Resolver : verdict[u] # "none" => job[u].p \in Prompt

\* Resolve keeps the types.
LEMMA ResolveType ==
    ASSUME TypeOK, ReadOK, NEW u \in Resolver,
           \/ \E p \in Prompt : ReadForAnswer(u, p)
           \/ Reread(u) \/ AnswerSuspended(u) \/ AnswerPending(u)
    PROVE  TypeOK'
<1> USE DEF Jobs
<1>0. u \in Taker /\ job[u] \in Jobs
  BY DEF Taker, TypeOK
<1>1. \A p \in Prompt : RowRead(p) \in Jobs
  BY DEF RowRead, IdleJob, TypeOK, Status
<1>2. ASSUME NEW p \in Prompt, ReadForAnswer(u, p) PROVE TypeOK'
  <2>1. job' \in [Taker -> Jobs]
    <3>1. CASE StartReapPending(u, p)
      <4>1. {"pending", "suspended", "expired"} \subseteq Status
        BY DEF Status
      <4>2. \E to \in Status : StartJob(u, p, "pending", to)
        BY <3>1, <4>1 DEF StartReapPending
      <4>3. QED BY <1>0, <4>1, <4>2, StartJobType
    <3>2. CASE job' = [job EXCEPT ![u] = RowRead(p)]
      BY <1>0, <1>1, <3>2 DEF TypeOK
    <3>3. QED BY <1>2, <3>1, <3>2 DEF ReadForAnswer
  <2>2. QED BY <1>2, <2>1 DEF ReadForAnswer, TypeOK, row, msg, run
<1>3. CASE Reread(u)
  <2>1. RowRead(job[u].p) \in Jobs
    BY <1>1, <1>3 DEF ReadOK, Reread
  <2>2. job' = job \/ job' = [job EXCEPT ![u] = RowRead(job[u].p)]
    BY <1>3 DEF Reread
  <2>3. job' \in [Taker -> Jobs]
    BY <1>0, <2>1, <2>2 DEF TypeOK
  <2>4. QED BY <1>3, <2>3 DEF Reread, TypeOK, row, msg, run
<1>4. CASE AnswerSuspended(u)
  <2>1. CASE verdict' = [verdict EXCEPT ![u] = "retrying"]
             /\ UNCHANGED <<status, owner, lease, answer, res, orphan, pc>>
    BY <1>4, <2>1 DEF AnswerSuspended, TypeOK, msg
  <2>2. ASSUME NEW r \in Run, NEW p \in Prompt \cup {None}, NEW b \in BOOLEAN,
               status' = [status EXCEPT ![p] = "answered"],
               owner' = [owner EXCEPT ![p] = r],
               lease' = [lease EXCEPT ![p] = TRUE],
               answer' = [answer EXCEPT ![p] = u],
               res' = [res EXCEPT ![r] = p],
               orphan' = [orphan EXCEPT ![r] = b],
               Goto(r, "settling"),
               verdict' = [verdict EXCEPT ![u] = "accepted"]
        PROVE  TypeOK'
    BY <1>4, <2>2 DEF AnswerSuspended, TypeOK, msg, Goto, Status
  <2>3. job[u].p \in Prompt \cup {None} /\ job[u].gone \in BOOLEAN
    BY <1>0
  <2>4. QED BY <1>4, <2>1, <2>2, <2>3 DEF AnswerSuspended
<1>5. CASE AnswerPending(u)
  BY <1>5 DEF AnswerPending, TypeOK, msg, run, Status
<1> QED
  BY <1>2, <1>3, <1>4, <1>5

\* Deadlines, crashes and lapses keep the types.
LEMMA TimeType ==
    ASSUME TypeOK,
           \/ \E p \in Prompt : Lapse(p) \/ Overdue(p)
           \/ \E r \in Run : Crash(r)
           \/ \E j \in Janitor : CrashJanitor(j)
    PROVE  TypeOK'
<1>1. ASSUME NEW p \in Prompt, Lapse(p) \/ Overdue(p) PROVE TypeOK'
  BY <1>1 DEF Lapse, Overdue, TypeOK, msg, run
<1>2. ASSUME NEW r \in Run, Crash(r) PROVE TypeOK'
  <2>1. crashes' \in 0..MaxCrashes
    BY <1>2, Bump, PromptAssumption DEF Crash, TypeOK
  <2>2. QED BY <1>2, <2>1 DEF Crash, Goto, TypeOK, row, msg
<1>3. ASSUME NEW j \in Janitor, CrashJanitor(j) PROVE TypeOK'
  <2>1. crashes' \in 0..MaxCrashes
    BY <1>3, Bump, PromptAssumption DEF CrashJanitor, TypeOK
  <2>2. job' \in [Taker -> Jobs]
    BY <1>3, IdleJobType DEF CrashJanitor, TypeOK, Jobs
  <2>3. QED BY <1>3, <2>1, <2>2 DEF CrashJanitor, TypeOK, Jobs, row, msg, run
<1> QED
  BY <1>1, <1>2, <1>3

\* Only the Resolve call itself and the takeover it makes write its record.
LEMMA ReadStep == ASSUME TypeOK, ReadOK, [Next]_vars PROVE ReadOK'
<1> SUFFICES ASSUME NEW u \in Resolver, verdict'[u] # "none" PROVE job'[u].p \in Prompt
  BY DEF ReadOK
<1>0. u \in Taker /\ u \notin Janitor /\ job \in [Taker -> Jobs] /\ DOMAIN verdict = Resolver
  BY PromptAssumption DEF Taker, TypeOK, Jobs
<1>1. CASE UNCHANGED <<job, verdict>>
  BY <1>1 DEF ReadOK
<1>2. ASSUME NEW t \in Taker, TakerStep(t) PROVE job'[u].p \in Prompt
  <2>1. verdict[u] # "none" /\ job[u].p \in Prompt
    BY <1>2 DEF TakerStep, TakeOver, Hook, HookFails, DropTaken, ReadOK
  <2>2. Over(u) \in Jobs /\ Over(u).p = job[u].p
    BY <1>0, OverType DEF Over, IdleJob
  <2>3. job[u] \in Jobs
    BY <1>0
  <2>4. \A l \in {"hook", "drop"} : [job[u] EXCEPT !.pc = l].p = job[u].p
    BY <2>3 DEF Jobs
  <2>5. \/ job'[u] = job[u] \/ job'[u] = Over(u)
        \/ \E l \in {"hook", "drop"} : job'[u] = [job[u] EXCEPT !.pc = l]
    BY <1>0, <1>2 DEF TakerStep, TakeOver, Hook, HookFails, DropTaken
  <2>6. QED BY <2>1, <2>2, <2>4, <2>5
<1>3. ASSUME NEW j \in Janitor, NEW p \in Prompt, Sweep(j, p) \/ Supersede(j, p) \/ CrashJanitor(j)
      PROVE  job'[u].p \in Prompt
  <2>1. job'[u] = job[u] /\ verdict' = verdict
    BY <1>0, <1>3 DEF Sweep, Supersede, CrashJanitor, StartJob, StartReapPending
  <2>2. QED BY <2>1 DEF ReadOK
<1>4. ASSUME NEW j \in Janitor, CrashJanitor(j) PROVE job'[u].p \in Prompt
  BY <1>0, <1>4 DEF CrashJanitor, ReadOK
<1>5. ASSUME NEW v \in Resolver, NEW p \in Prompt, ReadForAnswer(v, p)
      PROVE  job'[u].p \in Prompt
  <2>1. v \in Taker
    BY DEF Taker
  <2>2. CASE v # u
    BY <1>0, <1>5, <2>2 DEF ReadForAnswer, StartReapPending, StartJob, ReadOK
  <2>3. CASE v = u
    <3>1. RowRead(p).p = p
      BY DEF RowRead, IdleJob
    <3>2. job'[u].p = p
      BY <1>0, <1>5, <2>3, <3>1 DEF ReadForAnswer, StartReapPending, StartJob
    <3>3. QED BY <3>2
  <2>4. QED BY <2>2, <2>3
<1>6. ASSUME NEW v \in Resolver, ResolveStep(v) PROVE job'[u].p \in Prompt
  <2>1. verdict[v] # "none" /\ job[v].p \in Prompt
    BY <1>6 DEF ResolveStep, Reread, AnswerSuspended, AnswerPending, ReadOK
  <2>2. RowRead(job[v].p).p = job[v].p
    BY DEF RowRead, IdleJob
  <2>3. \/ UNCHANGED job \/ job' = [job EXCEPT ![v] = RowRead(job[v].p)]
    BY <1>6 DEF ResolveStep, Reread, AnswerSuspended, AnswerPending
  <2>4. v # u => verdict'[u] = verdict[u]
    BY <1>6 DEF ResolveStep, Reread, AnswerSuspended, AnswerPending, TypeOK
  <2>5. QED BY <1>0, <2>1, <2>2, <2>3, <2>4 DEF ReadOK
<1>7. CASE \E r \in Run : \/ RunStep(r) \/ Renew(r) \/ CloseUnconfirmed(r)
                           \/ ConsumeFails(r)
             \/ ClaimUnconfirmed(r) \/ Crash(r)
  <2>1. UNCHANGED <<job, verdict>>
    BY <1>7 DEF RunStep, Create, Emit, Notice, SuspendWait, CloseWait, EmitFails, LeaveWait, DropState, Consume, Confirm,
      RunTool, MarkExecuted, AfterWait, Finish, Settle, Build, WrapUp, Abandon, CloseAbandoned,
      Renew, CloseUnconfirmed, ConsumeFails, ClaimUnconfirmed, Crash
  <2>2. QED BY <1>1, <2>1
<1>8. CASE \/ \E r \in Run, p \in Prompt : SaveState(r, p) \/ RaisePlain(r, p)
           \/ \E p \in Prompt : Lapse(p) \/ Overdue(p)
  BY <1>1, <1>8 DEF SaveState, RaisePlain, Lapse, Overdue
<1>9. CASE UNCHANGED vars
  BY <1>1, <1>9 DEF vars
<1> QED
  BY <1>2, <1>3, <1>4, <1>5, <1>6, <1>7, <1>8, <1>9 DEF Next

TInv == TypeOK /\ ReadOK

\* Every step keeps the types.
LEMMA TypeStep == ASSUME TInv, [Next]_vars PROVE TInv'
<1> USE DEF TInv
<1>1. SUFFICES TypeOK'
  BY ReadStep
<1>2. ASSUME NEW r \in Run, \/ RunStep(r) \/ Renew(r) \/ CloseUnconfirmed(r)
             \/ ConsumeFails(r) \/ ClaimUnconfirmed(r)
      PROVE  TypeOK'
  BY <1>2, WaitType, GateType, ResumeType DEF RunStep
<1>3. CASE UNCHANGED vars
  BY <1>3 DEF vars, row, msg, run, TypeOK
<1>4. CASE \E t \in Taker : TakerStep(t)
  BY <1>4, TakeoverType DEF TakerStep
<1>5. CASE \E j \in Janitor, p \in Prompt : Sweep(j, p) \/ Supersede(j, p)
  BY <1>5, TakeoverType
<1>6. CASE \E u \in Resolver : ResolveStep(u) \/ \E p \in Prompt : ReadForAnswer(u, p)
  BY <1>6, ResolveType DEF ResolveStep
<1>7. CASE \E r \in Run, p \in Prompt : SaveState(r, p) \/ RaisePlain(r, p)
  BY <1>7, WaitType
<1>8. CASE \/ \E p \in Prompt : Lapse(p) \/ Overdue(p)
           \/ \E r \in Run : Crash(r)
           \/ \E j \in Janitor : CrashJanitor(j)
  BY <1>8, TimeType
<1> QED
  BY <1>2, <1>3, <1>4, <1>5, <1>6, <1>7, <1>8 DEF Next

\* Every variable of the prompt broker keeps its type; in particular a Resolve
\* call always works on a prompt it has read.
THEOREM TypeCorrect == Spec => []TypeOK
<1>1. Init => TInv
  BY InitType DEF TInv, ReadOK, Init
<1>2. TInv /\ [Next]_vars => TInv'
  BY TypeStep
<1>3. TInv => TypeOK
  BY DEF TInv
<1> QED
  BY <1>1, <1>2, <1>3, PTL DEF Spec

-----------------------------------------------------------------------------
(* EffectOnce.  A prompt whose answer was claimed stays claimed: its status *)
(* never leaves Claimed and its answer never changes.  The claim itself     *)
(* moves the row out of "answered", so it happens once, and the one run     *)
(* that made it is the one that acts.                                       *)
Claimed  == {"executing", "done", "failed"}
Answered == Claimed \cup {"answered"}

\* Before its claim a run waits, comes back with the answer, or is unsure.
Waits    == {"emitting", "waiting", "leaving", "dropping", "returned", "unsure"}
Resuming == {"settling", "building"}
Claims   == {"acting", "claimed"}
Placed   == Waits \cup Claims \cup {"marking"}

\* A run is on a prompt of its own before the row exists, and on an existing
\* row from then on.
PlaceOK ==
    /\ \A r \in Run : pc[r] = "raised" => at[r] \in Prompt /\ status[at[r]] = "none"
    /\ \A r \in Run : pc[r] \in Placed => at[r] \in Prompt
    /\ \A r, q \in Run : pc[r] = "raised" /\ pc[q] = "raised" /\ at[r] = at[q] => r = q
    /\ \A r \in Run : res[r] \in Prompt => status[res[r]] # "none"
    /\ \A r \in Run : pc[r] \in {"settling", "building"} => res[r] \in Prompt

\* The moves a takeover makes.
MovesOK ==
    \A t \in Taker : job[t].pc = "cas" =>
       /\ job[t].p \in Prompt
       /\ \/ job[t].from \in Open /\ job[t].to \in {"suspended", "expired", "superseded"}
          \/ job[t].from \in {"answered", "executing"} /\ job[t].to = "failed"

\* Who may act, and that nobody has acted before it.
ActOK ==
    /\ \A p \in Prompt : effects[p] # 0 =>
          effects[p] = 1 /\ status[p] \in Claimed /\ answer[p] \in Approving
    /\ \A r \in Run : pc[r] \in Claims => status[at[r]] \in Claimed
    /\ \A r \in Run : Granted(r) => answer[at[r]] \in Approving /\ effects[at[r]] = 0
    /\ \A r, q \in Run : pc[r] \in Claims /\ pc[q] \in Claims /\ at[r] = at[q] => r = q

\* The prompt of a run that has not claimed it is not claimed while the run owns it,
\* so what the run reads back was written by itself.
FreshOK ==
    \A r \in Run :
       /\ pc[r] \in Waits /\ owner[at[r]] = r => status[at[r]] \notin {"executing", "done"}
       /\ pc[r] \in Resuming /\ owner[res[r]] = r => status[res[r]] \notin {"executing", "done"}

EInv == TInv /\ PlaceOK /\ MovesOK /\ ActOK /\ FreshOK

\* No step forgets an answer or a claim, changes the answer, or returns a row to
\* the state before it existed.
LEMMA RowStep ==
    ASSUME EInv, [Next]_vars, NEW p \in Prompt
    PROVE  /\ status[p] \in Claimed => status'[p] \in Claimed
           /\ status[p] \in Answered => status'[p] \in Answered /\ answer'[p] = answer[p]
           /\ status[p] # "none" => status'[p] # "none"
<1> DEFINE Kept ==
       /\ status[p] \in Claimed => status'[p] \in Claimed
       /\ status[p] \in Answered => status'[p] \in Answered /\ answer'[p] = answer[p]
       /\ status[p] # "none" => status'[p] # "none"
<1> USE DEF EInv, TInv, Claimed, Answered
<1>1. CASE UNCHANGED <<status, answer>>
  BY <1>1
<1>2. ASSUME NEW r \in Run, Create(r) PROVE Kept
  <2>1. status[at[r]] = "none" /\ at[r] \in Prompt /\ answer' = answer
    BY <1>2 DEF Create, PlaceOK
  <2>2. QED BY <1>2, <2>1 DEF Create, TypeOK
<1>3. ASSUME NEW r \in Run, SuspendWait(r) \/ CloseWait(r) \/ EmitFails(r) PROVE Kept
  BY <1>3 DEF SuspendWait, CloseWait, EmitFails, CAS, TypeOK
<1>4. ASSUME NEW r \in Run, Consume(r) \/ ClaimUnconfirmed(r) \/ Confirm(r) PROVE Kept
  BY <1>4 DEF Consume, ClaimUnconfirmed, Confirm, ClaimOf, CAS, TypeOK
<1>5. ASSUME NEW r \in Run, MarkExecuted(r) \/ WrapUp(r) \/ Abandon(r) PROVE Kept
  BY <1>5 DEF MarkExecuted, WrapUp, Abandon, TypeOK
<1>6. ASSUME NEW t \in Taker, TakeOver(t) PROVE Kept
  <2>1. CASE UNCHANGED status
    BY <1>6, <2>1 DEF TakeOver
  <2>2. CASE /\ status[job[t].p] = job[t].from
             /\ status' = [status EXCEPT ![job[t].p] = job[t].to]
    <3>1. \/ job[t].from \in Open /\ job[t].to \in {"suspended", "expired", "superseded"}
          \/ job[t].from \in {"answered", "executing"} /\ job[t].to = "failed"
      BY <1>6 DEF TakeOver, MovesOK
    <3>2. QED BY <1>6, <2>2, <3>1 DEF TakeOver, TypeOK, Open
  <2>3. QED BY <1>6, <2>1, <2>2 DEF TakeOver
<1>7. ASSUME NEW u \in Resolver, ResolveStep(u) PROVE Kept
  <2>1. CASE Reread(u)
    BY <2>1 DEF Reread, row
  <2>2. CASE AnswerSuspended(u)
    BY <2>2 DEF AnswerSuspended, TypeOK
  <2>3. CASE AnswerPending(u)
    BY <2>3 DEF AnswerPending, TakesAnswer, TypeOK
  <2>4. QED BY <1>7, <2>1, <2>2, <2>3 DEF ResolveStep
<1>8. ASSUME NEW r \in Run,
             \/ Emit(r) \/ Notice(r) \/ LeaveWait(r) \/ DropState(r) \/ RunTool(r) \/ AfterWait(r)
             \/ Finish(r) \/ Settle(r) \/ Build(r) \/ CloseAbandoned(r) \/ Renew(r)
             \/ CloseUnconfirmed(r) \/ ConsumeFails(r) \/ Crash(r)
             \/ \E q \in Prompt : SaveState(r, q) \/ RaisePlain(r, q)
      PROVE  Kept
  BY <1>1, <1>8 DEF Emit, Notice, LeaveWait, DropState, RunTool, AfterWait, Finish, Settle, Build,
     CloseAbandoned, Renew, CloseUnconfirmed, ConsumeFails, Crash, SaveState, RaisePlain, row
<1>9. CASE \/ \E t \in Taker : Hook(t) \/ HookFails(t) \/ DropTaken(t)
           \/ \E j \in Janitor, q \in Prompt : Sweep(j, q) \/ Supersede(j, q)
           \/ \E j \in Janitor : CrashJanitor(j)
           \/ \E u \in Resolver, q \in Prompt : ReadForAnswer(u, q)
           \/ \E q \in Prompt : Lapse(q) \/ Overdue(q)
           \/ UNCHANGED vars
  BY <1>1, <1>9 DEF Hook, HookFails, DropTaken, Sweep, Supersede, CrashJanitor, ReadForAnswer,
     Lapse, Overdue, row, vars
<1> QED
  BY <1>2, <1>3, <1>4, <1>5, <1>6, <1>7, <1>8, <1>9 DEF Next, RunStep, TakerStep

\* A claimed row keeps the answer it was claimed on.
LEMMA ClaimKept ==
    ASSUME EInv, [Next]_vars, NEW p \in Prompt, status[p] \in Claimed
    PROVE  status'[p] \in Claimed /\ answer'[p] = answer[p]
  BY RowStep DEF Answered

\* A takeover keeps the move it was started with.
LEMMA MovesStep == ASSUME EInv, [Next]_vars PROVE MovesOK'
<1> SUFFICES ASSUME NEW t \in Taker, job'[t].pc = "cas"
             PROVE  /\ job'[t].p \in Prompt
                    /\ \/ /\ job'[t].from \in Open
                          /\ job'[t].to \in {"suspended", "expired", "superseded"}
                       \/ job'[t].from \in {"answered", "executing"} /\ job'[t].to = "failed"
  BY DEF MovesOK
<1> USE DEF EInv, TInv
<1>0. job \in [Taker -> Jobs] /\ Janitor \subseteq Taker /\ Resolver \subseteq Taker
  BY DEF TypeOK, Jobs, Taker
<1>1. CASE job'[t] = job[t]
  BY <1>1 DEF MovesOK
<1>2. ASSUME NEW q \in Prompt, NEW from \in Status, NEW to \in Status, StartJob(t, q, from, to),
             \/ from \in Open /\ to \in {"suspended", "expired", "superseded"}
             \/ from \in {"answered", "executing"} /\ to = "failed"
      PROVE  /\ job'[t].p \in Prompt
             /\ \/ /\ job'[t].from \in Open
                   /\ job'[t].to \in {"suspended", "expired", "superseded"}
                \/ job'[t].from \in {"answered", "executing"} /\ job'[t].to = "failed"
  BY <1>0, <1>2 DEF StartJob
<1>3. ASSUME NEW v \in Taker, TakerStep(v) PROVE job'[t] = job[t]
  <2>1. CASE v # t
    BY <1>0, <1>3, <2>1 DEF TakerStep, TakeOver, Hook, HookFails, DropTaken
  <2>2. CASE v = t
    <3>1. Over(t).pc = "idle"
      BY DEF Over, IdleJob
    <3>2. job[t] \in Jobs
      BY <1>0
    <3>3. \A l \in {"hook", "drop"} : [job[t] EXCEPT !.pc = l].pc = l
      BY <3>2 DEF Jobs
    <3>4. \/ job'[t] = Over(t)
          \/ \E l \in {"hook", "drop"} : job'[t] = [job[t] EXCEPT !.pc = l]
      BY <1>0, <1>3, <2>2 DEF TakerStep, TakeOver, Hook, HookFails, DropTaken
    <3>5. QED BY <3>1, <3>3, <3>4
  <2>3. QED BY <2>1, <2>2
<1>4. ASSUME NEW j \in Janitor, NEW q \in Prompt, Sweep(j, q) \/ Supersede(j, q)
      PROVE  \/ job'[t] = job[t]
             \/ \E from, to \in Status :
                   /\ StartJob(t, q, from, to)
                   /\ \/ from \in Open /\ to \in {"suspended", "expired", "superseded"}
                      \/ from \in {"answered", "executing"} /\ to = "failed"
  <2>1. CASE j # t
    BY <1>0, <1>4, <2>1 DEF Sweep, Supersede, StartReapPending, StartJob
  <2>2. CASE j = t
    BY <1>4, <2>2 DEF Sweep, Supersede, StartReapPending, Abandoned, Status, Open
  <2>3. QED BY <2>1, <2>2
<1>5. ASSUME NEW u \in Resolver, NEW q \in Prompt, ReadForAnswer(u, q)
      PROVE  job'[t] = job[t] \/ \E to \in {"suspended", "expired"} : StartJob(t, q, "pending", to)
  <2>1. RowRead(q).pc = "idle"
    BY DEF RowRead, IdleJob
  <2>2. CASE u # t
    BY <1>0, <1>5, <2>2 DEF ReadForAnswer, StartReapPending, StartJob
  <2>3. CASE u = t
    BY <1>0, <1>5, <2>1, <2>3 DEF ReadForAnswer, StartReapPending
  <2>4. QED BY <2>2, <2>3
<1>6. ASSUME NEW u \in Resolver, ResolveStep(u) PROVE job'[t] = job[t]
  <2>1. RowRead(job[u].p).pc = "idle"
    BY DEF RowRead, IdleJob
  <2>2. job' = job \/ job' = [job EXCEPT ![u] = RowRead(job[u].p)]
    BY <1>6 DEF ResolveStep, Reread, AnswerSuspended, AnswerPending
  <2>3. QED BY <1>0, <2>1, <2>2
<1>7. ASSUME NEW j \in Janitor, CrashJanitor(j) PROVE job'[t] = job[t]
  BY <1>0, <1>7 DEF CrashJanitor, IdleJob
<1>8. CASE \E r \in Run : RunStep(r) \/ Renew(r) \/ CloseUnconfirmed(r) \/ ConsumeFails(r)
             \/ ClaimUnconfirmed(r) \/ Crash(r)
  BY <1>1, <1>8 DEF RunStep, Create, Emit, Notice, SuspendWait, CloseWait, EmitFails, LeaveWait, DropState, Consume, Confirm,
     RunTool, MarkExecuted, AfterWait, Finish, Settle, Build, WrapUp, Abandon, CloseAbandoned,
     Renew, CloseUnconfirmed, ConsumeFails, ClaimUnconfirmed, Crash
<1>9. CASE \/ \E r \in Run, q \in Prompt : SaveState(r, q) \/ RaisePlain(r, q)
           \/ \E q \in Prompt : Lapse(q) \/ Overdue(q)
           \/ UNCHANGED vars
  BY <1>1, <1>9 DEF SaveState, RaisePlain, Lapse, Overdue, vars
<1>10. CASE \E u \in Resolver, q \in Prompt : ReadForAnswer(u, q)
  <2>1. {"pending", "suspended", "expired"} \subseteq Status /\ "pending" \in Open
    BY DEF Status, Open
  <2>2. QED BY <1>1, <1>2, <1>5, <1>10, <2>1
<1>11. CASE \E j \in Janitor, q \in Prompt : Sweep(j, q) \/ Supersede(j, q)
  BY <1>1, <1>2, <1>4, <1>11
<1> QED
  BY <1>1, <1>3, <1>6, <1>7, <1>8, <1>9, <1>10, <1>11 DEF Next

\* A run's claim is written; a run whose claim is written learns so.
Wins(q) ==
    /\ Consume(q) \/ ClaimUnconfirmed(q) \/ Confirm(q)
    /\ status[at[q]] = "answered" /\ status' = [status EXCEPT ![at[q]] = ClaimOf(at[q])]
    /\ pc'[q] = "acting" => Approved(at[q])
Keeps(q) == pc'[q] = pc[q] \/ (pc'[q] = "acting" /\ Approved(at[q]))

\* Where a step may bring a run: onto a new prompt only by raising it, to the
\* tool only by claiming an answered row.
Comes(q) ==
    /\ pc'[q] = "raised" => \/ pc[q] = "raised" /\ at'[q] = at[q]
                            \/ \E p \in Prompt : SaveState(q, p) \/ RaisePlain(q, p)
    /\ pc'[q] \in Placed => at'[q] \in Prompt
    /\ \/ res'[q] = res[q]
       \/ res'[q] \in Prompt /\ status'[res'[q]] = "answered"
    /\ pc'[q] \in {"settling", "building"} => res'[q] \in Prompt
    /\ pc'[q] \in Claims => \/ pc[q] \in Claims /\ at'[q] = at[q] /\ Keeps(q)
                            \/ Wins(q)
    /\ pc'[q] \in Waits => \/ pc[q] \in Waits /\ at'[q] = at[q]
                           \/ Create(q) \/ Build(q)
    /\ pc'[q] \in Resuming => \/ pc[q] \in Resuming /\ res'[q] = res[q]
                              \/ status'[res'[q]] = "answered"

\* Every step brings every run only where it may come.
LEMMA ComesStep == ASSUME EInv, [Next]_vars, NEW q \in Run PROVE Comes(q)
<1> USE DEF EInv, TInv, Placed, Waits, Resuming, Claims
<1>1. CASE pc'[q] = pc[q] /\ at'[q] = at[q] /\ res'[q] = res[q]
  BY <1>1 DEF Comes, Keeps, PlaceOK
<1>2. ASSUME NEW r \in Run, r # q, RunStep(r) PROVE Comes(q)
  <2>1. pc'[q] = pc[q] /\ at'[q] = at[q] /\ res'[q] = res[q]
    BY <1>2 DEF RunStep, Create, Emit, Notice, SuspendWait, CloseWait, EmitFails, LeaveWait, DropState, Consume, Confirm,
       RunTool, MarkExecuted, AfterWait, Finish, Settle, Build, WrapUp, Abandon, CloseAbandoned,
       Goto, Leave, run, TypeOK
  <2>2. QED BY <1>1, <2>1
<1>3. CASE Create(q) \/ Emit(q) \/ Notice(q) \/ SuspendWait(q) \/ CloseWait(q) \/ EmitFails(q) \/ CloseUnconfirmed(q)
           \/ LeaveWait(q) \/ DropState(q)
  BY <1>3 DEF Create, Emit, Notice, SuspendWait, CloseWait, EmitFails, CloseUnconfirmed, LeaveWait, DropState,
     Goto, Leave, TypeOK, Comes, PlaceOK
<1>4. CASE Consume(q)
  <2>1. /\ at' = at /\ res' = res /\ at[q] \in Prompt
        /\ \/ /\ status[at[q]] = "answered"
              /\ status' = [status EXCEPT ![at[q]] = ClaimOf(at[q])]
              /\ pc'[q] = IF Approved(at[q]) THEN "acting" ELSE "working"
           \/ pc'[q] \in {"gone", "wrapping"}
    BY <1>4 DEF Consume, CAS, Goto, Ends, TypeOK, PlaceOK
  <2>2. QED BY <1>4, <2>1 DEF Comes, Wins
<1>12. CASE ClaimUnconfirmed(q)
  <2>1. /\ at' = at /\ res' = res /\ at[q] \in Prompt /\ pc[q] = "returned"
        /\ \/ /\ status[at[q]] = "answered" /\ pc'[q] = "claimed"
              /\ status' = [status EXCEPT ![at[q]] = ClaimOf(at[q])]
           \/ pc'[q] = "unsure"
    BY <1>12 DEF ClaimUnconfirmed, CAS, Goto, TypeOK, PlaceOK
  <2>2. QED BY <1>12, <2>1 DEF Comes, Wins
<1>13. CASE Confirm(q)
  <2>1. at' = at /\ res' = res /\ at[q] \in Prompt /\ pc[q] \in {"unsure", "claimed"}
    BY <1>13 DEF Confirm, PlaceOK
  <2>2. \/ /\ status[at[q]] = "answered"
           /\ status' = [status EXCEPT ![at[q]] = ClaimOf(at[q])]
           /\ pc'[q] = IF Approved(at[q]) THEN "acting" ELSE "working"
        \/ IsMine(q, at[q]) /\ pc'[q] = IF Approved(at[q]) THEN "acting" ELSE "working"
        \/ pc'[q] \in {"gone", "wrapping", "working"}
    BY <1>13 DEF Confirm, CAS, Goto, Ends, TypeOK
  <2>3. IsMine(q, at[q]) => pc[q] = "claimed"
    BY <2>1 DEF IsMine, ClaimOf, FreshOK
  <2>4. QED BY <1>13, <2>1, <2>2, <2>3 DEF Comes, Wins, Keeps
<1>5. CASE ConsumeFails(q) \/ MarkExecuted(q) \/ AfterWait(q) \/ Finish(q) \/ RunTool(q)
  BY <1>5 DEF ConsumeFails, MarkExecuted, AfterWait, Finish, RunTool, Ends, Goto, TypeOK, Comes,
     PlaceOK
<1>6. CASE Settle(q) \/ WrapUp(q) \/ Abandon(q) \/ CloseAbandoned(q)
  BY <1>6 DEF Settle, WrapUp, Abandon, CloseAbandoned, Goto, TypeOK, Comes, PlaceOK
<1>7. CASE Build(q)
  BY <1>7 DEF Build, Goto, TypeOK, Comes, PlaceOK
<1>8. ASSUME NEW r \in Run, Renew(r) \/ CloseUnconfirmed(r) \/ ConsumeFails(r)
             \/ ClaimUnconfirmed(r) \/ Crash(r)
      PROVE  Comes(q)
  <2>1. CASE r = q
    BY <1>1, <1>3, <1>5, <1>8, <1>12, <2>1 DEF Renew, Crash, Goto, TypeOK, Comes, run
  <2>2. CASE r # q
    BY <1>1, <1>8, <2>2 DEF Renew, CloseUnconfirmed, ConsumeFails, ClaimUnconfirmed, Crash, Goto, Leave, TypeOK, run
  <2>3. QED BY <2>1, <2>2
<1>9. ASSUME NEW r \in Run, NEW p \in Prompt, SaveState(r, p) \/ RaisePlain(r, p)
      PROVE  Comes(q)
  <2>1. CASE r = q
    BY <1>9, <2>1 DEF SaveState, RaisePlain, Goto, TypeOK, Comes
  <2>2. CASE r # q
    BY <1>1, <1>9, <2>2 DEF SaveState, RaisePlain, Goto, TypeOK
  <2>3. QED BY <2>1, <2>2
<1>10. ASSUME NEW u \in Resolver, ResolveStep(u) PROVE Comes(q)
  <2>1. CASE UNCHANGED <<pc, at, res>>
    BY <1>1, <2>1
  <2>2. ASSUME NEW r \in Run, AnswerSuspended(u), status' = [status EXCEPT ![job[u].p] = "answered"],
               res' = [res EXCEPT ![r] = job[u].p], Goto(r, "settling")
        PROVE  Comes(q)
    <3>1. job[u].p \in Prompt /\ at' = at
      BY <2>2 DEF ReadOK, AnswerSuspended
    <3>2. CASE r = q
      BY <2>2, <3>1, <3>2 DEF Goto, TypeOK, Comes
    <3>3. CASE r # q
      BY <1>1, <2>2, <3>1, <3>3 DEF Goto, TypeOK
    <3>4. QED BY <3>2, <3>3
  <2>3. CASE AnswerSuspended(u)
    BY <2>1, <2>2, <2>3 DEF AnswerSuspended
  <2>4. QED BY <1>10, <2>1, <2>3 DEF ResolveStep, Reread, AnswerPending, run
<1>11. CASE \/ \E t \in Taker : TakerStep(t)
            \/ \E j \in Janitor, p \in Prompt : Sweep(j, p) \/ Supersede(j, p)
            \/ \E j \in Janitor : CrashJanitor(j)
            \/ \E u \in Resolver, p \in Prompt : ReadForAnswer(u, p)
            \/ \E p \in Prompt : Lapse(p) \/ Overdue(p)
            \/ UNCHANGED vars
  BY <1>1, <1>11 DEF TakerStep, TakeOver, Hook, HookFails, DropTaken, Sweep, Supersede, CrashJanitor,
     ReadForAnswer, Lapse, Overdue, vars, run
<1> QED
  BY <1>2, <1>3, <1>4, <1>5, <1>6, <1>7, <1>8, <1>9, <1>10, <1>11, <1>13 DEF Next, RunStep

\* Only Create brings a row into being.
LEMMA NoneStep ==
    ASSUME EInv, [Next]_vars, NEW p \in Prompt, status[p] = "none",
           ~ \E r \in Run : Create(r) /\ at[r] = p
    PROVE  status'[p] = "none"
<1> USE DEF EInv, TInv
<1>1. CASE UNCHANGED status
  BY <1>1
<1>2. ASSUME NEW r \in Run,
             \/ Create(r) \/ SuspendWait(r) \/ CloseWait(r) \/ EmitFails(r) \/ Consume(r)
             \/ ClaimUnconfirmed(r) \/ Confirm(r) \/ MarkExecuted(r) \/ WrapUp(r) \/ Abandon(r)
      PROVE  status'[p] = "none"
  BY <1>2 DEF Create, SuspendWait, CloseWait, EmitFails, Consume, ClaimUnconfirmed, Confirm, MarkExecuted,
     WrapUp, Abandon, CAS, TypeOK
<1>3. ASSUME NEW t \in Taker, TakeOver(t) PROVE status'[p] = "none"
  BY <1>3 DEF TakeOver, MovesOK, Open, TypeOK
<1>4. ASSUME NEW u \in Resolver, ResolveStep(u) PROVE status'[p] = "none"
  BY <1>4 DEF ResolveStep, Reread, AnswerSuspended, AnswerPending, TakesAnswer, TypeOK, row
<1>5. ASSUME NEW r \in Run,
             \/ Emit(r) \/ Notice(r) \/ LeaveWait(r) \/ DropState(r) \/ RunTool(r) \/ AfterWait(r)
             \/ Finish(r) \/ Settle(r) \/ Build(r) \/ CloseAbandoned(r) \/ Renew(r)
             \/ CloseUnconfirmed(r) \/ ConsumeFails(r) \/ Crash(r)
             \/ \E q \in Prompt : SaveState(r, q) \/ RaisePlain(r, q)
      PROVE  status'[p] = "none"
  BY <1>1, <1>5 DEF Emit, Notice, LeaveWait, DropState, RunTool, AfterWait, Finish, Settle, Build,
     CloseAbandoned, Renew, CloseUnconfirmed, ConsumeFails, Crash, SaveState, RaisePlain, row
<1>6. CASE \/ \E t \in Taker : Hook(t) \/ HookFails(t) \/ DropTaken(t)
           \/ \E j \in Janitor, q \in Prompt : Sweep(j, q) \/ Supersede(j, q)
           \/ \E j \in Janitor : CrashJanitor(j)
           \/ \E u \in Resolver, q \in Prompt : ReadForAnswer(u, q)
           \/ \E q \in Prompt : Lapse(q) \/ Overdue(q)
           \/ UNCHANGED vars
  BY <1>1, <1>6 DEF Hook, HookFails, DropTaken, Sweep, Supersede, CrashJanitor, ReadForAnswer,
     Lapse, Overdue, row, vars
<1> QED
  BY <1>2, <1>3, <1>4, <1>5, <1>6 DEF Next, RunStep, TakerStep

\* A raised prompt has no row, and one run raises it.
LEMMA PlaceStep == ASSUME EInv, [Next]_vars PROVE PlaceOK'
<1> USE DEF EInv, TInv
<1>1. ASSUME NEW r \in Run, pc'[r] = "raised"
      PROVE  at'[r] \in Prompt /\ status'[at'[r]] = "none"
  <2>1. CASE pc[r] = "raised" /\ at'[r] = at[r]
    <3>1. at[r] \in Prompt /\ status[at[r]] = "none"
      BY <2>1 DEF PlaceOK
    <3>2. ASSUME NEW q \in Run, Create(q), at[q] = at[r] PROVE FALSE
      <4>1. q = r
        BY <2>1, <3>2 DEF Create, PlaceOK
      <4>2. pc'[r] = "emitting"
        BY <3>2, <4>1 DEF Create, Goto, TypeOK
      <4>3. QED BY <1>1, <4>2
    <3>3. QED BY <2>1, <3>1, <3>2, NoneStep
  <2>2. ASSUME NEW p \in Prompt, SaveState(r, p) \/ RaisePlain(r, p)
        PROVE  at'[r] \in Prompt /\ status'[at'[r]] = "none"
    BY <2>2 DEF SaveState, RaisePlain, TypeOK, row
  <2>3. QED BY <1>1, <2>1, <2>2, ComesStep DEF Comes
<1>2. ASSUME NEW r \in Run, pc'[r] \in Placed PROVE at'[r] \in Prompt
  BY <1>2, ComesStep DEF Comes
<1>3. ASSUME NEW r \in Run, NEW q \in Run, pc'[r] = "raised", pc'[q] = "raised", at'[r] = at'[q],
             r # q
      PROVE  FALSE
  <2>1. ASSUME NEW v \in Run, NEW w \in Run, v # w, NEW p \in Prompt,
               SaveState(v, p) \/ RaisePlain(v, p)
        PROVE  at'[v] # at'[w]
    BY <2>1 DEF SaveState, RaisePlain, TypeOK
  <2>2. /\ pc[r] = "raised" /\ at'[r] = at[r]
        /\ pc[q] = "raised" /\ at'[q] = at[q]
    BY <1>3, <2>1, ComesStep DEF Comes
  <2>3. QED BY <1>3, <2>2 DEF PlaceOK
<1>4. ASSUME NEW r \in Run, res'[r] \in Prompt PROVE status'[res'[r]] # "none"
  <2>1. CASE res'[r] = res[r]
    BY <1>4, <2>1, RowStep DEF PlaceOK
  <2>2. QED BY <1>4, <2>1, ComesStep DEF Comes
<1>5. ASSUME NEW r \in Run, pc'[r] \in {"settling", "building"} PROVE res'[r] \in Prompt
  BY <1>5, ComesStep DEF Comes
<1> QED
  BY <1>1, <1>2, <1>3, <1>4, <1>5 DEF PlaceOK, Placed

\* A side effect is run once, by the one run whose claim won.
LEMMA ActStep == ASSUME EInv, [Next]_vars PROVE ActOK'
<1> USE DEF EInv, TInv, Claims, Granted, Approved
<1>1. ASSUME NEW r \in Run, RunTool(r) PROVE ActOK'
  <2>1. /\ at[r] \in Prompt /\ status[at[r]] \in Claimed
        /\ answer[at[r]] \in Approving /\ effects[at[r]] = 0
    BY <1>1 DEF RunTool, ActOK, PlaceOK, Placed
  <2>2. UNCHANGED <<status, answer, at>> /\ effects' = [effects EXCEPT ![at[r]] = 1]
    BY <1>1, <2>1 DEF RunTool, row
  <2>3. \A q \in Run : pc'[q] \in Claims => pc'[q] = pc[q] /\ at[q] # at[r]
    BY <1>1 DEF RunTool, Goto, TypeOK, ActOK
  <2>4. \A q \in Run : pc[q] \in Claims => at[q] \in Prompt
    BY DEF PlaceOK, Placed
  <2>5. \A q \in Run : Granted(q)' => Granted(q)
    BY <2>2, <2>3
  <2>6. \A p \in Prompt : effects'[p] # 0 =>
           effects'[p] = 1 /\ status'[p] \in Claimed /\ answer'[p] \in Approving
    BY <2>1, <2>2 DEF ActOK, TypeOK
  <2>7. \A q \in Run : Granted(q)' => answer'[at'[q]] \in Approving /\ effects'[at'[q]] = 0
    BY <2>2, <2>3, <2>4, <2>5 DEF ActOK, TypeOK
  <2>8. QED BY <2>2, <2>3, <2>6, <2>7 DEF ActOK
<1>2. CASE \A r \in Run : ~RunTool(r)
  <2>1. effects' = effects
    <3>1. ASSUME NEW r \in Run, \/ RunStep(r) \/ Renew(r) \/ CloseUnconfirmed(r)
                                \/ ConsumeFails(r) \/ ClaimUnconfirmed(r) \/ Crash(r)
          PROVE  effects' = effects
      BY <1>2, <3>1 DEF RunStep, Create, Emit, Notice, SuspendWait, CloseWait, EmitFails, LeaveWait, DropState, Consume,
         Confirm, MarkExecuted, AfterWait, Finish, Settle, Build, WrapUp, Abandon, CloseAbandoned,
         Renew, CloseUnconfirmed, ConsumeFails, ClaimUnconfirmed, Crash
    <3>2. ASSUME NEW r \in Run, NEW p \in Prompt, SaveState(r, p) \/ RaisePlain(r, p)
          PROVE  effects' = effects
      BY <3>2 DEF SaveState, RaisePlain
    <3>3. ASSUME \/ \E t \in Taker : TakerStep(t)
                 \/ \E j \in Janitor, p \in Prompt : Sweep(j, p) \/ Supersede(j, p)
                 \/ \E j \in Janitor : CrashJanitor(j)
          PROVE  effects' = effects
      BY <3>3 DEF TakerStep, TakeOver, Hook, HookFails, DropTaken, Sweep, Supersede, CrashJanitor
    <3>4. ASSUME \/ \E u \in Resolver, p \in Prompt : ReadForAnswer(u, p)
                 \/ \E u \in Resolver : ResolveStep(u)
                 \/ \E p \in Prompt : Lapse(p) \/ Overdue(p)
          PROVE  effects' = effects
      BY <3>4 DEF ResolveStep, ReadForAnswer, Reread, AnswerSuspended, AnswerPending, Lapse, Overdue
    <3>5. CASE UNCHANGED vars
      BY <3>5 DEF vars
    <3> QED BY <3>1, <3>2, <3>3, <3>4, <3>5 DEF Next
  <2>2. ASSUME NEW p \in Prompt, effects'[p] # 0
        PROVE  effects'[p] = 1 /\ status'[p] \in Claimed /\ answer'[p] \in Approving
    BY <2>1, <2>2, ClaimKept DEF ActOK
  <2>3. ASSUME NEW r \in Run, pc'[r] \in Claims, pc[r] \in Claims, at'[r] = at[r], Keeps(r)
        PROVE  /\ status'[at'[r]] \in Claimed
               /\ Granted(r)' => answer'[at'[r]] \in Approving /\ effects'[at'[r]] = 0
    <3>1. at[r] \in Prompt /\ status[at[r]] \in Claimed
      BY <2>3 DEF ActOK, PlaceOK, Placed
    <3>2. status'[at[r]] \in Claimed /\ answer'[at[r]] = answer[at[r]]
      BY <3>1, ClaimKept
    <3>3. Granted(r)' => Granted(r)
      BY <2>3, <3>2 DEF Keeps
    <3>4. QED BY <2>1, <2>3, <3>2, <3>3 DEF ActOK
  <2>4. ASSUME NEW r \in Run, Wins(r), pc'[r] \in Claims
        PROVE  /\ status'[at'[r]] \in Claimed
               /\ Granted(r)' => answer'[at'[r]] \in Approving /\ effects'[at'[r]] = 0
               /\ \A q \in Run : q # r => ~(pc'[q] \in Claims /\ at'[q] = at'[r])
    <3>1. at' = at /\ answer' = answer /\ pc[r] \in Waits \cup Claims
      BY <2>4 DEF Wins, Consume, ClaimUnconfirmed, Confirm, Waits
    <3>2. at[r] \in Prompt
      BY <3>1 DEF PlaceOK, Placed
    <3>3. status[at[r]] = "answered" /\ status'[at[r]] = ClaimOf(at[r]) /\ effects[at[r]] = 0
      BY <2>4, <3>2 DEF Wins, TypeOK, ActOK, Claimed
    <3>4. \A q \in Run : q # r => pc'[q] = pc[q]
      BY <2>4 DEF Wins, Consume, ClaimUnconfirmed, Confirm, Goto, Ends, TypeOK
    <3>5. \A q \in Run : pc[q] \in Claims => at[q] # at[r]
      BY <3>3 DEF ActOK, Claimed
    <3>6. Granted(r)' => answer[at[r]] \in Approving
      BY <2>4, <3>1 DEF Wins
    <3>7. QED BY <2>1, <3>1, <3>3, <3>4, <3>5, <3>6 DEF Claimed, ClaimOf
  <2>5. ASSUME NEW r \in Run, pc'[r] \in Claims
        PROVE  /\ status'[at'[r]] \in Claimed
               /\ Granted(r)' => answer'[at'[r]] \in Approving /\ effects'[at'[r]] = 0
    <3>1. Wins(r) \/ (pc[r] \in Claims /\ at'[r] = at[r] /\ Keeps(r))
      BY <2>5, ComesStep DEF Comes
    <3>2. QED BY <2>3, <2>4, <2>5, <3>1
  <2>6. ASSUME NEW r \in Run, NEW q \in Run, pc'[r] \in Claims, pc'[q] \in Claims, at'[r] = at'[q]
        PROVE  r = q
    BY <2>4, <2>6, ComesStep DEF Comes, ActOK
  <2>7. QED BY <2>2, <2>5, <2>6 DEF ActOK
<1> QED
  BY <1>1, <1>2

\* A row becomes claimed by the run that owns it, which then waits no more.
LEMMA ClaimStep ==
    ASSUME EInv, [Next]_vars, NEW p \in Prompt, status'[p] \in {"executing", "done"}
    PROVE  \/ status[p] \in {"executing", "done"}
           \/ owner[p] \in Run /\ pc'[owner[p]] \notin Waits \cup Resuming
<1> DEFINE Goal == \/ status[p] \in {"executing", "done"}
                   \/ owner[p] \in Run /\ pc'[owner[p]] \notin Waits \cup Resuming
<1> USE DEF EInv, TInv
<1>1. CASE UNCHANGED status
  BY <1>1
<1>2. ASSUME NEW r \in Run, Consume(r) \/ ClaimUnconfirmed(r) \/ Confirm(r) PROVE Goal
  <2>1. CASE status' = status \/ status' = [status EXCEPT ![at[r]] = "failed"]
    BY <2>1 DEF TypeOK
  <2>2. CASE /\ owner[at[r]] = r /\ status' = [status EXCEPT ![at[r]] = ClaimOf(at[r])]
             /\ pc' = [pc EXCEPT ![r] = "claimed"] \/ pc' = [pc EXCEPT ![r] = "acting"]
                \/ pc' = [pc EXCEPT ![r] = "working"]
    BY <2>2 DEF TypeOK, Waits, Resuming
  <2>3. QED BY <1>2, <2>1, <2>2 DEF Consume, ClaimUnconfirmed, Confirm, CAS, Goto
<1>3. ASSUME NEW r \in Run,
             Create(r) \/ SuspendWait(r) \/ CloseWait(r) \/ EmitFails(r) \/ MarkExecuted(r) \/ WrapUp(r) \/ Abandon(r)
      PROVE  Goal
  BY <1>3 DEF Create, SuspendWait, CloseWait, EmitFails, MarkExecuted, WrapUp, Abandon, CAS, TypeOK
<1>4. ASSUME NEW t \in Taker, TakeOver(t) PROVE Goal
  BY <1>4 DEF TakeOver, MovesOK, TypeOK
<1>5. ASSUME NEW u \in Resolver, ResolveStep(u) PROVE Goal
  BY <1>5 DEF ResolveStep, Reread, AnswerSuspended, AnswerPending, TypeOK, row
<1>6. ASSUME NEW r \in Run,
             \/ Emit(r) \/ Notice(r) \/ LeaveWait(r) \/ DropState(r) \/ RunTool(r) \/ AfterWait(r)
             \/ Finish(r) \/ Settle(r) \/ Build(r) \/ CloseAbandoned(r) \/ Renew(r)
             \/ CloseUnconfirmed(r) \/ ConsumeFails(r) \/ Crash(r)
             \/ \E q \in Prompt : SaveState(r, q) \/ RaisePlain(r, q)
      PROVE  Goal
  BY <1>1, <1>6 DEF Emit, Notice, LeaveWait, DropState, RunTool, AfterWait, Finish, Settle, Build,
     CloseAbandoned, Renew, CloseUnconfirmed, ConsumeFails, Crash, SaveState, RaisePlain, row
<1>7. CASE \/ \E t \in Taker : Hook(t) \/ HookFails(t) \/ DropTaken(t)
           \/ \E j \in Janitor, q \in Prompt : Sweep(j, q) \/ Supersede(j, q)
           \/ \E j \in Janitor : CrashJanitor(j)
           \/ \E u \in Resolver, q \in Prompt : ReadForAnswer(u, q)
           \/ \E q \in Prompt : Lapse(q) \/ Overdue(q)
           \/ UNCHANGED vars
  BY <1>1, <1>7 DEF Hook, HookFails, DropTaken, Sweep, Supersede, CrashJanitor, ReadForAnswer,
     Lapse, Overdue, row, vars
<1> QED
  BY <1>2, <1>3, <1>4, <1>5, <1>6, <1>7 DEF Next, RunStep, TakerStep

\* A run comes to own a row only as it is raised or answered.
LEMMA OwnerStep ==
    ASSUME EInv, [Next]_vars, NEW p \in Prompt, owner'[p] \in Run
    PROVE  owner'[p] = owner[p] \/ status'[p] \in {"pending", "answered"}
<1> DEFINE Goal == owner'[p] = owner[p] \/ status'[p] \in {"pending", "answered"}
<1> USE DEF EInv, TInv
<1>1. CASE UNCHANGED owner
  BY <1>1
<1>2. ASSUME NEW r \in Run, Create(r) PROVE Goal
  BY <1>2 DEF Create, TypeOK
<1>3. ASSUME NEW t \in Taker, TakeOver(t) PROVE Goal
  BY <1>3, PromptAssumption DEF TakeOver, TypeOK
<1>4. ASSUME NEW u \in Resolver, ResolveStep(u) PROVE Goal
  BY <1>4 DEF ResolveStep, Reread, AnswerSuspended, AnswerPending, TypeOK, row
<1>5. CASE \E r \in Run :
             \/ Emit(r) \/ Notice(r) \/ SuspendWait(r) \/ CloseWait(r) \/ EmitFails(r) \/ LeaveWait(r) \/ DropState(r)
             \/ Consume(r) \/ Confirm(r) \/ RunTool(r) \/ MarkExecuted(r) \/ AfterWait(r)
             \/ Finish(r) \/ Settle(r) \/ Build(r) \/ WrapUp(r) \/ Abandon(r) \/ CloseAbandoned(r)
             \/ Renew(r) \/ CloseUnconfirmed(r) \/ ConsumeFails(r) \/ ClaimUnconfirmed(r) \/ Crash(r)
             \/ \E q \in Prompt : SaveState(r, q) \/ RaisePlain(r, q)
  BY <1>1, <1>5 DEF Emit, Notice, SuspendWait, CloseWait, EmitFails, LeaveWait, DropState, Consume, Confirm, RunTool,
     MarkExecuted, AfterWait, Finish, Settle, Build, WrapUp, Abandon, CloseAbandoned, Renew,
     CloseUnconfirmed, ConsumeFails, ClaimUnconfirmed, Crash, SaveState, RaisePlain, row
<1>6. CASE \/ \E t \in Taker : Hook(t) \/ HookFails(t) \/ DropTaken(t)
           \/ \E j \in Janitor, q \in Prompt : Sweep(j, q) \/ Supersede(j, q)
           \/ \E j \in Janitor : CrashJanitor(j)
           \/ \E u \in Resolver, q \in Prompt : ReadForAnswer(u, q)
           \/ \E q \in Prompt : Lapse(q) \/ Overdue(q)
           \/ UNCHANGED vars
  BY <1>1, <1>6 DEF Hook, HookFails, DropTaken, Sweep, Supersede, CrashJanitor, ReadForAnswer,
     Lapse, Overdue, row, vars
<1> QED
  BY <1>2, <1>3, <1>4, <1>5, <1>6 DEF Next, RunStep, TakerStep

\* A run that waits or resumes finds no claim on a row of its own that it did not
\* make: only the owner claims, and only a row just answered is handed over.
LEMMA FreshStep == ASSUME EInv, [Next]_vars PROVE FreshOK'
<1> USE DEF EInv, TInv
<1>1. ASSUME NEW r \in Run, NEW p \in Prompt, pc'[r] \in Waits \cup Resuming,
             owner'[p] = r, status'[p] \in {"executing", "done"}
      PROVE  owner[p] = r /\ status[p] \in {"executing", "done"}
  <2>1. owner[p] = r
    BY <1>1, OwnerStep
  <2>2. QED BY <1>1, <2>1, ClaimStep
<1>2. ASSUME NEW r \in Run, pc'[r] \in Waits, owner'[at'[r]] = r,
             status'[at'[r]] \in {"executing", "done"}
      PROVE  FALSE
  <2>1. CASE pc[r] \in Waits /\ at'[r] = at[r]
    <3>1. at[r] \in Prompt
      BY <2>1 DEF PlaceOK, Placed
    <3>2. QED BY <1>1, <1>2, <2>1, <3>1 DEF FreshOK
  <2>2. CASE Create(r)
    BY <1>2, <2>2 DEF Create, PlaceOK, TypeOK
  <2>3. CASE Build(r)
    <3>1. pc[r] = "building" /\ at'[r] = res[r] /\ UNCHANGED <<status, owner>>
      BY <1>2, <2>3 DEF Build, Goto, TypeOK, Waits, PlaceOK, row
    <3>2. QED BY <1>2, <3>1 DEF FreshOK, Resuming
  <2>4. QED BY <1>2, <2>1, <2>2, <2>3, ComesStep DEF Comes
<1>3. ASSUME NEW r \in Run, pc'[r] \in Resuming, owner'[res'[r]] = r,
             status'[res'[r]] \in {"executing", "done"}
      PROVE  FALSE
  <2>1. pc[r] \in Resuming /\ res'[r] = res[r]
    BY <1>3, ComesStep DEF Comes
  <2>2. res[r] \in Prompt
    BY <2>1 DEF PlaceOK, Resuming
  <2>3. QED BY <1>1, <1>3, <2>1, <2>2 DEF FreshOK
<1> QED
  BY <1>2, <1>3 DEF FreshOK

\* The invariant behind EffectOnce, kept by every step.
LEMMA EStep == ASSUME EInv, [Next]_vars PROVE EInv'
  BY TypeStep, PlaceStep, MovesStep, ActStep, FreshStep DEF EInv

LEMMA EInit == Init => EInv
<1>1. Init => TypeOK
  BY InitType
<1>2. Init => ReadOK /\ PlaceOK /\ MovesOK
  BY PromptAssumption DEF Init, ReadOK, PlaceOK, MovesOK, IdleJob, Placed, Waits, Claims
<1>3. Init => ActOK /\ FreshOK
  BY DEF Init, ActOK, FreshOK, Granted, Claims, Waits, Resuming
<1> QED BY <1>1, <1>2, <1>3 DEF EInv, TInv

\* Whoever resumes a run, however often its prompt changes owners, however many
\* runs crash: the side effect an answer authorizes runs at most once, and only
\* for an approving answer (Consume's compare-and-set).
THEOREM EffectOnceHolds == Spec => []EffectOnce
<1>1. Init => EInv
  BY EInit
<1>2. EInv /\ [Next]_vars => EInv'
  BY EStep
<1>3. EInv => EffectOnce
  <2>1. ASSUME EInv, NEW p \in Prompt
        PROVE  effects[p] <= 1 /\ (effects[p] = 1 => answer[p] \in Approving)
    <3>1. effects[p] \in Nat /\ (effects[p] # 0 => effects[p] = 1 /\ answer[p] \in Approving)
      BY <2>1 DEF EInv, TInv, TypeOK, ActOK
    <3>2. QED BY <3>1
  <2>2. QED BY <2>1 DEF EffectOnce
<1> QED
  BY <1>1, <1>2, <1>3, PTL DEF Spec

-----------------------------------------------------------------------------
(* AcceptedIsActedOn.  Resolve works on one prompt, the one it read; once   *)
(* an answer is recorded the row takes no other.                            *)

\* A call that has read its row has no takeover of its own going on.
CallOK == \A u \in Resolver :
    /\ verdict[u] \in {"reading", "retrying", "accepted", "rejected"} => job[u].pc = "idle"
    /\ verdict[u] = "accepted" => answer[job[u].p] = u /\ status[job[u].p] \in Answered

\* A call's record stays as it is while others step, and once it was accepted.
LEMMA CallStays ==
    ASSUME EInv, CallOK, [Next]_vars, NEW u \in Resolver,
           ~ResolveStep(u), \A p \in Prompt : ~ReadForAnswer(u, p)
    PROVE  /\ verdict'[u] = verdict[u]
           /\ job[u].pc = "idle" => job'[u] = job[u]
<1> DEFINE Stays == /\ verdict'[u] = verdict[u]
                    /\ job[u].pc = "idle" => job'[u] = job[u]
<1> USE DEF EInv, TInv
<1>0. u \in Taker /\ u \notin Janitor /\ job \in [Taker -> Jobs] /\ DOMAIN verdict = Resolver
  BY PromptAssumption DEF Taker, TypeOK, Jobs
<1>1. CASE UNCHANGED <<job, verdict>>
  BY <1>1
<1>2. ASSUME NEW t \in Taker, TakerStep(t) PROVE Stays
  BY <1>0, <1>2 DEF TakerStep, TakeOver, Hook, HookFails, DropTaken
<1>3. ASSUME NEW j \in Janitor, NEW p \in Prompt, Sweep(j, p) \/ Supersede(j, p) PROVE Stays
  BY <1>0, <1>3 DEF Sweep, Supersede, StartJob, StartReapPending
<1>4. ASSUME NEW j \in Janitor, CrashJanitor(j) PROVE Stays
  BY <1>0, <1>4 DEF CrashJanitor
<1>5. ASSUME NEW v \in Resolver, v # u,
             ResolveStep(v) \/ \E p \in Prompt : ReadForAnswer(v, p)
      PROVE  Stays
  BY <1>0, <1>5 DEF ResolveStep, ReadForAnswer, Reread, AnswerSuspended, AnswerPending,
     StartReapPending, StartJob
<1>6. ASSUME NEW r \in Run, \/ RunStep(r) \/ Renew(r) \/ CloseUnconfirmed(r)
                            \/ ConsumeFails(r) \/ ClaimUnconfirmed(r) \/ Crash(r)
                            \/ \E p \in Prompt : SaveState(r, p) \/ RaisePlain(r, p)
      PROVE  Stays
  BY <1>1, <1>6 DEF RunStep, Create, Emit, Notice, SuspendWait, CloseWait, EmitFails, LeaveWait, DropState, Consume,
     Confirm, RunTool, MarkExecuted, AfterWait, Finish, Settle, Build, WrapUp, Abandon,
     CloseAbandoned, Renew, CloseUnconfirmed, ConsumeFails, ClaimUnconfirmed, Crash, SaveState,
     RaisePlain
<1>7. CASE UNCHANGED vars \/ \E p \in Prompt : Lapse(p) \/ Overdue(p)
  BY <1>1, <1>7 DEF vars, Lapse, Overdue
<1> QED BY <1>2, <1>3, <1>4, <1>5, <1>6, <1>7 DEF Next

LEMMA CallStep == ASSUME EInv, CallOK, [Next]_vars PROVE CallOK'
<1> USE DEF EInv, TInv
<1> SUFFICES ASSUME NEW u \in Resolver
    PROVE  /\ verdict'[u] \in {"reading", "retrying", "accepted", "rejected"} => job'[u].pc = "idle"
           /\ verdict'[u] = "accepted" => answer'[job'[u].p] = u /\ status'[job'[u].p] \in Answered
  BY DEF CallOK
<1>0. u \in Taker /\ job \in [Taker -> Jobs] /\ DOMAIN verdict = Resolver
  BY DEF Taker, TypeOK, Jobs
<1>1. \A p : RowRead(p).pc = "idle"
  BY DEF RowRead, IdleJob
<1>2. CASE ~ResolveStep(u) /\ \A p \in Prompt : ~ReadForAnswer(u, p)
  <2>1. /\ verdict'[u] = verdict[u]
        /\ job[u].pc = "idle" => job'[u] = job[u]
    BY <1>2, CallStays
  <2>2. CASE verdict[u] = "accepted"
    <3>1. job'[u] = job[u] /\ job[u].p \in Prompt /\ job[u].pc = "idle"
      BY <2>1, <2>2 DEF CallOK, ReadOK
    <3> QED BY <2>1, <2>2, <3>1, RowStep DEF CallOK
  <2> QED BY <2>1, <2>2 DEF CallOK
<1>3. ASSUME NEW p \in Prompt, ReadForAnswer(u, p) PROVE
        /\ verdict'[u] \in {"reading", "retrying", "accepted", "rejected"} => job'[u].pc = "idle"
        /\ verdict'[u] # "accepted"
  <2>1. CASE verdict' = [verdict EXCEPT ![u] = "reaping"]
    BY <1>0, <2>1
  <2>2. CASE verdict' = [verdict EXCEPT ![u] = "reading"] /\ job' = [job EXCEPT ![u] = RowRead(p)]
    BY <1>0, <1>1, <2>2
  <2> QED BY <1>3, <2>1, <2>2 DEF ReadForAnswer
<1>4. CASE Reread(u)
  <2>1. CASE job' = job /\ verdict' = [verdict EXCEPT ![u] = "rejected"]
    BY <1>0, <1>4, <2>1 DEF Reread
  <2>2. CASE verdict' = [verdict EXCEPT ![u] = "reading"] /\ job' = [job EXCEPT ![u] = RowRead(job[u].p)]
    BY <1>0, <1>1, <2>2
  <2> QED BY <1>4, <2>1, <2>2 DEF Reread
<1>5. CASE AnswerSuspended(u)
  <2>1. job[u].p \in Prompt /\ job' = job /\ job[u].pc = "idle"
    BY <1>5 DEF AnswerSuspended, ReadOK, CallOK
  <2>2. CASE verdict' = [verdict EXCEPT ![u] = "retrying"]
    BY <1>0, <2>1, <2>2
  <2>3. CASE /\ status' = [status EXCEPT ![job[u].p] = "answered"]
             /\ answer' = [answer EXCEPT ![job[u].p] = u]
    BY <2>1, <2>3 DEF TypeOK, Answered
  <2> QED BY <1>5, <2>2, <2>3 DEF AnswerSuspended
<1>6. CASE AnswerPending(u)
  <2>1. job[u].p \in Prompt /\ job' = job /\ job[u].pc = "idle"
    BY <1>6 DEF AnswerPending, ReadOK, CallOK
  <2>2. CASE verdict' = [verdict EXCEPT ![u] = "rejected"]
    BY <1>0, <2>1, <2>2
  <2>3. CASE /\ status' = [status EXCEPT ![job[u].p] = "answered"]
             /\ answer' = [answer EXCEPT ![job[u].p] = u]
    BY <2>1, <2>3 DEF TypeOK, Answered
  <2> QED BY <1>6, <2>2, <2>3 DEF AnswerPending
<1> QED BY <1>2, <1>3, <1>4, <1>5, <1>6 DEF ResolveStep

\* A user told that an answer was recorded is the one whose answer the run gets,
\* however Resolve calls, takeovers and the waiting run interleave.
THEOREM AcceptedIsActedOnHolds == Spec => []AcceptedIsActedOn
<1>1. Init => EInv /\ CallOK
  BY EInit DEF Init, CallOK
<1>2. (EInv /\ CallOK) /\ [Next]_vars => (EInv /\ CallOK)'
  BY EStep, CallStep
<1>3. EInv /\ CallOK => AcceptedIsActedOn
  BY DEF CallOK, AcceptedIsActedOn
<1> QED BY <1>1, <1>2, <1>3, PTL DEF Spec

-----------------------------------------------------------------------------
(* RefinesContract.  A row moves one phase at a time; the permission to act *)
(* comes with the claim of an approving answer and is used or lost by the   *)
(* one run that holds it.                                                   *)

Stutters == UNCHANGED <<Phases, Grants, effects>>
Refines  == Stutters \/ Contract!Next

Ended == {"done", "failed", "canceled", "expired", "superseded"}

\* The moves of a row that its phases allow.
Legal(f, s) ==
    \/ f = "none" /\ s = "pending"
    \/ f \in Open /\ s \in Open \cup {"answered"}
    \/ f = "answered" /\ s = "executing"
    \/ f \in Open \cup {"answered", "executing"} /\ s \in Ended

LEMMA PhaseValues ==
    /\ PhaseOf("none") = "unasked" /\ PhaseOf("answered") = "answered"
    /\ PhaseOf("executing") = "claimed"
    /\ \A s \in Open : PhaseOf(s) = "open"
    /\ \A s \in Ended : PhaseOf(s) = "closed"
  BY DEF PhaseOf, Open, Ended

LEMMA PhaseMoves ==
    ASSUME TypeOK, NEW p \in Prompt, NEW s, status' = [status EXCEPT ![p] = s]
    PROVE  Phases' = [Phases EXCEPT ![p] = PhaseOf(s)] /\ Phases[p] = PhaseOf(status[p])
<1>1. \A q \in Prompt : status'[q] = IF q = p THEN s ELSE status[q]
  BY DEF TypeOK
<1>2. Phases' = [q \in Prompt |-> PhaseOf(status'[q])]
  BY DEF Phases
<1>3. Phases = [q \in Prompt |-> PhaseOf(status[q])]
  BY DEF Phases
<1> QED BY <1>1, <1>2, <1>3

LEMMA PhasesStay == ASSUME status' = status PROVE Phases' = Phases
  BY DEF Phases

\* A move that leaves the permissions alone.
LEMMA LegalMove ==
    ASSUME TypeOK, NEW p \in Prompt, NEW s, Legal(status[p], s),
           status' = [status EXCEPT ![p] = s], Grants' = Grants, effects' = effects
    PROVE  Refines
<1> DEFINE f == status[p]
<1>1. Phases' = [Phases EXCEPT ![p] = PhaseOf(s)] /\ Phases[p] = PhaseOf(f)
  BY PhaseMoves
<1>2. DOMAIN Phases = Prompt
  BY DEF Phases
<1> HIDE DEF f
<1>3. CASE f = "none" /\ s = "pending"
  <2>1. Phases[p] = "unasked" /\ Phases' = [Phases EXCEPT ![p] = "open"]
    BY <1>1, <1>3, PhaseValues DEF Open
  <2>2. Contract!Ask(p)
    BY <2>1 DEF Contract!Ask, Contract!Move
  <2> QED BY <2>2 DEF Refines, Contract!Next
<1>4. CASE f \in Open /\ s \in Open
  <2>1. Phases' = [Phases EXCEPT ![p] = "open"] /\ Phases[p] = "open"
    BY <1>1, <1>4, PhaseValues
  <2>2. Phases' = Phases
    BY <1>2, <2>1 DEF Phases
  <2> QED BY <2>2 DEF Refines, Stutters
<1>5. CASE f \in Open /\ s = "answered"
  <2>1. Phases[p] = "open" /\ Phases' = [Phases EXCEPT ![p] = "answered"]
    BY <1>1, <1>5, PhaseValues
  <2>2. Contract!Answer(p)
    BY <2>1 DEF Contract!Answer, Contract!Move
  <2> QED BY <2>2 DEF Refines, Contract!Next
<1>6. CASE f = "answered" /\ s = "executing"
  <2>1. Phases[p] = "answered" /\ Phases' = [Phases EXCEPT ![p] = "claimed"]
    BY <1>1, <1>6, PhaseValues
  <2>2. Contract!Claim(p)
    BY <2>1 DEF Contract!Claim, Contract!Move
  <2> QED BY <2>2 DEF Refines, Contract!Next
<1>7. CASE f \in Open \cup {"answered", "executing"} /\ s \in Ended
  <2>1. Phases[p] \in {"open", "answered", "claimed"} /\ Phases' = [Phases EXCEPT ![p] = "closed"]
    BY <1>1, <1>7, PhaseValues
  <2>2. Contract!Close(p)
    BY <2>1 DEF Contract!Close, Contract!Move
  <2> QED BY <2>2 DEF Refines, Contract!Next
<1> QED BY <1>3, <1>4, <1>5, <1>6, <1>7 DEF Legal, f

LEMMA NoMove == ASSUME status' = status, Grants' = Grants, effects' = effects PROVE Refines
  BY PhasesStay DEF Refines, Stutters

\* The permissions stay where no run gains or loses one.
LEMMA GrantsStay ==
    ASSUME \A q \in Run : Granted(q)' <=> Granted(q),
           \A q \in Run : Granted(q) => at'[q] = at[q]
    PROVE  Grants' = Grants
<1>1. \A p \in Prompt : (\E q \in Run : Granted(q)' /\ at'[q] = p) <=> (\E q \in Run : Granted(q) /\ at[q] = p)
  OBVIOUS
<1> QED BY <1>1 DEF Grants

\* Only one run holds the permission of a prompt, so the prompt loses it with the run.
LEMMA GrantEnds ==
    ASSUME EInv, NEW r \in Run, Granted(r), ~Granted(r)', at' = at,
           \A q \in Run : q # r => (Granted(q)' <=> Granted(q))
    PROVE  /\ at[r] \in Prompt /\ Grants[at[r]]
           /\ Grants' = [Grants EXCEPT ![at[r]] = FALSE]
<1>1. \A q \in Run : Granted(q) => pc[q] \in Claims /\ at[q] \in Prompt
  BY DEF Granted, Claims, EInv, PlaceOK, Placed
<1>2. \A q \in Run : Granted(q) /\ at[q] = at[r] => q = r
  BY <1>1 DEF EInv, ActOK
<1>3. \A p \in Prompt : (\E q \in Run : Granted(q)' /\ at'[q] = p) <=>
          (p # at[r] /\ \E q \in Run : Granted(q) /\ at[q] = p)
  BY <1>2
<1>4. Grants' = [p \in Prompt |-> p # at[r] /\ \E q \in Run : Granted(q) /\ at[q] = p]
  BY <1>3 DEF Grants
<1> QED BY <1>1, <1>4 DEF Grants

LEMMA GrantBegins ==
    ASSUME NEW r \in Run, at[r] \in Prompt, Granted(r)', at' = at,
           \A q \in Run : q # r => (Granted(q)' <=> Granted(q))
    PROVE  Grants' \in {Grants, [Grants EXCEPT ![at[r]] = TRUE]}
<1>1. \A p \in Prompt : (\E q \in Run : Granted(q)' /\ at'[q] = p) <=>
          (p = at[r] \/ \E q \in Run : Granted(q) /\ at[q] = p)
  OBVIOUS
<1>2. Grants' = [p \in Prompt |-> p = at[r] \/ \E q \in Run : Granted(q) /\ at[q] = p]
  BY <1>1 DEF Grants
<1> QED BY <1>2 DEF Grants

\* The steps of a run leave what other runs may do.
LEMMA OthersGrant ==
    ASSUME TypeOK, NEW r \in Run, NEW l, Goto(r, l), at' = at, answer' = answer
    PROVE  /\ \A q \in Run : q # r => (Granted(q)' <=> Granted(q))
           /\ Granted(r)' <=> l = "acting" \/ (l = "claimed" /\ Approved(at[r]))
<1>1. \A q \in Run : pc'[q] = IF q = r THEN l ELSE pc[q]
  BY DEF Goto, TypeOK
<1> QED BY <1>1 DEF Granted, Approved

\* A run without permission that does not get it.
LEMMA PlainRun ==
    ASSUME TypeOK, NEW r \in Run, NEW l, Goto(r, l), at' = at, answer' = answer,
           pc[r] \notin Claims, l \notin Claims
    PROVE  Grants' = Grants
  BY OthersGrant, GrantsStay DEF Granted, Claims

\* The claim that a compare-and-set wins: of an approving answer with the
\* permission, of any other without.
LEMMA ClaimWins ==
    ASSUME EInv, NEW r \in Run, NEW l, Goto(r, l), at' = at, answer' = answer, effects' = effects,
           at[r] \in Prompt, pc[r] \notin Claims, status[at[r]] = "answered",
           status' = [status EXCEPT ![at[r]] = ClaimOf(at[r])],
           l \in {"acting", "claimed"} \/ ~Approved(at[r]), l = "acting" => Approved(at[r])
    PROVE  Refines
<1>0. TypeOK
  BY DEF EInv, TInv
<1>1. CASE Approved(at[r])
  <2>1. Granted(r)' /\ \A q \in Run : q # r => (Granted(q)' <=> Granted(q))
    BY <1>0, <1>1, OthersGrant
  <2>2. Grants' \in {Grants, [Grants EXCEPT ![at[r]] = TRUE]}
    BY <2>1, GrantBegins
  <2>3. status' = [status EXCEPT ![at[r]] = "executing"]
    BY <1>1 DEF ClaimOf
  <2>4. /\ Phases[at[r]] = PhaseOf(status[at[r]])
        /\ Phases' = [Phases EXCEPT ![at[r]] = PhaseOf("executing")]
    BY <1>0, <2>3, PhaseMoves
  <2>5. Contract!Claim(at[r])
    BY <2>2, <2>4, PhaseValues DEF Contract!Claim, Contract!Move
  <2> QED BY <2>5 DEF Refines, Contract!Next
<1>2. CASE ~Approved(at[r])
  <2>1. ~Granted(r)' /\ ~Granted(r) /\ \A q \in Run : q # r => (Granted(q)' <=> Granted(q))
    BY <1>0, <1>2, OthersGrant DEF Granted, Claims
  <2>2. Grants' = Grants
    BY <2>1, GrantsStay
  <2>3. status' = [status EXCEPT ![at[r]] = "done"] /\ Legal(status[at[r]], "done")
    BY <1>2 DEF ClaimOf, Legal, Ended
  <2> QED BY <1>0, <2>2, <2>3, LegalMove
<1> QED BY <1>1, <1>2

\* A run that has the permission and goes on without using it.
LEMMA GivesUp ==
    ASSUME EInv, NEW r \in Run, NEW l, Goto(r, l), at' = at, answer' = answer, effects' = effects,
           l \notin Claims, status' = status
    PROVE  Refines
<1>0. TypeOK
  BY DEF EInv, TInv
<1>1. ~Granted(r)' /\ \A q \in Run : q # r => (Granted(q)' <=> Granted(q))
  BY <1>0, OthersGrant DEF Claims
<1>2. CASE Granted(r)
  <2>1. at[r] \in Prompt /\ Grants[at[r]] /\ Grants' = [Grants EXCEPT ![at[r]] = FALSE]
    BY <1>1, <1>2, GrantEnds
  <2>2. Contract!Lose(at[r])
    BY <2>1, PhasesStay DEF Contract!Lose
  <2> QED BY <2>1, <2>2 DEF Refines, Contract!Next
<1>3. CASE ~Granted(r)
  <2>1. Grants' = Grants
    BY <1>1, <1>3, GrantsStay
  <2> QED BY <2>1, NoMove
<1> QED BY <1>2, <1>3

\* A run that closes its own prompt as failed.
LEMMA ClosesOwn ==
    ASSUME EInv, NEW r \in Run, NEW l, Goto(r, l), at' = at, answer' = answer, effects' = effects,
           l \notin Claims, at[r] \in Prompt, status[at[r]] \in {"answered", "executing"},
           status' = [status EXCEPT ![at[r]] = "failed"]
    PROVE  Refines
<1>0. TypeOK
  BY DEF EInv, TInv
<1>1. ~Granted(r)' /\ \A q \in Run : q # r => (Granted(q)' <=> Granted(q))
  BY <1>0, OthersGrant DEF Claims
<1>2. Grants' \in {Grants, [Grants EXCEPT ![at[r]] = FALSE]}
  <2>1. CASE Granted(r)
    BY <1>1, <2>1, GrantEnds
  <2>2. CASE ~Granted(r)
    BY <1>1, <2>2, GrantsStay
  <2> QED BY <2>1, <2>2
<1>3. /\ Phases[at[r]] = PhaseOf(status[at[r]])
      /\ Phases' = [Phases EXCEPT ![at[r]] = PhaseOf("failed")]
  BY <1>0, PhaseMoves
<1>4. Contract!Close(at[r])
  BY <1>2, <1>3, PhaseValues DEF Ended, Contract!Close, Contract!Move
<1> QED BY <1>4 DEF Refines, Contract!Next

LEMMA ConsumeRefines == ASSUME EInv, NEW r \in Run, Consume(r) PROVE Refines
<1>1. pc[r] = "returned" /\ at' = at /\ answer' = answer /\ effects' = effects /\ at[r] \in Prompt
  BY DEF Consume, EInv, PlaceOK, Placed, Waits
<1>2. CASE /\ CAS(at[r], {"answered"}, ClaimOf(at[r]), r)
           /\ Goto(r, IF Approved(at[r]) THEN "acting" ELSE "working")
  <2>1. CASE Approved(at[r])
    BY <1>1, <1>2, <2>1, ClaimWins DEF CAS, Claims
  <2>2. CASE ~Approved(at[r])
    BY <1>1, <1>2, <2>2, ClaimWins DEF CAS, Claims
  <2> QED BY <2>1, <2>2
<1>3. CASE Goto(r, Ends(r)) /\ status' = status
  BY <1>1, <1>3, GivesUp DEF Ends, Claims
<1> QED BY <1>2, <1>3 DEF Consume

LEMMA ClaimUnconfirmedRefines == ASSUME EInv, NEW r \in Run, ClaimUnconfirmed(r) PROVE Refines
<1>1. pc[r] = "returned" /\ at' = at /\ answer' = answer /\ effects' = effects /\ at[r] \in Prompt
  BY DEF ClaimUnconfirmed, EInv, PlaceOK, Placed, Waits
<1>2. CASE CAS(at[r], {"answered"}, ClaimOf(at[r]), r) /\ Goto(r, "claimed")
  BY <1>1, <1>2, ClaimWins DEF CAS, Claims
<1>3. CASE Goto(r, "unsure") /\ status' = status
  BY <1>1, <1>3, GivesUp DEF Claims
<1> QED BY <1>2, <1>3 DEF ClaimUnconfirmed

LEMMA ConfirmRefines == ASSUME EInv, NEW r \in Run, Confirm(r) PROVE Refines
<1> DEFINE l == IF Approved(at[r]) THEN "acting" ELSE "working"
<1>1. /\ pc[r] \in {"unsure", "claimed"} /\ at' = at /\ answer' = answer /\ effects' = effects
      /\ at[r] \in Prompt
  BY DEF Confirm, EInv, PlaceOK, Placed, Waits, Claims
<1>2. /\ Approved(at[r]) => l = "acting"
      /\ ~Approved(at[r]) => l = "working"
  OBVIOUS
<1> HIDE DEF l
<1>3. CASE CAS(at[r], {"answered"}, ClaimOf(at[r]), r) /\ Goto(r, l)
  <2>1. pc[r] = "unsure" /\ pc[r] \notin Claims
    BY <1>1, <1>3 DEF CAS, EInv, ActOK, Claims, Claimed
  <2> QED BY <1>1, <1>2, <1>3, <2>1, ClaimWins DEF CAS
<1>4. CASE IsMine(r, at[r]) /\ status' = status /\ Goto(r, l)
  <2>1. pc[r] = "claimed"
    BY <1>1, <1>4 DEF IsMine, ClaimOf, EInv, FreshOK, Waits
  <2>2. (Granted(r)' <=> Granted(r)) /\ \A q \in Run : q # r => (Granted(q)' <=> Granted(q))
    BY <1>1, <1>2, <1>4, <2>1, OthersGrant DEF Granted, EInv, TInv
  <2>3. Grants' = Grants
    BY <1>1, <2>2, GrantsStay
  <2> QED BY <1>1, <1>4, <2>3, NoMove
<1>5. CASE Goto(r, Ends(r)) /\ status' = status
  BY <1>1, <1>5, GivesUp DEF Ends, Claims
<1>6. CASE CAS(at[r], {"answered", "executing"}, "failed", r) /\ Goto(r, "working")
  BY <1>1, <1>6, ClosesOwn DEF CAS, Claims
<1>7. CASE status' = status /\ Goto(r, "working")
  BY <1>1, <1>7, GivesUp DEF Claims
<1> QED BY <1>3, <1>4, <1>5, <1>6, <1>7 DEF Confirm, l

LEMMA RunToolRefines == ASSUME EInv, NEW r \in Run, RunTool(r) PROVE Refines
<1>1. /\ Granted(r) /\ Goto(r, "marking") /\ at' = at /\ answer' = answer /\ status' = status
      /\ effects' = [effects EXCEPT ![at[r]] = @ + 1]
  BY DEF RunTool, Granted, row
<1>2. ~Granted(r)' /\ \A q \in Run : q # r => (Granted(q)' <=> Granted(q))
  BY <1>1, OthersGrant DEF EInv, TInv
<1>3. at[r] \in Prompt /\ Grants[at[r]] /\ Grants' = [Grants EXCEPT ![at[r]] = FALSE]
  BY <1>1, <1>2, GrantEnds
<1>4. Contract!Act(at[r])
  BY <1>1, <1>3, PhasesStay DEF Contract!Act
<1> QED BY <1>3, <1>4 DEF Refines, Contract!Next

\* The other steps of a run that move its row.
LEMMA OwnRowRefines ==
    ASSUME EInv, NEW r \in Run,
           \/ Create(r) \/ SuspendWait(r) \/ CloseWait(r) \/ EmitFails(r)
           \/ MarkExecuted(r) \/ WrapUp(r) \/ Abandon(r)
    PROVE  Refines
<1> USE DEF EInv, TInv
<1>1. at' = at /\ answer' = answer /\ effects' = effects
  BY DEF Create, SuspendWait, CloseWait, EmitFails, MarkExecuted, WrapUp, Abandon
<1>2. pc[r] \notin Claims
  BY DEF Create, SuspendWait, CloseWait, EmitFails, MarkExecuted, WrapUp, Abandon, Claims
<1>3. \E l \in {"emitting", "leaving", "working", "gone", "abandoning", "closing"} : Goto(r, l)
  BY DEF Create, SuspendWait, CloseWait, EmitFails, MarkExecuted, WrapUp, Abandon, Leave
<1>4. Grants' = Grants
  BY <1>1, <1>2, <1>3, PlainRun DEF Claims
<1>5. CASE Create(r)
  <2>1. at[r] \in Prompt /\ status[at[r]] = "none" /\ status' = [status EXCEPT ![at[r]] = "pending"]
    BY <1>5 DEF Create, PlaceOK
  <2> QED BY <1>1, <1>4, <2>1, LegalMove DEF Legal
<1>6. CASE SuspendWait(r)
  <2>1. /\ at[r] \in Prompt /\ status[at[r]] = "pending"
        /\ status' = [status EXCEPT ![at[r]] = "suspended"]
    BY <1>6 DEF SuspendWait, CAS, PlaceOK, Placed, Waits
  <2> QED BY <1>1, <1>4, <2>1, LegalMove DEF Legal, Open
<1>7. CASE CloseWait(r)
  <2>1. PICK to \in {"expired", "canceled"} : CAS(at[r], {"pending"}, to, r)
    BY <1>7 DEF CloseWait
  <2>2. at[r] \in Prompt
    BY <1>7 DEF CloseWait, PlaceOK, Placed, Waits
  <2>3. Legal(status[at[r]], to) /\ status' = [status EXCEPT ![at[r]] = to]
    BY <2>1 DEF CAS, Legal, Open, Ended
  <2> QED BY <1>1, <1>4, <2>2, <2>3, LegalMove
<1>8. CASE MarkExecuted(r)
  <2>1. at[r] \in Prompt
    BY <1>8 DEF MarkExecuted, PlaceOK, Placed
  <2>2. CASE status[at[r]] = "executing"
    <3>1. status' = [status EXCEPT ![at[r]] = "done"]
      BY <1>8, <2>2 DEF MarkExecuted
    <3> QED BY <1>1, <1>4, <2>1, <2>2, <3>1, LegalMove DEF Legal, Ended
  <2>3. CASE status[at[r]] # "executing"
    <3>1. status' = status
      BY <1>8, <2>1, <2>3 DEF MarkExecuted, TypeOK
    <3> QED BY <1>1, <1>4, <3>1, NoMove
  <2> QED BY <2>2, <2>3
<1>9. CASE WrapUp(r)
  <2>1. CASE status' = status
    BY <1>1, <1>4, <2>1, NoMove
  <2>2. CASE status[res[r]] = "answered" /\ status' = [status EXCEPT ![res[r]] = "failed"]
    <3>1. CASE res[r] \in Prompt
      BY <1>1, <1>4, <2>2, <3>1, LegalMove DEF Legal, Ended
    <3>2. CASE res[r] \notin Prompt
      BY <2>1, <2>2, <3>2 DEF TypeOK
    <3> QED BY <3>1, <3>2
  <2> QED BY <1>9, <2>1, <2>2 DEF WrapUp
<1>10. CASE Abandon(r)
  <2>1. CASE status' = status
    BY <1>1, <1>4, <2>1, NoMove
  <2>2. CASE res[r] \in Prompt /\ status[res[r]] \in {"answered", "executing"}
    <3>1. status' = [status EXCEPT ![res[r]] = "failed"]
      BY <1>10, <2>2 DEF Abandon
    <3> QED BY <1>1, <1>4, <2>2, <3>1, LegalMove DEF Legal, Ended
  <2>3. CASE ~(res[r] \in Prompt /\ status[res[r]] \in {"answered", "executing"})
    <3>1. status' = status
      BY <1>10, <2>3 DEF Abandon, TypeOK
    <3> QED BY <2>1, <3>1
  <2> QED BY <2>2, <2>3
<1>11. CASE EmitFails(r)
  <2>1. CASE status' = status
    BY <1>1, <1>4, <2>1, NoMove
  <2>2. CASE CAS(at[r], {"pending"}, "canceled", r)
    <3>1. /\ at[r] \in Prompt /\ status[at[r]] = "pending"
          /\ status' = [status EXCEPT ![at[r]] = "canceled"]
      BY <1>11, <2>2 DEF EmitFails, CAS, PlaceOK, Placed, Waits
    <3> QED BY <1>1, <1>4, <3>1, LegalMove DEF Legal, Open, Ended
  <2> QED BY <1>11, <2>1, <2>2 DEF EmitFails
<1> QED BY <1>5, <1>6, <1>7, <1>8, <1>9, <1>10, <1>11

\* The steps of a run that move no row and claim nothing.
LEMMA QuietRunRefines ==
    ASSUME EInv, NEW r \in Run,
           \/ Emit(r) \/ Notice(r) \/ LeaveWait(r) \/ DropState(r) \/ AfterWait(r) \/ Finish(r) \/ Settle(r)
           \/ Build(r) \/ CloseAbandoned(r) \/ Renew(r) \/ CloseUnconfirmed(r) \/ ConsumeFails(r)
           \/ Crash(r) \/ \E p \in Prompt : SaveState(r, p) \/ RaisePlain(r, p)
    PROVE  Refines
<1> USE DEF EInv, TInv
<1>1. status' = status /\ answer' = answer /\ effects' = effects
  BY DEF Emit, Notice, LeaveWait, DropState, AfterWait, Finish, Settle, Build, CloseAbandoned, Renew,
     CloseUnconfirmed, ConsumeFails, Crash, SaveState, RaisePlain, row
<1>2. CASE Renew(r)
  <2>1. pc' = pc /\ at' = at
    BY <1>2 DEF Renew, run
  <2>2. Grants' = Grants
    BY <1>1, <2>1, GrantsStay DEF Granted, Approved
  <2> QED BY <1>1, <2>2, NoMove
<1>3. CASE \/ Emit(r) \/ Notice(r) \/ LeaveWait(r) \/ DropState(r) \/ AfterWait(r) \/ Finish(r) \/ Settle(r)
           \/ CloseAbandoned(r) \/ CloseUnconfirmed(r) \/ ConsumeFails(r) \/ Crash(r)
  <2>1. at' = at
    BY <1>3 DEF Emit, Notice, LeaveWait, DropState, AfterWait, Finish, Settle, CloseAbandoned,
       CloseUnconfirmed, ConsumeFails, Crash
  <2>2. \E l : Goto(r, l) /\ l \notin Claims
    BY <1>3 DEF Emit, Notice, LeaveWait, DropState, AfterWait, Finish, Settle, CloseAbandoned,
       CloseUnconfirmed, ConsumeFails, Crash, Leave, Ends, Claims
  <2> QED BY <1>1, <2>1, <2>2, GivesUp
<1>4. ASSUME Build(r) \/ \E p \in Prompt : SaveState(r, p) \/ RaisePlain(r, p) PROVE Grants' = Grants
  <2>1. \A q \in Run : q # r => pc'[q] = pc[q] /\ at'[q] = at[q]
    BY <1>4 DEF Build, SaveState, RaisePlain, Goto, TypeOK
  <2>2. pc[r] \notin Claims /\ pc'[r] \notin Claims
    BY <1>4 DEF Build, SaveState, RaisePlain, Goto, TypeOK, Claims
  <2> QED BY <1>1, <2>1, <2>2, GrantsStay DEF Granted, Approved, Claims
<1> QED BY <1>1, <1>2, <1>3, <1>4, NoMove

\* Takeovers and Resolve do not touch what a run may do: an answer is recorded
\* before it is claimed.
LEMMA OthersRefine ==
    ASSUME EInv, [Next]_vars,
           \/ \E t \in Taker : TakerStep(t)
           \/ \E j \in Janitor, p \in Prompt : Sweep(j, p) \/ Supersede(j, p)
           \/ \E j \in Janitor : CrashJanitor(j)
           \/ \E u \in Resolver, p \in Prompt : ReadForAnswer(u, p)
           \/ \E u \in Resolver : ResolveStep(u)
           \/ \E p \in Prompt : Lapse(p) \/ Overdue(p)
           \/ UNCHANGED vars
    PROVE  Refines
<1> USE DEF EInv, TInv
<1>1. effects' = effects /\ at' = at
  BY DEF TakerStep, TakeOver, Hook, HookFails, DropTaken, Sweep, Supersede, CrashJanitor, ReadForAnswer,
     ResolveStep, Reread, AnswerSuspended, AnswerPending, Lapse, Overdue, vars, run
<1>2. \A q \in Run : pc'[q] = pc[q] \/ (pc[q] \notin Claims /\ pc'[q] \notin Claims)
  <2>1. CASE pc' = pc
    BY <2>1
  <2>2. ASSUME NEW r \in Run, pc[r] = "unborn", Goto(r, "settling")
        PROVE  \A q \in Run : pc'[q] = pc[q] \/ (pc[q] \notin Claims /\ pc'[q] \notin Claims)
    BY <2>2 DEF Goto, TypeOK, Claims
  <2>3. pc' = pc \/ \E r \in Run : pc[r] = "unborn" /\ Goto(r, "settling")
    BY DEF TakerStep, TakeOver, Hook, HookFails, DropTaken, Sweep, Supersede, CrashJanitor, ReadForAnswer,
       ResolveStep, Reread, AnswerSuspended, AnswerPending, Lapse, Overdue, vars, run
  <2> QED BY <2>1, <2>2, <2>3
<1>3. Grants' = Grants
  <2>1. ASSUME NEW q \in Run, pc[q] \in Claims PROVE answer'[at[q]] = answer[at[q]]
    BY <2>1, ClaimKept DEF PlaceOK, Placed, ActOK
  <2> QED BY <1>1, <1>2, <2>1, GrantsStay DEF Granted, Approved, Claims
<1>4. CASE status' = status
  BY <1>1, <1>3, <1>4, NoMove
<1>5. ASSUME NEW t \in Taker, TakeOver(t), status' # status PROVE Refines
  <2>1. /\ job[t].p \in Prompt /\ status[job[t].p] = job[t].from
        /\ status' = [status EXCEPT ![job[t].p] = job[t].to]
    BY <1>5 DEF TakeOver, MovesOK
  <2>2. Legal(job[t].from, job[t].to)
    BY <1>5 DEF TakeOver, MovesOK, Legal, Open, Ended
  <2> QED BY <1>1, <1>3, <2>1, <2>2, LegalMove
<1>6. ASSUME NEW u \in Resolver, ResolveStep(u), status' # status PROVE Refines
  <2>1. job[u].p \in Prompt /\ status[job[u].p] \in Open
        /\ status' = [status EXCEPT ![job[u].p] = "answered"]
    BY <1>6 DEF ResolveStep, Reread, AnswerSuspended, AnswerPending, TakesAnswer, ReadOK, Open, row
  <2> QED BY <1>1, <1>3, <2>1, LegalMove DEF Legal
<1>7. CASE \/ \E t \in Taker : Hook(t) \/ HookFails(t) \/ DropTaken(t)
           \/ \E j \in Janitor, p \in Prompt : Sweep(j, p) \/ Supersede(j, p)
           \/ \E j \in Janitor : CrashJanitor(j)
           \/ \E u \in Resolver, p \in Prompt : ReadForAnswer(u, p)
           \/ \E p \in Prompt : Lapse(p) \/ Overdue(p)
           \/ UNCHANGED vars
  <2>1. status' = status
    BY <1>7 DEF Hook, HookFails, DropTaken, Sweep, Supersede, CrashJanitor, ReadForAnswer, Lapse, Overdue,
       vars, row
  <2> QED BY <1>4, <2>1
<1> QED BY <1>4, <1>5, <1>6, <1>7 DEF TakerStep

LEMMA StepRefines == ASSUME EInv, [Next]_vars PROVE Refines
  BY ConsumeRefines, ClaimUnconfirmedRefines, ConfirmRefines, RunToolRefines, OwnRowRefines,
     QuietRunRefines, OthersRefine
  DEF Next, RunStep

LEMMA InitRefines == Init => Contract!Init
<1> SUFFICES ASSUME Init PROVE Contract!Init
  OBVIOUS
<1>1. \A p \in Prompt : PhaseOf(status[p]) = "unasked"
  BY PhaseValues DEF Init
<1>2. \A r \in Run : ~Granted(r)
  BY DEF Init, Granted
<1> QED BY <1>1, <1>2 DEF Init, Contract!Init, Phases, Grants

\* The prompt rows, with their owners, leases, takeovers and resumed runs, keep the
\* contract: one answer per prompt, one claim per answer, one effect per claim.
THEOREM ImplementsContract == Spec => RefinesContract
<1>1. Init => EInv
  BY EInit
<1>2. EInv /\ [Next]_vars => EInv'
  BY EStep
<1>3. EInv /\ [Next]_vars => [Contract!Next]_(Contract!vars)
  BY StepRefines DEF Refines, Stutters, Contract!vars
<1> QED BY <1>1, <1>2, <1>3, InitRefines, PTL DEF Spec, RefinesContract, Contract!Spec

-----------------------------------------------------------------------------
(* SoleDriver and SuspendedResumable, while the store confirms its writes   *)
(* and no run has strayed past a prompt it had lost.                        *)
(* One token goes round: it is with the run that generates the message or   *)
(* is about to, or with the prompt whose row is open.  A waiting run has    *)
(* handed it to its row, and gets it back only while it still owns the row. *)
Past == {"answered", "executing"} \cup Ended
Back == {"leaving", "dropping", "returned"}
InAwait == {"emitting", "waiting"}

Opened(p) == status[p] \in Open

Live(r) ==
    \/ Driving(r)
    \/ pc[r] \in InAwait /\ owner[at[r]] = r /\ ~Opened(at[r])
    \/ pc[r] \in Back /\ out[r] = "answered"
    \/ pc[r] \in Resuming

OneToken ==
    /\ \A r, q \in Run : Live(r) /\ Live(q) => r = q
    /\ \A p, q \in Prompt : Opened(p) /\ Opened(q) => p = q
    /\ \A r \in Run, p \in Prompt : ~(Live(r) /\ Opened(p))

\* No claim is in doubt; a run that comes back from its wait has an outcome; a
\* waiting run whose prompt was suspended does not own it any more.
CleanRun(r) ==
    /\ pc[r] \notin {"unsure", "claimed"}
    /\ pc[r] \in Back => out[r] # "none"
    /\ pc[r] = "dropping" => out[r] \notin {"suspended", "detached"}
    /\ pc[r] \in InAwait /\ status[at[r]] = "suspended" => owner[at[r]] # r

Tokens == OneToken /\ \A r \in Run : CleanRun(r)

\* Nobody comes to hold the token.
LEMMA NoneNew ==
    ASSUME OneToken, \A q \in Run : Live(q)' => Live(q),
           \A p \in Prompt : Opened(p)' => Opened(p)
    PROVE  OneToken'
  BY DEF OneToken

\* The run that held it hands it to the row of its prompt.
LEMMA RowTakes ==
    ASSUME OneToken, NEW r \in Run, NEW p \in Prompt, Live(r), ~Live(r)',
           \A q \in Run : q # r /\ Live(q)' => Live(q),
           \A x \in Prompt : x # p /\ Opened(x)' => Opened(x)
    PROVE  OneToken'
<1>1. \A q \in Run : ~Live(q)'
  BY DEF OneToken
<1>2. \A x \in Prompt : Opened(x)' => x = p
  BY DEF OneToken
<1> QED BY <1>1, <1>2 DEF OneToken

\* A row that leaves Open hands it to at most one run.
LEMMA RunTakes ==
    ASSUME OneToken, NEW r, NEW p \in Prompt, Opened(p), ~Opened(p)',
           \A q \in Run : q # r /\ Live(q)' => Live(q),
           \A x \in Prompt : Opened(x)' => Opened(x)
    PROVE  OneToken'
<1>1. \A x \in Prompt : ~Opened(x)'
  BY DEF OneToken
<1>2. \A q \in Run : Live(q)' => q = r
  BY DEF OneToken
<1> QED BY <1>1, <1>2 DEF OneToken

\* A run that does not step holds the token only as it did, unless it waits on a
\* row that leaves Open; and it stays clean.
LEMMA StandsStill ==
    ASSUME NEW q \in Run, CleanRun(q), pc'[q] = pc[q], at'[q] = at[q], out'[q] = out[q],
           pc[q] \in InAwait /\ owner'[at[q]] = q =>
              /\ owner[at[q]] = q
              /\ status'[at[q]] = "suspended" => status[at[q]] = "suspended"
    PROVE  /\ Live(q)' => Live(q) \/ (/\ pc[q] \in InAwait /\ owner[at[q]] = q
                                      /\ status[at[q]] \in Open /\ status'[at[q]] \notin Open)
           /\ CleanRun(q)'
<1>1. Live(q)' => Live(q) \/ (/\ pc[q] \in InAwait /\ owner[at[q]] = q
                              /\ status[at[q]] \in Open /\ status'[at[q]] \notin Open)
  BY DEF Live, Driving, Opened
<1>2. CleanRun(q)'
  BY DEF CleanRun, InAwait
<1> QED BY <1>1, <1>2

\* Steps of a run that leave every row's status and owner alone.
LEMMA QuietKeeps ==
    ASSUME EInv, Tokens, NEW r \in Run,
           \/ Emit(r) \/ Notice(r) \/ LeaveWait(r) \/ DropState(r) \/ AfterWait(r) \/ Finish(r) \/ Settle(r)
           \/ Build(r) \/ CloseAbandoned(r) \/ Renew(r) \/ ConsumeFails(r) \/ RunTool(r)
           \/ Crash(r) \/ \E p \in Prompt : SaveState(r, p) \/ RaisePlain(r, p)
    PROVE  Tokens'
<1> USE DEF EInv, TInv
<1>1. status' = status /\ owner' = owner
  BY DEF Emit, Notice, LeaveWait, DropState, AfterWait, Finish, Settle, Build, CloseAbandoned, Renew,
     ConsumeFails, RunTool, Crash, SaveState, RaisePlain, row
<1>2. \A q \in Run : q # r => pc'[q] = pc[q] /\ at'[q] = at[q] /\ out'[q] = out[q]
  <2>1. CASE Emit(r) \/ Notice(r) \/ LeaveWait(r) \/ DropState(r) \/ AfterWait(r) \/ Finish(r) \/ Settle(r)
    BY <2>1 DEF Emit, Notice, LeaveWait, DropState, AfterWait, Finish, Settle, Goto, Leave, TypeOK
  <2>2. CASE Build(r) \/ CloseAbandoned(r) \/ Renew(r) \/ ConsumeFails(r) \/ RunTool(r) \/ Crash(r)
    BY <2>2 DEF Build, CloseAbandoned, Renew, ConsumeFails, RunTool, Crash, Goto, TypeOK, run
  <2>3. ASSUME NEW p \in Prompt, SaveState(r, p) \/ RaisePlain(r, p)
        PROVE  \A q \in Run : q # r => pc'[q] = pc[q] /\ at'[q] = at[q] /\ out'[q] = out[q]
    BY <2>3 DEF SaveState, RaisePlain, Goto, TypeOK
  <2> QED BY <2>1, <2>2, <2>3
<1>3. \A q \in Run : q # r => (Live(q)' => Live(q)) /\ CleanRun(q)'
  BY <1>1, <1>2, StandsStill DEF Tokens
<1>4. (Live(r)' => Live(r)) /\ CleanRun(r)'
  <2>1. CASE Notice(r)
    <3>1. /\ pc[r] = "waiting" /\ status[at[r]] # "pending" /\ pc'[r] = "leaving"
          /\ out'[r] = OutcomeOf(r, at[r])
      BY <2>1 DEF Notice, Leave, Goto, TypeOK
    <3>2. /\ OutcomeOf(r, at[r]) \in {"detached", "suspended", "answered", "closed"}
          /\ OutcomeOf(r, at[r]) \in {"answered", "closed"} =>
                owner[at[r]] = r /\ status[at[r]] # "suspended"
      BY DEF OutcomeOf
    <3> QED BY <3>1, <3>2 DEF Live, Driving, CleanRun, Back, Resuming, Opened, Open, InAwait
  <2>2. CASE LeaveWait(r) \/ DropState(r)
    <3>1. /\ pc[r] \in {"leaving", "dropping"} /\ out'[r] = out[r] /\ pc'[r] \in {"dropping", "returned"}
          /\ pc'[r] = "dropping" => out[r] \notin {"suspended", "detached"}
      BY <2>2 DEF LeaveWait, DropState, Goto, TypeOK
    <3> QED BY <3>1 DEF Live, Driving, CleanRun, Back, Resuming, Tokens, InAwait
  <2>3. CASE AfterWait(r) \/ Finish(r) \/ ConsumeFails(r) \/ CloseAbandoned(r) \/ Crash(r)
    <3>1. \/ pc'[r] \in {"gone", "wrapping", "dead"}
          \/ pc'[r] = "working" /\ pc[r] = "returned" /\ out[r] \in {"closed", "answered"}
      BY <2>3 DEF AfterWait, Finish, ConsumeFails, CloseAbandoned, Crash, Goto, Ends, TypeOK
    <3> QED BY <3>1 DEF Live, Driving, CleanRun, Back, Resuming, InAwait
  <2>4. CASE Settle(r)
    <3>1. pc[r] = "settling" /\ pc'[r] \in {"abandoning", "building"}
      BY <2>4 DEF Settle, Goto, TypeOK
    <3> QED BY <3>1 DEF Live, Driving, CleanRun, Back, Resuming, InAwait
  <2>5. CASE Build(r)
    <3>1. pc[r] = "building"
          /\ (pc'[r] = "abandoning" \/ (pc'[r] = "returned" /\ out'[r] = "answered"))
      BY <2>5 DEF Build, Goto, TypeOK
    <3> QED BY <3>1 DEF Live, Driving, CleanRun, Back, Resuming, InAwait
  <2>6. CASE Renew(r)
    <3>1. UNCHANGED <<pc, at, out>>
      BY <2>6 DEF Renew, run
    <3> QED BY <1>1, <3>1 DEF Live, Driving, CleanRun, Opened, Tokens, InAwait
  <2>7. CASE RunTool(r)
    <3>1. pc[r] = "acting" /\ pc'[r] = "marking"
      BY <2>7 DEF RunTool, Goto, TypeOK
    <3> QED BY <3>1 DEF Live, Driving, CleanRun, Back, Resuming, InAwait
  <2>8. ASSUME NEW p \in Prompt, SaveState(r, p) \/ RaisePlain(r, p)
        PROVE  (Live(r)' => Live(r)) /\ CleanRun(r)'
    <3>1. pc[r] = "working" /\ pc'[r] = "raised"
      BY <2>8 DEF SaveState, RaisePlain, Goto, TypeOK
    <3> QED BY <3>1 DEF Live, Driving, CleanRun, Back, Resuming, InAwait
  <2>9. CASE Emit(r)
    <3>1. pc[r] = "emitting" /\ pc'[r] = "waiting" /\ at' = at
      BY <2>9 DEF Emit, Goto, TypeOK
    <3>2. CleanRun(r)
      BY DEF Tokens
    <3> QED BY <1>1, <3>1, <3>2 DEF Live, Driving, CleanRun, Back, Resuming, InAwait, Opened
  <2> QED BY <2>1, <2>2, <2>3, <2>4, <2>5, <2>6, <2>7, <2>8, <2>9
<1>5. (\A q \in Run : Live(q)' => Live(q)) /\ \A q \in Run : CleanRun(q)'
  BY <1>3, <1>4
<1>6. \A p \in Prompt : Opened(p)' => Opened(p)
  BY <1>1 DEF Opened
<1> QED BY <1>5, <1>6, NoneNew DEF Tokens

\* Steps of a run that move a row that is past, or that wait.
LEMMA MoverKeeps ==
    ASSUME EInv, Tokens, NEW r \in Run, ~strayed',
           \/ Create(r) \/ SuspendWait(r) \/ CloseWait(r) \/ EmitFails(r) \/ Consume(r) \/ Confirm(r)
           \/ MarkExecuted(r) \/ WrapUp(r) \/ Abandon(r)
    PROVE  Tokens'
<1> USE DEF EInv, TInv
<1>1. \A q \in Run : q # r => pc'[q] = pc[q] /\ at'[q] = at[q] /\ out'[q] = out[q]
  <2>1. CASE Create(r) \/ SuspendWait(r) \/ CloseWait(r) \/ EmitFails(r)
    BY <2>1 DEF Create, SuspendWait, CloseWait, EmitFails, Goto, Leave, TypeOK
  <2>2. CASE Consume(r) \/ Confirm(r)
    BY <2>2 DEF Consume, Confirm, Goto, TypeOK
  <2>3. CASE MarkExecuted(r) \/ WrapUp(r) \/ Abandon(r)
    BY <2>3 DEF MarkExecuted, WrapUp, Abandon, Goto, TypeOK
  <2> QED BY <2>1, <2>2, <2>3
<1>2. CASE Create(r)
  <2>1. /\ pc[r] = "raised" /\ pc'[r] = "emitting" /\ at'[r] = at[r] /\ at[r] \in Prompt
        /\ status' = [status EXCEPT ![at[r]] = "pending"]
        /\ owner' = [owner EXCEPT ![at[r]] = r] /\ status[at[r]] = "none"
    BY <1>2 DEF Create, PlaceOK, Goto, TypeOK
  <2>2. \A p \in Prompt : status'[p] = (IF p = at[r] THEN "pending" ELSE status[p])
                          /\ owner'[p] = (IF p = at[r] THEN r ELSE owner[p])
    BY <2>1 DEF TypeOK
  <2>3. \A q \in Run : pc[q] \in InAwait => at[q] \in Prompt
    BY DEF PlaceOK, Placed, Waits, InAwait
  <2>4. \A q \in Run : q # r => (Live(q)' => Live(q)) /\ CleanRun(q)'
    BY <1>1, <2>2, <2>3, StandsStill DEF Tokens, Open
  <2>5. Live(r) /\ ~Live(r)' /\ CleanRun(r)'
    BY <2>1, <2>2 DEF Live, Driving, Back, Resuming, Opened, Open, CleanRun, InAwait
  <2>6. \A x \in Prompt : x # at[r] /\ Opened(x)' => Opened(x)
    BY <2>2 DEF Opened
  <2>7. \A q \in Run : CleanRun(q)'
    BY <2>4, <2>5
  <2>8. OneToken'
    BY <2>1, <2>4, <2>5, <2>6, RowTakes DEF Tokens
  <2> QED BY <2>7, <2>8 DEF Tokens
<1>3. ASSUME owner' = owner, NEW p \in Prompt, NEW s, status[p] # "none", owner[p] = r \/ status[p] \notin Open,
             status' = [status EXCEPT ![p] = s], s # "none",
             s \in Open => status[p] \in Open,
             s = "suspended" => owner[p] = r
      PROVE  /\ \A q \in Run : q # r => (Live(q)' => Live(q)) /\ CleanRun(q)'
             /\ \A x \in Prompt : Opened(x)' => Opened(x)
  <2>1. \A x \in Prompt : status'[x] = IF x = p THEN s ELSE status[x]
    BY <1>3 DEF TypeOK
  <2>2. \A q \in Run : pc[q] \in InAwait => at[q] \in Prompt
    BY DEF PlaceOK, Placed, Waits, InAwait
  <2>3. \A q \in Run : q # r => (Live(q)' => Live(q)) /\ CleanRun(q)'
    BY <1>1, <1>3, <2>1, <2>2, StandsStill DEF Tokens
  <2>4. \A x \in Prompt : Opened(x)' => Opened(x)
    BY <1>3, <2>1 DEF Opened
  <2> QED BY <2>3, <2>4
<1>4. CASE SuspendWait(r)
  <2>1. /\ pc[r] = "waiting" /\ pc'[r] = "leaving" /\ out'[r] = "suspended" /\ at[r] \in Prompt
        /\ status[at[r]] = "pending" /\ owner[at[r]] = r /\ owner' = owner
        /\ status' = [status EXCEPT ![at[r]] = "suspended"]
    BY <1>4 DEF SuspendWait, CAS, Leave, Goto, TypeOK, PlaceOK, Placed, Waits
  <2>2. /\ \A q \in Run : q # r => (Live(q)' => Live(q)) /\ CleanRun(q)'
        /\ \A x \in Prompt : Opened(x)' => Opened(x)
    BY <2>1, <1>3 DEF Open
  <2>3. ~Live(r)' /\ CleanRun(r)'
    BY <2>1 DEF Live, Driving, Back, Resuming, CleanRun, InAwait
  <2>4. (\A q \in Run : Live(q)' => Live(q)) /\ \A q \in Run : CleanRun(q)'
    BY <2>2, <2>3
  <2> QED BY <2>2, <2>4, NoneNew DEF Tokens
<1>5. ASSUME NEW to \in {"expired", "canceled"}, CAS(at[r], {"pending"}, to, r), pc[r] \in InAwait,
             Leave(r, "closed"), owner' = owner
      PROVE  Tokens'
  <2>1. /\ pc'[r] = "leaving" /\ out'[r] = "closed" /\ at[r] \in Prompt
        /\ status[at[r]] = "pending" /\ owner[at[r]] = r
        /\ status' = [status EXCEPT ![at[r]] = to]
    BY <1>5 DEF CAS, Leave, Goto, TypeOK, PlaceOK, Placed, Waits, InAwait
  <2>2. /\ \A q \in Run : q # r => (Live(q)' => Live(q)) /\ CleanRun(q)'
        /\ \A x \in Prompt : Opened(x)' => Opened(x)
    BY <1>3, <1>5, <2>1 DEF Open
  <2>3. CleanRun(r)'
    BY <2>1 DEF CleanRun, Back, InAwait
  <2>4. PICK p \in Prompt : p = at[r]
    BY <2>1
  <2>5. Opened(p) /\ ~Opened(p)'
    BY <1>5, <2>1, <2>4 DEF Opened, Open, TypeOK
  <2>6. OneToken'
    BY <2>2, <2>5, RunTakes DEF Tokens
  <2> QED BY <2>2, <2>3, <2>6 DEF Tokens
<1>6. ASSUME NEW p \in Prompt, NEW s \in Past, status[p] \in Past, owner' = owner,
             status' = [status EXCEPT ![p] = s], Live(r)' => Live(r), CleanRun(r)'
      PROVE  Tokens'
  <2>1. /\ \A q \in Run : q # r => (Live(q)' => Live(q)) /\ CleanRun(q)'
        /\ \A x \in Prompt : Opened(x)' => Opened(x)
    BY <1>3, <1>6 DEF Past, Ended, Open
  <2>2. (\A q \in Run : Live(q)' => Live(q)) /\ \A q \in Run : CleanRun(q)'
    BY <1>6, <2>1
  <2> QED BY <2>1, <2>2, NoneNew DEF Tokens
<1>7. ASSUME UNCHANGED <<status, owner>>, Live(r)' => Live(r), CleanRun(r)'
      PROVE  Tokens'
  <2>1. \A q \in Run : q # r => (Live(q)' => Live(q)) /\ CleanRun(q)'
    BY <1>1, <1>7, StandsStill DEF Tokens
  <2>2. (\A q \in Run : Live(q)' => Live(q)) /\ \A q \in Run : CleanRun(q)'
    BY <1>7, <2>1
  <2>3. \A x \in Prompt : Opened(x)' => Opened(x)
    BY <1>7 DEF Opened
  <2> QED BY <2>2, <2>3, NoneNew DEF Tokens
<1>12. CASE CloseWait(r)
  BY <1>5, <1>12 DEF CloseWait, InAwait
<1>13. CASE EmitFails(r)
  <2>1. /\ pc[r] = "emitting" /\ owner[at[r]] = r /\ owner' = owner
        /\ Leave(r, "closed") /\ pc'[r] = "leaving" /\ out'[r] = "closed"
    BY <1>13 DEF EmitFails, Leave, Goto, TypeOK
  <2>2. CASE CAS(at[r], {"pending"}, "canceled", r)
    BY <1>5, <2>1, <2>2 DEF InAwait
  <2>3. CASE status[at[r]] # "pending" /\ status' = status
    <3>1. status[at[r]] # "suspended"
      BY <2>1 DEF Tokens, CleanRun, InAwait
    <3>2. Live(r) /\ CleanRun(r)'
      BY <2>1, <2>3, <3>1 DEF Live, Opened, Open, CleanRun, Back, InAwait
    <3> QED BY <1>7, <2>1, <2>3, <3>2
  <2> QED BY <1>13, <2>1, <2>2, <2>3 DEF EmitFails
<1>8. CASE Consume(r)
  <2>1. /\ pc[r] = "returned" /\ out[r] = "answered" /\ owner' = owner /\ at[r] \in Prompt
        /\ pc'[r] \in {"acting", "working", "gone", "wrapping"}
    BY <1>8 DEF Consume, Goto, Ends, TypeOK, PlaceOK, Placed, Waits
  <2>2. (Live(r)' => Live(r)) /\ CleanRun(r)'
    BY <2>1 DEF Live, Back, CleanRun, InAwait
  <2>3. CASE status[at[r]] = "answered" /\ status' = [status EXCEPT ![at[r]] = ClaimOf(at[r])]
    <3>1. ClaimOf(at[r]) \in Past /\ status[at[r]] \in Past
      BY <2>3 DEF ClaimOf, Past, Ended
    <3> QED BY <2>1, <2>2, <2>3, <3>1, <1>6
  <2>4. CASE status' = status
    BY <2>1, <2>2, <2>4, <1>7
  <2> QED BY <1>8, <2>3, <2>4 DEF Consume, CAS
<1>9. CASE Confirm(r)
  BY <1>9 DEF Confirm, Tokens, CleanRun, InAwait
<1>10. CASE MarkExecuted(r)
  <2>1. pc[r] = "marking" /\ pc'[r] = "working" /\ owner' = owner /\ at[r] \in Prompt
    BY <1>10 DEF MarkExecuted, Goto, TypeOK, PlaceOK, Placed
  <2>2. Live(r) /\ CleanRun(r)'
    BY <2>1 DEF Live, Driving, CleanRun, Back, InAwait
  <2>3. CASE status[at[r]] = "executing"
    <3>1. status' = [status EXCEPT ![at[r]] = "done"]
      BY <1>10, <2>3 DEF MarkExecuted
    <3> QED BY <2>1, <2>2, <2>3, <3>1, <1>6 DEF Past, Ended
  <2>4. CASE status[at[r]] # "executing"
    <3>1. status' = status
      BY <1>10, <2>1, <2>4 DEF MarkExecuted, TypeOK
    <3> QED BY <2>1, <2>2, <3>1, <1>7
  <2> QED BY <2>3, <2>4
<1>11. CASE WrapUp(r) \/ Abandon(r)
  <2>1. pc'[r] \in {"gone", "abandoning", "closing"} /\ owner' = owner
    BY <1>11 DEF WrapUp, Abandon, Goto, TypeOK
  <2>2. ~Live(r)' /\ CleanRun(r)'
    BY <2>1 DEF Live, Driving, CleanRun, Back, Resuming, InAwait
  <2>3. \/ status' = status
        \/ /\ res[r] \in Prompt /\ status[res[r]] \in {"answered", "executing"}
           /\ status' = [status EXCEPT ![res[r]] = "failed"]
    <3>1. CASE WrapUp(r)
      BY <3>1 DEF WrapUp, TypeOK
    <3>2. CASE Abandon(r)
      <4>1. CASE res[r] \in Prompt /\ status[res[r]] \in {"answered", "executing"}
        BY <3>2, <4>1 DEF Abandon
      <4>2. CASE ~(res[r] \in Prompt /\ status[res[r]] \in {"answered", "executing"})
        BY <3>2, <4>2 DEF Abandon, TypeOK
      <4> QED BY <4>1, <4>2
    <3> QED BY <1>11, <3>1, <3>2
  <2> QED BY <2>1, <2>2, <2>3, <1>6, <1>7 DEF Past, Ended
<1> QED BY <1>2, <1>4, <1>8, <1>9, <1>10, <1>11, <1>12, <1>13

\* Runs stand still and a row moves: from Open to Open under no owner, or from Past
\* to Past; or out of Open, and then its owner may go on.
LEMMA RowMoves ==
    ASSUME EInv, Tokens, NEW p \in Prompt, NEW s \in Status \ {"none"},
           UNCHANGED <<pc, at, out>>, status' = [status EXCEPT ![p] = s],
           status[p] \in Open \cup Past, s \in Open => status[p] \in Open,
           owner' = owner \/ owner' = [owner EXCEPT ![p] = None],
           s = "suspended" => owner' = [owner EXCEPT ![p] = None] \/ status[p] = "suspended"
    PROVE  Tokens'
<1> USE DEF EInv, TInv
<1>1. \A x \in Prompt : /\ status'[x] = IF x = p THEN s ELSE status[x]
                        /\ owner'[x] = owner[x] \/ (x = p /\ owner'[x] = None)
  BY DEF TypeOK
<1>2. \A q \in Run : pc[q] \in InAwait => at[q] \in Prompt
  BY DEF PlaceOK, Placed, Waits, InAwait
<1>3. None \notin Run
  BY PromptAssumption
<1>4. s = "suspended" => owner'[p] = None \/ status[p] = "suspended"
  BY DEF TypeOK
<1>5. \A q \in Run : CleanRun(q)' /\ (Live(q)' => Live(q) \/ (/\ pc[q] \in InAwait /\ owner[at[q]] = q
                                                              /\ status[at[q]] \in Open /\ status'[at[q]] \notin Open))
  BY <1>1, <1>2, <1>3, <1>4, StandsStill DEF Tokens
<1>6. \A x \in Prompt : Opened(x)' => Opened(x)
  BY <1>1 DEF Opened
<1>7. CASE status[p] \in Open /\ s \notin Open
  <2>1. Opened(p) /\ ~Opened(p)'
    BY <1>1, <1>7 DEF Opened
  <2>2. \A q \in Run : q # owner[p] /\ Live(q)' => Live(q)
    BY <1>1, <1>2, <1>5
  <2>3. OneToken'
    BY <1>6, <2>1, <2>2, RunTakes DEF Tokens
  <2> QED BY <1>5, <2>3 DEF Tokens
<1>8. CASE ~(status[p] \in Open /\ s \notin Open)
  <2>1. \A q \in Run : Live(q)' => Live(q)
    BY <1>1, <1>2, <1>5, <1>8
  <2> QED BY <1>5, <1>6, <2>1, NoneNew DEF Tokens
<1> QED BY <1>7, <1>8

LEMMA NothingMoves ==
    ASSUME Tokens, UNCHANGED <<pc, at, out, status, owner>>
    PROVE  Tokens'
<1>1. \A q \in Run : (Live(q)' => Live(q)) /\ CleanRun(q)'
  BY StandsStill DEF Tokens
<1>2. \A x \in Prompt : Opened(x)' => Opened(x)
  BY DEF Opened
<1> QED BY <1>1, <1>2, NoneNew DEF Tokens

LEMMA TakeOverKeeps == ASSUME EInv, Tokens, NEW t \in Taker, TakeOver(t) PROVE Tokens'
<1> USE DEF EInv, TInv
<1>1. UNCHANGED <<pc, at, out>>
  BY DEF TakeOver, run
<1>2. CASE UNCHANGED <<status, owner>>
  BY <1>1, <1>2, NothingMoves
<1>3. CASE /\ status[job[t].p] = job[t].from /\ status' = [status EXCEPT ![job[t].p] = job[t].to]
           /\ owner' = IF job[t].to = "suspended" THEN [owner EXCEPT ![job[t].p] = None] ELSE owner
  <2>1. /\ job[t].p \in Prompt
        /\ \/ job[t].from \in Open /\ job[t].to \in {"suspended", "expired", "superseded"}
           \/ job[t].from \in {"answered", "executing"} /\ job[t].to = "failed"
    BY DEF TakeOver, MovesOK
  <2>2. /\ job[t].to \in Status \ {"none"} /\ status[job[t].p] \in Open \cup Past
        /\ job[t].to \in Open => status[job[t].p] \in Open
    BY <1>3, <2>1 DEF Status, Open, Past, Ended
  <2>3. /\ owner' = owner \/ owner' = [owner EXCEPT ![job[t].p] = None]
        /\ job[t].to = "suspended" => owner' = [owner EXCEPT ![job[t].p] = None]
    BY <1>3
  <2> QED BY <1>1, <1>3, <2>1, <2>2, <2>3, RowMoves
<1> QED BY <1>2, <1>3 DEF TakeOver

LEMMA ResolveKeeps == ASSUME EInv, Tokens, NEW u \in Resolver, ResolveStep(u) PROVE Tokens'
<1> USE DEF EInv, TInv
<1>1. CASE UNCHANGED <<pc, at, out, status, owner>>
  BY <1>1, NothingMoves
<1>2. CASE /\ AnswerPending(u) /\ TakesAnswer(job[u].p)
           /\ status' = [status EXCEPT ![job[u].p] = "answered"]
  <2>1. job[u].p \in Prompt /\ owner' = owner /\ UNCHANGED <<pc, at, out>>
        /\ status[job[u].p] = "pending"
    BY <1>2 DEF AnswerPending, TakesAnswer, ReadOK, run
  <2>2. "answered" \in Status \ {"none"} /\ "answered" \notin Open /\ "pending" \in Open
    BY DEF Status, Open
  <2> QED BY <1>2, <2>1, <2>2, RowMoves
<1>3. ASSUME NEW r \in Run, AnswerSuspended(u), pc[r] = "unborn", status[job[u].p] = "suspended",
             status' = [status EXCEPT ![job[u].p] = "answered"],
             owner' = [owner EXCEPT ![job[u].p] = r], Goto(r, "settling")
      PROVE  Tokens'
  <2>1. job[u].p \in Prompt /\ at' = at /\ out' = out
    BY <1>3 DEF AnswerSuspended, ReadOK
  <2>2. PICK p \in Prompt : p = job[u].p
    BY <2>1
  <2>3. \A x \in Prompt : /\ status'[x] = IF x = p THEN "answered" ELSE status[x]
                          /\ owner'[x] = IF x = p THEN r ELSE owner[x]
    BY <1>3, <2>2 DEF TypeOK
  <2>4. \A q \in Run : pc'[q] = IF q = r THEN "settling" ELSE pc[q]
    BY <1>3 DEF Goto, TypeOK
  <2>5. \A q \in Run : pc[q] \in InAwait => at[q] \in Prompt
    BY DEF PlaceOK, Placed, Waits, InAwait
  <2>6. \A q \in Run : q # r => (Live(q)' => Live(q)) /\ CleanRun(q)'
    <3>1. SUFFICES ASSUME NEW q \in Run, q # r PROVE (Live(q)' => Live(q)) /\ CleanRun(q)'
      OBVIOUS
    <3>2. CleanRun(q) /\ pc'[q] = pc[q] /\ at'[q] = at[q] /\ out'[q] = out[q]
      BY <2>1, <2>4, <3>1 DEF Tokens
    <3>3. ASSUME pc[q] \in InAwait
          PROVE  /\ owner'[at[q]] = q => owner[at[q]] = q
                 /\ status'[at[q]] = "suspended" => status[at[q]] = "suspended"
                 /\ owner[at[q]] = q /\ status[at[q]] \in Open => status'[at[q]] \in Open
      BY <1>3, <2>2, <2>3, <2>5, <3>1, <3>2, <3>3 DEF CleanRun, InAwait
    <3> QED BY <3>2, <3>3, StandsStill
  <2>7. CleanRun(r)'
    BY <2>4 DEF CleanRun, Back, InAwait
  <2>8. \A x \in Prompt : Opened(x)' => Opened(x)
    BY <2>3 DEF Opened, Open
  <2>9. Opened(p) /\ ~Opened(p)'
    BY <1>3, <2>2, <2>3 DEF Opened, Open
  <2>10. OneToken'
    BY <2>6, <2>8, <2>9, RunTakes DEF Tokens
  <2>11. \A q \in Run : CleanRun(q)'
    BY <2>6, <2>7
  <2> QED BY <2>10, <2>11 DEF Tokens
<1>4. CASE Reread(u)
  BY <1>1, <1>4 DEF Reread, run, row
<1>5. CASE AnswerSuspended(u)
  <2>1. CASE UNCHANGED <<status, owner, lease, answer, res, orphan, pc>>
    BY <1>1, <1>5, <2>1 DEF AnswerSuspended
  <2> QED BY <1>3, <1>5, <2>1 DEF AnswerSuspended
<1>6. CASE AnswerPending(u)
  <2>1. CASE UNCHANGED <<status, answer>>
    BY <1>1, <1>6, <2>1 DEF AnswerPending, run
  <2> QED BY <1>2, <1>6, <2>1 DEF AnswerPending
<1> QED BY <1>4, <1>5, <1>6 DEF ResolveStep

\* No write has gone unconfirmed and no run has strayed.
Clean == faults = 0 /\ ~strayed

\* A run that strayed has strayed for good.
LEMMA StrayedStays == ASSUME [Next]_vars, strayed PROVE strayed'
<1>1. ASSUME NEW r \in Run, \/ RunStep(r) \/ Renew(r) \/ CloseUnconfirmed(r)
                            \/ ConsumeFails(r) \/ ClaimUnconfirmed(r) \/ Crash(r)
                            \/ \E p \in Prompt : SaveState(r, p) \/ RaisePlain(r, p)
      PROVE  strayed'
  BY <1>1 DEF RunStep, Create, Emit, Notice, SuspendWait, CloseWait, EmitFails, LeaveWait, DropState,
     Consume, Confirm, RunTool, MarkExecuted, AfterWait, Finish, Settle, Build, WrapUp, Abandon,
     CloseAbandoned, Renew, CloseUnconfirmed, ConsumeFails, ClaimUnconfirmed, Crash, SaveState,
     RaisePlain
<1>2. CASE \/ \E t \in Taker : TakerStep(t)
           \/ \E j \in Janitor, p \in Prompt : Sweep(j, p) \/ Supersede(j, p)
           \/ \E j \in Janitor : CrashJanitor(j)
           \/ \E u \in Resolver, p \in Prompt : ReadForAnswer(u, p)
           \/ \E u \in Resolver : ResolveStep(u)
           \/ \E p \in Prompt : Lapse(p) \/ Overdue(p)
           \/ UNCHANGED vars
  BY <1>2 DEF TakerStep, TakeOver, Hook, HookFails, DropTaken, Sweep, Supersede, CrashJanitor,
     ReadForAnswer, ResolveStep, Reread, AnswerSuspended, AnswerPending, Lapse, Overdue, vars
<1> QED BY <1>1, <1>2 DEF Next

\* While that lasts, every step passes the token on.
LEMMA TokenStep ==
    ASSUME EInv, Clean => Tokens, [Next]_vars, Clean'
    PROVE  Clean /\ Tokens /\ Tokens'
<1>0. ~strayed /\ ~strayed'
  BY StrayedStays DEF Clean
<1>1. faults = 0 /\ \A r \in Run : ~CloseUnconfirmed(r) /\ ~ClaimUnconfirmed(r)
  <2>0. faults' = 0
    BY DEF Clean
  <2>1. faults \in Nat
    BY PromptAssumption DEF EInv, TInv, TypeOK
  <2>2. /\ \A r \in Run : ~CloseUnconfirmed(r) /\ ~ClaimUnconfirmed(r)
        /\ \A t \in Taker : ~HookFails(t)
    BY <2>0, <2>1 DEF CloseUnconfirmed, ClaimUnconfirmed, HookFails
  <2>3. ASSUME NEW r \in Run, RunStep(r) \/ Renew(r) \/ ConsumeFails(r) \/ Crash(r)
        PROVE  faults' = faults
    BY <2>3 DEF RunStep, Create, Emit, Notice, SuspendWait, CloseWait, EmitFails, LeaveWait, DropState, Consume,
       Confirm, RunTool, MarkExecuted, AfterWait, Finish, Settle, Build, WrapUp, Abandon,
       CloseAbandoned, Renew, ConsumeFails, Crash
  <2>4. ASSUME NEW r \in Run, NEW p \in Prompt, SaveState(r, p) \/ RaisePlain(r, p)
        PROVE  faults' = faults
    BY <2>4 DEF SaveState, RaisePlain
  <2>5. ASSUME \/ \E t \in Taker : TakerStep(t)
               \/ \E j \in Janitor, p \in Prompt : Sweep(j, p) \/ Supersede(j, p)
               \/ \E j \in Janitor : CrashJanitor(j)
        PROVE  faults' = faults
    BY <2>2, <2>5 DEF TakerStep, TakeOver, Hook, DropTaken, Sweep, Supersede, CrashJanitor
  <2>6. ASSUME \/ \E u \in Resolver, p \in Prompt : ReadForAnswer(u, p)
               \/ \E u \in Resolver : ResolveStep(u)
               \/ \E p \in Prompt : Lapse(p) \/ Overdue(p)
        PROVE  faults' = faults
    BY <2>6 DEF ReadForAnswer, ResolveStep, Reread, AnswerSuspended, AnswerPending, Lapse, Overdue
  <2>7. ASSUME UNCHANGED vars PROVE faults' = faults
    BY <2>7 DEF vars
  <2>8. faults' = faults
    BY <2>2, <2>3, <2>4, <2>5, <2>6, <2>7 DEF Next
  <2> QED BY <2>0, <2>2, <2>8
<1>2. Tokens /\ Clean
  BY <1>0, <1>1 DEF Clean
<1>3. ASSUME NEW r \in Run,
             \/ RunStep(r) \/ Renew(r) \/ ConsumeFails(r) \/ Crash(r)
             \/ \E p \in Prompt : SaveState(r, p) \/ RaisePlain(r, p)
      PROVE  Tokens'
  BY <1>0, <1>2, <1>3, QuietKeeps, MoverKeeps DEF RunStep
<1>4. ASSUME \/ \E t \in Taker : Hook(t) \/ HookFails(t) \/ DropTaken(t)
             \/ \E j \in Janitor, p \in Prompt : Sweep(j, p) \/ Supersede(j, p)
             \/ \E j \in Janitor : CrashJanitor(j)
             \/ \E u \in Resolver, p \in Prompt : ReadForAnswer(u, p)
             \/ \E p \in Prompt : Lapse(p) \/ Overdue(p)
             \/ UNCHANGED vars
      PROVE  Tokens'
  <2>1. UNCHANGED <<pc, at, out, status, owner>>
    BY <1>4 DEF Hook, HookFails, DropTaken, Sweep, Supersede, CrashJanitor, ReadForAnswer, Lapse, Overdue,
       vars, run, row
  <2> QED BY <1>2, <2>1, NothingMoves
<1>5. ASSUME NEW t \in Taker, TakerStep(t) PROVE Tokens'
  <2>1. CASE TakeOver(t)
    BY <1>2, <2>1, TakeOverKeeps
  <2> QED BY <1>4, <1>5, <2>1 DEF TakerStep
<1>6. ASSUME NEW u \in Resolver, ResolveStep(u) PROVE Tokens'
  BY <1>2, <1>6, ResolveKeeps
<1> QED BY <1>1, <1>2, <1>3, <1>4, <1>5, <1>6 DEF Next

LEMMA TokenInit == Init => Tokens
<1> SUFFICES ASSUME Init PROVE Tokens
  OBVIOUS
<1>1. \A r \in Run : pc[r] = IF r = First THEN "working" ELSE "unborn"
  BY DEF Init
<1>2. \A r \in Run : Live(r) => r = First
  BY <1>1 DEF Live, Driving, Back, Resuming, InAwait
<1>3. \A p \in Prompt : ~Opened(p)
  BY DEF Init, Opened, Open
<1>4. \A r \in Run : CleanRun(r)
  BY <1>1 DEF CleanRun, Back, InAwait
<1> QED BY <1>2, <1>3, <1>4 DEF Tokens, OneToken

\* As long as the store confirms every write and no run has strayed past a prompt it
\* had lost, two runs never generate the same message, whoever takes a prompt over and
\* whatever crashes: the waiter that lost its prompt leaves (detached), and the run
\* resumed for it starts alone.
THEOREM SoleDriverHolds == Spec => [](faults = 0 => SoleDriver)
<1>1. Init => EInv /\ (Clean => Tokens)
  BY EInit, TokenInit
<1>2. (EInv /\ (Clean => Tokens)) /\ [Next]_vars => (EInv /\ (Clean => Tokens))'
  BY EStep, TokenStep
<1>3. EInv /\ (Clean => Tokens) => (faults = 0 => SoleDriver)
  BY DEF Tokens, OneToken, Live, SoleDriver, Clean
<1> QED BY <1>1, <1>2, <1>3, PTL DEF Spec

-----------------------------------------------------------------------------
(* SuspendedResumable.  The saved state of the message is that of the open  *)
(* prompt: only the token's holder saves or drops a state of its own, and   *)
(* whoever else drops one names a prompt that is past.                      *)

\* A row that left Open for good does not come back.
LEMMA PastStays ==
    ASSUME EInv, [Next]_vars, NEW p \in Prompt, status[p] \in Past
    PROVE  status'[p] \in Past
<1>1. Phases[p] \in {"answered", "claimed", "closed"}
  BY PhaseValues DEF Phases, Past
<1>2. Phases'[p] \in {"answered", "claimed", "closed"}
  <2>1. CASE Stutters
    BY <1>1, <2>1 DEF Stutters
  <2>2. ASSUME NEW x \in Prompt, NEW from, NEW to \in {"answered", "claimed", "closed"},
               Contract!Move(x, from, to)
        PROVE  Phases'[p] \in {"answered", "claimed", "closed"}
    BY <1>1, <2>2 DEF Contract!Move, Phases
  <2>3. ASSUME NEW x \in Prompt, Contract!Ask(x)
        PROVE  Phases'[p] \in {"answered", "claimed", "closed"}
    <3>1. Phases[x] = "unasked" /\ Phases' = [Phases EXCEPT ![x] = "open"]
      BY <2>3 DEF Contract!Ask, Contract!Move
    <3> QED BY <1>1, <3>1 DEF Phases
  <2>4. ASSUME NEW x \in Prompt,
               Contract!Answer(x) \/ Contract!Claim(x) \/ Contract!Close(x)
        PROVE  Phases'[p] \in {"answered", "claimed", "closed"}
    BY <2>2, <2>4 DEF Contract!Answer, Contract!Claim, Contract!Close
  <2>5. ASSUME NEW x \in Prompt, Contract!Act(x) \/ Contract!Lose(x)
        PROVE  Phases'[p] \in {"answered", "claimed", "closed"}
    BY <1>1, <2>5 DEF Contract!Act, Contract!Lose
  <2> QED BY <2>1, <2>3, <2>4, <2>5, StepRefines DEF Refines, Contract!Next
<1>3. Phases'[p] = PhaseOf(status'[p]) /\ status'[p] \in Status
  BY TypeStep DEF Phases, EInv, TInv, TypeOK
<1>4. CASE status'[p] \in Open \cup {"none"}
  BY <1>2, <1>3, <1>4, PhaseValues
<1> QED BY <1>3, <1>4 DEF Status, Past, Ended, Open

\* The state saved for an open prompt, or for one about to be created, is the
\* message's; a suspended prompt has one.
Kept ==
    /\ \A p \in Prompt : Opened(p) /\ kept[p] => snap = p
    /\ \A p \in Prompt : status[p] = "suspended" => kept[p]
    /\ \A r \in Run : pc[r] = "raised" /\ kept[at[r]] => snap = at[r]

\* A state saved for no row is that of a run about to create one, or of a dead one.
Orphans ==
    \A p \in Prompt : kept[p] /\ status[p] = "none" =>
        \E q \in Run : at[q] = p /\ pc[q] \in {"raised", "dead"}

\* A run resumes, and a takeover closes, a prompt that is past; a takeover suspends
\* only a prompt that has a saved state.
JobPast(t) ==
    job[t].pc = "drop" \/ (job[t].pc = "hook" /\ job[t].to # "suspended") =>
        job[t].p \in Prompt /\ status[job[t].p] \in Past

PastOK ==
    /\ \A r \in Run : res[r] \in Prompt => status[res[r]] \in Past
    /\ \A t \in Taker : job[t].pc = "cas" /\ job[t].to = "suspended" => kept[job[t].p]
    /\ \A t \in Taker : JobPast(t)

SInv == EInv /\ Orphans /\ PastOK /\ (Clean => Tokens /\ Kept)

\* A state once saved is not forgotten by the row.
LEMMA KeptStays ==
    ASSUME EInv, [Next]_vars, ~(\E r \in Run, p \in Prompt : SaveState(r, p)) PROVE kept' = kept
<1>1. ASSUME NEW r \in Run, \/ RunStep(r) \/ Renew(r) \/ CloseUnconfirmed(r)
                            \/ ConsumeFails(r) \/ ClaimUnconfirmed(r) \/ Crash(r)
      PROVE  kept' = kept
  BY <1>1 DEF RunStep, Create, Emit, Notice, SuspendWait, CloseWait, EmitFails, LeaveWait, DropState, Consume,
     Confirm, RunTool, MarkExecuted, AfterWait, Finish, Settle, Build, WrapUp, Abandon,
     CloseAbandoned, Renew, CloseUnconfirmed, ConsumeFails, ClaimUnconfirmed, Crash, row
<1>2. ASSUME NEW r \in Run, NEW p \in Prompt, RaisePlain(r, p) PROVE kept' = kept
  BY <1>2 DEF RaisePlain, row
<1>3. ASSUME \/ \E t \in Taker : TakerStep(t)
             \/ \E j \in Janitor, p \in Prompt : Sweep(j, p) \/ Supersede(j, p)
             \/ \E j \in Janitor : CrashJanitor(j)
      PROVE  kept' = kept
  BY <1>3 DEF TakerStep, TakeOver, Hook, HookFails, DropTaken, Sweep, Supersede, CrashJanitor, row
<1>4. ASSUME \/ \E u \in Resolver, p \in Prompt : ReadForAnswer(u, p)
             \/ \E u \in Resolver : ResolveStep(u)
             \/ \E p \in Prompt : Lapse(p) \/ Overdue(p)
             \/ UNCHANGED vars
      PROVE  kept' = kept
  BY <1>4 DEF ReadForAnswer, ResolveStep, Reread, AnswerSuspended, AnswerPending, Lapse, Overdue,
     vars, row
<1> QED BY <1>1, <1>2, <1>3, <1>4 DEF Next

LEMMA KeptGrows ==
    ASSUME EInv, [Next]_vars, NEW p \in Prompt, kept[p] PROVE kept'[p]
<1>1. CASE \E r \in Run, q \in Prompt : SaveState(r, q)
  BY <1>1 DEF SaveState, EInv, TInv, TypeOK
<1> QED BY <1>1, KeptStays

\* A row is suspended by the run that waits on it, or by a takeover.
LEMMA SuspendedBy ==
    ASSUME EInv, [Next]_vars, NEW p \in Prompt, status'[p] = "suspended", status[p] # "suspended"
    PROVE  \/ \E r \in Run : SuspendWait(r) /\ at[r] = p
           \/ \E t \in Taker : TakeOver(t) /\ job[t].p = p /\ job[t].to = "suspended"
<1> DEFINE Goal == \/ \E r \in Run : SuspendWait(r) /\ at[r] = p
                   \/ \E t \in Taker : TakeOver(t) /\ job[t].p = p /\ job[t].to = "suspended"
<1> USE DEF EInv, TInv
<1>1. ASSUME status' = status PROVE Goal
  BY <1>1
<1>2. ASSUME NEW r \in Run, Create(r) \/ CloseWait(r) \/ EmitFails(r) \/ MarkExecuted(r) \/ WrapUp(r) \/ Abandon(r)
      PROVE  Goal
  BY <1>2 DEF Create, CloseWait, EmitFails, MarkExecuted, WrapUp, Abandon, CAS, TypeOK
<1>3. ASSUME NEW r \in Run, Consume(r) \/ ClaimUnconfirmed(r) \/ Confirm(r) PROVE Goal
  BY <1>3 DEF Consume, ClaimUnconfirmed, Confirm, ClaimOf, CAS, TypeOK
<1>4. ASSUME NEW r \in Run, SuspendWait(r) PROVE Goal
  <2>1. at[r] = p
    BY <1>4 DEF SuspendWait, CAS, TypeOK
  <2> QED BY <1>4, <2>1
<1>5. ASSUME NEW t \in Taker, TakeOver(t) PROVE Goal
  <2>1. job[t].p = p /\ job[t].to = "suspended"
    BY <1>5 DEF TakeOver, TypeOK
  <2> QED BY <1>5, <2>1
<1>6. ASSUME NEW u \in Resolver, ResolveStep(u) PROVE Goal
  BY <1>6 DEF ResolveStep, Reread, AnswerSuspended, AnswerPending, TypeOK, row
<1>7. ASSUME NEW r \in Run,
             \/ Emit(r) \/ Notice(r) \/ LeaveWait(r) \/ DropState(r) \/ RunTool(r) \/ AfterWait(r)
             \/ Finish(r) \/ Settle(r) \/ Build(r) \/ CloseAbandoned(r) \/ Renew(r)
             \/ CloseUnconfirmed(r) \/ ConsumeFails(r) \/ Crash(r)
             \/ \E q \in Prompt : SaveState(r, q) \/ RaisePlain(r, q)
      PROVE  Goal
  BY <1>1, <1>7 DEF Emit, Notice, LeaveWait, DropState, RunTool, AfterWait, Finish, Settle, Build,
     CloseAbandoned, Renew, CloseUnconfirmed, ConsumeFails, Crash, SaveState, RaisePlain, row
<1>8. CASE \/ \E t \in Taker : Hook(t) \/ HookFails(t) \/ DropTaken(t)
           \/ \E j \in Janitor, q \in Prompt : Sweep(j, q) \/ Supersede(j, q)
           \/ \E j \in Janitor : CrashJanitor(j)
           \/ \E u \in Resolver, q \in Prompt : ReadForAnswer(u, q)
           \/ \E q \in Prompt : Lapse(q) \/ Overdue(q)
           \/ UNCHANGED vars
  BY <1>1, <1>8 DEF Hook, HookFails, DropTaken, Sweep, Supersede, CrashJanitor, ReadForAnswer,
     Lapse, Overdue, row, vars
<1> QED BY <1>2, <1>3, <1>4, <1>5, <1>6, <1>7, <1>8 DEF Next, RunStep, TakerStep

\* A raised run creates its row or dies where it is; a dead one stays.
LEMMA RaisedStays ==
    ASSUME EInv, [Next]_vars, NEW q \in Run, pc[q] \in {"raised", "dead"}
    PROVE  Create(q) \/ (at'[q] = at[q] /\ pc'[q] \in {"raised", "dead"})
<1> DEFINE Goal == Create(q) \/ (at'[q] = at[q] /\ pc'[q] \in {"raised", "dead"})
<1> USE DEF EInv, TInv
<1>1. ASSUME pc'[q] = pc[q], at'[q] = at[q] PROVE Goal
  BY <1>1
<1>2. ASSUME NEW r \in Run,
             \/ Emit(r) \/ Notice(r) \/ SuspendWait(r) \/ CloseWait(r) \/ EmitFails(r) \/ LeaveWait(r) \/ DropState(r)
             \/ CloseUnconfirmed(r)
      PROVE  Goal
  BY <1>2 DEF Emit, Notice, SuspendWait, CloseWait, EmitFails, LeaveWait, DropState, CloseUnconfirmed, Leave, Goto,
     TypeOK
<1>3. ASSUME NEW r \in Run,
             \/ Consume(r) \/ ConsumeFails(r) \/ ClaimUnconfirmed(r) \/ Confirm(r)
             \/ RunTool(r) \/ MarkExecuted(r) \/ AfterWait(r) \/ Finish(r)
      PROVE  Goal
  BY <1>3 DEF Consume, ConsumeFails, ClaimUnconfirmed, Confirm, RunTool, MarkExecuted, AfterWait,
     Finish, Goto, TypeOK
<1>4. ASSUME NEW r \in Run,
             \/ Settle(r) \/ Build(r) \/ WrapUp(r) \/ Abandon(r) \/ CloseAbandoned(r)
             \/ Renew(r) \/ Crash(r)
      PROVE  Goal
  BY <1>4 DEF Settle, Build, WrapUp, Abandon, CloseAbandoned, Renew, Crash, Goto, TypeOK, run
<1>5. ASSUME NEW r \in Run, Create(r) PROVE Goal
  <2>1. CASE r = q
    BY <1>5, <2>1
  <2>2. CASE r # q
    BY <1>5, <2>2 DEF Create, Goto, TypeOK
  <2> QED BY <2>1, <2>2
<1>6. ASSUME NEW r \in Run, NEW p \in Prompt, SaveState(r, p) \/ RaisePlain(r, p) PROVE Goal
  BY <1>6 DEF SaveState, RaisePlain, Goto, TypeOK
<1>7. ASSUME NEW u \in Resolver, ResolveStep(u) PROVE Goal
  <2>1. at' = at /\ (pc' = pc \/ \E r \in Run : pc[r] = "unborn" /\ Goto(r, "settling"))
    BY <1>7 DEF ResolveStep, Reread, AnswerSuspended, AnswerPending, run
  <2> QED BY <2>1 DEF Goto, TypeOK
<1>8. CASE \/ \E t \in Taker : TakerStep(t)
           \/ \E j \in Janitor, p \in Prompt : Sweep(j, p) \/ Supersede(j, p)
           \/ \E j \in Janitor : CrashJanitor(j)
           \/ \E u \in Resolver, p \in Prompt : ReadForAnswer(u, p)
           \/ \E p \in Prompt : Lapse(p) \/ Overdue(p)
           \/ UNCHANGED vars
  BY <1>1, <1>8 DEF TakerStep, TakeOver, Hook, HookFails, DropTaken, Sweep, Supersede, CrashJanitor,
     ReadForAnswer, Lapse, Overdue, vars, run
<1> QED BY <1>2, <1>3, <1>4, <1>5, <1>6, <1>7, <1>8 DEF Next, RunStep

LEMMA OrphanStep == ASSUME EInv, Orphans, [Next]_vars PROVE Orphans'
<1> SUFFICES ASSUME NEW p \in Prompt, kept'[p], status'[p] = "none"
             PROVE  \E q \in Run : at'[q] = p /\ pc'[q] \in {"raised", "dead"}
  BY DEF Orphans
<1>1. status[p] = "none"
  BY RowStep
<1>2. CASE kept[p]
  <2>1. PICK q \in Run : at[q] = p /\ pc[q] \in {"raised", "dead"}
    BY <1>1, <1>2 DEF Orphans
  <2>2. ~Create(q)
    BY <2>1 DEF Create, EInv, TInv, TypeOK
  <2> QED BY <2>1, <2>2, RaisedStays
<1>3. CASE ~kept[p]
  <2>1. PICK r \in Run, x \in Prompt : SaveState(r, x)
    BY <1>3, KeptStays
  <2>2. x = p
    BY <1>3, <2>1 DEF SaveState, EInv, TInv, TypeOK
  <2>3. at'[r] = p /\ pc'[r] = "raised"
    BY <2>1, <2>2 DEF SaveState, Goto, EInv, TInv, TypeOK
  <2> QED BY <2>3
<1> QED BY <1>2, <1>3

\* Where a takeover's record comes from: read off a row, or carried one step on.
LEMMA JobComes ==
    ASSUME EInv, [Next]_vars, NEW t \in Taker, job'[t] # job[t], job'[t].pc # "idle"
    PROVE  \/ /\ job'[t].pc = "cas" /\ job'[t].p \in Prompt
              /\ job'[t].to = "suspended" => kept[job'[t].p]
           \/ /\ TakeOver(t) /\ job'[t].pc = "hook"
              /\ job'[t].p = job[t].p /\ job'[t].to = job[t].to
              /\ status' = [status EXCEPT ![job[t].p] = job[t].to]
           \/ /\ Hook(t) /\ job'[t].pc = "drop" /\ job'[t].p = job[t].p
              /\ job[t].to # "suspended"
<1> DEFINE Goal == \/ /\ job'[t].pc = "cas" /\ job'[t].p \in Prompt
                      /\ job'[t].to = "suspended" => kept[job'[t].p]
                   \/ /\ TakeOver(t) /\ job'[t].pc = "hook"
                      /\ job'[t].p = job[t].p /\ job'[t].to = job[t].to
                      /\ status' = [status EXCEPT ![job[t].p] = job[t].to]
                   \/ /\ Hook(t) /\ job'[t].pc = "drop" /\ job'[t].p = job[t].p
                      /\ job[t].to # "suspended"
<1> USE DEF EInv, TInv
<1>0. job \in [Taker -> Jobs] /\ Janitor \subseteq Taker /\ Resolver \subseteq Taker
  BY DEF TypeOK, Jobs, Taker
<1>1. ASSUME NEW v, Over(v).pc # "idle" PROVE FALSE
  BY <1>1 DEF Over, IdleJob
<1>2. ASSUME NEW q \in Prompt, NEW from, NEW to, StartJob(t, q, from, to),
             to = "suspended" => HasState(q)
      PROVE  Goal
  BY <1>0, <1>2 DEF StartJob, HasState
<1>3. ASSUME NEW v \in Taker, TakerStep(v) PROVE Goal
  <2>1. v = t
    BY <1>0, <1>3 DEF TakerStep, TakeOver, Hook, HookFails, DropTaken
  <2>2. \A l : LET b == [job[t] EXCEPT !.pc = l] IN b.pc = l /\ b.p = job[t].p /\ b.to = job[t].to
    BY <1>0 DEF Jobs
  <2>3. CASE TakeOver(t)
    <3>1. job'[t] # Over(t)
      BY <1>1
    <3>2. /\ job'[t] = [job[t] EXCEPT !.pc = "hook"]
          /\ status' = [status EXCEPT ![job[t].p] = job[t].to]
      BY <1>0, <2>3, <3>1 DEF TakeOver
    <3> QED BY <2>2, <2>3, <3>2
  <2>4. CASE Hook(t)
    <3>1. job'[t] # Over(t)
      BY <1>1
    <3>2. job'[t] = [job[t] EXCEPT !.pc = "drop"] /\ job[t].to # "suspended"
      BY <1>0, <2>4, <3>1 DEF Hook
    <3> QED BY <2>2, <2>4, <3>2
  <2>5. CASE DropTaken(t) \/ HookFails(t)
    BY <1>0, <1>1, <2>5 DEF DropTaken, HookFails
  <2> QED BY <1>3, <2>1, <2>3, <2>4, <2>5 DEF TakerStep
<1>4. ASSUME NEW j \in Janitor, NEW q \in Prompt, Sweep(j, q) \/ Supersede(j, q) PROVE Goal
  <2>1. j = t
    BY <1>0, <1>4 DEF Sweep, Supersede, StartReapPending, StartJob
  <2>2. \E from, to : StartJob(t, q, from, to) /\ (to = "suspended" => HasState(q))
    BY <1>4, <2>1 DEF Sweep, Supersede, StartReapPending
  <2> QED BY <1>2, <2>2
<1>5. ASSUME NEW u \in Resolver, NEW q \in Prompt, ReadForAnswer(u, q) PROVE Goal
  <2>1. u = t
    BY <1>0, <1>5 DEF ReadForAnswer, StartReapPending, StartJob
  <2>2. RowRead(q).pc = "idle"
    BY DEF RowRead, IdleJob
  <2>3. \E from, to : StartJob(t, q, from, to) /\ (to = "suspended" => HasState(q))
    BY <1>0, <1>5, <2>1, <2>2 DEF ReadForAnswer, StartReapPending
  <2> QED BY <1>2, <2>3
<1>6. ASSUME NEW u \in Resolver, ResolveStep(u) PROVE Goal
  <2>1. RowRead(job[u].p).pc = "idle"
    BY DEF RowRead, IdleJob
  <2>2. job' = job \/ job' = [job EXCEPT ![u] = RowRead(job[u].p)]
    BY <1>6 DEF ResolveStep, Reread, AnswerSuspended, AnswerPending
  <2> QED BY <1>0, <2>1, <2>2
<1>7. ASSUME NEW j \in Janitor, CrashJanitor(j) PROVE Goal
  BY <1>0, <1>7 DEF CrashJanitor, IdleJob
<1>8. CASE \E r \in Run : RunStep(r) \/ Renew(r) \/ CloseUnconfirmed(r) \/ ConsumeFails(r)
             \/ ClaimUnconfirmed(r) \/ Crash(r)
  BY <1>8 DEF RunStep, Create, Emit, Notice, SuspendWait, CloseWait, EmitFails, LeaveWait, DropState, Consume, Confirm,
     RunTool, MarkExecuted, AfterWait, Finish, Settle, Build, WrapUp, Abandon, CloseAbandoned,
     Renew, CloseUnconfirmed, ConsumeFails, ClaimUnconfirmed, Crash
<1>9. CASE \/ \E r \in Run, q \in Prompt : SaveState(r, q) \/ RaisePlain(r, q)
           \/ \E q \in Prompt : Lapse(q) \/ Overdue(q)
           \/ UNCHANGED vars
  BY <1>9 DEF SaveState, RaisePlain, Lapse, Overdue, vars
<1> QED BY <1>3, <1>4, <1>5, <1>6, <1>7, <1>8, <1>9 DEF Next

LEMMA PastStep == ASSUME EInv, PastOK, [Next]_vars PROVE PastOK'
<1> USE DEF EInv, TInv
<1>1. ASSUME NEW r \in Run, res'[r] \in Prompt PROVE status'[res'[r]] \in Past
  <2>1. CASE res'[r] = res[r]
    BY <1>1, <2>1, PastStays DEF PastOK
  <2> QED BY <1>1, <2>1, ComesStep DEF Comes, Past
<1>2. ASSUME NEW t \in Taker, job'[t].pc = "cas", job'[t].to = "suspended" PROVE kept'[job'[t].p]
  <2>1. job'[t].p \in Prompt
    BY <1>2, MovesStep DEF MovesOK
  <2>2. kept[job'[t].p]
    <3>1. CASE job'[t] = job[t]
      BY <1>2, <3>1 DEF PastOK
    <3>2. CASE job'[t] # job[t]
      BY <1>2, <3>2, JobComes
    <3> QED BY <3>1, <3>2
  <2> QED BY <2>1, <2>2, KeptGrows
<1>3. ASSUME NEW t \in Taker PROVE JobPast(t)'
  <2>1. SUFFICES ASSUME job'[t].pc = "drop" \/ (job'[t].pc = "hook" /\ job'[t].to # "suspended")
                 PROVE  job'[t].p \in Prompt /\ status'[job'[t].p] \in Past
    BY DEF JobPast
  <2>2. CASE job'[t] = job[t]
    <3>1. job[t].p \in Prompt /\ status[job[t].p] \in Past
      BY <2>1, <2>2 DEF PastOK, JobPast
    <3> QED BY <2>2, <3>1, PastStays
  <2>3. CASE /\ TakeOver(t) /\ job'[t].pc = "hook"
             /\ job'[t].p = job[t].p /\ job'[t].to = job[t].to
             /\ status' = [status EXCEPT ![job[t].p] = job[t].to]
    <3>1. job[t].p \in Prompt /\ job[t].to \in {"expired", "superseded", "failed"}
      BY <2>1, <2>3 DEF TakeOver, MovesOK
    <3> QED BY <2>3, <3>1 DEF TypeOK, Past, Ended
  <2>4. CASE Hook(t) /\ job'[t].p = job[t].p /\ job[t].to # "suspended"
    <3>1. job[t].p \in Prompt /\ status[job[t].p] \in Past
      BY <2>4 DEF Hook, PastOK, JobPast
    <3> QED BY <2>4, <3>1, PastStays
  <2>5. CASE job'[t] # job[t]
    BY <2>1, <2>3, <2>4, <2>5, JobComes
  <2> QED BY <2>2, <2>5
<1> QED BY <1>1, <1>2, <1>3 DEF PastOK

\* The saved state of a prompt that is open, or about to be, is not dropped.
LEMMA SnapStays ==
    ASSUME EInv, PastOK, Tokens, [Next]_vars, ~(\E r \in Run, x \in Prompt : SaveState(r, x)),
           NEW p \in Prompt, snap = p, Opened(p) \/ \E r \in Run : pc[r] = "raised" /\ at[r] = p
    PROVE  snap' = p
<1> USE DEF EInv, TInv
<1>0. status[p] \notin Past
  BY DEF Opened, PlaceOK, Open, Past, Ended
<1>1. ASSUME snap' = snap PROVE snap' = p
  BY <1>1
<1>2. ASSUME NEW r \in Run, DropState(r) PROVE snap' = p
  <2>1. pc[r] = "dropping" /\ out[r] \in {"closed", "answered"}
    BY <1>2 DEF DropState, Tokens, CleanRun, Back, TypeOK, InAwait
  <2>2. Live(r)
    BY <2>1 DEF Live, Driving, Back, InAwait
  <2>3. \A q \in Run : pc[q] # "raised"
    BY <2>1, <2>2 DEF Tokens, OneToken, Live, Driving
  <2>4. FALSE
    BY <2>2, <2>3 DEF Tokens, OneToken
  <2> QED BY <2>4
<1>3. ASSUME NEW r \in Run, WrapUp(r) \/ CloseAbandoned(r) PROVE snap' = p
  <2>1. res[r] # p
    BY <1>0 DEF PastOK
  <2> QED BY <1>3, <2>1 DEF WrapUp, CloseAbandoned, DropSnap
<1>4. ASSUME NEW t \in Taker, DropTaken(t) PROVE snap' = p
  <2>1. job[t].p # p
    BY <1>0, <1>4 DEF PastOK, JobPast, DropTaken
  <2> QED BY <1>4, <2>1 DEF DropTaken, DropSnap
<1>5. ASSUME NEW r \in Run,
             \/ Create(r) \/ Emit(r) \/ Notice(r) \/ SuspendWait(r) \/ CloseWait(r) \/ EmitFails(r)
             \/ LeaveWait(r) \/ Consume(r) \/ Confirm(r)
             \/ RunTool(r) \/ MarkExecuted(r) \/ AfterWait(r) \/ Finish(r)
             \/ Settle(r) \/ Build(r) \/ Abandon(r) \/ Renew(r) \/ CloseUnconfirmed(r)
             \/ ConsumeFails(r) \/ ClaimUnconfirmed(r) \/ Crash(r)
             \/ \E x \in Prompt : RaisePlain(r, x)
      PROVE  snap' = snap
  BY <1>5 DEF Create, Emit, Notice, SuspendWait, CloseWait, EmitFails, LeaveWait, Consume, Confirm, RunTool,
     MarkExecuted, AfterWait, Finish, Settle, Build, Abandon, Renew, CloseUnconfirmed,
     ConsumeFails, ClaimUnconfirmed, Crash, RaisePlain
<1>6. ASSUME \/ \E t \in Taker : TakeOver(t) \/ Hook(t) \/ HookFails(t)
             \/ \E j \in Janitor, x \in Prompt : Sweep(j, x) \/ Supersede(j, x)
             \/ \E j \in Janitor : CrashJanitor(j)
             \/ \E u \in Resolver, x \in Prompt : ReadForAnswer(u, x)
             \/ \E u \in Resolver : ResolveStep(u)
             \/ \E x \in Prompt : Lapse(x) \/ Overdue(x)
             \/ UNCHANGED vars
      PROVE  snap' = snap
  BY <1>6 DEF TakeOver, Hook, HookFails, Sweep, Supersede, CrashJanitor, ReadForAnswer, ResolveStep, Reread,
     AnswerSuspended, AnswerPending, Lapse, Overdue, vars
<1> QED BY <1>1, <1>2, <1>3, <1>4, <1>5, <1>6 DEF Next, RunStep, TakerStep

LEMMA KeptStep ==
    ASSUME EInv, Orphans, PastOK, Tokens, Kept, [Next]_vars PROVE Kept'
<1> USE DEF EInv, TInv
<1>1. ASSUME NEW p \in Prompt, status'[p] = "suspended" PROVE kept'[p]
  <2>1. CASE status[p] = "suspended"
    BY <2>1, KeptGrows DEF Kept
  <2>2. ASSUME NEW r \in Run, SuspendWait(r), at[r] = p PROVE kept[p]
    BY <2>2 DEF SuspendWait
  <2>3. ASSUME NEW t \in Taker, TakeOver(t), job[t].p = p, job[t].to = "suspended" PROVE kept[p]
    BY <2>3 DEF TakeOver, PastOK
  <2>4. CASE status[p] # "suspended"
    BY <1>1, <2>2, <2>3, <2>4, SuspendedBy, KeptGrows
  <2> QED BY <2>1, <2>4
<1>2. CASE \E r \in Run, x \in Prompt : SaveState(r, x)
  <2>1. PICK r \in Run, x \in Prompt : SaveState(r, x)
    BY <1>2
  <2>2. /\ pc[r] = "working" /\ snap' = x /\ status' = status /\ at'[r] = x
        /\ \A q \in Run : q # r => pc'[q] = pc[q] /\ at'[q] = at[q]
    BY <2>1 DEF SaveState, Goto, TypeOK
  <2>3. Live(r)
    BY <2>2 DEF Live, Driving
  <2>4. \A p \in Prompt : ~Opened(p)'
    BY <2>2, <2>3 DEF Tokens, OneToken, Opened
  <2>5. \A q \in Run : pc'[q] = "raised" => q = r
    BY <2>2, <2>3 DEF Tokens, OneToken, Live, Driving
  <2> QED BY <1>1, <2>2, <2>4, <2>5 DEF Kept
<1>3. CASE ~(\E r \in Run, x \in Prompt : SaveState(r, x))
  <2>1. kept' = kept
    BY <1>3, KeptStays
  <2>2. ASSUME NEW p \in Prompt, Opened(p)', kept'[p] PROVE snap' = p
    <3>1. CASE Opened(p)
      BY <1>3, <2>1, <2>2, <3>1, SnapStays DEF Kept
    <3>2. CASE ~Opened(p)
      <4>1. status[p] = "none"
        <5>1. status'[p] \notin Past
          BY <2>2 DEF Opened, Open, Past, Ended
        <5>2. status[p] \notin Past /\ status[p] \in Status
          BY <5>1, PastStays DEF TypeOK
        <5> QED BY <3>2, <5>2 DEF Opened, Open, Past, Ended, Status
      <4>2. status'[p] # "none"
        BY <2>2 DEF Opened, Open
      <4>3. PICK r \in Run : Create(r) /\ at[r] = p
        BY <4>1, <4>2, NoneStep
      <4>4. pc[r] = "raised" /\ snap = p
        BY <2>1, <2>2, <4>3 DEF Create, Kept
      <4> QED BY <1>3, <4>3, <4>4, SnapStays
    <3> QED BY <3>1, <3>2
  <2>3. ASSUME NEW r \in Run, pc'[r] = "raised", kept'[at'[r]] PROVE snap' = at'[r]
    <3>1. CASE pc[r] = "raised" /\ at'[r] = at[r]
      <4>1. at[r] \in Prompt /\ snap = at[r]
        BY <2>1, <2>3, <3>1 DEF Kept, PlaceOK
      <4> QED BY <1>3, <3>1, <4>1, SnapStays
    <3>2. ASSUME NEW p \in Prompt, RaisePlain(r, p) PROVE FALSE
      <4>1. at'[r] = p /\ status[p] = "none" /\ \A q \in Run : at[q] # p
        BY <3>2 DEF RaisePlain, TypeOK
      <4> QED BY <2>1, <2>3, <4>1 DEF Orphans
    <3> QED BY <1>3, <2>3, <3>1, <3>2, ComesStep DEF Comes
  <2> QED BY <1>1, <2>2, <2>3 DEF Kept
<1> QED BY <1>2, <1>3

\* As long as the store confirms every write and no run has strayed, the run state of
\* a suspended prompt is the one saved for the message: neither the owner that left, nor a run resumed
\* before, nor a late takeover drops it, and no later prompt replaces it.
THEOREM SuspendedResumableHolds == Spec => [](faults = 0 => SuspendedResumable)
<1>1. Init => SInv
  <2>1. Init => Orphans /\ PastOK /\ Kept
    BY PromptAssumption
    DEF Init, Orphans, PastOK, Kept, JobPast, IdleJob, Opened, Open
  <2> QED BY <2>1, EInit, TokenInit DEF SInv
<1>2. SInv /\ [Next]_vars => SInv'
  <2> SUFFICES ASSUME SInv, [Next]_vars PROVE SInv'
    OBVIOUS
  <2>1. EInv /\ Orphans /\ PastOK /\ (Clean => Tokens)
    BY DEF SInv
  <2>2. EInv'
    BY <2>1, EStep
  <2>3. Orphans' /\ PastOK'
    BY <2>1, OrphanStep, PastStep
  <2>4. ASSUME Clean' PROVE Tokens' /\ Kept'
    <3>1. Tokens' /\ Tokens /\ Clean
      BY <2>1, <2>4, TokenStep
    <3>2. Kept
      BY <3>1 DEF SInv
    <3> QED BY <2>1, <3>1, <3>2, KeptStep
  <2> QED BY <2>2, <2>3, <2>4 DEF SInv
<1>3. SInv => (faults = 0 => SuspendedResumable)
  BY DEF SInv, Clean, Kept, SuspendedResumable, HasState, Opened, Open
<1> QED BY <1>1, <1>2, <1>3, PTL DEF Spec
=============================================================================
