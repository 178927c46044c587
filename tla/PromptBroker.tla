---------------------------- MODULE PromptBroker ----------------------------
(***************************************************************************)
(* Human-in-the-loop prompts of one assistant message: the prompt broker   *)
(* (src/internal/agent/hitl), the approval gate that consumes an answer,   *)
(* the handler that resumes a suspended run, and the reaper.               *)
(*                                                                         *)
(* A run raises a prompt and waits for it in memory.  The prompt row is    *)
(* the only shared truth: every move of it is one compare-and-set, fenced  *)
(* by status, owner token and lease.  A lease is a BOOLEAN (TRUE: its      *)
(* deadline is in the future); Lapse is the passing of that deadline,      *)
(* which a paused or partitioned owner suffers as well as a dead one.      *)
(*                                                                         *)
(* A run is its own owner token: Await draws a fresh token for each wait,  *)
(* Resolve draws one for each resumed run, and no run owns a row twice.    *)
(***************************************************************************)
EXTENDS Integers, FiniteSets

CONSTANTS Prompt,         \* prompts the message's runs may raise
          Run,            \* runs of the message: the first one and resumed ones
          First,          \* the run that starts the message
          Resolver,       \* answers users submit, one Resolve call each
          Approving,      \* the answers that approve the blocked call
          Janitor,        \* reaper sweeps and superseding requests
          None,
          MaxCrashes,     \* bound on crashes of runs and janitors
          MaxFaults       \* bound on writes the store fails to confirm

ASSUME PromptAssumption ==
    /\ First \in Run
    /\ Approving \subseteq Resolver
    /\ None \notin Prompt \cup Run \cup Resolver
    /\ Resolver \cap Janitor = {}
    /\ MaxCrashes \in Nat /\ MaxFaults \in Nat

VARIABLES status, owner, lease, kept, overdue, answer,   \* the prompt rows
          snap,                     \* the saved run state of the message
          msgDone, msgAwaiting,     \* the message row
          pc, at, out,              \* the runs: where, on which prompt, its outcome
          res, orphan,              \* the prompt a run resumes; OwnerGone
          job,                      \* takeovers in progress
          verdict,                  \* what each Resolve call told its user
          effects,                  \* side effects run per prompt
          crashes, faults,
          strayed      \* history: a run went on past a prompt taken from it

row  == <<status, owner, lease, kept, overdue, answer>>
msg  == <<msgDone, msgAwaiting>>
run  == <<pc, at, out, res, orphan>>
vars == <<row, snap, msg, run, job, verdict, effects, crashes, faults, strayed>>

Status == {"none", "pending", "suspended", "answered", "executing",
           "done", "failed", "canceled", "expired", "superseded"}
Open   == {"pending", "suspended"}
Leased == {"pending", "answered", "executing"}
Taker  == Janitor \cup Resolver
IdleJob == [pc |-> "idle", p |-> None, own |-> None, from |-> "none",
            to |-> "none", has |-> FALSE, gone |-> FALSE]

(***************************************************************************)
(* The row's compare-and-set.  `who' is the expected owner (any owner when *)
(* it equals owner[p]); the caller states lease and expiry guards.         *)
(***************************************************************************)
CAS(p, from, to, who) ==
    /\ status[p] \in from
    /\ owner[p] = who
    /\ status' = [status EXCEPT ![p] = to]

\* runState: the saved state, unless the row has none or it is another prompt's.
HasState(p) == kept[p] /\ snap = p

\* Mutant: Delete by message alone, whichever prompt the state belongs to.
DropAnySnap(p) == snap' = None

\* SuspensionStore.Delete: only while the state still belongs to the prompt.
DropSnap(p) == snap' = IF snap = p THEN None ELSE snap

Goto(r, l) == pc' = [pc EXCEPT ![r] = l]

Init ==
    /\ status = [p \in Prompt |-> "none"]
    /\ owner = [p \in Prompt |-> None]
    /\ lease = [p \in Prompt |-> FALSE]
    /\ kept = [p \in Prompt |-> FALSE]
    /\ overdue = [p \in Prompt |-> FALSE]
    /\ answer = [p \in Prompt |-> None]
    /\ snap = None
    /\ msgDone = FALSE /\ msgAwaiting = FALSE
    /\ pc = [r \in Run |-> IF r = First THEN "working" ELSE "unborn"]
    /\ at = [r \in Run |-> None]
    /\ out = [r \in Run |-> "none"]
    /\ res = [r \in Run |-> None]
    /\ orphan = [r \in Run |-> FALSE]
    /\ job = [t \in Taker |-> IdleJob]
    /\ verdict = [u \in Resolver |-> "none"]
    /\ effects = [p \in Prompt |-> 0]
    /\ crashes = 0 /\ faults = 0
    /\ strayed = FALSE

-----------------------------------------------------------------------------
(* Await: save the run state, create the row, wait.                        *)

\* A suspendable prompt saves its run state before the row exists.
SaveState(r, p) ==
    /\ pc[r] = "working" /\ status[p] = "none"
    /\ \A q \in Run : at[q] # p
    /\ snap' = p
    /\ kept' = [kept EXCEPT ![p] = TRUE]
    /\ at' = [at EXCEPT ![r] = p]
    /\ Goto(r, "raised")
    /\ UNCHANGED <<status, owner, lease, overdue, answer, msg, out, res, orphan, job,
                   verdict, effects, crashes, faults, strayed>>

\* A plain prompt, or one whose run state could not be saved (FallbackTimeout).
RaisePlain(r, p) ==
    /\ pc[r] = "working" /\ status[p] = "none"
    /\ \A q \in Run : at[q] # p
    /\ at' = [at EXCEPT ![r] = p]
    /\ Goto(r, "raised")
    /\ UNCHANGED <<row, snap, msg, out, res, orphan, job, verdict, effects, crashes, faults, strayed>>

Create(r) ==
    /\ pc[r] = "raised"
    /\ status' = [status EXCEPT ![at[r]] = "pending"]
    /\ owner' = [owner EXCEPT ![at[r]] = r]
    /\ lease' = [lease EXCEPT ![at[r]] = TRUE]
    /\ Goto(r, "emitting")
    /\ UNCHANGED <<kept, overdue, answer, snap, msg, at, out, res, orphan, job, verdict,
                   effects, crashes, faults, strayed>>

\* The prompt is shown to the user; only then do the timers start, the one that
\* renews the lease among them.
Emit(r) ==
    /\ pc[r] = "emitting"
    /\ Goto(r, "waiting")
    /\ UNCHANGED <<row, snap, msg, at, out, res, orphan, job, verdict, effects, crashes,
                   faults, strayed>>

\* Mutant: the outcome repeats the row's status.
OutcomeOfRow(r, p) == status[p]

\* Mutant: the row is read without comparing its owner.
OutcomeOfStatus(r, p) ==
    IF status[p] \in {"suspended", "answered"} THEN status[p] ELSE "closed"

\* The outcome `closed' reads off a row that left pending.
OutcomeOf(r, p) ==
    IF owner[p] # r THEN "detached"
    ELSE IF status[p] \in {"suspended", "answered"} THEN status[p]
    ELSE "closed"

Leave(r, o) ==
    /\ out' = [out EXCEPT ![r] = o]
    /\ Goto(r, "leaving")

\* A wake-up or a poll finds the row closed, or taken over by another owner.
Notice(r) ==
    /\ pc[r] = "waiting"
    /\ status[at[r]] # "pending"
    /\ Leave(r, OutcomeOf(r, at[r]))
    /\ UNCHANGED <<row, snap, msg, at, res, orphan, job, verdict, effects, crashes, faults, strayed>>

\* The timer of a suspendable prompt: suspend.  The lease is left as it is.
SuspendWait(r) ==
    /\ pc[r] = "waiting" /\ kept[at[r]]
    /\ CAS(at[r], {"pending"}, "suspended", r)
    /\ Leave(r, "suspended")
    /\ UNCHANGED <<owner, lease, kept, overdue, answer, snap, msg, at, res, orphan, job,
                   verdict, effects, crashes, faults, strayed>>

\* The prompt cannot be shown: closeAsOwner cancels it if it still can, and Await
\* returns an error whatever came of that.  The run goes on, even one whose
\* prompt was taken over meanwhile.
EmitFails(r) ==
    /\ pc[r] = "emitting"
    /\ \/ CAS(at[r], {"pending"}, "canceled", r)
       \/ /\ status[at[r]] # "pending" \/ owner[at[r]] # r
          /\ UNCHANGED status
    /\ strayed' = (strayed \/ owner[at[r]] # r)
    /\ Leave(r, "closed")
    /\ UNCHANGED <<owner, lease, kept, overdue, answer, snap, msg, at, res, orphan, job,
                   verdict, effects, crashes, faults>>

\* closeAsOwner: the timer of a plain prompt, or the end of the request.
CloseWait(r) ==
    /\ pc[r] = "waiting"
    /\ \E to \in {"expired", "canceled"} :
         /\ to = "expired" => ~kept[at[r]]
         /\ CAS(at[r], {"pending"}, to, r)
    /\ Leave(r, "closed")
    /\ UNCHANGED <<owner, lease, kept, overdue, answer, snap, msg, at, res, orphan, job,
                   verdict, effects, crashes, faults, strayed>>

\* The store fails while the waiter closes or suspends its prompt: neither the
\* write nor the read after it is confirmed, and Await reports the timeout or
\* the cancellation whatever the row says.
CloseUnconfirmed(r) ==
    /\ pc[r] \in {"emitting", "waiting"} /\ faults < MaxFaults
    /\ faults' = faults + 1
    /\ Leave(r, "closed")
    /\ UNCHANGED <<row, snap, msg, at, res, orphan, job, verdict, effects, crashes, strayed>>

\* Await's deferred clean-up: unless the run was suspended, read the row and
\* drop the run state while this run still owns the row.
LeaveWait(r) ==
    /\ pc[r] = "leaving"
    /\ Goto(r, IF out[r] \notin {"suspended", "detached"} /\ kept[at[r]] /\ owner[at[r]] = r
               THEN "dropping" ELSE "returned")
    /\ UNCHANGED <<row, snap, msg, at, out, res, orphan, job, verdict, effects, crashes, faults, strayed>>

DropState(r) ==
    /\ pc[r] = "dropping"
    /\ DropSnap(at[r])
    /\ Goto(r, "returned")
    /\ UNCHANGED <<row, msg, at, out, res, orphan, job, verdict, effects, crashes, faults, strayed>>

\* The owner of a prompt renews its lease while it waits (Await) or while it
\* resumes the run (KeepLease).
Renew(r) ==
    \E p \in Prompt :
       /\ \/ pc[r] = "waiting" /\ at[r] = p
          \/ res[r] = p /\ pc[r] \notin {"unborn", "dead", "gone", "abandoning", "closing"}
       /\ owner[p] = r /\ status[p] \in Leased /\ ~lease[p]      \* RenewLease
       /\ lease' = [lease EXCEPT ![p] = TRUE]
       /\ UNCHANGED <<status, owner, kept, overdue, answer, snap, msg, run, job,
                      verdict, effects, crashes, faults, strayed>>

-----------------------------------------------------------------------------
(* The run after Await: the gate consumes the answer, the tool runs.       *)

\* Mutant: a resumed run is not wrapped up.
EndsAlone(r) == "gone"

Ends(r) == IF res[r] = None THEN "gone" ELSE "wrapping"

\* Mutant: whatever the user answered counts as an approval.
AnyAnswerApproves(p) == answer[p] # None

Approved(p) == answer[p] \in Approving

\* An approved call stays "executing" until MarkExecuted.
ClaimOf(p) == IF Approved(p) THEN "executing" ELSE "done"

\* Consume: claim the answered row before acting on the answer.
Consume(r) ==
    /\ pc[r] = "returned" /\ out[r] = "answered"
    /\ LET p == at[r]
       IN  \/ /\ CAS(p, {"answered"}, ClaimOf(p), r)
              /\ Goto(r, IF Approved(p) THEN "acting" ELSE "working")
           \/ /\ status[p] # "answered" \/ owner[p] # r
              /\ Goto(r, Ends(r))
              /\ UNCHANGED status
    /\ UNCHANGED <<owner, lease, kept, overdue, answer, snap, msg, at, out, res, orphan,
                   job, verdict, effects, crashes, faults, strayed>>

\* The request was canceled before the claim; the tool does not run.
ConsumeFails(r) ==
    /\ pc[r] = "returned" /\ out[r] = "answered"
    /\ Goto(r, "working")
    /\ UNCHANGED <<row, snap, msg, at, out, res, orphan, job, verdict, effects, crashes, faults, strayed>>

\* The store confirms no attempt.  Whether one was written ("claimed") or not
\* ("unsure") the run cannot tell.
ClaimUnconfirmed(r) ==
    /\ pc[r] = "returned" /\ out[r] = "answered"
    /\ faults < MaxFaults /\ faults' = faults + 1
    /\ \/ CAS(at[r], {"answered"}, ClaimOf(at[r]), r) /\ Goto(r, "claimed")
       \/ Goto(r, "unsure") /\ UNCHANGED status
    /\ UNCHANGED <<owner, lease, kept, overdue, answer, snap, msg, at, out, res, orphan,
                   job, verdict, effects, crashes, strayed>>

\* Mutant: the row is read back without comparing its owner and its status.
IsMineIfClaimed(r, p) == status[p] \in {"executing", "done", "failed"}

IsMine(r, p) == owner[p] = r /\ status[p] = ClaimOf(p)

\* A retry, or the row that is read back in the end, settles it; otherwise the run
\* closes its own prompt as failed, if it can.
Confirm(r) ==
    /\ pc[r] \in {"unsure", "claimed"}
    /\ LET p == at[r]
       IN  \/ /\ \/ CAS(p, {"answered"}, ClaimOf(p), r)
                 \/ IsMine(r, p) /\ UNCHANGED status
              /\ Goto(r, IF Approved(p) THEN "acting" ELSE "working")
           \/ /\ owner[p] # r \/ status[p] \notin {"answered", ClaimOf(p)}
              /\ Goto(r, Ends(r)) /\ UNCHANGED status
           \/ /\ CAS(p, {"answered", "executing"}, "failed", r) \/ UNCHANGED status
              /\ Goto(r, "working")
    /\ UNCHANGED <<owner, lease, kept, overdue, answer, snap, msg, at, out, res, orphan,
                   job, verdict, effects, crashes, faults, strayed>>

\* The approved call runs its side effect, then MarkExecuted records it.
RunTool(r) ==
    /\ pc[r] = "acting"
    /\ effects' = [effects EXCEPT ![at[r]] = @ + 1]
    /\ Goto(r, "marking")
    /\ UNCHANGED <<row, snap, msg, at, out, res, orphan, job, verdict, crashes, faults, strayed>>

MarkExecuted(r) ==
    /\ pc[r] = "marking"
    /\ status' = [status EXCEPT ![at[r]] = IF @ = "executing" THEN "done" ELSE @]
    /\ Goto(r, "working")
    /\ UNCHANGED <<owner, lease, kept, overdue, answer, snap, msg, at, out, res, orphan,
                   job, verdict, effects, crashes, faults, strayed>>

\* A prompt that closed without an answer only fails the tool; a suspended run
\* stores its message as awaiting input; a detached run stores nothing.
AfterWait(r) ==
    /\ pc[r] = "returned" /\ out[r] # "answered"
    /\ Goto(r, IF out[r] = "closed" THEN "working" ELSE Ends(r))
    /\ msgAwaiting' = (msgAwaiting \/ out[r] = "suspended")
    /\ UNCHANGED <<row, snap, msgDone, at, out, res, orphan, job, verdict, effects, crashes, faults, strayed>>

\* The run ends and completes its message.
Finish(r) ==
    /\ pc[r] = "working"
    /\ msgDone' = TRUE /\ msgAwaiting' = FALSE
    /\ Goto(r, Ends(r))
    /\ UNCHANGED <<row, snap, at, out, res, orphan, job, verdict, effects, crashes, faults, strayed>>

-----------------------------------------------------------------------------
(* Resuming: the run Resolve hands the answered prompt to.                 *)

\* awaitSuspendedRunSettled: wait until whoever suspended the prompt has stored
\* the message as awaiting input; when the owner is gone, or the deadline has
\* passed without it, store it from the saved state.  The deadline is assumed
\* to be long enough for a writer that is not gone.
Suspending(p) ==
    \/ \E q \in Run : at[q] = p /\ out[q] = "suspended" /\ pc[q] \in {"leaving", "returned"}
    \/ \E t \in Taker : job[t].pc = "hook" /\ job[t].p = p

Settle(r) ==
    /\ pc[r] = "settling"
    /\ \/ /\ msgDone
          /\ Goto(r, "abandoning") /\ UNCHANGED msg
       \/ /\ ~msgDone /\ msgAwaiting
          /\ Goto(r, "building") /\ UNCHANGED msg
       \/ /\ ~msgDone /\ ~msgAwaiting
          /\ orphan[r] \/ ~Suspending(res[r])
          /\ IF snap = res[r]
             THEN msgAwaiting' = TRUE /\ Goto(r, "building")
             ELSE UNCHANGED msgAwaiting /\ Goto(r, "abandoning")
          /\ UNCHANGED msgDone
    /\ UNCHANGED <<row, snap, at, out, res, orphan, job, verdict, effects, crashes, faults, strayed>>

\* buildResumeRequest: reopen the message and hand the answer to the run; it
\* fails without the run state, or when the message is no longer awaiting.
Build(r) ==
    /\ pc[r] = "building"
    /\ LET p == res[r]
           ready == snap = p /\ ~msgDone /\ msgAwaiting
       IN  \/ /\ ready
              /\ msgAwaiting' = FALSE
              /\ at' = [at EXCEPT ![r] = p]
              /\ out' = [out EXCEPT ![r] = "answered"]
              /\ Goto(r, "returned")
           \/ \* the agent, session or workspace may be gone as well
              /\ Goto(r, "abandoning")
              /\ UNCHANGED <<msgAwaiting, at, out>>
    /\ UNCHANGED <<row, snap, msgDone, res, orphan, job, verdict, effects, crashes, faults, strayed>>

\* finishResume: an answer the run never acted on fails with it; otherwise the
\* run state is dropped, unless it now belongs to a later prompt.
WrapUp(r) ==
    /\ pc[r] = "wrapping"
    /\ LET p == res[r]
       IN  IF status[p] = "answered"
           THEN IF snap \notin {None, p}
                THEN /\ status' = [status EXCEPT ![p] = "failed"]
                     /\ Goto(r, "gone") /\ UNCHANGED snap
                ELSE Goto(r, "abandoning") /\ UNCHANGED <<status, snap>>
           ELSE DropSnap(p) /\ Goto(r, "gone") /\ UNCHANGED status
    /\ UNCHANGED <<owner, lease, kept, overdue, answer, msg, at, out, res, orphan, job,
                   verdict, effects, crashes, faults, strayed>>

\* abandonResume: fail the prompt, then complete its message and drop the state.
Abandon(r) ==
    /\ pc[r] = "abandoning"
    /\ status' = [status EXCEPT ![res[r]] = IF @ \in {"answered", "executing"}
                                            THEN "failed" ELSE @]
    /\ Goto(r, "closing")
    /\ UNCHANGED <<owner, lease, kept, overdue, answer, snap, msg, at, out, res, orphan,
                   job, verdict, effects, crashes, faults, strayed>>

CloseAbandoned(r) ==
    /\ pc[r] = "closing"
    /\ IF snap = res[r]
       THEN msgDone' = TRUE /\ msgAwaiting' = (msgAwaiting /\ msgDone)
       ELSE UNCHANGED msg
    /\ DropSnap(res[r])
    /\ Goto(r, "gone")
    /\ UNCHANGED <<row, at, out, res, orphan, job, verdict, effects, crashes, faults, strayed>>

-----------------------------------------------------------------------------
(* Takeovers: reapPending and closeRun, by a janitor or inside Resolve.    *)

StartJob(t, p, from, to) ==
    job' = [job EXCEPT ![t] = [pc |-> "cas", p |-> p, own |-> owner[p], from |-> from,
                               to |-> to, has |-> HasState(p), gone |-> FALSE]]

\* Mutant: only prompts with run state are reaped.
StartReapSuspendable(t, p) ==
    /\ status[p] = "pending" /\ ~lease[p] /\ HasState(p)
    /\ StartJob(t, p, "pending", "suspended")

\* reapPending: without run state the prompt expires, with it it is suspended.
StartReapPending(t, p) ==
    /\ status[p] = "pending" /\ ~lease[p]
    /\ StartJob(t, p, "pending", IF HasState(p) THEN "suspended" ELSE "expired")

\* Mutant: the sweep looks at executing rows only.
AbandonedExecuting(p) == status[p] = "executing" /\ ~lease[p] /\ HasState(p)

\* An answered or executing row whose resuming run stopped.  Without run state
\* an in-memory waiter consumed it, and the sweep passes over it.
Abandoned(p) == status[p] \in {"answered", "executing"} /\ ~lease[p] /\ HasState(p)

\* The rows a sweep lists, and the suspended rows a new message supersedes.
Sweep(j, p) ==
    /\ job[j].pc = "idle"
    /\ \/ StartReapPending(j, p)
       \/ /\ Abandoned(p)
          /\ StartJob(j, p, status[p], "failed")
       \/ /\ status[p] = "suspended" /\ overdue[p]
          /\ StartJob(j, p, "suspended", "expired")
    /\ UNCHANGED <<row, snap, msg, run, verdict, effects, crashes, faults, strayed>>

Supersede(j, p) ==
    /\ job[j].pc = "idle" /\ status[p] = "suspended"
    /\ StartJob(j, p, "suspended", "superseded")
    /\ UNCHANGED <<row, snap, msg, run, verdict, effects, crashes, faults, strayed>>

\* The write of a takeover.  Rows taken from a lapsed owner are fenced by the
\* owner and the lease that were read; suspended rows by their status alone.
Fenced(b) == b.from # "suspended" => owner[b.p] = b.own /\ ~lease[b.p]

\* A finished takeover; Resolve goes on with the prompt it was called for.
Over(t) == [IdleJob EXCEPT !.p = IF t \in Resolver THEN job[t].p ELSE None]

TakeOver(t) ==
    /\ job[t].pc = "cas"
    /\ LET b == job[t]
           wins == status[b.p] = b.from /\ Fenced(b)
       IN  /\ status' = IF wins THEN [status EXCEPT ![b.p] = b.to] ELSE status
           /\ owner' = IF wins /\ b.to = "suspended" THEN [owner EXCEPT ![b.p] = None] ELSE owner
           /\ job' = [job EXCEPT ![t] = IF wins /\ b.has THEN [b EXCEPT !.pc = "hook"]
                                        ELSE Over(t)]
    /\ UNCHANGED <<lease, kept, overdue, answer, snap, msg, run, verdict, effects, crashes, faults, strayed>>

\* Mutant: the hook of a closed run leaves the message open.
CompletesNever(t) == FALSE

Completes(t) == job[t].to # "suspended"

\* The message hook: awaiting input for a suspended run, completed for a closed
\* one.  A completed message is left alone.
Hook(t) ==
    /\ job[t].pc = "hook"
    /\ msgAwaiting' = IF msgDone THEN msgAwaiting ELSE ~Completes(t)
    /\ msgDone' = (msgDone \/ Completes(t))
    /\ job' = [job EXCEPT ![t] = IF job[t].to = "suspended" THEN Over(t)
                                 ELSE [@ EXCEPT !.pc = "drop"]]
    /\ UNCHANGED <<row, snap, run, verdict, effects, crashes, faults, strayed>>

\* The hook fails; that is logged.  A closed run keeps its message open and its
\* state, and no sweep lists its prompt again.
HookFails(t) ==
    /\ job[t].pc = "hook"
    /\ faults < MaxFaults /\ faults' = faults + 1
    /\ job' = [job EXCEPT ![t] = Over(t)]
    /\ UNCHANGED <<row, snap, msg, run, verdict, effects, crashes, strayed>>

DropTaken(t) ==
    /\ job[t].pc = "drop"
    /\ DropSnap(job[t].p)
    /\ job' = [job EXCEPT ![t] = Over(t)]
    /\ UNCHANGED <<row, msg, run, verdict, effects, crashes, faults, strayed>>

-----------------------------------------------------------------------------
(* Resolve: read the row, take over a lapsed owner's prompt, then two      *)
(* compare-and-sets, the suspended row first.                              *)

\* What Resolve keeps of the row it read: whether the prompt had expired, and
\* whether the owner that suspended it is gone (Resolution.OwnerGone).
RowRead(p) ==
    [IdleJob EXCEPT !.p = p, !.has = overdue[p],
        !.gone = owner[p] = None \/ (status[p] = "suspended" /\ ~lease[p])]

ReadForAnswer(u, p) ==
    /\ verdict[u] = "none" /\ job[u].pc = "idle"
    /\ status[p] \in Open
    /\ IF status[p] = "pending" /\ kept[p] /\ ~lease[p]
       THEN /\ StartReapPending(u, p)
            /\ verdict' = [verdict EXCEPT ![u] = "reaping"]
       ELSE /\ job' = [job EXCEPT ![u] = RowRead(p)]
            /\ verdict' = [verdict EXCEPT ![u] = "reading"]
    /\ UNCHANGED <<row, snap, msg, run, effects, crashes, faults, strayed>>

Reread(u) ==
    /\ verdict[u] = "reaping" /\ job[u].pc = "idle"
    /\ IF status[job[u].p] \in Open
       THEN /\ verdict' = [verdict EXCEPT ![u] = "reading"]
            /\ job' = [job EXCEPT ![u] = RowRead(job[u].p)]
       ELSE /\ verdict' = [verdict EXCEPT ![u] = "rejected"]
            /\ UNCHANGED job
    /\ UNCHANGED <<row, snap, msg, run, effects, crashes, faults, strayed>>

\* The first compare-and-set: a suspended, unexpired row is answered and handed
\* to a new run under a new owner and lease.
AnswerSuspended(u) ==
    /\ verdict[u] = "reading"
    /\ LET p == job[u].p
       IN  IF status[p] = "suspended" /\ ~job[u].has
           THEN \E r \in Run :
                  /\ pc[r] = "unborn"
                  /\ status' = [status EXCEPT ![p] = "answered"]
                  /\ owner' = [owner EXCEPT ![p] = r]
                  /\ lease' = [lease EXCEPT ![p] = TRUE]
                  /\ answer' = [answer EXCEPT ![p] = u]
                  /\ res' = [res EXCEPT ![r] = p]
                  /\ orphan' = [orphan EXCEPT ![r] = job[u].gone]
                  /\ Goto(r, "settling")
                  /\ verdict' = [verdict EXCEPT ![u] = "accepted"]
           ELSE /\ verdict' = [verdict EXCEPT ![u] = "retrying"]
                /\ UNCHANGED <<status, owner, lease, answer, res, orphan, pc>>
    /\ UNCHANGED <<kept, overdue, snap, msg, at, out, job, effects, crashes, faults, strayed>>

\* Mutant: the answer is written without comparing the row's status.
TakesAnyAnswer(p) == status[p] # "none"

TakesAnswer(p) == status[p] = "pending"

\* The second: a pending row is answered for the run waiting in memory.
AnswerPending(u) ==
    /\ verdict[u] = "retrying"
    /\ LET p == job[u].p
       IN  IF TakesAnswer(p)
           THEN /\ status' = [status EXCEPT ![p] = "answered"]
                /\ answer' = [answer EXCEPT ![p] = u]
                /\ verdict' = [verdict EXCEPT ![u] = "accepted"]
           ELSE /\ verdict' = [verdict EXCEPT ![u] = "rejected"]
                /\ UNCHANGED <<status, answer>>
    /\ UNCHANGED <<owner, lease, kept, overdue, snap, msg, run, job, effects, crashes, faults, strayed>>

-----------------------------------------------------------------------------
(* Time and failures.                                                      *)

Lapse(p) ==
    /\ status[p] \in Leased \cup {"suspended"} /\ lease[p]
    /\ lease' = [lease EXCEPT ![p] = FALSE]
    /\ UNCHANGED <<status, owner, kept, overdue, answer, snap, msg, run, job,
                   verdict, effects, crashes, faults, strayed>>

Overdue(p) ==
    /\ status[p] = "suspended" /\ ~overdue[p]
    /\ overdue' = [overdue EXCEPT ![p] = TRUE]
    /\ UNCHANGED <<status, owner, lease, kept, answer, snap, msg, run, job,
                   verdict, effects, crashes, faults, strayed>>

Crash(r) ==
    /\ crashes < MaxCrashes /\ pc[r] \notin {"unborn", "gone", "dead"}
    /\ crashes' = crashes + 1
    /\ Goto(r, "dead")
    /\ UNCHANGED <<row, snap, msg, at, out, res, orphan, job, verdict, effects, faults, strayed>>

CrashJanitor(j) ==
    /\ crashes < MaxCrashes /\ job[j].pc # "idle"
    /\ crashes' = crashes + 1
    /\ job' = [job EXCEPT ![j] = IdleJob]
    /\ UNCHANGED <<row, snap, msg, run, verdict, effects, faults, strayed>>

-----------------------------------------------------------------------------
RunStep(r) ==
    \/ Create(r) \/ Emit(r) \/ EmitFails(r)
    \/ Notice(r) \/ SuspendWait(r) \/ CloseWait(r)
    \/ LeaveWait(r) \/ DropState(r) \/ Consume(r) \/ Confirm(r)
    \/ RunTool(r) \/ MarkExecuted(r) \/ AfterWait(r) \/ Finish(r)
    \/ Settle(r) \/ Build(r) \/ WrapUp(r) \/ Abandon(r) \/ CloseAbandoned(r)

TakerStep(t) == TakeOver(t) \/ Hook(t) \/ HookFails(t) \/ DropTaken(t)

ResolveStep(u) == Reread(u) \/ AnswerSuspended(u) \/ AnswerPending(u)

Next ==
    \/ \E r \in Run : \/ RunStep(r) \/ Renew(r) \/ CloseUnconfirmed(r)
                      \/ ConsumeFails(r) \/ ClaimUnconfirmed(r) \/ Crash(r)
    \/ \E r \in Run, p \in Prompt : SaveState(r, p) \/ RaisePlain(r, p)
    \/ \E t \in Taker : TakerStep(t)
    \/ \E j \in Janitor, p \in Prompt : Sweep(j, p) \/ Supersede(j, p)
    \/ \E j \in Janitor : CrashJanitor(j)
    \/ \E u \in Resolver, p \in Prompt : ReadForAnswer(u, p)
    \/ \E u \in Resolver : ResolveStep(u)
    \/ \E p \in Prompt : Lapse(p) \/ Overdue(p)

Spec == Init /\ [][Next]_vars

\* Live goroutines make progress, the reaper sweeps every minute, and a lease
\* nobody renews runs out.
Fairness ==
    /\ \A r \in Run : WF_vars(RunStep(r))
    /\ \A t \in Taker : WF_vars(TakerStep(t))
    /\ \A u \in Resolver : WF_vars(ResolveStep(u))
    /\ \A j \in Janitor, p \in Prompt : WF_vars(Sweep(j, p))
    /\ \A p \in Prompt : WF_vars(Lapse(p) /\ \A r \in Run : owner[p] = r => pc[r] \in {"dead", "gone"})

FairSpec == Spec /\ Fairness

-----------------------------------------------------------------------------
TypeOK ==
    /\ status \in [Prompt -> Status]
    /\ owner \in [Prompt -> Run \cup {None}]
    /\ lease \in [Prompt -> BOOLEAN]
    /\ kept \in [Prompt -> BOOLEAN]
    /\ overdue \in [Prompt -> BOOLEAN]
    /\ answer \in [Prompt -> Resolver \cup {None}]
    /\ snap \in Prompt \cup {None}
    /\ msgDone \in BOOLEAN /\ msgAwaiting \in BOOLEAN
    /\ pc \in [Run -> {"unborn", "working", "raised", "emitting", "waiting", "leaving", "dropping",
                       "returned", "unsure", "claimed", "acting", "marking", "settling", "building",
                       "wrapping", "abandoning", "closing", "gone", "dead"}]
    /\ at \in [Run -> Prompt \cup {None}]
    /\ out \in [Run -> {"none", "answered", "closed", "suspended", "detached"}]
    /\ res \in [Run -> Prompt \cup {None}]
    /\ orphan \in [Run -> BOOLEAN]
    /\ job \in [Taker -> [pc : {"idle", "cas", "hook", "drop"}, p : Prompt \cup {None},
                          own : Run \cup {None}, from : Status, to : Status, has : BOOLEAN, gone : BOOLEAN]]
    /\ verdict \in [Resolver -> {"none", "reaping", "reading", "retrying", "accepted", "rejected"}]
    /\ effects \in [Prompt -> Nat]
    /\ crashes \in 0..MaxCrashes /\ faults \in 0..MaxFaults
    /\ strayed \in BOOLEAN

\* The side effect an answer authorizes runs at most once, whoever resumes the
\* run and however often owners change, and only for an approving answer
\* (Consume: "Only the winner may continue the run").
EffectOnce ==
    \A p \in Prompt : /\ effects[p] <= 1
                      /\ effects[p] = 1 => answer[p] \in Approving

\* A run that goes on generating the message.
Driving(r) ==
    \/ pc[r] \in {"working", "raised", "acting", "marking"}
    \/ pc[r] \in {"leaving", "dropping", "returned"} /\ out[r] = "closed"

\* Two runs never generate the same message: the waiter that lost its prompt to
\* a takeover leaves before, and whether or not, the resumed run starts.  The
\* exception is a message of which a run has strayed: it failed to show a prompt
\* that had been taken over by then, and went on.
SoleDriver ==
    ~strayed => \A r, q \in Run : Driving(r) /\ Driving(q) => r = q

\* A suspended prompt can still be resumed: the saved run state of the message
\* is its own, not dropped by the owner that left and not a later prompt's.  A
\* run that strayed may ask again and save its state over it.
SuspendedResumable ==
    ~strayed => \A p \in Prompt : status[p] = "suspended" => HasState(p)

\* A waiter whose prompt another run or the reaper took over does not go on:
\* "the old waiter must exit" (Outcome.Detached).
LoserLeaves ==
    \A r \in Run : pc[r] = "leaving" /\ out[r] = "closed" => owner[at[r]] = r

\* A user told that an answer was recorded is the one whose answer the run gets;
\* no two users are told so about one prompt.
AcceptedIsActedOn ==
    \A u \in Resolver : verdict[u] = "accepted" => answer[job[u].p] = u

\* A run that may run the tool, or still may learn that it may.
Granted(r) == pc[r] = "acting" \/ (pc[r] = "claimed" /\ Approved(at[r]))

PhaseOf(s) ==
    CASE s = "none"       -> "unasked"
      [] s \in Open       -> "open"
      [] s = "answered"   -> "answered"
      [] s = "executing"  -> "claimed"
      [] OTHER            -> "closed"

Phases == [p \in Prompt |-> PhaseOf(status[p])]
Grants == [p \in Prompt |-> \E r \in Run : Granted(r) /\ at[r] = p]

Contract == INSTANCE PromptContract WITH phase <- Phases, granted <- Grants

\* The rows implement the contract of module PromptContract: one answer per
\* prompt, one claim per answer, one side effect per claim.
RefinesContract == Contract!Spec

\* ErrAlreadyResolved means what its comment says: the prompt was answered or
\* ended, so it is not still open to an answer.
RejectedMeansClosed ==
    [][\A u \in Resolver :
         verdict[u] # "rejected" /\ verdict'[u] = "rejected" =>
            \/ status[job[u].p] \notin Open
            \/ overdue[job[u].p]]_vars

\* Await's outcome reflects the row: a run is not told that its prompt timed
\* out or was canceled while the row holds the user's answer for it.
OutcomeReflectsRow ==
    \A r \in Run : pc[r] = "leaving" /\ out[r] = "closed" => status[at[r]] # "answered"

\* Resuming waits until nobody else rewrites the message: no message is shown
\* as awaiting input while a run generates it.
AwaitingIsNotLive ==
    msgAwaiting /\ ~msgDone => \A r \in Run : ~Driving(r)

\* A prompt does not stay pending: its owner closes or suspends it, or the
\* reaper does once the owner is gone.
PendingEnds == \A p \in Prompt : status[p] = "pending" ~> status[p] # "pending"

\* The run of a prompt that was closed for its owner does not stay open: its
\* message is completed (startAgentPromptReaper: "a crash never leaves a prompt
\* or its run open forever"), unless a run that strayed still generates it.
ReapedRunsClose ==
    \A p \in Prompt :
       status[p] \in {"failed", "expired", "superseded"} /\ snap = p
          ~> msgDone \/ strayed

\* Run state is kept only while the run may still be resumed from it: once the
\* prompt has ended, whoever ended it, the state is dropped.
EndedStateIsDropped ==
    \A p \in Prompt :
       status[p] \in Status \ (Open \cup {"none", "answered", "executing"}) /\ snap = p
          ~> snap # p

\* An answer that finds a saved run is acted on, or fails with its run; it is
\* not left behind by the run that was to act on it.
AnsweredSettles ==
    \A p \in Prompt : status[p] = "answered" /\ snap = p
          ~> status[p] # "answered" \/ snap # p
=============================================================================
