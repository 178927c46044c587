--------------------------- MODULE SandboxSession ---------------------------
(***************************************************************************)
(* The remote sandbox of one chat session (internal/sandbox/               *)
(* session_lifecycle.go, session_binding_redis.go, session_manager.go) and *)
(* the renewable Redis lock that its requests run under                    *)
(* (internal/common/redislock/token_lock.go).  Any number of requests, on  *)
(* any replicas, resolve the sandbox: they connect the one that is bound,  *)
(* rebuild it when a newer image made it stale, adopt one that lost its    *)
(* binding, or create one.  A configuration change marks the binding, the  *)
(* deletion of the session destroys the sandbox.  A chat turn keeps a      *)
(* lease that spends its one rebuild at its first resolve; background work *)
(* allows none.                                                            *)
(***************************************************************************)
EXTENDS Integers, FiniteSets

CONSTANTS Req,      \* requests that need the lifecycle lock
          Turn,     \* chat turns of the session
          MaxBox,   \* bound on sandboxes; one for each request and one before them
          Adopts,   \* a sandbox without its binding is usable: no inbound token was lost
          MaxFault  \* bound on faults

ASSUME ConstantsAreSound ==
    /\ IsFiniteSet(Req) /\ Adopts \in BOOLEAN
    /\ MaxBox \in Nat /\ MaxFault \in Nat
    /\ 0 \notin Req \cup Turn

None == 0
Box == 1..MaxBox    \* in the order they were started

VARIABLES owner,    \* the request whose token the lock holds
          bound,    \* the sandbox of the binding
          stale,    \* the binding is marked
          cloud,    \* the provider's sandboxes of the session
          cut,      \* history: those whose create returned an error, until they are bound
          refs,     \* turn lease: open turns
          rebuild,  \* turn lease: a rebuild is allowed
          work,     \* the sandbox in which registered background work runs
          exists,   \* the session's row
          turn,     \* state of each turn
          op,       \* state of each request
          faults    \* faults of each kind so far

leaseVars == <<refs, rebuild>>
bindVars == <<bound, stale>>
vars == <<owner, bindVars, cloud, cut, leaseVars, work, exists, turn, op, faults>>

-----------------------------------------------------------------------------

\* error: a call is refused.  blip: one on the turn lease is.  lapse: the lock of a
\* request at work expires.  expire: so does the lease of a turn in progress.  cancel: a
\* caller goes away.
Kind == {"error", "blip", "lapse", "expire", "crash", "cancel"}

Outside == {"new", "lock", "row", "end", "dead"}
Pc == Outside \cup {"look", "kill", "unbind", "consume", "connect", "drop", "list", "dups", "create",
                    "recheck", "bind", "boot", "unboot", "lose", "winner", "undo", "done", "fail"}

\* kind: a resolve, one that finds its session deleted ("reap"), or the deletion.
\* ctx: its context, cancelled by the caller or with the ownership of the lock.
\* lapsed: its lock expired.  saw: the binding it read.  box: its sandbox.  made: that
\* it created.  cands: those it found.  out: the sandbox it handed out.
Op == [pc : Pc, kind : {"resolve", "reap", "delete"}, turn : Turn \cup {None},
       ctx : {"on", "cancelled", "lost"}, lapsed : BOOLEAN, saw : Box \cup {None},
       box : Box \cup {None}, made : BOOLEAN, cands : SUBSET Box, out : Box \cup {None}]

NewOp == [pc |-> "new", kind |-> "resolve", turn |-> None, ctx |-> "on", lapsed |-> FALSE,
          saw |-> None, box |-> None, made |-> FALSE, cands |-> {}, out |-> None]

\* An earlier request may have bound a sandbox.
Init ==
    /\ owner = None
    /\ bound \in (Box \cap {1}) \cup {None} /\ stale \in BOOLEAN /\ (stale => bound # None)
    /\ cloud = [b \in Box |-> IF b = bound THEN "live" ELSE "none"] /\ cut = {}
    /\ refs = 0 /\ rebuild = FALSE /\ work = None /\ exists = TRUE
    /\ turn = [t \in Turn |-> "none"]
    /\ op = [r \in Req |-> NewOp]
    /\ faults = [k \in Kind |-> 0]

Fault(k) ==
    /\ faults["error"] + faults["blip"] + faults["lapse"] + faults["expire"] + faults["crash"]
         + faults["cancel"] < MaxFault
    /\ faults' = [faults EXCEPT ![k] = @ + 1]
NoFault == UNCHANGED faults

Live(b) == b # None /\ cloud[b] = "live"
Inside(r) == op[r].pc \notin Outside

Go(r, pc) == op' = [op EXCEPT ![r].pc = pc]
At(r, pc) == op[r].pc = pc

\* A call with the request's context returns, or fails.
Calls(r) == op[r].ctx = "on" /\ NoFault
CallFails(r) == IF op[r].ctx = "on" THEN Fault("error") ELSE NoFault

\* The provider deletes S; why says on whose behalf.
Deleted(S, why) == cloud' = [b \in Box |-> IF b \in S /\ cloud[b] = "live" THEN why ELSE cloud[b]]

-----------------------------------------------------------------------------
(* The renewable lock *)

Arrive(r) ==
    /\ At(r, "new")
    /\ \E k \in {"resolve", "delete"}, t \in Turn \cup {None} :
         /\ t # None => k = "resolve" /\ turn[t] \in {"leased", "bare"}
         /\ op' = [op EXCEPT ![r].pc = "lock", ![r].kind = k, ![r].turn = t]
    /\ UNCHANGED <<owner, bindVars, cloud, cut, leaseVars, work, exists, turn, faults>>

Acquire(r) ==
    /\ At(r, "lock") /\ op[r].ctx = "on" /\ owner = None
    /\ owner' = r
    /\ Go(r, "look")
    /\ UNCHANGED <<bindVars, cloud, cut, leaseVars, work, exists, turn, faults>>

\* SET NX fails, or its reply is lost.
GiveUp(r) ==
    /\ At(r, "lock") /\ CallFails(r)
    /\ owner' \in {owner} \cup (IF owner = None THEN {r} ELSE {})
    /\ op' = [op EXCEPT ![r] = [NewOp EXCEPT !.pc = "end"]]
    /\ UNCHANGED <<bindVars, cloud, cut, leaseVars, work, exists, turn>>

Cancel(r) ==
    /\ op[r].pc \notin {"new", "row", "end", "dead"} /\ op[r].ctx = "on" /\ Fault("cancel")
    /\ op' = [op EXCEPT ![r].ctx = "cancelled"]
    /\ UNCHANGED <<owner, bindVars, cloud, cut, leaseVars, work, exists, turn>>

\* A renewal finds another token, or none, or fails.
RenewalFails(r) ==
    /\ Inside(r) /\ op[r].ctx # "lost"
    /\ IF owner = r THEN Fault("error") ELSE NoFault
    /\ op' = [op EXCEPT ![r].ctx = "lost"]
    /\ UNCHANGED <<owner, bindVars, cloud, cut, leaseVars, work, exists, turn>>

\* Compare-and-delete.
FreedAlways(r) == None
Freed(r) == IF owner = r THEN None ELSE owner

\* The callback returned.  A result counts only if the lock was held to the end.  The
\* deletion of a session goes on to its row.
Release(r) ==
    /\ op[r].pc \in {"done", "fail"}
    /\ \/ NoFault /\ owner' = Freed(r)
       \/ Fault("error") /\ UNCHANGED owner
    /\ LET held == faults' = faults /\ owner = r /\ op[r].ctx = "on" IN
       op' = [op EXCEPT ![r] = [NewOp EXCEPT
                !.pc = IF op[r].kind = "delete" /\ op[r].ctx # "cancelled" THEN "row" ELSE "end",
                !.turn = op[r].turn,
                !.out = IF At(r, "done") /\ op[r].kind = "resolve" /\ held THEN op[r].box ELSE None]]
    /\ UNCHANGED <<bindVars, cloud, cut, leaseVars, work, exists, turn>>

\* The key of a request that is over, or whose process died, runs out.
LeaseExpiresNever(r) == FALSE /\ UNCHANGED vars
LeaseExpires(r) ==
    /\ owner = r /\ op[r].pc \in {"row", "end", "dead"}
    /\ owner' = None
    /\ UNCHANGED <<bindVars, cloud, cut, leaseVars, work, exists, turn, op, faults>>

Lapse(r) ==
    /\ owner = r /\ Inside(r) /\ Fault("lapse")
    /\ owner' = None
    /\ op' = [op EXCEPT ![r].lapsed = TRUE]
    /\ UNCHANGED <<bindVars, cloud, cut, leaseVars, work, exists, turn>>

Crash(r) ==
    /\ Inside(r) /\ Fault("crash")
    /\ op' = [op EXCEPT ![r] = [NewOp EXCEPT !.pc = "dead"]]
    /\ UNCHANGED <<owner, bindVars, cloud, cut, leaseVars, work, exists, turn>>

-----------------------------------------------------------------------------
(* Under the lock: the binding that is there.  A call that fails may have been carried *)
(* out: its reply was lost, or its context ended while it was under way.               *)

\* Open turns and live work keep a stale sandbox, but for the first resolve of a turn.
ShouldRebuild == work = None /\ (refs = 0 \/ rebuild)

\* Reads the binding, the session and the turn lease; without the lease it rebuilds
\* nothing.
Look(r) ==
    /\ At(r, "look") /\ op[r].ctx = "on"
    /\ \E rebuilds \in {ShouldRebuild, FALSE} :
       LET reap == op[r].kind = "resolve" /\ ~exists
           pc == IF op[r].kind = "delete" \/ reap
                      THEN IF bound # None THEN "kill" ELSE IF reap THEN "fail" ELSE "done"
                 ELSE IF bound # None /\ stale /\ rebuilds THEN "kill" ELSE "consume" IN
       /\ op' = [op EXCEPT ![r].pc = pc, ![r].saw = bound, ![r].kind = IF reap THEN "reap" ELSE op[r].kind]
       /\ IF rebuilds = ShouldRebuild THEN NoFault ELSE Fault("blip")
    /\ UNCHANGED <<owner, bindVars, cloud, cut, leaseVars, work, exists, turn>>

\* destroyBindingLocked: the sandbox first, then its binding, if it is still the one.
Kill(r) ==
    /\ At(r, "kill")
    /\ Deleted({op[r].saw}, IF op[r].kind = "resolve" THEN "replaced" ELSE "released")
    /\ \/ Calls(r) /\ Go(r, "unbind")
       \/ CallFails(r) /\ Go(r, "fail")
    /\ UNCHANGED <<owner, bindVars, cut, leaseVars, work, exists, turn>>

Unbind(b) ==
    /\ bound' = IF bound = b THEN None ELSE bound
    /\ stale' = (stale /\ bound # b)

DeleteBinding(r) ==
    /\ At(r, "unbind")
    /\ Unbind(op[r].saw)
    /\ \/ /\ Calls(r)
          /\ op' = [op EXCEPT ![r].saw = None,
                ![r].pc = IF bound \notin {op[r].saw, None} \/ op[r].kind = "reap" THEN "fail"
                          ELSE IF op[r].kind = "resolve" THEN "consume" ELSE "done"]
       \/ CallFails(r) /\ Go(r, "fail")
    /\ UNCHANGED <<owner, cloud, cut, leaseVars, work, exists, turn>>

\* The first resolve of a turn spends its rebuild, used or not.  An error is only logged.
SpentUnlessBound(r) == rebuild /\ op[r].saw # None
Spent(r) == FALSE

ConsumeTurnRebuild(r) ==
    /\ At(r, "consume")
    /\ \/ Calls(r) /\ rebuild' = Spent(r)
       \/ UNCHANGED rebuild /\ (IF op[r].ctx = "on" THEN Fault("blip") ELSE NoFault)
    /\ Go(r, IF op[r].saw # None THEN "connect" ELSE "list")
    /\ UNCHANGED <<owner, bindVars, cloud, cut, refs, work, exists, turn>>

\* The provider resumes the sandbox, or does not know it any more.
ConnectBinding(r) ==
    /\ At(r, "connect") /\ Calls(r)
    /\ op' = [op EXCEPT ![r].pc = IF Live(op[r].saw) THEN "done" ELSE "drop", ![r].box = op[r].saw]
    /\ UNCHANGED <<owner, bindVars, cloud, cut, leaseVars, work, exists, turn>>

DropBinding(r) ==
    /\ At(r, "drop")
    /\ Unbind(op[r].saw)
    /\ \/ Calls(r) /\ Go(r, IF bound = op[r].saw THEN "list" ELSE "fail")
       \/ CallFails(r) /\ Go(r, "fail")
    /\ UNCHANGED <<owner, cloud, cut, leaseVars, work, exists, turn>>

-----------------------------------------------------------------------------
(* Under the lock: one that lost its binding, or a new one *)

Owned == {b \in Box : Live(b)}

List(r) ==
    /\ At(r, "list") /\ Calls(r)
    /\ op' = [op EXCEPT ![r].pc = IF Owned = {} THEN "create" ELSE "dups", ![r].cands = Owned]
    /\ UNCHANGED <<owner, bindVars, cloud, cut, leaseVars, work, exists, turn>>

\* The oldest that still lives is adopted and the others are deleted; all are, if their
\* inbound token is lost.
Oldest(S) == {b \in S : Adopts /\ Live(b) /\ \A c \in S : Live(c) => b <= c}

AdoptOwned(r) ==
    /\ At(r, "dups")
    /\ LET pick == Oldest(op[r].cands) IN
       \/ /\ Calls(r) /\ Deleted(op[r].cands \ pick, "replaced")
          /\ \/ pick = {} /\ Go(r, "create")
             \/ \E b \in pick : op' = [op EXCEPT ![r].pc = "bind", ![r].box = b]
       \/ /\ CallFails(r) /\ Go(r, "fail")
          /\ \E S \in SUBSET (op[r].cands \ pick) : Deleted(S, "replaced")
    /\ UNCHANGED <<owner, bindVars, cut, leaseVars, work, exists, turn>>

\* The create has the context of the request, and nothing is cleaned up after an error:
\* the sandbox may come up all the same, now or later.
Create(r) ==
    /\ At(r, "create")
    /\ \E b \in Box :
         /\ cloud[b] = "none" /\ \A c \in Box : cloud[c] = "none" => b <= c
         /\ \/ /\ Calls(r) /\ cloud' = [cloud EXCEPT ![b] = "live"]
               /\ op' = [op EXCEPT ![r].pc = "recheck", ![r].box = b, ![r].made = TRUE]
               /\ UNCHANGED cut
            \/ /\ CallFails(r) /\ cloud' = [cloud EXCEPT ![b] = "starting"]
               /\ Go(r, "fail") /\ cut' = cut \cup {b}
    /\ UNCHANGED <<owner, bindVars, leaseVars, work, exists, turn>>

RecheckForgets(r) == Go(r, IF exists THEN "bind" ELSE "fail")
Recheck(r) == Go(r, IF exists THEN "bind" ELSE "undo")

RecheckSession(r) ==
    /\ At(r, "recheck")
    /\ \/ Calls(r) /\ Recheck(r)
       \/ CallFails(r) /\ Go(r, "undo")
    /\ UNCHANGED <<owner, bindVars, cloud, cut, leaseVars, work, exists, turn>>

\* SET NX; its reply may be lost.  A fork runs its bootstrap in the new sandbox.
Bind(r) ==
    /\ At(r, "bind")
    /\ \/ /\ Calls(r) /\ bound = None
          /\ bound' = op[r].box /\ stale' = FALSE
          /\ Go(r, IF op[r].made THEN "boot" ELSE "done")
       \/ /\ Calls(r) /\ bound # None
          /\ Go(r, IF op[r].made THEN "lose" ELSE "winner")
          /\ UNCHANGED bindVars
       \/ /\ CallFails(r)
          /\ Go(r, IF op[r].made THEN "undo" ELSE "fail")
          /\ \/ UNCHANGED bindVars
             \/ bound = None /\ bound' = op[r].box /\ stale' = FALSE
    /\ cut' = cut \ {bound'}
    /\ UNCHANGED <<owner, cloud, leaseVars, work, exists, turn>>

\* The rollback of a bootstrap ignores the request's context.
Bootstrap(r) ==
    /\ At(r, "boot")
    /\ \/ Calls(r) /\ Go(r, "done")
       \/ CallFails(r) /\ Go(r, "unboot")
    /\ UNCHANGED <<owner, bindVars, cloud, cut, leaseVars, work, exists, turn>>

Unboot(r) ==
    /\ At(r, "unboot")
    /\ \/ NoFault /\ Unbind(op[r].box) /\ Go(r, "undo")
       \/ Fault("error") /\ UNCHANGED bindVars /\ Go(r, "fail")
    /\ UNCHANGED <<owner, cloud, cut, leaseVars, work, exists, turn>>

\* cleanupCreated runs while the lock is owned, whatever became of the caller.
Undo(r) ==
    /\ At(r, "undo")
    /\ \/ NoFault /\ op[r].ctx # "lost" /\ Deleted({op[r].box}, "released")
       \/ UNCHANGED cloud /\ (IF op[r].ctx = "lost" THEN NoFault ELSE Fault("error"))
    /\ Go(r, "fail")
    /\ UNCHANGED <<owner, bindVars, cut, leaseVars, work, exists, turn>>

\* Another request bound its sandbox first: one's own is deleted.
LoseKeeps(r) == Go(r, "done") /\ UNCHANGED cloud
Lose(r) ==
    /\ op' = [op EXCEPT ![r].pc = IF bound = None THEN "fail" ELSE "winner"]
    /\ Deleted({op[r].box}, "released")

LoseBinding(r) ==
    /\ At(r, "lose")
    /\ \/ Calls(r) /\ bound # op[r].box /\ Lose(r)
       \/ Calls(r) /\ bound = op[r].box /\ Go(r, "done") /\ UNCHANGED cloud
       \/ CallFails(r) /\ Go(r, "fail") /\ UNCHANGED cloud
    /\ UNCHANGED <<owner, bindVars, cut, leaseVars, work, exists, turn>>

ConnectWinner(r) ==
    /\ At(r, "winner") /\ Calls(r)
    /\ op' = [op EXCEPT ![r].pc = IF Live(bound) THEN "done" ELSE "fail", ![r].box = bound]
    /\ UNCHANGED <<owner, bindVars, cloud, cut, leaseVars, work, exists, turn>>

\* A call under the lock fails, and was not carried out.
FailCall(r) ==
    /\ op[r].pc \in {"look", "kill", "unbind", "connect", "drop", "list", "dups", "create", "winner"}
    /\ CallFails(r)
    /\ Go(r, "fail")
    /\ UNCHANGED <<owner, bindVars, cloud, cut, leaseVars, work, exists, turn>>

-----------------------------------------------------------------------------
(* Beside the lock *)

DeleteRow(r) ==
    /\ At(r, "row")
    /\ exists' = FALSE
    /\ Go(r, "end")
    /\ UNCHANGED <<owner, bindVars, cloud, cut, leaseVars, work, turn, faults>>

\* InvalidateByConfig, for this session: it waits for the lock, and marks.
InvalidateByConfig ==
    /\ owner = None /\ bound # None /\ ~stale
    /\ stale' = TRUE
    /\ UNCHANGED <<owner, bound, cloud, cut, leaseVars, work, exists, turn, op, faults>>

\* The sandbox turned out to be gone when it was used.
DropBoundSandbox(r) ==
    /\ op[r].out # None /\ ~Live(op[r].out) /\ bound = op[r].out
    /\ Unbind(op[r].out)
    /\ UNCHANGED <<owner, cloud, cut, leaseVars, work, exists, turn, op, faults>>

\* A sandbox whose create was given up comes up.
BoxComesUp(b) ==
    /\ cloud[b] = "starting"
    /\ cloud' = [cloud EXCEPT ![b] = "live"]
    /\ UNCHANGED <<owner, bindVars, cut, leaseVars, work, exists, turn, op, faults>>

\* The provider's idle sweep, or its own limit.
BoxDies(b) ==
    /\ Live(b) /\ b # work
    /\ cloud' = [cloud EXCEPT ![b] = "died"]
    /\ UNCHANGED <<owner, bindVars, cut, leaseVars, work, exists, turn, op, faults>>

\* The first turn arms the one rebuild, unless work is in progress.
Armed == IF refs = 0 THEN work = None ELSE rebuild

\* A turn whose lease is refused goes on without; the reply may have been lost.
BeginTurn(t) ==
    /\ turn[t] = "none" /\ exists
    /\ \/ NoFault /\ refs' = refs + 1 /\ rebuild' = Armed /\ turn' = [turn EXCEPT ![t] = "leased"]
       \/ /\ Fault("blip") /\ turn' = [turn EXCEPT ![t] = "bare"]
          /\ \/ UNCHANGED leaseVars
             \/ refs' = refs + 1 /\ rebuild' = Armed
    /\ UNCHANGED <<owner, bindVars, cloud, cut, work, exists, op>>

Idle(t) == \A r \in Req : op[r].turn = t => op[r].pc \in {"end", "dead"}

\* The script ends a lease that is there; one that expired is not.
RefsAfterAlways == refs - 1
RefsAfter == IF refs > 0 THEN refs - 1 ELSE 0

EndTurn(t) ==
    /\ turn[t] \in {"leased", "bare"} /\ Idle(t)
    /\ \/ NoFault /\ refs' = (IF turn[t] = "leased" THEN RefsAfter ELSE refs)
          /\ rebuild' = (rebuild /\ refs' > 0)
       \/ turn[t] = "leased" /\ Fault("blip") /\ UNCHANGED leaseVars
    /\ turn' = [turn EXCEPT ![t] = "over"]
    /\ op' = [r \in Req |-> IF op[r].turn = t THEN [op[r] EXCEPT !.out = None, !.turn = None] ELSE op[r]]
    /\ UNCHANGED <<owner, bindVars, cloud, cut, work, exists>>

\* Half an hour without a request of the session.
TurnLeaseExpires ==
    /\ refs > 0
    /\ IF \E t \in Turn : turn[t] = "leased" THEN Fault("expire") ELSE NoFault
    /\ refs' = 0 /\ rebuild' = FALSE
    /\ UNCHANGED <<owner, bindVars, cloud, cut, work, exists, turn, op>>

\* A turn leaves a job running in its sandbox.
StartWork(r) ==
    /\ Live(op[r].out) /\ op[r].turn # None /\ work = None
    /\ turn[op[r].turn] \in {"leased", "bare"}
    /\ work' = op[r].out
    /\ UNCHANGED <<owner, bindVars, cloud, cut, leaseVars, exists, turn, op, faults>>

EndWork ==
    /\ work # None /\ work' = None
    /\ UNCHANGED <<owner, bindVars, cloud, cut, leaseVars, exists, turn, op, faults>>

-----------------------------------------------------------------------------

Locked(r) ==
    \/ Look(r) \/ Kill(r) \/ DeleteBinding(r) \/ ConsumeTurnRebuild(r) \/ ConnectBinding(r) \/ DropBinding(r)
    \/ List(r) \/ AdoptOwned(r) \/ Create(r) \/ RecheckSession(r) \/ Bind(r) \/ Bootstrap(r) \/ Unboot(r)
    \/ Undo(r) \/ LoseBinding(r) \/ ConnectWinner(r) \/ FailCall(r)

Handler(r) == Acquire(r) \/ GiveUp(r) \/ Locked(r) \/ Release(r) \/ DeleteRow(r) \/ LeaseExpires(r)

Next ==
    \/ \E r \in Req : Handler(r) \/ Arrive(r) \/ Cancel(r) \/ RenewalFails(r) \/ Lapse(r) \/ Crash(r)
                    \/ DropBoundSandbox(r) \/ StartWork(r)
    \/ \E t \in Turn : BeginTurn(t) \/ EndTurn(t)
    \/ \E b \in Box : BoxComesUp(b) \/ BoxDies(b)
    \/ InvalidateByConfig \/ TurnLeaseExpires \/ EndWork

Spec == Init /\ [][Next]_vars

\* Requests run, and keys of Redis run out.  Nothing else is certain.
FairSpec == Spec /\ \A r \in Req : WF_vars(Handler(r))

-----------------------------------------------------------------------------
(* What is correct *)

TypeOK ==
    /\ owner \in Req \cup {None} /\ bound \in Box \cup {None} /\ stale \in BOOLEAN
    /\ cloud \in [Box -> {"none", "starting", "live", "died", "replaced", "released"}]
    /\ cut \in SUBSET Box
    /\ refs \in Nat /\ rebuild \in BOOLEAN /\ work \in Box \cup {None} /\ exists \in BOOLEAN
    /\ turn \in [Turn -> {"none", "leased", "bare", "over"}]
    /\ op \in [Req -> Op] /\ faults \in [Kind -> Nat]

\* A request at work holds the lock, unless its own lease lapsed: no release, expiry or
\* failed renewal of another request takes it away.
LockIsOwn == \A r \in Req : Inside(r) => owner = r \/ op[r].lapsed

\* A rebuild for a newer image destroys no sandbox that an open turn has used, and
\* none in which background work runs, unless Redis failed the turn lease or a lock
\* lapsed.
InUseIsKept ==
    faults["lapse"] + faults["expire"] + faults["blip"] > 0 \/
    /\ \A r \in Req : op[r].out # None /\ op[r].turn # None /\ turn[op[r].turn] = "leased"
                        => cloud[op[r].out] # "replaced"
    /\ work # None => cloud[work] # "replaced"

\* All requests of the session that hold a sandbox that lives hold the same one, unless
\* two locks lapsed: the rollback of one can then unbind the sandbox that others were
\* given, and the other can bind its own, found or made before.
OneSandbox ==
    faults["lapse"] > 1 \/
    \A r, q \in Req : Live(op[r].out) /\ Live(op[q].out) => op[r].out = op[q].out

\* A sandbox that lives is bound, or the holder of the lock is about to see to it, unless
\* a call failed, a process died or a lock lapsed.  The exception is a sandbox whose
\* create was under way when its caller went away: it is nobody's until a later request
\* that finds no binding lists it, to adopt or delete it.
NoOrphan ==
    faults["error"] + faults["crash"] + faults["lapse"] > 0 \/
    \A b \in Box \ cut : Live(b) => b = bound \/ \E r \in Req : owner = r /\ b = op[r].box

\* Every request comes to an end, whoever dies in between.
RequestsEnd ==
    \A r \in Req : At(r, "lock") ~> op[r].pc \in {"end", "dead"}

\* The comment of resolveLocked: a per-session machine dies with its session.
DiesWithSession ==
    (~exists /\ \A r \in Req : op[r].pc \in {"new", "end"})
        => \A b \in Box : ~Live(b) \/ \E k \in Kind : faults[k] > 0
=============================================================================
