----------------------- MODULE SandboxSessionProofs -----------------------
(* For any number of requests, turns, sandboxes and faults: a request that *)
(* works under the lifecycle lock holds it, unless its own lease lapsed;   *)
(* no sandbox is left behind, replaced in use or handed out beside another *)
(* one, under the faults each of these properties allows.                  *)
EXTENDS SandboxSession, FiniteSetTheorems, TLAPS

Inv == TypeOK /\ LockIsOwn

\* What a step of request r does to the requests.
Changes(r) == op' \in [Req -> Op] /\ \A q \in Req \ {r} : op'[q] = op[q]

\* A step of a request under the lock: it stays the same holder, or is over.
Works(r) == Inside(r) /\ Changes(r) /\ op'[r].lapsed = op[r].lapsed /\ owner' = owner

\* The other variables keep their types.
CloudState == {"none", "starting", "live", "died", "replaced", "released"}
RestTyped ==
    /\ bound \in Box \cup {None} /\ stale \in BOOLEAN /\ cloud \in [Box -> CloudState] /\ cut \in SUBSET Box
    /\ refs \in Nat /\ rebuild \in BOOLEAN /\ work \in Box \cup {None} /\ exists \in BOOLEAN
    /\ turn \in [Turn -> {"none", "leased", "bare", "over"}] /\ faults \in [Kind -> Nat]

LEMMA TypeOKParts == TypeOK <=> owner \in Req \cup {None} /\ RestTyped /\ op \in [Req -> Op]
  BY DEF TypeOK, RestTyped, CloudState

-----------------------------------------------------------------------------
(* What the actions are made of *)

LEMMA FaultTyped ==
    ASSUME faults \in [Kind -> Nat], NEW k \in Kind, Fault(k) \/ NoFault
    PROVE  faults' \in [Kind -> Nat]
  BY DEF Fault, NoFault

LEMMA CallTyped ==
    ASSUME faults \in [Kind -> Nat], NEW r, Calls(r) \/ CallFails(r)
    PROVE  faults' \in [Kind -> Nat]
  <1>1. "error" \in Kind
    BY DEF Kind
  <1> QED BY <1>1, FaultTyped DEF Calls, CallFails

LEMMA GoMoves ==
    ASSUME op \in [Req -> Op], NEW r \in Req, NEW pc \in Pc, Go(r, pc)
    PROVE  Changes(r) /\ op'[r].lapsed = op[r].lapsed /\ op'[r].pc = pc
  BY DEF Go, Changes, Op

\* A step that gives request r another record.
LEMMA SetMoves ==
    ASSUME op \in [Req -> Op], NEW r \in Req, NEW o \in Op, op' = [op EXCEPT ![r] = o]
    PROVE  Changes(r) /\ op'[r] = o
  BY DEF Changes

LEMMA DeletedTyped ==
    ASSUME cloud \in [Box -> CloudState], NEW S, NEW why \in CloudState, Deleted(S, why)
    PROVE  cloud' \in [Box -> CloudState]
  BY DEF Deleted

LEMMA UnbindTyped ==
    ASSUME bound \in Box \cup {None}, stale \in BOOLEAN, NEW b, Unbind(b)
    PROVE  bound' \in Box \cup {None} /\ stale' \in BOOLEAN
  BY DEF Unbind

\* A step of the holder of the lock keeps the invariant.
LEMMA WorkKeeps ==
    ASSUME Inv, NEW r \in Req, Works(r), RestTyped'
    PROVE  Inv'
  <1>1. TypeOK'
    BY TypeOKParts DEF Inv, Works, Changes, TypeOK, RestTyped, CloudState
  <1>2. ASSUME NEW q \in Req, Inside(q)' PROVE (owner = q \/ op[q].lapsed)'
    <2>1. CASE q = r
      BY <2>1 DEF Inv, LockIsOwn, Works
    <2>2. CASE q # r
      BY <1>2, <2>2 DEF Inv, LockIsOwn, Works, Changes, Inside
    <2> QED BY <2>1, <2>2
  <1> QED BY <1>1, <1>2 DEF Inv, LockIsOwn

-----------------------------------------------------------------------------
(* Under the lock *)

\* Every call under the lock is the work of its holder.
LEMMA LockedWorks ==
    ASSUME Inv, NEW r \in Req, Locked(r)
    PROVE  Works(r) /\ RestTyped'
  <1> USE DEF leaseVars, bindVars
  <1>0. /\ op \in [Req -> Op] /\ RestTyped /\ op[r] \in Op
        /\ op[r].saw \in Box \cup {None} /\ op[r].box \in Box \cup {None}
    BY DEF Inv, TypeOK, RestTyped, CloudState, Op
  <1>1. /\ {"error", "blip"} \subseteq Kind /\ {"replaced", "released"} \subseteq CloudState
        /\ {"look", "kill", "unbind", "consume", "connect", "drop", "list", "dups", "create", "recheck",
            "bind", "boot", "unboot", "lose", "winner", "undo", "done", "fail"} \subseteq Pc
        /\ \A p \in {"look", "kill", "unbind", "consume", "connect", "drop", "list", "dups", "create", "recheck",
            "bind", "boot", "unboot", "lose", "winner", "undo", "done", "fail"} : At(r, p) => Inside(r)
    BY DEF Kind, CloudState, Pc, At, Inside, Outside
  <1>2. Calls(r) \/ CallFails(r) \/ Fault("error") \/ Fault("blip") \/ NoFault => faults' \in [Kind -> Nat]
    BY <1>0, <1>1, CallTyped, FaultTyped DEF RestTyped
  <1>3. \A pc \in Pc : Go(r, pc) => Changes(r) /\ op'[r].lapsed = op[r].lapsed
    BY <1>0, GoMoves
  <1>4. \A S : \A why \in CloudState : Deleted(S, why) => cloud' \in [Box -> CloudState]
    BY <1>0, DeletedTyped DEF RestTyped
  <1>5. \A b : Unbind(b) => bound' \in Box \cup {None} /\ stale' \in BOOLEAN
    BY <1>0, UnbindTyped DEF RestTyped
  <1>6. CASE Look(r)
    <2>1. PICK rebuilds \in {ShouldRebuild, FALSE}, kind \in {"resolve", "reap", "delete"},
               pc \in {"kill", "fail", "done", "consume"} :
             /\ op' = [op EXCEPT ![r].pc = pc, ![r].saw = bound, ![r].kind = kind]
             /\ IF rebuilds = ShouldRebuild THEN NoFault ELSE Fault("blip")
      BY <1>0, <1>6 DEF Look, Op
    <2>2. Changes(r) /\ op'[r].lapsed = op[r].lapsed
      <3>1. pc \in Pc /\ bound \in Box \cup {None}
        BY <1>0, <1>1 DEF RestTyped
      <3>2. op' = [op EXCEPT ![r].pc = pc, ![r].saw = bound, ![r].kind = kind]
        BY <2>1
      <3> QED BY <1>0, <3>1, <3>2 DEF Changes, Op
    <2>3. faults' \in [Kind -> Nat]
      BY <1>2, <2>1
    <2> QED BY <1>0, <1>1, <1>6, <2>2, <2>3 DEF Look, Works, RestTyped
  <1>7. CASE Kill(r)
    BY <1>0, <1>1, <1>2, <1>3, <1>4, <1>7 DEF Kill, Works, RestTyped
  <1>8. CASE DeleteBinding(r)
    <2>1. CASE Go(r, "fail")
      BY <1>0, <1>1, <1>2, <1>3, <1>5, <1>8, <2>1 DEF DeleteBinding, Works, RestTyped
    <2> SUFFICES ASSUME ~Go(r, "fail") PROVE Works(r) /\ RestTyped'
      BY <2>1
    <2>2. Changes(r) /\ op'[r].lapsed = op[r].lapsed
      <3>1. PICK pc \in {"fail", "consume", "done"} : op' = [op EXCEPT ![r].saw = None, ![r].pc = pc]
        BY <1>8 DEF DeleteBinding
      <3> QED BY <1>0, <1>1, <3>1 DEF Changes, Op
    <2> QED BY <1>0, <1>1, <1>2, <1>5, <1>8, <2>2 DEF DeleteBinding, Works, RestTyped
  <1>9. CASE ConsumeTurnRebuild(r)
    <2>1. rebuild' \in BOOLEAN /\ faults' \in [Kind -> Nat]
      BY <1>0, <1>2, <1>9 DEF ConsumeTurnRebuild, Spent, RestTyped
    <2> QED BY <1>0, <1>1, <1>3, <1>9, <2>1 DEF ConsumeTurnRebuild, Works, RestTyped
  <1>10. CASE ConnectBinding(r)
    <2>1. PICK pc \in {"done", "drop"} : op' = [op EXCEPT ![r].pc = pc, ![r].box = op[r].saw]
      BY <1>10 DEF ConnectBinding
    <2>2. Changes(r) /\ op'[r].lapsed = op[r].lapsed
      <3> DEFINE o == [op[r] EXCEPT !.pc = pc, !.box = op[r].saw]
      <3>1. o \in Op /\ o.lapsed = op[r].lapsed
        BY <1>0, <1>1 DEF Op
      <3>2. op' = [op EXCEPT ![r] = o]
        BY <1>0, <2>1
      <3> HIDE DEF o
      <3> QED BY <1>0, <3>1, <3>2, SetMoves
    <2> QED BY <1>0, <1>1, <1>2, <1>10, <2>2 DEF ConnectBinding, Works, RestTyped
  <1>11. CASE DropBinding(r)
    BY <1>0, <1>1, <1>2, <1>3, <1>5, <1>11 DEF DropBinding, Works, RestTyped
  <1>12. CASE List(r)
    <2>1. PICK pc \in {"create", "dups"} : op' = [op EXCEPT ![r].pc = pc, ![r].cands = Owned]
      BY <1>12 DEF List
    <2>2. Changes(r) /\ op'[r].lapsed = op[r].lapsed
      <3> DEFINE o == [op[r] EXCEPT !.pc = pc, !.cands = Owned]
      <3>1. Owned \in SUBSET Box
        BY DEF Owned
      <3>2. o \in Op /\ o.lapsed = op[r].lapsed
        BY <1>0, <1>1, <3>1 DEF Op
      <3>3. op' = [op EXCEPT ![r] = o]
        BY <1>0, <2>1
      <3> HIDE DEF o
      <3> QED BY <1>0, <3>2, <3>3, SetMoves
    <2> QED BY <1>0, <1>1, <1>2, <1>12, <2>2 DEF List, Works, RestTyped
  <1>13. CASE AdoptOwned(r)
    <2>1. Changes(r) /\ op'[r].lapsed = op[r].lapsed
      <3>1. CASE Go(r, "create") \/ Go(r, "fail")
        BY <1>1, <1>3, <3>1
      <3>2. CASE \E b \in Oldest(op[r].cands) : op' = [op EXCEPT ![r].pc = "bind", ![r].box = b]
        <4>1. PICK b \in Box : op' = [op EXCEPT ![r].pc = "bind", ![r].box = b]
          BY <1>0, <3>2 DEF Op, Oldest
        <4> QED BY <1>0, <1>1, <4>1 DEF Changes, Op
      <3> QED BY <1>13, <3>1, <3>2 DEF AdoptOwned
    <2> QED BY <1>0, <1>1, <1>2, <1>4, <1>13, <2>1 DEF AdoptOwned, Works, RestTyped
  <1>14. CASE Create(r)
    <2>1. PICK b \in Box, up \in {"live", "starting"} :
             /\ cloud' = [cloud EXCEPT ![b] = up] /\ cut' \in {cut, cut \cup {b}}
             /\ \/ op' = [op EXCEPT ![r].pc = "recheck", ![r].box = b, ![r].made = TRUE]
                \/ Go(r, "fail")
      BY <1>14 DEF Create
    <2>2. Changes(r) /\ op'[r].lapsed = op[r].lapsed
      <3>1. CASE Go(r, "fail")
        BY <1>1, <1>3, <3>1
      <3>2. CASE op' = [op EXCEPT ![r].pc = "recheck", ![r].box = b, ![r].made = TRUE]
        BY <1>0, <1>1, <3>2 DEF Changes, Op
      <3> QED BY <2>1, <3>1, <3>2
    <2>3. cloud' \in [Box -> CloudState] /\ cut' \in SUBSET Box
      BY <1>0, <2>1 DEF RestTyped, CloudState
    <2> QED BY <1>0, <1>1, <1>2, <1>14, <2>1, <2>2, <2>3 DEF Create, Works, RestTyped
  <1>15. CASE RecheckSession(r)
    BY <1>0, <1>1, <1>2, <1>3, <1>15 DEF RecheckSession, Recheck, Works, RestTyped
  <1>16. CASE Bind(r)
    <2>1. (bound' = op[r].box /\ stale' = FALSE) \/ UNCHANGED bindVars
      BY <1>16 DEF Bind
    <2>2. Changes(r) /\ op'[r].lapsed = op[r].lapsed
      BY <1>1, <1>3, <1>16 DEF Bind
    <2> QED BY <1>0, <1>1, <1>2, <1>16, <2>1, <2>2 DEF Bind, Works, RestTyped
  <1>17. CASE Bootstrap(r)
    BY <1>0, <1>1, <1>2, <1>3, <1>17 DEF Bootstrap, Works, RestTyped
  <1>18. CASE Unboot(r)
    BY <1>0, <1>1, <1>2, <1>3, <1>5, <1>18 DEF Unboot, Works, RestTyped
  <1>19. CASE Undo(r)
    BY <1>0, <1>1, <1>2, <1>3, <1>4, <1>19 DEF Undo, Works, RestTyped
  <1>20. CASE LoseBinding(r)
    <2>1. Changes(r) /\ op'[r].lapsed = op[r].lapsed
      <3>1. CASE Lose(r)
        <4>1. PICK pc \in {"fail", "winner"} : Go(r, pc)
          BY <3>1 DEF Lose, Go
        <4> QED BY <1>1, <1>3, <4>1
      <3>2. CASE Go(r, "done") \/ Go(r, "fail")
        BY <1>1, <1>3, <3>2
      <3> QED BY <1>20, <3>1, <3>2 DEF LoseBinding
    <2>2. cloud' \in [Box -> CloudState]
      BY <1>0, <1>1, <1>4, <1>20 DEF LoseBinding, Lose, RestTyped
    <2> QED BY <1>0, <1>1, <1>2, <1>20, <2>1, <2>2 DEF LoseBinding, Works, RestTyped
  <1>21. CASE ConnectWinner(r)
    <2>1. PICK pc \in {"done", "fail"} : op' = [op EXCEPT ![r].pc = pc, ![r].box = bound]
      BY <1>21 DEF ConnectWinner
    <2>2. Changes(r) /\ op'[r].lapsed = op[r].lapsed
      <3> DEFINE o == [op[r] EXCEPT !.pc = pc, !.box = bound]
      <3>1. bound \in Box \cup {None}
        BY <1>0 DEF RestTyped
      <3>2. o \in Op /\ o.lapsed = op[r].lapsed
        BY <1>0, <1>1, <3>1 DEF Op
      <3>3. op' = [op EXCEPT ![r] = o]
        BY <1>0, <2>1
      <3> HIDE DEF o
      <3> QED BY <1>0, <3>2, <3>3, SetMoves
    <2> QED BY <1>0, <1>1, <1>2, <1>21, <2>2 DEF ConnectWinner, Works, RestTyped
  <1>22. CASE FailCall(r)
    BY <1>0, <1>1, <1>2, <1>3, <1>22 DEF FailCall, Works, RestTyped, Inside, Outside
  <1> QED BY <1>6, <1>7, <1>8, <1>9, <1>10, <1>11, <1>12, <1>13, <1>14, <1>15, <1>16, <1>17,
             <1>18, <1>19, <1>20, <1>21, <1>22 DEF Locked

-----------------------------------------------------------------------------
(* Taking and leaving the lock *)

\* A request that is over has no step under the lock.
LEMMA OutsideTyped ==
    ASSUME NEW pc \in Outside, NEW t \in Turn \cup {None}, NEW b \in Box \cup {None}
    PROVE  /\ [NewOp EXCEPT !.pc = pc, !.turn = t, !.out = b] \in Op
           /\ [NewOp EXCEPT !.pc = pc, !.turn = t, !.out = b].pc = pc
  <1>1. pc \in Pc
    BY DEF Pc
  <1> QED BY <1>1 DEF NewOp, Op

LEMMA OverTyped ==
    ASSUME NEW pc \in Outside
    PROVE  [NewOp EXCEPT !.pc = pc] \in Op /\ [NewOp EXCEPT !.pc = pc].pc = pc
  <1>1. pc \in Pc
    BY DEF Pc
  <1> QED BY <1>1 DEF NewOp, Op

\* A step by which r is over, or gets no further than waiting for the lock, takes the
\* lock from nobody else.
LEMMA OverKeeps ==
    ASSUME Inv, NEW r \in Req, Changes(r), op'[r].pc \in Outside, RestTyped',
           owner' = owner \/ owner \in {None, r}, owner' \in Req \cup {None}
    PROVE  Inv'
  <1>1. TypeOK'
    BY TypeOKParts DEF Changes, TypeOK, RestTyped, CloudState
  <1>2. ASSUME NEW q \in Req, Inside(q)' PROVE (owner = q \/ op[q].lapsed)'
    <2>1. q # r /\ Inside(q) /\ op'[q] = op[q]
      BY <1>2 DEF Inside, Changes
    <2>2. owner = q \/ op[q].lapsed
      BY <2>1 DEF Inv, LockIsOwn
    <2>3. q # None
      BY ConstantsAreSound DEF None
    <2> QED BY <2>1, <2>2, <2>3
  <1> QED BY <1>1, <1>2 DEF Inv, LockIsOwn

LEMMA AcquireKeeps ==
    ASSUME Inv, NEW r \in Req, Acquire(r)
    PROVE  Inv'
  <1>1. "look" \in Pc /\ op \in [Req -> Op]
    BY DEF Pc, Inv, TypeOK
  <1>2. Changes(r) /\ op'[r].lapsed = op[r].lapsed
    BY <1>1, GoMoves DEF Acquire
  <1>3. RestTyped'
    BY DEF Acquire, Inv, TypeOK, RestTyped, CloudState, leaseVars, bindVars
  <1>4. TypeOK'
    BY <1>2, <1>3, TypeOKParts DEF Acquire, Changes, TypeOK, RestTyped, CloudState
  <1>5. ASSUME NEW q \in Req, Inside(q)' PROVE (owner = q \/ op[q].lapsed)'
    <2>1. CASE q = r
      BY <2>1 DEF Acquire
    <2>2. CASE q # r
      <3>1. q # None
        BY ConstantsAreSound DEF None
      <3> QED BY <1>2, <1>5, <2>2, <3>1 DEF Acquire, Changes, Inside, Inv, LockIsOwn
    <2> QED BY <2>1, <2>2
  <1> QED BY <1>4, <1>5 DEF Inv, LockIsOwn

LEMMA ArriveKeeps ==
    ASSUME Inv, NEW r \in Req, Arrive(r)
    PROVE  Inv'
  <1>1. PICK k \in {"resolve", "delete"}, t \in Turn \cup {None} :
           op' = [op EXCEPT ![r].pc = "lock", ![r].kind = k, ![r].turn = t]
    BY DEF Arrive
  <1>2. "lock" \in Pc \cap Outside /\ op \in [Req -> Op]
    BY DEF Pc, Outside, Inv, TypeOK
  <1>3. Changes(r) /\ op'[r].pc \in Outside
    <2>1. k \in {"resolve", "reap", "delete"} /\ "lock" \in Pc
      BY <1>2
    <2> DEFINE o == [op[r] EXCEPT !.pc = "lock", !.kind = k, !.turn = t]
    <2>2. op[r] \in Op
      BY <1>2
    <2>3. o \in Op /\ o.pc = "lock"
      BY <2>1, <2>2 DEF Op
    <2>4. op' = [op EXCEPT ![r] = o]
      BY <1>1, <1>2
    <2> HIDE DEF o
    <2> QED BY <1>2, <2>3, <2>4, SetMoves
  <1> QED BY <1>3, OverKeeps DEF Arrive, Inv, TypeOK, RestTyped, CloudState, leaseVars, bindVars

LEMMA GiveUpKeeps ==
    ASSUME Inv, NEW r \in Req, GiveUp(r)
    PROVE  Inv'
  <1>1. Changes(r) /\ op'[r].pc \in Outside
    <2>1. "end" \in Outside
      BY DEF Outside
    <2>2. [NewOp EXCEPT !.pc = "end"] \in Op /\ [NewOp EXCEPT !.pc = "end"].pc = "end"
      BY <2>1, OverTyped
    <2> QED BY <2>1, <2>2 DEF GiveUp, Changes, Inv, TypeOK
  <1>2. RestTyped'
    BY CallTyped DEF GiveUp, Inv, TypeOK, RestTyped, CloudState, leaseVars, bindVars
  <1> QED BY <1>1, <1>2, OverKeeps DEF GiveUp, Inv, TypeOK

\* Compare-and-delete: the lock of another request stays as it is.
LEMMA ReleaseKeeps ==
    ASSUME Inv, NEW r \in Req, Release(r)
    PROVE  Inv'
  <1>1. op \in [Req -> Op] /\ op[r].turn \in Turn \cup {None} /\ op[r].box \in Box \cup {None}
    BY DEF Inv, TypeOK, Op
  <1>2. PICK pc \in {"row", "end"}, b \in {op[r].box, None} :
           op' = [op EXCEPT ![r] = [NewOp EXCEPT !.pc = pc, !.turn = op[r].turn, !.out = b]]
    BY DEF Release
  <1>3. Changes(r) /\ op'[r].pc \in Outside
    <2>1. pc \in Outside /\ b \in Box \cup {None}
      BY <1>1, <1>2 DEF Outside
    <2> QED BY <1>1, <1>2, <2>1, OutsideTyped DEF Changes
  <1>4. RestTyped'
    <2>1. "error" \in Kind
      BY DEF Kind
    <2> QED BY <2>1, FaultTyped DEF Release, Inv, TypeOK, RestTyped, CloudState, leaseVars, bindVars
  <1> QED BY <1>3, <1>4, OverKeeps DEF Release, Freed, Inv, TypeOK

LEMMA LeaseExpiresKeeps ==
    ASSUME Inv, NEW r \in Req, LeaseExpires(r)
    PROVE  Inv'
  <1>1. Changes(r) /\ op'[r].pc \in Outside
    BY DEF LeaseExpires, Changes, Outside, Inv, TypeOK
  <1> QED BY <1>1, OverKeeps DEF LeaseExpires, Inv, TypeOK, RestTyped, CloudState, leaseVars, bindVars

LEMMA LapseKeeps ==
    ASSUME Inv, NEW r \in Req, Lapse(r)
    PROVE  Inv'
  <1>1. Changes(r) /\ op'[r].lapsed = TRUE
    <2>1. op \in [Req -> Op] /\ op' = [op EXCEPT ![r].lapsed = TRUE]
      BY DEF Lapse, Inv, TypeOK
    <2> DEFINE o == [op[r] EXCEPT !.lapsed = TRUE]
    <2>2. o \in Op /\ o.lapsed = TRUE
      BY <2>1 DEF Op
    <2>3. op' = [op EXCEPT ![r] = o]
      BY <2>1
    <2> HIDE DEF o
    <2> QED BY <2>1, <2>2, <2>3, SetMoves
  <1>2. RestTyped'
    <2>1. "lapse" \in Kind
      BY DEF Kind
    <2> QED BY <2>1, FaultTyped DEF Lapse, Inv, TypeOK, RestTyped, CloudState, leaseVars, bindVars
  <1>3. TypeOK'
    BY <1>1, <1>2, TypeOKParts DEF Lapse, Changes, TypeOK, RestTyped, CloudState
  <1>4. ASSUME NEW q \in Req, Inside(q)' PROVE (owner = q \/ op[q].lapsed)'
    BY <1>1, <1>4 DEF Lapse, Changes, Inside, Inv, LockIsOwn
  <1> QED BY <1>3, <1>4 DEF Inv, LockIsOwn

LEMMA CrashKeeps ==
    ASSUME Inv, NEW r \in Req, Crash(r)
    PROVE  Inv'
  <1>1. Changes(r) /\ op'[r].pc \in Outside
    <2>1. "dead" \in Outside
      BY DEF Outside
    <2>2. [NewOp EXCEPT !.pc = "dead"] \in Op /\ [NewOp EXCEPT !.pc = "dead"].pc = "dead"
      BY <2>1, OverTyped
    <2> QED BY <2>1, <2>2 DEF Crash, Changes, Inv, TypeOK
  <1>2. RestTyped'
    <2>1. "crash" \in Kind
      BY DEF Kind
    <2> QED BY <2>1, FaultTyped DEF Crash, Inv, TypeOK, RestTyped, CloudState, leaseVars, bindVars
  <1> QED BY <1>1, <1>2, OverKeeps DEF Crash, Inv, TypeOK

LEMMA DeleteRowKeeps ==
    ASSUME Inv, NEW r \in Req, DeleteRow(r)
    PROVE  Inv'
  <1>1. "end" \in Pc \cap Outside /\ op \in [Req -> Op]
    BY DEF Pc, Outside, Inv, TypeOK
  <1>2. Changes(r) /\ op'[r].pc \in Outside
    BY <1>1, GoMoves DEF DeleteRow
  <1> QED BY <1>2, OverKeeps DEF DeleteRow, Inv, TypeOK, RestTyped, CloudState, leaseVars, bindVars

\* A cancelled or failed renewal leaves the request where it is.
LEMMA ContextEnds ==
    ASSUME Inv, NEW r \in Req, Cancel(r) \/ RenewalFails(r)
    PROVE  Inv'
  <1>1. PICK c \in {"cancelled", "lost"} : op' = [op EXCEPT ![r].ctx = c]
    BY DEF Cancel, RenewalFails
  <1>2. Changes(r) /\ op'[r].lapsed = op[r].lapsed /\ op'[r].pc = op[r].pc
    <2>1. op \in [Req -> Op] /\ c \in {"on", "cancelled", "lost"}
      BY DEF Inv, TypeOK
    <2> DEFINE o == [op[r] EXCEPT !.ctx = c]
    <2>2. o \in Op /\ o.lapsed = op[r].lapsed /\ o.pc = op[r].pc
      BY <2>1 DEF Op
    <2>3. op' = [op EXCEPT ![r] = o]
      BY <1>1, <2>1
    <2> HIDE DEF o
    <2> QED BY <2>1, <2>2, <2>3, SetMoves
  <1>3. RestTyped' /\ owner' = owner
    <2>1. {"error", "cancel"} \subseteq Kind
      BY DEF Kind
    <2> QED BY <2>1, FaultTyped DEF Cancel, RenewalFails, Inv, TypeOK, RestTyped, CloudState, leaseVars, bindVars
  <1>4. CASE Inside(r)
    BY <1>2, <1>3, <1>4, WorkKeeps DEF Works
  <1>5. CASE ~Inside(r)
    BY <1>2, <1>3, <1>5, OverKeeps DEF Inside, Inv, TypeOK
  <1> QED BY <1>4, <1>5

-----------------------------------------------------------------------------
(* Beside the lock *)

\* A step that leaves the lock, and where the requests are, keeps the invariant.
LEMMA BesideKeeps ==
    ASSUME Inv, RestTyped', owner' = owner, op' \in [Req -> Op],
           \A q \in Req : op'[q].pc = op[q].pc /\ op'[q].lapsed = op[q].lapsed
    PROVE  Inv'
  <1>1. TypeOK'
    BY TypeOKParts DEF Inv, TypeOK, RestTyped, CloudState
  <1> QED BY <1>1 DEF Inv, LockIsOwn, Inside

LEMMA TurnKeeps ==
    ASSUME Inv, NEW t \in Turn, BeginTurn(t) \/ EndTurn(t)
    PROVE  Inv'
  <1>1. "blip" \in Kind /\ refs + 1 \in Nat /\ RefsAfter \in Nat /\ Armed \in BOOLEAN
    <2>1. (work = None) \in BOOLEAN
      OBVIOUS
    <2>2. Armed \in BOOLEAN
      BY <2>1 DEF Armed, Inv, TypeOK
    <2> QED BY <2>2 DEF Kind, RefsAfter, Inv, TypeOK
  <1>2. faults' \in [Kind -> Nat]
    BY <1>1, FaultTyped DEF BeginTurn, EndTurn, Inv, TypeOK
  <1>3. CASE BeginTurn(t)
    <2>1. refs' \in Nat /\ rebuild' \in BOOLEAN
      BY <1>1, <1>3 DEF BeginTurn, Inv, TypeOK, leaseVars
    <2>2. turn' \in [Turn -> {"none", "leased", "bare", "over"}]
      BY <1>3 DEF BeginTurn, Inv, TypeOK
    <2> QED BY <1>2, <1>3, <2>1, <2>2, BesideKeeps DEF BeginTurn, Inv, TypeOK, RestTyped, CloudState, bindVars
  <1>4. CASE EndTurn(t)
    <2>1. refs' \in Nat /\ rebuild' \in BOOLEAN
      <3>1. (rebuild /\ refs' > 0) \in BOOLEAN
        OBVIOUS
      <3> QED BY <1>1, <1>4, <3>1 DEF EndTurn, Inv, TypeOK, leaseVars
    <2>2. turn' \in [Turn -> {"none", "leased", "bare", "over"}]
      BY <1>4 DEF EndTurn, Inv, TypeOK
    <2>3. op' \in [Req -> Op] /\ \A q \in Req : op'[q].pc = op[q].pc /\ op'[q].lapsed = op[q].lapsed
      <3>0. \A o \in Op : LET p == [o EXCEPT !.out = None, !.turn = None] IN
              p \in Op /\ p.pc = o.pc /\ p.lapsed = o.lapsed
        BY DEF Op
      <3>1. \A q \in Req : LET o == [op[q] EXCEPT !.out = None, !.turn = None] IN
              o \in Op /\ o.pc = op[q].pc /\ o.lapsed = op[q].lapsed
        BY <3>0 DEF Inv, TypeOK
      <3> QED BY <1>4, <3>1 DEF EndTurn, Inv, TypeOK
    <2> QED BY <1>2, <1>4, <2>1, <2>2, <2>3, BesideKeeps DEF EndTurn, Inv, TypeOK, RestTyped, CloudState, bindVars
  <1> QED BY <1>3, <1>4

LEMMA RestKeeps ==
    ASSUME Inv,
           \/ \E r \in Req : DropBoundSandbox(r) \/ StartWork(r)
           \/ \E b \in Box : BoxComesUp(b) \/ BoxDies(b)
           \/ InvalidateByConfig \/ TurnLeaseExpires \/ EndWork
    PROVE  Inv'
  <1> USE DEF leaseVars, bindVars
  <1>1. UNCHANGED <<owner, op>>
    BY DEF DropBoundSandbox, StartWork, BoxComesUp, BoxDies, InvalidateByConfig, TurnLeaseExpires, EndWork
  <1>2. op \in [Req -> Op] /\ RestTyped
    BY DEF Inv, TypeOK, RestTyped, CloudState
  <1>3. RestTyped'
    <2>1. ASSUME NEW r \in Req, DropBoundSandbox(r) PROVE RestTyped'
      BY <1>2, <2>1, UnbindTyped DEF DropBoundSandbox, RestTyped
    <2>2. ASSUME NEW r \in Req, StartWork(r) PROVE RestTyped'
      <3>1. op[r].out \in Box \cup {None}
        BY <1>2 DEF Op
      <3> QED BY <1>2, <2>2, <3>1 DEF StartWork, RestTyped
    <2>3. ASSUME NEW b \in Box, BoxComesUp(b) \/ BoxDies(b) PROVE RestTyped'
      BY <1>2, <2>3 DEF BoxComesUp, BoxDies, RestTyped, CloudState
    <2>4. ASSUME InvalidateByConfig \/ EndWork PROVE RestTyped'
      BY <1>2, <2>4 DEF InvalidateByConfig, EndWork, RestTyped
    <2>5. ASSUME TurnLeaseExpires PROVE RestTyped'
      <3>1. "expire" \in Kind
        BY DEF Kind
      <3>2. faults' \in [Kind -> Nat]
        BY <1>2, <2>5, <3>1, FaultTyped DEF TurnLeaseExpires, RestTyped
      <3> QED BY <1>2, <2>5, <3>2 DEF TurnLeaseExpires, RestTyped
    <2> QED BY <2>1, <2>2, <2>3, <2>4, <2>5
  <1> QED BY <1>1, <1>2, <1>3, BesideKeeps

-----------------------------------------------------------------------------
(* The theorems *)

LEMMA InitInv == Init => Inv
  <1> SUFFICES ASSUME Init PROVE Inv
    OBVIOUS
  <1>1. NewOp \in Op /\ NewOp.pc = "new"
    BY DEF NewOp, Op, Pc, Outside
  <1>2. op \in [Req -> Op] /\ \A r \in Req : ~Inside(r)
    BY <1>1 DEF Init, Inside, Outside
  <1>3. RestTyped
    BY DEF Init, RestTyped, CloudState
  <1> QED BY <1>2, <1>3, TypeOKParts DEF Inv, LockIsOwn, Init

LEMMA NextInv == Inv /\ [Next]_vars => Inv'
  <1> SUFFICES ASSUME Inv, [Next]_vars PROVE Inv'
    OBVIOUS
  <1>1. ASSUME NEW r \in Req, Locked(r) PROVE Inv'
    BY <1>1, LockedWorks, WorkKeeps
  <1>2. ASSUME NEW r \in Req, Handler(r) PROVE Inv'
    BY <1>1, <1>2, AcquireKeeps, GiveUpKeeps, ReleaseKeeps, DeleteRowKeeps, LeaseExpiresKeeps DEF Handler
  <1>3. ASSUME NEW r \in Req, Arrive(r) \/ Cancel(r) \/ RenewalFails(r) \/ Lapse(r) \/ Crash(r) PROVE Inv'
    BY <1>3, ArriveKeeps, ContextEnds, LapseKeeps, CrashKeeps
  <1>4. CASE UNCHANGED vars
    BY <1>4 DEF vars, leaseVars, bindVars, Inv, TypeOK, LockIsOwn, Inside
  <1> QED BY <1>2, <1>3, <1>4, TurnKeeps, RestKeeps DEF Next

LEMMA InvAlways == Spec => []Inv
  BY InitInv, NextInv, PTL DEF Spec

\* A request at work on the sandbox of a session holds its lifecycle lock, however
\* many requests compete, die, are cancelled or come back from a pause: only its own
\* lapsed lease can put it beside another one (token_lock.go, Release and Renew).
THEOREM LockIsOwnAlways == Spec => []LockIsOwn
  <1>1. Inv => LockIsOwn
    BY DEF Inv
  <1> QED BY <1>1, InvAlways, PTL

\* The states of the sandbox, its binding, its leases and its requests are typed.
THEOREM SandboxTyped == Spec => []TypeOK
  <1>1. Inv => TypeOK
    BY DEF Inv
  <1> QED BY <1>1, InvAlways, PTL

-----------------------------------------------------------------------------
(* What a step leaves of a request's record, and of the faults *)

\* All of the record but where the request is.
Same(r) ==
    /\ op'[r].kind = op[r].kind /\ op'[r].turn = op[r].turn /\ op'[r].ctx = op[r].ctx
    /\ op'[r].saw = op[r].saw /\ op'[r].box = op[r].box /\ op'[r].made = op[r].made
    /\ op'[r].out = op[r].out

LEMMA GoKeeps ==
    ASSUME op \in [Req -> Op], NEW r \in Req, NEW pc, Go(r, pc)
    PROVE  op'[r].pc = pc /\ Same(r) /\ \A q \in Req \ {r} : op'[q] = op[q]
  BY DEF Go, Same, Op

LEMMA LookShape ==
    ASSUME op \in [Req -> Op], NEW r \in Req, Look(r)
    PROVE  /\ \A q \in Req \ {r} : op'[q] = op[q]
           /\ op'[r].saw = bound /\ op'[r].turn = op[r].turn /\ op'[r].ctx = op[r].ctx
           /\ op'[r].box = op[r].box /\ op'[r].made = op[r].made /\ op'[r].out = op[r].out
           /\ op'[r].kind = op[r].kind \/ (op[r].kind = "resolve" /\ op'[r].kind = "reap")
           /\ op'[r].pc \in {"kill", "fail", "done", "consume"}
           /\ op'[r].pc = "done" => op[r].kind = "delete" /\ bound = None
           /\ op'[r].pc = "kill" => bound # None
           /\ op'[r].pc = "kill" /\ op'[r].kind = "resolve" => ShouldRebuild
<1>1. PICK rebuilds \in {ShouldRebuild, FALSE} :
        /\ LET reap == op[r].kind = "resolve" /\ ~exists
               pc == IF op[r].kind = "delete" \/ reap
                          THEN IF bound # None THEN "kill" ELSE IF reap THEN "fail" ELSE "done"
                     ELSE IF bound # None /\ stale /\ rebuilds THEN "kill" ELSE "consume" IN
           op' = [op EXCEPT ![r].pc = pc, ![r].saw = bound, ![r].kind = IF reap THEN "reap" ELSE op[r].kind]
        /\ IF rebuilds = ShouldRebuild THEN NoFault ELSE Fault("blip")
  BY DEF Look
<1>2. rebuilds => ShouldRebuild
  BY <1>1
<1> DEFINE reap == op[r].kind = "resolve" /\ ~exists
           pc == IF op[r].kind = "delete" \/ reap
                      THEN IF bound # None THEN "kill" ELSE IF reap THEN "fail" ELSE "done"
                 ELSE IF bound # None /\ stale /\ rebuilds THEN "kill" ELSE "consume"
           kind == IF reap THEN "reap" ELSE op[r].kind
<1>3. op' = [op EXCEPT ![r].pc = pc, ![r].saw = bound, ![r].kind = kind]
  BY <1>1
<1>4. /\ pc \in {"kill", "fail", "done", "consume"} /\ (pc = "done" => op[r].kind = "delete" /\ bound = None)
      /\ pc = "kill" => bound # None
      /\ kind = op[r].kind \/ (op[r].kind = "resolve" /\ kind = "reap")
      /\ pc = "kill" /\ kind = "resolve" => ShouldRebuild
  <2>1. /\ pc \in {"kill", "fail", "done", "consume"} /\ (pc = "done" => op[r].kind = "delete" /\ bound = None)
        /\ pc = "kill" => bound # None
    BY SMT
  <2>2. kind = op[r].kind \/ (op[r].kind = "resolve" /\ kind = "reap")
    OBVIOUS
  <2>3. ASSUME pc = "kill", kind = "resolve"
        PROVE  ShouldRebuild
    <3>1. ~reap /\ op[r].kind = "resolve"
      BY <2>3
    <3>2. rebuilds
      BY <2>3, <3>1
    <3> QED BY <1>2, <3>2
  <2> QED BY <2>1, <2>2, <2>3
<1> HIDE DEF pc, kind
<1>5. /\ op'[r].pc = pc /\ op'[r].kind = kind /\ op'[r].saw = bound
      /\ op'[r].turn = op[r].turn /\ op'[r].ctx = op[r].ctx
      /\ op'[r].box = op[r].box /\ op'[r].made = op[r].made /\ op'[r].out = op[r].out
      /\ \A q \in Req \ {r} : op'[q] = op[q]
  BY <1>3 DEF Op
<1> QED BY <1>4, <1>5

LEMMA KillShape ==
    ASSUME op \in [Req -> Op], NEW r \in Req, Kill(r)
    PROVE  op'[r].pc \in {"unbind", "fail"} /\ Same(r) /\ \A q \in Req \ {r} : op'[q] = op[q]
<1>1. PICK pc \in {"unbind", "fail"} : Go(r, pc)
  BY DEF Kill
<1> QED BY <1>1, GoKeeps

LEMMA DeleteBindingShape ==
    ASSUME op \in [Req -> Op], NEW r \in Req, DeleteBinding(r)
    PROVE  /\ \A q \in Req \ {r} : op'[q] = op[q]
           /\ op'[r].saw \in {op[r].saw, None} /\ op'[r].kind = op[r].kind /\ op'[r].turn = op[r].turn
           /\ op'[r].ctx = op[r].ctx /\ op'[r].box = op[r].box /\ op'[r].made = op[r].made
           /\ op'[r].out = op[r].out
           /\ op'[r].pc \in {"fail", "consume", "done"}
           /\ op'[r].pc # "fail" => op'[r].saw = None /\ bound \in {op[r].saw, None}
           /\ op'[r].pc = "done" => op[r].kind = "delete"
<1>0. CASE Go(r, "fail")
  BY <1>0, GoKeeps DEF Same
<1> SUFFICES ASSUME ~Go(r, "fail")
             PROVE  /\ \A q \in Req \ {r} : op'[q] = op[q]
                    /\ op'[r].saw \in {op[r].saw, None} /\ op'[r].kind = op[r].kind /\ op'[r].turn = op[r].turn
                    /\ op'[r].ctx = op[r].ctx /\ op'[r].box = op[r].box /\ op'[r].made = op[r].made
                    /\ op'[r].out = op[r].out
                    /\ op'[r].pc \in {"fail", "consume", "done"}
                    /\ op'[r].pc # "fail" => op'[r].saw = None /\ bound \in {op[r].saw, None}
                    /\ op'[r].pc = "done" => op[r].kind = "delete"
  BY <1>0
<1> DEFINE pc == IF bound \notin {op[r].saw, None} \/ op[r].kind = "reap" THEN "fail"
                 ELSE IF op[r].kind = "resolve" THEN "consume" ELSE "done"
<1>1. op' = [op EXCEPT ![r].saw = None, ![r].pc = pc]
  BY DEF DeleteBinding
<1>2. /\ pc \in {"fail", "consume", "done"} /\ (pc # "fail" => bound \in {op[r].saw, None})
      /\ pc = "done" => op[r].kind = "delete"
  BY DEF Op
<1> HIDE DEF pc
<1>3. /\ op'[r].pc = pc /\ op'[r].saw = None /\ op'[r].kind = op[r].kind /\ op'[r].turn = op[r].turn
      /\ op'[r].ctx = op[r].ctx /\ op'[r].box = op[r].box /\ op'[r].made = op[r].made
      /\ op'[r].out = op[r].out /\ \A q \in Req \ {r} : op'[q] = op[q]
  BY <1>1 DEF Op
<1> QED BY <1>2, <1>3

\* The request moves on with another sandbox.
TakesBox(r, pc, b) ==
    /\ op'[r].pc = pc /\ op'[r].box = b
    /\ op'[r].kind = op[r].kind /\ op'[r].turn = op[r].turn /\ op'[r].ctx = op[r].ctx
    /\ op'[r].saw = op[r].saw /\ op'[r].out = op[r].out
    /\ \A q \in Req \ {r} : op'[q] = op[q]

LEMMA TakesBoxShape ==
    ASSUME op \in [Req -> Op], NEW r \in Req, NEW pc, NEW b,
           op' = [op EXCEPT ![r].pc = pc, ![r].box = b]
    PROVE  TakesBox(r, pc, b) /\ op'[r].made = op[r].made
  BY DEF TakesBox, Op

LEMMA ListShape ==
    ASSUME op \in [Req -> Op], NEW r \in Req, List(r)
    PROVE  /\ op'[r].pc \in {"create", "dups"} /\ Same(r)
           /\ \A q \in Req \ {r} : op'[q] = op[q]
<1> DEFINE pc == IF Owned = {} THEN "create" ELSE "dups"
<1>1. op' = [op EXCEPT ![r].pc = pc, ![r].cands = Owned]
  BY DEF List
<1>2. pc \in {"create", "dups"}
  OBVIOUS
<1> HIDE DEF pc
<1> QED BY <1>1, <1>2 DEF Same, Op

LEMMA AdoptShape ==
    ASSUME op \in [Req -> Op], NEW r \in Req, AdoptOwned(r)
    PROVE  \/ op'[r].pc \in {"create", "fail"} /\ Same(r) /\ \A q \in Req \ {r} : op'[q] = op[q]
           \/ \E b \in Box : Live(b) /\ cloud'[b] = "live" /\ TakesBox(r, "bind", b) /\ op'[r].made = op[r].made
<1>1. CASE Go(r, "create") \/ Go(r, "fail")
  BY <1>1, GoKeeps
<1>2. ASSUME NEW b \in Oldest(op[r].cands), ~Go(r, "fail"), op' = [op EXCEPT ![r].pc = "bind", ![r].box = b]
      PROVE  b \in Box /\ Live(b) /\ cloud'[b] = "live" /\ TakesBox(r, "bind", b) /\ op'[r].made = op[r].made
  <2>1. b \in Box /\ Live(b) /\ cloud[b] = "live"
    BY <1>2 DEF Oldest, Op, Live
  <2>2. cloud'[b] = "live"
    BY <1>2, <2>1 DEF AdoptOwned, Deleted
  <2> QED BY <1>2, <2>1, <2>2, TakesBoxShape
<1> QED BY <1>1, <1>2 DEF AdoptOwned

\* The oldest is spared, whether all of the others were deleted or some.
LEMMA AdoptDeletes ==
    ASSUME NEW r \in Req, AdoptOwned(r)
    PROVE  \E S \in SUBSET (op[r].cands \ Oldest(op[r].cands)) : Deleted(S, "replaced")
  BY DEF AdoptOwned

\* The sandbox that is started is a new one; a create that is given up leaves it behind.
Creates(r, b) ==
    /\ cloud[b] = "none" /\ \A c \in Box \ {b} : cloud'[c] = cloud[c]
    /\ \/ TakesBox(r, "recheck", b) /\ op'[r].made /\ cloud'[b] = "live" /\ cut' = cut
       \/ /\ op'[r].pc = "fail" /\ Same(r) /\ cloud'[b] = "starting" /\ cut' = cut \cup {b}
          /\ \A q \in Req \ {r} : op'[q] = op[q]

LEMMA CreateShape ==
    ASSUME Inv, NEW r \in Req, Create(r)
    PROVE  \E b \in Box : Creates(r, b)
<1>0. op \in [Req -> Op] /\ cloud \in [Box -> CloudState]
  BY DEF Inv, TypeOK, CloudState
<1>1. PICK b \in Box :
         /\ cloud[b] = "none"
         /\ \/ /\ cloud' = [cloud EXCEPT ![b] = "live"] /\ cut' = cut
               /\ op' = [op EXCEPT ![r].pc = "recheck", ![r].box = b, ![r].made = TRUE]
            \/ /\ cloud' = [cloud EXCEPT ![b] = "starting"] /\ cut' = cut \cup {b}
               /\ Go(r, "fail")
  BY DEF Create
<1>2. CASE /\ cloud' = [cloud EXCEPT ![b] = "live"] /\ cut' = cut
           /\ op' = [op EXCEPT ![r].pc = "recheck", ![r].box = b, ![r].made = TRUE]
  <2>1. TakesBox(r, "recheck", b) /\ op'[r].made
    BY <1>0, <1>2 DEF TakesBox, Op
  <2>2. cloud'[b] = "live" /\ \A c \in Box \ {b} : cloud'[c] = cloud[c]
    BY <1>0, <1>2
  <2> QED BY <1>1, <1>2, <2>1, <2>2 DEF Creates
<1>3. CASE /\ cloud' = [cloud EXCEPT ![b] = "starting"] /\ cut' = cut \cup {b}
           /\ Go(r, "fail")
  <2>1. op'[r].pc = "fail" /\ Same(r) /\ \A q \in Req \ {r} : op'[q] = op[q]
    BY <1>0, <1>3, GoKeeps
  <2>2. cloud'[b] = "starting" /\ \A c \in Box \ {b} : cloud'[c] = cloud[c]
    BY <1>0, <1>3
  <2> QED BY <1>1, <1>3, <2>1, <2>2 DEF Creates
<1> QED BY <1>1, <1>2, <1>3

LEMMA LoseShape ==
    ASSUME op \in [Req -> Op], NEW r \in Req, LoseBinding(r)
    PROVE  /\ op'[r].pc \in {"fail", "winner", "done"} /\ Same(r)
           /\ \A q \in Req \ {r} : op'[q] = op[q]
<1>1. PICK pc \in {"fail", "winner", "done"} : Go(r, pc)
  BY DEF LoseBinding, Lose, Go
<1> QED BY <1>1, GoKeeps

\* Faults are only counted up, by one.
LEMMA FaultsGrow ==
    ASSUME Inv, [Next]_vars
    PROVE  faults' = faults \/ \E k \in Kind : Fault(k)
<1> USE DEF Kind
<1>1. ASSUME NEW r \in Req, Locked(r)
      PROVE  faults' = faults \/ \E k \in Kind : Fault(k)
  BY <1>1 DEF Locked, Look, Kill, DeleteBinding, ConsumeTurnRebuild, ConnectBinding, DropBinding, List,
     AdoptOwned, Create, RecheckSession, Bind, Bootstrap, Unboot, Undo, LoseBinding, ConnectWinner,
     FailCall, Calls, CallFails, NoFault
<1>2. ASSUME NEW r \in Req, Handler(r) \/ Arrive(r) \/ Cancel(r) \/ RenewalFails(r) \/ Lapse(r) \/ Crash(r)
                    \/ DropBoundSandbox(r) \/ StartWork(r)
      PROVE  faults' = faults \/ \E k \in Kind : Fault(k)
  BY <1>1, <1>2 DEF Handler, Acquire, GiveUp, Release, DeleteRow, LeaseExpires, Arrive, Cancel, RenewalFails,
     Lapse, Crash, DropBoundSandbox, StartWork, CallFails, NoFault
<1>3. ASSUME \/ \E t \in Turn : BeginTurn(t) \/ EndTurn(t)
             \/ \E b \in Box : BoxComesUp(b) \/ BoxDies(b)
             \/ InvalidateByConfig \/ TurnLeaseExpires \/ EndWork \/ UNCHANGED vars
      PROVE  faults' = faults \/ \E k \in Kind : Fault(k)
  BY <1>3 DEF BeginTurn, EndTurn, BoxComesUp, BoxDies, InvalidateByConfig, TurnLeaseExpires, EndWork, vars, NoFault
<1> QED BY <1>2, <1>3 DEF Next

LEMMA FaultCounts ==
    ASSUME Inv, [Next]_vars, NEW k \in Kind
    PROVE  faults[k] \in Nat /\ faults'[k] \in Nat /\ faults'[k] >= faults[k]
<1>1. faults \in [Kind -> Nat]
  BY DEF Inv, TypeOK
<1> QED BY <1>1, FaultsGrow DEF Fault

-----------------------------------------------------------------------------
(* Sandboxes that were started *)

\* Nothing refers to a sandbox before it is up.
Ahead == {"none", "starting"}
Started(b) == b = None \/ cloud[b] \notin Ahead
StartedInv ==
    /\ Started(bound) /\ Started(work)
    /\ \A r \in Req : Started(op[r].saw) /\ Started(op[r].box) /\ Started(op[r].out)

LEMMA CloudGrows ==
    ASSUME Inv, [Next]_vars
    PROVE  \A b \in Box : cloud[b] \notin Ahead => cloud'[b] \notin Ahead
<1>0. cloud \in [Box -> CloudState]
  BY DEF Inv, TypeOK, CloudState
<1>1. ASSUME NEW S, NEW why \in {"replaced", "released"}, Deleted(S, why)
      PROVE  \A b \in Box : cloud[b] \notin Ahead => cloud'[b] \notin Ahead
  BY <1>1 DEF Deleted, Ahead
<1>2. CASE cloud' = cloud
  BY <1>2
<1>3. ASSUME NEW r \in Req, Locked(r)
      PROVE  \A b \in Box : cloud[b] \notin Ahead => cloud'[b] \notin Ahead
  <2>1. CASE Kill(r) \/ AdoptOwned(r) \/ Undo(r) \/ LoseBinding(r)
    BY <1>1, <1>2, <2>1 DEF Kill, AdoptOwned, Undo, LoseBinding, Lose
  <2>2. CASE Create(r)
    BY <1>0, <2>2, CreateShape DEF Creates, Ahead
  <2>3. CASE cloud' = cloud
    BY <2>3
  <2> QED BY <1>3, <2>1, <2>2, <2>3 DEF Locked, Look, DeleteBinding, ConsumeTurnRebuild, ConnectBinding,
             DropBinding, List, RecheckSession, Bind, Bootstrap, Unboot, ConnectWinner, FailCall
<1>4. ASSUME NEW b \in Box, BoxComesUp(b) \/ BoxDies(b)
      PROVE  \A c \in Box : cloud[c] \notin Ahead => cloud'[c] \notin Ahead
  BY <1>0, <1>4 DEF BoxComesUp, BoxDies, Ahead
<1>5. CASE \E r \in Req : Acquire(r) \/ GiveUp(r) \/ Release(r) \/ DeleteRow(r) \/ LeaseExpires(r)
                          \/ Arrive(r) \/ Cancel(r) \/ RenewalFails(r) \/ Lapse(r) \/ Crash(r)
                          \/ DropBoundSandbox(r) \/ StartWork(r)
  BY <1>2, <1>5 DEF Acquire, GiveUp, Release, DeleteRow, LeaseExpires, Arrive, Cancel, RenewalFails, Lapse,
     Crash, DropBoundSandbox, StartWork
<1>6. CASE \/ \E t \in Turn : BeginTurn(t) \/ EndTurn(t)
           \/ InvalidateByConfig \/ TurnLeaseExpires \/ EndWork \/ UNCHANGED vars
  BY <1>2, <1>6 DEF BeginTurn, EndTurn, InvalidateByConfig, TurnLeaseExpires, EndWork, vars
<1> QED BY <1>3, <1>4, <1>5, <1>6 DEF Next, Handler

\* Where what a step under the lock refers to comes from.
Refers(r) ==
    /\ op'[r].saw \in {op[r].saw, bound, None}
    /\ op'[r].box \in {op[r].box, op[r].saw, bound} \/ (op'[r].box \in Box /\ cloud'[op'[r].box] = "live")
    /\ op'[r].out = op[r].out /\ op'[r].turn = op[r].turn /\ op'[r].ctx = op[r].ctx
    /\ bound' \in {bound, None, op[r].box} /\ work' = work
    /\ \A q \in Req \ {r} : op'[q] = op[q]

LEMMA LockedRefers ==
    ASSUME Inv, NEW r \in Req, Locked(r)
    PROVE  Refers(r)
<1>0. op \in [Req -> Op]
  BY DEF Inv, TypeOK
<1>1. bound' \in {bound, None, op[r].box} /\ work' = work
  BY DEF Locked, Look, Kill, DeleteBinding, ConsumeTurnRebuild, ConnectBinding, DropBinding, List,
     AdoptOwned, Create, RecheckSession, Bind, Bootstrap, Unboot, Undo, LoseBinding, ConnectWinner,
     FailCall, Unbind, bindVars
<1>2. ASSUME NEW pc, Go(r, pc) PROVE Refers(r)
  BY <1>0, <1>1, <1>2, GoKeeps DEF Refers, Same
<1>3. CASE Look(r)
  BY <1>0, <1>1, <1>3, LookShape DEF Refers
<1>4. CASE DeleteBinding(r)
  BY <1>0, <1>1, <1>4, DeleteBindingShape DEF Refers
<1>5. ASSUME NEW pc, NEW b \in {op[r].saw, bound}, op' = [op EXCEPT ![r].pc = pc, ![r].box = b] PROVE Refers(r)
  <2>1. TakesBox(r, pc, b)
    BY <1>0, <1>5, TakesBoxShape
  <2> QED BY <1>1, <2>1 DEF Refers, TakesBox
<1>6. CASE List(r)
  BY <1>0, <1>1, <1>6, ListShape DEF Refers, Same
<1>7. CASE AdoptOwned(r)
  BY <1>0, <1>1, <1>7, AdoptShape DEF Refers, Same, TakesBox
<1>8. CASE Create(r)
  BY <1>0, <1>1, <1>8, CreateShape DEF Creates, Refers, Same, TakesBox
<1>9. CASE LoseBinding(r)
  BY <1>0, <1>1, <1>9, LoseShape DEF Refers, Same
<1>10. CASE ConnectBinding(r) \/ ConnectWinner(r)
  BY <1>5, <1>10 DEF ConnectBinding, ConnectWinner
<1>11. CASE Kill(r) \/ ConsumeTurnRebuild(r) \/ DropBinding(r) \/ RecheckSession(r)
  BY <1>2, <1>11 DEF Kill, ConsumeTurnRebuild, DropBinding, RecheckSession, Recheck
<1>12. CASE Bind(r) \/ Bootstrap(r) \/ Unboot(r) \/ Undo(r) \/ FailCall(r)
  BY <1>2, <1>12 DEF Bind, Bootstrap, Unboot, Undo, FailCall
<1> QED BY <1>3, <1>4, <1>6, <1>7, <1>8, <1>9, <1>10, <1>11, <1>12 DEF Locked

\* A request that is over, or only waits for the lock, holds no sandbox but the one it
\* handed out.
IdleInv ==
    \A r \in Req : op[r].pc \in Outside =>
        op[r].saw = None /\ op[r].box = None /\ ~op[r].made /\ ~op[r].lapsed

\* The records of the requests that are outside the lock.
Rests(r, pc, t, b) ==
    /\ op'[r].pc = pc /\ op'[r].turn = t /\ op'[r].out = b
    /\ op'[r].saw = None /\ op'[r].box = None /\ ~op'[r].made /\ ~op'[r].lapsed
    /\ op'[r].ctx = "on" /\ op'[r].kind = "resolve"
    /\ \A q \in Req \ {r} : op'[q] = op[q]

LEMMA EndShape ==
    ASSUME op \in [Req -> Op], NEW r \in Req, NEW pc, op' = [op EXCEPT ![r] = [NewOp EXCEPT !.pc = pc]]
    PROVE  Rests(r, pc, None, None)
<1>1. op'[r] = [NewOp EXCEPT !.pc = pc] /\ \A q \in Req \ {r} : op'[q] = op[q]
  OBVIOUS
<1> QED BY <1>1 DEF Rests, NewOp

LEMMA ReleaseShape ==
    ASSUME op \in [Req -> Op], NEW r \in Req, Release(r)
    PROVE  \E pc \in {"row", "end"} : \E b \in {op[r].box, None} :
             /\ Rests(r, pc, op[r].turn, b)
             /\ b # None => op[r].pc = "done" /\ op[r].kind = "resolve" /\ owner = r /\ op[r].ctx = "on"
<1>1. PICK pc \in {"row", "end"}, b \in {op[r].box, None} :
        /\ op' = [op EXCEPT ![r] = [NewOp EXCEPT !.pc = pc, !.turn = op[r].turn, !.out = b]]
        /\ b # None => op[r].pc = "done" /\ op[r].kind = "resolve" /\ owner = r /\ op[r].ctx = "on"
  BY DEF Release, At
<1>2. op'[r] = [NewOp EXCEPT !.pc = pc, !.turn = op[r].turn, !.out = b] /\ \A q \in Req \ {r} : op'[q] = op[q]
  BY <1>1
<1>3. Rests(r, pc, op[r].turn, b)
  BY <1>2 DEF Rests, NewOp
<1> QED BY <1>1, <1>3

LEMMA ArriveShape ==
    ASSUME op \in [Req -> Op], NEW r \in Req, Arrive(r)
    PROVE  /\ op[r].pc = "new" /\ op'[r].pc = "lock"
           /\ op'[r].saw = op[r].saw /\ op'[r].box = op[r].box /\ op'[r].made = op[r].made
           /\ op'[r].out = op[r].out /\ op'[r].ctx = op[r].ctx /\ op'[r].lapsed = op[r].lapsed
           /\ op'[r].turn # None => op'[r].kind = "resolve" /\ op'[r].turn \in Turn /\ turn[op'[r].turn] \in {"leased", "bare"}
           /\ \A q \in Req \ {r} : op'[q] = op[q]
<1>1. PICK k \in {"resolve", "delete"}, t \in Turn \cup {None} :
        /\ t # None => k = "resolve" /\ turn[t] \in {"leased", "bare"}
        /\ op' = [op EXCEPT ![r].pc = "lock", ![r].kind = k, ![r].turn = t]
  BY DEF Arrive
<1>2. /\ op'[r].pc = "lock" /\ op'[r].kind = k /\ op'[r].turn = t
      /\ op'[r].saw = op[r].saw /\ op'[r].box = op[r].box /\ op'[r].made = op[r].made
      /\ op'[r].out = op[r].out /\ op'[r].ctx = op[r].ctx /\ op'[r].lapsed = op[r].lapsed
      /\ \A q \in Req \ {r} : op'[q] = op[q]
  BY <1>1 DEF Op
<1> QED BY <1>1, <1>2 DEF Arrive, At

\* A step that changes only the context or the lease of a request.
LEMMA ContextShape ==
    ASSUME op \in [Req -> Op], NEW r \in Req, Cancel(r) \/ RenewalFails(r) \/ Lapse(r)
    PROVE  /\ op'[r].pc = op[r].pc /\ op'[r].kind = op[r].kind /\ op'[r].turn = op[r].turn
           /\ op'[r].saw = op[r].saw /\ op'[r].box = op[r].box /\ op'[r].made = op[r].made
           /\ op'[r].out = op[r].out /\ op'[r].ctx \in {op[r].ctx, "cancelled", "lost"}
           /\ \A q \in Req \ {r} : op'[q] = op[q]
  BY DEF Cancel, RenewalFails, Lapse, Op

\* The end of a turn takes the sandboxes from its requests.
LEMMA EndTurnShape ==
    ASSUME op \in [Req -> Op], NEW t \in Turn, EndTurn(t)
    PROVE  \A q \in Req :
             \/ op[q].turn # t /\ op'[q] = op[q]
             \/ /\ op[q].turn = t /\ op[q].pc \in {"end", "dead"}
                /\ op'[q].pc = op[q].pc /\ op'[q].kind = op[q].kind /\ op'[q].ctx = op[q].ctx
                /\ op'[q].saw = op[q].saw /\ op'[q].box = op[q].box /\ op'[q].made = op[q].made
                /\ op'[q].lapsed = op[q].lapsed /\ op'[q].out = None /\ op'[q].turn = None
<1> TAKE q \in Req
<1>1. CASE op[q].turn = t
  <2>1. op'[q] = [op[q] EXCEPT !.out = None, !.turn = None] /\ op[q] \in Op /\ op[q].pc \in {"end", "dead"}
    BY <1>1 DEF EndTurn, Idle
  <2> QED BY <1>1, <2>1 DEF Op
<1>2. CASE op[q].turn # t
  BY <1>2 DEF EndTurn
<1> QED BY <1>1, <1>2

LapseCounted == \A r \in Req : op[r].lapsed => faults["lapse"] >= 1

\* A create that was given up is on record while its sandbox is not up.
CutInv == \A b \in Box : cloud[b] = "starting" => b \in cut

Base == Inv /\ StartedInv /\ IdleInv /\ LapseCounted /\ CutInv

LEMMA StartedKeeps ==
    ASSUME Inv, StartedInv, [Next]_vars, NEW b \in Box \cup {None}, Started(b)
    PROVE  Started(b)'
  BY CloudGrows DEF Started

\* Where a request is while it works under the lock.
InPc == {"look", "kill", "unbind", "consume", "connect", "drop", "list", "dups", "create", "recheck",
         "bind", "boot", "unboot", "lose", "winner", "undo", "done", "fail"}

LEMMA LockedStays ==
    ASSUME Inv, NEW r \in Req, Locked(r)
    PROVE  op[r].pc \notin Outside /\ op'[r].pc \notin Outside
<1>0. op \in [Req -> Op]
  BY DEF Inv, TypeOK
<1>1. op[r].pc \notin Outside
  BY LockedWorks DEF Works, Inside
<1>2. ASSUME NEW pc, pc \in InPc, Go(r, pc) PROVE op'[r].pc \in InPc
  BY <1>0, <1>2, GoKeeps
<1>3. ASSUME Look(r) PROVE op'[r].pc \in InPc
  BY <1>0, <1>3, LookShape DEF InPc
<1>4. ASSUME DeleteBinding(r) PROVE op'[r].pc \in InPc
  BY <1>0, <1>4, DeleteBindingShape DEF InPc
<1>5. ASSUME NEW pc, pc \in InPc, NEW b, op' = [op EXCEPT ![r].pc = pc, ![r].box = b]
      PROVE  op'[r].pc \in InPc
  <2>1. TakesBox(r, pc, b)
    BY <1>0, <1>5, TakesBoxShape
  <2> QED BY <1>5, <2>1 DEF TakesBox
<1>6. ASSUME List(r) PROVE op'[r].pc \in InPc
  BY <1>0, <1>6, ListShape DEF InPc
<1>7. ASSUME AdoptOwned(r) PROVE op'[r].pc \in InPc
  BY <1>0, <1>7, AdoptShape DEF InPc, TakesBox
<1>8. ASSUME Create(r) PROVE op'[r].pc \in InPc
  BY <1>0, <1>8, CreateShape DEF Creates, InPc, TakesBox
<1>9. ASSUME LoseBinding(r) PROVE op'[r].pc \in InPc
  BY <1>0, <1>9, LoseShape DEF InPc
<1>10. ASSUME ConnectBinding(r) \/ ConnectWinner(r) PROVE op'[r].pc \in InPc
  BY <1>5, <1>10 DEF InPc, ConnectBinding, ConnectWinner
<1>11. ASSUME Kill(r) \/ ConsumeTurnRebuild(r) \/ DropBinding(r) \/ RecheckSession(r) PROVE op'[r].pc \in InPc
  BY <1>2, <1>11 DEF InPc, Kill, ConsumeTurnRebuild, DropBinding, RecheckSession, Recheck
<1>12. ASSUME Bind(r) \/ Bootstrap(r) \/ Unboot(r) \/ Undo(r) \/ FailCall(r) PROVE op'[r].pc \in InPc
  BY <1>2, <1>12 DEF InPc, Bind, Bootstrap, Unboot, Undo, FailCall
<1>13. op'[r].pc \in InPc
  BY <1>3, <1>4, <1>6, <1>7, <1>8, <1>9, <1>10, <1>11, <1>12 DEF InPc, Locked
<1>14. InPc \cap Outside = {}
  BY DEF InPc, Outside
<1> QED BY <1>1, <1>13, <1>14

\* What the steps outside the lock and beside it do to the requests: at most one of them
\* moves.
Outer(r) ==
    \/ Acquire(r) \/ GiveUp(r) \/ Release(r) \/ DeleteRow(r) \/ LeaseExpires(r)
    \/ Arrive(r) \/ Cancel(r) \/ RenewalFails(r) \/ Lapse(r) \/ Crash(r)
    \/ DropBoundSandbox(r) \/ StartWork(r)
Around ==
    \/ \E t \in Turn : BeginTurn(t) \/ EndTurn(t)
    \/ \E b \in Box : BoxComesUp(b) \/ BoxDies(b)
    \/ InvalidateByConfig \/ TurnLeaseExpires \/ EndWork \/ UNCHANGED vars

LEMMA NextCases ==
    ASSUME [Next]_vars
    PROVE  (\E r \in Req : Locked(r) \/ Outer(r)) \/ Around
  BY DEF Next, Handler, Outer, Around

LEMMA OuterOthers ==
    ASSUME Inv, NEW r \in Req, Outer(r)
    PROVE  \A q \in Req \ {r} : op'[q] = op[q]
<1>0. op \in [Req -> Op]
  BY DEF Inv, TypeOK
<1>1. CASE Acquire(r) \/ DeleteRow(r)
  BY <1>0, <1>1, GoKeeps DEF Acquire, DeleteRow
<1>2. CASE GiveUp(r) \/ Crash(r)
  BY <1>0, <1>2 DEF GiveUp, Crash
<1>3. CASE Release(r) \/ Arrive(r)
  BY <1>0, <1>3, ReleaseShape, ArriveShape DEF Rests
<1>4. CASE Cancel(r) \/ RenewalFails(r) \/ Lapse(r)
  BY <1>0, <1>4, ContextShape
<1>5. CASE LeaseExpires(r) \/ DropBoundSandbox(r) \/ StartWork(r)
  BY <1>0, <1>5 DEF LeaseExpires, DropBoundSandbox, StartWork
<1> QED BY <1>1, <1>2, <1>3, <1>4, <1>5 DEF Outer

\* Outside the lock a request takes no sandbox but the one it releases with.
LEMMA OuterRefers ==
    ASSUME Inv, NEW r \in Req, Outer(r)
    PROVE  /\ op'[r].saw \in {op[r].saw, None} /\ op'[r].box \in {op[r].box, None}
           /\ op'[r].out \in {op[r].out, op[r].box, None}
           /\ bound' \in {bound, None} /\ work' \in {work, op[r].out}
<1>0. op \in [Req -> Op]
  BY DEF Inv, TypeOK
<1>1. CASE Acquire(r) \/ DeleteRow(r)
  BY <1>0, <1>1, GoKeeps DEF Acquire, DeleteRow, Same, bindVars
<1>2. CASE GiveUp(r) \/ Crash(r)
  BY <1>0, <1>2, EndShape DEF GiveUp, Crash, Rests, bindVars
<1>3. CASE Release(r)
  <2>1. bound' = bound /\ work' = work
    BY <1>3 DEF Release, bindVars
  <2>2. op'[r].saw = None /\ op'[r].box = None /\ op'[r].out \in {op[r].box, None}
    BY <1>0, <1>3, ReleaseShape DEF Rests
  <2> QED BY <2>1, <2>2
<1>4. CASE Arrive(r)
  BY <1>0, <1>4, ArriveShape DEF Arrive, bindVars
<1>5. CASE Cancel(r) \/ RenewalFails(r) \/ Lapse(r)
  BY <1>0, <1>5, ContextShape DEF Cancel, RenewalFails, Lapse, bindVars
<1>6. CASE LeaseExpires(r) \/ DropBoundSandbox(r) \/ StartWork(r)
  BY <1>0, <1>6 DEF LeaseExpires, DropBoundSandbox, StartWork, Unbind, bindVars
<1> QED BY <1>1, <1>2, <1>3, <1>4, <1>5, <1>6 DEF Outer

\* Beside the lock no request goes anywhere; a turn that ends takes what it was given.
Stays(q) ==
    /\ op'[q].pc = op[q].pc /\ op'[q].kind = op[q].kind /\ op'[q].ctx = op[q].ctx
    /\ op'[q].saw = op[q].saw /\ op'[q].box = op[q].box /\ op'[q].made = op[q].made
    /\ op'[q].lapsed = op[q].lapsed
    /\ \/ op'[q].out = op[q].out /\ op'[q].turn = op[q].turn
       \/ op'[q].out = None /\ op'[q].turn = None

LEMMA AroundStays ==
    ASSUME Inv, Around
    PROVE  /\ \A q \in Req : Stays(q)
           /\ owner' = owner /\ bound' = bound /\ work' \in {work, None}
<1>0. op \in [Req -> Op]
  BY DEF Inv, TypeOK
<1>1. CASE \E t \in Turn : EndTurn(t)
  BY <1>0, <1>1, EndTurnShape DEF Stays, EndTurn, bindVars
<1>2. CASE ~\E t \in Turn : EndTurn(t)
  BY <1>2 DEF Around, Stays, BeginTurn, BoxComesUp, BoxDies, InvalidateByConfig, TurnLeaseExpires, EndWork, vars, bindVars
<1> QED BY <1>1, <1>2

LEMMA StartedStep ==
    ASSUME Inv, StartedInv, [Next]_vars
    PROVE  StartedInv'
<1>1. /\ bound \in Box \cup {None} /\ work \in Box \cup {None}
      /\ \A q \in Req : op[q].saw \in Box \cup {None} /\ op[q].box \in Box \cup {None} /\ op[q].out \in Box \cup {None}
  BY DEF Inv, TypeOK, Op
<1>2. /\ Started(bound) /\ Started(work)
      /\ \A q \in Req : Started(op[q].saw) /\ Started(op[q].box) /\ Started(op[q].out)
  BY DEF StartedInv
<1> DEFINE On(b) == b = None \/ cloud'[b] \notin Ahead
<1>3. /\ On(None) /\ On(bound) /\ On(work)
      /\ \A q \in Req : On(op[q].saw) /\ On(op[q].box) /\ On(op[q].out)
  BY <1>1, <1>2, CloudGrows DEF Started
<1>4. \A b \in Box : cloud'[b] = "live" => On(b)
  BY DEF Ahead
<1> HIDE DEF On
<1>5. ASSUME NEW r \in Req, Locked(r)
      PROVE  On(bound') /\ On(work') /\ \A q \in Req : On(op'[q].saw) /\ On(op'[q].box) /\ On(op'[q].out)
  BY <1>3, <1>4, <1>5, LockedRefers DEF Refers
<1>6. ASSUME NEW r \in Req, Outer(r)
      PROVE  On(bound') /\ On(work') /\ \A q \in Req : On(op'[q].saw) /\ On(op'[q].box) /\ On(op'[q].out)
  BY <1>3, <1>6, OuterRefers, OuterOthers
<1>7. ASSUME Around
      PROVE  On(bound') /\ On(work') /\ \A q \in Req : On(op'[q].saw) /\ On(op'[q].box) /\ On(op'[q].out)
  BY <1>3, <1>7, AroundStays DEF Stays
<1>8. On(bound') /\ On(work') /\ \A q \in Req : On(op'[q].saw) /\ On(op'[q].box) /\ On(op'[q].out)
  BY <1>5, <1>6, <1>7, NextCases
<1> QED BY <1>8 DEF On, StartedInv, Started

LEMMA IdleStep ==
    ASSUME Inv, IdleInv, [Next]_vars
    PROVE  IdleInv'
<1>0. op \in [Req -> Op]
  BY DEF Inv, TypeOK
<1>1. ASSUME NEW r \in Req, Locked(r) PROVE IdleInv'
  BY <1>1, LockedStays, LockedRefers DEF Refers, IdleInv
<1>2. ASSUME NEW r \in Req, Outer(r)
      PROVE  op'[r].pc \in Outside => op'[r].saw = None /\ op'[r].box = None /\ ~op'[r].made /\ ~op'[r].lapsed
  <2>1. CASE Acquire(r)
    BY <1>0, <2>1, GoKeeps DEF Acquire, Outside
  <2>2. CASE DeleteRow(r)
    BY <1>0, <2>2 DEF DeleteRow, Go, At, Outside, IdleInv, Op
  <2>3. CASE GiveUp(r) \/ Crash(r)
    BY <1>0, <2>3, EndShape DEF GiveUp, Crash, Rests
  <2>4. CASE Release(r)
    BY <1>0, <2>4, ReleaseShape DEF Rests
  <2>5. CASE Arrive(r)
    BY <1>0, <2>5, ArriveShape DEF IdleInv, Outside
  <2>6. CASE Lapse(r)
    BY <1>0, <2>6, ContextShape DEF Lapse, Inside
  <2>7. CASE Cancel(r) \/ RenewalFails(r)
    <3>1. op'[r].lapsed = op[r].lapsed
      BY <1>0, <2>7 DEF Cancel, RenewalFails, Op
    <3> QED BY <1>0, <2>7, <3>1, ContextShape DEF IdleInv
  <2>8. CASE LeaseExpires(r) \/ DropBoundSandbox(r) \/ StartWork(r)
    BY <2>8 DEF LeaseExpires, DropBoundSandbox, StartWork, IdleInv
  <2> QED BY <1>2, <2>1, <2>2, <2>3, <2>4, <2>5, <2>6, <2>7, <2>8 DEF Outer
<1>3. ASSUME NEW r \in Req, Outer(r) PROVE IdleInv'
  BY <1>2, <1>3, OuterOthers DEF IdleInv
<1>4. CASE Around
  BY <1>4, AroundStays DEF Stays, IdleInv
<1> QED BY <1>1, <1>3, <1>4, NextCases

LEMMA LapseStep ==
    ASSUME Inv, LapseCounted, [Next]_vars
    PROVE  LapseCounted'
<1>0. op \in [Req -> Op] /\ faults \in [Kind -> Nat]
  BY DEF Inv, TypeOK
<1>1. "lapse" \in Kind
  BY DEF Kind
<1>2. faults["lapse"] \in Nat /\ faults'["lapse"] \in Nat /\ faults'["lapse"] >= faults["lapse"]
  BY <1>1, FaultCounts
<1>3. ASSUME NEW r \in Req, op'[r].lapsed => op[r].lapsed, \A q \in Req \ {r} : op'[q] = op[q]
      PROVE  LapseCounted'
  BY <1>2, <1>3 DEF LapseCounted
<1>4. ASSUME NEW r \in Req, Locked(r) PROVE LapseCounted'
  BY <1>3, <1>4, LockedWorks, LockedRefers DEF Works, Refers
<1>5. ASSUME NEW r \in Req, Lapse(r) PROVE LapseCounted'
  <2>1. faults'["lapse"] = faults["lapse"] + 1
    BY <1>0, <1>1, <1>5 DEF Lapse, Fault
  <2>2. \A q \in Req \ {r} : op'[q] = op[q]
    BY <1>0, <1>5, ContextShape
  <2> QED BY <1>2, <2>1, <2>2 DEF LapseCounted
<1>6. ASSUME NEW r \in Req, Outer(r), ~Lapse(r) PROVE LapseCounted'
  <2>1. op'[r].lapsed => op[r].lapsed
    <3>1. CASE Acquire(r) \/ DeleteRow(r) \/ Cancel(r) \/ RenewalFails(r)
      BY <1>0, <3>1 DEF Acquire, DeleteRow, Go, Cancel, RenewalFails, Op
    <3>2. CASE GiveUp(r) \/ Crash(r)
      BY <1>0, <3>2, EndShape DEF GiveUp, Crash, Rests
    <3>3. CASE Release(r) \/ Arrive(r)
      BY <1>0, <3>3, ReleaseShape, ArriveShape DEF Rests
    <3>4. CASE LeaseExpires(r) \/ DropBoundSandbox(r) \/ StartWork(r)
      BY <3>4 DEF LeaseExpires, DropBoundSandbox, StartWork
    <3> QED BY <1>6, <3>1, <3>2, <3>3, <3>4 DEF Outer
  <2> QED BY <1>3, <1>6, <2>1, OuterOthers
<1>7. CASE Around
  BY <1>2, <1>7, AroundStays DEF Stays, LapseCounted
<1> QED BY <1>4, <1>5, <1>6, <1>7, NextCases

LEMMA CutStays ==
    ASSUME NEW r \in Req, Locked(r), ~Create(r), ~Bind(r)
    PROVE  cut' = cut
  BY DEF Locked, Look, Kill, DeleteBinding, ConsumeTurnRebuild, ConnectBinding, DropBinding, List, AdoptOwned,
     RecheckSession, Bootstrap, Unboot, Undo, LoseBinding, ConnectWinner, FailCall

LEMMA OuterCut ==
    ASSUME NEW r \in Req, Outer(r)
    PROVE  cut' = cut /\ cloud' = cloud
  BY DEF Outer, Acquire, GiveUp, Release, DeleteRow, LeaseExpires, Arrive, Cancel, RenewalFails, Lapse, Crash,
     DropBoundSandbox, StartWork

LEMMA AroundCut ==
    ASSUME Inv, Around
    PROVE  cut' = cut /\ \A b \in Box : cloud'[b] = "starting" => cloud[b] = "starting"
<1>0. cloud \in [Box -> CloudState]
  BY DEF Inv, TypeOK, CloudState
<1>1. CASE \E b \in Box : BoxComesUp(b) \/ BoxDies(b)
  BY <1>0, <1>1 DEF BoxComesUp, BoxDies
<1>2. CASE ~\E b \in Box : BoxComesUp(b) \/ BoxDies(b)
  BY <1>2 DEF Around, BeginTurn, EndTurn, InvalidateByConfig, TurnLeaseExpires, EndWork, vars
<1> QED BY <1>1, <1>2

LEMMA CutStep ==
    ASSUME Inv, StartedInv, CutInv, [Next]_vars
    PROVE  CutInv'
<1>0. /\ cloud \in [Box -> CloudState] /\ bound \in Box \cup {None}
      /\ \A q \in Req : op[q].box \in Box \cup {None}
  BY DEF Inv, TypeOK, CloudState, Op
<1>1. ASSUME cut' = cut, \A b \in Box : cloud'[b] = "starting" => cloud[b] = "starting"
      PROVE  CutInv'
  BY <1>1 DEF CutInv
<1>2. ASSUME NEW S, NEW why \in {"replaced", "released"}, Deleted(S, why)
      PROVE  \A b \in Box : cloud'[b] = "starting" => cloud[b] = "starting"
  BY <1>2 DEF Deleted
<1>3. ASSUME NEW r \in Req, Create(r) PROVE CutInv'
  <2>1. PICK b \in Box : Creates(r, b)
    BY <1>3, CreateShape
  <2> QED BY <2>1 DEF Creates, CutInv
<1>4. ASSUME NEW r \in Req, Bind(r) PROVE CutInv'
  <2>1. cloud' = cloud /\ cut' = cut \ {bound'} /\ bound' \in {bound, op[r].box}
    BY <1>4 DEF Bind, bindVars
  <2>2. \A b \in Box : cloud[b] = "starting" => b # bound'
    BY <2>1 DEF StartedInv, Started, Ahead, None, Box
  <2> QED BY <2>1, <2>2 DEF CutInv
<1>5. ASSUME NEW r \in Req, Locked(r), ~Create(r), ~Bind(r) PROVE CutInv'
  <2>1. CASE Kill(r) \/ AdoptOwned(r) \/ Undo(r) \/ LoseBinding(r)
    BY <1>1, <1>2, <1>5, <2>1, CutStays DEF Kill, AdoptOwned, Undo, LoseBinding, Lose
  <2>2. CASE cloud' = cloud
    BY <1>1, <1>5, <2>2, CutStays
  <2> QED BY <1>5, <2>1, <2>2 DEF Locked, Look, DeleteBinding, ConsumeTurnRebuild, ConnectBinding, DropBinding,
             List, RecheckSession, Bootstrap, Unboot, ConnectWinner, FailCall
<1>6. ASSUME NEW r \in Req, Outer(r) PROVE CutInv'
  BY <1>1, <1>6, OuterCut
<1>7. CASE Around
  BY <1>1, <1>7, AroundCut
<1> QED BY <1>3, <1>4, <1>5, <1>6, <1>7, NextCases

LEMMA BaseInit == Init => Base
<1> SUFFICES ASSUME Init PROVE Base
  OBVIOUS
<1>1. \A r \in Req : /\ op[r].saw = None /\ op[r].box = None /\ op[r].out = None
                     /\ ~op[r].made /\ ~op[r].lapsed
  BY DEF Init, NewOp
<1>2. Started(bound) /\ Started(work)
  BY DEF Init, Started, Ahead
<1>3. CutInv
  BY DEF Init, CutInv
<1> QED BY <1>1, <1>2, <1>3, InitInv DEF Base, StartedInv, Started, IdleInv, LapseCounted

LEMMA BaseStep == Base /\ [Next]_vars => Base'
  BY NextInv, StartedStep, IdleStep, LapseStep, CutStep DEF Base

-----------------------------------------------------------------------------
(* While no lock lapsed: one holder, and what it may rely on *)

NoLapse == faults["lapse"] = 0

\* The sandboxes that are in use, by a turn, its caller or background work.
InUse(b) == b # None /\ (b = work \/ \E q \in Req : b = op[q].out)

\* One that lives is bound.
OutBound == \A b \in Box : Live(b) /\ InUse(b) => bound = b

\* The binding is the one that was read, unless that one is gone.
AsRead(r) == bound = op[r].saw \/ (bound = None /\ ~Live(op[r].saw))

\* What the holder of the lock knows at each point of resolveLocked and destroyLocked.
Holder(r) ==
    /\ op[r].pc \in {"look", "kill", "unbind", "consume", "connect"} => op[r].box = None
    /\ op[r].pc \in {"look", "kill", "unbind", "consume", "connect", "drop", "list", "dups", "create"} => ~op[r].made
    /\ op[r].pc \in {"kill", "unbind", "consume", "connect"} => AsRead(r)
    /\ op[r].pc \in {"unbind", "drop"} => ~Live(op[r].saw)
    /\ op[r].pc \in {"drop", "list", "dups", "create"} => ~Live(op[r].box)
    /\ op[r].pc \in {"list", "dups", "create", "recheck", "bind"} => bound = None
    /\ op[r].pc \in {"recheck", "boot", "unboot"} => op[r].made
    /\ op[r].pc = "boot" => bound = op[r].box
    /\ op[r].pc \in {"recheck", "bind", "boot", "unboot"} /\ op[r].made => ~InUse(op[r].box)
    /\ op[r].pc = "done" /\ Live(op[r].box) => bound = op[r].box
    /\ op[r].pc \notin {"lose", "winner"}

HeldInv == NoLapse => OutBound /\ \A r \in Req : Inside(r) => Holder(r)

LEMMA OneHolder ==
    ASSUME Base, NoLapse, NEW r \in Req, Inside(r)
    PROVE  owner = r /\ \A q \in Req \ {r} : ~Inside(q)
<1>1. \A q \in Req : Inside(q) => owner = q
  BY DEF Base, Inv, LockIsOwn, LapseCounted, NoLapse
<1> QED BY <1>1

LEMMA NoLapseBefore ==
    ASSUME Inv, [Next]_vars, NoLapse'
    PROVE  NoLapse
<1>1. "lapse" \in Kind
  BY DEF Kind
<1>2. faults["lapse"] \in Nat /\ faults'["lapse"] >= faults["lapse"]
  BY <1>1, FaultCounts
<1> QED BY <1>2 DEF NoLapse

\* A step that takes no live sandbox in use from its binding.
LEMMA OutKeeps ==
    ASSUME OutBound,
           \A b \in Box : cloud'[b] = "live" /\ InUse(b)' => cloud[b] = "live" /\ InUse(b) /\ (bound = b => bound' = b)
    PROVE  OutBound'
  BY DEF OutBound, Live, None, Box

LEMMA NotBoundNotUsed ==
    ASSUME OutBound, bound = None
    PROVE  \A b \in Box : InUse(b) => cloud[b] # "live"
  BY DEF OutBound, Live, InUse, None

LEMMA FreshNotUsed ==
    ASSUME Base, NEW b \in Box, cloud[b] \in Ahead
    PROVE  ~InUse(b) /\ b # None /\ bound # b
  BY DEF Base, StartedInv, Started, InUse, None, Box

LEMMA LockedUses ==
    ASSUME Inv, NEW r \in Req, Locked(r)
    PROVE  \A b : InUse(b)' <=> InUse(b)
  BY LockedRefers DEF Refers, InUse

\* A provider's deletions start nothing.
LEMMA DeletedDies ==
    ASSUME cloud \in [Box -> CloudState], NEW S, NEW why \in {"replaced", "released"}, Deleted(S, why)
    PROVE  /\ \A b \in Box : cloud'[b] = "live" => cloud[b] = "live"
           /\ \A b \in Box \cap S : cloud'[b] # "live"
  BY DEF Deleted

\* The binding goes with a sandbox that is gone, or that nobody uses.
LEMMA UnbindKeeps ==
    ASSUME OutBound, NEW b, Unbind(b), cloud' = cloud, \A c : InUse(c)' <=> InUse(c),
           b \in Box => ~Live(b) \/ ~InUse(b)
    PROVE  OutBound'
<1>1. bound = b \/ bound' = bound
  BY DEF Unbind
<1> QED BY <1>1, OutKeeps DEF Live, None, Box

LEMMA LockedHolds ==
    ASSUME Base, OutBound, NEW r \in Req, Holder(r), Locked(r)
    PROVE  OutBound' /\ Holder(r)'
<1>0. /\ op \in [Req -> Op] /\ cloud \in [Box -> CloudState] /\ bound \in Box \cup {None}
      /\ op[r].saw \in Box \cup {None} /\ op[r].box \in Box \cup {None}
  BY DEF Base, Inv, TypeOK, Op, CloudState
<1>1. \A b : InUse(b)' <=> InUse(b)
  BY LockedUses DEF Base
<1>2. ASSUME bound' = bound, \A b \in Box : cloud'[b] = "live" => cloud[b] = "live"
      PROVE  OutBound'
  BY <1>1, <1>2, OutKeeps
<1>3. ASSUME Look(r) PROVE OutBound' /\ Holder(r)'
  <2>1. bound' = bound /\ cloud' = cloud /\ op[r].pc = "look"
    BY <1>3 DEF Look, At, bindVars
  <2>2. /\ op'[r].saw = bound /\ op'[r].box = op[r].box /\ op'[r].made = op[r].made
        /\ op'[r].pc \in {"kill", "fail", "done", "consume"}
    BY <1>0, <1>3, LookShape
  <2>3. op[r].box = None /\ ~op[r].made
    BY <2>1 DEF Holder
  <2> QED BY <1>2, <2>1, <2>2, <2>3 DEF Holder, AsRead, Live
<1>4. ASSUME Kill(r) PROVE OutBound' /\ Holder(r)'
  <2>1. bound' = bound /\ op[r].pc = "kill"
    BY <1>4 DEF Kill, At, bindVars
  <2>2. op'[r].pc \in {"unbind", "fail"} /\ Same(r)
    BY <1>0, <1>4, KillShape
  <2>3. /\ \A b \in Box : cloud'[b] = "live" => cloud[b] = "live"
        /\ \A b \in Box \cap {op[r].saw} : cloud'[b] # "live"
    BY <1>0, <1>4, DeletedDies DEF Kill
  <2>4. op[r].box = None /\ ~op[r].made /\ AsRead(r)
    BY <2>1 DEF Holder
  <2> QED BY <1>0, <1>2, <2>1, <2>2, <2>3, <2>4 DEF Holder, AsRead, Live, Same
<1>5. ASSUME DeleteBinding(r) PROVE OutBound' /\ Holder(r)'
  <2>1. cloud' = cloud /\ op[r].pc = "unbind" /\ Unbind(op[r].saw)
    BY <1>5 DEF DeleteBinding, At
  <2>2. /\ op'[r].box = op[r].box /\ op'[r].made = op[r].made /\ op'[r].pc \in {"fail", "consume", "done"}
        /\ op'[r].pc # "fail" => op'[r].saw = None /\ bound \in {op[r].saw, None}
    BY <1>0, <1>5, DeleteBindingShape
  <2>3. op[r].box = None /\ ~op[r].made /\ ~Live(op[r].saw)
    BY <2>1 DEF Holder
  <2>4. OutBound'
    BY <1>1, <2>1, <2>3, UnbindKeeps
  <2>5. op'[r].pc # "fail" => bound' = None
    BY <2>1, <2>2 DEF Unbind
  <2> QED BY <2>2, <2>3, <2>4, <2>5 DEF Holder, AsRead, Live
<1>6. ASSUME ConsumeTurnRebuild(r) PROVE OutBound' /\ Holder(r)'
  <2>1. bound' = bound /\ cloud' = cloud /\ op[r].pc = "consume"
    BY <1>6 DEF ConsumeTurnRebuild, At, bindVars
  <2>2. op'[r].pc = (IF op[r].saw # None THEN "connect" ELSE "list") /\ Same(r)
    BY <1>0, <1>6, GoKeeps DEF ConsumeTurnRebuild
  <2>3. op[r].box = None /\ ~op[r].made /\ AsRead(r)
    BY <2>1 DEF Holder
  <2>4. CASE op[r].saw # None
    BY <1>2, <2>1, <2>2, <2>3, <2>4 DEF Holder, AsRead, Live, Same
  <2>5. CASE op[r].saw = None
    <3>1. bound = None /\ op'[r].pc = "list"
      BY <2>2, <2>3, <2>5 DEF AsRead
    <3> QED BY <1>2, <2>1, <2>2, <2>3, <3>1 DEF Holder, Live, Same
  <2> QED BY <2>4, <2>5
<1>7. ASSUME ConnectBinding(r) PROVE OutBound' /\ Holder(r)'
  <2>1. bound' = bound /\ cloud' = cloud /\ op[r].pc = "connect"
    BY <1>7 DEF ConnectBinding, At, bindVars
  <2> DEFINE pc == IF Live(op[r].saw) THEN "done" ELSE "drop"
  <2>2. TakesBox(r, pc, op[r].saw) /\ op'[r].made = op[r].made
    <3>1. op' = [op EXCEPT ![r].pc = pc, ![r].box = op[r].saw]
      BY <1>7 DEF ConnectBinding
    <3> HIDE DEF pc
    <3> QED BY <1>0, <3>1, TakesBoxShape
  <2>3. ~op[r].made /\ AsRead(r)
    BY <2>1 DEF Holder
  <2>4. CASE Live(op[r].saw)
    <3>1. op'[r].pc = "done" /\ op'[r].box = op[r].saw /\ bound = op[r].saw
      BY <2>2, <2>3, <2>4 DEF TakesBox, AsRead
    <3> QED BY <1>2, <2>1, <2>2, <3>1 DEF Holder
  <2>5. CASE ~Live(op[r].saw)
    <3>1. op'[r].pc = "drop" /\ op'[r].box = op[r].saw /\ op'[r].saw = op[r].saw
      BY <2>2, <2>5 DEF TakesBox
    <3> QED BY <1>2, <2>1, <2>2, <2>3, <2>5, <3>1 DEF Holder, Live
  <2> QED BY <2>4, <2>5
<1>8. ASSUME DropBinding(r) PROVE OutBound' /\ Holder(r)'
  <2>1. cloud' = cloud /\ op[r].pc = "drop" /\ Unbind(op[r].saw)
    BY <1>8 DEF DropBinding, At
  <2>2. op'[r].pc \in {"list", "fail"} /\ (op'[r].pc = "list" => bound = op[r].saw) /\ Same(r)
    <3>1. CASE Go(r, "fail")
      BY <1>0, <3>1, GoKeeps
    <3>2. CASE Go(r, IF bound = op[r].saw THEN "list" ELSE "fail")
      BY <1>0, <3>2, GoKeeps
    <3> QED BY <1>8, <3>1, <3>2 DEF DropBinding
  <2>3. ~op[r].made /\ ~Live(op[r].saw) /\ ~Live(op[r].box)
    BY <2>1 DEF Holder
  <2>4. OutBound'
    BY <1>1, <2>1, <2>3, UnbindKeeps
  <2>5. op'[r].pc = "fail" \/ (op'[r].pc = "list" /\ bound' = None)
    BY <2>1, <2>2 DEF Unbind
  <2> QED BY <2>1, <2>2, <2>3, <2>4, <2>5 DEF Holder, Live, Same
<1>9. ASSUME List(r) PROVE OutBound' /\ Holder(r)'
  <2>1. bound' = bound /\ cloud' = cloud /\ op[r].pc = "list"
    BY <1>9 DEF List, At, bindVars
  <2>2. op'[r].pc \in {"create", "dups"} /\ Same(r)
    BY <1>0, <1>9, ListShape
  <2> QED BY <1>2, <2>1, <2>2 DEF Holder, Live, Same
<1>10. ASSUME AdoptOwned(r) PROVE OutBound' /\ Holder(r)'
  <2>1. bound' = bound /\ op[r].pc = "dups"
    BY <1>10 DEF AdoptOwned, At, bindVars
  <2>2. \A b \in Box : cloud'[b] = "live" => cloud[b] = "live"
    BY <1>0, <1>10, AdoptDeletes, DeletedDies
  <2>3. bound = None /\ ~op[r].made /\ ~Live(op[r].box)
    BY <2>1 DEF Holder
  <2>4. \/ op'[r].pc \in {"create", "fail"} /\ op'[r].box = op[r].box /\ op'[r].made = op[r].made
        \/ op'[r].pc = "bind" /\ op'[r].made = op[r].made
    BY <1>0, <1>10, AdoptShape DEF TakesBox, Same
  <2> QED BY <1>0, <1>2, <2>1, <2>2, <2>3, <2>4 DEF Holder, Live
<1>11. ASSUME Create(r) PROVE OutBound' /\ Holder(r)'
  <2>1. bound' = bound /\ op[r].pc = "create"
    BY <1>11 DEF Create, At, bindVars
  <2>2. PICK b \in Box : Creates(r, b)
    BY <1>11, CreateShape DEF Base
  <2>3. ~InUse(b) /\ ~InUse(b)'
    BY <1>1, <2>2, FreshNotUsed DEF Creates, Ahead
  <2>4. OutBound'
    BY <1>1, <2>1, <2>2, <2>3, OutKeeps DEF Creates
  <2>5. bound = None
    BY <2>1 DEF Holder
  <2>6. CASE TakesBox(r, "recheck", b) /\ op'[r].made
    <3>1. op'[r].pc = "recheck" /\ op'[r].box = b
      BY <2>6 DEF TakesBox
    <3> QED BY <2>1, <2>3, <2>4, <2>5, <2>6, <3>1 DEF Holder
  <2>7. CASE op'[r].pc = "fail"
    BY <2>4, <2>7 DEF Holder
  <2>8. (TakesBox(r, "recheck", b) /\ op'[r].made) \/ op'[r].pc = "fail"
    BY <2>2 DEF Creates
  <2> QED BY <2>6, <2>7, <2>8
<1>12. ASSUME RecheckSession(r) PROVE OutBound' /\ Holder(r)'
  <2>1. bound' = bound /\ cloud' = cloud /\ op[r].pc = "recheck"
    BY <1>12 DEF RecheckSession, At, bindVars
  <2>2. PICK pc \in {"bind", "undo"} : Go(r, pc)
    BY <1>12 DEF RecheckSession, Recheck
  <2>3. op'[r].pc \in {"bind", "undo"} /\ Same(r)
    BY <1>0, <2>2, GoKeeps
  <2>4. bound = None /\ ~InUse(op[r].box)
    BY <2>1 DEF Holder
  <2> QED BY <1>1, <1>2, <2>1, <2>3, <2>4 DEF Holder, Same
<1>13. ASSUME Bind(r) PROVE OutBound' /\ Holder(r)'
  <2>1. cloud' = cloud /\ op[r].pc = "bind" /\ bound = None
    BY <1>13 DEF Bind, At, Holder
  <2>2. OutBound'
    <3>1. \A b \in Box : InUse(b) => cloud[b] # "live"
      BY <2>1, NotBoundNotUsed
    <3> QED BY <1>1, <2>1, <3>1, OutKeeps
  <2>3. \/ bound' = op[r].box /\ Go(r, IF op[r].made THEN "boot" ELSE "done")
        \/ Go(r, IF op[r].made THEN "undo" ELSE "fail")
    BY <1>13, <2>1 DEF Bind
  <2>4. CASE op[r].made
    <3>1. (bound' = op[r].box /\ Go(r, "boot")) \/ Go(r, "undo")
      BY <2>3, <2>4
    <3>2. (bound' = op[r].box /\ op'[r].pc = "boot" /\ Same(r)) \/ op'[r].pc = "undo"
      BY <1>0, <3>1, GoKeeps
    <3>3. ~InUse(op[r].box)
      BY <2>1, <2>4 DEF Holder
    <3> QED BY <1>1, <2>2, <2>4, <3>2, <3>3 DEF Holder, Same
  <2>5. CASE ~op[r].made
    <3>1. (bound' = op[r].box /\ Go(r, "done")) \/ Go(r, "fail")
      BY <2>3, <2>5
    <3>2. (bound' = op[r].box /\ op'[r].pc = "done" /\ Same(r)) \/ op'[r].pc = "fail"
      BY <1>0, <3>1, GoKeeps
    <3> QED BY <2>2, <3>2 DEF Holder, Same
  <2> QED BY <2>4, <2>5
<1>14. ASSUME Bootstrap(r) PROVE OutBound' /\ Holder(r)'
  <2>1. bound' = bound /\ cloud' = cloud /\ op[r].pc = "boot"
    BY <1>14 DEF Bootstrap, At, bindVars
  <2>2. op'[r].pc \in {"done", "unboot"} /\ Same(r)
    BY <1>0, <1>14, GoKeeps DEF Bootstrap
  <2>3. bound = op[r].box /\ op[r].made /\ ~InUse(op[r].box)
    BY <2>1 DEF Holder
  <2> QED BY <1>1, <1>2, <2>1, <2>2, <2>3 DEF Holder, Same
<1>15. ASSUME Unboot(r) PROVE OutBound' /\ Holder(r)'
  <2>1. cloud' = cloud /\ op[r].pc = "unboot"
    BY <1>15 DEF Unboot, At
  <2>2. ~InUse(op[r].box)
    BY <2>1 DEF Holder
  <2>3. Unbind(op[r].box) \/ bound' = bound
    BY <1>15 DEF Unboot, bindVars
  <2>4. OutBound'
    BY <1>1, <1>2, <2>1, <2>2, <2>3, UnbindKeeps
  <2>5. op'[r].pc \in {"undo", "fail"}
    BY <1>0, <1>15, GoKeeps DEF Unboot
  <2> QED BY <2>4, <2>5 DEF Holder
<1>16. ASSUME Undo(r) PROVE OutBound' /\ Holder(r)'
  <2>1. bound' = bound
    BY <1>16 DEF Undo, bindVars
  <2>2. \A b \in Box : cloud'[b] = "live" => cloud[b] = "live"
    BY <1>0, <1>16, DeletedDies DEF Undo
  <2>3. op'[r].pc = "fail"
    BY <1>0, <1>16, GoKeeps DEF Undo
  <2> QED BY <1>2, <2>1, <2>2, <2>3 DEF Holder
<1>17. ~LoseBinding(r) /\ ~ConnectWinner(r)
  BY DEF LoseBinding, ConnectWinner, At, Holder
<1>18. ASSUME FailCall(r) PROVE OutBound' /\ Holder(r)'
  <2>1. bound' = bound /\ cloud' = cloud
    BY <1>18 DEF FailCall, bindVars
  <2>2. op'[r].pc = "fail"
    BY <1>0, <1>18, GoKeeps DEF FailCall
  <2> QED BY <1>2, <2>1, <2>2 DEF Holder
<1> QED BY <1>3, <1>4, <1>5, <1>6, <1>7, <1>8, <1>9, <1>10, <1>11, <1>12, <1>13, <1>14, <1>15, <1>16,
           <1>17, <1>18 DEF Locked

\* What the others may do beside the holder: sandboxes die or come up late, uses end or
\* are passed on, and a binding goes with a sandbox in use that died.
Beside ==
    /\ \A b \in Box : cloud'[b] = "live" => cloud[b] \in {"live", "starting"}
    /\ \A b : InUse(b)' => InUse(b)
    /\ bound' = bound \/ (bound' = None /\ InUse(bound) /\ ~Live(bound))

LEMMA HolderKeeps ==
    ASSUME Base, NEW q \in Req, Holder(q), Beside,
           op'[q].pc = op[q].pc, op'[q].saw = op[q].saw, op'[q].box = op[q].box, op'[q].made = op[q].made
    PROVE  Holder(q)'
<1>0. /\ bound \in Box \cup {None} /\ op[q].saw \in Box \cup {None} /\ op[q].box \in Box \cup {None}
  BY DEF Base, Inv, TypeOK, Op
<1>1. \A b \in {op[q].saw, op[q].box, bound} : cloud'[b] = "live" /\ b # None => Live(b)
  BY <1>0 DEF Beside, Live, Base, StartedInv, Started, Ahead
<1>2. AsRead(q) => AsRead(q)'
  <2>1. CASE bound' = bound
    BY <1>0, <1>1, <2>1 DEF AsRead, Live
  <2>2. CASE bound' = None /\ ~Live(bound)
    <3>1. AsRead(q) => ~Live(op[q].saw)
      BY <2>2 DEF AsRead
    <3> QED BY <1>0, <1>1, <2>2, <3>1 DEF AsRead, Live
  <2> QED BY <2>1, <2>2 DEF Beside
<1>3. ~Live(op[q].saw) => ~Live(op[q].saw)'
  BY <1>0, <1>1 DEF Live
<1>4. ~Live(op[q].box) => ~Live(op[q].box)'
  BY <1>0, <1>1 DEF Live
<1>5. ~InUse(op[q].box) => ~InUse(op[q].box)'
  BY DEF Beside
<1>6. bound = None => bound' = None
  BY DEF Beside
<1>7. op[q].pc = "boot" => bound' = op'[q].box
  BY DEF Holder, Beside
<1>8. op[q].pc = "done" /\ Live(op[q].box)' => bound' = op'[q].box
  BY <1>4 DEF Holder, Beside
<1> QED BY <1>2, <1>3, <1>4, <1>5, <1>6, <1>7, <1>8 DEF Holder

LEMMA BesideBinds ==
    ASSUME Base, OutBound, Beside
    PROVE  OutBound'
<1>1. \A b \in Box : cloud'[b] = "live" /\ InUse(b) => cloud[b] = "live"
  BY FreshNotUsed DEF Beside, Ahead
<1> QED BY <1>1, OutKeeps DEF Beside, Live

\* Steps outside the lock, but for the release of a result.
LEMMA OuterBeside ==
    ASSUME Base, NEW r \in Req, Outer(r), op'[r].out \in {op[r].out, None}
    PROVE  Beside
<1>1. cloud' = cloud
  BY DEF Outer, Acquire, GiveUp, Release, DeleteRow, LeaseExpires, Arrive, Cancel, RenewalFails, Lapse, Crash,
     DropBoundSandbox, StartWork
<1>2. \A q \in Req : op'[q].out \in {op[q].out, None}
  BY OuterOthers DEF Base
<1>3. work' \in {work, op[r].out}
  BY OuterRefers DEF Base
<1>4. \A b : InUse(b)' => InUse(b)
  BY <1>2, <1>3 DEF InUse
<1>5. bound' = bound \/ (bound' = None /\ InUse(bound) /\ ~Live(bound))
  <2>1. CASE DropBoundSandbox(r)
    BY <2>1 DEF DropBoundSandbox, Unbind, InUse
  <2>2. CASE ~DropBoundSandbox(r)
    BY <2>2 DEF Outer, Acquire, GiveUp, Release, DeleteRow, LeaseExpires, Arrive, Cancel, RenewalFails, Lapse, Crash,
       StartWork, bindVars
  <2> QED BY <2>1, <2>2
<1> QED BY <1>1, <1>4, <1>5 DEF Beside

LEMMA AroundBeside ==
    ASSUME Base, Around
    PROVE  Beside
<1>0. Inv /\ cloud \in [Box -> CloudState]
  BY DEF Base, Inv, TypeOK, CloudState
<1>1. \A b \in Box : cloud'[b] = "live" => cloud[b] \in {"live", "starting"}
  <2>1. CASE \E b \in Box : BoxComesUp(b) \/ BoxDies(b)
    BY <1>0, <2>1 DEF BoxComesUp, BoxDies
  <2>2. CASE ~\E b \in Box : BoxComesUp(b) \/ BoxDies(b)
    BY <2>2 DEF Around, BeginTurn, EndTurn, InvalidateByConfig, TurnLeaseExpires, EndWork, vars
  <2> QED BY <2>1, <2>2
<1>2. \A q \in Req : op'[q].out \in {op[q].out, None}
  BY <1>0, AroundStays DEF Stays
<1>3. bound' = bound /\ work' \in {work, None}
  BY <1>0, AroundStays
<1> QED BY <1>1, <1>2, <1>3 DEF Beside, InUse

LEMMA HeldStep ==
    ASSUME Base, HeldInv, [Next]_vars
    PROVE  HeldInv'
<1> SUFFICES ASSUME NoLapse' PROVE OutBound' /\ \A r \in Req : Inside(r)' => Holder(r)'
  BY DEF HeldInv
<1>0. op \in [Req -> Op] /\ Inv /\ NoLapse /\ OutBound /\ \A r \in Req : Inside(r) => Holder(r)
  BY NoLapseBefore DEF Base, Inv, TypeOK, HeldInv
<1>1. ASSUME NEW r \in Req, Locked(r)
      PROVE  OutBound' /\ \A q \in Req : Inside(q)' => Holder(q)'
  <2>1. Inside(r) /\ \A q \in Req \ {r} : op'[q] = op[q]
    BY <1>0, <1>1, LockedStays, LockedRefers DEF Inside, Refers
  <2>2. \A q \in Req \ {r} : ~Inside(q)'
    BY <1>0, <2>1, OneHolder DEF Inside
  <2>3. OutBound' /\ Holder(r)'
    BY <1>0, <1>1, <2>1, LockedHolds
  <2> QED BY <2>2, <2>3
<1>2. ASSUME NEW q \in Req, Inside(q), op'[q].pc = op[q].pc, op'[q].saw = op[q].saw,
             op'[q].box = op[q].box, op'[q].made = op[q].made, Beside
      PROVE  Holder(q)'
  BY <1>0, <1>2, HolderKeeps
<1>3. ASSUME NEW r \in Req, Acquire(r)
      PROVE  OutBound' /\ \A q \in Req : Inside(q)' => Holder(q)'
  <2>1. op[r].pc = "lock" /\ op'[r].pc = "look" /\ Same(r) /\ \A q \in Req \ {r} : op'[q] = op[q]
    BY <1>0, <1>3, GoKeeps DEF Acquire, At
  <2>2. op'[r].box = None /\ ~op'[r].made
    BY <2>1 DEF Base, IdleInv, Same, Outside
  <2>3. Beside
    BY <1>3, <2>1, OuterBeside DEF Outer, Same
  <2>4. Holder(r)'
    BY <2>1, <2>2 DEF Holder
  <2>5. \A q \in Req \ {r} : Inside(q)' => Inside(q)
    BY <2>1 DEF Inside
  <2> QED BY <1>0, <1>2, <2>1, <2>3, <2>4, <2>5, BesideBinds
<1>4. ASSUME NEW r \in Req, Release(r)
      PROVE  OutBound' /\ \A q \in Req : Inside(q)' => Holder(q)'
  <2>1. PICK pc \in {"row", "end"}, b \in {op[r].box, None} :
             /\ Rests(r, pc, op[r].turn, b)
             /\ b # None => op[r].pc = "done" /\ op[r].kind = "resolve" /\ owner = r /\ op[r].ctx = "on"
    BY <1>0, <1>4, ReleaseShape
  <2>2. Inside(r) /\ op'[r].pc \in Outside /\ \A q \in Req \ {r} : op'[q] = op[q]
    BY <1>4, <2>1 DEF Release, Inside, Outside, Rests
  <2>3. \A q \in Req : ~Inside(q)'
    BY <1>0, <2>2, OneHolder DEF Inside
  <2>4. cloud' = cloud /\ bound' = bound /\ work' = work
    BY <1>4 DEF Release, bindVars
  <2>5. b # None /\ Live(b) => bound = b
    BY <1>0, <2>1, <2>2 DEF Holder
  <2>6. \A c : InUse(c)' => InUse(c) \/ c = b
    BY <2>1, <2>4 DEF InUse, Rests
  <2>7. OutBound'
    BY <1>0, <2>4, <2>5, <2>6 DEF OutBound, Live, None, Box
  <2> QED BY <2>3, <2>7
<1>5. ASSUME NEW r \in Req, Outer(r), ~Acquire(r), ~Release(r), ~Lapse(r)
      PROVE  OutBound' /\ \A q \in Req : Inside(q)' => Holder(q)'
  <2>1. /\ \A q \in Req \ {r} : op'[q] = op[q]
        /\ op'[r].out \in {op[r].out, None}
        /\ Inside(r)' => /\ op'[r].pc = op[r].pc /\ op'[r].saw = op[r].saw
                         /\ op'[r].box = op[r].box /\ op'[r].made = op[r].made
    <3>1. CASE DeleteRow(r)
      BY <1>0, <3>1, GoKeeps DEF DeleteRow, Inside, Outside, Same
    <3>2. CASE GiveUp(r) \/ Crash(r)
      BY <1>0, <3>2, EndShape DEF GiveUp, Crash, Rests, Inside, Outside
    <3>3. CASE Arrive(r)
      BY <1>0, <3>3, ArriveShape DEF Inside, Outside
    <3>4. CASE Cancel(r) \/ RenewalFails(r)
      BY <1>0, <3>4, ContextShape
    <3>5. CASE LeaseExpires(r) \/ DropBoundSandbox(r) \/ StartWork(r)
      BY <3>5 DEF LeaseExpires, DropBoundSandbox, StartWork
    <3> QED BY <1>5, <3>1, <3>2, <3>3, <3>4, <3>5 DEF Outer
  <2>2. Beside
    BY <1>5, <2>1, OuterBeside
  <2>3. \A q \in Req : Inside(q)' => Inside(q) /\ op'[q].pc = op[q].pc /\ op'[q].saw = op[q].saw
                                     /\ op'[q].box = op[q].box /\ op'[q].made = op[q].made
    BY <2>1 DEF Inside
  <2> QED BY <1>0, <1>2, <2>2, <2>3, BesideBinds
<1>6. \A r \in Req : ~Lapse(r)
  <2>1. "lapse" \in Kind /\ faults \in [Kind -> Nat]
    BY <1>0 DEF Kind, Inv, TypeOK
  <2>2. \A r \in Req : Lapse(r) => faults'["lapse"] = faults["lapse"] + 1
    BY <2>1 DEF Lapse, Fault
  <2> QED BY <1>0, <2>1, <2>2 DEF NoLapse
<1>7. CASE Around
  <2>1. Beside
    BY <1>7, AroundBeside
  <2>2. \A q \in Req : Inside(q)' => Inside(q) /\ op'[q].pc = op[q].pc /\ op'[q].saw = op[q].saw
                                     /\ op'[q].box = op[q].box /\ op'[q].made = op[q].made
    BY <1>0, <1>7, AroundStays DEF Stays, Inside
  <2> QED BY <1>0, <1>2, <2>1, <2>2, BesideBinds
<1> QED BY <1>1, <1>3, <1>4, <1>5, <1>6, <1>7, NextCases

LEMMA HeldInit == Init => HeldInv
<1> SUFFICES ASSUME Init PROVE HeldInv
  OBVIOUS
<1>1. \A r \in Req : op[r].out = None /\ op[r].pc = "new"
  BY DEF Init, NewOp
<1> QED BY <1>1 DEF Init, HeldInv, OutBound, InUse, Inside, Outside

-----------------------------------------------------------------------------
(* Without a failed call, a dead process or a lapsed lock: no orphan *)

Clean == faults["error"] = 0 /\ faults["crash"] = 0 /\ faults["lapse"] = 0

\* What lives is bound, or the holder's, but for creates that were given up.
Owns == \A b \in Box \ cut : Live(b) => b = bound \/ \E r \in Req : owner = r /\ b = op[r].box

\* The holder is sure of its lock, binds only what it made or what is on record, and
\* returns with nothing else that is not bound.
Tidy(r) ==
    /\ op[r].ctx # "lost"
    /\ op[r].pc = "bind" /\ ~op[r].made => op[r].box \in cut
    /\ op[r].pc = "fail" /\ Live(op[r].box) /\ op[r].box \notin cut => bound = op[r].box

CleanInv == Clean => Owns /\ \A r \in Req : Inside(r) => Tidy(r)

LEMMA CleanBefore ==
    ASSUME Inv, [Next]_vars, Clean'
    PROVE  Clean /\ ~Fault("error") /\ ~Fault("crash") /\ ~Fault("lapse")
<1>1. {"error", "crash", "lapse"} \subseteq Kind
  BY DEF Kind
<1>2. \A k \in {"error", "crash", "lapse"} :
         faults[k] \in Nat /\ faults'[k] \in Nat /\ faults'[k] >= faults[k] /\ faults'[k] = 0
  BY <1>1, FaultCounts DEF Clean
<1>3. \A k \in {"error", "crash", "lapse"} : faults[k] = 0
  BY <1>2
<1>4. ASSUME NEW k \in {"error", "crash", "lapse"}, Fault(k) PROVE FALSE
  <2>1. faults'[k] = faults[k] + 1
    BY <1>1, <1>4 DEF Fault, Inv, TypeOK
  <2> QED BY <1>2, <2>1
<1> QED BY <1>3, <1>4 DEF Clean

\* The holder alone can have a sandbox that is not bound.
LEMMA HolderOwns ==
    ASSUME NEW r \in Req, owner = r, Owns
    PROVE  \A b \in Box \ cut : cloud[b] = "live" => b = bound \/ b = op[r].box
  BY DEF Owns, Live, Box, None

LEMMA OwnsHeld ==
    ASSUME NEW r \in Req, owner' = r,
           \A b \in Box \ cut' : cloud'[b] = "live" => b = bound' \/ b = op'[r].box
    PROVE  Owns'
  BY DEF Owns, Live

LEMMA LockedTidy ==
    ASSUME Base, NEW r \in Req, owner = r, Holder(r), Owns, Tidy(r), Locked(r),
           ~Fault("error")
    PROVE  Owns' /\ Tidy(r)'
<1>0. /\ op \in [Req -> Op] /\ cloud \in [Box -> CloudState] /\ bound \in Box \cup {None}
      /\ op[r].saw \in Box \cup {None} /\ op[r].box \in Box \cup {None}
      /\ owner' = r /\ op'[r].ctx = op[r].ctx /\ op'[r].ctx # "lost"
  BY LockedWorks, LockedRefers DEF Base, Inv, TypeOK, Op, CloudState, Works, Refers, Tidy
<1>1. \A b \in Box \ cut : cloud[b] = "live" => b = bound \/ b = op[r].box
  BY HolderOwns
<1>2. ASSUME cut' = cut, \A b \in Box : cloud'[b] = "live" => cloud[b] = "live",
             bound' = bound \/ ~Live(bound), op'[r].box = op[r].box \/ ~Live(op[r].box)
      PROVE  Owns'
  <2>1. \A b \in Box \ cut' : cloud'[b] = "live" => b = bound' \/ b = op'[r].box
    BY <1>1, <1>2 DEF Live, None, Box
  <2> QED BY <1>0, <2>1, OwnsHeld
<1>3. ASSUME op'[r].pc \notin {"bind", "fail"} PROVE Tidy(r)'
  BY <1>0, <1>3 DEF Tidy
<1>4. ASSUME Look(r) PROVE Owns' /\ Tidy(r)'
  <2>1. cut' = cut /\ bound' = bound /\ cloud' = cloud /\ op[r].pc = "look"
    BY <1>4 DEF Look, At, bindVars
  <2>2. op'[r].box = op[r].box /\ op'[r].pc # "bind"
    BY <1>0, <1>4, LookShape
  <2>3. op[r].box = None
    BY <2>1 DEF Holder
  <2> QED BY <1>0, <1>2, <2>1, <2>2, <2>3 DEF Tidy, Live
<1>5. ASSUME Kill(r) PROVE Owns' /\ Tidy(r)'
  <2>1. cut' = cut /\ bound' = bound /\ \A b \in Box : cloud'[b] = "live" => cloud[b] = "live"
    BY <1>0, <1>5, DeletedDies DEF Kill, bindVars
  <2>2. op'[r].pc \in {"unbind", "fail"} /\ op'[r].box = op[r].box /\ op[r].box = None
    BY <1>0, <1>5, KillShape DEF Kill, At, Holder, Same
  <2> QED BY <1>0, <1>2, <2>1, <2>2 DEF Tidy, Live
<1>6. ASSUME DeleteBinding(r) PROVE Owns' /\ Tidy(r)'
  <2>1. cut' = cut /\ cloud' = cloud /\ op[r].pc = "unbind" /\ Unbind(op[r].saw)
    BY <1>6 DEF DeleteBinding, At
  <2>2. op'[r].box = op[r].box /\ op'[r].pc # "bind"
    BY <1>0, <1>6, DeleteBindingShape
  <2>3. op[r].box = None /\ ~Live(op[r].saw)
    BY <2>1 DEF Holder
  <2>4. bound' = bound \/ ~Live(bound)
    BY <2>1, <2>3 DEF Unbind
  <2> QED BY <1>0, <1>2, <2>1, <2>2, <2>3, <2>4 DEF Tidy, Live
<1>7. ASSUME ConsumeTurnRebuild(r) PROVE Owns' /\ Tidy(r)'
  <2>1. cut' = cut /\ bound' = bound /\ cloud' = cloud
    BY <1>7 DEF ConsumeTurnRebuild, bindVars
  <2>2. op'[r].pc \in {"connect", "list"} /\ op'[r].box = op[r].box
    BY <1>0, <1>7, GoKeeps DEF ConsumeTurnRebuild, Same
  <2> QED BY <1>2, <1>3, <2>1, <2>2
<1>8. ASSUME ConnectBinding(r) PROVE Owns' /\ Tidy(r)'
  <2>1. cut' = cut /\ bound' = bound /\ cloud' = cloud /\ op[r].pc = "connect"
    BY <1>8 DEF ConnectBinding, At, bindVars
  <2>2. ~Live(op[r].box)
    BY <2>1 DEF Holder, Live
  <2> DEFINE pc == IF Live(op[r].saw) THEN "done" ELSE "drop"
  <2>3. pc \in {"done", "drop"} /\ op' = [op EXCEPT ![r].pc = pc, ![r].box = op[r].saw]
    BY <1>8 DEF ConnectBinding
  <2> HIDE DEF pc
  <2>4. op'[r].pc \in {"done", "drop"}
    BY <1>0, <2>3, TakesBoxShape DEF TakesBox
  <2> QED BY <1>2, <1>3, <2>1, <2>2, <2>4
<1>9. ASSUME DropBinding(r) PROVE Owns' /\ Tidy(r)'
  <2>1. cut' = cut /\ cloud' = cloud /\ op[r].pc = "drop" /\ Unbind(op[r].saw)
    BY <1>9 DEF DropBinding, At
  <2>2. op'[r].pc \in {"list", "fail"} /\ op'[r].box = op[r].box
    BY <1>0, <1>9, GoKeeps DEF DropBinding, Same
  <2>3. ~Live(op[r].saw) /\ ~Live(op[r].box)
    BY <2>1 DEF Holder
  <2>4. bound' = bound \/ ~Live(bound)
    BY <2>1, <2>3 DEF Unbind
  <2> QED BY <1>0, <1>2, <2>1, <2>2, <2>3, <2>4 DEF Tidy, Live
<1>10. ASSUME List(r) PROVE Owns' /\ Tidy(r)'
  <2>1. cut' = cut /\ bound' = bound /\ cloud' = cloud
    BY <1>10 DEF List, bindVars
  <2>2. op'[r].pc \in {"create", "dups"} /\ op'[r].box = op[r].box
    BY <1>0, <1>10, ListShape DEF Same
  <2> QED BY <1>2, <1>3, <2>1, <2>2
<1>11. ASSUME AdoptOwned(r) PROVE Owns' /\ Tidy(r)'
  <2>1. cut' = cut /\ bound' = bound /\ op[r].pc = "dups" /\ \A b \in Box : cloud'[b] = "live" => cloud[b] = "live"
    BY <1>0, <1>11, DeletedDies DEF AdoptOwned, At, bindVars
  <2>2. bound = None /\ ~Live(op[r].box)
    BY <2>1 DEF Holder
  <2>3. \A b \in Box : Live(b) => b \in cut
    BY <1>1, <2>2 DEF Live, None, Box
  <2>4. Owns'
    <3>1. \A b \in Box \ cut' : cloud'[b] = "live" => b = bound' \/ b = op'[r].box
      BY <2>1, <2>3 DEF Live, None, Box
    <3> QED BY <1>0, <3>1, OwnsHeld
  <2>5. CASE op'[r].pc \in {"create", "fail"} /\ op'[r].box = op[r].box
    BY <1>0, <2>1, <2>2, <2>4, <2>5 DEF Tidy, Live
  <2>6. CASE \E b \in Box : Live(b) /\ op'[r].pc = "bind" /\ op'[r].box = b
    BY <1>0, <2>1, <2>3, <2>4, <2>6 DEF Tidy
  <2> QED BY <1>0, <1>11, <2>5, <2>6, AdoptShape DEF Same, TakesBox
<1>12. ASSUME Create(r) PROVE Owns' /\ Tidy(r)'
  <2>1. bound' = bound /\ op[r].pc = "create"
    BY <1>12 DEF Create, At, bindVars
  <2>2. PICK b \in Box : Creates(r, b)
    BY <1>12, CreateShape DEF Base
  <2>3. bound = None /\ ~Live(op[r].box)
    BY <2>1 DEF Holder
  <2>4. CASE TakesBox(r, "recheck", b) /\ op'[r].made /\ cloud'[b] = "live" /\ cut' = cut
    <3>1. op'[r].pc = "recheck" /\ op'[r].box = b
      BY <2>4 DEF TakesBox
    <3>2. \A c \in Box \ cut' : cloud'[c] = "live" => c = b
      BY <1>1, <2>2, <2>3, <2>4 DEF Creates, Live, None, Box
    <3> QED BY <1>0, <1>3, <3>1, <3>2, OwnsHeld
  <2>5. CASE op'[r].pc = "fail" /\ Same(r) /\ cloud'[b] = "starting" /\ cut' = cut \cup {b}
    <3>1. \A c \in Box : cloud'[c] = "live" => cloud[c] = "live"
      BY <2>2, <2>5 DEF Creates
    <3>2. op'[r].pc = "fail" /\ op'[r].box = op[r].box /\ ~Live(op[r].box)'
      BY <1>0, <2>3, <2>5, <3>1 DEF Same, Live
    <3>3. \A c \in Box \ cut' : cloud'[c] = "live" => c = bound' \/ c = op'[r].box
      BY <1>1, <2>1, <2>5, <3>1, <3>2
    <3>4. Owns'
      BY <1>0, <3>3, OwnsHeld
    <3> QED BY <1>0, <3>2, <3>4 DEF Tidy
  <2> QED BY <2>2, <2>4, <2>5 DEF Creates
<1>13. ASSUME RecheckSession(r) PROVE Owns' /\ Tidy(r)'
  <2>1. cut' = cut /\ bound' = bound /\ cloud' = cloud /\ op[r].pc = "recheck"
    BY <1>13 DEF RecheckSession, At, bindVars
  <2>2. PICK pc \in {"bind", "undo"} : Go(r, pc)
    BY <1>13 DEF RecheckSession, Recheck
  <2>3. op'[r].pc \in {"bind", "undo"} /\ Same(r)
    BY <1>0, <2>2, GoKeeps
  <2>4. op[r].made
    BY <2>1 DEF Holder
  <2> QED BY <1>0, <1>2, <2>1, <2>3, <2>4 DEF Tidy, Same
<1>14. ASSUME Bind(r) PROVE Owns' /\ Tidy(r)'
  <2>1. cloud' = cloud /\ op[r].pc = "bind" /\ bound = None /\ cut' = cut \ {bound'}
    BY <1>14 DEF Bind, At, Holder
  <2>2. PICK pc \in {"boot", "done", "undo", "fail"} :
             /\ Go(r, pc) /\ bound' \in {op[r].box, None}
             /\ pc = "fail" => ~op[r].made
    BY <1>14, <2>1 DEF Bind, bindVars
  <2>3. op'[r].pc = pc /\ op'[r].box = op[r].box
    BY <1>0, <2>2, GoKeeps DEF Same
  <2>4. \A b \in Box \ cut' : cloud'[b] = "live" => b = bound' \/ b = op'[r].box
    BY <1>1, <2>1, <2>3 DEF None, Box
  <2>5. Owns'
    BY <1>0, <2>4, OwnsHeld
  <2>6. CASE pc = "fail"
    <3>1. op[r].box \in cut
      BY <2>1, <2>2, <2>6 DEF Tidy
    <3> QED BY <1>0, <2>1, <2>2, <2>3, <2>5, <2>6, <3>1 DEF Tidy
  <2> QED BY <1>3, <2>2, <2>3, <2>5, <2>6
<1>15. ASSUME Bootstrap(r) PROVE Owns' /\ Tidy(r)'
  <2>1. cut' = cut /\ bound' = bound /\ cloud' = cloud
    BY <1>15 DEF Bootstrap, bindVars
  <2>2. op'[r].pc \in {"done", "unboot"} /\ op'[r].box = op[r].box
    BY <1>0, <1>15, GoKeeps DEF Bootstrap, Same
  <2> QED BY <1>2, <1>3, <2>1, <2>2
<1>16. ASSUME Unboot(r) PROVE Owns' /\ Tidy(r)'
  <2>1. cut' = cut /\ cloud' = cloud /\ Unbind(op[r].box) /\ Go(r, "undo")
    BY <1>16 DEF Unboot
  <2>2. op'[r].pc = "undo" /\ op'[r].box = op[r].box
    BY <1>0, <2>1, GoKeeps DEF Same
  <2>3. \A b \in Box \ cut' : cloud'[b] = "live" => b = bound' \/ b = op'[r].box
    BY <1>1, <2>1, <2>2 DEF Unbind
  <2> QED BY <1>0, <1>3, <2>2, <2>3, OwnsHeld
<1>17. ASSUME Undo(r) PROVE Owns' /\ Tidy(r)'
  <2>1. cut' = cut /\ bound' = bound /\ Deleted({op[r].box}, "released") /\ Go(r, "fail")
    BY <1>17 DEF Undo, Tidy, bindVars
  <2>2. /\ \A b \in Box : cloud'[b] = "live" => cloud[b] = "live"
        /\ \A b \in Box \cap {op[r].box} : cloud'[b] # "live"
    BY <1>0, <2>1, DeletedDies
  <2>3. op'[r].pc = "fail" /\ op'[r].box = op[r].box
    BY <1>0, <2>1, GoKeeps DEF Same
  <2>4. ~Live(op[r].box)'
    BY <1>0, <2>2, <2>3 DEF Live
  <2> QED BY <1>0, <1>2, <2>1, <2>2, <2>3, <2>4 DEF Tidy
<1>18. ~LoseBinding(r) /\ ~ConnectWinner(r)
  BY DEF LoseBinding, ConnectWinner, At, Holder
<1>19. ASSUME FailCall(r) PROVE Owns' /\ Tidy(r)'
  <2>1. cut' = cut /\ bound' = bound /\ cloud' = cloud
    BY <1>19 DEF FailCall, bindVars
  <2>2. op'[r].pc = "fail" /\ op'[r].box = op[r].box
    BY <1>0, <1>19, GoKeeps DEF FailCall, Same
  <2>3. ~Live(op[r].box)
    BY <1>19 DEF FailCall, Holder, Live
  <2> QED BY <1>0, <1>2, <2>1, <2>2, <2>3 DEF Tidy, Live
<1> QED BY <1>4, <1>5, <1>6, <1>7, <1>8, <1>9, <1>10, <1>11, <1>12, <1>13, <1>14, <1>15, <1>16,
           <1>17, <1>18, <1>19 DEF Locked

\* A step that leaves the holder and its sandbox as they are.
LEMMA OwnsStays ==
    ASSUME Base, Owns, owner' = owner,
           cut' = cut, \A b \in Box \ cut : cloud'[b] = "live" => cloud[b] = "live",
           bound' = bound \/ ~Live(bound),
           \A q \in Req : op'[q].box = op[q].box
    PROVE  Owns'
<1>1. \A b \in Box \ cut : cloud'[b] = "live" => b = bound' \/ \E r \in Req : owner = r /\ b = op[r].box
  BY DEF Owns, Live, None, Box
<1> QED BY <1>1 DEF Owns, Live

LEMMA OuterTidy ==
    ASSUME Base, NoLapse, Owns, \A q \in Req : Inside(q) => Holder(q) /\ Tidy(q),
           NEW r \in Req, Outer(r), ~Fault("error"), ~Fault("crash"), ~Fault("lapse")
    PROVE  Owns' /\ \A q \in Req : Inside(q)' => Tidy(q)'
<1>0. /\ op \in [Req -> Op] /\ None \notin Req /\ Inv
      /\ \A q \in Req \ {r} : op'[q] = op[q]
      /\ ~Crash(r) /\ ~Lapse(r)
  BY OuterOthers, ConstantsAreSound DEF Base, Inv, TypeOK, None, Crash, Lapse
<1>1. cloud' = cloud /\ cut' = cut
  BY OuterCut
<1>2. bound' = bound \/ ~Live(bound)
  BY DEF Outer, Acquire, GiveUp, Release, DeleteRow, LeaseExpires, Arrive, Cancel, RenewalFails, Lapse, Crash,
     DropBoundSandbox, StartWork, Unbind, bindVars
<1>3. op[r].pc \in Outside => op[r].box = None
  BY DEF Base, IdleInv
<1>4. ASSUME Inside(r), owner = r
      PROVE  \A b \in Box \ cut : Live(b) => b = bound \/ b = op[r].box
  BY <1>4 DEF Owns
<1>5. ASSUME op[r].box = None \/ owner # r
      PROVE  \A b \in Box \ cut : Live(b) => b = bound \/ \E q \in Req \ {r} : owner = q /\ b = op[q].box
  BY <1>5 DEF Owns, None, Box
<1>6. ASSUME NEW q \in Req, q # r, Inside(q)', bound' = bound \/ ~Live(bound)
      PROVE  Tidy(q)'
  <2>1. Inside(q) /\ Tidy(q) /\ op'[q] = op[q]
    BY <1>0, <1>6 DEF Inside
  <2> QED BY <1>1, <1>6, <2>1 DEF Tidy, Live
<1>7. ASSUME Acquire(r) PROVE Owns' /\ \A q \in Req : Inside(q)' => Tidy(q)'
  <2>1. bound' = bound /\ owner = None /\ owner' = r /\ op[r].pc = "lock" /\ op[r].ctx = "on"
    BY <1>7 DEF Acquire, At, bindVars
  <2>2. op'[r].pc = "look" /\ op'[r].box = op[r].box /\ op'[r].ctx = "on"
    BY <1>0, <1>7, <2>1, GoKeeps DEF Acquire, Same
  <2>3. \A b \in Box \ cut : Live(b) => b = bound
    BY <1>0, <2>1 DEF Owns
  <2>4. Owns' /\ Tidy(r)'
    BY <1>1, <2>1, <2>2, <2>3 DEF Owns, Live, Tidy
  <2> QED BY <1>2, <1>6, <2>4
<1>8. ASSUME GiveUp(r) PROVE Owns' /\ \A q \in Req : Inside(q)' => Tidy(q)'
  <2>1. bound' = bound /\ (owner' = owner \/ owner = None) /\ op[r].pc = "lock"
    BY <1>8 DEF GiveUp, At, bindVars
  <2>2. op'[r].box = None /\ ~Inside(r)'
    BY <1>0, <1>8, EndShape DEF GiveUp, Rests, Inside, Outside
  <2>3. op[r].box = None
    BY <1>3, <2>1 DEF Outside
  <2>4. \A q \in Req : op'[q].box = op[q].box
    BY <1>0, <2>2, <2>3
  <2>5. Owns'
    <3>1. CASE owner' = owner
      BY <1>1, <1>2, <2>4, <3>1, OwnsStays
    <3>2. CASE owner = None
      BY <1>0, <1>1, <2>1, <3>2 DEF Owns, Live
    <3> QED BY <2>1, <3>1, <3>2
  <2> QED BY <1>2, <1>6, <2>2, <2>5
<1>9. ASSUME Release(r) PROVE Owns' /\ \A q \in Req : Inside(q)' => Tidy(q)'
  <2>1. Inside(r) /\ op[r].pc \in {"done", "fail"} /\ bound' = bound
    BY <1>9 DEF Release, Inside, Outside, bindVars
  <2>2. owner = r /\ \A q \in Req \ {r} : ~Inside(q)
    BY <2>1, OneHolder
  <2>3. \A b \in Box \ cut : Live(b) => b = bound
    BY <1>4, <2>1, <2>2 DEF Holder, Tidy
  <2>4. ~Inside(r)'
    BY <1>0, <1>9, ReleaseShape DEF Rests, Inside, Outside
  <2>5. \A q \in Req : ~Inside(q)'
    BY <1>0, <2>2, <2>4 DEF Inside
  <2>6. Owns'
    BY <1>1, <2>1, <2>3 DEF Owns, Live
  <2> QED BY <2>5, <2>6
<1>10. ASSUME DeleteRow(r) \/ LeaseExpires(r) \/ Arrive(r)
       PROVE  Owns' /\ \A q \in Req : Inside(q)' => Tidy(q)'
  <2>1. op[r].pc \in Outside /\ bound' = bound /\ (owner' = owner \/ owner = r)
    BY <1>10 DEF DeleteRow, LeaseExpires, Arrive, At, Outside, bindVars
  <2>2. op'[r].pc \in Outside /\ op'[r].box = op[r].box
    <3>1. CASE DeleteRow(r)
      BY <1>0, <3>1, GoKeeps DEF DeleteRow, Outside, Same
    <3>2. CASE LeaseExpires(r)
      BY <2>1, <3>2 DEF LeaseExpires
    <3>3. CASE Arrive(r)
      BY <1>0, <3>3, ArriveShape DEF Outside
    <3> QED BY <1>10, <3>1, <3>2, <3>3
  <2>3. Owns'
    <3>1. CASE owner' = owner
      BY <1>0, <1>1, <1>2, <2>2, <3>1, OwnsStays
    <3>2. CASE owner = r
      <4>1. \A b \in Box \ cut : Live(b) => b = bound
        BY <1>3, <1>5, <2>1, <3>2
      <4> QED BY <1>1, <2>1, <4>1 DEF Owns, Live
    <3> QED BY <2>1, <3>1, <3>2
  <2>4. ~Inside(r)'
    BY <2>2 DEF Inside
  <2> QED BY <1>2, <1>6, <2>3, <2>4
<1>11. ASSUME Cancel(r) \/ RenewalFails(r)
       PROVE  Owns' /\ \A q \in Req : Inside(q)' => Tidy(q)'
  <2>1. bound' = bound /\ owner' = owner
    BY <1>11 DEF Cancel, RenewalFails, bindVars
  <2>2. ~RenewalFails(r)
    BY OneHolder DEF RenewalFails
  <2>3. op' = [op EXCEPT ![r].ctx = "cancelled"]
    BY <1>11, <2>2 DEF Cancel
  <2>4. op'[r].pc = op[r].pc /\ op'[r].box = op[r].box /\ op'[r].made = op[r].made /\ op'[r].ctx = "cancelled"
    BY <1>0, <2>3 DEF Op
  <2>5. Owns'
    BY <1>0, <1>1, <1>2, <2>1, <2>4, OwnsStays
  <2>6. Inside(r)' => Tidy(r)'
    BY <1>1, <2>1, <2>4 DEF Inside, Tidy, Live
  <2> QED BY <1>2, <1>6, <2>5, <2>6
<1>12. ASSUME DropBoundSandbox(r) \/ StartWork(r)
       PROVE  Owns' /\ \A q \in Req : Inside(q)' => Tidy(q)'
  <2>1. op' = op /\ owner' = owner
    BY <1>12 DEF DropBoundSandbox, StartWork
  <2>2. Owns'
    BY <1>1, <1>2, <2>1, OwnsStays
  <2>3. \A q \in Req : Inside(q)' => Tidy(q)'
    BY <1>1, <1>2, <2>1 DEF Inside, Tidy, Live
  <2> QED BY <2>2, <2>3
<1> QED BY <1>0, <1>7, <1>8, <1>9, <1>10, <1>11, <1>12 DEF Outer

LEMMA CleanStep ==
    ASSUME Base, HeldInv, CleanInv, [Next]_vars
    PROVE  CleanInv'
<1> SUFFICES ASSUME Clean' PROVE Owns' /\ \A r \in Req : Inside(r)' => Tidy(r)'
  BY DEF CleanInv
<1>0. /\ Inv /\ op \in [Req -> Op] /\ NoLapse /\ Owns
      /\ \A r \in Req : Inside(r) => Holder(r) /\ Tidy(r)
      /\ ~Fault("error") /\ ~Fault("crash") /\ ~Fault("lapse")
  BY CleanBefore DEF Base, Inv, TypeOK, Clean, CleanInv, NoLapse, HeldInv
<1>1. ASSUME NEW r \in Req, Locked(r)
      PROVE  Owns' /\ \A q \in Req : Inside(q)' => Tidy(q)'
  <2>1. Inside(r) /\ \A q \in Req \ {r} : op'[q] = op[q]
    BY <1>0, <1>1, LockedStays, LockedRefers DEF Inside, Refers
  <2>2. owner = r /\ \A q \in Req \ {r} : ~Inside(q)'
    BY <1>0, <2>1, OneHolder DEF Inside
  <2>3. Owns' /\ Tidy(r)'
    BY <1>0, <1>1, <2>1, <2>2, LockedTidy
  <2> QED BY <2>2, <2>3
<1>2. ASSUME NEW r \in Req, Outer(r)
      PROVE  Owns' /\ \A q \in Req : Inside(q)' => Tidy(q)'
  BY <1>0, <1>2, OuterTidy
<1>3. CASE Around
  <2>1. cut' = cut /\ \A b \in Box : cloud'[b] = "live" /\ cloud[b] # "live" => cloud[b] = "starting"
    BY <1>0, <1>3, AroundBeside, AroundCut DEF Beside
  <2>2. bound' = bound /\ owner' = owner /\ \A q \in Req : Stays(q)
    BY <1>0, <1>3, AroundStays
  <2>3. Owns'
    <3>1. \A b \in Box \ cut : cloud'[b] = "live" => cloud[b] = "live"
      BY <2>1 DEF Base, CutInv
    <3> QED BY <1>0, <2>1, <2>2, <3>1, OwnsStays DEF Stays
  <2>4. \A q \in Req : Live(op[q].box)' => Live(op[q].box)
    <3>1. \A q \in Req : op[q].box \in Box \cup {None} /\ op'[q].box = op[q].box
      BY <1>0, <2>2 DEF Op, Stays
    <3> QED BY <2>1, <3>1 DEF Live, Base, StartedInv, Started, Ahead
  <2>5. \A q \in Req : Inside(q)' => Tidy(q)'
    BY <1>0, <2>1, <2>2, <2>4 DEF Stays, Inside, Tidy, Live
  <2> QED BY <2>3, <2>5
<1> QED BY <1>1, <1>2, <1>3, NextCases

LEMMA CleanInit == Init => CleanInv
<1> SUFFICES ASSUME Init PROVE CleanInv
  OBVIOUS
<1>1. \A r \in Req : op[r].pc = "new"
  BY DEF Init, NewOp
<1>2. Owns
  BY DEF Init, Owns, Live
<1> QED BY <1>1, <1>2 DEF CleanInv, Inside, Outside

LEMMA HeldAlways == Spec => [](Base /\ HeldInv)
<1>1. Init => Base /\ HeldInv
  BY BaseInit, HeldInit
<1>2. Base /\ HeldInv /\ [Next]_vars => Base' /\ HeldInv'
  BY BaseStep, HeldStep
<1> QED BY <1>1, <1>2, PTL DEF Spec

\* resolveLocked, with its recheck of the session, its rollbacks and its cleanup: as long
\* as no call failed, no process died and no lock lapsed, every sandbox that lives is the
\* bound one or that of the request which holds the lock, whoever was cancelled, but for
\* a sandbox whose create was cancelled while it was under way.
THEOREM NoOrphans == Spec => []NoOrphan
<1>1. CleanInv /\ Base => NoOrphan
  <2> SUFFICES ASSUME CleanInv, Base PROVE NoOrphan
    OBVIOUS
  <2>1. {"error", "crash", "lapse"} \subseteq Kind
    BY DEF Kind
  <2>2. faults["error"] \in Nat /\ faults["crash"] \in Nat /\ faults["lapse"] \in Nat
    BY <2>1 DEF Base, Inv, TypeOK
  <2>3. Clean \/ faults["error"] + faults["crash"] + faults["lapse"] > 0
    BY <2>2 DEF Clean
  <2> QED BY <2>3 DEF CleanInv, Owns, NoOrphan
<1>2. Base /\ HeldInv /\ CleanInv /\ [Next]_vars => CleanInv'
  BY CleanStep
<1> QED BY <1>1, <1>2, CleanInit, HeldAlways, PTL DEF Spec

-----------------------------------------------------------------------------
(* While neither the lock nor the turn lease failed: what is in use is kept *)

Steady == faults["lapse"] = 0 /\ faults["expire"] = 0 /\ faults["blip"] = 0

\* The lease counts the turns that are open.
Leased == {t \in Turn : turn[t] = "leased"}
Counted == IsFiniteSet(Leased) /\ refs = Cardinality(Leased)
TurnsOpen ==
    /\ \A t \in Turn : turn[t] # "bare"
    /\ \A r \in Req : op[r].turn # None => op[r].turn \in Leased

\* A turn that was given a sandbox, or is about to, has spent the rebuild.
Consumed == {"connect", "drop", "list", "dups", "create", "recheck", "bind", "boot", "unboot", "undo", "done"}
HasUsed(r) == op[r].turn # None /\ (op[r].out # None \/ (op[r].pc \in Consumed /\ op[r].ctx = "on"))
SpentInv == rebuild => \A r \in Req : ~HasUsed(r)

\* Neither work nor a turn is in a sandbox that was replaced.
Kept(b) == b = None \/ cloud[b] # "replaced"
UsesKept == Kept(work) /\ \A r \in Req : op[r].turn # None => Kept(op[r].out)

\* What a request is sure of when it kills the sandbox, and when it hands one out.
Careful(r) ==
    /\ op[r].kind = "delete" => op[r].turn = None
    /\ op[r].pc = "new" => op[r].out = None
    /\ op[r].pc \in {"recheck", "bind", "boot", "done"} => Kept(op[r].box)
    /\ op[r].pc = "kill" /\ op[r].kind = "resolve"
         => work = None /\ \A q \in Req : op[q].turn # None => op[q].out = None

Safe == Counted /\ TurnsOpen /\ SpentInv /\ UsesKept /\ \A r \in Req : Careful(r)
SteadyInv == Steady => Safe

LEMMA SteadyBefore ==
    ASSUME Inv, [Next]_vars, Steady'
    PROVE  Steady /\ NoLapse /\ ~Fault("lapse") /\ ~Fault("expire") /\ ~Fault("blip") /\ faults'["blip"] = 0
<1>1. {"lapse", "expire", "blip"} \subseteq Kind
  BY DEF Kind
<1>2. \A k \in {"lapse", "expire", "blip"} :
         faults[k] \in Nat /\ faults'[k] \in Nat /\ faults'[k] >= faults[k] /\ faults'[k] = 0
  BY <1>1, FaultCounts DEF Steady
<1>3. \A k \in {"lapse", "expire", "blip"} : faults[k] = 0
  BY <1>2
<1>4. ASSUME NEW k \in {"lapse", "expire", "blip"}, Fault(k) PROVE FALSE
  <2>1. faults'[k] = faults[k] + 1
    BY <1>1, <1>4 DEF Fault, Inv, TypeOK
  <2> QED BY <1>2, <2>1
<1> QED BY <1>2, <1>3, <1>4 DEF Steady, NoLapse

LEMMA SteadyInit == Init => SteadyInv
<1> SUFFICES ASSUME Init PROVE Safe
  BY DEF SteadyInv
<1>1. \A r \in Req : op[r].pc = "new" /\ op[r].out = None /\ op[r].turn = None /\ op[r].kind = "resolve"
  BY DEF Init, NewOp
<1>2. Leased = {} /\ \A t \in Turn : turn[t] # "bare"
  BY DEF Init, Leased
<1>3. Counted
  BY <1>2, FS_EmptySet DEF Counted, Init
<1> QED BY <1>1, <1>2, <1>3 DEF Init, Safe, TurnsOpen, SpentInv, UsesKept, Kept, Careful

\* A turn that is open keeps the count above zero.
LEMMA OpenCounts ==
    ASSUME Counted, NEW t \in Leased
    PROVE  refs > 0
<1>1. Cardinality(Leased) \in Nat /\ Cardinality(Leased) # 0
  BY FS_EmptySet, FS_CardinalityType DEF Counted
<1> QED BY <1>1 DEF Counted

\* The steps of the holder towards a sandbox, and the one that spends the rebuild.
LEMMA LockedConsumes ==
    ASSUME Inv, NEW r \in Req, Holder(r), Locked(r), op'[r].pc \in Consumed, op[r].pc \notin Consumed
    PROVE  ConsumeTurnRebuild(r) \/ op[r].kind = "delete"
<1>0. op \in [Req -> Op]
  BY DEF Inv, TypeOK
<1>1. CASE Look(r)
  <2>1. op'[r].pc = "done"
    BY <1>0, <1>1, LookShape DEF Consumed
  <2> QED BY <1>0, <1>1, <2>1, LookShape
<1>2. CASE DeleteBinding(r)
  <2>1. op'[r].pc = "done"
    BY <1>0, <1>2, DeleteBindingShape DEF Consumed
  <2> QED BY <1>0, <1>2, <2>1, DeleteBindingShape
<1>3. CASE Kill(r)
  BY <1>0, <1>3, GoKeeps DEF Kill, Consumed
<1>4. CASE FailCall(r)
  BY <1>0, <1>4, GoKeeps DEF FailCall, Consumed
<1>5. CASE ConnectBinding(r) \/ DropBinding(r) \/ List(r) \/ AdoptOwned(r) \/ Create(r) \/ RecheckSession(r)
           \/ Bind(r) \/ Bootstrap(r) \/ Unboot(r) \/ Undo(r)
  BY <1>5 DEF ConnectBinding, DropBinding, List, AdoptOwned, Create, RecheckSession, Bind, Bootstrap,
     Unboot, Undo, At, Consumed
<1>6. ~LoseBinding(r) /\ ~ConnectWinner(r)
  BY DEF LoseBinding, ConnectWinner, At, Holder
<1> QED BY <1>1, <1>2, <1>3, <1>4, <1>5, <1>6 DEF Locked

\* Which of them leads to a kill, and which kind of request it is.
LEMMA LockedKinds ==
    ASSUME Inv, NEW r \in Req, Locked(r)
    PROVE  /\ op'[r].kind = op[r].kind \/ (op[r].kind = "resolve" /\ op'[r].kind = "reap")
           /\ op'[r].pc = "kill" => Look(r)
           /\ op'[r].pc # "new"
<1>0. op \in [Req -> Op]
  BY DEF Inv, TypeOK
<1>1. CASE Look(r)
  BY <1>0, <1>1, LookShape
<1>2. CASE DeleteBinding(r)
  BY <1>0, <1>2, DeleteBindingShape
<1>3. ASSUME NEW pc \in InPc \ {"kill"}, Go(r, pc)
      PROVE  op'[r].kind = op[r].kind /\ op'[r].pc # "kill" /\ op'[r].pc # "new"
  BY <1>0, <1>3, GoKeeps DEF Same, InPc
<1>4. ASSUME NEW pc \in InPc \ {"kill"}, NEW b, op' = [op EXCEPT ![r].pc = pc, ![r].box = b]
      PROVE  op'[r].kind = op[r].kind /\ op'[r].pc # "kill" /\ op'[r].pc # "new"
  <2>1. TakesBox(r, pc, b)
    BY <1>0, <1>4, TakesBoxShape
  <2> QED BY <1>4, <2>1 DEF TakesBox, InPc
<1>5. CASE List(r)
  BY <1>0, <1>5, ListShape DEF Same
<1>6. CASE AdoptOwned(r)
  BY <1>0, <1>6, AdoptShape DEF Same, TakesBox
<1>7. CASE Create(r)
  BY <1>0, <1>7, CreateShape DEF Creates, Same, TakesBox
<1>8. CASE LoseBinding(r)
  BY <1>0, <1>8, LoseShape DEF Same
<1>9. CASE ConnectBinding(r) \/ ConnectWinner(r)
  BY <1>4, <1>9 DEF ConnectBinding, ConnectWinner, InPc
<1>10. CASE Kill(r) \/ ConsumeTurnRebuild(r) \/ DropBinding(r) \/ RecheckSession(r)
  BY <1>3, <1>10 DEF Kill, ConsumeTurnRebuild, DropBinding, RecheckSession, Recheck, InPc
<1>11. CASE Bind(r) \/ Bootstrap(r) \/ Unboot(r) \/ Undo(r) \/ FailCall(r)
  BY <1>3, <1>11 DEF Bind, Bootstrap, Unboot, Undo, FailCall, InPc
<1> QED BY <1>1, <1>2, <1>5, <1>6, <1>7, <1>8, <1>9, <1>10, <1>11 DEF Locked

\* Only a kill on behalf of an image and a tidying of duplicates replace sandboxes.
LEMMA LockedReplaces ==
    ASSUME Inv, NEW r \in Req, Locked(r), NEW b \in Box, cloud'[b] = "replaced", cloud[b] # "replaced"
    PROVE  Live(b) /\ (AdoptOwned(r) \/ (Kill(r) /\ op[r].kind = "resolve" /\ b = op[r].saw))
<1>0. b # None
  BY DEF None, Box
<1>1. ASSUME NEW S, NEW why, Deleted(S, why)
      PROVE  cloud[b] = "live" /\ b \in S /\ why = "replaced"
  BY <1>1 DEF Deleted
<1>2. CASE Kill(r)
  <2>1. Deleted({op[r].saw}, IF op[r].kind = "resolve" THEN "replaced" ELSE "released")
    BY <1>2 DEF Kill
  <2>2. /\ cloud[b] = "live" /\ b \in {op[r].saw}
        /\ (IF op[r].kind = "resolve" THEN "replaced" ELSE "released") = "replaced"
    BY <1>1, <2>1
  <2> QED BY <1>0, <1>2, <2>2 DEF Live
<1>3. CASE AdoptOwned(r)
  BY <1>0, <1>1, <1>3 DEF AdoptOwned, Live
<1>4. ~(Undo(r) \/ LoseBinding(r))
  BY <1>1 DEF Undo, LoseBinding, Lose
<1>5. ~Create(r)
  BY CreateShape DEF Creates
<1>6. CASE cloud' = cloud
  BY <1>6
<1> QED BY <1>2, <1>3, <1>4, <1>5, <1>6 DEF Locked, Look, DeleteBinding, ConsumeTurnRebuild, ConnectBinding,
           DropBinding, List, RecheckSession, Bind, Bootstrap, Unboot, ConnectWinner, FailCall

LEMMA LockedSafe ==
    ASSUME Base, OutBound, Safe, NEW r \in Req, Holder(r), Locked(r),
           ~Fault("blip"), faults'["blip"] = 0,
           \A q \in Req \ {r} : ~Inside(q)
    PROVE  Safe'
<1>0. /\ Inv /\ op \in [Req -> Op] /\ cloud \in [Box -> CloudState]
      /\ bound \in Box \cup {None} /\ work \in Box \cup {None}
      /\ op[r].saw \in Box \cup {None} /\ op[r].box \in Box \cup {None}
      /\ \A q \in Req : op[q].out \in Box \cup {None}
  BY DEF Base, Inv, TypeOK, Op, CloudState
<1>1. /\ op'[r].out = op[r].out /\ op'[r].turn = op[r].turn /\ op'[r].ctx = op[r].ctx
      /\ work' = work /\ \A q \in Req \ {r} : op'[q] = op[q]
  BY <1>0, LockedRefers DEF Refers
<1>2. turn' = turn /\ refs' = refs /\ (rebuild' = rebuild \/ rebuild' = FALSE)
  BY DEF Locked, Look, Kill, DeleteBinding, ConsumeTurnRebuild, ConnectBinding, DropBinding, List,
     AdoptOwned, Create, RecheckSession, Bind, Bootstrap, Unboot, Undo, LoseBinding, ConnectWinner,
     FailCall, leaseVars, Spent
<1>3. Counted' /\ TurnsOpen'
  <2>1. Leased' = Leased
    BY <1>2 DEF Leased
  <2>2. \A q \in Req : op'[q].turn = op[q].turn
    BY <1>1
  <2> QED BY <1>2, <2>1, <2>2 DEF Safe, Counted, TurnsOpen
<1>4. SpentInv'
  <2> SUFFICES ASSUME rebuild' PROVE \A q \in Req : ~HasUsed(q)'
    BY DEF SpentInv
  <2>1. \A q \in Req : ~HasUsed(q)
    BY <1>2 DEF Safe, SpentInv
  <2>2. ASSUME op[r].turn # None, op'[r].pc \in Consumed, op[r].ctx = "on"
        PROVE  FALSE
    <3>1. op[r].pc \notin Consumed
      BY <2>1, <2>2 DEF HasUsed
    <3>2. op[r].kind # "delete"
      BY <2>2 DEF Safe, Careful
    <3>3. ConsumeTurnRebuild(r)
      BY <1>0, <2>2, <3>1, <3>2, LockedConsumes
    <3>4. ~rebuild'
      BY <2>2, <3>3 DEF ConsumeTurnRebuild, Spent
    <3> QED BY <3>4
  <2>3. ~HasUsed(r)'
    BY <1>1, <2>1, <2>2 DEF HasUsed
  <2>4. \A q \in Req \ {r} : ~HasUsed(q)'
    BY <1>1, <2>1 DEF HasUsed
  <2> QED BY <2>3, <2>4
<1>5. ASSUME NEW b \in Box, InUse(b), b = work \/ \E q \in Req : op[q].turn # None /\ b = op[q].out, cloud[b] # "replaced"
      PROVE  cloud'[b] # "replaced"
  <2> SUFFICES ASSUME cloud'[b] = "replaced" PROVE FALSE
    OBVIOUS
  <2>1. Live(b) /\ (AdoptOwned(r) \/ (Kill(r) /\ op[r].kind = "resolve" /\ b = op[r].saw))
    BY <1>0, <1>5, LockedReplaces
  <2>2. CASE AdoptOwned(r)
    <3>1. bound = None
      BY <2>2 DEF AdoptOwned, At, Holder
    <3> QED BY <1>5, <2>1, <3>1, NotBoundNotUsed DEF Live
  <2>3. CASE Kill(r) /\ op[r].kind = "resolve"
    <3>1. work = None /\ \A q \in Req : op[q].turn # None => op[q].out = None
      BY <2>3 DEF Kill, At, Safe, Careful
    <3> QED BY <1>5, <3>1 DEF None, Box
  <2> QED BY <2>1, <2>2, <2>3
<1>6. UsesKept'
  <2>1. Kept(work)'
    BY <1>0, <1>1, <1>5 DEF Safe, UsesKept, Kept, InUse
  <2>2. ASSUME NEW q \in Req, op'[q].turn # None PROVE Kept(op[q].out)'
    <3>1. op[q].turn # None /\ op'[q].out = op[q].out
      BY <1>1, <2>2
    <3> QED BY <1>0, <1>5, <3>1 DEF Safe, UsesKept, Kept, InUse
  <2> QED BY <2>1, <2>2 DEF UsesKept
<1>7. \A q \in Req \ {r} : Careful(q)'
  <2>1. \A q \in Req \ {r} : op'[q] = op[q] /\ op[q].pc \in Outside /\ Careful(q)
    BY <1>1 DEF Inside, Safe
  <2> QED BY <2>1 DEF Careful, Outside
<1>8. Careful(r)'
  <2>1. op'[r].kind = "delete" => op'[r].turn = None
    BY <1>0, <1>1, LockedKinds DEF Safe, Careful
  <2>2. op'[r].pc # "new"
    BY <1>0, LockedKinds
  <2>3. ASSUME op'[r].pc = "kill", op'[r].kind = "resolve"
        PROVE  work' = None /\ \A q \in Req : op'[q].turn # None => op'[q].out = None
    <3>1. Look(r)
      BY <1>0, <2>3, LockedKinds
    <3>2. ShouldRebuild
      BY <1>0, <2>3, <3>1, LookShape
    <3>3. ASSUME NEW q \in Req, op[q].turn # None PROVE op[q].out = None
      <4>1. refs > 0
        BY <3>3, OpenCounts DEF Safe, TurnsOpen
      <4>2. rebuild
        BY <3>2, <4>1 DEF ShouldRebuild
      <4> QED BY <3>3, <4>2 DEF Safe, SpentInv, HasUsed
    <3> QED BY <1>1, <3>2, <3>3 DEF ShouldRebuild
  <2>4. ASSUME op'[r].pc \in {"recheck", "bind", "boot", "done"} PROVE Kept(op[r].box)'
    <3>1. CASE cloud' = cloud /\ op'[r].box = op[r].box /\ op[r].pc \in {"recheck", "bind", "boot", "done"}
      BY <3>1 DEF Safe, Careful, Kept
    <3>2. CASE op'[r].box = None \/ cloud'[op'[r].box] = "live"
      BY <3>2 DEF Kept
    <3>3. CASE Look(r)
      <4>1. op'[r].box = op[r].box /\ op[r].pc = "look"
        BY <1>0, <3>3, LookShape DEF Look, At
      <4> QED BY <3>2, <4>1 DEF Holder
    <3>4. CASE DeleteBinding(r)
      <4>1. op'[r].box = op[r].box /\ op[r].pc = "unbind"
        BY <1>0, <3>4, DeleteBindingShape DEF DeleteBinding, At
      <4> QED BY <3>2, <4>1 DEF Holder
    <3>5. ~(Kill(r) \/ ConsumeTurnRebuild(r) \/ DropBinding(r) \/ Unboot(r) \/ Undo(r) \/ FailCall(r))
      BY <1>0, <2>4, GoKeeps DEF Kill, ConsumeTurnRebuild, DropBinding, Unboot, Undo, FailCall
    <3>6. CASE ConnectBinding(r)
      <4> DEFINE pc == IF Live(op[r].saw) THEN "done" ELSE "drop"
      <4>0. cloud' = cloud
        BY <3>6 DEF ConnectBinding
      <4>1. op' = [op EXCEPT ![r].pc = pc, ![r].box = op[r].saw]
        BY <3>6 DEF ConnectBinding
      <4>2. pc = "drop" \/ Live(op[r].saw)
        OBVIOUS
      <4> HIDE DEF pc
      <4>3. TakesBox(r, pc, op[r].saw)
        BY <1>0, <4>1, TakesBoxShape
      <4>4. pc # "drop"
        BY <2>4, <4>3 DEF TakesBox
      <4>5. cloud[op[r].saw] = "live"
        BY <4>2, <4>4 DEF Live
      <4>6. cloud'[op'[r].box] = "live"
        BY <4>0, <4>3, <4>5 DEF TakesBox
      <4> QED BY <3>2, <4>6
    <3>7. ~List(r)
      BY <1>0, <2>4, ListShape
    <3>8. CASE AdoptOwned(r)
      <4>1. PICK b \in Box : cloud'[b] = "live" /\ TakesBox(r, "bind", b)
        <5>1. op'[r].pc \notin {"create", "fail"}
          BY <2>4
        <5> QED BY <1>0, <3>8, <5>1, AdoptShape
      <4> QED BY <3>2, <4>1 DEF TakesBox
    <3>9. CASE Create(r)
      <4>1. PICK b \in Box : Creates(r, b)
        BY <1>0, <3>9, CreateShape
      <4>2. cloud'[b] = "live" /\ op'[r].box = b
        BY <2>4, <4>1 DEF Creates, TakesBox
      <4> QED BY <3>2, <4>2
    <3>10. CASE RecheckSession(r) \/ Bind(r) \/ Bootstrap(r)
      <4>1. cloud' = cloud /\ op[r].pc \in {"recheck", "bind", "boot", "done"}
        BY <3>10 DEF RecheckSession, Bind, Bootstrap, At
      <4>2. op'[r].box = op[r].box
        BY <1>0, <3>10, GoKeeps DEF RecheckSession, Recheck, Bind, Bootstrap, Same
      <4> QED BY <3>1, <4>1, <4>2
    <3>11. ~LoseBinding(r) /\ ~ConnectWinner(r)
      BY DEF LoseBinding, ConnectWinner, At, Holder
    <3> QED BY <3>3, <3>4, <3>5, <3>6, <3>7, <3>8, <3>9, <3>10, <3>11 DEF Locked
  <2> QED BY <2>1, <2>2, <2>3, <2>4 DEF Careful
<1> QED BY <1>3, <1>4, <1>6, <1>7, <1>8 DEF Safe

\* Steps outside the lock, but for a release and an arrival.
LEMMA OuterMoves ==
    ASSUME Inv, NEW r \in Req, Outer(r), ~Release(r), ~Arrive(r)
    PROVE  /\ op'[r].turn \in {op[r].turn, None} /\ op'[r].out \in {op[r].out, None}
           /\ op'[r].kind = op[r].kind \/ op'[r].kind # "delete"
           /\ \/ op'[r].pc = op[r].pc /\ op'[r].kind = op[r].kind /\ op'[r].box = op[r].box
                 /\ op'[r].ctx \in {op[r].ctx, "cancelled", "lost"} /\ op'[r].out = op[r].out
              \/ op'[r].pc \notin Consumed \cup {"kill", "new"}
<1>0. op \in [Req -> Op]
  BY DEF Inv, TypeOK
<1>1. CASE Acquire(r) \/ DeleteRow(r)
  BY <1>0, <1>1, GoKeeps DEF Acquire, DeleteRow, Same, Consumed
<1>2. CASE GiveUp(r) \/ Crash(r)
  BY <1>0, <1>2, EndShape DEF GiveUp, Crash, Rests, Consumed
<1>3. CASE Cancel(r) \/ RenewalFails(r) \/ Lapse(r)
  BY <1>0, <1>3, ContextShape
<1>4. CASE LeaseExpires(r) \/ DropBoundSandbox(r) \/ StartWork(r)
  BY <1>0, <1>4 DEF LeaseExpires, DropBoundSandbox, StartWork
<1> QED BY <1>1, <1>2, <1>3, <1>4 DEF Outer

LEMMA OuterSafe ==
    ASSUME Base, NoLapse, Safe, NEW r \in Req, Outer(r)
    PROVE  Safe'
<1>0. /\ Inv /\ op \in [Req -> Op] /\ \A q \in Req \ {r} : op'[q] = op[q]
      /\ \A q \in Req : op[q].turn # None => op[q].turn \in Leased
  BY OuterOthers DEF Base, Inv, TypeOK, Safe, TurnsOpen
<1>1. cloud' = cloud /\ turn' = turn /\ refs' = refs /\ rebuild' = rebuild
  BY DEF Outer, Acquire, GiveUp, Release, DeleteRow, LeaseExpires, Arrive, Cancel, RenewalFails, Lapse, Crash,
     DropBoundSandbox, StartWork, leaseVars
<1>2. work' = work \/ (StartWork(r) /\ work' = op[r].out /\ op[r].turn # None /\ cloud[op[r].out] = "live")
  BY DEF Outer, Acquire, GiveUp, Release, DeleteRow, LeaseExpires, Arrive, Cancel, RenewalFails, Lapse, Crash,
     DropBoundSandbox, StartWork, Live
<1>3. Leased' = Leased /\ Counted'
  BY <1>1 DEF Leased, Safe, Counted
\* What has to be shown of r, and of a kill that another request is about to do.
<1>4. ASSUME op'[r].turn # None => op'[r].turn \in Leased,
             rebuild => ~HasUsed(r)',
             op'[r].turn # None => Kept(op'[r].out),
             Careful(r)',
             \A q \in Req \ {r} : op[q].pc = "kill" /\ op'[r].turn # None =>
                 op'[r].out = None \/ (op[r].turn # None /\ op'[r].out = op[r].out)
      PROVE  Safe'
  <2>1. TurnsOpen'
    BY <1>0, <1>1, <1>3, <1>4 DEF Safe, TurnsOpen
  <2>2. SpentInv'
    BY <1>0, <1>1, <1>4 DEF Safe, SpentInv, HasUsed
  <2>3. UsesKept'
    <3>1. Kept(work)'
      BY <1>1, <1>2 DEF Safe, UsesKept, Kept
    <3>2. \A q \in Req : op'[q].turn # None => Kept(op'[q].out)
      BY <1>0, <1>4 DEF Safe, UsesKept
    <3> QED BY <1>1, <3>1, <3>2 DEF UsesKept, Kept
  <2>4. ASSUME NEW q \in Req \ {r} PROVE Careful(q)'
    <3>1. op'[q] = op[q] /\ Careful(q)
      BY <1>0 DEF Safe
    <3>2. ASSUME op[q].pc = "kill", op[q].kind = "resolve"
          PROVE  work' = None /\ \A p \in Req : op'[p].turn # None => op'[p].out = None
      <4>1. work = None /\ \A p \in Req : op[p].turn # None => op[p].out = None
        BY <3>1, <3>2 DEF Careful
      <4>2. ~StartWork(r)
        BY <4>1 DEF StartWork, Live
      <4> QED BY <1>0, <1>2, <1>4, <3>2, <4>1, <4>2
    <3> QED BY <1>1, <3>1, <3>2 DEF Careful, Kept
  <2> QED BY <1>3, <1>4, <2>1, <2>2, <2>3, <2>4 DEF Safe
<1>5. CASE Release(r)
  <2>1. PICK pc \in {"row", "end"}, b \in {op[r].box, None} :
             /\ Rests(r, pc, op[r].turn, b)
             /\ b # None => op[r].pc = "done" /\ op[r].kind = "resolve" /\ owner = r /\ op[r].ctx = "on"
    BY <1>0, <1>5, ReleaseShape
  <2>2. op'[r].pc = pc /\ op'[r].turn = op[r].turn /\ op'[r].out = b /\ op'[r].kind = "resolve"
    BY <2>1 DEF Rests
  <2>3. rebuild => ~HasUsed(r)'
    BY <2>1, <2>2 DEF Safe, SpentInv, HasUsed, Consumed
  <2>4. op'[r].turn # None => Kept(op'[r].out)
    BY <2>1, <2>2 DEF Safe, Careful, Kept
  <2>5. Careful(r)'
    BY <2>1, <2>2 DEF Careful
  <2>6. \A q \in Req \ {r} : op[q].pc # "kill"
    <3>1. Inside(r)
      BY <1>5 DEF Release, Inside, Outside
    <3> QED BY <3>1, OneHolder DEF Inside, Outside
  <2> QED BY <1>0, <1>4, <2>2, <2>3, <2>4, <2>5, <2>6
<1>6. CASE Arrive(r)
  <2>1. /\ op'[r].pc = "lock" /\ op'[r].out = None
        /\ op'[r].turn # None => op'[r].kind = "resolve" /\ op'[r].turn \in Turn /\ turn[op'[r].turn] \in {"leased", "bare"}
    BY <1>0, <1>6, ArriveShape DEF Safe, Careful
  <2>2. op'[r].turn # None => op'[r].turn \in Leased
    BY <2>1 DEF Safe, TurnsOpen, Leased
  <2>3. Careful(r)' /\ ~HasUsed(r)'
    BY <2>1 DEF Careful, HasUsed, Consumed
  <2> QED BY <1>4, <2>1, <2>2, <2>3 DEF Kept
<1>7. CASE ~Release(r) /\ ~Arrive(r)
  <2>1. /\ op'[r].turn \in {op[r].turn, None} /\ op'[r].out \in {op[r].out, None}
        /\ op'[r].kind = op[r].kind \/ op'[r].kind # "delete"
    BY <1>0, <1>7, OuterMoves
  <2>2. \/ op'[r].pc = op[r].pc /\ op'[r].kind = op[r].kind /\ op'[r].box = op[r].box
           /\ op'[r].ctx \in {op[r].ctx, "cancelled", "lost"} /\ op'[r].out = op[r].out
        \/ op'[r].pc \notin Consumed \cup {"kill", "new"}
    BY <1>0, <1>7, OuterMoves
  <2>3. rebuild => ~HasUsed(r)'
    BY <2>1, <2>2 DEF Safe, SpentInv, HasUsed
  <2>4. op'[r].turn # None => Kept(op'[r].out)
    BY <2>1 DEF Safe, UsesKept, Kept
  <2>5. Careful(r)'
    <3>1. Careful(r)
      BY DEF Safe
    <3>2. op'[r].kind = "delete" => op'[r].turn = None
      BY <2>1, <3>1 DEF Careful
    <3>3. CASE op'[r].pc = op[r].pc /\ op'[r].kind = op[r].kind /\ op'[r].box = op[r].box /\ op'[r].out = op[r].out
      <4>1. op[r].pc = "kill" /\ op[r].kind = "resolve"
              => work' = None /\ \A p \in Req : op'[p].turn # None => op'[p].out = None
        BY <1>0, <1>2, <2>1, <3>1 DEF Careful, Live, StartWork
      <4> QED BY <1>1, <3>1, <3>2, <3>3, <4>1 DEF Careful, Kept
    <3>4. CASE op'[r].pc \notin Consumed \cup {"kill", "new"}
      BY <3>2, <3>4 DEF Careful, Consumed
    <3> QED BY <2>2, <3>3, <3>4
  <2> QED BY <1>0, <1>4, <2>1, <2>3, <2>4, <2>5
<1> QED BY <1>5, <1>6, <1>7

LEMMA AroundSafe ==
    ASSUME Base, Safe, Around, ~Fault("blip"), ~Fault("expire")
    PROVE  Safe'
<1>0. /\ Inv /\ op \in [Req -> Op] /\ cloud \in [Box -> CloudState] /\ turn \in [Turn -> {"none", "leased", "bare", "over"}]
      /\ refs \in Nat /\ work \in Box \cup {None} /\ None \notin Turn
      /\ \A q \in Req : op[q].out \in Box \cup {None} /\ op[q].box \in Box \cup {None}
  BY ConstantsAreSound DEF Base, Inv, TypeOK, Op, CloudState, None
<1>1. /\ \A q \in Req : Stays(q)
      /\ work' \in {work, None}
  BY <1>0, AroundStays
<1>2. \A b \in Box : cloud'[b] = "replaced" => cloud[b] = "replaced"
  <2>1. CASE \E b \in Box : BoxComesUp(b) \/ BoxDies(b)
    BY <1>0, <2>1 DEF BoxComesUp, BoxDies
  <2>2. CASE ~\E b \in Box : BoxComesUp(b) \/ BoxDies(b)
    BY <2>2 DEF Around, BeginTurn, EndTurn, InvalidateByConfig, TurnLeaseExpires, EndWork, vars
  <2> QED BY <2>1, <2>2
<1>3. UsesKept'
  BY <1>0, <1>1, <1>2 DEF Safe, UsesKept, Kept, Stays
<1>4. \A q \in Req : Careful(q)'
  <2>1. ASSUME NEW q \in Req PROVE Careful(q)'
    <3>1. Careful(q) /\ Stays(q)
      BY <1>1 DEF Safe
    <3>2. op[q].pc = "kill" /\ op[q].kind = "resolve"
            => work' = None /\ \A p \in Req : op'[p].turn # None => op'[p].out = None
      BY <1>1, <3>1 DEF Careful, Stays
    <3> QED BY <1>0, <1>2, <3>1, <3>2 DEF Careful, Stays, Kept
  <2> QED BY <2>1
<1>5. ASSUME NEW t \in Turn, BeginTurn(t)
      PROVE  Counted' /\ TurnsOpen' /\ SpentInv'
  <2>1. /\ turn[t] = "none" /\ turn' = [turn EXCEPT ![t] = "leased"] /\ op' = op
        /\ refs' = refs + 1 /\ rebuild' = Armed
    BY <1>5 DEF BeginTurn
  <2>2. Leased' = Leased \cup {t} /\ t \notin Leased
    BY <1>0, <2>1 DEF Leased
  <2>3. Counted'
    <3>1. IsFiniteSet(Leased \cup {t}) /\ Cardinality(Leased \cup {t}) = Cardinality(Leased) + 1
      BY <2>2, FS_AddElement DEF Safe, Counted
    <3> QED BY <2>1, <2>2, <3>1 DEF Safe, Counted
  <2>4. TurnsOpen'
    BY <1>0, <2>1, <2>2 DEF Safe, TurnsOpen
  <2>5. CASE refs = 0
    <3>1. \A q \in Req : op[q].turn = None
      BY <2>5, OpenCounts DEF Safe, TurnsOpen
    <3> QED BY <2>1, <2>3, <2>4, <3>1 DEF SpentInv, HasUsed
  <2>6. CASE refs # 0
    BY <2>1, <2>3, <2>4, <2>6 DEF Armed, Safe, SpentInv, HasUsed
  <2> QED BY <2>5, <2>6
<1>6. ASSUME NEW t \in Turn, EndTurn(t)
      PROVE  Counted' /\ TurnsOpen' /\ SpentInv'
  <2>1. t \in Leased /\ turn[t] = "leased"
    BY <1>6 DEF EndTurn, Safe, TurnsOpen, Leased
  <2>2. /\ turn' = [turn EXCEPT ![t] = "over"] /\ refs' = RefsAfter
        /\ rebuild' = (rebuild /\ refs' > 0)
    BY <1>6, <2>1 DEF EndTurn
  <2>3. refs' = refs - 1
    BY <2>1, <2>2, OpenCounts DEF RefsAfter, Safe
  <2>4. Leased' = Leased \ {t}
    BY <1>0, <2>2 DEF Leased
  <2>5. Counted'
    <3>1. IsFiniteSet(Leased \ {t}) /\ Cardinality(Leased \ {t}) = Cardinality(Leased) - 1
      BY <2>1, FS_RemoveElement DEF Safe, Counted
    <3> QED BY <2>3, <2>4, <3>1 DEF Safe, Counted
  <2>6. \A q \in Req : \/ op[q].turn # t /\ op'[q] = op[q]
                       \/ op'[q].turn = None
    BY <1>0, <1>6, EndTurnShape
  <2>7. TurnsOpen'
    <3>1. \A s \in Turn : turn'[s] # "bare"
      BY <1>0, <2>2 DEF Safe, TurnsOpen
    <3>2. \A q \in Req : op'[q].turn # None => op'[q].turn \in Leased'
      BY <2>4, <2>6 DEF Safe, TurnsOpen
    <3> QED BY <3>1, <3>2 DEF TurnsOpen
  <2>8. rebuild' => rebuild
    BY <2>2
  <2>9. SpentInv'
    BY <2>6, <2>8 DEF Safe, SpentInv, HasUsed
  <2> QED BY <2>5, <2>7, <2>9
<1>7. ~TurnLeaseExpires
  <2> SUFFICES ASSUME TurnLeaseExpires PROVE FALSE
    OBVIOUS
  <2>1. \A t \in Turn : turn[t] # "leased"
    BY DEF TurnLeaseExpires
  <2>2. Leased = {} /\ refs > 0
    BY <2>1 DEF Leased, TurnLeaseExpires
  <2> QED BY <2>2, FS_EmptySet DEF Safe, Counted
<1>8. ASSUME (\E b \in Box : BoxComesUp(b) \/ BoxDies(b)) \/ InvalidateByConfig \/ EndWork \/ UNCHANGED vars
      PROVE  Counted' /\ TurnsOpen' /\ SpentInv'
  <2>1. turn' = turn /\ op' = op /\ refs' = refs /\ rebuild' = rebuild
    BY <1>8 DEF BoxComesUp, BoxDies, InvalidateByConfig, EndWork, vars, leaseVars
  <2>2. Leased' = Leased
    BY <2>1 DEF Leased
  <2> QED BY <2>1, <2>2 DEF Safe, Counted, TurnsOpen, SpentInv, HasUsed
<1> QED BY <1>3, <1>4, <1>5, <1>6, <1>7, <1>8 DEF Around, Safe

LEMMA SteadyStep ==
    ASSUME Base, HeldInv, SteadyInv, [Next]_vars
    PROVE  SteadyInv'
<1> SUFFICES ASSUME Steady' PROVE Safe'
  BY DEF SteadyInv
<1>0. /\ Inv /\ NoLapse /\ Safe /\ OutBound /\ \A q \in Req : Inside(q) => Holder(q)
      /\ ~Fault("expire") /\ ~Fault("blip") /\ faults'["blip"] = 0
  BY SteadyBefore DEF Base, SteadyInv, HeldInv
<1>1. ASSUME NEW r \in Req, Locked(r) PROVE Safe'
  <2>1. Inside(r)
    BY <1>0, <1>1, LockedStays DEF Inside
  <2>2. \A q \in Req \ {r} : ~Inside(q)
    BY <1>0, <2>1, OneHolder
  <2> QED BY <1>0, <1>1, <2>1, <2>2, LockedSafe
<1>2. ASSUME NEW r \in Req, Outer(r) PROVE Safe'
  BY <1>0, <1>2, OuterSafe
<1>3. CASE Around
  BY <1>0, <1>3, AroundSafe
<1> QED BY <1>1, <1>2, <1>3, NextCases

\* destroyBindingLocked and adoptOwned against ShouldRebuild and the turn lease: while
\* Redis keeps the lock and the lease, no rebuild for a newer image and no tidying of
\* duplicates destroys a sandbox that an open turn was given, or that background work
\* runs in, however requests, turns and deletions interleave.
THEOREM InUseStays == Spec => []InUseIsKept
<1>1. SteadyInv /\ Base => InUseIsKept
  <2> SUFFICES ASSUME SteadyInv, Base PROVE InUseIsKept
    OBVIOUS
  <2>1. {"lapse", "expire", "blip"} \subseteq Kind
    BY DEF Kind
  <2>2. faults["lapse"] \in Nat /\ faults["expire"] \in Nat /\ faults["blip"] \in Nat
    BY <2>1 DEF Base, Inv, TypeOK
  <2>3. Steady \/ faults["lapse"] + faults["expire"] + faults["blip"] > 0
    BY <2>2 DEF Steady
  <2>4. CASE Steady
    BY <2>4 DEF SteadyInv, Safe, UsesKept, Kept, InUseIsKept
  <2> QED BY <2>3, <2>4 DEF InUseIsKept
<1>2. Base /\ HeldInv /\ SteadyInv /\ [Next]_vars => SteadyInv'
  BY SteadyStep
<1> QED BY <1>1, <1>2, SteadyInit, HeldAlways, PTL DEF Spec

-----------------------------------------------------------------------------
(* While at most one lock lapsed: one sandbox *)

Once == faults["lapse"] <= 1

\* The sandboxes that requests were given and that live.
Given(b) == Live(b) /\ \E q \in Req : op[q].out = b

\* The request whose lock lapsed is past the rollback of its bootstrap, or gone.
Past == faults["lapse"] = 1 /\ \A q \in Req : op[q].lapsed => op[q].pc \in {"undo", "fail"}

\* A sandbox is bound, unless that rollback has unbound it.
Sound(b) == bound = b \/ (bound = None /\ Past)

\* What a request knows under the lock, lapsed or not.
Sure(r) ==
    /\ op[r].pc \in {"look", "kill", "unbind", "consume", "connect"} => op[r].box = None
    /\ op[r].pc \in {"look", "kill", "unbind", "consume", "connect", "drop", "list", "dups", "create"} => ~op[r].made
    /\ op[r].pc \in {"unbind", "drop"} => ~Live(op[r].saw)

\* The holder comes upon the sandbox b that others were given, or b is no more.
Meets(r, b) ==
    \/ op[r].pc \in {"look", "fail"}
    \/ op[r].pc \in {"kill", "consume", "connect"} /\ op[r].saw = b
    \/ op[r].pc \in {"consume", "list"} /\ op[r].saw = None /\ bound = None
    \/ op[r].pc = "dups" /\ bound = None /\ b \in op[r].cands
    \/ op[r].pc = "bind" /\ bound = None /\ ~op[r].made /\ op[r].box = b
    \/ op[r].pc = "done" /\ (op[r].box = b \/ ~Live(op[r].box))

\* The sandbox that it read, and the one that it returns.
Finds(r) ==
    /\ op[r].pc \in {"kill", "consume", "connect"} /\ Live(op[r].saw) => Sound(op[r].saw)
    /\ op[r].pc \in {"boot", "done"} /\ Live(op[r].box) => Sound(op[r].box)

Regular(r) == Inside(r) /\ ~op[r].lapsed

Apart ==
    /\ \A p, q \in Req : op[p].lapsed /\ op[q].lapsed => p = q
    /\ \A q \in Req : op[q].lapsed => owner # q
GivenOne ==
    /\ \A b \in Box : Given(b) => Sound(b)
    /\ \A b, c \in Box : Given(b) /\ Given(c) => b = c

Sole ==
    /\ Apart /\ GivenOne
    /\ \A r \in Req : Inside(r) => Sure(r)
    /\ \A r \in Req : Regular(r) => Finds(r) /\ \A b \in Box : Given(b) => Meets(r, b)
SoleInv == Once => Sole

LEMMA LapseCases ==
    ASSUME Inv, [Next]_vars
    PROVE  faults'["lapse"] = faults["lapse"] \/ \E r \in Req : Lapse(r)
<1> DEFINE Other == faults' = faults \/ \E k \in Kind \ {"lapse"} : Fault(k)
<1>0. {"error", "blip", "expire", "crash", "cancel"} \subseteq Kind \ {"lapse"}
  BY DEF Kind
<1>1. ASSUME NEW r \in Req, Locked(r) PROVE Other
  BY <1>0, <1>1 DEF Locked, Look, Kill, DeleteBinding, ConsumeTurnRebuild, ConnectBinding, DropBinding, List,
     AdoptOwned, Create, RecheckSession, Bind, Bootstrap, Unboot, Undo, LoseBinding, ConnectWinner,
     FailCall, Calls, CallFails, NoFault
<1>2. ASSUME NEW r \in Req, Outer(r), ~Lapse(r) PROVE Other
  BY <1>0, <1>2 DEF Outer, Acquire, GiveUp, Release, DeleteRow, LeaseExpires, Arrive, Cancel, RenewalFails,
     Crash, DropBoundSandbox, StartWork, CallFails, NoFault
<1>3. ASSUME Around PROVE Other
  BY <1>0, <1>3 DEF Around, BeginTurn, EndTurn, BoxComesUp, BoxDies, InvalidateByConfig, TurnLeaseExpires, EndWork, vars, NoFault
<1>4. ASSUME Other PROVE faults'["lapse"] = faults["lapse"]
  <2>1. faults \in [Kind -> Nat] /\ "lapse" \in Kind
    BY DEF Inv, TypeOK, Kind
  <2> QED BY <1>4, <2>1 DEF Fault
<1> HIDE DEF Other
<1> QED BY <1>1, <1>2, <1>3, <1>4, NextCases

LEMMA OnceBefore ==
    ASSUME Inv, [Next]_vars, Once'
    PROVE  Once
<1>1. "lapse" \in Kind
  BY DEF Kind
<1>2. faults["lapse"] \in Nat /\ faults'["lapse"] \in Nat /\ faults'["lapse"] >= faults["lapse"]
  BY <1>1, FaultCounts
<1> QED BY <1>2 DEF Once

\* A request that lapsed is the only one that did.
LEMMA LapsedOnce ==
    ASSUME Base, Once, NEW r \in Req, op[r].lapsed
    PROVE  faults["lapse"] = 1
<1>1. "lapse" \in Kind /\ faults["lapse"] \in Nat
  BY DEF Base, Inv, TypeOK, Kind
<1> QED BY <1>1 DEF Base, LapseCounted, Once

LEMMA OneRegular ==
    ASSUME Base, NEW r \in Req, Regular(r), NEW q \in Req \ {r}, Inside(q)
    PROVE  op[q].lapsed
  BY DEF Base, Inv, LockIsOwn, Regular

\* Under the lock no new sandbox is given, and none comes back to life.
LEMMA LockedGives ==
    ASSUME Base, NEW r \in Req, Locked(r)
    PROVE  /\ \A b \in Box : Given(b)' => Given(b)
           /\ \A b \in Box : cloud[b] \notin Ahead /\ cloud'[b] = "live" => cloud[b] = "live"
<1>0. /\ Inv /\ op \in [Req -> Op] /\ cloud \in [Box -> CloudState]
      /\ \A q \in Req : op'[q].out = op[q].out
  BY LockedRefers DEF Base, Inv, TypeOK, CloudState, Refers
<1>1. \A b \in Box : cloud[b] \notin Ahead /\ cloud'[b] = "live" => cloud[b] = "live"
  <2>1. CASE Kill(r) \/ AdoptOwned(r) \/ Undo(r) \/ LoseBinding(r)
    BY <1>0, <2>1, DeletedDies DEF Kill, AdoptOwned, Undo, LoseBinding, Lose
  <2>2. CASE Create(r)
    BY <1>0, <2>2, CreateShape DEF Creates, Ahead
  <2>3. CASE cloud' = cloud
    BY <2>3
  <2> QED BY <2>1, <2>2, <2>3 DEF Locked, Look, DeleteBinding, ConsumeTurnRebuild, ConnectBinding,
             DropBinding, List, RecheckSession, Bind, Bootstrap, Unboot, ConnectWinner, FailCall
<1>2. ASSUME NEW b \in Box, Given(b)' PROVE Given(b)
  <2>1. cloud'[b] = "live" /\ \E q \in Req : op[q].out = b
    BY <1>0, <1>2 DEF Given, Live
  <2>2. b # None
    BY DEF None, Box
  <2>3. cloud[b] \notin Ahead
    BY <2>1, <2>2 DEF Base, StartedInv, Started
  <2> QED BY <1>1, <2>1, <2>2, <2>3 DEF Given, Live
<1> QED BY <1>1, <1>2

\* What a step under the lock does to the binding.
BindsOwn(r) == op[r].pc = "bind" /\ bound = None /\ bound' = op[r].box
RollsBack(r) == op[r].pc = "unboot" /\ op'[r].pc = "undo" /\ bound' = None
LEMMA LockedBinds ==
    ASSUME Base, NEW r \in Req, Sure(r), Locked(r)
    PROVE  bound' = bound \/ (bound' = None /\ ~Live(bound)) \/ BindsOwn(r) \/ RollsBack(r)
<1>0. op \in [Req -> Op]
  BY DEF Base, Inv, TypeOK
<1>1. CASE DeleteBinding(r) \/ DropBinding(r)
  <2>1. Unbind(op[r].saw) /\ ~Live(op[r].saw)
    BY <1>1 DEF DeleteBinding, DropBinding, At, Sure
  <2> QED BY <2>1 DEF Unbind
<1>2. CASE Bind(r)
  BY <1>2 DEF Bind, At, BindsOwn, bindVars
<1>3. CASE Unboot(r)
  <2>1. CASE Unbind(op[r].box) /\ Go(r, "undo")
    <3>1. op'[r].pc = "undo" /\ op[r].pc = "unboot"
      BY <1>0, <1>3, <2>1, GoKeeps DEF Unboot, At
    <3> QED BY <2>1, <3>1 DEF Unbind, RollsBack
  <2>2. CASE bound' = bound
    BY <2>2
  <2> QED BY <1>3, <2>1, <2>2 DEF Unboot, bindVars
<1>4. CASE bound' = bound
  BY <1>4
<1> QED BY <1>1, <1>2, <1>3, <1>4 DEF Locked, Look, Kill, ConsumeTurnRebuild, ConnectBinding, List,
           AdoptOwned, Create, RecheckSession, Bootstrap, Undo, LoseBinding, ConnectWinner, FailCall, bindVars

LEMMA LockedSure ==
    ASSUME Base, NEW r \in Req, Sure(r), Locked(r)
    PROVE  Sure(r)'
<1>0. /\ op \in [Req -> Op] /\ cloud \in [Box -> CloudState] /\ op[r].saw \in Box \cup {None}
  BY DEF Base, Inv, TypeOK, Op, CloudState
<1>1. ASSUME op'[r].pc \notin {"look", "kill", "unbind", "consume", "connect", "drop", "list", "dups", "create"}
      PROVE  Sure(r)'
  BY <1>1 DEF Sure
<1>2. CASE Look(r)
  <2>1. /\ op'[r].box = op[r].box /\ op'[r].pc \in {"kill", "fail", "done", "consume"}
        /\ op[r].pc = "look" /\ op'[r].made = op[r].made
    BY <1>0, <1>2, LookShape DEF Look, At
  <2> QED BY <2>1 DEF Sure
<1>3. CASE Kill(r)
  <2>1. op'[r].pc \in {"unbind", "fail"} /\ Same(r) /\ op[r].pc = "kill"
    BY <1>0, <1>3, KillShape DEF Kill, At
  <2>2. \A b \in Box \cap {op[r].saw} : cloud'[b] # "live"
    BY <1>0, <1>3, DeletedDies DEF Kill
  <2> QED BY <1>0, <2>1, <2>2 DEF Sure, Same, Live
<1>4. CASE DeleteBinding(r)
  <2>1. /\ op'[r].box = op[r].box /\ op'[r].pc \in {"fail", "consume", "done"}
        /\ op[r].pc = "unbind" /\ op'[r].made = op[r].made
    BY <1>0, <1>4, DeleteBindingShape DEF DeleteBinding, At
  <2> QED BY <2>1 DEF Sure
<1>5. CASE ConsumeTurnRebuild(r)
  <2>1. op'[r].pc \in {"connect", "list"} /\ Same(r) /\ op[r].pc = "consume"
    BY <1>0, <1>5, GoKeeps DEF ConsumeTurnRebuild, At
  <2> QED BY <2>1 DEF Sure, Same
<1>6. CASE ConnectBinding(r)
  <2> DEFINE pc == IF Live(op[r].saw) THEN "done" ELSE "drop"
  <2>0. cloud' = cloud /\ op[r].pc = "connect"
    BY <1>6 DEF ConnectBinding, At
  <2>1. op' = [op EXCEPT ![r].pc = pc, ![r].box = op[r].saw]
    BY <1>6 DEF ConnectBinding
  <2>2. pc = "done" \/ (pc = "drop" /\ ~Live(op[r].saw))
    OBVIOUS
  <2> HIDE DEF pc
  <2>3. TakesBox(r, pc, op[r].saw) /\ op'[r].made = op[r].made
    BY <1>0, <2>1, TakesBoxShape
  <2>4. op'[r].pc = pc /\ op'[r].saw = op[r].saw
    BY <2>3 DEF TakesBox
  <2> QED BY <2>0, <2>2, <2>3, <2>4 DEF Sure, Live
<1>7. ASSUME NEW pc \in {"bind", "boot", "unboot", "undo", "done", "fail", "lose", "winner"}, Go(r, pc) PROVE Sure(r)'
  <2>1. op'[r].pc = pc
    BY <1>0, <1>7, GoKeeps
  <2> QED BY <1>1, <1>7, <2>1
<1>8. CASE RecheckSession(r) \/ Bind(r) \/ Bootstrap(r) \/ Unboot(r) \/ Undo(r) \/ FailCall(r)
  BY <1>7, <1>8 DEF RecheckSession, Recheck, Bind, Bootstrap, Unboot, Undo, FailCall
<1>9. CASE DropBinding(r)
  <2>1. op'[r].pc \in {"list", "fail"} /\ Same(r) /\ op[r].pc = "drop"
    BY <1>0, <1>9, GoKeeps DEF DropBinding, At
  <2> QED BY <2>1 DEF Sure, Same
<1>10. CASE List(r)
  <2>1. op'[r].pc \in {"create", "dups"} /\ Same(r) /\ op[r].pc = "list"
    BY <1>0, <1>10, ListShape DEF List, At
  <2> QED BY <2>1 DEF Sure, Same
<1>11. CASE AdoptOwned(r)
  <2>1. op[r].pc = "dups"
    BY <1>11 DEF AdoptOwned, At
  <2>2. (op'[r].pc \in {"create", "fail"} /\ Same(r)) \/ op'[r].pc = "bind"
    BY <1>0, <1>11, AdoptShape DEF TakesBox
  <2> QED BY <2>1, <2>2 DEF Sure, Same
<1>12. CASE Create(r)
  <2>1. PICK b \in Box : Creates(r, b)
    BY <1>12, CreateShape DEF Base
  <2> QED BY <1>1, <2>1 DEF Creates, TakesBox
<1>13. CASE LoseBinding(r)
  BY <1>0, <1>1, <1>13, LoseShape
<1>14. CASE ConnectWinner(r)
  <2>1. PICK pc \in {"done", "fail"} : op' = [op EXCEPT ![r].pc = pc, ![r].box = bound]
    BY <1>14 DEF ConnectWinner
  <2>2. op'[r].pc = pc
    BY <1>0, <2>1, TakesBoxShape DEF TakesBox
  <2> QED BY <1>1, <2>2
<1> QED BY <1>2, <1>3, <1>4, <1>5, <1>6, <1>8, <1>9, <1>10, <1>11, <1>12, <1>13, <1>14 DEF Locked

\* Another request keeps what it knows of the sandbox that it read.
LEMMA OthersSure ==
    ASSUME Base, NEW r \in Req, Locked(r), NEW q \in Req \ {r}, Sure(q)
    PROVE  Sure(q)'
<1>1. op'[q] = op[q] /\ op[q].saw \in Box \cup {None} /\ Started(op[q].saw)
  BY LockedRefers DEF Base, Inv, TypeOK, Op, Refers, StartedInv
<1>2. ~Live(op[q].saw) => ~Live(op[q].saw)'
  BY <1>1, LockedGives DEF Live, Started
<1> QED BY <1>1, <1>2 DEF Sure

LEMMA LockedPast ==
    ASSUME Base, NEW r \in Req, Locked(r), Past, faults'["lapse"] = faults["lapse"]
    PROVE  Past'
<1>0. op \in [Req -> Op]
  BY DEF Base, Inv, TypeOK
<1>1. op'[r].lapsed = op[r].lapsed /\ \A q \in Req \ {r} : op'[q] = op[q]
  BY LockedWorks, LockedRefers DEF Base, Works, Refers
<1>2. ASSUME op[r].pc \in {"undo", "fail"} PROVE op'[r].pc = "fail"
  <2>1. Undo(r)
    BY <1>2 DEF Locked, Look, Kill, DeleteBinding, ConsumeTurnRebuild, ConnectBinding, DropBinding, List, AdoptOwned,
       Create, RecheckSession, Bind, Bootstrap, Unboot, Undo, LoseBinding, ConnectWinner, FailCall, At
  <2> QED BY <1>0, <2>1, GoKeeps DEF Undo
<1> QED BY <1>1, <1>2 DEF Past

\* The step of a request whose lock lapsed: what was sound stays so.
LEMMA LapsedSound ==
    ASSUME Base, Once, Sole, NEW r \in Req, op[r].lapsed, Sure(r), Locked(r),
           faults'["lapse"] = faults["lapse"],
           NEW b \in Box, Live(b), Sound(b)
    PROVE  Sound(b)' /\ ~BindsOwn(r)
<1>1. Past => Past'
  BY LockedPast
<1>2. ~BindsOwn(r)
  <2>1. b # None
    BY DEF None, Box
  <2> QED BY <2>1 DEF BindsOwn, Sound, Past
<1>3. RollsBack(r) => Past'
  <2>1. \A q \in Req \ {r} : ~op[q].lapsed /\ op'[q] = op[q]
    BY LockedRefers DEF Base, Refers, Sole, Apart
  <2> QED BY <2>1, LapsedOnce DEF Past, RollsBack
<1> QED BY <1>1, <1>2, <1>3, LockedBinds DEF Sound, RollsBack

LEMMA LapsedSole ==
    ASSUME Base, Once, Sole, NEW r \in Req, op[r].lapsed, Locked(r),
           faults'["lapse"] = faults["lapse"]
    PROVE  Sole'
<1>0. /\ Inv /\ op \in [Req -> Op] /\ op'[r].lapsed /\ owner' = owner /\ Inside(r)
      /\ \A q \in Req \ {r} : op'[q] = op[q]
  BY LockedWorks, LockedRefers DEF Base, Inv, TypeOK, Works, Refers
<1>1. Sure(r)
  BY <1>0 DEF Sole
<1>2. \A b \in Box : Given(b)' => Given(b) /\ Sound(b)
  BY LockedGives DEF Sole, GivenOne
<1>3. \A b \in Box : Live(b) /\ Sound(b) => Sound(b)' /\ ~BindsOwn(r)
  BY <1>1, LapsedSound
<1>4. Apart'
  BY <1>0 DEF Sole, Apart
<1>5. GivenOne'
  <2>1. \A b \in Box : Given(b)' => Sound(b)'
    BY <1>2, <1>3 DEF Given
  <2>2. \A b, c \in Box : Given(b)' /\ Given(c)' => b = c
    BY <1>2 DEF Sole, GivenOne
  <2> QED BY <2>1, <2>2 DEF GivenOne
<1>6. \A q \in Req : Inside(q)' => Sure(q)'
  <2>1. ASSUME NEW q \in Req \ {r}, Inside(q)' PROVE Sure(q)'
    <3>1. Inside(q)
      BY <1>0, <2>1 DEF Inside
    <3> QED BY <3>1, OthersSure DEF Sole
  <2> QED BY <1>1, <2>1, LockedSure
<1>7. ASSUME NEW q \in Req, Regular(q)' PROVE Finds(q)' /\ \A b \in Box : Given(b)' => Meets(q, b)'
  <2>1. q # r /\ op'[q] = op[q] /\ Regular(q)
    BY <1>0, <1>7 DEF Regular, Inside
  <2>2. /\ op[q].saw \in Box \cup {None} /\ op[q].box \in Box \cup {None}
        /\ Started(op[q].saw) /\ Started(op[q].box) /\ Finds(q)
    BY <1>0, <2>1 DEF Op, Base, StartedInv, Sole
  <2>3. \A b \in Box \cup {None} : Started(b) /\ b # None /\ cloud'[b] = "live" => b \in Box /\ cloud[b] = "live"
    BY LockedGives DEF Started
  <2>4. Finds(q)'
    BY <1>3, <2>1, <2>2, <2>3 DEF Finds, Live
  <2>5. ASSUME NEW b \in Box, Given(b)' PROVE Meets(q, b)'
    <3>1. Given(b) /\ Meets(q, b)
      BY <1>2, <2>1, <2>5 DEF Sole
    <3>2. ~BindsOwn(r)
      BY <1>2, <1>3, <2>5 DEF Given
    <3>3. bound = None => bound' = None
      BY <1>1, <3>2, LockedBinds DEF RollsBack
    <3>4. ~Live(op[q].box) => ~Live(op[q].box)'
      BY <2>1, <2>2, <2>3 DEF Live
    <3> QED BY <2>1, <3>1, <3>3, <3>4 DEF Meets
  <2> QED BY <2>4, <2>5
<1> QED BY <1>4, <1>5, <1>6, <1>7 DEF Sole

\* The step of the holder: it goes on with the one sandbox.
GoesOn(r) == (\A b \in Box : Given(b)' => Sound(b)' /\ Meets(r, b)') /\ Finds(r)'

\* Where nobody has a sandbox that lives.
Alone == {"unbind", "drop", "create", "recheck", "boot", "unboot", "undo", "lose", "winner"}

LEMMA HolderGoesOn ==
    ASSUME Base, Once, Sole, NEW r \in Req, Regular(r), Locked(r), faults'["lapse"] = faults["lapse"]
    PROVE  GoesOn(r)
<1>0. /\ Inv /\ op \in [Req -> Op] /\ cloud \in [Box -> CloudState] /\ bound \in Box \cup {None}
      /\ op[r].saw \in Box \cup {None} /\ op[r].box \in Box \cup {None} /\ op[r].cands \in SUBSET Box
  BY DEF Base, Inv, TypeOK, Op, CloudState
<1>1. Sure(r) /\ Finds(r) /\ \A b \in Box : Given(b) => Meets(r, b)
  BY DEF Sole, Regular
<1>2. \A b \in Box : Given(b)' => Given(b) /\ Meets(r, b) /\ Sound(b) /\ cloud[b] = "live" /\ cloud'[b] = "live" /\ b # None
  BY <1>1, LockedGives DEF Sole, GivenOne, Given, Live
<1>3. Past => Past'
  BY LockedPast
<1>4. ASSUME bound' = bound PROVE \A b \in Box : Sound(b) => Sound(b)'
  BY <1>3, <1>4 DEF Sound
<1>5. ASSUME op[r].pc \in Alone PROVE \A b \in Box : ~Given(b)'
  BY <1>2, <1>5 DEF Meets, Alone
<1>6. ASSUME op[r].pc \in Alone, op'[r].pc \notin {"kill", "consume", "connect", "boot", "done"}
      PROVE  GoesOn(r)
  BY <1>5, <1>6 DEF GoesOn, Finds
<1>7. ASSUME bound' = bound, op'[r].pc = "fail" PROVE GoesOn(r)
  BY <1>2, <1>4, <1>7 DEF GoesOn, Finds, Meets
<1>8. CASE Look(r)
  <2>1. bound' = bound /\ cloud' = cloud /\ op[r].pc = "look"
    BY <1>8 DEF Look, At, bindVars
  <2>2. /\ op'[r].saw = bound /\ op'[r].box = op[r].box /\ op'[r].pc \in {"kill", "fail", "done", "consume"}
        /\ op'[r].pc = "kill" => bound # None
    BY <1>0, <1>8, LookShape
  <2>3. op'[r].box = None
    BY <1>1, <2>1, <2>2 DEF Sure
  <2>4. Finds(r)'
    BY <2>1, <2>2, <2>3 DEF Finds, Live, Sound
  <2>5. ASSUME NEW b \in Box, Given(b)' PROVE Sound(b)' /\ Meets(r, b)'
    <3>1. bound = b \/ bound = None
      BY <1>2, <2>5 DEF Sound
    <3>2. Meets(r, b)'
      BY <2>1, <2>2, <2>3, <3>1 DEF Meets, Live
    <3> QED BY <1>2, <1>4, <2>1, <2>5, <3>2
  <2> QED BY <2>4, <2>5 DEF GoesOn
<1>9. CASE Kill(r)
  <2>1. op[r].pc = "kill" /\ op'[r].pc \in {"unbind", "fail"}
    BY <1>0, <1>9, KillShape DEF Kill, At
  <2>2. \A b \in Box \cap {op[r].saw} : cloud'[b] # "live"
    BY <1>0, <1>9, DeletedDies DEF Kill
  <2>3. \A b \in Box : ~Given(b)'
    BY <1>2, <2>1, <2>2 DEF Meets
  <2> QED BY <2>1, <2>3 DEF GoesOn, Finds
<1>10. CASE DeleteBinding(r)
  <2>1. op[r].pc = "unbind"
    BY <1>10 DEF DeleteBinding, At
  <2>2. /\ op'[r].box = op[r].box /\ op'[r].pc \in {"fail", "consume", "done"}
        /\ op'[r].pc # "fail" => op'[r].saw = None
    BY <1>0, <1>10, DeleteBindingShape
  <2>3. op'[r].box = None
    BY <1>1, <2>1, <2>2 DEF Sure
  <2>4. Finds(r)'
    BY <2>2, <2>3 DEF Finds, Live
  <2> QED BY <1>5, <2>1, <2>4 DEF GoesOn, Alone
<1>11. CASE ConsumeTurnRebuild(r)
  <2>1. bound' = bound /\ cloud' = cloud /\ op[r].pc = "consume"
    BY <1>11 DEF ConsumeTurnRebuild, At, bindVars
  <2>2. op'[r].pc = (IF op[r].saw # None THEN "connect" ELSE "list") /\ Same(r)
    BY <1>0, <1>11, GoKeeps DEF ConsumeTurnRebuild
  <2>3. Finds(r)'
    BY <1>0, <1>1, <1>4, <2>1, <2>2 DEF Finds, Live, Same, None
  <2>4. ASSUME NEW b \in Box, Given(b)' PROVE Sound(b)' /\ Meets(r, b)'
    BY <1>2, <1>4, <2>1, <2>2, <2>4 DEF Meets, Same
  <2> QED BY <2>3, <2>4 DEF GoesOn
<1>12. CASE ConnectBinding(r)
  <2> DEFINE pc == IF Live(op[r].saw) THEN "done" ELSE "drop"
  <2>1. bound' = bound /\ cloud' = cloud /\ op[r].pc = "connect"
    BY <1>12 DEF ConnectBinding, At, bindVars
  <2>2. op' = [op EXCEPT ![r].pc = pc, ![r].box = op[r].saw]
    BY <1>12 DEF ConnectBinding
  <2>3. (pc = "done" /\ Live(op[r].saw)) \/ (pc = "drop" /\ ~Live(op[r].saw))
    OBVIOUS
  <2> HIDE DEF pc
  <2>4. TakesBox(r, pc, op[r].saw)
    BY <1>0, <2>2, TakesBoxShape
  <2>5. op'[r].pc = pc /\ op'[r].box = op[r].saw
    BY <2>4 DEF TakesBox
  <2>6. Finds(r)'
    <3>1. Live(op[r].saw) => Sound(op[r].saw) /\ op[r].saw \in Box
      BY <1>0, <1>1, <2>1 DEF Finds, Live
    <3> QED BY <1>4, <2>1, <2>3, <2>5, <3>1 DEF Finds, Live
  <2>7. ASSUME NEW b \in Box, Given(b)' PROVE Sound(b)' /\ Meets(r, b)'
    <3>1. op[r].saw = b
      BY <1>2, <2>1, <2>7 DEF Meets
    <3>2. pc = "done"
      BY <1>2, <2>3, <2>7, <3>1 DEF Live
    <3>3. Meets(r, b)'
      BY <2>5, <3>1, <3>2 DEF Meets
    <3> QED BY <1>2, <1>4, <2>1, <2>7, <3>3
  <2> QED BY <2>6, <2>7 DEF GoesOn
<1>13. CASE DropBinding(r)
  <2>1. op[r].pc = "drop" /\ op'[r].pc \in {"list", "fail"}
    BY <1>0, <1>13, GoKeeps DEF DropBinding, At
  <2> QED BY <1>6, <2>1 DEF Alone
<1>14. CASE List(r)
  <2> DEFINE pc == IF Owned = {} THEN "create" ELSE "dups"
  <2>1. bound' = bound /\ cloud' = cloud /\ op[r].pc = "list"
    BY <1>14 DEF List, At, bindVars
  <2>2. op' = [op EXCEPT ![r].pc = pc, ![r].cands = Owned]
    BY <1>14 DEF List
  <2>3. (pc = "create" /\ Owned = {}) \/ pc = "dups"
    OBVIOUS
  <2> HIDE DEF pc
  <2>4. op'[r].pc = pc /\ op'[r].cands = Owned
    BY <1>0, <2>2 DEF Op
  <2>5. Finds(r)'
    BY <2>3, <2>4 DEF Finds
  <2>6. ASSUME NEW b \in Box, Given(b)' PROVE Sound(b)' /\ Meets(r, b)'
    <3>1. b \in Owned
      BY <1>2, <2>6 DEF Owned, Live
    <3>2. bound = None
      BY <1>2, <2>1, <2>6 DEF Meets
    <3>3. Meets(r, b)'
      BY <2>1, <2>3, <2>4, <3>1, <3>2 DEF Meets
    <3> QED BY <1>2, <1>4, <2>1, <2>6, <3>3
  <2> QED BY <2>5, <2>6 DEF GoesOn
<1>15. CASE AdoptOwned(r)
  <2> DEFINE pick == Oldest(op[r].cands)
  <2>1. bound' = bound /\ op[r].pc = "dups"
    BY <1>15 DEF AdoptOwned, At, bindVars
  <2>2. \/ Go(r, "fail")
        \/ pick = {} /\ Go(r, "create") /\ Deleted(op[r].cands, "replaced")
        \/ /\ Deleted(op[r].cands \ pick, "replaced")
           /\ \E c \in pick : op' = [op EXCEPT ![r].pc = "bind", ![r].box = c]
    BY <1>15 DEF AdoptOwned
  <2>3. \A b, c \in pick : b = c
    BY <1>0 DEF Oldest, Box
  <2>4. pick \subseteq Box
    BY <1>0 DEF Oldest
  <2> HIDE DEF pick
  <2>5. ASSUME Deleted(op[r].cands \ pick, "replaced"), NEW b \in Box, Given(b)'
        PROVE  b \in pick /\ bound = None
    <3>1. b \in op[r].cands /\ bound = None
      BY <1>2, <2>1, <2>5 DEF Meets
    <3>2. b \notin op[r].cands \ pick
      BY <1>2, <2>5 DEF Deleted
    <3> QED BY <3>1, <3>2
  <2>6. CASE pick = {} /\ Go(r, "create") /\ Deleted(op[r].cands, "replaced")
    <3>1. op'[r].pc = "create"
      BY <1>0, <2>6, GoKeeps
    <3>2. Deleted(op[r].cands \ pick, "replaced")
      BY <2>6
    <3> QED BY <2>5, <2>6, <3>1, <3>2 DEF GoesOn, Finds
  <2>7. ASSUME Deleted(op[r].cands \ pick, "replaced"),
               NEW c \in pick, op' = [op EXCEPT ![r].pc = "bind", ![r].box = c]
        PROVE  GoesOn(r)
    <3>0. op' = [op EXCEPT ![r].pc = "bind", ![r].box = c]
      BY <2>7
    <3>1. op'[r].pc = "bind" /\ op'[r].box = c /\ op'[r].made = op[r].made
      BY <1>0, <3>0 DEF Op
    <3>2. ~op[r].made
      BY <1>1, <2>1 DEF Sure
    <3>3. \A b \in Box : Given(b)' => b = c /\ bound = None
      BY <2>3, <2>5, <2>7
    <3>4. \A b \in Box : Given(b)' => Sound(b)' /\ Meets(r, b)'
      BY <1>2, <1>4, <2>1, <3>1, <3>2, <3>3 DEF Meets
    <3> QED BY <3>1, <3>4 DEF GoesOn, Finds
  <2>8. CASE Go(r, "fail")
    <3>1. op'[r].pc = "fail"
      BY <1>0, <2>8, GoKeeps
    <3> QED BY <1>7, <2>1, <3>1
  <2> QED BY <2>2, <2>6, <2>7, <2>8
<1>16. CASE Create(r)
  <2>1. op[r].pc = "create"
    BY <1>16 DEF Create, At
  <2>2. PICK b \in Box : Creates(r, b)
    BY <1>16, CreateShape DEF Base
  <2>3. op'[r].pc \in {"recheck", "fail"}
    BY <2>2 DEF Creates, TakesBox
  <2> QED BY <1>6, <2>1, <2>3 DEF Alone
<1>17. CASE RecheckSession(r)
  <2>1. op[r].pc = "recheck" /\ op'[r].pc \in {"bind", "undo"}
    <3>1. PICK pc \in {"bind", "undo"} : Go(r, pc)
      BY <1>17 DEF RecheckSession, Recheck
    <3> QED BY <1>0, <1>17, <3>1, GoKeeps DEF RecheckSession, At
  <2> QED BY <1>6, <2>1 DEF Alone
<1>18. CASE Bind(r)
  <2>1. op[r].pc = "bind"
    BY <1>18 DEF Bind, At
  <2>2. ASSUME NEW b \in Box, Given(b)' PROVE bound = None /\ ~op[r].made /\ op[r].box = b /\ Past
    BY <1>2, <2>1, <2>2 DEF Meets, Sound
  <2>3. CASE bound = None /\ bound' = op[r].box /\ Go(r, IF op[r].made THEN "boot" ELSE "done")
    <3> DEFINE pc == IF op[r].made THEN "boot" ELSE "done"
    <3>1. pc = "done" \/ (pc = "boot" /\ op[r].made)
      OBVIOUS
    <3> HIDE DEF pc
    <3>2. op'[r].pc = pc /\ op'[r].box = op[r].box
      BY <1>0, <2>3, GoKeeps DEF Same, pc
    <3>3. Finds(r)'
      BY <2>3, <3>1, <3>2 DEF Finds, Sound
    <3>4. \A b \in Box : Given(b)' => Sound(b)' /\ Meets(r, b)'
      BY <2>2, <2>3, <3>1, <3>2 DEF Sound, Meets
    <3> QED BY <3>3, <3>4 DEF GoesOn
  <2>4. CASE bound # None /\ Go(r, IF op[r].made THEN "lose" ELSE "winner")
    <3>1. op'[r].pc \in {"lose", "winner"}
      BY <1>0, <2>4, GoKeeps
    <3> QED BY <2>2, <2>4, <3>1 DEF GoesOn, Finds
  <2>5. CASE Go(r, IF op[r].made THEN "undo" ELSE "fail") /\ bound' \in {bound, op[r].box}
    <3>1. op'[r].pc = "fail" \/ (op'[r].pc = "undo" /\ op[r].made)
      BY <1>0, <2>5, GoKeeps
    <3>2. \A b \in Box : Given(b)' => Sound(b)' /\ Meets(r, b)'
      BY <1>3, <2>2, <2>5, <3>1 DEF Sound, Meets
    <3> QED BY <3>1, <3>2 DEF GoesOn, Finds
  <2> QED BY <1>18, <2>3, <2>4, <2>5 DEF Bind, bindVars
<1>19. CASE Bootstrap(r)
  <2>1. bound' = bound /\ cloud' = cloud /\ op[r].pc = "boot"
    BY <1>19 DEF Bootstrap, At, bindVars
  <2>2. op'[r].pc \in {"done", "unboot"} /\ op'[r].box = op[r].box
    BY <1>0, <1>19, GoKeeps DEF Bootstrap, Same
  <2>3. Finds(r)'
    BY <1>0, <1>1, <1>4, <2>1, <2>2 DEF Finds, Live
  <2> QED BY <1>5, <2>1, <2>3 DEF GoesOn, Alone
<1>20. CASE Unboot(r) \/ Undo(r)
  <2>1. op[r].pc \in {"unboot", "undo"} /\ op'[r].pc \in {"undo", "fail"}
    BY <1>0, <1>20, GoKeeps DEF Unboot, Undo, At
  <2> QED BY <1>6, <2>1 DEF Alone
<1>21. CASE LoseBinding(r)
  <2>1. op[r].pc = "lose" /\ bound' = bound
    BY <1>21 DEF LoseBinding, At, bindVars
  <2>2. \/ Go(r, "winner") \/ Go(r, "fail")
        \/ bound = op[r].box /\ Go(r, "done")
    BY <1>21 DEF LoseBinding, Lose, Go
  <2>3. \/ op'[r].pc \in {"winner", "fail"}
        \/ bound = op[r].box /\ op'[r].pc = "done" /\ op'[r].box = op[r].box
    BY <1>0, <2>2, GoKeeps DEF Same
  <2>4. Finds(r)'
    BY <2>1, <2>3 DEF Finds, Sound
  <2> QED BY <1>5, <2>1, <2>4 DEF GoesOn, Alone
<1>22. CASE ConnectWinner(r)
  <2>1. op[r].pc = "winner" /\ bound' = bound
    BY <1>22 DEF ConnectWinner, At, bindVars
  <2>2. PICK pc \in {"done", "fail"} : op' = [op EXCEPT ![r].pc = pc, ![r].box = bound]
    BY <1>22 DEF ConnectWinner
  <2>3. op'[r].pc = pc /\ op'[r].box = bound
    BY <1>0, <2>2 DEF Op
  <2>4. Finds(r)'
    BY <2>1, <2>3 DEF Finds, Sound
  <2> QED BY <1>5, <2>1, <2>4 DEF GoesOn, Alone
<1>23. CASE FailCall(r)
  <2>1. bound' = bound /\ op'[r].pc = "fail"
    BY <1>0, <1>23, GoKeeps DEF FailCall, bindVars
  <2> QED BY <1>7, <2>1
<1> QED BY <1>8, <1>9, <1>10, <1>11, <1>12, <1>13, <1>14, <1>15, <1>16, <1>17, <1>18, <1>19, <1>20, <1>21,
           <1>22, <1>23 DEF Locked

LEMMA RegularSole ==
    ASSUME Base, Once, Sole, NEW r \in Req, Regular(r), Locked(r), faults'["lapse"] = faults["lapse"]
    PROVE  Sole'
<1>0. /\ Inv /\ op \in [Req -> Op] /\ op'[r].lapsed = op[r].lapsed /\ owner' = owner /\ Inside(r)
      /\ \A q \in Req \ {r} : op'[q] = op[q]
  BY LockedWorks, LockedRefers DEF Base, Inv, TypeOK, Works, Refers
<1>1. GoesOn(r)
  BY HolderGoesOn
<1>2. Apart'
  BY <1>0 DEF Sole, Apart
<1>3. GivenOne'
  BY <1>1, LockedGives DEF GoesOn, Sole, GivenOne
<1>4. \A q \in Req : Inside(q)' => Sure(q)'
  <2>1. ASSUME NEW q \in Req \ {r}, Inside(q)' PROVE Sure(q)'
    <3>1. Inside(q)
      BY <1>0, <2>1 DEF Inside
    <3> QED BY <3>1, OthersSure DEF Sole
  <2> QED BY <1>0, <2>1, LockedSure DEF Sole
<1>5. \A q \in Req : Regular(q)' => q = r
  BY <1>0, OneRegular DEF Regular, Inside
<1> QED BY <1>1, <1>2, <1>3, <1>4, <1>5 DEF Sole, GoesOn

\* A step beside the lock: no sandbox is given or started, one that died may lose its
\* binding, and whoever works under the lock goes on as before, or has just taken it.
Alike(q) ==
    /\ op'[q].pc = op[q].pc /\ op'[q].saw = op[q].saw /\ op'[q].box = op[q].box
    /\ op'[q].made = op[q].made /\ op'[q].cands = op[q].cands /\ op'[q].lapsed = op[q].lapsed
Fresh(q) == op'[q].pc = "look" /\ op'[q].box = None /\ ~op'[q].made /\ ~op'[q].lapsed
BesideSole ==
    /\ \A b \in Box : cloud'[b] = "live" => cloud[b] \in {"live", "starting"}
    /\ \A b \in Box : Given(b)' => Given(b)
    /\ bound' = bound \/ (bound' = None /\ ~Live(bound))
    /\ faults'["lapse"] = faults["lapse"]
    /\ \A q \in Req : op'[q].lapsed => op[q].lapsed /\ op'[q].pc = op[q].pc /\ owner' # q
    /\ \A q \in Req : Inside(q)' => (Inside(q) /\ Alike(q)) \/ Fresh(q)

LEMMA BesideKeepsSole ==
    ASSUME Base, Sole, BesideSole
    PROVE  Sole'
<1>0. \A q \in Req : op[q].saw \in Box \cup {None} /\ op[q].box \in Box \cup {None}
  BY DEF Base, Inv, TypeOK, Op
<1>1. \A q \in Req : \A b \in {op[q].saw, op[q].box} :
         b # None /\ cloud'[b] = "live" => b \in Box /\ cloud[b] = "live"
  BY <1>0 DEF BesideSole, Base, StartedInv, Started, Ahead
<1>2. Past => Past'
  BY DEF BesideSole, Past
<1>3. \A b \in Box : Live(b) /\ Sound(b) => Sound(b)'
  BY <1>2 DEF BesideSole, Sound
<1>4. bound = None => bound' = None
  BY DEF BesideSole
<1>5. Apart'
  BY DEF BesideSole, Sole, Apart
<1>6. \A b \in Box : Given(b)' => Given(b) /\ Live(b) /\ Sound(b)'
  BY <1>3 DEF BesideSole, Sole, GivenOne, Given
<1>7. GivenOne'
  BY <1>6 DEF Sole, GivenOne
<1>8. ASSUME NEW q \in Req, Inside(q), Alike(q)
      PROVE  /\ Sure(q) => Sure(q)'
             /\ Finds(q) => Finds(q)'
             /\ \A b \in Box : Meets(q, b) => Meets(q, b)'
  <2>1. Sure(q) => Sure(q)'
    BY <1>0, <1>1, <1>8 DEF Sure, Alike, Live
  <2>2. Finds(q) => Finds(q)'
    BY <1>0, <1>1, <1>3, <1>8 DEF Finds, Alike, Live
  <2>3. \A b \in Box : Meets(q, b) => Meets(q, b)'
    BY <1>0, <1>1, <1>4, <1>8 DEF Meets, Alike, Live
  <2> QED BY <2>1, <2>2, <2>3
<1>9. ASSUME NEW q \in Req, Fresh(q)
      PROVE  Sure(q)' /\ Finds(q)' /\ \A b \in Box : Meets(q, b)'
  BY <1>9 DEF Fresh, Sure, Finds, Meets
<1>10. \A q \in Req : Inside(q)' => Sure(q)'
  BY <1>8, <1>9 DEF BesideSole, Sole
<1>11. ASSUME NEW q \in Req, Regular(q)'
       PROVE  Finds(q)' /\ \A b \in Box : Given(b)' => Meets(q, b)'
  <2>1. CASE Fresh(q)
    BY <1>9, <2>1
  <2>2. CASE Inside(q) /\ Alike(q)
    <3>1. Regular(q)
      BY <1>11, <2>2 DEF Regular, Alike
    <3> QED BY <1>6, <1>8, <2>2, <3>1 DEF Sole
  <2>3. Fresh(q) \/ (Inside(q) /\ Alike(q))
    BY <1>11 DEF BesideSole, Regular
  <2> QED BY <2>1, <2>2, <2>3
<1> QED BY <1>5, <1>7, <1>10, <1>11 DEF Sole

LEMMA OuterSole ==
    ASSUME Base, Sole, NEW r \in Req, Outer(r), ~Release(r), ~Lapse(r), faults'["lapse"] = faults["lapse"]
    PROVE  BesideSole
<1>0. /\ Inv /\ op \in [Req -> Op] /\ \A q \in Req \ {r} : op'[q] = op[q]
      /\ None \notin Req
  BY OuterOthers, ConstantsAreSound DEF Base, Inv, TypeOK, None
<1>1. cloud' = cloud
  BY DEF Outer, Acquire, GiveUp, DeleteRow, LeaseExpires, Arrive, Cancel, RenewalFails, Crash,
     DropBoundSandbox, StartWork
<1>2. bound' = bound \/ (bound' = None /\ ~Live(bound))
  BY DEF Outer, Acquire, GiveUp, DeleteRow, LeaseExpires, Arrive, Cancel, RenewalFails, Crash,
     DropBoundSandbox, StartWork, Unbind, bindVars
<1>3. owner' \in {owner, None} \/ (owner' = r /\ op[r].pc = "lock")
  BY DEF Outer, Acquire, GiveUp, DeleteRow, LeaseExpires, Arrive, Cancel, RenewalFails, Crash,
     DropBoundSandbox, StartWork, At
<1>4. /\ op'[r].out \in {op[r].out, None}
      /\ op'[r].lapsed => op[r].lapsed /\ op'[r].pc = op[r].pc
      /\ Inside(r)' => (Inside(r) /\ Alike(r)) \/ Fresh(r)
  <2>1. CASE Acquire(r)
    <3>1. /\ op[r].pc = "lock" /\ op'[r].pc = "look" /\ op'[r].out = op[r].out /\ op'[r].box = op[r].box
          /\ op'[r].made = op[r].made /\ op'[r].lapsed = op[r].lapsed
      BY <1>0, <2>1 DEF Acquire, Go, At, Op
    <3>2. op[r].box = None /\ ~op[r].made /\ ~op[r].lapsed
      BY <3>1 DEF Base, IdleInv, Outside
    <3> QED BY <3>1, <3>2 DEF Fresh
  <2>2. CASE DeleteRow(r)
    <3>1. op'[r].pc = "end" /\ op'[r].out = op[r].out /\ op'[r].lapsed = op[r].lapsed /\ op[r].pc = "row"
      BY <1>0, <2>2 DEF DeleteRow, Go, At, Op
    <3>2. ~op[r].lapsed
      BY <3>1 DEF Base, IdleInv, Outside
    <3> QED BY <3>1, <3>2 DEF Inside, Outside
  <2>3. CASE GiveUp(r) \/ Crash(r)
    BY <1>0, <2>3, EndShape DEF GiveUp, Crash, Rests, Inside, Outside
  <2>4. CASE Arrive(r)
    <3>1. op'[r].pc = "lock" /\ op'[r].out = op[r].out /\ op'[r].lapsed = op[r].lapsed /\ op[r].pc = "new"
      BY <1>0, <2>4, ArriveShape
    <3>2. ~op[r].lapsed
      BY <3>1 DEF Base, IdleInv, Outside
    <3> QED BY <3>1, <3>2 DEF Inside, Outside
  <2>5. CASE Cancel(r) \/ RenewalFails(r)
    <3>1. Alike(r) /\ op'[r].out = op[r].out
      BY <1>0, <2>5 DEF Cancel, RenewalFails, Alike, Op
    <3> QED BY <3>1 DEF Alike, Inside
  <2>6. CASE LeaseExpires(r) \/ DropBoundSandbox(r) \/ StartWork(r)
    BY <2>6 DEF LeaseExpires, DropBoundSandbox, StartWork, Alike, Inside
  <2> QED BY <2>1, <2>2, <2>3, <2>4, <2>5, <2>6 DEF Outer
<1>5. \A b \in Box : Given(b)' => Given(b)
  <2>1. \A q \in Req : op'[q].out \in {op[q].out, None}
    BY <1>0, <1>4
  <2> QED BY <1>1, <2>1 DEF Given, Live
<1>6. \A q \in Req : op'[q].lapsed => op[q].lapsed /\ op'[q].pc = op[q].pc /\ owner' # q
  <2>1. ASSUME NEW q \in Req, op'[q].lapsed PROVE op[q].lapsed /\ op'[q].pc = op[q].pc /\ owner' # q
    <3>1. op[q].lapsed /\ op'[q].pc = op[q].pc
      BY <1>0, <1>4, <2>1
    <3>2. op[q].pc # "lock"
      BY <3>1 DEF Base, IdleInv, Outside
    <3>3. owner # q
      BY <3>1 DEF Sole, Apart
    <3> QED BY <1>0, <1>3, <3>1, <3>2, <3>3
  <2> QED BY <2>1
<1>7. \A q \in Req : Inside(q)' => (Inside(q) /\ Alike(q)) \/ Fresh(q)
  BY <1>0, <1>4 DEF Inside, Alike
<1> QED BY <1>1, <1>2, <1>5, <1>6, <1>7 DEF BesideSole

LEMMA AroundSole ==
    ASSUME Base, Sole, Around, faults'["lapse"] = faults["lapse"]
    PROVE  BesideSole
<1>0. Inv /\ op \in [Req -> Op]
  BY DEF Base, Inv, TypeOK
<1>1. \A b \in Box : cloud'[b] = "live" => cloud[b] \in {"live", "starting"}
  BY AroundBeside DEF Beside
<1>2. bound' = bound /\ owner' = owner /\ \A q \in Req : Stays(q)
  BY <1>0, AroundStays
<1>3. \A b \in Box : Given(b)' => Given(b)
  <2>1. ASSUME NEW b \in Box, Given(b)' PROVE Given(b)
    <3>1. b # None /\ cloud'[b] = "live"
      BY <2>1 DEF Given, Live
    <3>2. \E q \in Req : op[q].out = b
      BY <1>2, <2>1, <3>1 DEF Given, Stays
    <3>3. cloud[b] = "live"
      BY <1>1, <3>1, <3>2 DEF Base, StartedInv, Started, Ahead
    <3> QED BY <3>1, <3>2, <3>3 DEF Given, Live
  <2> QED BY <2>1
<1>4. \A q \in Req : op'[q].lapsed => op[q].lapsed /\ op'[q].pc = op[q].pc /\ owner' # q
  BY <1>2 DEF Stays, Sole, Apart
<1>5. ASSUME NEW q \in Req, Inside(q)' PROVE Inside(q) /\ Alike(q)
  <2>1. Inside(q)
    BY <1>2, <1>5 DEF Stays, Inside
  <2>2. op'[q] = op[q]
    <3>1. CASE \E t \in Turn : EndTurn(t)
      BY <1>0, <2>1, <3>1, EndTurnShape DEF Inside, Outside
    <3>2. CASE ~\E t \in Turn : EndTurn(t)
      BY <3>2 DEF Around, BeginTurn, BoxComesUp, BoxDies, InvalidateByConfig, TurnLeaseExpires, EndWork, vars
    <3> QED BY <3>1, <3>2
  <2> QED BY <2>1, <2>2 DEF Alike
<1> QED BY <1>1, <1>2, <1>3, <1>4, <1>5 DEF BesideSole

\* The result of the holder is the sandbox that the others have.
LEMMA ReleaseSole ==
    ASSUME Base, Sole, NEW r \in Req, Release(r), faults'["lapse"] = faults["lapse"]
    PROVE  Sole'
<1>0. Inv /\ op \in [Req -> Op]
  BY DEF Base, Inv, TypeOK
<1>1. PICK pc \in {"row", "end"}, b \in {op[r].box, None} :
             /\ Rests(r, pc, op[r].turn, b)
             /\ b # None => op[r].pc = "done" /\ op[r].kind = "resolve" /\ owner = r /\ op[r].ctx = "on"
  BY <1>0, ReleaseShape
<1>2. /\ op'[r].pc = pc /\ op'[r].out = b /\ ~op'[r].lapsed /\ op[r].pc \in {"done", "fail"}
      /\ \A q \in Req \ {r} : op'[q] = op[q]
  BY <1>1 DEF Rests, Release
<1>3. cloud' = cloud /\ bound' = bound /\ owner' \in {owner, None} /\ None \notin Req
  BY ConstantsAreSound DEF Release, Freed, bindVars, None
<1>4. \A q \in Req : op'[q].lapsed => op[q].lapsed /\ op'[q].pc = op[q].pc /\ owner' # q
  BY <1>2, <1>3 DEF Sole, Apart
<1>5. ~Inside(r)' /\ \A q \in Req \ {r} : Inside(q)' => Inside(q) /\ Alike(q)
  BY <1>2 DEF Inside, Outside, Alike
<1>6. CASE b = None
  <2>1. \A c \in Box : Given(c)' => Given(c)
    <3>1. \A q \in Req : op'[q].out \in {op[q].out, None}
      BY <1>2, <1>6
    <3> QED BY <1>3, <3>1 DEF Given, Live
  <2>2. BesideSole
    BY <1>3, <1>4, <1>5, <2>1 DEF BesideSole
  <2> QED BY <2>2, BesideKeepsSole
<1>7. CASE b # None
  <2>1. op[r].pc = "done" /\ owner = r /\ b = op[r].box
    BY <1>1, <1>7
  <2>2. Regular(r)
    BY <2>1 DEF Regular, Inside, Outside, Sole, Apart
  <2>3. \A q \in Req : Inside(q)' => Inside(q) /\ Sure(q) /\ op'[q] = op[q] /\ op[q].lapsed
    BY <1>2, <1>5, <2>2, OneRegular DEF Sole
  <2>4. /\ Live(b) => Sound(b)
        /\ \A c \in Box : Given(c) => c = b \/ ~Live(b)
    BY <2>1, <2>2 DEF Sole, Finds, Meets
  <2>5. \A c \in Box : Given(c)' => Live(c) /\ (Given(c) \/ c = b)
    <3>1. \A q \in Req : op'[q].out \in {op[q].out, b}
      BY <1>2
    <3> QED BY <1>3, <3>1 DEF Given, Live
  <2>6. Past => Past'
    BY <1>4 DEF Past
  <2>7. GivenOne'
    <3>1. \A c \in Box : Given(c)' => Sound(c)
      BY <2>4, <2>5 DEF Sole, GivenOne
    <3>2. \A c, d \in Box : Given(c)' /\ Given(d)' => c = d
      BY <2>4, <2>5 DEF Sole, GivenOne
    <3> QED BY <1>3, <2>6, <3>1, <3>2 DEF GivenOne, Sound
  <2>8. Apart'
    BY <1>4 DEF Sole, Apart
  <2>9. \A q \in Req : Inside(q)' => Sure(q)' /\ ~Regular(q)'
    BY <1>3, <2>3 DEF Sure, Regular, Live
  <2> QED BY <2>7, <2>8, <2>9 DEF Sole, Regular
<1> QED BY <1>6, <1>7

\* The first lock that lapses leaves every sandbox bound.
LEMMA LapseSole ==
    ASSUME Base, Sole, NEW r \in Req, Lapse(r), Once'
    PROVE  Sole'
<1>0. Inv /\ op \in [Req -> Op] /\ faults \in [Kind -> Nat] /\ "lapse" \in Kind /\ None \notin Req
  BY ConstantsAreSound DEF Base, Inv, TypeOK, Kind, None
<1>1. faults["lapse"] = 0
  <2>1. faults'["lapse"] = faults["lapse"] + 1
    BY <1>0 DEF Lapse, Fault
  <2> QED BY <1>0, <2>1 DEF Once
<1>2. \A q \in Req : ~op[q].lapsed
  BY <1>1 DEF Base, LapseCounted
<1>3. /\ cloud' = cloud /\ bound' = bound /\ owner' = None /\ owner = r /\ Inside(r)
      /\ op' = [op EXCEPT ![r].lapsed = TRUE]
  BY DEF Lapse, bindVars
<1>4. /\ op'[r].pc = op[r].pc /\ op'[r].saw = op[r].saw /\ op'[r].box = op[r].box /\ op'[r].made = op[r].made
      /\ op'[r].out = op[r].out /\ op'[r].lapsed = TRUE /\ \A q \in Req \ {r} : op'[q] = op[q]
  BY <1>0, <1>3 DEF Op
<1>5. \A q \in Req \ {r} : ~Inside(q)'
  <2>1. Regular(r)
    BY <1>2, <1>3 DEF Regular
  <2> QED BY <1>2, <1>4, <2>1, OneRegular DEF Inside
<1>6. Apart'
  BY <1>0, <1>2, <1>3, <1>4 DEF Apart
<1>7. \A b \in Box : Given(b)' => Given(b)
  <2>1. \A q \in Req : op'[q].out = op[q].out
    BY <1>4
  <2> QED BY <1>3, <2>1 DEF Given, Live
<1>8. \A b \in Box : Sound(b) => Sound(b)'
  BY <1>1, <1>3 DEF Sound, Past
<1>9. GivenOne'
  BY <1>7, <1>8 DEF Sole, GivenOne
<1>10. Sure(r)'
  BY <1>3, <1>4 DEF Sole, Sure, Live
<1> QED BY <1>4, <1>5, <1>6, <1>9, <1>10 DEF Sole, Regular

LEMMA SoleStep ==
    ASSUME Base, SoleInv, [Next]_vars
    PROVE  SoleInv'
<1> SUFFICES ASSUME Once' PROVE Sole'
  BY DEF SoleInv
<1>0. Inv /\ Once /\ Sole
  BY OnceBefore DEF Base, SoleInv
<1>1. CASE \E r \in Req : Lapse(r)
  BY <1>0, <1>1, LapseSole
<1>2. CASE faults'["lapse"] = faults["lapse"]
  <2>1. ASSUME NEW r \in Req, Locked(r) PROVE Sole'
    <3>1. Inside(r)
      BY <1>0, <2>1, LockedStays DEF Inside
    <3> QED BY <1>0, <1>2, <2>1, <3>1, LapsedSole, RegularSole DEF Regular
  <2>2. ASSUME NEW r \in Req, Outer(r) PROVE Sole'
    BY <1>0, <1>1, <1>2, <2>2, OuterSole, BesideKeepsSole, ReleaseSole
  <2>3. CASE Around
    BY <1>0, <1>2, <2>3, AroundSole, BesideKeepsSole
  <2> QED BY <2>1, <2>2, <2>3, NextCases
<1> QED BY <1>0, <1>1, <1>2, LapseCases

LEMMA SoleInit == Init => SoleInv
<1> SUFFICES ASSUME Init PROVE Sole
  BY DEF SoleInv
<1>1. \A r \in Req : op[r].pc = "new" /\ op[r].out = None /\ ~op[r].lapsed
  BY DEF Init, NewOp
<1>2. \A b \in Box : ~Given(b)
  BY <1>1 DEF Given, Live
<1> QED BY <1>1, <1>2 DEF Sole, Apart, GivenOne, Regular, Inside, Outside

\* Resolve with its lock, SET NX of the binding, the compare-and-delete of a rollback and
\* LoseBinding: as long as at most one lock lapses, all requests that hold a sandbox that
\* lives hold the same one, whatever calls fail, processes die and renewals come late.
THEOREM OneSandboxAlways == Spec => []OneSandbox
<1>1. SoleInv /\ Base => OneSandbox
  <2> SUFFICES ASSUME SoleInv, Base, ~(faults["lapse"] > 1), NEW r \in Req, NEW q \in Req,
                      Live(op[r].out), Live(op[q].out)
               PROVE  op[r].out = op[q].out
    BY DEF OneSandbox
  <2>1. "lapse" \in Kind /\ faults["lapse"] \in Nat
    BY DEF Base, Inv, TypeOK, Kind
  <2>2. Once
    BY <2>1 DEF Once
  <2>3. op[r].out \in Box /\ op[q].out \in Box
    BY DEF Base, Inv, TypeOK, Op, Live
  <2>4. Given(op[r].out) /\ Given(op[q].out)
    BY DEF Given
  <2> QED BY <2>2, <2>3, <2>4 DEF SoleInv, Sole, GivenOne
<1>2. Base /\ SoleInv /\ [Next]_vars => SoleInv'
  BY SoleStep
<1> QED BY <1>1, <1>2, SoleInit, HeldAlways, PTL DEF Spec
=============================================================================
