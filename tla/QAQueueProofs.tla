---------------------------- MODULE QAQueueProofs ----------------------------
(* Theorems about QAQueue, for any number of questions, users and instances. *)
EXTENDS QAQueue, FiniteSetTheorems, SequenceTheorems, TLAPS

TypeInv ==
    /\ st \in [Request -> States]
    /\ who \in [Request -> User \cup {None}] /\ at \in [Request -> Instance \cup {None}]
    /\ gone \subseteq Request
    /\ queue \in [Instance -> Seq(Request)]
    /\ inflight \in [Instance -> [User -> Request \cup {None}]]
    /\ userCount \in [User -> Int] /\ gate \in Int
    /\ cuts \in Nat /\ faults \in Nat
    /\ \A q \in Request : st[q] # "new" => who[q] \in User /\ at[q] \in Instance

\* A queue holds queued requests of its instance, none of them twice.
QueueInv ==
    \A i \in Instance :
        /\ \A n \in 1..Len(queue[i]) : st[queue[i][n]] = "queued" /\ at[queue[i][n]] = i
        /\ \A m, n \in 1..Len(queue[i]) : m # n => queue[i][m] # queue[i][n]

\* An entry for /stop belongs to a running request.
FlightInv ==
    \A i \in Instance, u \in User :
        inflight[i][u] # None =>
            /\ st[inflight[i][u]] = "running"
            /\ at[inflight[i][u]] = i /\ who[inflight[i][u]] = u

\* Only requests that got past the gate are cancelled, unless a connection closes.
GoneInv == faults = 0 /\ cuts = 0 => \A q \in gone : st[q] \in {"running", "degate", "leave"}

NonOver(u) == {q \in Owes(u) : st[q] # "over"}

SlotInv ==
    faults = 0 =>
        \A u \in User : /\ userCount[u] = Cardinality(Owes(u))
                        /\ Cardinality(NonOver(u)) <= MaxPerUser

GateInv == faults = 0 /\ cuts = 0 => gate = Cardinality(Holders) /\ gate <= GlobalMax

Inv == TypeInv /\ QueueInv /\ FlightInv /\ GoneInv /\ SlotInv /\ GateInv

-----------------------------------------------------------------------------
(* Sequences and finite sets.                                              *)

LEMMA TailFacts ==
    ASSUME NEW s \in Seq(Request), s # <<>>
    PROVE  /\ Head(s) = s[1] /\ 1 \in 1..Len(s)
           /\ Tail(s) \in Seq(Request)
           /\ \A n \in 1..Len(Tail(s)) : n + 1 \in 1..Len(s) /\ Tail(s)[n] = s[n + 1]
  OBVIOUS

LEMMA AppendFacts ==
    ASSUME NEW s \in Seq(Request), NEW q \in Request
    PROVE  /\ Append(s, q) \in Seq(Request)
           /\ \A n \in 1..Len(Append(s, q)) :
                  n \in Nat /\ Append(s, q)[n] = IF n \in 1..Len(s) THEN s[n] ELSE q
           /\ \A n \in 1..Len(Append(s, q)) : n \notin 1..Len(s) => n = Len(s) + 1
  OBVIOUS

\* Without(s, n) is s with a gap closed.
LEMMA WithoutFacts ==
    ASSUME NEW s \in Seq(Request), NEW n \in 1..Len(s)
    PROVE  /\ Without(s, n) \in Seq(Request)
           /\ Len(Without(s, n)) = Len(s) - 1
           /\ \A k \in 1..(Len(s) - 1) :
                  Without(s, n)[k] = IF k < n THEN s[k] ELSE s[k + 1]
<1> DEFINE a == SubSeq(s, 1, n - 1)
           b == SubSeq(s, n + 1, Len(s))
<1>1. a \in Seq(Request) /\ Len(a) = n - 1 /\ \A k \in 1..(n - 1) : a[k] = s[k]
  BY SubSeqProperties
<1>2. b \in Seq(Request) /\ Len(b) = Len(s) - n /\ \A k \in 1..(Len(s) - n) : b[k] = s[n + k]
  BY SubSeqProperties
<1> HIDE DEF a, b
<1>3. /\ a \o b \in Seq(Request) /\ Len(a \o b) = Len(a) + Len(b)
      /\ \A k \in 1..(Len(a) + Len(b)) : (a \o b)[k] = IF k <= Len(a) THEN a[k] ELSE b[k - Len(a)]
  BY <1>1, <1>2, ConcatProperties
<1>4. Len(a) + Len(b) = Len(s) - 1
  BY <1>1, <1>2
<1>5. ASSUME NEW k \in 1..(Len(s) - 1)
      PROVE  (a \o b)[k] = IF k < n THEN s[k] ELSE s[k + 1]
  <2>1. CASE k < n
    BY <2>1, <1>1, <1>3, <1>4
  <2>2. CASE ~(k < n)
    <3>1. k - Len(a) \in 1..(Len(s) - n) /\ n + (k - Len(a)) = k + 1
      BY <2>2, <1>1
    <3>2. (a \o b)[k] = b[k - Len(a)]
      BY <2>2, <1>1, <1>3, <1>4
    <3> QED BY <2>2, <3>1, <3>2, <1>2
  <2> QED BY <2>1, <2>2
<1> QED BY <1>3, <1>4, <1>5 DEF a, b, Without

\* What the counters are compared with are numbers.
LEMMA SetsAreFinite ==
    /\ \A u : IsFiniteSet(Owes(u)) /\ Cardinality(Owes(u)) \in Nat
    /\ \A u : IsFiniteSet(NonOver(u)) /\ Cardinality(NonOver(u)) \in Nat
    /\ IsFiniteSet(Holders) /\ Cardinality(Holders) \in Nat
<1>1. Holders \subseteq Request /\ \A u : Owes(u) \subseteq Request /\ NonOver(u) \subseteq Request
  BY DEF Holders, Owes, NonOver, Of
<1> QED BY <1>1, QueueAssumption, FS_Subset, FS_CardinalityType

-----------------------------------------------------------------------------
(* The steps, grouped by what they do to the request's place.              *)

\* Steps that move one request that holds a slot of its user to another place
\* where it still holds it.
Moves(q, l) ==
    /\ q \in Request /\ st[q] \in Counted \ {"over"} /\ l \in Counted \ {"over"}
    /\ st' = [st EXCEPT ![q] = l]
    /\ UNCHANGED <<request, userCount>>

Stays == UNCHANGED <<st, request, userCount>>

LEMMA StepShapes ==
    ASSUME TypeInv, QueueInv, Next
    PROVE  \/ \E q \in Request, u \in User, i \in Instance : Arrive(q, u, i)
           \/ \E q \in Request : st[q] \in Counted /\ GivesBack(q)
           \/ \E q, l : Moves(q, l)
           \/ Stays
           \/ \E i \in Instance : Crash(i)
           \/ \E u \in User : ExpireUser(u)
<1>1. ASSUME NEW q \in Request, CallerStep(q) \/ WorkerStep(q)
      PROVE  (\E l : Moves(q, l)) \/ (st[q] \in Counted /\ GivesBack(q))
  <2>1. CASE Refuse(q) \/ Release(q) \/ Leave(q)
    BY <2>1 DEF Refuse, Release, Leave, Counted
  <2>2. CASE Enqueue(q)
    <3>1. \E l \in {"release", "queued"} : Moves(q, l)
      BY <2>2 DEF Enqueue, Goto, Moves, Counted, redis, request
    <3> QED BY <3>1
  <2>3. CASE Discard(q) \/ GiveUp(q) \/ FreeGate(q)
    <3>1. Moves(q, "leave")
      BY <2>3 DEF Discard, GiveUp, FreeGate, Goto, Moves, Counted, redis, request
    <3> QED BY <3>1
  <2>4. CASE Wait(q)
    <3>1. Moves(q, "waiting")
      BY <2>4 DEF Wait, Goto, Moves, Counted, redis, request
    <3> QED BY <3>1
  <2>5. CASE Finish(q)
    <3>1. Moves(q, "degate")
      BY <2>5 DEF Finish, Goto, Moves, Counted, redis, request
    <3> QED BY <3>1
  <2>6. CASE Acquire(q)
    <3>1. Starts(q)
      BY <2>6 DEF Acquire
    <3>2. \E l \in {"degate", "running"} : st' = [st EXCEPT ![q] = l]
      BY <3>1 DEF Starts, Goto
    <3>3. \E l \in {"degate", "running"} : Moves(q, l)
      BY <2>6, <3>2 DEF Acquire, Moves, Counted
    <3> QED BY <3>3
  <2> QED BY <1>1, <2>1, <2>2, <2>3, <2>4, <2>5, <2>6 DEF CallerStep, WorkerStep
<1>2. ASSUME NEW i \in Instance, Dequeue(i)
      PROVE  \E q \in Request : Moves(q, "taken")
  <2>1. queue[i] \in Seq(Request) /\ queue[i] # <<>>
    BY <1>2 DEF Dequeue, TypeInv
  <2>2. Head(queue[i]) \in Request /\ st[Head(queue[i])] = "queued"
    BY <2>1, TailFacts DEF QueueInv
  <2>3. Moves(Head(queue[i]), "taken")
    BY <1>2, <2>2 DEF Dequeue, Goto, Moves, Counted, redis, request
  <2> QED BY <2>2, <2>3
<1>3. ASSUME NEW u \in User, NEW i \in Instance, Stop(u, i)
      PROVE  Stays \/ (\E q \in Request : Moves(q, "release"))
  <2>1. ASSUME NEW n \in Oldest(u, queue[i]), Goto(queue[i][n], "release")
        PROVE  \E q \in Request : Moves(q, "release")
    <3>1. queue[i] \in Seq(Request) /\ n \in 1..Len(queue[i])
      BY DEF Oldest, TypeInv
    <3>2. queue[i][n] \in Request /\ st[queue[i][n]] = "queued"
      BY <3>1 DEF QueueInv
    <3>3. Moves(queue[i][n], "release")
      BY <1>3, <2>1, <3>2 DEF Stop, Goto, Moves, Counted
    <3> QED BY <3>2, <3>3
  <2> QED BY <1>3, <2>1 DEF Stop, Stays
<1>4. ASSUME NEW i \in Instance, Disconnect(i) \/ Close(i)
      PROVE  Stays
  BY <1>4 DEF Disconnect, Close, Stays, redis
<1>5. ASSUME NEW u \in User, ForgetStop(u)
      PROVE  Stays
  BY <1>5 DEF ForgetStop, Stays
<1>6. ExpireGate => Stays
  BY DEF ExpireGate, Stays
<1> QED BY <1>1, <1>2, <1>3, <1>4, <1>5, <1>6 DEF Next

-----------------------------------------------------------------------------
(* Faults and closed connections are only ever added.                      *)

LEMMA FaultStep ==
    ASSUME TypeInv, Fault
    PROVE  faults' \in Nat /\ faults' > faults
  BY DEF Fault, TypeInv

LEMMA GivesBackFaults ==
    ASSUME TypeInv, NEW q \in Request, GivesBack(q)
    PROVE  /\ cuts' = cuts /\ faults' \in Nat /\ faults' >= faults
           /\ Counts(who[q], -1) \/ faults' > faults
  BY FaultStep DEF GivesBack, TypeInv

LEMMA BoundsGrow ==
    ASSUME TypeInv, Next
    PROVE  /\ faults' \in Nat /\ faults' >= faults
           /\ cuts' \in Nat /\ cuts' >= cuts
<1> USE DEF TypeInv
<1>1. ASSUME NEW q \in Request, CallerStep(q) \/ WorkerStep(q)
      PROVE  cuts' = cuts /\ faults' \in Nat /\ faults' >= faults
  <2>1. CASE Refuse(q) \/ Release(q) \/ Leave(q)
    BY <2>1, GivesBackFaults DEF Refuse, Release, Leave
  <2>2. CASE Enqueue(q) \/ Discard(q) \/ Wait(q) \/ GiveUp(q) \/ Finish(q)
    BY <2>2 DEF Enqueue, Discard, Wait, GiveUp, Finish
  <2>3. CASE Acquire(q) \/ FreeGate(q)
    BY <2>3, FaultStep DEF Acquire, FreeGate
  <2> QED BY <1>1, <2>1, <2>2, <2>3 DEF CallerStep, WorkerStep
<1>2. ASSUME NEW q \in Request, NEW u \in User, NEW i \in Instance, Arrive(q, u, i)
      PROVE  cuts' = cuts /\ faults' \in Nat /\ faults' >= faults
  BY <1>2, FaultStep DEF Arrive
<1>3. ASSUME NEW i \in Instance, Dequeue(i) \/ Close(i) \/ Crash(i)
      PROVE  cuts' = cuts /\ faults' \in Nat /\ faults' >= faults
  BY <1>3, FaultStep DEF Dequeue, Close, Crash
<1>4. ASSUME NEW i \in Instance, Disconnect(i)
      PROVE  cuts' \in Nat /\ cuts' > cuts /\ faults' = faults
  BY <1>4 DEF Disconnect
<1>5. ASSUME NEW u \in User, ForgetStop(u) \/ ExpireUser(u) \/ \E i \in Instance : Stop(u, i)
      PROVE  cuts' = cuts /\ faults' \in Nat /\ faults' >= faults
  BY <1>5, FaultStep DEF ForgetStop, ExpireUser, Stop
<1>6. ExpireGate /\ Fault => cuts' = cuts /\ faults' \in Nat /\ faults' >= faults
  BY FaultStep DEF ExpireGate
<1> QED BY <1>1, <1>2, <1>3, <1>4, <1>5, <1>6 DEF Next

-----------------------------------------------------------------------------
(* The user counters.                                                      *)

LEMMA MovesKeepSlots ==
    ASSUME TypeInv, NEW q, NEW l, Moves(q, l) \/ Stays, NEW u
    PROVE  Owes(u)' = Owes(u) /\ NonOver(u)' = NonOver(u)
  BY DEF Moves, Stays, Owes, NonOver, Of, Counted, request, TypeInv

\* A request that gives its slot back leaves its user's set, and no other.
LEMMA GivesBackSlots ==
    ASSUME TypeInv, NEW q \in Request, st[q] \in Counted, GivesBack(q), NEW u \in User
    PROVE  /\ Owes(u)' = Owes(u) \ {q} /\ NonOver(u)' \subseteq NonOver(u)
           /\ q \in Owes(u) <=> u = who[q]
  BY DEF GivesBack, Goto, Owes, NonOver, Of, Counted, request, TypeInv

LEMMA GivesBackSlotInv ==
    ASSUME TypeInv, SlotInv, NEW q \in Request, st[q] \in Counted, GivesBack(q),
           faults' = 0, NEW u \in User
    PROVE  userCount'[u] = Cardinality(Owes(u)') /\ Cardinality(NonOver(u)') <= MaxPerUser
<1>1. faults = 0 /\ Counts(who[q], -1)
  BY GivesBackFaults DEF TypeInv
<1>2. userCount'[u] = IF u = who[q] THEN userCount[u] - 1 ELSE userCount[u]
  BY <1>1 DEF Counts, TypeInv
<1>3. Cardinality(Owes(u)') = IF u = who[q] THEN Cardinality(Owes(u)) - 1 ELSE Cardinality(Owes(u))
  BY GivesBackSlots, SetsAreFinite, FS_RemoveElement
<1>4. NonOver(u)' \in SUBSET NonOver(u)
  BY GivesBackSlots
<1>5. Cardinality(NonOver(u)') <= Cardinality(NonOver(u)) /\ Cardinality(NonOver(u)') \in Nat
  BY <1>4, SetsAreFinite, FS_Subset, FS_CardinalityType
<1>6. MaxPerUser \in Nat
  BY QueueAssumption
<1> QED BY <1>1, <1>2, <1>3, <1>5, <1>6, SetsAreFinite DEF SlotInv

LEMMA ArriveSlotInv ==
    ASSUME TypeInv, SlotInv, NEW q \in Request, NEW v \in User, NEW i \in Instance,
           Arrive(q, v, i), faults' = 0, NEW u \in User
    PROVE  userCount'[u] = Cardinality(Owes(u)') /\ Cardinality(NonOver(u)') <= MaxPerUser
<1> DEFINE l == IF userCount[v] + 1 > MaxPerUser THEN "over" ELSE "counted"
<1>1. faults = 0 /\ Counts(v, 1) /\ Goto(q, l)
  BY FaultStep DEF Arrive, TypeInv
<1>2. userCount'[u] = IF u = v THEN userCount[u] + 1 ELSE userCount[u]
  BY <1>1 DEF Counts, TypeInv
<1>3. st[q] = "new" /\ st' = [st EXCEPT ![q] = l] /\ who' = [who EXCEPT ![q] = v]
  BY <1>1 DEF Arrive, Goto
<1>4. l \in Counted /\ "new" \notin Counted
  BY DEF Counted
<1>5. q \notin Owes(u) /\ Owes(u)' = IF u = v THEN Owes(u) \cup {q} ELSE Owes(u)
  BY <1>3, <1>4 DEF Owes, Of, TypeInv
<1>6. Cardinality(Owes(u)') = IF u = v THEN Cardinality(Owes(u)) + 1 ELSE Cardinality(Owes(u))
  BY <1>5, SetsAreFinite, FS_AddElement
<1>7. userCount'[u] = Cardinality(Owes(u)') /\ userCount[u] = Cardinality(Owes(u))
  BY <1>1, <1>2, <1>6 DEF SlotInv
<1>8. MaxPerUser \in Nat
  BY QueueAssumption
<1>9. CASE u = v /\ l = "counted"
  <2>1. userCount[v] + 1 <= MaxPerUser
    BY <1>8, <1>9 DEF TypeInv
  <2>2. NonOver(u)' \in SUBSET (Owes(u)') /\ IsFiniteSet(Owes(u)')
    BY <1>5, SetsAreFinite, FS_AddElement DEF NonOver
  <2>3. Cardinality(NonOver(u)') <= Cardinality(Owes(u)') /\ Cardinality(NonOver(u)') \in Nat
    BY <2>2, FS_Subset, FS_CardinalityType
  <2> QED BY <2>1, <2>3, <1>6, <1>7, <1>8, <1>9, SetsAreFinite
<1>10. CASE ~(u = v /\ l = "counted")
  <2>1. u = v => l = "over"
    BY <1>10
  <2>2. NonOver(u)' = NonOver(u)
    BY <1>3, <1>4, <1>5, <2>1 DEF NonOver, TypeInv, Owes, Of
  <2> QED BY <1>1, <1>7, <2>2 DEF SlotInv
<1> QED BY <1>9, <1>10

\* While there was no fault a step that takes or gives back a slot also counts it.
LEMMA SlotStep ==
    ASSUME TypeInv, QueueInv, SlotInv, Next
    PROVE  SlotInv'
<1> SUFFICES ASSUME faults' = 0, NEW u \in User
             PROVE  userCount'[u] = Cardinality(Owes(u)') /\ Cardinality(NonOver(u)') <= MaxPerUser
  BY DEF SlotInv
<1>1. faults = 0
  BY BoundsGrow DEF TypeInv
<1>2. CASE \E q, l : Moves(q, l)
  <2>1. userCount' = userCount
    BY <1>2 DEF Moves
  <2> QED BY <1>1, <1>2, <2>1, MovesKeepSlots DEF SlotInv
<1>3. CASE Stays
  <2>1. userCount' = userCount
    BY <1>3 DEF Stays
  <2> QED BY <1>1, <1>3, <2>1, MovesKeepSlots DEF SlotInv
<1>4. ~(\E i \in Instance : Crash(i)) /\ ~(\E v \in User : ExpireUser(v))
  BY <1>1, FaultStep DEF Crash, ExpireUser
<1> QED BY <1>2, <1>3, <1>4, StepShapes, GivesBackSlotInv, ArriveSlotInv

-----------------------------------------------------------------------------
(* Types.                                                                  *)

LEMMA GivesBackType ==
    ASSUME TypeInv, NEW q \in Request, st[q] \in Counted, GivesBack(q)
    PROVE  TypeInv'
<1>1. who[q] \in User
  BY DEF TypeInv, Counted
<1>2. userCount' \in [User -> Int]
  BY <1>1 DEF GivesBack, Counts, TypeInv
<1>3. faults' \in Nat
  BY GivesBackFaults
<1> QED BY <1>2, <1>3 DEF GivesBack, Goto, TypeInv, States, Counted, request, local

LEMMA AcquireType ==
    ASSUME TypeInv, NEW q \in Request, Acquire(q)
    PROVE  TypeInv'
<1>1. Starts(q) /\ st[q] = "waiting"
  BY DEF Acquire
<1>2. who[q] \in User /\ at[q] \in Instance
  BY <1>1 DEF TypeInv
<1>3. /\ \E l \in {"degate", "running"} : st' = [st EXCEPT ![q] = l]
      /\ \E e \in {None, q} : inflight' = [inflight EXCEPT ![at[q]][who[q]] = e]
  BY <1>1 DEF Starts, Goto
<1>4. /\ st' \in [Request -> States]
      /\ \A p \in Request : st'[p] # "new" => st[p] # "new"
  BY <1>1, <1>3 DEF TypeInv, States, Counted
<1>5. inflight' \in [Instance -> [User -> Request \cup {None}]]
  BY <1>2, <1>3 DEF TypeInv
<1>6. faults' \in Nat /\ gate' \in Int
  BY FaultStep DEF Acquire, TypeInv
<1> QED BY <1>4, <1>5, <1>6 DEF Acquire, TypeInv, request

LEMMA StopType ==
    ASSUME TypeInv, QueueInv, NEW u \in User, NEW i \in Instance, Stop(u, i)
    PROVE  TypeInv'
<1>1. queue[i] \in Seq(Request)
  BY DEF TypeInv
<1>2. ASSUME NEW n \in Oldest(u, queue[i]),
             queue' = [queue EXCEPT ![i] = Without(@, n)],
             Goto(queue[i][n], "release"), UNCHANGED <<inflight, gone>>
      PROVE  TypeInv'
  <2>1. n \in 1..Len(queue[i]) /\ queue[i][n] \in Request
    BY <1>1 DEF Oldest
  <2>2. queue[i][n] \in Of(u) /\ st' = [st EXCEPT ![queue[i][n]] = "release"]
    BY <1>2 DEF Oldest, Goto
  <2>3. Without(queue[i], n) \in Seq(Request)
    BY <1>1, <2>1, WithoutFacts
  <2>4. queue' \in [Instance -> Seq(Request)]
    BY <1>2, <2>3 DEF TypeInv
  <2>5. /\ st' \in [Request -> States]
        /\ st[queue[i][n]] = "queued"
        /\ \A q \in Request : st'[q] # "new" => st[q] # "new"
    BY <2>1, <2>2 DEF QueueInv, TypeInv, States, Counted
  <2> QED BY <1>2, <2>1, <2>2, <2>4, <2>5 DEF Stop, TypeInv, request
<1>3. ASSUME gone' = gone \cup ({inflight[i][u]} \ {None}),
             inflight' = [inflight EXCEPT ![i][u] = None], UNCHANGED <<queue, st>>
      PROVE  TypeInv'
  <2>1. inflight' \in [Instance -> [User -> Request \cup {None}]] /\ gone' \subseteq Request
    BY <1>3 DEF TypeInv
  <2> QED BY <1>3, <2>1 DEF Stop, TypeInv, request
<1> QED BY <1>2, <1>3 DEF Stop

LEMMA TypeStep ==
    ASSUME TypeInv, QueueInv, Next
    PROVE  TypeInv'
<1>1. ASSUME NEW q \in Request, CallerStep(q) \/ WorkerStep(q)
      PROVE  TypeInv'
  <2>1. CASE Refuse(q) \/ Release(q) \/ Leave(q)
    BY <2>1, GivesBackType DEF Refuse, Release, Leave, Counted
  <2>2. CASE Enqueue(q)
    <3>1. at[q] \in Instance
      BY <2>2 DEF Enqueue, TypeInv
    <3>2. Append(queue[at[q]], q) \in Seq(Request)
      BY <3>1, AppendFacts DEF TypeInv
    <3>3. queue' \in [Instance -> Seq(Request)]
      BY <2>2, <3>2 DEF Enqueue, TypeInv
    <3>4. \E l \in {"release", "queued"} : st' = [st EXCEPT ![q] = l]
      BY <2>2 DEF Enqueue, Goto
    <3>5. st' \in [Request -> States] /\ \A p \in Request : st'[p] # "new" => st[p] # "new"
      BY <2>2, <3>4 DEF Enqueue, TypeInv, States, Counted
    <3> QED BY <2>2, <3>3, <3>5 DEF Enqueue, TypeInv, request, redis
  <2>3. CASE Discard(q) \/ Wait(q) \/ GiveUp(q)
    BY <2>3 DEF Discard, Wait, GiveUp, Goto, TypeInv, States, Counted, request, local, redis
  <2>4. CASE Finish(q)
    BY <2>4 DEF Finish, Goto, TypeInv, States, Counted, request, redis
  <2>5. CASE FreeGate(q)
    <3>1. gate' \in Int /\ faults' \in Nat
      BY <2>5, FaultStep DEF FreeGate, TypeInv
    <3> QED BY <2>5, <3>1 DEF FreeGate, Goto, TypeInv, States, Counted, request, local
  <2> QED BY <1>1, <2>1, <2>2, <2>3, <2>4, <2>5, AcquireType DEF CallerStep, WorkerStep
<1>2. ASSUME NEW q \in Request, NEW u \in User, NEW i \in Instance, Arrive(q, u, i)
      PROVE  TypeInv'
  <2>1. \E l \in {"over", "counted"} : st' = [st EXCEPT ![q] = l]
    BY <1>2 DEF Arrive, Goto
  <2>2. /\ st' \in [Request -> States]
        /\ \A p \in Request \ {q} : st'[p] = st[p]
    BY <2>1 DEF TypeInv, States, Counted
  <2>3. userCount' \in [User -> Int] /\ faults' \in Nat
    BY <1>2, FaultStep DEF Arrive, Counts, TypeInv
  <2> QED BY <1>2, <2>2, <2>3 DEF Arrive, TypeInv, local
<1>3. ASSUME NEW i \in Instance, Dequeue(i)
      PROVE  TypeInv'
  <2>1. queue[i] \in Seq(Request) /\ queue[i] # <<>>
    BY <1>3 DEF Dequeue, TypeInv
  <2>2. Tail(queue[i]) \in Seq(Request) /\ Head(queue[i]) \in Request /\ st[Head(queue[i])] = "queued"
    BY <2>1, TailFacts DEF QueueInv
  <2> QED BY <1>3, <2>2 DEF Dequeue, Goto, TypeInv, States, Counted, request, redis
<1>4. ASSUME NEW i \in Instance, Disconnect(i)
      PROVE  TypeInv'
  BY <1>4 DEF Disconnect, TypeInv, request, local, redis
<1>5. ASSUME NEW i \in Instance, Close(i)
      PROVE  TypeInv'
  BY <1>5 DEF Close, TypeInv, request, redis
<1>6. ASSUME NEW i \in Instance, Crash(i)
      PROVE  TypeInv'
  <2>1. st' \in [Request -> States] /\ \A q \in Request : st'[q] # "new" => st[q] # "new"
    BY <1>6 DEF Crash, TypeInv, States, Counted
  <2>2. queue' \in [Instance -> Seq(Request)]
        /\ inflight' \in [Instance -> [User -> Request \cup {None}]]
    BY <1>6 DEF Crash, TypeInv
  <2> QED BY <1>6, <2>1, <2>2, FaultStep DEF Crash, TypeInv, request, redis
<1>7. ASSUME NEW u \in User, ForgetStop(u) \/ ExpireUser(u)
      PROVE  TypeInv'
  <2>1. userCount' \in [User -> Int] /\ faults' \in Nat
    BY <1>7, FaultStep DEF ForgetStop, ExpireUser, TypeInv
  <2> QED BY <1>7, <2>1 DEF ForgetStop, ExpireUser, TypeInv, request, local
<1>8. ASSUME ExpireGate /\ Fault
      PROVE  TypeInv'
  BY <1>8, FaultStep DEF ExpireGate, TypeInv, request, local
<1> QED BY <1>1, <1>2, <1>3, <1>4, <1>5, <1>6, <1>7, <1>8, StopType DEF Next

-----------------------------------------------------------------------------
(* Queues.                                                                 *)

LEMMA QueueKept ==
    ASSUME TypeInv, QueueInv, queue' = queue,
           \A q \in Request : st[q] = "queued" => st'[q] = "queued" /\ at'[q] = at[q]
    PROVE  QueueInv'
<1>1. \A i \in Instance : queue[i] \in Seq(Request)
  BY DEF TypeInv
<1>2. \A i \in Instance : \A n \in 1..Len(queue[i]) : queue[i][n] \in Request
  BY <1>1
<1> QED BY <1>2 DEF QueueInv

\* Steps outside Enqueue, Dequeue, Stop and Crash.
LEMMA QueueUntouched ==
    ASSUME TypeInv, NEW q \in Request, st[q] # "queued", NEW l,
           st' = [st EXCEPT ![q] = l], at' = at \/ at' = [at EXCEPT ![q] = at'[q]]
    PROVE  \A p \in Request : st[p] = "queued" => st'[p] = "queued" /\ at'[p] = at[p]
  BY DEF TypeInv

LEMMA EnqueueQueue ==
    ASSUME TypeInv, QueueInv, NEW q \in Request, Enqueue(q)
    PROVE  QueueInv'
<1> DEFINE i == at[q]
<1>1. st[q] = "counted" /\ i \in Instance /\ queue[i] \in Seq(Request) /\ at' = at
  BY DEF Enqueue, TypeInv, request
<1>2. CASE Goto(q, "release") /\ queue' = queue
  <2>1. st' = [st EXCEPT ![q] = "release"]
    BY <1>2 DEF Goto
  <2> QED BY <1>1, <1>2, <2>1, QueueKept DEF TypeInv
<1>3. CASE Goto(q, "queued") /\ queue' = [queue EXCEPT ![i] = Append(@, q)]
  <2>1. st' = [st EXCEPT ![q] = "queued"]
    BY <1>3 DEF Goto
  <2>2. ASSUME NEW j \in Instance, j # i
        PROVE  queue'[j] = queue[j] /\ queue[j] \in Seq(Request)
    BY <1>3, <2>2 DEF TypeInv
  <2>3. queue'[i] = Append(queue[i], q)
    BY <1>1, <1>3 DEF TypeInv
  <2>4. \A n \in 1..Len(queue[i]) : queue[i][n] \in Request /\ queue[i][n] # q
    BY <1>1 DEF QueueInv
  <2>5. /\ \A n \in 1..Len(queue'[i]) : st'[queue'[i][n]] = "queued" /\ at[queue'[i][n]] = i
        /\ \A m, n \in 1..Len(queue'[i]) : m # n => queue'[i][m] # queue'[i][n]
    <3>1. \A n \in 1..Len(queue'[i]) :
              \/ n \in 1..Len(queue[i]) /\ queue'[i][n] = queue[i][n]
              \/ n = Len(queue[i]) + 1 /\ queue'[i][n] = q
      BY <1>1, <2>3, AppendFacts
    <3>2. /\ \A n \in 1..Len(queue[i]) : st[queue[i][n]] = "queued" /\ at[queue[i][n]] = i
          /\ \A m, n \in 1..Len(queue[i]) : m # n => queue[i][m] # queue[i][n]
      BY <1>1 DEF QueueInv
    <3>3. st'[q] = "queued" /\ \A p \in Request : st[p] = "queued" => st'[p] = "queued"
      BY <2>1 DEF TypeInv
    <3>4. at[q] = i
      OBVIOUS
    <3> HIDE DEF i
    <3>5. \A n \in 1..Len(queue'[i]) : st'[queue'[i][n]] = "queued" /\ at[queue'[i][n]] = i
      BY <2>4, <3>1, <3>2, <3>3, <3>4
    <3>6. \A m, n \in 1..Len(queue'[i]) : m # n => queue'[i][m] # queue'[i][n]
      BY <2>4, <3>1, <3>2
    <3> QED BY <3>5, <3>6
  <2>6. ASSUME NEW j \in Instance, j # i
        PROVE  /\ \A n \in 1..Len(queue'[j]) : st'[queue'[j][n]] = "queued" /\ at[queue'[j][n]] = j
               /\ \A m, n \in 1..Len(queue'[j]) : m # n => queue'[j][m] # queue'[j][n]
    <3>1. \A n \in 1..Len(queue[j]) : queue[j][n] \in Request
      BY <2>2, <2>6
    <3> QED BY <2>1, <2>2, <2>6, <3>1 DEF QueueInv, TypeInv
  <2> QED BY <1>1, <2>5, <2>6 DEF QueueInv
<1> QED BY <1>2, <1>3 DEF Enqueue

LEMMA DequeueQueue ==
    ASSUME TypeInv, QueueInv, NEW i \in Instance, Dequeue(i)
    PROVE  QueueInv'
<1> DEFINE h == Head(queue[i])
<1>1. queue[i] \in Seq(Request) /\ queue[i] # <<>> /\ at' = at
  BY DEF Dequeue, TypeInv, request
<1>2. h = queue[i][1] /\ 1 \in 1..Len(queue[i]) /\ h \in Request /\ at[h] = i
  BY <1>1, TailFacts DEF QueueInv
<1>3. st' = [st EXCEPT ![h] = "taken"] /\ queue'[i] = Tail(queue[i])
  BY DEF Dequeue, Goto, TypeInv
<1> HIDE DEF h
<1>4. \A n \in 1..Len(queue'[i]) :
          n \in Nat /\ n + 1 \in 1..Len(queue[i]) /\ n + 1 # 1 /\ queue'[i][n] = queue[i][n + 1]
  BY <1>1, <1>3, TailFacts
<1>5. \A n \in 1..Len(queue[i]) : queue[i][n] \in Request
  BY <1>1
<1>6. /\ \A n \in 1..Len(queue'[i]) : st'[queue'[i][n]] = "queued" /\ at[queue'[i][n]] = i
      /\ \A m, n \in 1..Len(queue'[i]) : m # n => queue'[i][m] # queue'[i][n]
  <2>1. /\ \A n \in 1..Len(queue[i]) : st[queue[i][n]] = "queued" /\ at[queue[i][n]] = i
        /\ \A m, n \in 1..Len(queue[i]) : m # n => queue[i][m] # queue[i][n]
    BY DEF QueueInv
  <2>2. \A n \in 1..Len(queue'[i]) : queue'[i][n] # h /\ queue'[i][n] \in Request
    BY <1>2, <1>4, <1>5, <2>1
  <2>3. \A n \in 1..Len(queue'[i]) : st'[queue'[i][n]] = "queued" /\ at[queue'[i][n]] = i
    BY <1>3, <1>4, <2>1, <2>2 DEF TypeInv
  <2>4. \A m, n \in Nat : m # n => m + 1 # n + 1
    OBVIOUS
  <2>5. \A m, n \in 1..Len(queue'[i]) : m # n => queue'[i][m] # queue'[i][n]
    BY <1>4, <2>1, <2>4
  <2> QED BY <2>3, <2>5
<1>7. ASSUME NEW j \in Instance, j # i
      PROVE  /\ \A n \in 1..Len(queue'[j]) : st'[queue'[j][n]] = "queued" /\ at[queue'[j][n]] = j
             /\ \A m, n \in 1..Len(queue'[j]) : m # n => queue'[j][m] # queue'[j][n]
  <2>1. queue'[j] = queue[j] /\ queue[j] \in Seq(Request)
    BY <1>7 DEF Dequeue, TypeInv
  <2>2. \A n \in 1..Len(queue[j]) : queue[j][n] \in Request
    BY <2>1
  <2> QED BY <1>2, <1>3, <1>7, <2>1, <2>2 DEF QueueInv, TypeInv
<1> QED BY <1>1, <1>6, <1>7 DEF QueueInv

LEMMA StopQueue ==
    ASSUME TypeInv, QueueInv, NEW u \in User, NEW i \in Instance, Stop(u, i)
    PROVE  QueueInv'
<1>1. queue[i] \in Seq(Request) /\ at' = at
  BY DEF Stop, TypeInv, request
<1>2. ASSUME NEW n \in Oldest(u, queue[i]),
             queue' = [queue EXCEPT ![i] = Without(@, n)],
             Goto(queue[i][n], "release")
      PROVE  QueueInv'
  <2> DEFINE h == queue[i][n]
             w == Without(queue[i], n)
  <2>1. n \in 1..Len(queue[i]) /\ h \in Request /\ at[h] = i
    BY <1>1 DEF Oldest, QueueInv
  <2>2. st' = [st EXCEPT ![h] = "release"] /\ queue'[i] = w
    BY <1>2 DEF Goto, TypeInv
  <2>3. /\ Len(w) = Len(queue[i]) - 1
        /\ \A k \in 1..(Len(queue[i]) - 1) : w[k] = IF k < n THEN queue[i][k] ELSE queue[i][k + 1]
    BY <1>1, <2>1, WithoutFacts
  <2>4. \A k \in 1..Len(queue[i]) : queue[i][k] \in Request
    BY <1>1
  <2> HIDE DEF w
  <2>5. /\ \A k \in 1..Len(queue'[i]) : st'[queue'[i][k]] = "queued" /\ at[queue'[i][k]] = i
        /\ \A j, k \in 1..Len(queue'[i]) : j # k => queue'[i][j] # queue'[i][k]
    <3> DEFINE x(k) == IF k < n THEN k ELSE k + 1
    <3>1. \A k \in 1..Len(w) : x(k) \in 1..Len(queue[i]) /\ x(k) # n /\ w[k] = queue[i][x(k)]
      BY <1>1, <2>1, <2>3
    <3>2. \A j, k \in 1..Len(w) : j # k => x(j) # x(k)
      BY <1>1, <2>1, <2>3
    <3> HIDE DEF x
    <3>3. \A k \in 1..Len(w) : w[k] \in Request /\ w[k] # h
      BY <2>1, <2>4, <3>1 DEF QueueInv
    <3>4. /\ \A k \in 1..Len(queue[i]) : st[queue[i][k]] = "queued" /\ at[queue[i][k]] = i
          /\ \A j, k \in 1..Len(queue[i]) : j # k => queue[i][j] # queue[i][k]
      BY DEF QueueInv
    <3>5. \A p \in Request : p # h => st'[p] = st[p]
      BY <2>2 DEF TypeInv
    <3> HIDE DEF h
    <3>6. \A k \in 1..Len(queue'[i]) : st'[queue'[i][k]] = "queued" /\ at[queue'[i][k]] = i
      BY <2>2, <3>1, <3>3, <3>4, <3>5
    <3>7. \A j, k \in 1..Len(queue'[i]) : j # k => queue'[i][j] # queue'[i][k]
      BY <2>2, <3>1, <3>2, <3>4
    <3> QED BY <3>6, <3>7
  <2>6. ASSUME NEW j \in Instance, j # i
        PROVE  /\ \A k \in 1..Len(queue'[j]) : st'[queue'[j][k]] = "queued" /\ at[queue'[j][k]] = j
               /\ \A m, k \in 1..Len(queue'[j]) : m # k => queue'[j][m] # queue'[j][k]
    <3>1. queue'[j] = queue[j] /\ queue[j] \in Seq(Request)
      BY <1>2, <2>6 DEF TypeInv
    <3>2. \A k \in 1..Len(queue[j]) : queue[j][k] \in Request
      BY <3>1
    <3>3. \A p \in Request : at[p] # i => st'[p] = st[p]
      BY <2>1, <2>2 DEF TypeInv
    <3> QED BY <2>6, <3>1, <3>2, <3>3 DEF QueueInv
  <2> QED BY <1>1, <2>5, <2>6 DEF QueueInv
<1>3. CASE UNCHANGED <<queue, st>>
  BY <1>1, <1>3, QueueKept
<1> QED BY <1>2, <1>3 DEF Stop

LEMMA CrashQueue ==
    ASSUME TypeInv, QueueInv, NEW i \in Instance, Crash(i)
    PROVE  QueueInv'
<1>1. /\ \A q \in Request : at[q] # i => st'[q] = st[q]
      /\ at' = at /\ queue' = [queue EXCEPT ![i] = <<>>]
  BY DEF Crash, TypeInv, request
<1>2. \A j \in Instance : queue'[j] = IF j = i THEN <<>> ELSE queue[j]
  BY <1>1 DEF TypeInv
<1>3. ASSUME NEW j \in Instance
      PROVE  /\ \A n \in 1..Len(queue'[j]) : st'[queue'[j][n]] = "queued" /\ at[queue'[j][n]] = j
             /\ \A m, n \in 1..Len(queue'[j]) : m # n => queue'[j][m] # queue'[j][n]
  <2>1. CASE j = i
    BY <1>2, <2>1
  <2>2. CASE j # i
    <3>1. queue'[j] = queue[j] /\ queue[j] \in Seq(Request)
      BY <1>2, <2>2 DEF TypeInv
    <3>2. \A n \in 1..Len(queue[j]) : queue[j][n] \in Request
      BY <3>1
    <3> QED BY <1>1, <2>2, <3>1, <3>2 DEF QueueInv
  <2> QED BY <2>1, <2>2
<1> QED BY <1>1, <1>3 DEF QueueInv

LEMMA QueueStep ==
    ASSUME TypeInv, QueueInv, Next
    PROVE  QueueInv'
<1>1. ASSUME NEW q \in Request, CallerStep(q) \/ WorkerStep(q)
      PROVE  QueueInv'
  <2>1. CASE Refuse(q) \/ Release(q) \/ Leave(q)
    <3>1. st[q] # "queued" /\ st' = [st EXCEPT ![q] = "ended"] /\ UNCHANGED <<at, queue>>
      BY <2>1 DEF Refuse, Release, Leave, GivesBack, Goto, request, local
    <3> QED BY <3>1, QueueUntouched, QueueKept
  <2>2. CASE Discard(q) \/ GiveUp(q) \/ FreeGate(q)
    <3>1. st[q] # "queued" /\ st' = [st EXCEPT ![q] = "leave"] /\ UNCHANGED <<at, queue>>
      BY <2>2 DEF Discard, GiveUp, FreeGate, Goto, request, local
    <3> QED BY <3>1, QueueUntouched, QueueKept
  <2>3. CASE Wait(q)
    <3>1. st[q] # "queued" /\ st' = [st EXCEPT ![q] = "waiting"] /\ UNCHANGED <<at, queue>>
      BY <2>3 DEF Wait, Goto, request, local
    <3> QED BY <3>1, QueueUntouched, QueueKept
  <2>4. CASE Finish(q)
    <3>1. st[q] # "queued" /\ st' = [st EXCEPT ![q] = "degate"] /\ UNCHANGED <<at, queue>>
      BY <2>4 DEF Finish, Goto, request
    <3> QED BY <3>1, QueueUntouched, QueueKept
  <2>5. CASE Acquire(q)
    <3>1. /\ st[q] # "queued" /\ UNCHANGED <<at, queue>>
          /\ \E l \in {"degate", "running"} : st' = [st EXCEPT ![q] = l]
      BY <2>5 DEF Acquire, Starts, Goto, request
    <3> QED BY <3>1, QueueUntouched, QueueKept
  <2> QED BY <1>1, <2>1, <2>2, <2>3, <2>4, <2>5, EnqueueQueue DEF CallerStep, WorkerStep
<1>2. ASSUME NEW q \in Request, NEW u \in User, NEW i \in Instance, Arrive(q, u, i)
      PROVE  QueueInv'
  <2>1. /\ st[q] # "queued" /\ queue' = queue /\ at' = [at EXCEPT ![q] = i]
        /\ \E l \in {"over", "counted"} : st' = [st EXCEPT ![q] = l]
    BY <1>2 DEF Arrive, Goto, local
  <2>2. \A p \in Request : st[p] = "queued" => st'[p] = "queued" /\ at'[p] = at[p]
    BY <2>1 DEF TypeInv
  <2> QED BY <2>1, <2>2, QueueKept
<1>3. ASSUME NEW i \in Instance, Disconnect(i) \/ Close(i)
      PROVE  QueueInv'
  <2>1. UNCHANGED <<st, at, queue>>
    BY <1>3 DEF Disconnect, Close, request, local
  <2> QED BY <2>1, QueueKept
<1>4. ASSUME NEW u \in User, ForgetStop(u) \/ ExpireUser(u)
      PROVE  QueueInv'
  <2>1. UNCHANGED <<st, at, queue>>
    BY <1>4 DEF ForgetStop, ExpireUser, request, local
  <2> QED BY <2>1, QueueKept
<1>5. ASSUME ExpireGate
      PROVE  QueueInv'
  <2>1. UNCHANGED <<st, at, queue>>
    BY <1>5 DEF ExpireGate, request, local
  <2> QED BY <2>1, QueueKept
<1> QED BY <1>1, <1>2, <1>3, <1>4, <1>5, DequeueQueue, StopQueue, CrashQueue DEF Next

-----------------------------------------------------------------------------
(* Entries for /stop.                                                      *)

LEMMA FlightKept ==
    ASSUME TypeInv, FlightInv, inflight' = inflight,
           \A q \in Request : st[q] = "running" =>
               st'[q] = "running" /\ at'[q] = at[q] /\ who'[q] = who[q]
    PROVE  FlightInv'
<1>1. \A i \in Instance, u \in User : inflight[i][u] \in Request \cup {None}
  BY DEF TypeInv
<1> QED BY <1>1 DEF FlightInv

\* The step of a request that does not run and does not start to.
LEMMA FlightUntouched ==
    ASSUME TypeInv, FlightInv, NEW q \in Request, st[q] # "running", NEW l,
           st' = [st EXCEPT ![q] = l], UNCHANGED <<request, inflight>>
    PROVE  FlightInv'
<1>1. \A p \in Request : st[p] = "running" =>
          st'[p] = "running" /\ at'[p] = at[p] /\ who'[p] = who[p]
  BY DEF TypeInv, request
<1> QED BY <1>1, FlightKept

LEMMA AcquireFlight ==
    ASSUME TypeInv, FlightInv, NEW q \in Request, Acquire(q)
    PROVE  FlightInv'
<1>1. /\ st[q] = "waiting" /\ UNCHANGED <<at, who>>
      /\ who[q] \in User /\ at[q] \in Instance
  BY DEF Acquire, request, TypeInv
<1>2. \/ /\ st' = [st EXCEPT ![q] = "degate"]
         /\ inflight' = [inflight EXCEPT ![at[q]][who[q]] = None]
      \/ /\ st' = [st EXCEPT ![q] = "running"]
         /\ inflight' = [inflight EXCEPT ![at[q]][who[q]] = q]
  BY DEF Acquire, Starts, Goto
<1>3. ASSUME NEW i \in Instance, NEW u \in User, inflight'[i][u] # None
      PROVE  /\ st'[inflight'[i][u]] = "running"
             /\ at[inflight'[i][u]] = i /\ who[inflight'[i][u]] = u
  <2>1. CASE i = at[q] /\ u = who[q]
    BY <1>1, <1>2, <1>3, <2>1 DEF TypeInv
  <2>2. CASE ~(i = at[q] /\ u = who[q])
    <3>1. inflight'[i][u] = inflight[i][u] /\ inflight[i][u] \in Request
      BY <1>1, <1>2, <1>3, <2>2 DEF TypeInv
    <3> QED BY <1>1, <1>2, <1>3, <3>1 DEF FlightInv, TypeInv
  <2> QED BY <2>1, <2>2
<1> QED BY <1>1, <1>3 DEF FlightInv

LEMMA FinishFlight ==
    ASSUME TypeInv, FlightInv, NEW q \in Request, Finish(q)
    PROVE  FlightInv'
<1>1. /\ UNCHANGED <<at, who>> /\ who[q] \in User /\ at[q] \in Instance
      /\ st' = [st EXCEPT ![q] = "degate"]
      /\ inflight' = [inflight EXCEPT ![at[q]][who[q]] = None]
  BY DEF Finish, Goto, request, TypeInv
<1>2. ASSUME NEW i \in Instance, NEW u \in User, inflight'[i][u] # None
      PROVE  /\ st'[inflight'[i][u]] = "running"
             /\ at[inflight'[i][u]] = i /\ who[inflight'[i][u]] = u
  <2>1. ~(i = at[q] /\ u = who[q])
    BY <1>1, <1>2 DEF TypeInv
  <2>2. inflight'[i][u] = inflight[i][u] /\ inflight[i][u] \in Request
    BY <1>1, <1>2, <2>1 DEF TypeInv
  <2>3. inflight[i][u] # q
    BY <1>2, <2>1, <2>2 DEF FlightInv
  <2> QED BY <1>1, <1>2, <2>2, <2>3 DEF FlightInv, TypeInv
<1> QED BY <1>1, <1>2 DEF FlightInv

LEMMA StopFlight ==
    ASSUME TypeInv, QueueInv, FlightInv, NEW u \in User, NEW i \in Instance, Stop(u, i)
    PROVE  FlightInv'
<1>1. ASSUME NEW n \in Oldest(u, queue[i]),
             Goto(queue[i][n], "release"), UNCHANGED <<inflight, gone>>
      PROVE  FlightInv'
  <2>1. queue[i] \in Seq(Request) /\ n \in 1..Len(queue[i])
    BY DEF Oldest, TypeInv
  <2>2. queue[i][n] \in Request /\ st[queue[i][n]] = "queued"
    BY <2>1 DEF QueueInv
  <2>3. st' = [st EXCEPT ![queue[i][n]] = "release"] /\ UNCHANGED <<request, inflight>>
    BY <1>1 DEF Goto, Stop
  <2> QED BY <2>2, <2>3, FlightUntouched
<1>2. ASSUME inflight' = [inflight EXCEPT ![i][u] = None], UNCHANGED <<queue, st>>
      PROVE  FlightInv'
  <2>1. UNCHANGED <<at, who, st>>
    BY <1>2 DEF Stop, request
  <2>2. \A j \in Instance, v \in User :
            inflight'[j][v] # None => inflight'[j][v] = inflight[j][v]
    BY <1>2 DEF TypeInv
  <2> QED BY <2>1, <2>2 DEF FlightInv
<1> QED BY <1>1, <1>2 DEF Stop

LEMMA CrashFlight ==
    ASSUME TypeInv, FlightInv, NEW i \in Instance, Crash(i)
    PROVE  FlightInv'
<1>1. /\ \A q \in Request : at[q] # i => st'[q] = st[q]
      /\ UNCHANGED <<at, who>> /\ inflight' = [inflight EXCEPT ![i] = [u \in User |-> None]]
  BY DEF Crash, TypeInv, request
<1>2. \A j \in Instance, u \in User :
          inflight'[j][u] # None => j # i /\ inflight'[j][u] = inflight[j][u]
  BY <1>1 DEF TypeInv
<1>3. \A j \in Instance, u \in User : inflight[j][u] \in Request \cup {None}
  BY DEF TypeInv
<1> QED BY <1>1, <1>2, <1>3 DEF FlightInv

LEMMA FlightStep ==
    ASSUME TypeInv, QueueInv, FlightInv, Next
    PROVE  FlightInv'
<1>1. ASSUME NEW q \in Request, CallerStep(q) \/ WorkerStep(q)
      PROVE  FlightInv'
  <2>1. CASE Refuse(q) \/ Release(q) \/ Leave(q)
    <3>1. st[q] # "running" /\ st' = [st EXCEPT ![q] = "ended"] /\ UNCHANGED <<request, inflight>>
      BY <2>1 DEF Refuse, Release, Leave, GivesBack, Goto, request, local
    <3> QED BY <3>1, FlightUntouched
  <2>2. CASE Discard(q) \/ GiveUp(q) \/ FreeGate(q)
    <3>1. st[q] # "running" /\ st' = [st EXCEPT ![q] = "leave"] /\ UNCHANGED <<request, inflight>>
      BY <2>2 DEF Discard, GiveUp, FreeGate, Goto, request, local
    <3> QED BY <3>1, FlightUntouched
  <2>3. CASE Wait(q)
    <3>1. st[q] # "running" /\ st' = [st EXCEPT ![q] = "waiting"] /\ UNCHANGED <<request, inflight>>
      BY <2>3 DEF Wait, Goto, request, local
    <3> QED BY <3>1, FlightUntouched
  <2>4. CASE Enqueue(q)
    <3>1. /\ st[q] # "running" /\ UNCHANGED <<request, inflight>>
          /\ \E l \in {"release", "queued"} : st' = [st EXCEPT ![q] = l]
      BY <2>4 DEF Enqueue, Goto, request
    <3> QED BY <3>1, FlightUntouched
  <2> QED BY <1>1, <2>1, <2>2, <2>3, <2>4, AcquireFlight, FinishFlight DEF CallerStep, WorkerStep
<1>2. ASSUME NEW q \in Request, NEW u \in User, NEW i \in Instance, Arrive(q, u, i)
      PROVE  FlightInv'
  <2>1. /\ st[q] = "new" /\ inflight' = inflight
        /\ at' = [at EXCEPT ![q] = i] /\ who' = [who EXCEPT ![q] = u]
        /\ \E l \in {"over", "counted"} : st' = [st EXCEPT ![q] = l]
    BY <1>2 DEF Arrive, Goto, local
  <2>2. \A p \in Request : st[p] = "running" =>
            st'[p] = "running" /\ at'[p] = at[p] /\ who'[p] = who[p]
    BY <2>1 DEF TypeInv
  <2> QED BY <2>1, <2>2, FlightKept
<1>3. ASSUME NEW i \in Instance, Dequeue(i)
      PROVE  FlightInv'
  <2>1. queue[i] \in Seq(Request) /\ queue[i] # <<>>
    BY <1>3 DEF Dequeue, TypeInv
  <2>2. Head(queue[i]) \in Request /\ st[Head(queue[i])] = "queued"
    BY <2>1, TailFacts DEF QueueInv
  <2>3. st' = [st EXCEPT ![Head(queue[i])] = "taken"] /\ UNCHANGED <<request, inflight>>
    BY <1>3 DEF Dequeue, Goto
  <2> QED BY <2>2, <2>3, FlightUntouched
<1>4. ASSUME NEW i \in Instance, Disconnect(i) \/ Close(i)
      PROVE  FlightInv'
  <2>1. UNCHANGED <<st, at, who, inflight>>
    BY <1>4 DEF Disconnect, Close, request, local
  <2> QED BY <2>1, FlightKept
<1>5. ASSUME NEW u \in User, ForgetStop(u) \/ ExpireUser(u)
      PROVE  FlightInv'
  <2>1. UNCHANGED <<st, at, who, inflight>>
    BY <1>5 DEF ForgetStop, ExpireUser, request, local
  <2> QED BY <2>1, FlightKept
<1>6. ASSUME ExpireGate
      PROVE  FlightInv'
  <2>1. UNCHANGED <<st, at, who, inflight>>
    BY <1>6 DEF ExpireGate, request, local
  <2> QED BY <2>1, FlightKept
<1> QED BY <1>1, <1>2, <1>3, <1>4, <1>5, <1>6, StopFlight, CrashFlight DEF Next

-----------------------------------------------------------------------------
(* Cancelled contexts and the gate, without faults and closed connections. *)

LEMMA GoneStep ==
    ASSUME TypeInv, QueueInv, FlightInv, GoneInv, Next
    PROVE  GoneInv'
<1> DEFINE Late == {"running", "degate", "leave"}
<1> SUFFICES ASSUME faults' = 0, cuts' = 0
             PROVE  \A q \in gone' : st'[q] \in Late
  BY DEF GoneInv
<1>1. faults = 0 /\ cuts = 0 /\ \A q \in gone : q \in Request /\ st[q] \in Late
  BY BoundsGrow DEF TypeInv, GoneInv
<1>2. ASSUME NEW q \in Request, CallerStep(q) \/ WorkerStep(q)
      PROVE  \A p \in gone' : st'[p] \in Late
  <2>1. CASE Refuse(q) \/ Release(q) \/ Leave(q)
    <3>1. st' = [st EXCEPT ![q] = "ended"] /\ gone' = gone \ {q}
      BY <2>1 DEF Refuse, Release, Leave, GivesBack, Goto
    <3> QED BY <1>1, <3>1 DEF TypeInv
  <2>2. CASE Enqueue(q) \/ Discard(q) \/ Wait(q)
    <3>1. q \notin gone /\ gone' = gone /\ \E l : st' = [st EXCEPT ![q] = l]
      BY <1>1, <2>2 DEF Enqueue, Discard, Wait, Goto
    <3> QED BY <1>1, <3>1 DEF TypeInv
  <2>3. CASE GiveUp(q) \/ FreeGate(q)
    <3>1. gone' = gone /\ st' = [st EXCEPT ![q] = "leave"]
      BY <2>3 DEF GiveUp, FreeGate, Goto
    <3> QED BY <1>1, <3>1 DEF TypeInv
  <2>4. CASE Finish(q)
    <3>1. gone' = gone /\ st' = [st EXCEPT ![q] = "degate"]
      BY <2>4 DEF Finish, Goto
    <3> QED BY <1>1, <3>1 DEF TypeInv
  <2>5. CASE Acquire(q)
    <3>1. gone' = gone /\ \E l \in Late : st' = [st EXCEPT ![q] = l]
      BY <2>5 DEF Acquire, Starts, Goto
    <3> QED BY <1>1, <3>1 DEF TypeInv
  <2> QED BY <1>2, <2>1, <2>2, <2>3, <2>4, <2>5 DEF CallerStep, WorkerStep
<1>3. ASSUME NEW q \in Request, NEW u \in User, NEW i \in Instance, Arrive(q, u, i)
      PROVE  \A p \in gone' : st'[p] \in Late
  <2>1. q \notin gone /\ gone' = gone /\ \E l : st' = [st EXCEPT ![q] = l]
    BY <1>1, <1>3 DEF Arrive, Goto
  <2> QED BY <1>1, <2>1 DEF TypeInv
<1>4. ASSUME NEW i \in Instance, Dequeue(i)
      PROVE  \A p \in gone' : st'[p] \in Late
  <2>1. queue[i] \in Seq(Request) /\ queue[i] # <<>>
    BY <1>4 DEF Dequeue, TypeInv
  <2>2. Head(queue[i]) \in Request /\ st[Head(queue[i])] = "queued"
    BY <2>1, TailFacts DEF QueueInv
  <2>3. gone' = gone /\ st' = [st EXCEPT ![Head(queue[i])] = "taken"]
    BY <1>4 DEF Dequeue, Goto
  <2> QED BY <1>1, <2>2, <2>3 DEF TypeInv
<1>5. ASSUME NEW u \in User, NEW i \in Instance, Stop(u, i)
      PROVE  \A p \in gone' : st'[p] \in Late
  <2>1. ASSUME NEW n \in Oldest(u, queue[i]),
               Goto(queue[i][n], "release"), UNCHANGED <<inflight, gone>>
        PROVE  \A p \in gone' : st'[p] \in Late
    <3>1. queue[i] \in Seq(Request) /\ n \in 1..Len(queue[i])
      BY DEF Oldest, TypeInv
    <3>2. queue[i][n] \in Request /\ st[queue[i][n]] = "queued"
      BY <3>1 DEF QueueInv
    <3>3. gone' = gone /\ st' = [st EXCEPT ![queue[i][n]] = "release"]
      BY <2>1 DEF Goto
    <3> QED BY <1>1, <3>2, <3>3 DEF TypeInv
  <2>2. ASSUME gone' = gone \cup ({inflight[i][u]} \ {None}), UNCHANGED st
        PROVE  \A p \in gone' : st'[p] \in Late
    BY <1>1, <2>2 DEF FlightInv
  <2> QED BY <1>5, <2>1, <2>2 DEF Stop
<1>6. ASSUME NEW i \in Instance, Close(i)
      PROVE  \A p \in gone' : st'[p] \in Late
  BY <1>1, <1>6 DEF Close
<1>7. ASSUME NEW u \in User, ForgetStop(u)
      PROVE  \A p \in gone' : st'[p] \in Late
  BY <1>1, <1>7 DEF ForgetStop
<1>8. /\ ~(\E i \in Instance : Disconnect(i) \/ Crash(i))
      /\ ~(\E u \in User : ExpireUser(u)) /\ ~Fault
  BY <1>1, FaultStep DEF Disconnect, Crash, ExpireUser, TypeInv
<1> QED BY <1>2, <1>3, <1>4, <1>5, <1>6, <1>7, <1>8 DEF Next

\* A step of a request outside the gate.
LEMMA GateUntouched ==
    ASSUME TypeInv, GateInv, faults = 0, cuts = 0, gate' = gate,
           NEW q \in Request, st[q] \notin Executes, NEW l, l \notin Executes,
           st' = [st EXCEPT ![q] = l]
    PROVE  gate' = Cardinality(Holders') /\ gate' <= GlobalMax
<1>1. Holders' = Holders
  BY DEF Holders, TypeInv
<1> QED BY <1>1 DEF GateInv

LEMMA AcquireGate ==
    ASSUME TypeInv, GateInv, GoneInv, NEW q \in Request, Acquire(q), faults = 0, cuts = 0, faults' = 0
    PROVE  gate' = Cardinality(Holders') /\ gate' <= GlobalMax
<1>1. st[q] = "waiting" /\ q \notin gone /\ ~Fault
  BY FaultStep DEF Acquire, GoneInv
<1>2. gate < GlobalMax /\ gate' = gate + 1 /\ Starts(q)
  BY <1>1 DEF Acquire
<1>3. \E l \in Executes : st' = [st EXCEPT ![q] = l]
  BY <1>2 DEF Starts, Goto, Executes
<1>4. q \notin Holders /\ Holders' = Holders \cup {q}
  BY <1>1, <1>3 DEF Holders, Executes, TypeInv
<1>5. Cardinality(Holders') = Cardinality(Holders) + 1
  BY <1>4, SetsAreFinite, FS_AddElement
<1>6. GlobalMax \in Nat
  BY QueueAssumption
<1> QED BY <1>2, <1>5, <1>6 DEF GateInv, TypeInv

LEMMA FreeGateGate ==
    ASSUME TypeInv, GateInv, NEW q \in Request, FreeGate(q), faults = 0, cuts = 0, faults' = 0
    PROVE  gate' = Cardinality(Holders') /\ gate' <= GlobalMax
<1>1. st[q] = "degate" /\ gate' = gate - 1 /\ st' = [st EXCEPT ![q] = "leave"]
  BY FaultStep DEF FreeGate, Goto
<1>2. q \in Holders /\ Holders' = Holders \ {q}
  BY <1>1 DEF Holders, Executes, TypeInv
<1>3. Cardinality(Holders') = Cardinality(Holders) - 1
  BY <1>2, SetsAreFinite, FS_RemoveElement
<1>4. GlobalMax \in Nat
  BY QueueAssumption
<1> QED BY <1>1, <1>3, <1>4 DEF GateInv, TypeInv

LEMMA GateStep ==
    ASSUME TypeInv, QueueInv, GoneInv, GateInv, Next
    PROVE  GateInv'
<1> SUFFICES ASSUME faults' = 0, cuts' = 0
             PROVE  gate' = Cardinality(Holders') /\ gate' <= GlobalMax
  BY DEF GateInv
<1>1. faults = 0 /\ cuts = 0
  BY BoundsGrow DEF TypeInv
<1>2. ASSUME NEW q \in Request, CallerStep(q) \/ WorkerStep(q)
      PROVE  gate' = Cardinality(Holders') /\ gate' <= GlobalMax
  <2>1. CASE Refuse(q) \/ Release(q) \/ Leave(q)
    <3>1. st[q] \notin Executes /\ st' = [st EXCEPT ![q] = "ended"] /\ gate' = gate
      BY <2>1 DEF Refuse, Release, Leave, GivesBack, Goto, Executes
    <3>2. "ended" \notin Executes
      BY DEF Executes
    <3> QED BY <1>1, <3>1, <3>2, GateUntouched
  <2>2. CASE Enqueue(q) \/ Discard(q) \/ Wait(q) \/ GiveUp(q)
    <3>1. /\ st[q] \notin Executes /\ gate' = gate
          /\ \E l \in {"release", "queued", "leave", "waiting"} : st' = [st EXCEPT ![q] = l]
      BY <2>2 DEF Enqueue, Discard, Wait, GiveUp, Goto, redis, Executes
    <3>2. \A l \in {"release", "queued", "leave", "waiting"} : l \notin Executes
      BY DEF Executes
    <3> QED BY <1>1, <3>1, <3>2, GateUntouched
  <2>3. CASE Finish(q)
    <3>1. st[q] = "running" /\ st' = [st EXCEPT ![q] = "degate"] /\ gate' = gate
      BY <2>3 DEF Finish, Goto, redis
    <3>2. Holders' = Holders
      BY <3>1 DEF Holders, Executes, TypeInv
    <3> QED BY <1>1, <3>1, <3>2 DEF GateInv
  <2> QED BY <1>1, <1>2, <2>1, <2>2, <2>3, AcquireGate, FreeGateGate DEF CallerStep, WorkerStep
<1>3. ASSUME NEW q \in Request, NEW u \in User, NEW i \in Instance, Arrive(q, u, i)
      PROVE  gate' = Cardinality(Holders') /\ gate' <= GlobalMax
  <2>1. /\ st[q] \notin Executes /\ gate' = gate
        /\ \E l \in {"over", "counted"} : st' = [st EXCEPT ![q] = l]
    BY <1>3 DEF Arrive, Goto, Executes
  <2>2. \A l \in {"over", "counted"} : l \notin Executes
    BY DEF Executes
  <2> QED BY <1>1, <2>1, <2>2, GateUntouched
<1>4. ASSUME NEW i \in Instance, Dequeue(i)
      PROVE  gate' = Cardinality(Holders') /\ gate' <= GlobalMax
  <2>1. queue[i] \in Seq(Request) /\ queue[i] # <<>>
    BY <1>4 DEF Dequeue, TypeInv
  <2>2. Head(queue[i]) \in Request /\ st[Head(queue[i])] = "queued"
    BY <2>1, TailFacts DEF QueueInv
  <2>3. gate' = gate /\ st' = [st EXCEPT ![Head(queue[i])] = "taken"]
    BY <1>4 DEF Dequeue, Goto, redis
  <2>4. "queued" \notin Executes /\ "taken" \notin Executes
    BY DEF Executes
  <2> QED BY <1>1, <2>2, <2>3, <2>4, GateUntouched
<1>5. ASSUME NEW u \in User, NEW i \in Instance, Stop(u, i)
      PROVE  gate' = Cardinality(Holders') /\ gate' <= GlobalMax
  <2>1. gate' = gate
    BY <1>5 DEF Stop
  <2>2. ASSUME NEW n \in Oldest(u, queue[i]), Goto(queue[i][n], "release")
        PROVE  gate' = Cardinality(Holders') /\ gate' <= GlobalMax
    <3>1. queue[i] \in Seq(Request) /\ n \in 1..Len(queue[i])
      BY DEF Oldest, TypeInv
    <3>2. queue[i][n] \in Request /\ st[queue[i][n]] = "queued"
      BY <3>1 DEF QueueInv
    <3>3. "queued" \notin Executes /\ "release" \notin Executes
      BY DEF Executes
    <3> QED BY <1>1, <2>1, <2>2, <3>2, <3>3, GateUntouched DEF Goto
  <2>3. CASE UNCHANGED st
    BY <1>1, <2>1, <2>3 DEF GateInv, Holders
  <2> QED BY <1>5, <2>2, <2>3 DEF Stop
<1>6. ASSUME NEW i \in Instance, Close(i)
      PROVE  gate' = Cardinality(Holders') /\ gate' <= GlobalMax
  BY <1>1, <1>6 DEF Close, redis, GateInv, Holders
<1>7. ASSUME NEW u \in User, ForgetStop(u)
      PROVE  gate' = Cardinality(Holders') /\ gate' <= GlobalMax
  BY <1>1, <1>7 DEF ForgetStop, GateInv, Holders
<1>8. /\ ~(\E i \in Instance : Disconnect(i) \/ Crash(i))
      /\ ~(\E u \in User : ExpireUser(u)) /\ ~Fault
  BY <1>1, FaultStep DEF Disconnect, Crash, ExpireUser, TypeInv
<1> QED BY <1>2, <1>3, <1>4, <1>5, <1>6, <1>7, <1>8 DEF Next

-----------------------------------------------------------------------------
(* The theorems.                                                           *)

LEMMA InvInit == Init => Inv
<1> SUFFICES ASSUME Init PROVE Inv
  OBVIOUS
<1>1. TypeInv /\ FlightInv /\ GoneInv
  BY DEF Init, TypeInv, FlightInv, GoneInv, States, Counted
<1>2. QueueInv
  BY DEF Init, QueueInv
<1>3. Holders = {} /\ \A u \in User : Owes(u) = {} /\ NonOver(u) = {}
  <2>1. "new" \notin Counted /\ "new" \notin Executes /\ \A q \in Request : st[q] = "new"
    BY DEF Init, Counted, Executes
  <2> QED BY <2>1 DEF Holders, Owes, NonOver, Of
<1>4. MaxPerUser \in Nat /\ GlobalMax \in Nat
  BY QueueAssumption
<1>5. SlotInv /\ GateInv
  <2>1. Cardinality({}) = 0 /\ 0 <= MaxPerUser /\ 0 <= GlobalMax
    BY <1>4, FS_EmptySet
  <2>2. gate = 0 /\ \A u \in User : userCount[u] = 0
    BY DEF Init
  <2> QED BY <1>3, <2>1, <2>2 DEF SlotInv, GateInv
<1> QED BY <1>1, <1>2, <1>5 DEF Inv

LEMMA InvStep == Inv /\ [Next]_vars => Inv'
<1> SUFFICES ASSUME Inv, [Next]_vars PROVE Inv'
  OBVIOUS
<1>1. CASE Next
  BY <1>1, TypeStep, QueueStep, FlightStep, GoneStep, SlotStep, GateStep DEF Inv
<1>2. CASE UNCHANGED vars
  <2>1. UNCHANGED <<st, who, at, gone, queue, inflight, closed, userCount, gate, marker, fresh, cuts, faults>>
    BY <1>2 DEF vars, request, local, redis
  <2>2. TypeInv' /\ QueueInv' /\ FlightInv' /\ GoneInv'
    BY <2>1 DEF Inv, TypeInv, QueueInv, FlightInv, GoneInv
  <2>3. Holders' = Holders /\ \A u : Owes(u)' = Owes(u) /\ NonOver(u)' = NonOver(u)
    BY <2>1 DEF Holders, Owes, NonOver, Of
  <2>4. SlotInv' /\ GateInv'
    BY <2>1, <2>3 DEF Inv, SlotInv, GateInv
  <2> QED BY <2>2, <2>4 DEF Inv
<1> QED BY <1>1, <1>2

\* The inductive invariant: what the queue, the entries for /stop, the user counters
\* and the gate of qaqueue.go owe to each other.
THEOREM Invariance == Spec => []Inv
  BY InvInit, InvStep, PTL DEF Spec

\* Every slot of a user's counter is given back by exactly one of the ways a
\* request can end (qaqueue.go, redisCheckAndIncrUser and redisDecrUser).
THEOREM UserSlotsHold == Spec => []UserSlots
<1>1. Inv => UserSlots
  BY DEF Inv, SlotInv, UserSlots
<1> QED BY <1>1, Invariance, PTL

\* The gate and the user counters bound what executes and what is admitted, on all
\* instances together (qaqueue.go, globalGateScript).
THEOREM LimitsHoldAlways == Spec => []LimitsHold
<1>1. Inv => LimitsHold
  <2>1. \A u : NonOver(u) = {q \in Owes(u) : st[q] # "over"}
    BY DEF NonOver
  <2> QED BY <2>1 DEF Inv, SlotInv, GateInv, LimitsHold, TypeInv
<1> QED BY <1>1, Invariance, PTL

-----------------------------------------------------------------------------
(* What a queue holds.                                                     *)

\* Every queued request has a place in the queue of its instance.
PlaceInv ==
    \A q \in Request :
        st[q] = "queued" => \E n \in 1..Len(queue[at[q]]) : queue[at[q]][n] = q

\* A queue stays within its capacity; the types the other invariants do not need.
BoundInv ==
    /\ fresh \subseteq Request /\ closed \subseteq Instance /\ marker \subseteq User
    /\ \A i \in Instance : Len(queue[i]) <= MaxSize

PlacesKept ==
    /\ queue' = queue
    /\ \A q \in Request : st'[q] = "queued" => st[q] = "queued" /\ at'[q] = at[q]

LEMMA QueueShapes ==
    ASSUME TypeInv, Next
    PROVE  \/ PlacesKept
           \/ \E q \in Request : Enqueue(q)
           \/ \E i \in Instance : Dequeue(i) \/ Crash(i)
           \/ \E u \in User, i \in Instance : Stop(u, i)
<1>1. ASSUME NEW q \in Request, NEW l, l # "queued", st' = [st EXCEPT ![q] = l],
             UNCHANGED <<at, queue>>
      PROVE  PlacesKept
  BY <1>1 DEF PlacesKept, TypeInv
<1>2. ASSUME NEW q \in Request, Refuse(q) \/ Release(q) \/ Leave(q)
      PROVE  PlacesKept
  BY <1>1, <1>2 DEF Refuse, Release, Leave, GivesBack, Goto, request, local
<1>3. ASSUME NEW q \in Request, Discard(q) \/ Wait(q) \/ GiveUp(q) \/ Finish(q) \/ FreeGate(q)
      PROVE  PlacesKept
  BY <1>1, <1>3 DEF Discard, Wait, GiveUp, Finish, FreeGate, Goto, request, local
<1>4. ASSUME NEW q \in Request, Acquire(q) PROVE PlacesKept
  BY <1>1, <1>4 DEF Acquire, Starts, Goto, request
<1>5. ASSUME NEW q \in Request, NEW u \in User, NEW i \in Instance, Arrive(q, u, i) PROVE PlacesKept
  <2>1. /\ queue' = queue /\ at' = [at EXCEPT ![q] = i]
        /\ \E l \in {"over", "counted"} : st' = [st EXCEPT ![q] = l]
    BY <1>5 DEF Arrive, Goto, local
  <2> QED BY <2>1 DEF PlacesKept, TypeInv
<1>6. ASSUME UNCHANGED <<st, at, queue>> PROVE PlacesKept
  BY <1>6 DEF PlacesKept
<1>7. ASSUME NEW i \in Instance, Disconnect(i) \/ Close(i) PROVE PlacesKept
  BY <1>6, <1>7 DEF Disconnect, Close, request, local
<1>8. ASSUME NEW u \in User, ForgetStop(u) \/ ExpireUser(u) PROVE PlacesKept
  BY <1>6, <1>8 DEF ForgetStop, ExpireUser, request, local
<1>9. ASSUME ExpireGate PROVE PlacesKept
  BY <1>6, <1>9 DEF ExpireGate, request, local
<1> QED BY <1>2, <1>3, <1>4, <1>5, <1>7, <1>8, <1>9 DEF Next, CallerStep, WorkerStep

LEMMA EnqueuePlaces ==
    ASSUME TypeInv, PlaceInv, BoundInv, NEW q \in Request, Enqueue(q)
    PROVE  PlaceInv' /\ \A i \in Instance : Len(queue'[i]) <= MaxSize
<1>1. at[q] \in Instance /\ queue[at[q]] \in Seq(Request) /\ at' = at /\ MaxSize \in Nat
  BY QueueAssumption DEF Enqueue, TypeInv, request
<1>2. CASE Goto(q, "release") /\ queue' = queue
  <2>1. \A p \in Request : st'[p] = "queued" => st[p] = "queued"
    BY <1>2 DEF Goto, TypeInv
  <2> QED BY <1>1, <1>2, <2>1 DEF PlaceInv, BoundInv
<1>3. CASE /\ Goto(q, "queued") /\ queue' = [queue EXCEPT ![at[q]] = Append(@, q)]
           /\ ~(Len(queue[at[q]]) >= MaxSize)
  <2>1. \A p \in Request : st'[p] = "queued" => st[p] = "queued" \/ p = q
    BY <1>3 DEF Goto, TypeInv
  <2>2. /\ queue'[at[q]] = Append(queue[at[q]], q)
        /\ \A i \in Instance : i # at[q] => queue'[i] = queue[i]
    BY <1>1, <1>3 DEF TypeInv
  <2>3. /\ Len(queue'[at[q]]) = Len(queue[at[q]]) + 1 /\ Len(queue[at[q]]) \in Nat
        /\ queue'[at[q]][Len(queue[at[q]]) + 1] = q
        /\ \A n \in 1..Len(queue[at[q]]) : queue'[at[q]][n] = queue[at[q]][n]
    BY <1>1, <2>2
  <2>4. \E n \in 1..Len(queue'[at[q]]) : queue'[at[q]][n] = q
    BY <2>3
  <2>5. ASSUME NEW p \in Request, st[p] = "queued"
        PROVE  \E n \in 1..Len(queue'[at[p]]) : queue'[at[p]][n] = p
    <3>1. at[p] \in Instance
      BY <2>5 DEF TypeInv
    <3>2. PICK n \in 1..Len(queue[at[p]]) : queue[at[p]][n] = p
      BY <2>5 DEF PlaceInv
    <3>3. CASE at[p] = at[q]
      BY <2>3, <3>2, <3>3
    <3> QED BY <2>2, <3>1, <3>2, <3>3
  <2>6. \A i \in Instance : Len(queue'[i]) <= MaxSize
    BY <1>1, <1>3, <2>2, <2>3 DEF BoundInv
  <2> QED BY <1>1, <2>1, <2>4, <2>5, <2>6 DEF PlaceInv
<1> QED BY <1>2, <1>3 DEF Enqueue

LEMMA DequeuePlaces ==
    ASSUME TypeInv, PlaceInv, BoundInv, NEW i \in Instance, Dequeue(i)
    PROVE  PlaceInv' /\ \A j \in Instance : Len(queue'[j]) <= MaxSize
<1>1. queue[i] \in Seq(Request) /\ queue[i] # <<>> /\ at' = at /\ MaxSize \in Nat
  BY QueueAssumption DEF Dequeue, TypeInv, request
<1>2. queue'[i] = Tail(queue[i]) /\ \A j \in Instance : j # i => queue'[j] = queue[j]
  BY DEF Dequeue, TypeInv
<1>3. st' = [st EXCEPT ![queue[i][1]] = "taken"]
  BY <1>1, TailFacts DEF Dequeue, Goto
<1>4. \A p \in Request : st'[p] = "queued" => st[p] = "queued" /\ p # queue[i][1]
  BY <1>3 DEF TypeInv
<1>5. /\ Len(queue[i]) \in Nat /\ Len(queue'[i]) = Len(queue[i]) - 1
      /\ \A n \in 1..Len(queue[i]) : n # 1 => n - 1 \in 1..Len(queue'[i]) /\ queue'[i][n - 1] = queue[i][n]
  BY <1>1, <1>2
<1>6. ASSUME NEW p \in Request, st'[p] = "queued"
      PROVE  \E n \in 1..Len(queue'[at[p]]) : queue'[at[p]][n] = p
  <2>1. at[p] \in Instance
    BY <1>4, <1>6 DEF TypeInv
  <2>2. PICK n \in 1..Len(queue[at[p]]) : queue[at[p]][n] = p
    BY <1>4, <1>6 DEF PlaceInv
  <2>3. CASE at[p] = i
    <3>1. n # 1
      BY <1>4, <1>6, <2>2, <2>3
    <3> QED BY <1>5, <2>2, <2>3, <3>1
  <2> QED BY <1>2, <2>1, <2>2, <2>3
<1>7. \A j \in Instance : Len(queue'[j]) <= MaxSize
  <2>1. Len(queue[i]) <= MaxSize /\ Len(queue'[i]) \in Int
    BY <1>5 DEF BoundInv
  <2>2. Len(queue'[i]) <= MaxSize
    BY <1>1, <1>5, <2>1
  <2> QED BY <1>2, <2>2 DEF BoundInv
<1>8. PlaceInv'
  BY <1>1, <1>6 DEF PlaceInv
<1> QED BY <1>7, <1>8

LEMMA StopPlaces ==
    ASSUME TypeInv, PlaceInv, BoundInv, NEW u \in User, NEW i \in Instance, Stop(u, i)
    PROVE  PlaceInv' /\ \A j \in Instance : Len(queue'[j]) <= MaxSize
<1>1. queue[i] \in Seq(Request) /\ at' = at /\ MaxSize \in Nat
  BY QueueAssumption DEF Stop, TypeInv, request
<1>2. CASE UNCHANGED <<queue, st>>
  BY <1>1, <1>2 DEF PlaceInv, BoundInv
<1>3. ASSUME NEW n \in Oldest(u, queue[i]),
             queue' = [queue EXCEPT ![i] = Without(@, n)], Goto(queue[i][n], "release")
      PROVE  PlaceInv' /\ \A j \in Instance : Len(queue'[j]) <= MaxSize
  <2>1. n \in 1..Len(queue[i]) /\ Len(queue[i]) \in Nat
    BY <1>1 DEF Oldest
  <2>2. queue'[i] = Without(queue[i], n) /\ \A j \in Instance : j # i => queue'[j] = queue[j]
    BY <1>3 DEF TypeInv
  <2>3. \A p \in Request : st'[p] = "queued" => st[p] = "queued" /\ p # queue[i][n]
    BY <1>3 DEF Goto, TypeInv
  <2>4. /\ Len(queue'[i]) = Len(queue[i]) - 1
        /\ \A k \in 1..(Len(queue[i]) - 1) :
               queue'[i][k] = IF k < n THEN queue[i][k] ELSE queue[i][k + 1]
    BY <1>1, <2>1, <2>2, WithoutFacts
  <2>5. ASSUME NEW p \in Request, st'[p] = "queued"
        PROVE  \E k \in 1..Len(queue'[at[p]]) : queue'[at[p]][k] = p
    <3>1. at[p] \in Instance
      BY <2>3, <2>5 DEF TypeInv
    <3>2. PICK k \in 1..Len(queue[at[p]]) : queue[at[p]][k] = p
      BY <2>3, <2>5 DEF PlaceInv
    <3>3. CASE at[p] = i /\ k < n
      <4>1. k \in 1..Len(queue'[i]) /\ queue'[i][k] = p
        BY <2>1, <2>4, <3>2, <3>3
      <4> QED BY <3>3, <4>1
    <3>4. CASE at[p] = i /\ ~(k < n)
      <4>1. k # n
        BY <2>3, <2>5, <3>2, <3>4
      <4>2. k - 1 \in 1..(Len(queue[i]) - 1) /\ ~(k - 1 < n) /\ (k - 1) + 1 = k
        BY <2>1, <3>2, <3>4, <4>1
      <4>3. k - 1 \in 1..Len(queue'[i]) /\ queue'[i][k - 1] = p
        BY <2>4, <3>2, <3>4, <4>2
      <4> QED BY <3>4, <4>3
    <3> QED BY <2>2, <3>1, <3>2, <3>3, <3>4
  <2>6. \A j \in Instance : Len(queue'[j]) <= MaxSize
    BY <1>1, <2>1, <2>2, <2>4 DEF BoundInv
  <2> QED BY <1>1, <2>5, <2>6 DEF PlaceInv
<1> QED BY <1>2, <1>3 DEF Stop

LEMMA CrashPlaces ==
    ASSUME TypeInv, PlaceInv, BoundInv, NEW i \in Instance, Crash(i)
    PROVE  PlaceInv' /\ \A j \in Instance : Len(queue'[j]) <= MaxSize
<1>1. \A j \in Instance : queue'[j] = IF j = i THEN <<>> ELSE queue[j]
  BY DEF Crash, TypeInv
<1>2. at' = at /\ \A q \in Request : st'[q] = "queued" => st[q] = "queued" /\ at[q] # i
  BY DEF Crash, TypeInv, Counted, request
<1>3. \A q \in Request : st[q] = "queued" => at[q] \in Instance
  BY DEF TypeInv
<1>4. Len(<<>>) <= MaxSize
  BY QueueAssumption
<1>5. PlaceInv'
  BY <1>1, <1>2, <1>3 DEF PlaceInv
<1> QED BY <1>1, <1>4, <1>5 DEF BoundInv

LEMMA PlaceStep ==
    ASSUME TypeInv, PlaceInv, BoundInv, Next
    PROVE  PlaceInv' /\ \A i \in Instance : Len(queue'[i]) <= MaxSize
<1>1. CASE PlacesKept
  BY <1>1 DEF PlacesKept, PlaceInv, BoundInv
<1> QED BY <1>1, QueueShapes, EnqueuePlaces, DequeuePlaces, StopPlaces, CrashPlaces

LEMMA SetsStep ==
    ASSUME TypeInv, BoundInv, Next
    PROVE  fresh' \subseteq Request /\ closed' \subseteq Instance /\ marker' \subseteq User
<1>1. ASSUME NEW q \in Request, CallerStep(q) \/ WorkerStep(q)
      PROVE  fresh' \subseteq fresh /\ closed' = closed /\ marker' \subseteq marker
  BY <1>1 DEF CallerStep, WorkerStep, Refuse, Release, Leave, Enqueue, Discard, Wait, Acquire, Starts,
              GiveUp, Finish, FreeGate, GivesBack, local, redis
<1>2. ASSUME NEW q \in Request, NEW u \in User, NEW i \in Instance, Arrive(q, u, i)
      PROVE  fresh' = fresh \cup {q} /\ closed' = closed /\ marker' = marker
  BY <1>2 DEF Arrive, local
<1>3. ASSUME NEW i \in Instance, Dequeue(i) \/ Disconnect(i) \/ Close(i) \/ Crash(i)
      PROVE  fresh' \subseteq fresh /\ closed' \subseteq closed \cup {i} /\ marker' = marker
  BY <1>3 DEF Dequeue, Disconnect, Close, Crash, local, redis
<1>4. ASSUME NEW u \in User, ForgetStop(u) \/ ExpireUser(u) \/ \E i \in Instance : Stop(u, i)
      PROVE  fresh' \subseteq fresh /\ closed' = closed /\ marker' \subseteq marker \cup {u}
  BY <1>4 DEF ForgetStop, ExpireUser, Stop, local
<1>5. ASSUME ExpireGate PROVE fresh' = fresh /\ closed' = closed /\ marker' = marker
  BY <1>5 DEF ExpireGate, local
<1> QED BY <1>1, <1>2, <1>3, <1>4, <1>5 DEF Next, BoundInv

\* A queue is a bijection from its positions to the requests queued at the instance.
LEMMA QueueIsBijective ==
    ASSUME TypeInv, QueueInv, PlaceInv, NEW i \in Instance
    PROVE  /\ Len(queue[i]) = Cardinality(QueuedAt(i))
           /\ {queue[i][n] : n \in DOMAIN queue[i]} = QueuedAt(i)
<1>1. queue[i] \in Seq(Request) /\ Len(queue[i]) \in Nat /\ DOMAIN queue[i] = 1..Len(queue[i])
  BY DEF TypeInv
<1>2. \A n \in 1..Len(queue[i]) : queue[i][n] \in QueuedAt(i)
  BY <1>1 DEF QueueInv, QueuedAt
<1>3. \A q \in QueuedAt(i) : \E n \in 1..Len(queue[i]) : queue[i][n] = q
  BY DEF PlaceInv, QueuedAt
<1>4. \A m, n \in 1..Len(queue[i]) : m # n => queue[i][m] # queue[i][n]
  BY DEF QueueInv
<1>5. queue[i] = [n \in 1..Len(queue[i]) |-> queue[i][n]]
  BY <1>1
<1>6. queue[i] \in [1..Len(queue[i]) -> QueuedAt(i)]
  BY <1>2, <1>5
<1>7. queue[i] \in Bijection(1..Len(queue[i]), QueuedAt(i))
  <2>1. IsInjective(queue[i])
    BY <1>1, <1>4 DEF IsInjective
  <2> QED BY <1>3, <1>6, <2>1 DEF Bijection, Injection, Surjection
<1>8. ExistsBijection(1..Len(queue[i]), QueuedAt(i))
  BY <1>7 DEF ExistsBijection
<1> QED BY <1>1, <1>2, <1>3, <1>8, FS_CountingElements

\* Each queue holds every request queued at its instance exactly once, and never more
\* than its capacity, whatever /stop removes from the middle (qaQueue.Enqueue and Remove).
THEOREM QueuesHold == Spec => []TypeOK
<1>1. Init => PlaceInv /\ BoundInv
  <2>1. Len(<<>>) <= MaxSize
    BY QueueAssumption
  <2> QED BY <2>1 DEF Init, PlaceInv, BoundInv
<1>2. Inv /\ PlaceInv /\ BoundInv /\ [Next]_vars => PlaceInv' /\ BoundInv'
  <2> SUFFICES ASSUME Inv, PlaceInv, BoundInv, [Next]_vars PROVE PlaceInv' /\ BoundInv'
    OBVIOUS
  <2>1. CASE Next
    BY <2>1, PlaceStep, SetsStep DEF Inv, BoundInv
  <2>2. CASE UNCHANGED vars
    BY <2>2 DEF vars, request, local, redis, PlaceInv, BoundInv
  <2> QED BY <2>1, <2>2
<1>3. Inv /\ PlaceInv /\ BoundInv => TypeOK
  <2> SUFFICES ASSUME Inv, PlaceInv, BoundInv PROVE TypeOK
    OBVIOUS
  <2>1. \A i \in Instance :
          /\ Len(queue[i]) = Cardinality(QueuedAt(i))
          /\ {queue[i][n] : n \in DOMAIN queue[i]} = QueuedAt(i)
    BY QueueIsBijective DEF Inv
  <2> QED BY <2>1 DEF Inv, TypeInv, BoundInv, TypeOK
<1> QED BY <1>1, <1>2, <1>3, Invariance, PTL DEF Spec
=============================================================================
