------------------------------- MODULE QAQueue -------------------------------
(***************************************************************************)
(* Questions from chat platforms (im/qaqueue.go, the worker's handler and  *)
(* the /stop command of im/service.go).  Every instance has a bounded      *)
(* queue and a pool of workers; Redis holds, for all instances, a counter  *)
(* of each user's requests, a gate that counts executing requests and a    *)
(* marker that a /stop leaves behind.  A slot is taken and given back by   *)
(* separate commands, an error is ignored, a key may expire.               *)
(*                                                                         *)
(* A body under the queue's mutex is one step; a Redis command, which the  *)
(* other instances see, is a step of its own.                              *)
(***************************************************************************)
EXTENDS Integers, FiniteSets, Sequences

CONSTANTS Instance, User, Request,
          None,
          MaxSize,        \* maxSize: capacity of a queue
          MaxPerUser,     \* maxPerUser
          Workers,        \* workers of an instance
          GlobalMax,      \* globalMaxWorkers
          MaxCut,         \* bound on closed connections
          MaxFault        \* bound on Redis errors, expired keys and crashed instances

ASSUME QueueAssumption ==
    /\ IsFiniteSet(Request) /\ None \notin Request
    /\ {MaxSize, MaxPerUser, Workers, GlobalMax} \subseteq Nat \ {0}
    /\ {MaxCut, MaxFault} \subseteq Nat

VARIABLES st, who, at,                \* of a request: where it is, its user, its instance
          gone,                       \* unfinished requests whose context is cancelled
          queue, inflight, closed,    \* of an instance
          userCount, gate, marker,    \* Redis
          fresh,                      \* history: requests that came after their user's last /stop
          cuts, faults

request == <<who, at>>
local   == <<queue, inflight, closed>>
redis   == <<userCount, gate, marker>>
vars    == <<st, request, gone, local, redis, fresh, cuts, faults>>

Counted  == {"over", "counted", "queued", "taken", "waiting", "running", "degate", "leave", "release"}
Executes == {"running", "degate"}
Busy     == {"taken", "waiting", "leave"} \cup Executes
States   == Counted \cup {"new", "ended", "lost"}

Of(u)     == {q \in Request : who[q] = u}
BusyAt(i) == {q \in Request : at[q] = i /\ st[q] \in Busy}
Holders   == {q \in Request : st[q] \in Executes}

Init ==
    /\ st = [q \in Request |-> "new"]
    /\ who = [q \in Request |-> None] /\ at = [q \in Request |-> None]
    /\ gone = {} /\ fresh = {} /\ closed = {} /\ marker = {}
    /\ queue = [i \in Instance |-> <<>>]
    /\ inflight = [i \in Instance |-> [u \in User |-> None]]
    /\ userCount = [u \in User |-> 0]
    /\ gate = 0 /\ cuts = 0 /\ faults = 0

Goto(q, l)  == st' = [st EXCEPT ![q] = l]
Fault       == faults < MaxFault /\ faults' = faults + 1
Counts(u,n) == userCount' = [userCount EXCEPT ![u] = @ + n]

\* redisDecrUser and the end of the request; nobody looks at an error of the DECR.
GivesBack(q) ==
    /\ Goto(q, "ended")
    /\ gone' = gone \ {q} /\ fresh' = fresh \ {q}
    /\ \/ Counts(who[q], -1) /\ UNCHANGED faults
       \/ Fault /\ UNCHANGED userCount
    /\ UNCHANGED <<request, local, gate, marker, cuts>>

-----------------------------------------------------------------------------
(* Enqueue.                                                                *)

\* A message of user u reaches instance i: redisCheckAndIncrUser; an error lets
\* the request through uncounted.
Arrive(q, u, i) ==
    /\ st[q] = "new"
    /\ who' = [who EXCEPT ![q] = u] /\ at' = [at EXCEPT ![q] = i]
    /\ fresh' = fresh \cup {q}
    /\ \/ /\ Counts(u, 1) /\ UNCHANGED faults
          /\ Goto(q, IF userCount[u] + 1 > MaxPerUser THEN "over" ELSE "counted")
       \/ Fault /\ Goto(q, "counted") /\ UNCHANGED userCount
    /\ UNCHANGED <<gone, local, gate, marker, cuts>>

\* Over the limit: the slot goes back.
Refuse(q) == st[q] = "over" /\ GivesBack(q)

\* Mutant: one too many.
EnqueueOver(q) ==
    /\ st[q] = "counted"
    /\ IF at[q] \in closed \/ Len(queue[at[q]]) > MaxSize
       THEN Goto(q, "release") /\ UNCHANGED queue
       ELSE Goto(q, "queued") /\ queue' = [queue EXCEPT ![at[q]] = Append(@, q)]
    /\ UNCHANGED <<request, gone, inflight, closed, redis, fresh, cuts, faults>>

\* Under the lock: a closed or full queue gives the slot back.
Enqueue(q) ==
    /\ st[q] = "counted"
    /\ IF at[q] \in closed \/ Len(queue[at[q]]) >= MaxSize
       THEN Goto(q, "release") /\ UNCHANGED queue
       ELSE Goto(q, "queued") /\ queue' = [queue EXCEPT ![at[q]] = Append(@, q)]
    /\ UNCHANGED <<request, gone, inflight, closed, redis, fresh, cuts, faults>>

\* The slot of a request that was rejected or removed.
Release(q) == st[q] = "release" /\ GivesBack(q)

-----------------------------------------------------------------------------
(* runWorker.                                                              *)

\* Mutant: a closed queue is not worked off.
DequeueOpen(i) ==
    /\ i \notin closed
    /\ queue[i] # <<>> /\ Cardinality(BusyAt(i)) < Workers
    /\ queue' = [queue EXCEPT ![i] = Tail(@)]
    /\ Goto(Head(queue[i]), "taken")
    /\ UNCHANGED <<request, gone, inflight, closed, redis, fresh, cuts, faults>>

\* dequeue: a free worker takes the oldest request, of a closed queue too.
Dequeue(i) ==
    /\ queue[i] # <<>> /\ Cardinality(BusyAt(i)) < Workers
    /\ queue' = [queue EXCEPT ![i] = Tail(@)]
    /\ Goto(Head(queue[i]), "taken")
    /\ UNCHANGED <<request, gone, inflight, closed, redis, fresh, cuts, faults>>

\* Mutant: the slot is kept.
DiscardOnly(q) ==
    /\ st[q] = "taken" /\ Goto(q, "ended")
    /\ gone' = gone \ {q} /\ fresh' = fresh \ {q}
    /\ UNCHANGED <<request, local, redis, cuts, faults>>

\* Cancelled, or older than queueTimeout: discarded.
Discard(q) ==
    /\ st[q] = "taken" /\ Goto(q, "leave")
    /\ UNCHANGED <<request, gone, local, redis, fresh, cuts, faults>>

Wait(q) ==
    /\ st[q] = "taken" /\ q \notin gone /\ Goto(q, "waiting")
    /\ UNCHANGED <<request, gone, local, redis, fresh, cuts, faults>>

\* The head of executeQARequest: registers for /stop, then takes a marker.
Starts(q) ==
    \/ /\ who[q] \in marker
       /\ Goto(q, "degate") /\ marker' = marker \ {who[q]}
       /\ inflight' = [inflight EXCEPT ![at[q]][who[q]] = None]
    \/ /\ who[q] \notin marker \/ q \in gone
       /\ Goto(q, "running") /\ UNCHANGED marker
       /\ inflight' = [inflight EXCEPT ![at[q]][who[q]] = q]

\* Mutant: compares before it counts.
AcquireOver(q) ==
    /\ st[q] = "waiting"
    /\ q \notin gone /\ gate <= GlobalMax
    /\ gate' = gate + 1 /\ Starts(q)
    /\ UNCHANGED <<request, gone, queue, closed, userCount, fresh, cuts, faults>>

\* globalGateScript: INCR, and DECR again above the limit, in one command.  An
\* error starts the request without a slot; a cancelled context is an error, of
\* this command and of the one that looks for a marker.
Acquire(q) ==
    /\ st[q] = "waiting"
    /\ \/ /\ q \notin gone /\ gate < GlobalMax
          /\ gate' = gate + 1 /\ Starts(q) /\ UNCHANGED faults
       \/ q \notin gone /\ Fault /\ Starts(q) /\ UNCHANGED gate
       \/ /\ q \in gone /\ Starts(q) /\ st'[q] = "running"
          /\ UNCHANGED <<gate, faults>>
    /\ UNCHANGED <<request, gone, queue, closed, userCount, fresh, cuts>>

\* The context ends while the worker waits for the next attempt.
GiveUp(q) ==
    /\ st[q] = "waiting" /\ q \in gone /\ Goto(q, "leave")
    /\ UNCHANGED <<request, gone, local, redis, fresh, cuts, faults>>

\* The handler returns; its deferred Delete goes by user.
Finish(q) ==
    /\ st[q] = "running" /\ Goto(q, "degate")
    /\ inflight' = [inflight EXCEPT ![at[q]][who[q]] = None]
    /\ UNCHANGED <<request, gone, queue, closed, redis, fresh, cuts, faults>>

\* releaseGlobalGate, whether the request had a slot or not.
FreeGate(q) ==
    /\ st[q] = "degate" /\ Goto(q, "leave")
    /\ \/ gate' = gate - 1 /\ UNCHANGED faults
       \/ Fault /\ UNCHANGED gate
    /\ UNCHANGED <<request, gone, local, userCount, marker, fresh, cuts>>

Leave(q) == st[q] = "leave" /\ GivesBack(q)

-----------------------------------------------------------------------------
(* Outside.                                                                *)

\* Positions of the user's oldest request in s.
Oldest(u, s)  == {n \in DOMAIN s : s[n] \in Of(u) /\ \A k \in 1..(n - 1) : s[k] \notin Of(u)}
Without(s, n) == SubSeq(s, 1, n - 1) \o SubSeq(s, n + 1, Len(s))

\* /stop on instance i: the user's oldest queued request there, else the one in
\* flight there, else nothing here (a stop event ends a handler elsewhere); the
\* marker is left in each case.
Stop(u, i) ==
    /\ marker' = marker \cup {u}
    /\ fresh' = fresh \ Of(u)
    /\ \/ \E n \in Oldest(u, queue[i]) :
            /\ queue' = [queue EXCEPT ![i] = Without(@, n)]
            /\ Goto(queue[i][n], "release")
            /\ UNCHANGED <<inflight, gone>>
       \/ /\ Oldest(u, queue[i]) = {}
          /\ gone' = gone \cup ({inflight[i][u]} \ {None})
          /\ inflight' = [inflight EXCEPT ![i][u] = None]
          /\ UNCHANGED <<queue, st>>
    /\ UNCHANGED <<request, closed, userCount, gate, cuts, faults>>

\* stopMarkerTTL.
ForgetStop(u) ==
    /\ u \in marker /\ marker' = marker \ {u}
    /\ UNCHANGED <<st, request, gone, local, userCount, gate, fresh, cuts, faults>>

\* A channel of the instance is stopped or restarted: the contexts of its
\* messages end.
Disconnect(i) ==
    /\ cuts < MaxCut /\ cuts' = cuts + 1
    /\ gone' = gone \cup {q \in Request : at[q] = i /\ st[q] \in {"queued", "taken", "waiting", "running"}}
    /\ UNCHANGED <<st, request, local, redis, fresh, faults>>

\* qaQueue.Stop: no more requests, the queued ones are still worked off.
Close(i) ==
    /\ i \notin closed /\ closed' = closed \cup {i}
    /\ UNCHANGED <<st, request, gone, queue, inflight, redis, fresh, cuts, faults>>

\* redisQueueUserTTL, counted from the user's last request.
ExpireUser(u) ==
    /\ userCount[u] # 0 /\ Fault
    /\ userCount' = [userCount EXCEPT ![u] = 0]
    /\ UNCHANGED <<st, request, gone, local, gate, marker, fresh, cuts>>

\* globalGateTTL; each attempt of a waiting worker, twice a second, renews it.
ExpireGate ==
    /\ gate # 0 /\ \A q \in Request : st[q] # "waiting"
    /\ gate' = 0
    /\ UNCHANGED <<st, request, gone, local, userCount, marker, fresh, cuts>>

\* The instance dies and starts again; what it held in Redis stays.
Crash(i) ==
    LET dead == {q \in Request : at[q] = i /\ st[q] \in Counted} IN
    /\ Fault
    /\ st' = [q \in Request |-> IF q \in dead THEN "lost" ELSE st[q]]
    /\ gone' = gone \ dead /\ fresh' = fresh \ dead
    /\ queue' = [queue EXCEPT ![i] = <<>>]
    /\ inflight' = [inflight EXCEPT ![i] = [u \in User |-> None]]
    /\ closed' = closed \ {i}
    /\ UNCHANGED <<request, redis, cuts>>

-----------------------------------------------------------------------------
CallerStep(q) == Refuse(q) \/ Enqueue(q) \/ Release(q)
WorkerStep(q) ==
    Discard(q) \/ Wait(q) \/ Acquire(q) \/ GiveUp(q) \/ Finish(q) \/ FreeGate(q) \/ Leave(q)

Next ==
    \/ \E q \in Request : CallerStep(q) \/ WorkerStep(q) \/ \E u \in User, i \in Instance : Arrive(q, u, i)
    \/ \E i \in Instance : Dequeue(i) \/ Disconnect(i) \/ Close(i) \/ Crash(i)
    \/ \E u \in User : ForgetStop(u) \/ ExpireUser(u) \/ \E i \in Instance : Stop(u, i)
    \/ ExpireGate /\ Fault

Spec == Init /\ [][Next]_vars

\* The handler "must not block indefinitely" (service.go:1941); a waiting worker
\* tries again every globalGateRetryInterval, a free one waits for work.
FairSpec ==
    /\ Spec
    /\ \A q \in Request : WF_vars(CallerStep(q)) /\ WF_vars(WorkerStep(q))
    /\ \A i \in Instance : WF_vars(Dequeue(i))

-----------------------------------------------------------------------------
QueuedAt(i) == {q \in Request : at[q] = i /\ st[q] = "queued"}

\* Types; a queue stays within its capacity and holds each queued request once.
TypeOK ==
    /\ st \in [Request -> States]
    /\ who \in [Request -> User \cup {None}] /\ at \in [Request -> Instance \cup {None}]
    /\ {gone, fresh} \subseteq SUBSET Request
    /\ closed \subseteq Instance /\ marker \subseteq User
    /\ inflight \in [Instance -> [User -> Request \cup {None}]]
    /\ userCount \in [User -> Int] /\ {gate, cuts, faults} \subseteq Int
    /\ \A i \in Instance :
          /\ Len(queue[i]) <= MaxSize /\ Len(queue[i]) = Cardinality(QueuedAt(i))
          /\ {queue[i][n] : n \in DOMAIN queue[i]} = QueuedAt(i)

Owes(u) == {q \in Of(u) : st[q] \in Counted}

\* Without Redis errors, expiry or crashes a user's counter is the number of the
\* user's requests that still have to give their slot back, on all instances and
\* whichever way a request ends: rejected, removed, discarded or executed.
UserSlots == faults = 0 => \A u \in User : userCount[u] = Cardinality(Owes(u))

\* Nor do more than GlobalMax requests execute, or more than MaxPerUser of a user
\* go past the counter, on all instances together, while no connection closes.
LimitsHold ==
    faults = 0 =>
        /\ cuts = 0 => Cardinality(Holders) <= GlobalMax
        /\ \A u \in User : Cardinality({q \in Owes(u) : st[q] # "over"}) <= MaxPerUser

\* A slot of the gate that nobody is going to give back.
Leaked == gate > Cardinality(Holders)

\* An accepted question comes to an end: it is executed, removed or discarded, also
\* while connections close, instances shut down, keys expire and commands fail;
\* except when its instance died or a slot of the gate was lost.
QuestionsEnd ==
    \A q \in Request : st[q] = "queued" ~> (st[q] \in {"ended", "lost"} \/ Leaked)

\* "Check if a pre-execution /stop was issued while this request was queued."
\* (service.go:1951): a question that came after its user's last /stop is not
\* ended by that /stop.
StopSparesLater ==
    [][\A q \in fresh : st[q] = "waiting" => st'[q] # "degate"]_vars

\* "Returns true if the slot was acquired, false if ctx was cancelled while waiting."
\* (qaqueue.go:316): the gate bounds executing requests, closed connections or not.
GateHolds == faults = 0 => Cardinality(Holders) <= GlobalMax

\* "Track in-flight request so /stop can cancel it." (service.go:1946): a request
\* that runs can be found by its user's /stop on its instance, until one was given.
InflightTracks ==
    \A q \in fresh : st[q] = "running" => inflight[at[q]][who[q]] # None

\* "if all instances crash without decrementing, the counter self-heals after this
\* duration." (qaqueue.go:27-28): a lost slot of the gate comes back.
GateHeals == Leaked ~> ~Leaked

\* Here the key expires whenever it may, beyond MaxFault.
Heal     == ExpireGate /\ UNCHANGED faults
HealSpec ==
    /\ Init /\ [][Next \/ Heal]_vars /\ WF_vars(Heal)
    /\ \A q \in Request : WF_vars(CallerStep(q)) /\ WF_vars(WorkerStep(q))
    /\ \A i \in Instance : WF_vars(Dequeue(i))
=============================================================================
