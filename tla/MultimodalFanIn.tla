--------------------------- MODULE MultimodalFanIn ---------------------------
(***************************************************************************)
(* The images of one document.  The process task seeds a counter with the  *)
(* number of images, enqueues one task for each and gives back the slots   *)
(* whose task the queue refused; each image task takes one slot when it    *)
(* ends for good, and whoever brings the counter to zero hands the         *)
(* document to post-process.  All runs of the process task on a document   *)
(* share the one Redis key multimodal:pending:<id>.                        *)
(*                                                                         *)
(* A `run' is one execution of the fan-out: the first one, the execution   *)
(* after a redelivery, the one of a reparse.  A missing key reads as zero, *)
(* so deleting it and writing zero are the same step.                      *)
(***************************************************************************)
EXTENDS Integers, FiniteSets

CONSTANTS Images,         \* number of images of the document
          MaxRun,         \* bound on runs of the fan-out
          Carries,        \* does the first task's payload carry an attempt (a reparse)
          MaxRetry,       \* redeliveries of an image task
          MaxRefused,     \* bound on image tasks the queue refuses
          MaxFault        \* bound on Redis errors, crashes, retried images, refused
                          \* post-process tasks

ASSUME FanInAssumption ==
    /\ {Images, MaxRun} \subseteq Nat \ {0}
    /\ Carries \in BOOLEAN
    /\ {MaxRetry, MaxRefused, MaxFault} \subseteq Nat

Image == 1..Images
Run   == 1..MaxRun
Task  == Run \X Image

ReleaseAttempts == 3      \* multimodalSlotReleaseAttempts

VARIABLES counter,            \* the Redis key
          latest, runs,       \* newest attempt, runs started
          fan, attempt,       \* where each run is, the attempt it works for
          carries,            \* does its task's payload carry that attempt
          seeded, tried,      \* the run's counterSeeded; its failed releases
          img, tries, spent,  \* image tasks; the ones whose next error is their last
          handed,             \* post-process tasks enqueued, by attempt
          owner,              \* ghost: the run the counter was last seeded for
          counted,            \* ghost: tasks that took a slot
          refused, retriable, faults

runVars == <<fan, attempt, carries, seeded, tried>>
imgVars == <<img, tries, spent, counted>>
used    == <<refused, retriable, faults>>
vars    == <<counter, latest, runs, runVars, imgVars, handed, owner, used>>

Fan == {"none", "seed", "enqueue", "direct", "release", "last", "forget", "ended", "failed", "gaveup"}
Pc  == {"none", "refused", "queued", "count", "hand", "fallback", "forget",
        "done", "archived"}

Superseded(r) == attempt[r] < latest
Unowned(r)    == {i \in Image : img[<<r, i>>] = "refused"}

Init ==
    /\ counter = 0
    /\ latest = 1 /\ runs = 1
    /\ fan = [r \in Run |-> IF r = 1 THEN "seed" ELSE "none"]
    /\ attempt = [r \in Run |-> 1]
    /\ carries = [r \in Run |-> Carries]
    /\ seeded = {} /\ tried = [r \in Run |-> 0]
    /\ img = [t \in Task |-> "none"]
    /\ tries = [t \in Task |-> 0]
    /\ spent = {} /\ counted = {}
    /\ handed = [a \in 1..MaxRun |-> 0]
    /\ owner = 0
    /\ refused = 0 /\ retriable = 0 /\ faults = 0

Fault == faults + retriable < MaxFault /\ faults' = faults + 1

\* A Redis command that returns an error has had its effect, or has not.
RedisFails(effect) ==
    /\ Fault
    /\ counter' \in {counter, effect}

Deletes == (counter' = 0 /\ UNCHANGED faults) \/ RedisFails(0)   \* the error is ignored

\* enqueueWithRetry: three tries, then an error.
Enqueues(r) == handed' = [handed EXCEPT ![attempt[r]] = @ + 1]
Fails       == faults + retriable < MaxFault /\ retriable' = retriable + 1

Step(r, l) == fan' = [fan EXCEPT ![r] = l]
Goto(t, l) == img' = [img EXCEPT ![t] = l]

-----------------------------------------------------------------------------
(* enqueueImageMultimodalTasks.                                            *)

\* Mutant: adds to what an earlier run left instead of setting.
SeedAdds(r) ==
    /\ fan[r] = "seed"
    /\ Step(r, "enqueue")
    /\ counter' = counter + Images /\ seeded' = seeded \cup {r} /\ owner' = r
    /\ UNCHANGED <<latest, runs, attempt, carries, tried, imgVars, handed, used>>

Seed(r) ==
    /\ fan[r] = "seed"
    /\ Step(r, "enqueue")
    /\ \/ counter' = Images /\ seeded' = seeded \cup {r} /\ owner' = r /\ UNCHANGED faults
       \/ RedisFails(Images) /\ owner' = 0 /\ UNCHANGED seeded
    /\ UNCHANGED <<latest, runs, attempt, carries, tried, imgVars, handed, refused, retriable>>

EnqueueImage(t) ==
    /\ fan[t[1]] = "enqueue" /\ img[t] = "none"
    /\ \A i \in 1..(t[2] - 1) : img[<<t[1], i>>] # "none"
    /\ \/ Goto(t, "queued") /\ UNCHANGED refused
       \/ /\ refused < MaxRefused
          /\ refused' = refused + 1
          /\ Goto(t, "refused")
    /\ UNCHANGED <<counter, latest, runs, runVars, tries, spent, counted, handed, owner,
                   retriable, faults>>

\* The head of releaseUnownedMultimodalSlots.
EndFanOut(r) ==
    /\ fan[r] = "enqueue" /\ \A i \in Image : img[<<r, i>>] # "none"
    /\ \/ /\ Unowned(r) = Image
          /\ Step(r, "direct")
          /\ IF r \in seeded THEN Deletes ELSE UNCHANGED <<counter, faults>>
       \/ /\ Unowned(r) # Image
          /\ Step(r, IF Unowned(r) = {} \/ r \notin seeded THEN "ended" ELSE "release")
          /\ UNCHANGED <<counter, faults>>
    /\ UNCHANGED <<latest, runs, attempt, carries, seeded, tried, imgVars, handed, owner,
                   refused, retriable>>

\* Mutant: hands over although one image is still to come.
ReleaseEarly(r) ==
    /\ fan[r] = "release"
    /\ counter' = counter - Cardinality(Unowned(r))
    /\ Step(r, IF counter' <= 1 THEN "last" ELSE "ended")
    /\ UNCHANGED <<latest, runs, attempt, carries, seeded, tried, imgVars, handed, owner, used>>

\* DECRBY of the slots whose task was never enqueued, tried three times.
Release(r) ==
    /\ fan[r] = "release"
    /\ LET left == counter - Cardinality(Unowned(r)) IN
       \/ /\ counter' = left
          /\ Step(r, IF left <= 0 THEN "last" ELSE "ended")
          /\ UNCHANGED <<tried, faults>>
       \/ /\ RedisFails(left)
          /\ tried' = [tried EXCEPT ![r] = @ + 1]
          /\ IF tried'[r] = ReleaseAttempts THEN Step(r, "gaveup") ELSE UNCHANGED fan
    /\ UNCHANGED <<latest, runs, attempt, carries, seeded, imgVars, handed, owner, refused, retriable>>

HandOverRun(r) ==
    /\ fan[r] \in {"direct", "last"}
    /\ Enqueues(r)
    /\ Step(r, IF fan[r] = "last" THEN "forget" ELSE "ended")
    /\ UNCHANGED <<counter, latest, runs, attempt, carries, seeded, tried, imgVars, owner, used>>

ForgetRun(r) ==
    /\ fan[r] = "forget"
    /\ Step(r, "ended")
    /\ Deletes
    /\ UNCHANGED <<latest, runs, attempt, carries, seeded, tried, imgVars, handed, owner,
                   refused, retriable>>

\* The process task is redelivered.  A reparse's payload carries its attempt; an
\* upload's does not, and opens the next.  Redelivered after a reparse it is dropped.
Redeliver(r) ==
    IF carries[r] /\ Superseded(r)
    THEN Step(r, "failed") /\ UNCHANGED <<latest, runs, attempt, carries>>
    ELSE IF runs = MaxRun
    THEN Step(r, "gaveup") /\ UNCHANGED <<latest, runs, attempt, carries>>
    ELSE LET a == IF carries[r] THEN attempt[r] ELSE latest + 1 IN
         /\ runs' = runs + 1 /\ latest' = a
         /\ fan' = [fan EXCEPT ![r] = "failed", ![runs + 1] = "seed"]
         /\ attempt' = [attempt EXCEPT ![runs + 1] = a]
         /\ carries' = [carries EXCEPT ![runs + 1] = carries[r]]

HandOverRunFails(r) ==
    /\ fan[r] \in {"direct", "last"}
    /\ Fails
    /\ Redeliver(r)
    /\ UNCHANGED <<counter, seeded, tried, imgVars, handed, owner, refused, faults>>

CrashRun(r) ==
    /\ fan[r] \notin {"none", "ended", "failed", "gaveup"}
    /\ Fault
    /\ Redeliver(r)
    /\ UNCHANGED <<counter, seeded, tried, imgVars, handed, owner, refused, retriable>>

-----------------------------------------------------------------------------
(* ReparseKnowledge: the old run's queued tasks go, if the queue can be    *)
(* asked; the new run has the next attempt.  Its key is the old one's.     *)

Reparse ==
    /\ runs < MaxRun
    /\ runs' = runs + 1 /\ latest' = latest + 1
    /\ Step(runs + 1, "seed")
    /\ attempt' = [attempt EXCEPT ![runs + 1] = latest + 1]
    /\ carries' = [carries EXCEPT ![runs + 1] = TRUE]
    /\ img' \in {img, [t \in Task |-> IF img[t] = "queued" THEN "done" ELSE img[t]]}
    /\ UNCHANGED <<counter, seeded, tried, tries, spent, counted, handed, owner, used>>

-----------------------------------------------------------------------------
(* ImageMultimodalService.Handle.                                          *)

Requeue(t) ==
    /\ Goto(t, "queued")
    /\ tries' = [tries EXCEPT ![t] = @ + 1]

Ends(t) ==
    /\ Goto(t, "done")
    /\ spent' = spent \ {t}

DropStale(t) ==
    /\ img[t] = "queued" /\ Superseded(t[1])
    /\ Goto(t, "done")
    /\ UNCHANGED <<counter, latest, runs, runVars, tries, spent, counted, handed, owner, used>>

\* Mutant: an image that failed for good is not counted.
ProcessUncounted(t) ==
    /\ img[t] = "queued" /\ ~Superseded(t[1])
    /\ Goto(t, IF tries[t] < MaxRetry THEN "count" ELSE "done")
    /\ UNCHANGED <<counter, latest, runs, runVars, tries, spent, counted, handed, owner, used>>

\* From the check of the attempt to the end of the image.  It counts if it went well
\* or was dropped as unwanted, on a SkipRetry error, and on its last delivery.
Process(t) ==
    /\ img[t] = "queued" /\ ~Superseded(t[1])
    /\ \/ Goto(t, "count") /\ spent' \in {spent, spent \cup {t}} /\ UNCHANGED <<tries, retriable>>
       \/ tries[t] < MaxRetry /\ Fails /\ Requeue(t) /\ UNCHANGED spent
    /\ UNCHANGED <<counter, latest, runs, runVars, counted, handed, owner, refused, faults>>

\* Mutant: the image before the last one hands over too.
CountEarly(t) ==
    /\ img[t] = "count"
    /\ counted' = counted \cup {t}
    /\ counter' = counter - 1
    /\ IF counter' > 1 THEN Ends(t) ELSE Goto(t, "hand") /\ UNCHANGED spent
    /\ UNCHANGED <<latest, runs, runVars, tries, handed, owner, used>>

\* checkAndFinalizeAllImages.
Count(t) ==
    /\ img[t] = "count"
    /\ counted' = counted \cup {t}
    /\ \/ /\ counter' = counter - 1
          /\ IF counter' > 0 THEN Ends(t) ELSE Goto(t, "hand") /\ UNCHANGED spent
          /\ UNCHANGED faults
       \/ RedisFails(counter - 1) /\ Goto(t, "fallback") /\ UNCHANGED spent
    /\ UNCHANGED <<latest, runs, runVars, tries, handed, owner, refused, retriable>>

HandOver(t) ==
    /\ img[t] \in {"hand", "fallback"}
    /\ Enqueues(t[1])
    /\ IF img[t] = "hand" THEN Goto(t, "forget") /\ UNCHANGED spent ELSE Ends(t)
    /\ UNCHANGED <<counter, latest, runs, runVars, tries, counted, owner, used>>

Forget(t) ==
    /\ img[t] = "forget"
    /\ Ends(t)
    /\ Deletes
    /\ UNCHANGED <<latest, runs, runVars, tries, counted, handed, owner, refused, retriable>>

\* A spent task returns the error of its image, and that one is not retried.
HandOverFails(t) ==
    /\ img[t] \in {"hand", "fallback"}
    /\ Fails
    /\ IF t \in spent \/ tries[t] >= MaxRetry
       THEN Goto(t, "archived") /\ UNCHANGED tries
       ELSE Requeue(t)
    /\ UNCHANGED <<counter, latest, runs, runVars, spent, counted, handed, owner, refused, faults>>

CrashImage(t) ==
    /\ img[t] \in {"count", "hand", "fallback", "forget"}
    /\ Fault
    /\ IF tries[t] < MaxRetry THEN Requeue(t) ELSE Goto(t, "archived") /\ UNCHANGED tries
    /\ spent' = spent \ {t}
    /\ UNCHANGED <<counter, latest, runs, runVars, counted, handed, owner, refused, retriable>>

-----------------------------------------------------------------------------
FanOutStep(r) ==
    \/ Seed(r) \/ EndFanOut(r) \/ Release(r)
    \/ HandOverRun(r) \/ HandOverRunFails(r) \/ ForgetRun(r)
    \/ \E i \in Image : EnqueueImage(<<r, i>>)

ImageStep(t) ==
    DropStale(t) \/ Process(t) \/ Count(t)
    \/ HandOver(t) \/ HandOverFails(t) \/ Forget(t)

Next ==
    \/ Reparse
    \/ \E r \in Run : FanOutStep(r) \/ CrashRun(r)
    \/ \E t \in Task : ImageStep(t) \/ CrashImage(t)

Spec == Init /\ [][Next]_vars

\* asynq hands every queued task to a worker and a handler runs to its end.
FairSpec ==
    /\ Spec
    /\ \A r \in Run : WF_vars(FanOutStep(r))
    /\ \A t \in Task : WF_vars(ImageStep(t))

-----------------------------------------------------------------------------
TypeOK ==
    /\ counter \in Int /\ counter <= Images
    /\ runs \in Run /\ latest \in Run
    /\ fan \in [Run -> Fan] /\ attempt \in [Run -> Run] /\ carries \in [Run -> BOOLEAN]
    /\ seeded \subseteq Run /\ tried \in [Run -> Nat]
    /\ img \in [Task -> Pc] /\ tries \in [Task -> Nat]
    /\ spent \subseteq Task /\ counted \subseteq Task
    /\ handed \in [Run -> Nat] /\ owner \in 0..MaxRun
    /\ refused \in Nat /\ retriable \in Nat /\ faults \in Nat

\* One run, no crash, no Redis error: only the queue refuses tasks and images fail.
Undisturbed == runs = 1 /\ faults = 0

\* Slots of the first run that nobody has taken or given back yet.
Released == fan[1] \in {"direct", "last", "forget", "ended", "failed", "gaveup"}
Open     == {i \in Image : <<1, i>> \notin counted /\ ~(Released /\ i \in Unowned(1))}

\* The document goes to post-process only when the last image is counted, however
\* the fan-out, its release of refused slots and the image tasks interleave: an
\* earlier hand-over would seal the enrichment without the missing OCR chunks.
HandsOverLast == Undisturbed /\ handed[1] > 0 => Open = {}

\* "exactly one path reaches zero" (releaseUnownedMultimodalSlots): the release and
\* the images never both hand the document over.
HandsOverOnce == Undisturbed => handed[1] <= 1

\* The fan-out gave up its release, or a task of the run was archived before it
\* could hand over: housekeeping fails the row an hour later.
LeftToSweep(r) == fan[r] = "gaveup" \/ \E i \in Image : img[<<r, i>>] = "archived"

\* What FanInEnds rests on: until the newest run whose seed is in the counter is handed
\* over, or left to the sweep, one of its image tasks is still to count or to hand
\* over; no count of another run, repeated, or with its reply lost strands it.
HandOverIsDue ==
    \A r \in Run :
        fan[r] = "ended" /\ owner = r /\ ~Superseded(r) /\ handed[attempt[r]] = 0 /\ ~LeftToSweep(r)
        => \E i \in Image : img[<<r, i>>] \in {"queued", "count", "hand", "fallback"}

\* Once its fan-out is over, the newest run whose seed is in the counter reaches
\* post-process, although images of other runs take its slots, DECR errors, workers
\* die and the queue refuses tasks; or one of the exits of LeftToSweep is taken.
FanInEnds ==
    \A r \in Run : (fan[r] = "ended" /\ owner = r) ~>
        (handed[attempt[r]] > 0 \/ owner # r \/ Superseded(r) \/ LeftToSweep(r))

-----------------------------------------------------------------------------
\* What the comments say and TLC refutes.

\* Handle: a stale image must not drain a slot of the new run "and finalize it
\* before its images are done".
StaleNeverCounts == [][\A t \in Task : Count(t) => ~Superseded(t[1])]_vars

\* releaseUnownedMultimodalSlots: "Seeding failed, so the key is absent".
SeedlessIsAbsent ==
    \A r \in Run : fan[r] = "enqueue" /\ r \notin seeded
        /\ (\A i \in Image : img[<<r, i>>] \in {"none", "queued", "refused"}) => counter <= 0

\* checkAndFinalizeAllImages: "a retry of this task then finds the key at or below
\* zero and enqueues again".
FailedHandOverIsRetried ==
    [][\A t \in Task : HandOverFails(t) /\ tries[t] < MaxRetry => img'[t] = "queued"]_vars
=============================================================================
