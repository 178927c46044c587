------------------------- MODULE MultimodalFanInProofs -------------------------
(* Theorems about MultimodalFanIn, for any number of images, runs and faults. *)
EXTENDS MultimodalFanIn, FiniteSetTheorems, TLAPS

\* Attempts are numbered in the order the runs start.
TypeInv ==
    /\ TypeOK
    /\ latest <= runs
    /\ \A r \in Run : attempt[r] <= latest

LEMMA Bounds ==
    /\ Images \in Nat /\ MaxRun \in Nat /\ Images > 0
    /\ 1 \in Run /\ Run \subseteq Nat /\ \A n \in Nat : n \in Run <=> 1 <= n /\ n <= MaxRun
  BY FanInAssumption DEF Run

\* The slots given back by a release are a number.
LEMMA UnownedIsFinite ==
    \A r \in Run : /\ Unowned(r) \subseteq Image
                   /\ IsFiniteSet(Unowned(r)) /\ Cardinality(Unowned(r)) \in Nat
<1>1. IsFiniteSet(Image)
  BY FS_Interval, FanInAssumption DEF Image
<1>2. \A r \in Run : Unowned(r) \subseteq Image
  BY DEF Unowned
<1> QED BY <1>1, <1>2, FS_Subset, FS_CardinalityType

-----------------------------------------------------------------------------
LEMMA TypeInit == Init => TypeInv
  BY Bounds, FanInAssumption
  DEF Init, TypeInv, TypeOK, Run, Image, Task, Fan, Pc

LEMMA RedeliverType ==
    ASSUME TypeInv, NEW r \in Run, Redeliver(r)
    PROVE  /\ runs' \in Run /\ latest' \in Run /\ latest' <= runs'
           /\ fan' \in [Run -> Fan] /\ attempt' \in [Run -> Run] /\ carries' \in [Run -> BOOLEAN]
           /\ \A q \in Run : attempt'[q] <= latest'
<1> USE Bounds, FanInAssumption DEF TypeInv, TypeOK, Fan
<1>1. CASE carries[r] /\ Superseded(r)
  BY <1>1 DEF Redeliver, Step
<1>2. CASE ~(carries[r] /\ Superseded(r)) /\ runs = MaxRun
  BY <1>2 DEF Redeliver, Step
<1>3. CASE ~(carries[r] /\ Superseded(r)) /\ runs # MaxRun
  <2>1. runs \in Nat /\ latest \in Nat /\ runs + 1 \in Run /\ latest + 1 \in Run
    BY <1>3
  <2>2. CASE carries[r]
    <3>1. ~Superseded(r)
      BY <1>3, <2>2
    <3>2. attempt[r] \in Nat /\ attempt[r] <= latest /\ ~(attempt[r] < latest)
      BY <3>1, Bounds DEF Superseded, TypeInv, TypeOK
    <3>3. attempt[r] = latest
      BY <3>2, <2>1
    <3>4. /\ runs' = runs + 1 /\ latest' = latest
          /\ fan' = [fan EXCEPT ![r] = "failed", ![runs + 1] = "seed"]
          /\ attempt' = [attempt EXCEPT ![runs + 1] = latest]
          /\ carries' = [carries EXCEPT ![runs + 1] = carries[r]]
      BY <1>3, <2>2, <3>3 DEF Redeliver
    <3> QED BY <2>1, <3>4
  <2>3. CASE ~carries[r]
    <3>1. /\ runs' = runs + 1 /\ latest' = latest + 1
          /\ fan' = [fan EXCEPT ![r] = "failed", ![runs + 1] = "seed"]
          /\ attempt' = [attempt EXCEPT ![runs + 1] = latest + 1]
          /\ carries' = [carries EXCEPT ![runs + 1] = carries[r]]
      BY <1>3, <2>3 DEF Redeliver
    <3>2. \A q \in Run : attempt[q] \in Nat /\ attempt[q] <= latest
      BY Bounds DEF TypeInv, TypeOK
    <3>3. \A q \in Run : attempt'[q] <= latest'
      BY <3>1, <3>2, <2>1 DEF TypeInv, TypeOK
    <3>4. /\ fan' \in [Run -> Fan] /\ attempt' \in [Run -> Run]
          /\ carries' \in [Run -> BOOLEAN]
      BY <3>1, <2>1
    <3> QED BY <2>1, <3>1, <3>3, <3>4
  <2> QED BY <2>2, <2>3
<1> QED BY <1>1, <1>2, <1>3

LEMMA EnqueuesType ==
    ASSUME TypeInv, NEW r \in Run, Enqueues(r)
    PROVE  handed' \in [Run -> Nat]
<1>1. attempt[r] \in Run /\ handed \in [Run -> Nat]
  BY DEF TypeInv, TypeOK
<1> QED BY <1>1 DEF Enqueues

LEMMA FanOutType ==
    ASSUME TypeInv, NEW r \in Run, FanOutStep(r) \/ CrashRun(r)
    PROVE  TypeInv'
<1> USE Bounds, FanInAssumption
    DEF TypeInv, TypeOK, Fan, Pc, used, imgVars, runVars, Step, Goto, Fault, RedisFails
<1>1. CASE Seed(r)
  <2>1. counter' \in Int /\ counter' <= Images /\ owner' \in 0..MaxRun /\ faults' \in Nat
    BY <1>1 DEF Seed
  <2>2. fan' \in [Run -> Fan] /\ seeded' \subseteq Run
    BY <1>1 DEF Seed
  <2> QED BY <1>1, <2>1, <2>2 DEF Seed
<1>2. ASSUME NEW i \in Image, EnqueueImage(<<r, i>>) PROVE TypeInv'
  <2>1. <<r, i>> \in Task
    BY DEF Task
  <2>2. \/ img' = [img EXCEPT ![<<r, i>>] = "queued"] /\ UNCHANGED refused
        \/ img' = [img EXCEPT ![<<r, i>>] = "refused"] /\ refused' = refused + 1
    BY <1>2 DEF EnqueueImage
  <2>3. img' \in [Task -> Pc] /\ refused' \in Nat
    BY <2>1, <2>2
  <2> QED BY <1>2, <2>3 DEF EnqueueImage
<1>3. CASE EndFanOut(r)
  BY <1>3 DEF EndFanOut, Deletes
<1>4. CASE Release(r)
  BY <1>4, UnownedIsFinite DEF Release
<1>5. CASE HandOverRun(r)
  BY <1>5, EnqueuesType DEF HandOverRun
<1>6. CASE HandOverRunFails(r)
  <2>1. /\ runs' \in Run /\ latest' \in Run /\ latest' <= runs'
        /\ fan' \in [Run -> Fan] /\ attempt' \in [Run -> Run] /\ carries' \in [Run -> BOOLEAN]
        /\ \A q \in Run : attempt'[q] <= latest'
    BY <1>6, RedeliverType DEF HandOverRunFails
  <2> QED BY <1>6, <2>1 DEF HandOverRunFails, Fails
<1>7. CASE ForgetRun(r)
  BY <1>7 DEF ForgetRun, Deletes
<1>8. CASE CrashRun(r)
  BY <1>8, RedeliverType DEF CrashRun
<1> QED BY <1>1, <1>2, <1>3, <1>4, <1>5, <1>6, <1>7, <1>8 DEF FanOutStep

LEMMA ImageType ==
    ASSUME TypeInv, NEW t \in Task, ImageStep(t) \/ CrashImage(t)
    PROVE  TypeInv'
<1> USE Bounds, FanInAssumption
    DEF TypeInv, TypeOK, Pc, used, runVars, Goto, Ends, Requeue, Fault, RedisFails
<1>1. CASE DropStale(t)
  BY <1>1 DEF DropStale
<1>2. CASE Process(t)
  BY <1>2 DEF Process, Fails
<1>3. CASE Count(t)
  BY <1>3 DEF Count
<1>4. CASE HandOver(t)
  <2>1. t[1] \in Run
    BY DEF Task
  <2>2. handed' \in [Run -> Nat]
    BY <1>4, <2>1, EnqueuesType DEF HandOver
  <2> QED BY <1>4, <2>2 DEF HandOver
<1>5. CASE HandOverFails(t)
  BY <1>5 DEF HandOverFails, Fails
<1>6. CASE Forget(t)
  BY <1>6 DEF Forget, Deletes
<1>7. CASE CrashImage(t)
  BY <1>7 DEF CrashImage
<1> QED BY <1>1, <1>2, <1>3, <1>4, <1>5, <1>6, <1>7 DEF ImageStep

LEMMA TypeStep == TypeInv /\ [Next]_vars => TypeInv'
<1> SUFFICES ASSUME TypeInv, [Next]_vars PROVE TypeInv'
  OBVIOUS
<1>1. CASE UNCHANGED vars
  BY <1>1 DEF vars, runVars, imgVars, used, TypeInv, TypeOK
<1>2. CASE Reparse
  <2>1. runs + 1 \in Run /\ latest + 1 \in Run
    BY <1>2, FanInAssumption DEF Reparse, Run, TypeInv, TypeOK
  <2>2. img' \in [Task -> Pc]
    BY <1>2 DEF Reparse, TypeInv, TypeOK, Pc
  <2>3. /\ fan' \in [Run -> Fan] /\ attempt' \in [Run -> Run]
        /\ carries' \in [Run -> BOOLEAN]
    BY <1>2, <2>1 DEF Reparse, Step, TypeInv, TypeOK, Fan
  <2>4. latest \in Nat /\ runs \in Nat /\ latest <= runs
        /\ \A q \in Run : attempt[q] \in Nat /\ attempt[q] <= latest
    BY Bounds DEF TypeInv, TypeOK
  <2>5. latest' <= runs' /\ \A q \in Run : attempt'[q] <= latest'
    BY <1>2, <2>1, <2>4 DEF Reparse, TypeInv, TypeOK
  <2> QED
    BY <1>2, <2>1, <2>2, <2>3, <2>5 DEF Reparse, TypeInv, TypeOK, used
<1>3. ASSUME NEW r \in Run, FanOutStep(r) \/ CrashRun(r) PROVE TypeInv'
  BY <1>3, FanOutType
<1>4. ASSUME NEW t \in Task, ImageStep(t) \/ CrashImage(t) PROVE TypeInv'
  BY <1>4, ImageType
<1> QED BY <1>1, <1>2, <1>3, <1>4 DEF Next

\* Every variable keeps its type, and the counter never exceeds the images.
THEOREM FanInTypeCorrect == Spec => []TypeOK
<1>1. TypeInv => TypeOK
  BY DEF TypeInv
<1> QED BY <1>1, TypeInit, TypeStep, PTL DEF Spec

-----------------------------------------------------------------------------
\* While nothing disturbs the one run: as long as a slot is open the counter is the
\* number of open slots, nobody has seen it at zero, and an image that has taken
\* its slot is over.
OneRun ==
    /\ attempt[1] = 1 /\ latest = 1
    /\ \A r \in Run \ {1} : fan[r] = "none" /\ \A i \in Image : img[<<r, i>>] = "none"
    /\ \A i \in Image : img[<<1, i>>] # "fallback"

Slots ==
    /\ fan[1] # "seed" => 1 \in seeded
    /\ fan[1] \in {"none", "seed"} => handed[1] = 0 /\ \A i \in Image : img[<<1, i>>] = "none"
    /\ fan[1] \in {"direct", "release", "last", "forget", "ended"} =>
          \A i \in Image : img[<<1, i>>] # "none"
    /\ \A i \in Image : img[<<1, i>>] \in {"none", "refused"} => <<1, i>> \notin counted
    /\ Open # {} =>
          /\ fan[1] # "seed" => counter = Cardinality(Open)
          /\ handed[1] = 0
          /\ fan[1] \in {"seed", "enqueue", "release", "ended"}
          /\ \A i \in Image : <<1, i>> \in counted => img[<<1, i>>] = "done"
          /\ \A i \in Image : img[<<1, i>>] \notin {"hand", "forget"}

FInv == TypeInv /\ (Undisturbed => OneRun /\ Slots)

LEMMA ImageFinite ==
    /\ IsFiniteSet(Image) /\ Cardinality(Image) = Images /\ Image # {}
    /\ \A S \in SUBSET Image : IsFiniteSet(S) /\ Cardinality(S) \in Nat
<1>1. IsFiniteSet(Image) /\ Cardinality(Image) = Images
  BY FS_Interval, Bounds DEF Image
<1>2. 1 \in Image
  BY Bounds DEF Image
<1> QED BY <1>1, <1>2, FS_Subset, FS_CardinalityType

LEMMA FInit == Init => FInv
<1> SUFFICES ASSUME Init PROVE OneRun /\ Slots
  BY TypeInit DEF FInv
<1> QED BY Bounds DEF Init, OneRun, Slots, Task

\* The run's own steps.
LEMMA FanOutKeeps ==
    ASSUME FInv, Undisturbed, NEW r \in Run, FanOutStep(r), Undisturbed'
    PROVE  (OneRun /\ Slots)'
<1> USE Bounds, ImageFinite DEF FInv, OneRun
<1>1. r = 1
  BY DEF FanOutStep, Seed, EnqueueImage, EndFanOut, Release, HandOverRun, HandOverRunFails, ForgetRun
<1>2. fan \in [Run -> Fan] /\ img \in [Task -> Pc] /\ handed \in [Run -> Nat]
      /\ faults \in Nat /\ counter \in Int
  BY DEF TypeInv, TypeOK
<1>3. CASE Seed(1)
  <2>1. fan[1] = "seed" /\ fan' = [fan EXCEPT ![1] = "enqueue"] /\ counter' = Images
        /\ 1 \in seeded' /\ UNCHANGED <<attempt, latest, img, counted, handed>>
    BY <1>2, <1>3 DEF Seed, Step, RedisFails, Fault, Undisturbed, imgVars
  <2>2. Open' = Image
    BY <2>1, <1>2 DEF Open, Released, Slots
  <2> QED BY <2>1, <2>2, <1>2 DEF Slots
<1>4. ASSUME NEW i \in Image, EnqueueImage(<<1, i>>) PROVE (OneRun /\ Slots)'
  <2>1. /\ fan[1] = "enqueue" /\ img[<<1, i>>] = "none" /\ <<1, i>> \in Task
        /\ \/ img' = [img EXCEPT ![<<1, i>>] = "queued"]
           \/ img' = [img EXCEPT ![<<1, i>>] = "refused"]
        /\ UNCHANGED <<attempt, latest, fan, seeded, counted, handed, counter>>
    BY <1>4 DEF EnqueueImage, Goto, Task, runVars
  <2>2. Open' = Open
    BY <2>1 DEF Open, Released
  <2> QED BY <2>1, <2>2, <1>2 DEF Slots, Task
<1>5. CASE EndFanOut(1)
  <2>1. fan[1] = "enqueue" /\ (\A i \in Image : img[<<1, i>>] # "none") /\ 1 \in seeded
        /\ UNCHANGED <<attempt, latest, img, seeded, counted, handed>>
    BY <1>5 DEF EndFanOut, Slots, imgVars
  <2>2. CASE Unowned(1) = Image
    <3>1. fan' = [fan EXCEPT ![1] = "direct"] /\ Unowned(1)' = Image
      BY <1>5, <2>1, <2>2 DEF EndFanOut, Step, Unowned
    <3>2. Open' = {}
      BY <3>1, <1>2 DEF Open, Released
    <3> QED BY <2>1, <3>1, <3>2, <1>2 DEF Slots
  <2>3. CASE Unowned(1) # Image
    <3>1. fan' = [fan EXCEPT ![1] = IF Unowned(1) = {} THEN "ended" ELSE "release"]
          /\ counter' = counter /\ Unowned(1)' = Unowned(1)
      BY <1>5, <2>1, <2>3 DEF EndFanOut, Step, Unowned
    <3>2. Open' = Open
      BY <2>1, <3>1, <1>2 DEF Open, Released
    <3> QED BY <2>1, <3>1, <3>2, <1>2 DEF Slots
  <2> QED BY <2>2, <2>3
<1>6. CASE Release(1)
  <2> DEFINE left == counter - Cardinality(Unowned(1))
  <2>1. fan[1] = "release" /\ counter' = left
        /\ fan' = [fan EXCEPT ![1] = IF left <= 0 THEN "last" ELSE "ended"]
        /\ UNCHANGED <<attempt, latest, img, seeded, counted, handed>>
    BY <1>2, <1>6 DEF Release, Step, RedisFails, Fault, Undisturbed, imgVars
  <2>2. Unowned(1) \subseteq Open /\ Unowned(1)' = Unowned(1)
    BY <2>1 DEF Unowned, Open, Slots, Released
  <2>3. Open' = Open \ Unowned(1) /\ Open \subseteq Image
    BY <2>1, <2>2, <1>2 DEF Open, Released
  <2>4. Cardinality(Open') = Cardinality(Open) - Cardinality(Unowned(1))
        /\ IsFiniteSet(Open') /\ Cardinality(Open') \in Nat
    <3>1. Open' \cup Unowned(1) = Open /\ Open' \cap Unowned(1) = {}
      BY <2>2, <2>3
    <3>2. IsFiniteSet(Open') /\ IsFiniteSet(Unowned(1)) /\ Open' \subseteq Image
          /\ Unowned(1) \subseteq Image
      BY <2>2, <2>3
    <3>3. Cardinality(Open) = Cardinality(Open') + Cardinality(Unowned(1))
          - Cardinality(Open' \cap Unowned(1))
      BY <3>1, <3>2, FS_Union
    <3> QED BY <3>1, <3>2, <3>3, FS_EmptySet
  <2>5. ASSUME Open' # {} PROVE counter' = Cardinality(Open') /\ Cardinality(Open') > 0
    <3>1. Open # {} /\ counter = Cardinality(Open)
      BY <2>1, <2>3, <2>5 DEF Slots
    <3>2. Cardinality(Open') # 0
      BY <2>4, <2>5, FS_EmptySet
    <3> QED BY <2>1, <2>4, <3>1, <3>2
  <2>6. Open' # {} => Open # {} /\ fan'[1] = "ended"
    BY <2>1, <2>3, <2>5, <1>2
  <2> HIDE DEF left
  <2> QED BY <2>1, <2>3, <2>5, <2>6, <1>2 DEF Slots
<1>7. CASE HandOverRun(1)
  <2>1. fan[1] \in {"direct", "last"} /\ UNCHANGED <<attempt, latest, img, seeded, counted>>
        /\ fan' = [fan EXCEPT ![1] = IF fan[1] = "last" THEN "forget" ELSE "ended"]
    BY <1>7 DEF HandOverRun, Step, imgVars
  <2>2. Open' = {}
    BY <2>1, <1>2 DEF Open, Released, Slots, Unowned
  <2> QED BY <2>1, <2>2, <1>2 DEF Slots
<1>8. CASE HandOverRunFails(1)
  <2>1. fan[1] \in {"direct", "last"} /\ UNCHANGED <<attempt, latest, img, seeded, counted>>
        /\ fan' \in {[fan EXCEPT ![1] = "failed"], [fan EXCEPT ![1] = "gaveup"]}
    BY <1>8 DEF HandOverRunFails, Redeliver, Step, imgVars, Undisturbed
  <2>2. Open' = {}
    BY <2>1, <1>2 DEF Open, Released, Slots, Unowned
  <2> QED BY <2>1, <2>2, <1>2 DEF Slots
<1>9. CASE ForgetRun(1)
  <2>1. fan[1] = "forget" /\ UNCHANGED <<attempt, latest, img, seeded, counted, handed>>
        /\ fan' = [fan EXCEPT ![1] = "ended"]
    BY <1>9 DEF ForgetRun, Step, imgVars
  <2>2. Open' = {}
    BY <2>1, <1>2 DEF Open, Released, Slots, Unowned
  <2> QED BY <2>1, <2>2, <1>2 DEF Slots
<1> QED BY <1>1, <1>3, <1>4, <1>5, <1>6, <1>7, <1>8, <1>9 DEF FanOutStep

\* The steps of an image task.
LEMMA ImageKeeps ==
    ASSUME FInv, Undisturbed, NEW t \in Task, ImageStep(t), Undisturbed'
    PROVE  (OneRun /\ Slots)'
<1> USE Bounds, ImageFinite DEF FInv, OneRun
<1>1. PICK i \in Image : t = <<1, i>> /\ img[<<1, i>>] \notin {"none", "refused"}
  <2>1. t[1] \in Run /\ t[2] \in Image /\ t = <<t[1], t[2]>>
    BY DEF Task
  <2>2. img[t] \in {"queued", "count", "hand", "fallback", "forget"}
    BY DEF ImageStep, DropStale, Process, Count, HandOver, HandOverFails, Forget
  <2> QED BY <2>1, <2>2
<1>2. img \in [Task -> Pc] /\ handed \in [Run -> Nat] /\ fan \in [Run -> Fan]
      /\ faults \in Nat /\ counter \in Int /\ counted \subseteq Task /\ t \in Task
  BY DEF TypeInv, TypeOK
<1>3. UNCHANGED <<attempt, latest, fan, seeded>>
  BY DEF ImageStep, DropStale, Process, Count, HandOver, HandOverFails, Forget, runVars
<1>4. Open \subseteq Image
  BY DEF Open
<1>5. CASE DropStale(t)
  BY <1>1, <1>5 DEF DropStale, Superseded
<1>6. CASE Process(t)
  <2>1. img[t] = "queued" /\ UNCHANGED <<counted, handed, counter>>
        /\ img' \in {[img EXCEPT ![t] = "count"], [img EXCEPT ![t] = "queued"]}
    BY <1>6 DEF Process, Goto, Requeue
  <2>2. \A j \in Image : /\ <<1, j>> \in Task
                         /\ img'[<<1, j>>] \in {img[<<1, j>>], "count", "queued"}
                         /\ img[<<1, j>>] = "refused" => img'[<<1, j>>] = "refused"
    <3>1. \A j \in Image : <<1, j>> \in Task
      BY <1>2 DEF Task
    <3>2. CASE img' = [img EXCEPT ![t] = "count"]
      BY <1>1, <1>2, <3>1, <3>2
    <3>3. CASE img' = [img EXCEPT ![t] = "queued"]
      BY <1>1, <1>2, <3>1, <3>3
    <3> QED BY <2>1, <3>2, <3>3
  <2>3. Open' = Open
    BY <1>3, <2>1, <2>2 DEF Open, Released, Unowned
  <2>4. \A j \in Image : <<1, j>> # t => img'[<<1, j>>] = img[<<1, j>>]
    BY <1>2, <2>1, <2>2
  <2>5. ASSUME Open # {} PROVE t \notin counted
    BY <1>1, <2>1, <2>5 DEF Slots
  <2>6. OneRun'
    BY <1>1, <1>2, <1>3, <2>1 DEF Task
  <2> QED BY <1>1, <1>3, <2>1, <2>2, <2>3, <2>4, <2>5, <2>6 DEF Slots
<1>7. CASE Count(t)
  <2>1. img[t] = "count" /\ counted' = counted \cup {t} /\ counter' = counter - 1
        /\ img' = [img EXCEPT ![t] = IF counter' > 0 THEN "done" ELSE "hand"]
        /\ UNCHANGED handed
    BY <1>2, <1>7 DEF Count, Ends, Goto, RedisFails, Fault, Undisturbed
  <2>2. Open' = Open \ {i}
    BY <1>1, <1>2, <1>3, <2>1 DEF Open, Released, Unowned
  <2>3. ASSUME Open # {} PROVE /\ i \in Open
                               /\ IsFiniteSet(Open') /\ Cardinality(Open') \in Nat
                               /\ counter' = Cardinality(Open')
    <3>1. i \in Open
      BY <1>1, <2>1, <2>3 DEF Slots, Open, Unowned
    <3>2. counter = Cardinality(Open)
      BY <1>1, <2>1, <2>3 DEF Slots
    <3>3. IsFiniteSet(Open') /\ Cardinality(Open') \in Nat
      BY <1>4, <2>2
    <3>4. Cardinality(Open') = Cardinality(Open) - 1
      BY <3>1, <1>4, <2>2, FS_RemoveElement
    <3> QED BY <3>1, <3>2, <3>3, <3>4, <2>1
  <2>4. Open' # {} => counter' > 0
    BY <2>2, <2>3, FS_EmptySet
  <2>5. Open' # {} => img' = [img EXCEPT ![t] = "done"]
    BY <2>1, <2>4
  <2>6. OneRun'
    BY <1>1, <1>2, <1>3, <2>1
  <2> QED BY <1>1, <1>2, <1>3, <2>1, <2>2, <2>3, <2>5, <2>6 DEF Slots
<1>8. CASE HandOver(t)
  <2>1. img[t] = "hand" /\ img' = [img EXCEPT ![t] = "forget"] /\ UNCHANGED counted
    BY <1>1, <1>8 DEF HandOver, Goto
  <2>2. Open' = Open /\ Open = {}
    BY <1>1, <1>2, <1>3, <2>1 DEF Open, Released, Unowned, Slots
  <2>3. fan[1] \notin {"none", "seed"}
    BY <1>1, <2>1 DEF Slots
  <2> QED BY <1>1, <1>2, <1>3, <2>1, <2>2, <2>3 DEF Slots
<1>9. CASE HandOverFails(t)
  <2>1. img[t] = "hand" /\ UNCHANGED <<counted, handed>>
        /\ img' \in {[img EXCEPT ![t] = "archived"], [img EXCEPT ![t] = "queued"]}
    BY <1>1, <1>9 DEF HandOverFails, Goto, Requeue
  <2>2. \A j \in Image : /\ <<1, j>> \in Task
                         /\ img'[<<1, j>>] \in {img[<<1, j>>], "archived", "queued"}
                         /\ img[<<1, j>>] = "refused" => img'[<<1, j>>] = "refused"
    <3>1. \A j \in Image : <<1, j>> \in Task
      BY <1>2 DEF Task
    <3>2. CASE img' = [img EXCEPT ![t] = "archived"]
      BY <1>1, <1>2, <3>1, <3>2
    <3>3. CASE img' = [img EXCEPT ![t] = "queued"]
      BY <1>1, <1>2, <3>1, <3>3
    <3> QED BY <2>1, <3>2, <3>3
  <2>3. Open' = Open
    BY <1>3, <2>1, <2>2 DEF Open, Released, Unowned
  <2>4. Open = {} /\ fan[1] \notin {"none", "seed"}
    BY <1>1, <2>1 DEF Slots
  <2>5. OneRun'
    BY <1>1, <1>2, <1>3, <2>1, SMTT(30) DEF Task
  <2> QED BY <1>1, <1>3, <2>1, <2>2, <2>3, <2>4, <2>5 DEF Slots
<1>10. CASE Forget(t)
  <2>1. img[t] = "forget" /\ img' = [img EXCEPT ![t] = "done"] /\ UNCHANGED <<counted, handed>>
    BY <1>10 DEF Forget, Goto, Ends
  <2>2. Open' = Open /\ Open = {}
    BY <1>1, <1>2, <1>3, <2>1 DEF Open, Released, Unowned, Slots
  <2> QED BY <1>1, <1>2, <1>3, <2>1, <2>2 DEF Slots
<1> QED BY <1>5, <1>6, <1>7, <1>8, <1>9, <1>10 DEF ImageStep

\* Nothing undoes a disturbance.
LEMMA UndisturbedBefore ==
    ASSUME TypeInv, [Next]_vars, Undisturbed'
    PROVE  /\ Undisturbed
           /\ ~Reparse
           /\ \A r \in Run : ~CrashRun(r)
           /\ \A t \in Task : ~CrashImage(t)
<1>1. runs \in Nat /\ faults \in Nat /\ Run \subseteq Nat /\ 1 <= runs
  BY Bounds DEF TypeInv, TypeOK
<1>2. CASE UNCHANGED vars
  BY <1>1, <1>2 DEF vars, used, Undisturbed, Reparse, CrashRun, CrashImage, Fault
<1>3. ~Reparse /\ (\A r \in Run : ~CrashRun(r)) /\ \A t \in Task : ~CrashImage(t)
  BY <1>1 DEF Reparse, CrashRun, CrashImage, Fault, Undisturbed
<1>4. ASSUME NEW r \in Run, FanOutStep(r) PROVE runs' >= runs /\ faults' >= faults
  <2>1. CASE HandOverRunFails(r)
    BY <1>1, <2>1 DEF HandOverRunFails, Redeliver
  <2>2. CASE Seed(r) \/ Release(r)
    BY <1>1, <2>2 DEF Seed, Release, RedisFails, Fault
  <2>3. CASE EndFanOut(r) \/ HandOverRun(r) \/ ForgetRun(r)
    BY <1>1, <2>3 DEF EndFanOut, HandOverRun, ForgetRun, Deletes, RedisFails, Fault, used
  <2>4. ASSUME NEW i \in Image, EnqueueImage(<<r, i>>) PROVE runs' >= runs /\ faults' >= faults
    BY <1>1, <2>4 DEF EnqueueImage
  <2> QED BY <1>4, <2>1, <2>2, <2>3, <2>4 DEF FanOutStep
<1>5. ASSUME NEW t \in Task, ImageStep(t) PROVE runs' = runs /\ faults' >= faults
  BY <1>1, <1>5 DEF ImageStep, DropStale, Process, Count, HandOver, HandOverFails, Forget,
    RedisFails, Fault, Deletes, used
<1>6. Undisturbed
  BY <1>1, <1>2, <1>3, <1>4, <1>5 DEF Next, Undisturbed
<1> QED BY <1>3, <1>6

LEMMA FStep == FInv /\ [Next]_vars => FInv'
<1> SUFFICES ASSUME FInv, [Next]_vars, Undisturbed' PROVE (OneRun /\ Slots)'
  BY TypeStep DEF FInv
<1>1. Undisturbed /\ ~Reparse /\ (\A r \in Run : ~CrashRun(r)) /\ \A t \in Task : ~CrashImage(t)
  BY UndisturbedBefore DEF FInv
<1>2. CASE UNCHANGED vars
  BY <1>2 DEF vars, runVars, imgVars, used, FInv, Undisturbed, OneRun, Slots, Open, Released, Unowned
<1>3. ASSUME NEW r \in Run, FanOutStep(r) PROVE (OneRun /\ Slots)'
  BY <1>1, <1>3, FanOutKeeps
<1>4. ASSUME NEW t \in Task, ImageStep(t) PROVE (OneRun /\ Slots)'
  BY <1>1, <1>4, ImageKeeps
<1> QED BY <1>1, <1>2, <1>3, <1>4 DEF Next

\* However the fan-out, its release of refused slots and the image tasks interleave,
\* the document goes to post-process only after its last image is counted.
THEOREM HandsOverLastHolds == Spec => []HandsOverLast
<1>1. FInv => HandsOverLast
  BY Bounds DEF FInv, Slots, HandsOverLast, TypeInv, TypeOK
<1> QED BY <1>1, FInit, FStep, PTL DEF Spec

-----------------------------------------------------------------------------
\* Once the last slot is taken or given back there is one hand-over to make: the
\* fan-out's own, or that of one image, which a retry may bring back.  It is over
\* when the document was handed over.
Acting(i) == img[<<1, i>>] \in {"queued", "count", "hand"}

Refusals == fan[1] = "release" => Unowned(1) # {}

OneLeft == Open = {} =>
    /\ handed[1] <= 1
    /\ \A i, j \in Image : Acting(i) /\ Acting(j) => i = j
    /\ handed[1] = 1 \/ fan[1] \in {"direct", "last"} => \A i \in Image : ~Acting(i)
    /\ handed[1] = 1 => fan[1] \notin {"direct", "last"}

OInv == FInv /\ (Undisturbed => Refusals /\ OneLeft)

LEMMA OInit == Init => OInv
<1> SUFFICES ASSUME Init PROVE Refusals /\ OneLeft
  BY FInit DEF OInv
<1>1. Open = Image
  BY Bounds DEF Init, Open, Task, Released
<1> QED BY <1>1, ImageFinite, Bounds DEF OneLeft, Refusals, Init

LEMMA FanOutOnce ==
    ASSUME OInv, Undisturbed, NEW r \in Run, FanOutStep(r), Undisturbed'
    PROVE  OneLeft'
<1> USE Bounds, ImageFinite DEF OInv, FInv, OneRun
<1>1. r = 1
  BY DEF FanOutStep, Seed, EnqueueImage, EndFanOut, Release, HandOverRun, HandOverRunFails, ForgetRun
<1>2. fan \in [Run -> Fan] /\ img \in [Task -> Pc] /\ handed \in [Run -> Nat]
      /\ attempt[1] = 1
  BY DEF TypeInv, TypeOK
<1>3. CASE Seed(1)
  <2>1. fan[1] = "seed" /\ fan' = [fan EXCEPT ![1] = "enqueue"]
        /\ UNCHANGED <<img, counted, handed>>
    BY <1>3 DEF Seed, Step, imgVars
  <2>2. Open' = Image
    BY <2>1, <1>2 DEF Open, Released, Slots
  <2> QED BY <2>2 DEF OneLeft
<1>4. ASSUME NEW i \in Image, EnqueueImage(<<1, i>>) PROVE OneLeft'
  <2>1. /\ fan[1] = "enqueue" /\ img[<<1, i>>] = "none" /\ UNCHANGED <<fan, counted>>
    BY <1>4 DEF EnqueueImage, runVars
  <2>2. i \in Open'
    BY <2>1 DEF Open, Released, Slots
  <2> QED BY <2>2 DEF OneLeft
<1>5. CASE EndFanOut(1)
  <2>1. fan[1] = "enqueue" /\ (\A i \in Image : img[<<1, i>>] # "none")
        /\ UNCHANGED <<img, counted, handed>>
    BY <1>5 DEF EndFanOut, imgVars
  <2>2. CASE Unowned(1) = Image
    <3>1. \A i \in Image : img'[<<1, i>>] = "refused" /\ <<1, i>> \notin counted
      BY <2>1, <2>2 DEF Unowned, Slots
    <3>2. Open # {} /\ handed'[1] = 0
      BY <2>1, <3>1 DEF Open, Slots, Released
    <3> QED BY <3>1, <3>2 DEF OneLeft, Acting
  <2>3. CASE Unowned(1) # Image
    <3>1. fan'[1] \in {"ended", "release"}
      BY <1>2, <1>5, <2>3 DEF EndFanOut, Step
    <3>2. Open' # {} \/ Open = {}
      <4>1. ASSUME NEW j \in Image, <<1, j>> \notin counted, j \in Unowned(1), Unowned(1) # {}
            PROVE  j \in Open'
        <5>1. 1 \in seeded
          BY <2>1 DEF Slots
        <5>2. fan'[1] = "release"
          BY <1>2, <1>5, <2>3, <4>1, <5>1 DEF EndFanOut, Step
        <5> QED BY <2>1, <4>1, <5>2 DEF Open, Released
      <4>2. ASSUME NEW j \in Image, <<1, j>> \notin counted, j \notin Unowned(1)
            PROVE  j \in Open'
        BY <2>1, <4>2 DEF Open, Unowned
      <4> QED BY <4>1, <4>2 DEF Open
    <3>3. \A j \in Image : Acting(j)' <=> Acting(j)
      BY <2>1 DEF Acting
    <3>4. ASSUME Open' = {} PROVE Open = {} /\ (handed'[1] = 1 => handed[1] = 1) /\ handed'[1] = handed[1]
      BY <3>2, <3>4, <2>1
    <3> QED BY <3>1, <3>3, <3>4 DEF OneLeft
  <2> QED BY <2>2, <2>3
<1>6. CASE Release(1)
  <2>1. fan[1] = "release" /\ UNCHANGED <<img, counted, handed>>
    BY <1>6 DEF Release, imgVars
  <2>2. ASSUME Open' = {} PROVE Open # {} /\ \A i \in Image : ~Acting(i)' /\ handed'[1] = 0
    <3>1. ASSUME Open = {} PROVE FALSE
      <4>1. Unowned(1) = {}
        BY <2>1, <3>1 DEF Unowned, Open, Slots, Released
      <4> QED BY <4>1, <2>1 DEF Refusals
    <3>2. \A i \in Image : <<1, i>> \in counted \/ img[<<1, i>>] = "refused"
      BY <2>1, <2>2 DEF Open, Unowned
    <3> QED BY <2>1, <3>1, <3>2 DEF Slots, Acting
  <2> QED BY <2>2 DEF OneLeft
<1>7. CASE HandOverRun(1)
  <2>1. fan[1] \in {"direct", "last"} /\ handed' = [handed EXCEPT ![1] = @ + 1]
        /\ fan' = [fan EXCEPT ![1] = IF fan[1] = "last" THEN "forget" ELSE "ended"]
        /\ UNCHANGED img
    BY <1>2, <1>7 DEF HandOverRun, Step, imgVars, Enqueues
  <2>2. Open = {}
    BY <2>1 DEF Slots
  <2>3. handed[1] = 0 /\ \A i \in Image : ~Acting(i)'
    BY <2>1, <2>2, <1>2 DEF OneLeft, Acting
  <2>4. handed'[1] = 1 /\ fan'[1] \in {"forget", "ended"}
    BY <2>1, <2>3, <1>2
  <2> QED BY <2>3, <2>4 DEF OneLeft
<1>8. CASE HandOverRunFails(1)
  <2>1. fan[1] \in {"direct", "last"} /\ UNCHANGED <<img, handed>>
        /\ fan' \in {[fan EXCEPT ![1] = "failed"], [fan EXCEPT ![1] = "gaveup"]}
    BY <1>8 DEF HandOverRunFails, Redeliver, Step, imgVars, Undisturbed
  <2>2. Open = {}
    BY <2>1 DEF Slots
  <2>3. fan'[1] \in {"failed", "gaveup"} /\ \A i \in Image : Acting(i)' <=> Acting(i)
    BY <2>1, <1>2 DEF Acting
  <2> QED BY <2>1, <2>2, <2>3 DEF OneLeft
<1>9. CASE ForgetRun(1)
  <2>1. fan[1] = "forget" /\ UNCHANGED <<img, handed>> /\ fan' = [fan EXCEPT ![1] = "ended"]
    BY <1>9 DEF ForgetRun, Step, imgVars
  <2>2. Open = {}
    BY <2>1 DEF Slots
  <2>3. fan'[1] = "ended" /\ \A i \in Image : Acting(i)' <=> Acting(i)
    BY <2>1, <1>2 DEF Acting
  <2> QED BY <2>1, <2>2, <2>3 DEF OneLeft
<1> QED BY <1>1, <1>3, <1>4, <1>5, <1>6, <1>7, <1>8, <1>9 DEF FanOutStep

LEMMA ImageOnce ==
    ASSUME OInv, Undisturbed, NEW t \in Task, ImageStep(t), Undisturbed'
    PROVE  OneLeft'
<1> USE Bounds, ImageFinite DEF OInv, FInv, OneRun
<1>1. PICK i \in Image : t = <<1, i>> /\ img[<<1, i>>] \notin {"none", "refused"}
  <2>1. t[1] \in Run /\ t[2] \in Image /\ t = <<t[1], t[2]>>
    BY DEF Task
  <2>2. img[t] \in {"queued", "count", "hand", "fallback", "forget"}
    BY DEF ImageStep, DropStale, Process, Count, HandOver, HandOverFails, Forget
  <2> QED BY <2>1, <2>2
<1>2. img \in [Task -> Pc] /\ handed \in [Run -> Nat] /\ fan \in [Run -> Fan]
      /\ faults \in Nat /\ counter \in Int /\ counted \subseteq Task /\ t \in Task
      /\ attempt[1] = 1 /\ \A j \in Image : <<1, j>> \in Task
  BY DEF TypeInv, TypeOK, Task
<1>3. UNCHANGED <<fan, attempt>>
  BY DEF ImageStep, DropStale, Process, Count, HandOver, HandOverFails, Forget, runVars
<1>4. CASE DropStale(t)
  BY <1>1, <1>4 DEF DropStale, Superseded
<1>5. CASE Process(t) \/ HandOverFails(t) \/ Forget(t)
  <2>1. UNCHANGED <<handed, counted>> /\ (Acting(i) \/ img[<<1, i>>] = "forget")
        /\ \E s \in {"count", "queued", "archived", "done"} :
              img' = [img EXCEPT ![t] = s] /\ (img[<<1, i>>] = "forget" => s = "done")
    <3>1. CASE Process(t)
      BY <1>1, <3>1 DEF Process, Goto, Requeue, Acting
    <3>2. CASE HandOverFails(t)
      BY <1>1, <3>2 DEF HandOverFails, Goto, Requeue, Acting
    <3>3. CASE Forget(t)
      BY <1>1, <3>3 DEF Forget, Goto, Ends
    <3> QED BY <1>5, <3>1, <3>2, <3>3
  <2>2. PICK s \in {"count", "queued", "archived", "done"} :
              img' = [img EXCEPT ![t] = s] /\ (img[<<1, i>>] = "forget" => s = "done")
    BY <2>1
  <2>3. \A j \in Image : /\ j # i => img'[<<1, j>>] = img[<<1, j>>]
                         /\ img'[<<1, i>>] = s
    BY <1>1, <1>2, <2>2
  <2>4. \A j \in Image : Acting(j)' => Acting(j)
    BY <2>1, <2>3 DEF Acting
  <2>5. \A j \in Image : img'[<<1, j>>] = "refused" <=> img[<<1, j>>] = "refused"
    BY <1>1, <2>3
  <2>6. Open' = Open
    BY <1>3, <2>1, <2>5 DEF Open, Released, Unowned
  <2> QED BY <1>3, <2>1, <2>4, <2>6 DEF OneLeft
<1>6. CASE Count(t)
  <2>1. img[t] = "count" /\ counted' = counted \cup {t} /\ UNCHANGED handed
        /\ \E s \in {"done", "hand"} : img' = [img EXCEPT ![t] = s]
    BY <1>2, <1>6 DEF Count, Ends, Goto, RedisFails, Fault, Undisturbed
  <2>2. PICK s \in {"done", "hand"} : img' = [img EXCEPT ![t] = s]
    BY <2>1
  <2>3. \A j \in Image : j # i => img'[<<1, j>>] = img[<<1, j>>]
    BY <1>1, <1>2, <2>2
  <2>4. Open' = Open \ {i}
    BY <1>1, <1>2, <1>3, <2>1, <2>2 DEF Open, Released, Unowned
  <2>5. CASE Open = {}
    <3>1. Acting(i)
      BY <1>1, <2>1 DEF Acting
    <3>2. \A j \in Image : Acting(j)' => Acting(j)
      BY <2>3, <3>1 DEF Acting
    <3> QED BY <1>3, <2>1, <2>5, <3>1, <3>2 DEF OneLeft
  <2>6. CASE Open # {} /\ Open' = {}
    <3>1. handed[1] = 0 /\ fan[1] \notin {"direct", "last"}
      BY <2>6 DEF Slots
    <3>2. ASSUME NEW j \in Image, j # i PROVE ~Acting(j)'
      <4>1. j \notin Open
        BY <2>4, <2>6, <3>2
      <4>2. <<1, j>> \in counted \/ img[<<1, j>>] = "refused"
        BY <4>1 DEF Open, Unowned
      <4>3. img[<<1, j>>] \in {"done", "refused"}
        BY <2>6, <4>2 DEF Slots
      <4> QED BY <2>3, <3>2, <4>3 DEF Acting
    <3> QED BY <1>3, <2>1, <3>1, <3>2 DEF OneLeft
  <2> QED BY <2>5, <2>6 DEF OneLeft
<1>7. CASE HandOver(t)
  <2>1. img[t] = "hand" /\ img' = [img EXCEPT ![t] = "forget"] /\ UNCHANGED counted
        /\ handed' = [handed EXCEPT ![1] = @ + 1]
    BY <1>1, <1>2, <1>7 DEF HandOver, Goto, Enqueues
  <2>2. Open = {} /\ Acting(i)
    BY <1>1, <2>1 DEF Slots, Acting
  <2>3. handed[1] = 0 /\ fan[1] \notin {"direct", "last"}
    BY <1>2, <2>2 DEF OneLeft
  <2>4. \A j \in Image : ~Acting(j)'
    <3>1. \A j \in Image : j # i => img'[<<1, j>>] = img[<<1, j>>] /\ ~Acting(j)
      BY <1>1, <1>2, <2>1, <2>2 DEF OneLeft
    <3>2. img'[<<1, i>>] = "forget"
      BY <1>1, <1>2, <2>1
    <3> QED BY <3>1, <3>2 DEF Acting
  <2>5. handed'[1] = 1
    BY <1>2, <2>1, <2>3
  <2> QED BY <1>3, <2>3, <2>4, <2>5 DEF OneLeft
<1> QED BY <1>4, <1>5, <1>6, <1>7 DEF ImageStep

\* A release is of slots the queue refused, and those stay refused.
LEMMA RefusalsKept ==
    ASSUME OInv, Undisturbed, [Next]_vars, Undisturbed'
    PROVE  Refusals'
<1> USE Bounds DEF OInv, FInv, OneRun
<1>1. img \in [Task -> Pc] /\ fan \in [Run -> Fan] /\ \A j \in Image : <<1, j>> \in Task
  BY DEF TypeInv, TypeOK, Task
<1>2. CASE UNCHANGED vars
  BY <1>2 DEF vars, runVars, imgVars, Refusals, Unowned
<1>3. ASSUME NEW t \in Task, ImageStep(t) \/ CrashImage(t) PROVE Refusals'
  <2>1. img[t] # "refused" /\ (\E s \in Pc : img' = [img EXCEPT ![t] = s]) /\ fan' = fan
    BY <1>3 DEF ImageStep, DropStale, Process, Count, HandOver, HandOverFails, Forget,
      CrashImage, Goto, Ends, Requeue, Pc, runVars
  <2>2. \A j \in Image : img[<<1, j>>] = "refused" => img'[<<1, j>>] = "refused"
    BY <1>1, <2>1
  <2> QED BY <2>1, <2>2 DEF Refusals, Unowned
<1>4. ASSUME NEW r \in Run, FanOutStep(r) PROVE Refusals'
  <2>1. ASSUME NEW i \in Image, EnqueueImage(<<r, i>>) PROVE Refusals'
    <3>1. r = 1 /\ fan[1] = "enqueue" /\ fan' = fan
      BY <2>1 DEF EnqueueImage, runVars
    <3> QED BY <3>1 DEF Refusals
  <2>2. CASE EndFanOut(r)
    <3>1. img' = img /\ fan[1] = "enqueue" /\ r = 1
      BY <2>2 DEF EndFanOut, imgVars
    <3>2. fan'[1] = "release" => Unowned(1) # {}
      BY <1>1, <2>2, <3>1 DEF EndFanOut, Step
    <3> QED BY <3>1, <3>2 DEF Refusals, Unowned
  <2>3. CASE Seed(r) \/ Release(r) \/ HandOverRun(r) \/ ForgetRun(r)
    <3>1. r = 1 /\ img' = img
      BY <2>3 DEF Seed, Release, HandOverRun, ForgetRun, imgVars
    <3>2. fan'[1] = "release" => fan[1] = "release"
      BY <1>1, <2>3, <3>1 DEF Seed, Release, HandOverRun, ForgetRun, Step
    <3> QED BY <3>1, <3>2 DEF Refusals, Unowned
  <2>4. CASE HandOverRunFails(r)
    <3>1. r = 1
      BY <2>4 DEF HandOverRunFails
    <3>2. fan' \in {[fan EXCEPT ![1] = "failed"], [fan EXCEPT ![1] = "gaveup"]}
      BY <2>4, <3>1 DEF HandOverRunFails, Redeliver, Step, Undisturbed
    <3>3. fan'[1] # "release"
      BY <1>1, <3>2
    <3> QED BY <3>3 DEF Refusals
  <2> QED BY <1>4, <2>1, <2>2, <2>3, <2>4 DEF FanOutStep
<1>5. runs \in Nat /\ faults \in Nat
  BY DEF TypeInv, TypeOK
<1>6. ASSUME NEW r \in Run, CrashRun(r) PROVE FALSE
  BY <1>5, <1>6 DEF CrashRun, Fault, Undisturbed
<1>7. ASSUME Reparse PROVE FALSE
  BY <1>5, <1>7 DEF Reparse, Undisturbed
<1> QED BY <1>2, <1>3, <1>4, <1>6, <1>7 DEF Next

LEMMA OStep == OInv /\ [Next]_vars => OInv'
<1> SUFFICES ASSUME OInv, [Next]_vars, Undisturbed' PROVE Refusals' /\ OneLeft'
  BY FStep DEF OInv
<1>1. Undisturbed /\ ~Reparse /\ (\A r \in Run : ~CrashRun(r)) /\ \A t \in Task : ~CrashImage(t)
  BY UndisturbedBefore DEF OInv, FInv
<1>2. Refusals'
  BY <1>1, RefusalsKept
<1>3. CASE UNCHANGED vars
  BY <1>1, <1>2, <1>3
  DEF vars, runVars, imgVars, OInv, OneLeft, Acting, Open, Released, Unowned
<1>4. ASSUME NEW r \in Run, FanOutStep(r) PROVE OneLeft'
  BY <1>1, <1>4, FanOutOnce
<1>5. ASSUME NEW t \in Task, ImageStep(t) PROVE OneLeft'
  BY <1>1, <1>5, ImageOnce
<1> QED BY <1>1, <1>2, <1>3, <1>4, <1>5 DEF Next

\* "exactly one path reaches zero": the release of the refused slots and the images,
\* retried or not, hand an undisturbed document over at most once.
THEOREM HandsOverOnceHolds == Spec => []HandsOverOnce
<1>1. OInv => HandsOverOnce
  BY Bounds DEF OInv, FInv, Slots, OneLeft, HandsOverOnce, TypeInv, TypeOK
<1> QED BY <1>1, OInit, OStep, PTL DEF Spec

-----------------------------------------------------------------------------
(* A run that is not handed over yet has a task that will see to it *)

\* A run's image tasks are enqueued after its seed and before its fan-out ends.
RunInv ==
    \A q \in Run :
        /\ q > runs => fan[q] = "none"
        /\ fan[q] \in {"none", "seed"} => \A i \in Image : img[<<q, i>>] = "none"
        /\ fan[q] \in {"direct", "release", "last", "forget", "ended"} => \A i \in Image : img[<<q, i>>] # "none"
        /\ owner = q => q \in seeded /\ fan[q] \notin {"none", "seed"}

\* Images of the run that have still to take or give back their slot; a fallback,
\* whose DECR failed, counts as one of them, and so does a task that counts again.
ToCome(r) ==
    {i \in Image : \/ img[<<r, i>>] \in {"none", "queued", "count", "fallback"}
                   \/ img[<<r, i>>] = "refused" /\ fan[r] \notin {"last", "forget", "ended"}}

\* The run's seed is in the counter and nothing has ended the run's wait.
Expects(r) ==
    /\ owner = r /\ ~Superseded(r) /\ handed[attempt[r]] = 0
    /\ fan[r] \notin {"direct", "failed"} /\ ~LeftToSweep(r)

\* The counter is never above what is to come, so who comes last sees zero.
Due(r) ==
    /\ counter <= Cardinality(ToCome(r))
    /\ fan[r] # "forget" /\ \A i \in Image : img[<<r, i>>] # "forget"
    /\ fan[r] = "release" => Unowned(r) # {}
    /\ ToCome(r) = {} => fan[r] = "last" \/ \E i \in Image : img[<<r, i>>] = "hand"

DueInv == TypeInv /\ RunInv /\ \A r \in Run : Expects(r) => Due(r)

LEMMA ToComeIsFinite ==
    \A r \in Run : /\ ToCome(r) \subseteq Image
                   /\ IsFiniteSet(ToCome(r)) /\ Cardinality(ToCome(r)) \in Nat
<1>1. IsFiniteSet(Image)
  BY FS_Interval, FanInAssumption DEF Image
<1>2. \A r \in Run : ToCome(r) \subseteq Image
  BY DEF ToCome
<1> QED BY <1>1, <1>2, FS_Subset, FS_CardinalityType

\* A run that starts is the next one, and nothing of it was there.
LEMMA StartsNext ==
    ASSUME TypeInv, NEW r \in Run, r <= runs, Redeliver(r)
    PROVE  /\ \A q \in Run : q <= runs => attempt'[q] = attempt[q]
           /\ \A q \in Run : q <= runs /\ q # r => fan'[q] = fan[q]
           /\ \A q \in Run : q > runs => fan'[q] \in {fan[q], "seed"}
           /\ \A q \in Run : q > runs' => fan'[q] = fan[q]
           /\ fan'[r] \in {"failed", "gaveup"}
           /\ runs' >= runs /\ latest' >= latest
<1> USE Bounds DEF TypeInv, TypeOK
<1>1. runs \in Nat /\ latest \in Nat /\ attempt[r] \in Nat /\ attempt[r] <= latest
  OBVIOUS
<1>2. CASE carries[r] /\ Superseded(r)
  BY <1>1, <1>2 DEF Redeliver, Step
<1>3. CASE ~(carries[r] /\ Superseded(r)) /\ runs = MaxRun
  BY <1>1, <1>3 DEF Redeliver, Step
<1>4. CASE ~(carries[r] /\ Superseded(r)) /\ runs # MaxRun
  <2>1. PICK a \in Nat : /\ a >= latest /\ runs' = runs + 1 /\ latest' = a
                         /\ fan' = [fan EXCEPT ![r] = "failed", ![runs + 1] = "seed"]
                         /\ attempt' = [attempt EXCEPT ![runs + 1] = a]
    <3>1. CASE carries[r]
      <4>1. attempt[r] >= latest
        BY <1>1, <1>4, <3>1 DEF Superseded
      <4> QED BY <1>1, <1>4, <3>1, <4>1 DEF Redeliver
    <3>2. CASE ~carries[r]
      BY <1>1, <1>4, <3>2 DEF Redeliver
    <3> QED BY <3>1, <3>2
  <2> QED BY <1>1, <2>1
<1> QED BY <1>2, <1>3, <1>4

\* An image task that is at work has been enqueued, and stays so.
LEMMA ImageMoves ==
    ASSUME TypeInv, NEW t \in Task, ImageStep(t) \/ CrashImage(t)
    PROVE  /\ img[t] \in {"queued", "count", "hand", "fallback", "forget"}
           /\ \E s \in Pc \ {"none", "refused"} : img' = [img EXCEPT ![t] = s]
           /\ UNCHANGED <<latest, runs, fan, attempt, seeded, owner>>
<1>1. img[t] \in {"queued", "count", "hand", "fallback", "forget"}
  BY DEF ImageStep, DropStale, Process, Count, HandOver, HandOverFails, Forget, CrashImage
<1>2. \E s \in Pc \ {"none", "refused"} : img' = [img EXCEPT ![t] = s]
  BY DEF ImageStep, DropStale, Process, Count, HandOver, HandOverFails, Forget, CrashImage,
    Goto, Ends, Requeue, Pc
<1>3. UNCHANGED <<latest, runs, fan, attempt, seeded, owner>>
  BY DEF ImageStep, DropStale, Process, Count, HandOver, HandOverFails, Forget, CrashImage, runVars
<1> QED BY <1>1, <1>2, <1>3

\* What the fan-out of a run does to the runs.
LEMMA FanOutMoves ==
    ASSUME TypeInv, RunInv, NEW r \in Run, FanOutStep(r) \/ CrashRun(r)
    PROVE  /\ r <= runs /\ runs' >= runs /\ latest' >= latest
           /\ \A q \in Run : q <= runs => attempt'[q] = attempt[q]
           /\ \A q \in Run : q <= runs /\ q # r => fan'[q] = fan[q]
           /\ \A q \in Run : q > runs => fan'[q] \in {fan[q], "seed"}
           /\ \A q \in Run : q > runs' => fan'[q] = fan[q]
           /\ \A q \in Run, i \in Image : q # r => img'[<<q, i>>] = img[<<q, i>>]
<1>0. /\ fan \in [Run -> Fan] /\ runs \in Nat /\ latest \in Nat /\ r \in Nat
      /\ \A q \in Run : q > runs => fan[q] = "none"
  BY Bounds DEF TypeInv, TypeOK, RunInv
<1>1. fan[r] # "none"
  BY DEF FanOutStep, CrashRun, Seed, EnqueueImage, EndFanOut, Release, HandOverRun, HandOverRunFails, ForgetRun
<1>2. r <= runs
  BY <1>0, <1>1
<1>3. \A q \in Run, i \in Image : q # r => img'[<<q, i>>] = img[<<q, i>>]
  <2>1. img \in [Task -> Pc] /\ \A q \in Run, i \in Image : <<q, i>> \in Task
    BY DEF TypeInv, TypeOK, Task
  <2> QED BY <2>1 DEF FanOutStep, CrashRun, Seed, EnqueueImage, EndFanOut, Release, HandOverRun,
        HandOverRunFails, ForgetRun, imgVars, Goto
<1>4. CASE HandOverRunFails(r) \/ CrashRun(r)
  <2>1. Redeliver(r)
    BY <1>4 DEF HandOverRunFails, CrashRun
  <2> QED BY <1>0, <1>2, <1>3, <2>1, StartsNext
<1>5. CASE Seed(r) \/ EndFanOut(r) \/ Release(r) \/ HandOverRun(r) \/ ForgetRun(r)
           \/ \E i \in Image : EnqueueImage(<<r, i>>)
  <2>1. UNCHANGED <<runs, latest, attempt>> /\ \E l \in Fan : fan' = [fan EXCEPT ![r] = l]
    <3>1. UNCHANGED <<runs, latest, attempt>>
      BY <1>5 DEF Seed, EndFanOut, Release, HandOverRun, ForgetRun, EnqueueImage, runVars
    <3>2. fan' = [fan EXCEPT ![r] = fan[r]] \/ \E l \in Fan : fan' = [fan EXCEPT ![r] = l]
      <4>1. CASE Seed(r) \/ EndFanOut(r) \/ HandOverRun(r) \/ ForgetRun(r)
        BY <4>1 DEF Seed, EndFanOut, HandOverRun, ForgetRun, Step, Fan
      <4>2. CASE Release(r)
        BY <1>0, <4>2 DEF Release, Step, Fan
      <4>3. CASE \E i \in Image : EnqueueImage(<<r, i>>)
        BY <1>0, <4>3 DEF EnqueueImage, runVars
      <4> QED BY <1>5, <4>1, <4>2, <4>3
    <3> QED BY <1>0, <3>1, <3>2
  <2> QED BY <1>0, <1>2, <1>3, <2>1
<1> QED BY <1>4, <1>5 DEF FanOutStep

LEMMA RunStep ==
    ASSUME TypeInv, RunInv, [Next]_vars
    PROVE  RunInv'
<1> DEFINE Going == {"direct", "release", "last", "forget", "ended"}
<1>0. /\ fan \in [Run -> Fan] /\ img \in [Task -> Pc] /\ runs \in Nat /\ Run \subseteq Nat
      /\ \A q \in Run, i \in Image : <<q, i>> \in Task
  BY Bounds DEF TypeInv, TypeOK, Task
<1>1. CASE UNCHANGED vars
  BY <1>1 DEF RunInv, vars, runVars, imgVars
<1>2. ASSUME NEW t \in Task, ImageStep(t) \/ CrashImage(t) PROVE RunInv'
  <2>1. /\ UNCHANGED <<runs, fan, seeded, owner>> /\ img[t] \notin {"none", "refused"}
        /\ \E s \in Pc \ {"none", "refused"} : img' = [img EXCEPT ![t] = s]
    BY <1>2, ImageMoves
  <2>2. \A q \in Run, i \in Image : img'[<<q, i>>] = "none" <=> img[<<q, i>>] = "none"
    BY <1>0, <2>1
  <2> QED BY <2>1, <2>2 DEF RunInv
<1>3. CASE Reparse
  <2>1. /\ runs' = runs + 1 /\ fan' = [fan EXCEPT ![runs + 1] = "seed"] /\ UNCHANGED <<seeded, owner>>
        /\ runs + 1 \in Run
    BY <1>0, <1>3, FanInAssumption DEF Reparse, Step, Run
  <2>2. \A q \in Run, i \in Image : img'[<<q, i>>] = "none" <=> img[<<q, i>>] = "none"
    BY <1>0, <1>3 DEF Reparse
  <2>3. fan[runs + 1] = "none" /\ owner # runs + 1
    BY <1>0, <2>1 DEF RunInv
  <2>4. ASSUME NEW q \in Run PROVE fan'[q] = IF q = runs + 1 THEN "seed" ELSE fan[q]
    BY <1>0, <2>1
  <2> QED BY <1>0, <2>1, <2>2, <2>3, <2>4 DEF RunInv
<1>4. ASSUME NEW r \in Run, FanOutStep(r) \/ CrashRun(r) PROVE RunInv'
  <2>1. /\ r <= runs /\ runs' >= runs /\ runs' \in Nat
        /\ \A q \in Run : q <= runs /\ q # r => fan'[q] = fan[q]
        /\ \A q \in Run : q > runs => fan'[q] \in {fan[q], "seed"}
        /\ \A q \in Run : q > runs' => fan'[q] = fan[q]
    BY <1>0, <1>4, FanOutMoves, TypeStep DEF TypeInv, TypeOK, Next
  <2>2. \A q \in Run, i \in Image : q # r => img'[<<q, i>>] = img[<<q, i>>]
    BY <1>4, FanOutMoves
  <2>3. seeded \subseteq seeded' /\ (owner' = owner \/ (Seed(r) /\ owner' \in {0, r}))
    BY <1>4 DEF FanOutStep, CrashRun, Seed, EnqueueImage, EndFanOut, Release, HandOverRun,
      HandOverRunFails, ForgetRun, runVars
  <2>4. ASSUME NEW q \in Run, q # r
        PROVE  /\ q > runs' => fan'[q] = "none"
               /\ fan'[q] \in {"none", "seed"} => \A i \in Image : img'[<<q, i>>] = "none"
               /\ fan'[q] \in Going => \A i \in Image : img'[<<q, i>>] # "none"
               /\ owner' = q => q \in seeded' /\ fan'[q] \notin {"none", "seed"}
    <3>1. owner' = q => owner = q
      BY Bounds, <2>3, <2>4
    <3>2. CASE q <= runs
      BY <1>0, <2>1, <2>2, <2>3, <2>4, <3>1, <3>2 DEF RunInv
    <3>3. CASE q > runs
      <4>1. fan[q] = "none" /\ fan'[q] \in {"none", "seed"} /\ owner # q
        BY <2>1, <3>3 DEF RunInv
      <4> QED BY <1>0, <2>1, <2>2, <2>4, <3>1, <4>1 DEF RunInv
    <3>4. q <= runs \/ q > runs
      BY <1>0
    <3> QED BY <3>2, <3>3, <3>4
  <2>5. /\ fan'[r] \notin {"none", "seed"}
        /\ fan'[r] \in Going => \A i \in Image : img'[<<r, i>>] # "none"
        /\ owner' = r => r \in seeded'
    <3>1. CASE HandOverRunFails(r) \/ CrashRun(r)
      <4>1. fan'[r] \in {"failed", "gaveup"} /\ owner' = owner
        BY <2>1, <3>1, StartsNext DEF HandOverRunFails, CrashRun
      <4> QED BY <2>3, <4>1 DEF RunInv
    <3>2. CASE Seed(r)
      BY <1>0, <3>2, Bounds DEF Seed, Step, RunInv
    <3>3. CASE EndFanOut(r)
      BY <1>0, <3>3 DEF EndFanOut, Step, RunInv, imgVars
    <3>4. CASE Release(r)
      BY <1>0, <3>4 DEF Release, Step, RunInv, imgVars
    <3>5. CASE HandOverRun(r) \/ ForgetRun(r)
      BY <1>0, <3>5 DEF HandOverRun, ForgetRun, Step, RunInv, imgVars
    <3>6. CASE \E i \in Image : EnqueueImage(<<r, i>>)
      BY <1>0, <3>6 DEF EnqueueImage, RunInv, runVars
    <3> QED BY <1>4, <3>1, <3>2, <3>3, <3>4, <3>5, <3>6 DEF FanOutStep
  <2>6. r <= runs'
    BY <1>0, <2>1
  <2> QED BY <1>0, <2>1, <2>4, <2>5, <2>6 DEF RunInv
<1> QED BY <1>1, <1>2, <1>3, <1>4 DEF Next

\* Nothing but a seed raises the counter above zero.
LEMMA CounterFalls ==
    ASSUME TypeInv, [Next]_vars, \A r \in Run : ~Seed(r)
    PROVE  counter' <= counter \/ counter' <= 0
<1>0. counter \in Int
  BY DEF TypeInv, TypeOK
<1>1. CASE UNCHANGED vars \/ Reparse
  BY <1>0, <1>1 DEF vars, Reparse
<1>2. ASSUME NEW t \in Task, ImageStep(t) \/ CrashImage(t) PROVE counter' <= counter \/ counter' <= 0
  BY <1>0, <1>2 DEF ImageStep, CrashImage, DropStale, Process, Count, HandOver, HandOverFails, Forget,
    RedisFails, Deletes
<1>3. ASSUME NEW r \in Run, FanOutStep(r) \/ CrashRun(r) PROVE counter' <= counter \/ counter' <= 0
  <2>1. CASE EndFanOut(r) \/ ForgetRun(r)
    BY <1>0, <2>1 DEF EndFanOut, ForgetRun, Deletes, RedisFails
  <2>2. CASE Release(r)
    <3>1. PICK n \in Nat : n = Cardinality(Unowned(r))
      BY UnownedIsFinite
    <3>2. counter' \in {counter, counter - n}
      BY <1>0, <2>2, <3>1 DEF Release, RedisFails
    <3> QED BY <1>0, <3>1, <3>2
  <2>3. CASE HandOverRun(r) \/ HandOverRunFails(r) \/ CrashRun(r) \/ \E i \in Image : EnqueueImage(<<r, i>>)
    <3>1. counter' = counter
      BY <2>3 DEF HandOverRun, HandOverRunFails, CrashRun, EnqueueImage
    <3> QED BY <1>0, <3>1
  <2> QED BY <1>3, <2>1, <2>2, <2>3 DEF FanOutStep
<1> QED BY <1>1, <1>2, <1>3 DEF Next

\* The run's attempt stays, hand-overs add up, and the newest attempt never goes back.
LEMMA RunsMove ==
    ASSUME TypeInv, RunInv, [Next]_vars, NEW r \in Run, r <= runs
    PROVE  /\ attempt'[r] = attempt[r] /\ latest' >= latest
           /\ \A a \in Run : handed'[a] >= handed[a]
<1>0. /\ runs \in Nat /\ latest \in Nat /\ handed \in [Run -> Nat] /\ attempt \in [Run -> Run]
      /\ Run \subseteq Nat
  BY Bounds DEF TypeInv, TypeOK
<1>1. CASE UNCHANGED vars
  BY <1>0, <1>1 DEF vars, runVars
<1>2. CASE Reparse
  BY <1>0, <1>2 DEF Reparse
<1>3. ASSUME NEW q \in Run, Enqueues(q) PROVE \A a \in Run : handed'[a] >= handed[a]
  BY <1>0, <1>3 DEF Enqueues
<1>4. ASSUME NEW t \in Task, ImageStep(t) \/ CrashImage(t)
      PROVE  /\ attempt'[r] = attempt[r] /\ latest' >= latest
             /\ \A a \in Run : handed'[a] >= handed[a]
  <2>1. UNCHANGED <<attempt, latest>>
    BY <1>4, ImageMoves
  <2>2. handed' = handed \/ Enqueues(t[1])
    BY <1>4 DEF ImageStep, CrashImage, DropStale, Process, Count, HandOver, HandOverFails, Forget
  <2>3. t[1] \in Run
    BY DEF Task
  <2>4. CASE handed' = handed
    BY <1>0, <2>1, <2>4
  <2>5. CASE Enqueues(t[1])
    <3>1. \A a \in Run : handed'[a] >= handed[a]
      BY <1>3, <2>3, <2>5
    <3> QED BY <1>0, <2>1, <3>1
  <2> QED BY <2>2, <2>4, <2>5
<1>5. ASSUME NEW q \in Run, FanOutStep(q) \/ CrashRun(q)
      PROVE  /\ attempt'[r] = attempt[r] /\ latest' >= latest
             /\ \A a \in Run : handed'[a] >= handed[a]
  <2>1. attempt'[r] = attempt[r] /\ latest' >= latest
    BY <1>5, FanOutMoves
  <2>2. handed' = handed \/ Enqueues(q)
    BY <1>5 DEF FanOutStep, CrashRun, Seed, EnqueueImage, EndFanOut, Release, HandOverRun,
      HandOverRunFails, ForgetRun
  <2> QED BY <1>0, <1>3, <2>1, <2>2
<1> QED BY <1>1, <1>2, <1>4, <1>5 DEF Next

\* What a run that ended or a task that was archived was, it stays.
LEMMA GoneForGood ==
    ASSUME TypeInv, RunInv, [Next]_vars, NEW r \in Run
    PROVE  /\ fan[r] \in {"failed", "gaveup"} => fan'[r] = fan[r]
           /\ fan[r] = "direct" => \/ fan'[r] \in {"direct", "failed", "gaveup"}
                                   \/ handed'[attempt'[r]] > 0
           /\ \A i \in Image : img[<<r, i>>] = "archived" => img'[<<r, i>>] = "archived"
<1>0. /\ fan \in [Run -> Fan] /\ img \in [Task -> Pc] /\ runs \in Nat /\ handed \in [Run -> Nat]
      /\ attempt \in [Run -> Run] /\ Run \subseteq Nat
      /\ \A i \in Image : <<r, i>> \in Task
      /\ fan[r] # "none" => r <= runs
  BY Bounds DEF TypeInv, TypeOK, Task, RunInv
<1>1. CASE UNCHANGED vars
  BY <1>1 DEF vars, runVars, imgVars
<1>2. CASE Reparse
  BY <1>0, <1>2 DEF Reparse, Step
<1>3. ASSUME NEW t \in Task, ImageStep(t) \/ CrashImage(t)
      PROVE  /\ fan' = fan
             /\ \A i \in Image : img[<<r, i>>] = "archived" => img'[<<r, i>>] = "archived"
  BY <1>0, <1>3, ImageMoves
<1>4. ASSUME NEW q \in Run, FanOutStep(q) \/ CrashRun(q)
      PROVE  /\ fan[r] \in {"failed", "gaveup"} => fan'[r] = fan[r]
             /\ fan[r] = "direct" => \/ fan'[r] \in {"direct", "failed", "gaveup"}
                                     \/ handed'[attempt'[r]] > 0
             /\ \A i \in Image : img[<<r, i>>] = "archived" => img'[<<r, i>>] = "archived"
  <2>1. \A i \in Image : img[<<r, i>>] = "archived" => img'[<<r, i>>] = "archived"
    BY <1>0, <1>4 DEF FanOutStep, CrashRun, Seed, EnqueueImage, EndFanOut, Release, HandOverRun,
      HandOverRunFails, ForgetRun, imgVars, Goto
  <2>2. CASE q # r
    BY <1>0, <1>4, <2>1, <2>2, FanOutMoves
  <2>3. CASE q = r /\ fan[r] \in {"failed", "gaveup"}
    BY <1>4, <2>3 DEF FanOutStep, CrashRun, Seed, EnqueueImage, EndFanOut, Release, HandOverRun,
      HandOverRunFails, ForgetRun
  <2>4. CASE q = r /\ fan[r] = "direct"
    <3>1. HandOverRun(r) \/ HandOverRunFails(r) \/ CrashRun(r)
      BY <1>4, <2>4 DEF FanOutStep, Seed, EnqueueImage, EndFanOut, Release, ForgetRun
    <3>2. CASE HandOverRun(r)
      <4>1. attempt' = attempt /\ handed' = [handed EXCEPT ![attempt[r]] = @ + 1]
        BY <3>2 DEF HandOverRun, Enqueues
      <4>2. handed'[attempt'[r]] > 0
        <5>1. PICK a \in Run : a = attempt[r]
          BY <1>0
        <5>2. handed[a] \in Nat /\ handed'[a] = handed[a] + 1
          BY <1>0, <4>1, <5>1
        <5> QED BY <4>1, <5>1, <5>2
      <4> QED BY <2>1, <2>4, <4>2
    <3>3. CASE HandOverRunFails(r) \/ CrashRun(r)
      <4>1. Redeliver(r) /\ r <= runs
        BY <1>0, <2>4, <3>3 DEF HandOverRunFails, CrashRun
      <4> QED BY <2>1, <2>4, <4>1, StartsNext
    <3> QED BY <2>1, <2>4, <3>1, <3>2, <3>3
  <2> QED BY <2>1, <2>2, <2>3, <2>4
<1> QED BY <1>1, <1>2, <1>3, <1>4 DEF Next

\* A run comes to expect its hand-over when it seeds the counter.
LEMMA ExpectsBefore ==
    ASSUME TypeInv, RunInv, [Next]_vars, NEW r \in Run, Expects(r)'
    PROVE  Seed(r) \/ (Expects(r) /\ r <= runs /\ \A q \in Run : ~Seed(q))
<1>0. /\ runs \in Nat /\ latest \in Nat /\ latest' \in Nat /\ handed \in [Run -> Nat]
      /\ attempt \in [Run -> Run] /\ Run \subseteq Nat /\ handed' \in [Run -> Nat]
  BY Bounds, TypeStep DEF TypeInv, TypeOK
<1>1. ASSUME NEW q \in Run, Seed(q) PROVE q = r
  BY <1>1, Bounds DEF Seed, Expects
<1>2. CASE \A q \in Run : ~Seed(q)
  <2>1. owner' = owner
    BY <1>2 DEF Next, FanOutStep, CrashRun, EnqueueImage, EndFanOut, Release, HandOverRun,
      HandOverRunFails, ForgetRun, ImageStep, CrashImage, DropStale, Process, Count, HandOver,
      HandOverFails, Forget, Reparse, vars
  <2>2. owner = r /\ r <= runs
    BY <1>0, <2>1 DEF Expects, RunInv
  <2>3. attempt'[r] = attempt[r] /\ latest' >= latest /\ handed'[attempt[r]] >= handed[attempt[r]]
    BY <1>0, <2>2, RunsMove
  <2>4. ~Superseded(r) /\ handed[attempt[r]] = 0
    <3>1. ~(attempt'[r] < latest') /\ handed'[attempt'[r]] = 0
      BY DEF Expects, Superseded
    <3>2. /\ attempt[r] \in Run /\ attempt[r] \in Nat
          /\ handed[attempt[r]] \in Nat /\ handed'[attempt[r]] \in Nat
      BY <1>0
    <3> QED BY <1>0, <2>3, <3>1, <3>2 DEF Superseded
  <2>5. fan[r] \notin {"direct", "failed"} /\ ~LeftToSweep(r)
    BY <1>0, GoneForGood DEF Expects, LeftToSweep
  <2> QED BY <1>2, <2>2, <2>4, <2>5 DEF Expects
<1> QED BY <1>1, <1>2

LEMMA DueSeeded ==
    ASSUME TypeInv, RunInv, NEW r \in Run, Seed(r), Expects(r)'
    PROVE  Due(r)'
<1>0. fan \in [Run -> Fan] /\ r \in Nat /\ r # 0 /\ Images \in Nat
  BY Bounds DEF TypeInv, TypeOK
<1>1. fan'[r] = "enqueue" /\ img' = img
  BY <1>0 DEF Seed, Step, imgVars
<1>2. counter' = Images
  BY <1>0 DEF Seed, Expects
<1>3. \A i \in Image : img'[<<r, i>>] = "none"
  BY <1>1 DEF Seed, RunInv
<1>4. ToCome(r)' = Image /\ Cardinality(Image) = Images
  <2>1. Cardinality(Image) = Images
    BY <1>0, FS_Interval DEF Image
  <2> QED BY <1>3, <2>1 DEF ToCome
<1>5. Image # {}
  BY Bounds DEF Image
<1> QED BY <1>0, <1>1, <1>2, <1>3, <1>4, <1>5 DEF Due

LEMMA DueUndisturbed ==
    ASSUME TypeInv, NEW r \in Run, Due(r), counter' \in Int, counter' <= counter \/ counter' <= 0,
           fan'[r] = fan[r], \A i \in Image : img'[<<r, i>>] = img[<<r, i>>]
    PROVE  Due(r)'
<1>1. ToCome(r)' = ToCome(r) /\ Unowned(r)' = Unowned(r)
  BY DEF ToCome, Unowned
<1>2. Cardinality(ToCome(r)) \in Nat /\ counter \in Int
  BY ToComeIsFinite DEF TypeInv, TypeOK
<1>3. counter' <= Cardinality(ToCome(r))
  BY <1>2 DEF Due
<1> QED BY <1>1, <1>3 DEF Due

\* A step of one of the run's images: it still comes, or it is the one that saw zero.
LEMMA DueImage ==
    ASSUME TypeInv, NEW r \in Run, Expects(r), Due(r), Expects(r)', NEW i \in Image,
           ImageStep(<<r, i>>) \/ CrashImage(<<r, i>>)
    PROVE  Due(r)'
<1> DEFINE t == <<r, i>>
<1>0. /\ img \in [Task -> Pc] /\ counter \in Int /\ t \in Task /\ \A j \in Image : <<r, j>> \in Task
      /\ handed \in [Run -> Nat] /\ attempt \in [Run -> Run]
  BY DEF TypeInv, TypeOK, Task
<1>1. UNCHANGED <<fan, attempt, latest>>
  BY <1>0, ImageMoves
<1>2. /\ ToCome(r) \subseteq Image /\ IsFiniteSet(ToCome(r)) /\ Cardinality(ToCome(r)) \in Nat
      /\ counter <= Cardinality(ToCome(r))
  BY ToComeIsFinite DEF Due
<1>3. CASE /\ img[t] \in {"queued", "count", "fallback", "hand"} /\ counter' <= counter /\ counter' \in Int
           /\ \E s \in {"queued", "count", "fallback"} : img' = [img EXCEPT ![t] = s]
  <2>1. PICK s \in {"queued", "count", "fallback"} : img' = [img EXCEPT ![t] = s]
    BY <1>3
  <2>2. img'[t] = s /\ \A j \in Image : j # i => img'[<<r, j>>] = img[<<r, j>>]
    BY <1>0, <2>1
  <2>3. ToCome(r)' = ToCome(r) \cup {i} /\ Unowned(r)' = Unowned(r)
    BY <1>1, <1>3, <2>2 DEF ToCome, Unowned
  <2>4. Cardinality(ToCome(r)') \in Nat /\ Cardinality(ToCome(r)) <= Cardinality(ToCome(r)')
    <3>1. IsFiniteSet(ToCome(r) \cup {i}) /\ ToCome(r) \in SUBSET (ToCome(r) \cup {i})
      BY <1>2, FS_AddElement
    <3> QED BY <2>3, <3>1, FS_Subset, FS_CardinalityType
  <2>5. counter' <= Cardinality(ToCome(r)')
    BY <1>0, <1>2, <1>3, <2>4
  <2>6. ToCome(r)' # {}
    BY <2>3
  <2>7. \A j \in Image : img'[<<r, j>>] # "forget"
    BY <2>2 DEF Due
  <2> QED BY <1>1, <2>3, <2>5, <2>6, <2>7 DEF Due
<1>4. CASE /\ img[t] = "count" /\ counter' = counter - 1
           /\ \E s \in {"done", "hand"} : img' = [img EXCEPT ![t] = s] /\ (s = "done" => counter' > 0)
  <2>1. PICK s \in {"done", "hand"} : img' = [img EXCEPT ![t] = s] /\ (s = "done" => counter' > 0)
    BY <1>4
  <2>2. img'[t] = s /\ \A j \in Image : j # i => img'[<<r, j>>] = img[<<r, j>>]
    BY <1>0, <2>1
  <2>3. ToCome(r)' = ToCome(r) \ {i} /\ i \in ToCome(r) /\ Unowned(r)' = Unowned(r)
    BY <1>1, <1>4, <2>2 DEF ToCome, Unowned
  <2>4. Cardinality(ToCome(r)') = Cardinality(ToCome(r)) - 1
    BY <1>2, <2>3, FS_RemoveElement
  <2>5. counter' <= Cardinality(ToCome(r)')
    BY <1>0, <1>2, <1>4, <2>4
  <2>6. ToCome(r)' = {} => s = "hand"
    <3>1. counter' \in Int
      BY <1>0, <1>4
    <3> QED BY <2>1, <2>5, <3>1, FS_EmptySet
  <2>7. \A j \in Image : img'[<<r, j>>] # "forget"
    BY <2>2 DEF Due
  <2> QED BY <1>1, <2>2, <2>3, <2>5, <2>6, <2>7 DEF Due
<1>5. CASE DropStale(t)
  BY <1>5 DEF DropStale, Expects
<1>6. CASE Process(t)
  BY <1>0, <1>3, <1>6 DEF Process, Goto, Requeue
<1>7. CASE Count(t)
  <2>1. CASE RedisFails(counter - 1) /\ Goto(t, "fallback")
    BY <1>0, <1>3, <1>7, <2>1 DEF Count, RedisFails, Goto
  <2>2. CASE counter' = counter - 1 /\ IF counter' > 0 THEN Ends(t) ELSE Goto(t, "hand")
    BY <1>0, <1>4, <1>7, <2>2 DEF Count, Ends, Goto
  <2> QED BY <1>7, <2>1, <2>2 DEF Count
<1>8. CASE HandOver(t)
  <2>1. handed' = [handed EXCEPT ![attempt[r]] = @ + 1]
    BY <1>8 DEF HandOver, Enqueues
  <2>2. PICK a \in Run : a = attempt[r]
    BY <1>0
  <2>3. handed'[a] = handed[a] + 1 /\ handed[a] \in Nat
    BY <1>0, <2>1, <2>2
  <2>4. handed'[a] = 0
    BY <1>1, <2>2 DEF Expects
  <2> QED BY <2>3, <2>4
<1>9. CASE Forget(t)
  BY <1>9 DEF Forget, Due
<1>10. ASSUME \E s \in {"archived", "queued"} : img' = [img EXCEPT ![t] = s],
              img[t] \in {"queued", "count", "hand", "fallback", "forget"}, counter' = counter
       PROVE  Due(r)'
  <2>1. PICK s \in {"archived", "queued"} : img' = [img EXCEPT ![t] = s]
    BY <1>10
  <2>2. img'[t] = s
    BY <1>0, <2>1
  <2>3. s = "queued"
    BY <2>2 DEF Expects, LeftToSweep
  <2>4. img[t] # "forget"
    BY DEF Due
  <2>5. img[t] \in {"queued", "count", "fallback", "hand"} /\ counter' <= counter /\ counter' \in Int
    BY <1>0, <1>10, <2>4
  <2>6. \E q \in {"queued", "count", "fallback"} : img' = [img EXCEPT ![t] = q]
    BY <2>1, <2>3
  <2> QED BY <1>3, <2>5, <2>6
<1>11. CASE HandOverFails(t)
  BY <1>10, <1>11 DEF HandOverFails, Goto, Requeue
<1>12. CASE CrashImage(t)
  BY <1>10, <1>12 DEF CrashImage, Goto, Requeue
<1> QED BY <1>5, <1>6, <1>7, <1>8, <1>9, <1>11, <1>12 DEF ImageStep

\* A step of the run's own fan-out: what it gives back nobody waits for any longer.
LEMMA DueFanOut ==
    ASSUME TypeInv, RunInv, NEW r \in Run, r <= runs, Expects(r), Due(r), Expects(r)',
           FanOutStep(r) \/ CrashRun(r), ~Seed(r)
    PROVE  Due(r)'
<1>0. /\ img \in [Task -> Pc] /\ fan \in [Run -> Fan] /\ counter \in Int
      /\ handed \in [Run -> Nat] /\ attempt \in [Run -> Run] /\ \A i \in Image : <<r, i>> \in Task
  BY DEF TypeInv, TypeOK, Task
<1>1. /\ ToCome(r) \subseteq Image /\ IsFiniteSet(ToCome(r)) /\ Cardinality(ToCome(r)) \in Nat
      /\ counter <= Cardinality(ToCome(r))
  BY ToComeIsFinite DEF Due
<1>2. CASE HandOverRunFails(r) \/ CrashRun(r)
  <2>1. fan'[r] \in {"failed", "gaveup"}
    BY <1>2, StartsNext DEF HandOverRunFails, CrashRun
  <2> QED BY <2>1 DEF Expects, LeftToSweep
<1>3. ASSUME NEW i \in Image, EnqueueImage(<<r, i>>) PROVE Due(r)'
  <2>1. PICK s \in {"queued", "refused"} : img' = [img EXCEPT ![<<r, i>>] = s]
    BY <1>3 DEF EnqueueImage, Goto
  <2>2. fan' = fan /\ counter' = counter /\ fan[r] = "enqueue" /\ img[<<r, i>>] = "none"
    BY <1>3 DEF EnqueueImage, runVars
  <2>3. img'[<<r, i>>] = s /\ \A j \in Image : j # i => img'[<<r, j>>] = img[<<r, j>>]
    BY <1>0, <2>1
  <2>4. ToCome(r)' = ToCome(r) /\ i \in ToCome(r)
    BY <2>2, <2>3 DEF ToCome
  <2>5. \A j \in Image : img'[<<r, j>>] # "forget"
    BY <2>3 DEF Due
  <2> QED BY <1>1, <2>2, <2>4, <2>5 DEF Due
<1>4. CASE EndFanOut(r)
  <2>1. /\ img' = img /\ fan[r] = "enqueue" /\ r \in seeded
        /\ \/ fan'[r] = "direct"
           \/ /\ fan'[r] \in {"ended", "release"} /\ counter' = counter
              /\ fan'[r] = "ended" <=> Unowned(r) = {}
    BY <1>0, <1>4 DEF EndFanOut, Step, imgVars, RunInv, Expects
  <2>2. /\ fan'[r] \in {"ended", "release"} /\ counter' = counter
        /\ fan'[r] = "ended" <=> Unowned(r) = {}
    BY <2>1 DEF Expects
  <2>3. ToCome(r)' = ToCome(r) /\ Unowned(r)' = Unowned(r)
    BY <2>1, <2>2 DEF ToCome, Unowned
  <2>4. ToCome(r) = {} => \E i \in Image : img[<<r, i>>] = "hand"
    BY <2>1 DEF Due
  <2> QED BY <1>1, <2>1, <2>2, <2>3, <2>4 DEF Due
<1>5. CASE Release(r)
  <2> DEFINE left == counter - Cardinality(Unowned(r))
  <2>1. /\ img' = img /\ fan[r] = "release" /\ Unowned(r) # {}
        /\ Unowned(r) \subseteq ToCome(r) /\ IsFiniteSet(Unowned(r)) /\ Cardinality(Unowned(r)) \in Nat
    BY <1>5, UnownedIsFinite DEF Release, imgVars, Due, ToCome, Unowned
  <2>2. CASE counter' = left /\ Step(r, IF left <= 0 THEN "last" ELSE "ended")
    <3>1. /\ left <= 0 => fan'[r] = "last"
          /\ ~(left <= 0) => fan'[r] = "ended"
      BY <1>0, <2>2 DEF Step
    <3>2. ToCome(r)' = ToCome(r) \ Unowned(r)
      BY <2>1, <3>1 DEF ToCome, Unowned
    <3>3. Cardinality(ToCome(r)') = Cardinality(ToCome(r)) - Cardinality(Unowned(r))
      <4>1. ToCome(r) \cap Unowned(r) = Unowned(r)
        BY <2>1
      <4> QED BY <1>1, <3>2, <4>1, FS_Difference
    <3>4. counter' <= Cardinality(ToCome(r)') /\ left \in Int
      BY <1>0, <1>1, <2>1, <2>2, <3>3
    <3>5. ToCome(r)' = {} => fan'[r] = "last"
      BY <2>2, <3>1, <3>4, FS_EmptySet
    <3>6. fan'[r] \in {"last", "ended"}
      BY <3>1
    <3> QED BY <2>1, <3>4, <3>5, <3>6 DEF Due
  <2>3. CASE RedisFails(left) /\ (Step(r, "gaveup") \/ UNCHANGED fan)
    <3>1. fan'[r] = fan[r]
      BY <1>0, <2>3 DEF Step, Expects, LeftToSweep
    <3>2. counter' \in {counter, left}
      BY <2>3 DEF RedisFails
    <3>3. counter' \in Int /\ counter' <= counter
      BY <1>0, <2>1, <3>2
    <3> QED BY <2>1, <3>1, <3>3, DueUndisturbed
  <2> QED BY <1>5, <2>2, <2>3 DEF Release
<1>6. CASE HandOverRun(r)
  <2>1. handed' = [handed EXCEPT ![attempt[r]] = @ + 1] /\ attempt' = attempt
    BY <1>6 DEF HandOverRun, Enqueues
  <2>2. PICK a \in Run : a = attempt[r]
    BY <1>0
  <2>3. handed'[a] = handed[a] + 1 /\ handed[a] \in Nat
    BY <1>0, <2>1, <2>2
  <2>4. handed'[a] = 0
    BY <2>1, <2>2 DEF Expects
  <2> QED BY <2>3, <2>4
<1>7. CASE ForgetRun(r)
  BY <1>7 DEF ForgetRun, Due
<1> QED BY <1>2, <1>3, <1>4, <1>5, <1>6, <1>7 DEF FanOutStep

LEMMA DueStep == DueInv /\ [Next]_vars => DueInv'
<1> SUFFICES ASSUME DueInv, [Next]_vars PROVE DueInv'
  OBVIOUS
<1>1. TypeInv /\ RunInv /\ TypeInv' /\ RunInv'
  BY TypeStep, RunStep DEF DueInv
<1> SUFFICES ASSUME NEW r \in Run, Expects(r)' PROVE Due(r)'
  BY <1>1 DEF DueInv
<1>2. CASE Seed(r)
  BY <1>1, <1>2, DueSeeded
<1>3. CASE ~Seed(r)
  <2>1. Expects(r) /\ Due(r) /\ r <= runs /\ \A q \in Run : ~Seed(q)
    BY <1>1, <1>3, ExpectsBefore DEF DueInv
  <2>2. counter' \in Int /\ (counter' <= counter \/ counter' <= 0)
    BY <1>1, <2>1, CounterFalls DEF TypeInv, TypeOK
  <2>3. ASSUME fan'[r] = fan[r], \A i \in Image : img'[<<r, i>>] = img[<<r, i>>]
        PROVE  Due(r)'
    BY <1>1, <2>1, <2>2, <2>3, DueUndisturbed
  <2>4. CASE UNCHANGED vars
    BY <2>3, <2>4 DEF vars, runVars, imgVars
  <2>5. ASSUME Reparse PROVE FALSE
    <3>1. latest' = latest + 1 /\ attempt'[r] = attempt[r]
      BY <1>1, <2>1, <2>5, RunsMove DEF Reparse
    <3>2. attempt[r] \in Nat /\ latest \in Nat /\ attempt[r] <= latest
      BY <1>1, Bounds DEF TypeInv, TypeOK
    <3> QED BY <3>1, <3>2 DEF Expects, Superseded
  <2>6. ASSUME NEW t \in Task, ImageStep(t) \/ CrashImage(t) PROVE Due(r)'
    <3>1. PICK q \in Run, i \in Image : t = <<q, i>>
      BY DEF Task
    <3>2. CASE q = r
      BY <1>1, <2>1, <2>6, <3>1, <3>2, DueImage
    <3>3. CASE q # r
      <4>1. fan' = fan /\ \E s \in Pc : img' = [img EXCEPT ![<<q, i>>] = s]
        BY <1>1, <2>6, <3>1, ImageMoves
      <4>2. \A j \in Image : img'[<<r, j>>] = img[<<r, j>>]
        BY <1>1, <3>3, <4>1 DEF TypeInv, TypeOK, Task
      <4> QED BY <2>3, <4>1, <4>2
    <3> QED BY <3>2, <3>3
  <2>7. ASSUME NEW q \in Run, FanOutStep(q) \/ CrashRun(q) PROVE Due(r)'
    <3>1. CASE q = r
      BY <1>1, <2>1, <2>7, <3>1, DueFanOut
    <3>2. CASE q # r
      <4>1. fan'[r] = fan[r]
        BY <1>1, <2>1, <2>7, <3>2, FanOutMoves
      <4>2. \A j \in Image : img'[<<r, j>>] = img[<<r, j>>]
        BY <1>1, <2>7, <3>2, FanOutMoves
      <4> QED BY <2>3, <4>1, <4>2
    <3> QED BY <3>1, <3>2
  <2> QED BY <2>4, <2>5, <2>6, <2>7 DEF Next
<1> QED BY <1>2, <1>3

\* Once its fan-out has ended, the newest run whose seed is in the counter has an image
\* task that will hand it over, whatever other runs, repeated counts and lost replies do
\* to the counter; unless it was handed over, or a task or its release was given up.
THEOREM HandOverIsDueAlways == Spec => []HandOverIsDue
<1>1. Init => DueInv
  <2> SUFFICES ASSUME Init PROVE DueInv
    OBVIOUS
  <2>1. TypeInv /\ owner = 0 /\ runs = 1
    BY TypeInit DEF Init
  <2>2. RunInv
    BY Bounds DEF Init, RunInv, Task
  <2> QED BY <2>1, <2>2, Bounds DEF DueInv, Expects
<1>2. DueInv => HandOverIsDue
  <2> SUFFICES ASSUME DueInv, NEW r \in Run, fan[r] = "ended", owner = r, ~Superseded(r),
                      handed[attempt[r]] = 0, ~LeftToSweep(r)
               PROVE  \E i \in Image : img[<<r, i>>] \in {"queued", "count", "hand", "fallback"}
    BY DEF HandOverIsDue
  <2>1. Due(r) /\ \A i \in Image : img[<<r, i>>] # "none"
    BY DEF DueInv, Expects, RunInv
  <2>2. CASE ToCome(r) = {}
    BY <2>1, <2>2 DEF Due
  <2>3. ASSUME NEW i \in ToCome(r) PROVE img[<<r, i>>] \in {"queued", "count", "fallback"} /\ i \in Image
    BY <2>1 DEF ToCome
  <2> QED BY <2>2, <2>3
<1> QED BY <1>1, <1>2, DueStep, PTL DEF Spec
=============================================================================
