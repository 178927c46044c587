--------------------------- MODULE WikiPageProofs ---------------------------
(* Theorems about what the batches of WikiIngest leave behind, for any number *)
(* of documents and workers: the slots of the documents that wait and how     *)
(* often they are released, and the contributions of the live and of the      *)
(* deleted documents to the shared page.                                      *)
EXTENDS WikiIngestProofs

Retract(i) == row[i].op = "retract"
Over(w) == {i \in FailedOps(w) : Queued(i) /\ Exhausted(i)}

-----------------------------------------------------------------------------
(* What a step does to a document and to a row *)

\* How a row leaves the queue.
Leaves(i) ==
    \/ \E d \in Doc : /\ Reparse(d) \/ Cancel(d) \/ ScrubDeleted(d)
                      /\ row[i].doc = d /\ row[i].op = "ingest"
    \/ \E w \in Worker : TrimPendingList(w) /\ i \in batch[w].ops /\ i \notin FailedOps(w)
    \/ \E w \in Worker : RequeueFailedOps(w) /\ i \in Over(w) /\ row'[i].st = "dropped"
    \/ DrainUnclaimedAndRelease /\ row[i].op = "ingest" /\ Claimable(row[i].doc)
    \/ DiscardUnclaimed /\ Retract(i) /\ Claimable(row[i].doc) /\ row'[i].st = "dropped"

\* A row that is written stays the same operation, and leaves the queue once.
RowMoves(i) ==
    /\ row'[i].doc = row[i].doc /\ row'[i].op = row[i].op /\ row'[i].attempt = row[i].attempt
    /\ \/ row'[i].st = row[i].st
       \/ Queued(i) /\ row'[i].st \in {"gone", "dropped"} /\ Leaves(i)

LEMMA RowFields ==
    ASSUME NEW x \in Row
    PROVE  /\ \A c \in BOOLEAN : LET y == [x EXCEPT !.claimed = c] IN
                y.doc = x.doc /\ y.op = x.op /\ y.attempt = x.attempt /\ y.st = x.st
           /\ \A s \in {"gone", "dropped"} :
                /\ LET y == [x EXCEPT !.st = s, !.claimed = FALSE] IN
                   y.doc = x.doc /\ y.op = x.op /\ y.attempt = x.attempt /\ y.st = s
                /\ LET y == [x EXCEPT !.st = s] IN
                   y.doc = x.doc /\ y.op = x.op /\ y.attempt = x.attempt /\ y.st = s
  BY DEF Row

LEMMA UnclaimedMoves ==
    ASSUME ClaimTypes, NEW S, row' = Unclaimed(S), NEW i \in Op
    PROVE  RowMoves(i)
<1>1. row[i] \in Row
  BY DEF ClaimTypes
<1>2. CASE i \notin S
  BY <1>2 DEF Unclaimed, RowMoves
<1>3. CASE i \in S
  <2>1. row'[i] = [row[i] EXCEPT !.claimed = FALSE]
    BY <1>3 DEF Unclaimed
  <2> QED BY <1>1, <2>1, RowFields DEF RowMoves
<1> QED BY <1>2, <1>3

LEMMA WithoutMoves ==
    ASSUME ClaimTypes, NEW S, row' = Without(S), NEW i \in Op,
           i \in S => Queued(i) /\ Leaves(i)
    PROVE  RowMoves(i)
<1>1. row[i] \in Row
  BY DEF ClaimTypes
<1>2. CASE i \notin S
  BY <1>2 DEF Without, RowMoves
<1>3. CASE i \in S
  <2>1. row'[i] = [row[i] EXCEPT !.st = "gone", !.claimed = FALSE]
    BY <1>3 DEF Without
  <2> QED BY <1>1, <1>3, <2>1, RowFields DEF RowMoves
<1> QED BY <1>2, <1>3

LEMMA ScrubMoves ==
    ASSUME ClaimTypes, NEW d \in Doc, Reparse(d) \/ Cancel(d) \/ ScrubDeleted(d), NEW i \in Op
    PROVE  RowMoves(i)
<1>1. Scrub(d)
  BY DEF Reparse, Cancel, ScrubDeleted
<1>2. row' = row \/ row' = Without(Scrubbed(d))
  BY <1>1 DEF Scrub
<1>3. i \in Scrubbed(d) => Queued(i) /\ Leaves(i)
  BY DEF Scrubbed, RowsOf, Leaves
<1> QED BY <1>2, <1>3, WithoutMoves DEF RowMoves

LEMMA TrimMoves ==
    ASSUME ClaimTypes, NEW w \in Worker, TrimPendingList(w), NEW i \in Op
    PROVE  RowMoves(i)
<1> DEFINE S == {j \in batch[w].ops : Queued(j)} \ FailedOps(w)
<1>1. row' = row \/ row' = Without(S)
  BY DEF TrimPendingList
<1>2. i \in S => Queued(i) /\ Leaves(i)
  BY DEF Leaves
<1> HIDE DEF S
<1> QED BY <1>1, <1>2, WithoutMoves DEF RowMoves

LEMMA RequeueMoves ==
    ASSUME ClaimTypes, NEW w \in Worker, RequeueFailedOps(w), NEW i \in Op
    PROVE  RowMoves(i)
<1> DEFINE F == {j \in FailedOps(w) : Queued(j)}
           over == {j \in F : Exhausted(j)}
           counted == [j \in Op |-> IF j \in over THEN [row[j] EXCEPT !.fails = MaxFails + 1]
                                    ELSE IF j \in F THEN [row[j] EXCEPT !.fails = @ + 1, !.claimed = FALSE]
                                    ELSE row[j]]
           gone == [j \in Op |-> IF j \in over THEN [counted[j] EXCEPT !.st = "dropped", !.claimed = FALSE]
                                 ELSE counted[j]]
<1>1. row[i] \in Row
  BY DEF ClaimTypes
<1>2. row' = gone \/ row' = counted
  BY DEF RequeueFailedOps
<1>3. i \in over <=> i \in Over(w)
  BY DEF Over
<1>4. i \in over => Queued(i)
  OBVIOUS
<1> HIDE DEF over, F
<1>5. /\ counted[i].doc = row[i].doc /\ counted[i].op = row[i].op
      /\ counted[i].attempt = row[i].attempt /\ counted[i].st = row[i].st
  BY <1>1 DEF Row
<1>6. CASE row' = counted \/ (row' = gone /\ i \notin over)
  BY <1>5, <1>6 DEF RowMoves
<1>7. CASE row' = gone /\ i \in over
  <2>1. row'[i] = [[row[i] EXCEPT !.fails = MaxFails + 1] EXCEPT !.st = "dropped", !.claimed = FALSE]
    BY <1>7
  <2>2. /\ row'[i].doc = row[i].doc /\ row'[i].op = row[i].op
        /\ row'[i].attempt = row[i].attempt /\ row'[i].st = "dropped"
    BY <1>1, <2>1 DEF Row
  <2>3. Leaves(i)
    BY <1>3, <1>7, <2>2 DEF Leaves
  <2> QED BY <1>4, <1>7, <2>2, <2>3 DEF RowMoves
<1> QED BY <1>2, <1>6, <1>7

\* The rows written before a step, and the one it may write.
LEMMA RowsMove ==
    ASSUME ClaimTypes, [Next]_vars, NEW i \in Op, i <= last
    PROVE  RowMoves(i)
<1>1. ASSUME NEW d \in Doc, SeedFinalizing(d) \/ QueueRetract(d) PROVE RowMoves(i)
  <2>1. PICK op, a, hit : Insert(d, op, a, hit)
    BY <1>1 DEF SeedFinalizing, QueueRetract
  <2>2. row'[i] = row[i]
    <3>1. last \in Nat /\ i # last + 1
      BY DEF ClaimTypes, Op
    <3> QED BY <2>1, <3>1 DEF Insert, ClaimTypes
  <2> QED BY <2>2 DEF RowMoves
<1>2. ASSUME NEW d \in Doc, Reparse(d) \/ Cancel(d) \/ ScrubDeleted(d) PROVE RowMoves(i)
  BY <1>2, ScrubMoves
<1>3. ASSUME NEW d \in Doc, Tombstone(d) \/ Unlink(d) PROVE RowMoves(i)
  BY <1>3 DEF Tombstone, Unlink, queueVars, RowMoves
<1>4. ASSUME NEW w \in Worker, ClaimBatch(w) PROVE RowMoves(i)
  <2>1. PICK S : row' = [j \in Op |-> IF j \in S THEN [row[j] EXCEPT !.claimed = TRUE] ELSE row[j]]
    BY <1>4 DEF ClaimBatch
  <2>2. row[i] \in Row
    BY DEF ClaimTypes
  <2>3. CASE i \notin S
    BY <2>1, <2>3 DEF RowMoves
  <2>4. CASE i \in S
    <3>1. row'[i] = [row[i] EXCEPT !.claimed = TRUE]
      BY <2>1, <2>4
    <3> QED BY <2>2, <3>1, RowFields DEF RowMoves
  <2> QED BY <2>3, <2>4
<1>5. ASSUME NEW w \in Worker, Step(w) \/ Abort(w) \/ Crash(w) PROVE RowMoves(i)
  <2>1. CASE TrimPendingList(w)
    BY <2>1, TrimMoves
  <2>2. CASE RequeueFailedOps(w)
    BY <2>2, RequeueMoves
  <2>3. CASE EndBatch(w) \/ Abort(w)
    BY <2>3, UnclaimedMoves DEF EndBatch, Abort
  <2>4. CASE MapPhase(w) \/ TakeSlug(w) \/ CheckSources(w) \/ SavePage(w) \/ Conflict(w)
             \/ DrainMapped(w) \/ Crash(w)
    BY <2>4 DEF MapPhase, TakeSlug, CheckSources, SavePage, Conflict, DrainMapped, Crash,
                queueVars, RowMoves
  <2> QED BY <1>5, <2>1, <2>2, <2>3, <2>4 DEF Step
<1>6. CASE \E j \in Op : ClaimGoesStale(j)
  BY <1>6, UnclaimedMoves DEF ClaimGoesStale
<1>7. CASE DrainUnclaimedAndRelease
  <2> DEFINE S == {j \in Op : Queued(j) /\ row[j].op = "ingest" /\ Claimable(row[j].doc)}
  <2>1. row' = Without(S)
    BY <1>7 DEF DrainUnclaimedAndRelease
  <2>2. i \in S => Queued(i) /\ Leaves(i)
    BY <1>7 DEF Leaves
  <2> HIDE DEF S
  <2> QED BY <2>1, <2>2, WithoutMoves
<1>8. CASE DiscardUnclaimed
  <2> DEFINE S == {j \in Op : Queued(j) /\ row[j].op = "retract" /\ Claimable(row[j].doc)}
  <2>1. row' = [j \in Op |-> IF j \in S THEN [row[j] EXCEPT !.st = "dropped"] ELSE row[j]]
    BY <1>8 DEF DiscardUnclaimed
  <2>2. row[i] \in Row
    BY DEF ClaimTypes
  <2>3. CASE i \notin S
    <3> HIDE DEF S
    <3> QED BY <2>1, <2>3 DEF RowMoves
  <2>4. CASE i \in S
    <3>1. row'[i] = [row[i] EXCEPT !.st = "dropped"]
      <4> HIDE DEF S
      <4> QED BY <2>1, <2>4
    <3>2. row'[i].st = "dropped" /\ row'[i].doc = row[i].doc /\ row'[i].op = row[i].op
          /\ row'[i].attempt = row[i].attempt
      BY <2>2, <3>1, RowFields
    <3>3. Leaves(i)
      BY <1>8, <2>4, <3>2 DEF Leaves, Retract
    <3> QED BY <2>4, <3>2, <3>3 DEF RowMoves
  <2> QED BY <2>3, <2>4
<1>9. CASE LockExpires \/ UNCHANGED vars
  BY <1>9 DEF LockExpires, vars, queueVars, RowMoves
<1> QED BY <1>1, <1>2, <1>3, <1>4, <1>5, <1>6, <1>7, <1>8, <1>9 DEF Next, Cleanup

\* A row that is new.
Written(i) ==
    \E d \in Doc : /\ row'[i].doc = d /\ row'[i].st = "queued"
                   /\ \/ SeedFinalizing(d) /\ row'[i].op = "ingest" /\ row'[i].attempt = doc[d].attempt
                      \/ QueueRetract(d) /\ row'[i].op = "retract"

LEMMA RowsAreWritten ==
    ASSUME ClaimTypes, [Next]_vars
    PROVE  \/ last' = last
           \/ last' = last + 1 /\ last' \in Op /\ Written(last')
<1>1. ASSUME NEW d \in Doc, SeedFinalizing(d) \/ QueueRetract(d)
      PROVE  last' = last + 1 /\ last' \in Op /\ Written(last')
  <2>1. last \in Nat
    BY DEF ClaimTypes
  <2>2. CASE SeedFinalizing(d)
    <3>1. Insert(d, "ingest", doc[d].attempt, FALSE)
      BY <2>2 DEF SeedFinalizing
    <3>2. last + 1 \in Op /\ last' = last + 1
      BY <2>1, <3>1, Constants DEF Insert, Op
    <3>3. row'[last'] = [st |-> "queued", doc |-> d, op |-> "ingest", attempt |-> doc[d].attempt,
                         fails |-> 0, claimed |-> FALSE, hit |-> FALSE]
      BY <3>1, <3>2 DEF Insert, ClaimTypes
    <3> QED BY <2>2, <3>2, <3>3 DEF Written
  <2>3. CASE QueueRetract(d)
    <3>1. Insert(d, "retract", 0, d \in page.refs)
      BY <2>3 DEF QueueRetract
    <3>2. last + 1 \in Op /\ last' = last + 1
      BY <2>1, <3>1, Constants DEF Insert, Op
    <3>3. row'[last'] = [st |-> "queued", doc |-> d, op |-> "retract", attempt |-> 0,
                         fails |-> 0, claimed |-> FALSE, hit |-> d \in page.refs]
      BY <3>1, <3>2 DEF Insert, ClaimTypes
    <3> QED BY <2>3, <3>2, <3>3 DEF Written
  <2> QED BY <1>1, <2>2, <2>3
<1>2. CASE ~\E d \in Doc : SeedFinalizing(d) \/ QueueRetract(d)
  BY <1>2 DEF Next, Reparse, Cancel, Tombstone, Cleanup, ScrubDeleted, Unlink, Scrub, ClaimBatch, Step,
              MapPhase, TakeSlug, CheckSources, SavePage, Conflict, DrainMapped, TrimPendingList,
              RequeueFailedOps, EndBatch, Abort, Crash, ClaimGoesStale, LockExpires,
              DrainUnclaimedAndRelease, DiscardUnclaimed, vars, queueVars
<1> QED BY <1>1, <1>2

\* A document's stage, attempt and life.
Same(d) == doc'[d].stage = doc[d].stage /\ doc'[d].attempt = doc[d].attempt
DocMoves(d) ==
    \/ Same(d) /\ doc'[d].life = doc[d].life
    \/ /\ SeedFinalizing(d) /\ doc'[d].stage = "finalizing" /\ doc'[d].attempt = doc[d].attempt
       /\ doc'[d].life = doc[d].life
    \/ /\ Reparse(d) /\ doc'[d].stage = "parsing" /\ doc'[d].attempt = doc[d].attempt + 1
       /\ doc'[d].life = doc[d].life
    \/ /\ Cancel(d) /\ doc'[d].stage = "cancelled" /\ doc'[d].attempt = doc[d].attempt
       /\ doc'[d].life = doc[d].life
    \/ Tombstone(d) /\ Same(d) /\ doc[d].life = "live" /\ doc'[d].life = "marked"
    \/ ScrubDeleted(d) /\ Same(d) /\ doc[d].life = "marked" /\ doc'[d].life = "scrubbed"
    \/ QueueRetract(d) /\ Same(d) /\ doc[d].life = "scrubbed" /\ doc'[d].life = "queued"
    \/ Unlink(d) /\ Same(d) /\ doc[d].life = "queued" /\ doc'[d].life = "deleted"

LEMMA DocsMove ==
    ASSUME ClaimTypes, [Next]_vars, NEW d \in Doc
    PROVE  DocMoves(d)
<1>1. doc[d] \in Document /\ doc \in [Doc -> Document]
  BY DEF ClaimTypes
<1>2. ASSUME NEW x, NEW e \in Doc, doc' = [doc EXCEPT ![e] = x], e # d PROVE DocMoves(d)
  BY <1>1, <1>2 DEF DocMoves, Same
<1>3. CASE doc' = doc
  BY <1>3 DEF DocMoves, Same
<1>4. ASSUME NEW e \in Doc, SeedFinalizing(e) \/ Reparse(e) \/ Cancel(e) \/ Tombstone(e) \/ Cleanup(e)
      PROVE  DocMoves(d)
  <2>1. CASE e # d
    <3>1. PICK x : doc' = [doc EXCEPT ![e] = x]
      <4>1. CASE SeedFinalizing(e) \/ Cancel(e) \/ Tombstone(e) \/ ScrubDeleted(e)
        BY <1>1, <4>1 DEF SeedFinalizing, Cancel, Tombstone, ScrubDeleted
      <4>2. CASE Reparse(e) \/ QueueRetract(e) \/ Unlink(e)
        BY <1>1, <4>2 DEF Reparse, QueueRetract, Unlink
      <4> QED BY <1>4, <4>1, <4>2 DEF Cleanup
    <3> QED BY <1>2, <2>1, <3>1
  <2>2. CASE e = d
    <3>1. CASE SeedFinalizing(d)
      <4>1. doc'[d] = [doc[d] EXCEPT !.stage = "finalizing"]
        BY <1>1, <3>1 DEF SeedFinalizing
      <4> QED BY <1>1, <3>1, <4>1 DEF DocMoves, Document
    <3>2. CASE Reparse(d)
      <4>1. doc'[d] = [doc[d] EXCEPT !.stage = "parsing", !.attempt = doc[d].attempt + 1]
        BY <1>1, <3>2 DEF Reparse
      <4>2. /\ doc'[d].stage = "parsing" /\ doc'[d].attempt = doc[d].attempt + 1
            /\ doc'[d].life = doc[d].life
        BY <1>1, <4>1 DEF Document
      <4> QED BY <3>2, <4>2 DEF DocMoves
    <3>3. CASE Cancel(d)
      <4>1. doc'[d] = [doc[d] EXCEPT !.stage = "cancelled"]
        BY <1>1, <3>3 DEF Cancel
      <4> QED BY <1>1, <3>3, <4>1 DEF DocMoves, Document
    <3>4. CASE Tombstone(d)
      <4>1. doc'[d] = [doc[d] EXCEPT !.life = "marked"] /\ doc[d].life = "live"
        BY <1>1, <3>4 DEF Tombstone, Asked
      <4> QED BY <1>1, <3>4, <4>1 DEF DocMoves, Document, Same
    <3>5. CASE ScrubDeleted(d)
      <4>1. doc'[d] = [doc[d] EXCEPT !.life = "scrubbed"] /\ doc[d].life = "marked"
        BY <1>1, <3>5 DEF ScrubDeleted
      <4> QED BY <1>1, <3>5, <4>1 DEF DocMoves, Document, Same
    <3>6. CASE QueueRetract(d)
      <4>1. doc'[d] = [doc[d] EXCEPT !.life = "queued", !.seen = page.refs] /\ doc[d].life = "scrubbed"
        BY <1>1, <3>6 DEF QueueRetract
      <4>2. Same(d) /\ doc'[d].life = "queued"
        BY <1>1, <4>1 DEF Document, Same
      <4> QED BY <3>6, <4>1, <4>2 DEF DocMoves
    <3>7. CASE Unlink(d)
      <4>1. doc'[d] = [doc[d] EXCEPT !.life = "deleted", !.seen = {}] /\ doc[d].life = "queued"
        BY <1>1, <3>7 DEF Unlink
      <4>2. Same(d) /\ doc'[d].life = "deleted"
        BY <1>1, <4>1 DEF Document, Same
      <4> QED BY <3>7, <4>1, <4>2 DEF DocMoves
    <3> QED BY <1>4, <2>2, <3>1, <3>2, <3>3, <3>4, <3>5, <3>6, <3>7 DEF Cleanup
  <2> QED BY <2>1, <2>2
<1>5. CASE UNCHANGED doc
  BY <1>3, <1>5
<1>6. (\E e \in Doc : SeedFinalizing(e) \/ Reparse(e) \/ Cancel(e) \/ Tombstone(e) \/ Cleanup(e))
      \/ UNCHANGED doc
  <2>1. ASSUME NEW w \in Worker, ClaimBatch(w) \/ Step(w) \/ Abort(w) \/ Crash(w) PROVE UNCHANGED doc
    <3>1. CASE MapPhase(w) \/ DrainMapped(w) \/ TrimPendingList(w) \/ RequeueFailedOps(w)
      BY <3>1 DEF MapPhase, DrainMapped, TrimPendingList, RequeueFailedOps
    <3>2. CASE ~(MapPhase(w) \/ DrainMapped(w) \/ TrimPendingList(w) \/ RequeueFailedOps(w))
      BY <2>1, <3>2 DEF ClaimBatch, Step, TakeSlug, CheckSources, SavePage, Conflict, EndBatch, Abort, Crash
    <3> QED BY <3>1, <3>2
  <2>2. ASSUME (\E i \in Op : ClaimGoesStale(i)) \/ LockExpires \/ DrainUnclaimedAndRelease
               \/ DiscardUnclaimed \/ UNCHANGED vars
        PROVE  UNCHANGED doc
    BY <2>2 DEF ClaimGoesStale, LockExpires, DrainUnclaimedAndRelease, DiscardUnclaimed, vars
  <2> QED BY <2>1, <2>2 DEF Next
<1> QED BY <1>4, <1>5, <1>6

Leaving(d) == doc[d].life \in {"queued", "deleted"}

LEMMA LifeMoves ==
    ASSUME ClaimTypes, [Next]_vars, NEW d \in Doc
    PROVE  /\ Leaving(d) => Leaving(d)'
           /\ doc'[d].life = "live" => doc[d].life = "live"
           /\ doc'[d].attempt >= doc[d].attempt
<1>1. doc[d].attempt \in Int
  BY DEF ClaimTypes, Document, Attempt
<1>2. SeedFinalizing(d) \/ Reparse(d) \/ Cancel(d) => doc[d].life = "live"
  BY DEF SeedFinalizing, Reparse, Cancel, Asked
<1> QED BY <1>1, <1>2, DocsMove DEF DocMoves, Same, Leaving

-----------------------------------------------------------------------------
(* The order of a document's rows *)

\* The retract of a document is its last row, and written on its way out.
RetractIsLast ==
    \A i \in 1..last : Retract(i) =>
        /\ Leaving(row[i].doc)
        /\ \A j \in 1..last : row[j].doc = row[i].doc => j <= i

LEMMA RetractStep ==
    ASSUME ClaimTypes, RetractIsLast, [Next]_vars
    PROVE  RetractIsLast'
<1>1. \A i \in 1..last : i \in Op /\ i <= last /\ i \in Nat
  BY Constants DEF ClaimTypes, Op
<1>2. \A i \in 1..last : /\ row'[i].doc = row[i].doc /\ row'[i].op = row[i].op
                         /\ row[i].doc \in Doc
  <2> SUFFICES ASSUME NEW i \in 1..last
               PROVE  row'[i].doc = row[i].doc /\ row'[i].op = row[i].op /\ row[i].doc \in Doc
    OBVIOUS
  <2>1. RowMoves(i)
    BY <1>1, RowsMove
  <2> QED BY <1>1, <2>1 DEF RowMoves, ClaimTypes
<1>3. \A i \in 1..last : Retract(i)' => Leaving(row[i].doc)'
  <2> SUFFICES ASSUME NEW i \in 1..last, row'[i].op = "retract" PROVE Leaving(row[i].doc)'
    BY DEF Retract, Leaving
  <2>1. Leaving(row[i].doc) /\ row[i].doc \in Doc
    BY <1>2 DEF RetractIsLast, Retract
  <2>2. doc'[row[i].doc].life \in {"queued", "deleted"}
    BY <2>1, LifeMoves DEF Leaving
  <2> QED BY <1>2, <2>2 DEF Leaving
<1>4. CASE last' = last
  BY <1>2, <1>3, <1>4 DEF RetractIsLast, Retract
<1>5. CASE last' = last + 1 /\ Written(last')
  <2>1. PICK d \in Doc : /\ row'[last'].doc = d
                         /\ \/ SeedFinalizing(d) /\ row'[last'].op = "ingest"
                            \/ QueueRetract(d) /\ row'[last'].op = "retract"
    BY <1>5 DEF Written
  <2>2. ~Leaving(d)
    BY <2>1 DEF SeedFinalizing, QueueRetract, Leaving
  <2>3. \A i \in 1..last : row'[i].op = "retract" => row[i].doc # d
    BY <1>2, <2>2 DEF RetractIsLast, Retract
  <2>4. row'[last'].op = "retract" => Leaving(d)'
    <3>1. CASE QueueRetract(d)
      <4>1. doc'[d] = [doc[d] EXCEPT !.life = "queued", !.seen = page.refs] /\ doc[d] \in Document
        BY <3>1 DEF QueueRetract, ClaimTypes
      <4>2. doc'[d].life = "queued"
        BY <4>1 DEF Document
      <4> QED BY <4>2 DEF Leaving
    <3> QED BY <2>1, <3>1
  <2>5. \A i \in 1..last' : i \in 1..last \/ i = last'
    BY <1>5 DEF ClaimTypes
  <2>6. \A i \in 1..last' : Retract(i)' => Leaving(row[i].doc)' \/ i = last'
    BY <1>3, <2>5
  <2>7. \A i \in 1..last' : Retract(i)' => Leaving(row[i].doc)'
    BY <2>1, <2>4, <2>6 DEF Retract, Leaving
  <2>8. \A i, j \in 1..last' : row'[i].op = "retract" /\ row'[j].doc = row'[i].doc => j <= i
    <3> SUFFICES ASSUME NEW i \in 1..last', NEW j \in 1..last',
                        row'[i].op = "retract", row'[j].doc = row'[i].doc
                 PROVE  j <= i
      OBVIOUS
    <3>1. CASE i \in 1..last /\ j \in 1..last
      BY <1>2, <3>1 DEF RetractIsLast, Retract
    <3>2. CASE i = last'
      BY <3>2
    <3>3. CASE i \in 1..last /\ j = last'
      BY <1>2, <2>1, <2>3, <3>3
    <3> QED BY <2>5, <3>1, <3>2, <3>3
  <2> QED BY <2>7, <2>8 DEF RetractIsLast, Retract
<1> QED BY <1>4, <1>5, RowsAreWritten

-----------------------------------------------------------------------------
(* What a step does to a batch *)

\* The three places where a batch releases slots.
LEMMA BatchReleases ==
    ASSUME NEW w \in Worker, MapPhase(w) \/ DrainMapped(w) \/ RequeueFailedOps(w)
    PROVE  \E D : Release(D)
<1>1. \E S, lost : FinalizeWikiSubtask(S, lost)
  <2>1. CASE MapPhase(w)
    BY <2>1 DEF MapPhase
  <2>2. CASE DrainMapped(w)
    BY <2>2 DEF DrainMapped
  <2>3. CASE RequeueFailedOps(w)
    BY <2>3 DEF RequeueFailedOps
  <2> QED BY <2>1, <2>2, <2>3
<1> QED BY <1>1 DEF FinalizeWikiSubtask

LEMMA NoBatch ==
    ASSUME [Next]_vars, ~\E w \in Worker : ClaimBatch(w) \/ Step(w) \/ Abort(w) \/ Crash(w)
    PROVE  batch' = batch
  BY DEF Next, SeedFinalizing, Reparse, Cancel, Tombstone, Cleanup, ScrubDeleted, QueueRetract, Unlink,
         Scrub, ClaimGoesStale, LockExpires, DrainUnclaimedAndRelease, DiscardUnclaimed, vars

\* The fields the invariants read, in the records the steps build.
LEMMA ReducedFields ==
    ASSUME ClaimTypes, NEW w \in Worker
    PROVE  /\ Reduced(w).pc = "drain" /\ Reduced(w).ops = batch[w].ops /\ Reduced(w).ok = batch[w].ok
           /\ Reduced(w).fail = batch[w].fail /\ Reduced(w).adds = {} /\ Reduced(w).drops = {}
           /\ Unapplied(w).pc = "drain" /\ Unapplied(w).ops = batch[w].ops
           /\ Unapplied(w).ok = batch[w].ok /\ Unapplied(w).adds = {} /\ Unapplied(w).drops = {}
           /\ Unapplied(w).fail = batch[w].fail \cup batch[w].ok \cup batch[w].drops
<1>1. batch[w] \in Run
  BY DEF ClaimTypes
<1>2. /\ Reduced(w).pc = "drain" /\ Reduced(w).ops = batch[w].ops /\ Reduced(w).ok = batch[w].ok
      /\ Reduced(w).fail = batch[w].fail /\ Reduced(w).adds = {} /\ Reduced(w).drops = {}
  BY <1>1 DEF Reduced, Run
<1>3. Unapplied(w) = [Reduced(w) EXCEPT !.fail = batch[w].fail \cup batch[w].ok \cup batch[w].drops]
  BY <1>2 DEF Unapplied
<1>4. Reduced(w) \in Run
  BY RunTypes
<1>5. \A S : LET y == [Reduced(w) EXCEPT !.fail = S] IN
             /\ y.pc = Reduced(w).pc /\ y.ops = Reduced(w).ops /\ y.ok = Reduced(w).ok
             /\ y.adds = Reduced(w).adds /\ y.drops = Reduced(w).drops /\ y.fail = S
  BY <1>4 DEF Run
<1> QED BY <1>2, <1>3, <1>5

LEMMA ClaimFields ==
    ASSUME ClaimTypes, NEW w \in Worker, ClaimBatch(w)
    PROVE  \E K \in SUBSET Doc :
             /\ \A d \in K : Claimable(d)
             /\ batch'[w].ops = UNION {RowsOf(d) : d \in K} /\ batch'[w].pc = "map"
             /\ batch'[w].adds = {} /\ batch'[w].drops = {}
<1>1. PICK K \in SUBSET Doc :
         /\ \A d \in K : Claimable(d)
         /\ batch' = [batch EXCEPT ![w] = [Idle EXCEPT !.pc = "map", !.ops = UNION {RowsOf(d) : d \in K}]]
  BY DEF ClaimBatch, NextKeys, Selected
<1>2. \A S : LET y == [Idle EXCEPT !.pc = "map", !.ops = S] IN
             y.pc = "map" /\ y.ops = S /\ y.adds = {} /\ y.drops = {}
  BY DEF Idle
<1>3. batch'[w] = [Idle EXCEPT !.pc = "map", !.ops = UNION {RowsOf(d) : d \in K}]
  BY <1>1 DEF ClaimTypes
<1> QED BY <1>1, <1>2, <1>3

\* The ingests and the retracts a batch carries out.
Ingests(w) == {i \in Chosen(w) : row[i].op = "ingest"}
Retracts(w) == {i \in Chosen(w) : row[i].op = "retract"}

\* The slots of the ops in S are released, but for the releases that fail.
Finalizes(S) == \E lost : FinalizeWikiSubtask(S, lost)

\* What the map phase makes of a batch.
Mapped(w, skip, F, blind) ==
    /\ batch[w].pc = "map" /\ batch'[w].ops = batch[w].ops
    /\ batch'[w].pc = "reduce" \/ (batch'[w].pc = "drain" /\ batch'[w].adds = {} /\ batch'[w].drops = {})
    /\ batch'[w].ok = {row[i].doc : i \in Ingests(w) \ (skip \cup F)}
    /\ batch'[w].adds = batch'[w].ok
    /\ batch'[w].said = [d \in Doc |-> IF d \in batch'[w].ok THEN doc[d].attempt ELSE 0]
    /\ batch'[w].drops = {row[i].doc : i \in {j \in Retracts(w) : row[j].hit}
                                            \cup {j \in Retracts(w) \ blind : Touches(j)}}
    /\ batch'[w].fail = {row[i].doc : i \in F}
    /\ {i \in Ingests(w) : Gone(row[i].doc)} \subseteq skip /\ skip \cap F = {}
    /\ Finalizes(skip)
    /\ clobbered' = clobbered \cup {row[j].doc : j \in blind}

LEMMA MapFields ==
    ASSUME ClaimTypes, NEW w \in Worker, MapPhase(w)
    PROVE  \E skip \in SUBSET Ingests(w), F \in SUBSET Ingests(w), blind \in SUBSET Retracts(w) :
             Mapped(w, skip, F, blind)
<1> DEFINE I == Ingests(w)
           R == Retracts(w)
           ok(skip, F) == {row[i].doc : i \in I \ (skip \cup F)}
           drops(blind) == {row[i].doc : i \in {j \in R : row[j].hit} \cup {j \in R \ blind : Touches(j)}}
           failed(F) == {row[i].doc : i \in F}
           said(D) == [d \in Doc |-> IF d \in D THEN doc[d].attempt ELSE 0]
           pc(D) == IF D = {} THEN "drain" ELSE "reduce"
<1>1. PICK skip \in SUBSET I, F \in SUBSET I, blind \in SUBSET R, lost \in SUBSET Doc :
         /\ batch' = [batch EXCEPT ![w] =
                      [@ EXCEPT !.ok = ok(skip, F), !.adds = ok(skip, F), !.drops = drops(blind),
                                !.said = said(ok(skip, F)), !.fail = failed(F),
                                !.pc = pc(ok(skip, F) \cup drops(blind))]]
         /\ {i \in I : Gone(row[i].doc)} \subseteq skip /\ skip \cap F = {}
         /\ FinalizeWikiSubtask(skip, lost)
         /\ clobbered' = clobbered \cup {row[j].doc : j \in blind}
  BY ZenonT(60) DEF MapPhase, Ingests, Retracts
<1>2. batch[w] \in Run /\ batch \in [Worker -> Run]
  BY DEF ClaimTypes
<1>3. \A A, D, s, f, p : LET y == [batch[w] EXCEPT !.ok = A, !.adds = A, !.drops = D,
                                                 !.said = s, !.fail = f, !.pc = p] IN
         /\ y.ops = batch[w].ops /\ y.pc = p /\ y.ok = A /\ y.adds = A /\ y.drops = D
         /\ y.said = s /\ y.fail = f
  BY <1>2 DEF Run
<1> HIDE DEF I, R, ok, drops, failed, said, pc
<1>4. batch'[w] = [batch[w] EXCEPT !.ok = ok(skip, F), !.adds = ok(skip, F), !.drops = drops(blind),
                                   !.said = said(ok(skip, F)), !.fail = failed(F),
                                   !.pc = pc(ok(skip, F) \cup drops(blind))]
  BY <1>1, <1>2
<1>5. /\ batch'[w].ops = batch[w].ops /\ batch'[w].pc = pc(ok(skip, F) \cup drops(blind))
      /\ batch'[w].ok = ok(skip, F) /\ batch'[w].adds = ok(skip, F)
      /\ batch'[w].drops = drops(blind) /\ batch'[w].said = said(ok(skip, F))
      /\ batch'[w].fail = failed(F)
  BY <1>3, <1>4
<1>6. batch[w].pc = "map"
  BY DEF MapPhase
<1>7. pc(ok(skip, F) \cup drops(blind)) = "reduce"
      \/ (pc(ok(skip, F) \cup drops(blind)) = "drain" /\ ok(skip, F) = {} /\ drops(blind) = {})
  BY DEF pc
<1>8. batch'[w].pc = "reduce" \/ (batch'[w].pc = "drain" /\ batch'[w].adds = {} /\ batch'[w].drops = {})
  BY <1>5, <1>7
<1>9. /\ batch'[w].ok = {row[i].doc : i \in Ingests(w) \ (skip \cup F)}
      /\ batch'[w].adds = batch'[w].ok
      /\ batch'[w].drops = {row[i].doc : i \in {j \in Retracts(w) : row[j].hit}
                                              \cup {j \in Retracts(w) \ blind : Touches(j)}}
      /\ batch'[w].fail = {row[i].doc : i \in F}
  BY <1>5 DEF I, R, ok, drops, failed
<1>10. batch'[w].said = [d \in Doc |-> IF d \in batch'[w].ok THEN doc[d].attempt ELSE 0]
  BY <1>5 DEF said
<1>11. /\ skip \in SUBSET Ingests(w) /\ F \in SUBSET Ingests(w) /\ blind \in SUBSET Retracts(w)
       /\ {i \in Ingests(w) : Gone(row[i].doc)} \subseteq skip
  BY <1>1 DEF I, R
<1>12. Finalizes(skip)
  BY <1>1 DEF Finalizes
<1> QED BY <1>1, <1>5, <1>6, <1>8, <1>9, <1>10, <1>11, <1>12, Zenon DEF Mapped

\* The rewrite goes on, with fewer additions, or is over.
LEMMA ReduceFields ==
    ASSUME ClaimTypes, NEW w \in Worker, TakeSlug(w) \/ CheckSources(w) \/ SavePage(w) \/ Conflict(w)
    PROVE  /\ batch[w].pc \in {"reduce", "write", "save"}
           /\ batch'[w].ops = batch[w].ops /\ batch'[w].ok = batch[w].ok
           /\ \/ /\ batch'[w].pc \in {"write", "save"} /\ batch'[w].said = batch[w].said
                 /\ batch'[w].adds \subseteq batch[w].adds /\ batch'[w].drops = batch[w].drops
                 /\ batch'[w].fail = batch[w].fail
                 /\ page' = page
              \/ /\ batch'[w].pc = "drain" /\ batch'[w].adds = {} /\ batch'[w].drops = {}
                 /\ \/ batch'[w].fail = batch[w].fail \cup batch[w].ok \cup batch[w].drops /\ page' = page
                    \/ batch'[w].fail = batch[w].fail /\ page' = page
                       /\ (batch[w].drops = {} \/ ~page.there)
                    \/ batch'[w].fail = batch[w].fail /\ SavePage(w)
<1>1. batch[w] \in Run /\ batch \in [Worker -> Run] /\ LiveAdds(w) \subseteq batch[w].adds
  BY DEF ClaimTypes, LiveAdds
<1>2. \A A, p, g, l : LET y == [batch[w] EXCEPT !.adds = A, !.snap = p, !.locks = g, !.pc = l]
                          z == [batch[w] EXCEPT !.adds = A, !.snap = p, !.pc = l] IN
         /\ y.ops = batch[w].ops /\ y.ok = batch[w].ok /\ y.said = batch[w].said /\ y.adds = A
         /\ y.drops = batch[w].drops /\ y.fail = batch[w].fail /\ y.pc = l
         /\ z.ops = batch[w].ops /\ z.ok = batch[w].ok /\ z.said = batch[w].said /\ z.adds = A
         /\ z.drops = batch[w].drops /\ z.fail = batch[w].fail /\ z.pc = l
  BY <1>1 DEF Run
<1>3. CASE TakeSlug(w)
  <2>1. page' = page /\ batch[w].pc = "reduce"
    BY <1>3 DEF TakeSlug
  <2>2. CASE batch' = [batch EXCEPT ![w] = Unapplied(w)]
    BY <1>1, <2>1, <2>2, ReducedFields
  <2>3. CASE batch' = [batch EXCEPT ![w] = Reduced(w)] /\ Idles(w)
    BY <1>1, <2>1, <2>3, ReducedFields DEF Idles
  <2>4. ASSUME NEW got \in BOOLEAN,
               batch' = [batch EXCEPT ![w] = [@ EXCEPT !.adds = LiveAdds(w), !.snap = page,
                                                       !.locks = got, !.pc = "write"]]
        PROVE  /\ batch'[w].ops = batch[w].ops /\ batch'[w].ok = batch[w].ok
               /\ batch'[w].pc = "write" /\ batch'[w].said = batch[w].said
               /\ batch'[w].adds \subseteq batch[w].adds /\ batch'[w].drops = batch[w].drops
               /\ batch'[w].fail = batch[w].fail
    BY <1>1, <1>2, <2>4
  <2> QED BY <1>3, <2>1, <2>2, <2>3, <2>4 DEF TakeSlug
<1>4. CASE CheckSources(w)
  <2>1. page' = page /\ batch[w].pc = "write"
    BY <1>4 DEF CheckSources
  <2>2. CASE batch' = [batch EXCEPT ![w] = Unapplied(w)]
    BY <1>1, <2>1, <2>2, ReducedFields
  <2>3. CASE batch' = [batch EXCEPT ![w].pc = "save"]
    <3>1. batch'[w] = [batch[w] EXCEPT !.pc = "save"]
      BY <1>1, <2>3
    <3> QED BY <1>1, <2>1, <3>1 DEF Run
  <2> QED BY <1>4, <2>2, <2>3 DEF CheckSources
<1>5. CASE SavePage(w)
  BY <1>1, <1>5, ReducedFields DEF SavePage
<1>6. CASE Conflict(w)
  <2>1. page' = page /\ batch[w].pc = "save"
    BY <1>6 DEF Conflict
  <2>2. CASE batch' = [batch EXCEPT ![w] = Unapplied(w)]
    BY <1>1, <2>1, <2>2, ReducedFields
  <2>3. CASE batch' = [batch EXCEPT ![w] = Reduced(w)] /\ Idles(w)
    BY <1>1, <2>1, <2>3, ReducedFields DEF Idles
  <2>4. CASE batch' = [batch EXCEPT ![w] = [@ EXCEPT !.adds = LiveAdds(w), !.snap = page, !.pc = "write"]]
    BY <1>1, <1>2, <2>1, <2>4
  <2> QED BY <1>6, <2>2, <2>3, <2>4 DEF Conflict
<1> QED BY <1>3, <1>4, <1>5, <1>6

\* The batch settles, or ends without.
LEMMA TailFields ==
    ASSUME ClaimTypes, NEW w \in Worker,
           DrainMapped(w) \/ TrimPendingList(w) \/ RequeueFailedOps(w) \/ EndBatch(w) \/ Abort(w) \/ Crash(w)
    PROVE  \/ batch'[w] = Idle
           \/ /\ DrainMapped(w) /\ batch[w].pc = "drain" /\ batch'[w].pc = "trim"
              /\ batch'[w].ops = batch[w].ops /\ batch'[w].fail = batch[w].fail
              /\ batch'[w].adds = batch[w].adds /\ batch'[w].drops = batch[w].drops
           \/ /\ TrimPendingList(w) /\ batch[w].pc = "trim" /\ batch'[w].pc = "requeue"
              /\ \/ batch'[w].ops = batch[w].ops
                 \/ /\ batch'[w].ops = FailedOps(w)
                    /\ row' = Without({i \in batch[w].ops : Queued(i)} \ FailedOps(w))
              /\ batch'[w].adds = batch[w].adds /\ batch'[w].drops = batch[w].drops
           \/ /\ RequeueFailedOps(w) /\ batch[w].pc = "requeue" /\ batch'[w].pc = "end"
              /\ batch'[w].adds = batch[w].adds /\ batch'[w].drops = batch[w].drops
<1>1. batch[w] \in Run /\ batch \in [Worker -> Run]
  BY DEF ClaimTypes
<1>2. \A o, l : /\ LET y == [batch[w] EXCEPT !.ops = o, !.pc = l] IN
                   y.ops = o /\ y.pc = l /\ y.adds = batch[w].adds /\ y.drops = batch[w].drops
                /\ LET y == [batch[w] EXCEPT !.err = TRUE, !.pc = l] IN
                   y.ops = batch[w].ops /\ y.pc = l /\ y.adds = batch[w].adds /\ y.drops = batch[w].drops
  BY <1>1 DEF Run
<1>3. \A o, l : Settling(w, o, l) => \/ batch'[w] = Idle
                                     \/ batch'[w] = [batch[w] EXCEPT !.ops = o, !.pc = l]
  BY <1>1 DEF Settling
<1>4. CASE EndBatch(w) \/ Abort(w) \/ Crash(w)
  BY <1>1, <1>4 DEF EndBatch, Abort, Crash
<1>5. CASE DrainMapped(w)
  <2>1. batch'[w] = [batch[w] EXCEPT !.pc = "trim"] /\ batch[w].pc = "drain"
    BY <1>1, <1>5 DEF DrainMapped
  <2>2. /\ batch'[w].pc = "trim" /\ batch'[w].ops = batch[w].ops /\ batch'[w].fail = batch[w].fail
        /\ batch'[w].adds = batch[w].adds /\ batch'[w].drops = batch[w].drops
    BY <1>1, <2>1 DEF Run
  <2> QED BY <1>5, <2>1, <2>2
<1>6. CASE TrimPendingList(w)
  <2>1. \/ batch'[w] = Idle
        \/ /\ batch'[w] = [batch[w] EXCEPT !.ops = FailedOps(w), !.pc = "requeue"]
           /\ row' = Without({i \in batch[w].ops : Queued(i)} \ FailedOps(w))
        \/ batch'[w] = [batch[w] EXCEPT !.err = TRUE, !.pc = "requeue"]
    BY <1>1, <1>3, <1>6 DEF TrimPendingList
  <2>2. batch[w].pc = "trim"
    BY <1>6 DEF TrimPendingList
  <2>3. CASE /\ batch'[w] = [batch[w] EXCEPT !.ops = FailedOps(w), !.pc = "requeue"]
             /\ row' = Without({i \in batch[w].ops : Queued(i)} \ FailedOps(w))
    BY <1>2, <1>6, <2>2, <2>3
  <2>4. CASE batch'[w] = [batch[w] EXCEPT !.err = TRUE, !.pc = "requeue"]
    BY <1>2, <1>6, <2>2, <2>4
  <2> QED BY <2>1, <2>3, <2>4
<1>7. CASE RequeueFailedOps(w)
  <2>1. PICK o : \/ batch'[w] = Idle
                 \/ batch'[w] = [batch[w] EXCEPT !.ops = o, !.pc = "end"]
                 \/ batch'[w] = [batch[w] EXCEPT !.err = TRUE, !.pc = "end"]
    BY <1>1, <1>3, <1>7 DEF RequeueFailedOps
  <2>2. batch[w].pc = "requeue"
    BY <1>7 DEF RequeueFailedOps
  <2>3. CASE batch'[w] = [batch[w] EXCEPT !.ops = o, !.pc = "end"]
    BY <1>2, <1>7, <2>2, <2>3
  <2>4. CASE batch'[w] = [batch[w] EXCEPT !.err = TRUE, !.pc = "end"]
    BY <1>2, <1>7, <2>2, <2>4
  <2> QED BY <2>1, <2>3, <2>4
<1> QED BY <1>4, <1>5, <1>6, <1>7

-----------------------------------------------------------------------------
(* The wiki slot of a document that waits for it *)

Waits(d) == doc[d].stage = "finalizing" /\ doc[d].life = "live"
Current(i) == row[i].op = "ingest" /\ row[i].attempt = doc[row[i].doc].attempt

\* A document's ingests are written in the order of its attempts, one for each.
RowsInOrder ==
    \A i \in 1..last : row[i].op = "ingest" =>
        /\ row[i].attempt <= doc[row[i].doc].attempt
        /\ doc[row[i].doc].stage = "parsing" => row[i].attempt < doc[row[i].doc].attempt
        /\ \A j \in 1..last : j < i /\ row[j].doc = row[i].doc
                              => row[j].op = "ingest" /\ row[j].attempt < row[i].attempt

\* What a batch carries out for a document that waits, it has extracted or failed,
\* and before the rows are deleted it has failed, unless it has given up the slot, or
\* has tried to.
SlotInBatch ==
    \A w \in Worker : \A i \in Chosen(w) :
        Current(i) /\ Waits(row[i].doc) /\ drained[row[i].doc] = 0 /\ row[i].doc \notin stranded =>
            /\ batch[w].pc \in {"reduce", "write", "save", "drain"} =>
                   row[i].doc \in batch[w].ok \cup batch[w].fail
            /\ batch[w].pc = "trim" => row[i].doc \in batch[w].fail

SlotInv ==
    /\ ClaimTypes /\ OtherTypes
    /\ RetractIsLast /\ RowsInOrder /\ SlotInBatch /\ SlotHasRow

LEMMA WrittenRows ==
    ASSUME ClaimTypes
    PROVE  /\ \A i \in 1..last : i \in Op /\ i <= last /\ row[i] \in Row /\ row[i].doc \in Doc
           /\ \A w \in Worker : batch[w].ops \subseteq 1..last /\ Chosen(w) \subseteq batch[w].ops
           /\ \A d \in Doc : RowsOf(d) \subseteq 1..last
           /\ last \in Nat
<1>1. \A i \in 1..last : i \in Op /\ i <= last /\ row[i] \in Row /\ row[i].doc \in Doc
  BY Constants DEF ClaimTypes, Op
<1>2. \A w \in Worker : batch[w].ops \subseteq 1..last /\ Chosen(w) \subseteq batch[w].ops
  BY Constants DEF ClaimTypes, Run, Op, Chosen
<1>3. \A d \in Doc : RowsOf(d) \subseteq 1..last
  BY Constants DEF RowsOf, Queued, ClaimTypes, Op
<1> QED BY <1>1, <1>2, <1>3 DEF ClaimTypes

LEMMA FixedRows ==
    ASSUME ClaimTypes, [Next]_vars, NEW i \in 1..last
    PROVE  /\ row'[i].doc = row[i].doc /\ row'[i].op = row[i].op /\ row'[i].attempt = row[i].attempt
           /\ Queued(i)' => Queued(i)
  BY WrittenRows, RowsMove DEF RowMoves, Queued

LEMMA OrderStep ==
    ASSUME ClaimTypes, RetractIsLast, RowsInOrder, [Next]_vars
    PROVE  RowsInOrder'
<1>1. ASSUME NEW i \in 1..last, row'[i].op = "ingest"
      PROVE  /\ row'[i].attempt <= doc'[row'[i].doc].attempt
             /\ doc'[row'[i].doc].stage = "parsing" => row'[i].attempt < doc'[row'[i].doc].attempt
             /\ \A j \in 1..last : j < i /\ row'[j].doc = row'[i].doc
                                   => row'[j].op = "ingest" /\ row'[j].attempt < row'[i].attempt
  <2> DEFINE d == row[i].doc
  <2>1. /\ row'[i].doc = d /\ row[i].op = "ingest" /\ row'[i].attempt = row[i].attempt
        /\ d \in Doc /\ row[i].attempt \in Int
    BY <1>1, FixedRows, WrittenRows DEF Row, Attempt
  <2>2. doc[d].attempt \in Int /\ doc'[d].attempt \in Int
    BY <2>1, TypesStep DEF ClaimTypes, Document, Attempt
  <2>3. row[i].attempt <= doc[d].attempt /\ (doc[d].stage = "parsing" => row[i].attempt < doc[d].attempt)
    BY <2>1 DEF RowsInOrder
  <2>4. doc'[d].attempt >= doc[d].attempt
    BY <2>1, LifeMoves
  <2>5. doc'[d].stage = "parsing" => doc[d].stage = "parsing" \/ doc'[d].attempt = doc[d].attempt + 1
    BY <2>1, DocsMove DEF DocMoves, Same
  <2>6. ASSUME NEW j \in 1..last, j < i, row'[j].doc = row'[i].doc
        PROVE  row'[j].op = "ingest" /\ row'[j].attempt < row'[i].attempt
    BY <2>1, <2>6, FixedRows DEF RowsInOrder
  <2> HIDE DEF d
  <2> QED BY <2>1, <2>2, <2>3, <2>4, <2>5, <2>6
<1>2. CASE last' = last
  BY <1>1, <1>2 DEF RowsInOrder
<1>3. CASE last' = last + 1 /\ Written(last')
  <2>1. PICK d \in Doc : /\ row'[last'].doc = d
                         /\ \/ SeedFinalizing(d) /\ row'[last'].op = "ingest"
                               /\ row'[last'].attempt = doc[d].attempt
                            \/ QueueRetract(d) /\ row'[last'].op = "retract"
    BY <1>3 DEF Written
  <2>2. last \in Nat /\ \A i \in 1..last' : i \in 1..last \/ i = last'
    BY <1>3 DEF ClaimTypes
  <2>3. ASSUME row'[last'].op = "ingest"
        PROVE  /\ row'[last'].attempt <= doc'[d].attempt
               /\ doc'[d].stage # "parsing"
               /\ \A j \in 1..last' : j < last' /\ row'[j].doc = d
                                      => row'[j].op = "ingest" /\ row'[j].attempt < row'[last'].attempt
    <3>1. /\ SeedFinalizing(d) /\ row'[last'].attempt = doc[d].attempt
          /\ doc[d].stage = "parsing" /\ ~Leaving(d)
      BY <2>1, <2>3 DEF SeedFinalizing, Leaving
    <3>2. doc[d].attempt \in Int /\ doc[d] \in Document /\ doc' = [doc EXCEPT ![d].stage = "finalizing"]
      BY <3>1 DEF ClaimTypes, Document, Attempt, SeedFinalizing
    <3>3. doc'[d].attempt = doc[d].attempt /\ doc'[d].stage = "finalizing"
      BY <3>2 DEF ClaimTypes, Document
    <3>4. ASSUME NEW j \in 1..last', j < last', row'[j].doc = d
          PROVE  row'[j].op = "ingest" /\ row'[j].attempt < row'[last'].attempt
      <4>1. j \in 1..last /\ row[j].doc = d /\ row'[j].op = row[j].op /\ row'[j].attempt = row[j].attempt
        BY <2>2, <3>4, FixedRows
      <4>2. row[j].op = "ingest"
        BY <3>1, <4>1, WrittenRows DEF RetractIsLast, Retract, Row
      <4> QED BY <3>1, <4>1, <4>2 DEF RowsInOrder
    <3> QED BY <3>1, <3>2, <3>3, <3>4
  <2>4. ASSUME NEW i \in 1..last, NEW j \in 1..last', j < i PROVE j \in 1..last
    BY <2>2, <2>4
  <2> QED BY <1>1, <2>1, <2>2, <2>3, <2>4 DEF RowsInOrder
<1> QED BY <1>2, <1>3, RowsAreWritten

\* Only a parse that starts, or hands over, takes releases back.
LEMMA DrainedGrows ==
    ASSUME ClaimTypes, OtherTypes, [Next]_vars, NEW d \in Doc, ~SeedFinalizing(d), ~Reparse(d)
    PROVE  drained'[d] >= drained[d]
<1>0. drained \in [Doc -> Nat]
  BY DEF OtherTypes
<1>1. ASSUME NEW e \in Doc, SeedFinalizing(e) \/ Reparse(e) \/ Cancel(e) \/ Tombstone(e) \/ Cleanup(e)
      PROVE  drained'[d] = drained[d]
  <2>1. drained' = drained \/ (drained' = [drained EXCEPT ![e] = 0] /\ e # d)
    BY <1>1 DEF SeedFinalizing, Reparse, Cancel, Tombstone, Cleanup, ScrubDeleted, QueueRetract, Unlink
  <2> QED BY <1>0, <2>1
<1>2. ASSUME ~\E e \in Doc : SeedFinalizing(e) \/ Reparse(e) \/ Cancel(e) \/ Tombstone(e) \/ Cleanup(e)
      PROVE  drained' = drained \/ \E D : Release(D)
  <2>1. ASSUME NEW w \in Worker, MapPhase(w) \/ DrainMapped(w) \/ RequeueFailedOps(w)
        PROVE  \E D : Release(D)
    BY <2>1, BatchReleases
  <2>2. ASSUME NEW w \in Worker,
               ClaimBatch(w) \/ TakeSlug(w) \/ CheckSources(w) \/ SavePage(w) \/ Conflict(w)
               \/ TrimPendingList(w) \/ EndBatch(w) \/ Abort(w) \/ Crash(w)
        PROVE  drained' = drained
    BY <2>2 DEF ClaimBatch, TakeSlug, CheckSources, SavePage, Conflict, TrimPendingList, EndBatch, Abort, Crash
  <2>3. CASE (\E j \in Op : ClaimGoesStale(j)) \/ LockExpires \/ DiscardUnclaimed \/ UNCHANGED vars
    BY <2>3 DEF ClaimGoesStale, LockExpires, DiscardUnclaimed, vars
  <2>4. CASE DrainUnclaimedAndRelease
    BY <2>4 DEF DrainUnclaimedAndRelease
  <2> QED BY <1>2, <2>1, <2>2, <2>3, <2>4 DEF Next, Step
<1>3. \A n \in Nat : n >= n
  OBVIOUS
<1>4. CASE \E D : Release(D)
  BY <1>4, ReleaseTypes
<1> QED BY <1>0, <1>1, <1>2, <1>3, <1>4

\* A step after which a row is the current one of a document that waits, unreleased,
\* was taken in such a state, or has written the row.
LEMMA CurrentBack ==
    ASSUME SlotInv, [Next]_vars, NEW i \in 1..last, Current(i)', Waits(row[i].doc)'
    PROVE  /\ Current(i) /\ Waits(row[i].doc) /\ row[i].doc \in Doc
           /\ row'[i].doc = row[i].doc /\ row[i].op = "ingest"
           /\ ~SeedFinalizing(row[i].doc) /\ ~Reparse(row[i].doc)
<1> DEFINE d == row[i].doc
<1>1. /\ row'[i].doc = d /\ row[i].op = "ingest" /\ row'[i].attempt = row[i].attempt
      /\ d \in Doc /\ row[i].attempt \in Int
  BY FixedRows, WrittenRows DEF SlotInv, Current, Row, Attempt
<1>2. row[i].attempt = doc'[d].attempt /\ doc'[d].stage = "finalizing" /\ doc'[d].life = "live"
  BY <1>1 DEF Current, Waits
<1>3. row[i].attempt <= doc[d].attempt /\ (doc[d].stage = "parsing" => row[i].attempt < doc[d].attempt)
  BY <1>1 DEF SlotInv, RowsInOrder
<1>4. doc[d].attempt \in Int /\ doc'[d].attempt >= doc[d].attempt /\ doc'[d].attempt \in Int
  BY <1>1, LifeMoves, TypesStep DEF SlotInv, ClaimTypes, Document, Attempt
<1>5. DocMoves(d)
  BY <1>1, DocsMove DEF SlotInv
<1>6. row[i].attempt = doc[d].attempt /\ doc[d].stage # "parsing"
  BY <1>1, <1>2, <1>3, <1>4
<1>7. ~SeedFinalizing(d) /\ ~Reparse(d)
  <2>1. ~SeedFinalizing(d)
    BY <1>6 DEF SeedFinalizing
  <2>2. ASSUME Reparse(d) PROVE FALSE
    <3>1. doc'[d] = [doc[d] EXCEPT !.stage = "parsing", !.attempt = doc[d].attempt + 1] /\ doc[d] \in Document
      BY <1>1, <2>2 DEF Reparse, SlotInv, ClaimTypes
    <3>2. doc'[d].stage = "parsing"
      BY <3>1 DEF Document
    <3> QED BY <1>2, <3>2
  <2> QED BY <2>1, <2>2
<1>8. Waits(d)
  BY <1>2, <1>5, <1>7 DEF DocMoves, Same, Waits
<1> QED BY <1>1, <1>6, <1>7, <1>8 DEF Current

\* Only a parse that starts, or hands over, is rid of a release that failed.
LEMMA StrandedStays ==
    ASSUME [Next]_vars, NEW d \in Doc, ~SeedFinalizing(d), ~Reparse(d)
    PROVE  d \in stranded => d \in stranded'
<1>1. ASSUME NEW e \in Doc, SeedFinalizing(e) \/ Reparse(e) \/ Cancel(e) \/ Tombstone(e) \/ Cleanup(e)
      PROVE  d \in stranded => d \in stranded'
  <2>1. stranded' = stranded \/ (stranded' = stranded \ {e} /\ e # d)
    BY <1>1 DEF SeedFinalizing, Reparse, Cancel, Tombstone, Cleanup, ScrubDeleted, QueueRetract, Unlink, stains
  <2> QED BY <2>1
<1>2. ASSUME NEW w \in Worker, MapPhase(w) \/ DrainMapped(w) \/ RequeueFailedOps(w)
      PROVE  stranded \subseteq stranded'
  <2>1. PICK S, lost : FinalizeWikiSubtask(S, lost)
    <3>1. CASE MapPhase(w)
      BY <3>1 DEF MapPhase
    <3>2. CASE DrainMapped(w)
      BY <3>2 DEF DrainMapped
    <3>3. CASE RequeueFailedOps(w)
      BY <3>3 DEF RequeueFailedOps
    <3> QED BY <1>2, <3>1, <3>2, <3>3
  <2> QED BY <2>1 DEF FinalizeWikiSubtask
<1>3. ASSUME NEW w \in Worker,
             ClaimBatch(w) \/ TakeSlug(w) \/ CheckSources(w) \/ SavePage(w) \/ Conflict(w)
             \/ TrimPendingList(w) \/ EndBatch(w) \/ Abort(w) \/ Crash(w)
      PROVE  stranded' = stranded
  BY <1>3 DEF ClaimBatch, TakeSlug, CheckSources, SavePage, Conflict, TrimPendingList, EndBatch, Abort,
              Crash, stains
<1>4. CASE \/ (\E j \in Op : ClaimGoesStale(j)) \/ LockExpires \/ DrainUnclaimedAndRelease
           \/ DiscardUnclaimed \/ UNCHANGED vars
  BY <1>4 DEF ClaimGoesStale, LockExpires, DrainUnclaimedAndRelease, DiscardUnclaimed, vars, stains
<1> QED BY <1>1, <1>2, <1>3, <1>4 DEF Next, Step

LEMMA WaitsBack ==
    ASSUME SlotInv, [Next]_vars, NEW i \in 1..last, Current(i)', Waits(row[i].doc)',
           drained'[row[i].doc] = 0, row[i].doc \notin stranded'
    PROVE  Current(i) /\ Waits(row[i].doc) /\ drained[row[i].doc] = 0 /\ row[i].doc \notin stranded
<1>1. /\ Current(i) /\ Waits(row[i].doc) /\ row[i].doc \in Doc
      /\ ~SeedFinalizing(row[i].doc) /\ ~Reparse(row[i].doc)
  BY CurrentBack
<1>2. drained'[row[i].doc] >= drained[row[i].doc] /\ drained[row[i].doc] \in Nat
  BY <1>1, DrainedGrows DEF SlotInv, OtherTypes
<1> QED BY <1>1, <1>2, StrandedStays

\* The slots of what a batch releases are gone, or their documents stranded.
LEMMA Finalized ==
    ASSUME SlotInv, NEW S, Finalizes(S), NEW i \in S, i \in 1..last,
           Current(i), Waits(row[i].doc)
    PROVE  drained'[row[i].doc] > 0 \/ row[i].doc \in stranded'
<1>1. row[i].doc \in Releases(S)
  BY WrittenRows DEF SlotInv, Current, Releases
<1>2. PICK lost : FinalizeWikiSubtask(S, lost)
  BY DEF Finalizes
<1>4. CASE row[i].doc \in lost
  BY <1>2, <1>4 DEF FinalizeWikiSubtask
<1>5. CASE row[i].doc \notin lost
  <2> DEFINE D == Releases(S) \ lost
  <2>1. Release(D) /\ row[i].doc \in D
    BY <1>1, <1>2, <1>5 DEF FinalizeWikiSubtask
  <2> HIDE DEF D
  <2>2. drained'[row[i].doc] = drained[row[i].doc] + 1
    BY <2>1, ReleaseTypes, WrittenRows DEF SlotInv, Waits
  <2> QED BY <2>2, WrittenRows DEF SlotInv, OtherTypes
<1> QED BY <1>4, <1>5

\* The current row of a document that waits is the one a batch carries out.
LEMMA CurrentIsChosen ==
    ASSUME SlotInv, NEW w \in Worker, NEW i \in batch[w].ops, Current(i), Waits(row[i].doc)
    PROVE  i \in Chosen(w)
<1>1. i \in 1..last
  BY WrittenRows DEF SlotInv
<1>2. SUFFICES ASSUME NEW j \in batch[w].ops, row[j].doc = row[i].doc, ~(j <= i) PROVE FALSE
  BY DEF Chosen
<1>3. j \in 1..last /\ i < j /\ row[j] \in Row
  BY <1>1, <1>2, WrittenRows DEF SlotInv
<1>4. CASE row[j].op = "retract"
  BY <1>2, <1>3, <1>4 DEF SlotInv, RetractIsLast, Retract, Leaving, Waits
<1>5. CASE row[j].op = "ingest"
  <2>1. row[i].attempt < row[j].attempt /\ row[j].attempt <= doc[row[i].doc].attempt
    BY <1>1, <1>2, <1>3, <1>5 DEF SlotInv, RowsInOrder
  <2>2. row[i].attempt = doc[row[i].doc].attempt /\ row[i].attempt \in Int /\ row[j].attempt \in Int
    BY <1>1, <1>3, WrittenRows DEF Current, Row, Attempt, SlotInv
  <2> QED BY <2>1, <2>2
<1> QED BY <1>3, <1>4, <1>5 DEF Row

LEMMA ChosenStays ==
    ASSUME ClaimTypes, [Next]_vars, NEW w \in Worker, batch'[w].ops = batch[w].ops
    PROVE  Chosen(w)' = Chosen(w)
<1>1. \A i \in batch[w].ops : row'[i].doc = row[i].doc
  BY FixedRows, WrittenRows
<1> QED BY <1>1 DEF Chosen

LEMMA SlotBatchStep ==
    ASSUME SlotInv, [Next]_vars
    PROVE  SlotInBatch'
<1> SUFFICES ASSUME NEW w \in Worker, NEW i, i \in Chosen(w)', Current(i)', Waits(row[i].doc)',
                    drained'[row'[i].doc] = 0, row'[i].doc \notin stranded'
             PROVE  /\ batch'[w].pc \in {"reduce", "write", "save", "drain"} =>
                           row'[i].doc \in batch'[w].ok \cup batch'[w].fail
                    /\ batch'[w].pc = "trim" => row'[i].doc \in batch'[w].fail
  BY DEF SlotInBatch
<1>0. ClaimTypes
  BY DEF SlotInv
\* The row and its document were the same before, if the batch had the row.
<1>1. ASSUME batch'[w].ops = batch[w].ops
      PROVE  /\ i \in Chosen(w) /\ i \in 1..last /\ row'[i].doc = row[i].doc
             /\ Current(i) /\ Waits(row[i].doc) /\ drained[row[i].doc] = 0
             /\ drained'[row[i].doc] = 0
             /\ row[i].doc \notin stranded /\ row[i].doc \notin stranded'
  <2>1. i \in Chosen(w) /\ i \in 1..last
    BY <1>0, <1>1, ChosenStays, WrittenRows
  <2>2. row'[i].doc = row[i].doc
    BY <1>0, <2>1, FixedRows
  <2> QED BY <2>1, <2>2, WaitsBack
<1>2. CASE batch'[w] = batch[w]
  BY <1>1, <1>2 DEF SlotInv, SlotInBatch
<1>3. CASE ClaimBatch(w)
  <2>1. batch'[w].pc = "map"
    BY <1>0, <1>3, ClaimFields
  <2> QED BY <2>1
<1>4. CASE MapPhase(w)
  <2>0. PICK skip \in SUBSET Ingests(w), F \in SUBSET Ingests(w), blind \in SUBSET Retracts(w) :
           Mapped(w, skip, F, blind)
    BY <1>0, <1>4, MapFields
  <2>1. /\ batch'[w].ops = batch[w].ops /\ batch'[w].pc \in {"reduce", "drain"}
        /\ batch'[w].ok = {row[j].doc : j \in Ingests(w) \ (skip \cup F)}
        /\ batch'[w].fail = {row[j].doc : j \in F}
        /\ Finalizes(skip)
    BY <2>0 DEF Mapped
  <2>2. i \in Ingests(w)
    BY <1>1, <2>1 DEF Ingests, Current
  <2>3. i \notin skip
    BY <1>1, <2>1, Finalized
  <2> QED BY <1>1, <2>1, <2>2, <2>3
<1>5. CASE TakeSlug(w) \/ CheckSources(w) \/ SavePage(w) \/ Conflict(w)
  <2>1. /\ batch[w].pc \in {"reduce", "write", "save"} /\ batch'[w].ops = batch[w].ops
        /\ batch'[w].ok = batch[w].ok /\ batch[w].fail \subseteq batch'[w].fail
        /\ batch'[w].pc \in {"write", "save", "drain"}
    BY <1>0, <1>5, ReduceFields
  <2>2. row[i].doc \in batch[w].ok \cup batch[w].fail
    BY <1>1, <2>1 DEF SlotInv, SlotInBatch
  <2> QED BY <1>1, <2>1, <2>2
<1>6. CASE DrainMapped(w)
  <2>1. /\ batch[w].pc = "drain" /\ batch'[w].pc = "trim" /\ batch'[w].ops = batch[w].ops
        /\ batch'[w].fail = batch[w].fail
    <3>1. batch'[w] # Idle
      <4>1. batch[w] \in Run /\ batch'[w] = [batch[w] EXCEPT !.pc = "trim"]
        BY <1>0, <1>6 DEF DrainMapped, ClaimTypes
      <4>2. batch'[w].pc = "trim" /\ Idle.pc = "idle"
        BY <4>1 DEF Run, Idle
      <4> QED BY <4>2
    <3>2. ~TrimPendingList(w) /\ ~RequeueFailedOps(w)
      BY <1>6 DEF DrainMapped, TrimPendingList, RequeueFailedOps
    <3> QED BY <1>0, <1>6, <3>1, <3>2, TailFields
  <2>2. row[i].doc \in batch[w].ok \cup batch[w].fail
    BY <1>1, <2>1 DEF SlotInv, SlotInBatch
  <2>3. ASSUME row[i].doc \notin batch[w].fail PROVE FALSE
    <3>1. i \in ChosenFor(w, batch[w].ok \ batch[w].fail)
      BY <1>1, <2>1, <2>2, <2>3 DEF ChosenFor
    <3>2. Finalizes(ChosenFor(w, batch[w].ok \ batch[w].fail))
      BY <1>6 DEF DrainMapped, Finalizes
    <3> QED BY <1>1, <2>1, <3>1, <3>2, Finalized
  <2> QED BY <1>1, <2>1, <2>3
<1>7. CASE TrimPendingList(w) \/ RequeueFailedOps(w) \/ EndBatch(w) \/ Abort(w) \/ Crash(w)
  <2>1. Idle.pc = "idle"
    BY DEF Idle
  <2>2. CASE EndBatch(w) \/ Abort(w) \/ Crash(w)
    <3>1. batch'[w] = Idle
      BY <1>0, <2>2 DEF EndBatch, Abort, Crash, ClaimTypes
    <3> QED BY <2>1, <3>1
  <2>3. CASE TrimPendingList(w) \/ RequeueFailedOps(w)
    <3>1. batch[w].pc # "drain"
      BY <2>3 DEF TrimPendingList, RequeueFailedOps
    <3>2. batch'[w].pc \in {"idle", "requeue", "end"}
      BY <1>0, <2>1, <2>3, <3>1, TailFields
    <3> QED BY <3>2
  <2> QED BY <1>7, <2>2, <2>3
<1>8. (\E v \in Worker : ClaimBatch(v) \/ Step(v) \/ Abort(v) \/ Crash(v)) \/ batch' = batch
  BY NoBatch
<1>9. ASSUME NEW v \in Worker, v # w, ClaimBatch(v) \/ Step(v) \/ Abort(v) \/ Crash(v)
      PROVE  batch'[w] = batch[w]
  BY <1>0, <1>9, OneBatch
<1> QED BY <1>2, <1>3, <1>4, <1>5, <1>6, <1>7, <1>8, <1>9 DEF Step

\* A document that hands over has a row; one that goes on waiting keeps it until its
\* slot is released.
LEMMA SlotRowStep ==
    ASSUME SlotInv, [Next]_vars
    PROVE  SlotHasRow'
<1> SUFFICES ASSUME NEW d \in Doc, Waits(d)', drained'[d] = 0, d \notin stranded'
             PROVE  \E i \in Op : /\ row'[i].st = "queued" /\ row'[i].doc = d
                                  /\ row'[i].op = "ingest" /\ row'[i].attempt = doc'[d].attempt
  BY DEF SlotHasRow, Waits, RowsOf, Queued
<1>0. ClaimTypes /\ drained \in [Doc -> Nat] /\ doc'[d].stage = "finalizing" /\ doc'[d].life = "live"
      /\ doc[d] \in Document
  BY DEF SlotInv, OtherTypes, Waits, ClaimTypes
<1>1. CASE SeedFinalizing(d)
  <2>1. Insert(d, "ingest", doc[d].attempt, FALSE) /\ doc' = [doc EXCEPT ![d].stage = "finalizing"]
    BY <1>1 DEF SeedFinalizing
  <2>2. last + 1 \in Op
    BY <1>0, <2>1, Constants DEF Insert, ClaimTypes, Op
  <2>3. row'[last + 1] = [st |-> "queued", doc |-> d, op |-> "ingest", attempt |-> doc[d].attempt,
                          fails |-> 0, claimed |-> FALSE, hit |-> FALSE]
    BY <1>0, <2>1, <2>2 DEF Insert, ClaimTypes
  <2>4. doc'[d].attempt = doc[d].attempt
    BY <1>0, <2>1 DEF ClaimTypes, Document
  <2> QED BY <2>2, <2>3, <2>4
\* None of these leaves a document waiting.
<1>2. ~(Reparse(d) \/ Cancel(d) \/ ScrubDeleted(d))
  <2>1. ASSUME Reparse(d) PROVE FALSE
    <3>1. doc'[d] = [doc[d] EXCEPT !.stage = "parsing", !.attempt = doc[d].attempt + 1]
      BY <1>0, <2>1 DEF Reparse, ClaimTypes
    <3> QED BY <1>0, <3>1 DEF Document
  <2>2. ASSUME Cancel(d) PROVE FALSE
    <3>1. doc'[d] = [doc[d] EXCEPT !.stage = "cancelled"]
      BY <1>0, <2>2 DEF Cancel, ClaimTypes
    <3> QED BY <1>0, <3>1 DEF Document
  <2>3. ASSUME ScrubDeleted(d) PROVE FALSE
    <3>1. doc'[d] = [doc[d] EXCEPT !.life = "scrubbed"]
      BY <1>0, <2>3 DEF ScrubDeleted, ClaimTypes
    <3> QED BY <1>0, <3>1 DEF Document
  <2> QED BY <2>1, <2>2, <2>3
<1>3. CASE ~SeedFinalizing(d)
  <2>1. Waits(d) /\ doc'[d].attempt = doc[d].attempt
    BY <1>0, <1>2, <1>3, DocsMove DEF DocMoves, Same, Waits
  <2>2. drained'[d] >= drained[d]
    BY <1>0, <1>2, <1>3, DrainedGrows DEF SlotInv
  <2>3. drained[d] = 0
    <3>1. drained[d] \in Nat
      BY <1>0
    <3> QED BY <2>2, <3>1
  <2>9. d \notin stranded
    BY <1>2, <1>3, StrandedStays
  <2>4. PICK i \in RowsOf(d) : row[i].op = "ingest" /\ row[i].attempt = doc[d].attempt
    BY <2>1, <2>3, <2>9 DEF SlotInv, SlotHasRow, Waits
  <2>5. i \in 1..last /\ i \in Op /\ i <= last /\ row[i].doc = d /\ Queued(i) /\ Current(i)
    BY <1>0, <2>4, WrittenRows DEF RowsOf, Current
  <2>6. RowMoves(i)
    BY <1>0, <2>5, RowsMove
  <2>7. ASSUME Leaves(i) PROVE FALSE
    <3>1. CASE \E e \in Doc : /\ Reparse(e) \/ Cancel(e) \/ ScrubDeleted(e)
                              /\ row[i].doc = e /\ row[i].op = "ingest"
      BY <1>2, <2>5, <3>1
    <3>2. ASSUME NEW w \in Worker, TrimPendingList(w), i \in batch[w].ops, i \notin FailedOps(w)
          PROVE  FALSE
      <4>1. batch[w].pc = "trim"
        BY <3>2 DEF TrimPendingList
      <4>2. i \in Chosen(w)
        BY <2>1, <2>5, <3>2, CurrentIsChosen
      <4>3. d \in batch[w].fail
        BY <2>1, <2>3, <2>5, <2>9, <4>1, <4>2 DEF SlotInv, SlotInBatch
      <4> QED BY <2>5, <3>2, <4>2, <4>3 DEF FailedOps, ChosenFor
    <3>3. ASSUME NEW w \in Worker, RequeueFailedOps(w), i \in Over(w) PROVE FALSE
      <4>1. Over(w) = {j \in {j \in FailedOps(w) : Queued(j)} : Exhausted(j)}
        BY DEF Over
      <4>2. Finalizes(Over(w))
        BY <3>3, <4>1 DEF RequeueFailedOps, Finalizes
      <4> QED BY <2>1, <2>5, <3>3, <4>2, Finalized
    <3>4. ASSUME DrainUnclaimedAndRelease, Claimable(row[i].doc) PROVE FALSE
      <4> DEFINE D == {row[j].doc : j \in {k \in Op : Queued(k) /\ row[k].op = "ingest"
                                                     /\ Claimable(row[k].doc)}}
      <4>1. Release(D) /\ d \in D
        BY <2>4, <2>5, <3>4 DEF DrainUnclaimedAndRelease
      <4> HIDE DEF D
      <4>2. drained'[d] = drained[d] + 1
        BY <2>1, <4>1, ReleaseTypes DEF SlotInv, Waits
      <4> QED BY <2>3, <4>2
    <3>5. ~Retract(i)
      BY <2>4 DEF Retract
    <3> QED BY <2>7, <3>1, <3>2, <3>3, <3>4, <3>5 DEF Leaves
  <2>8. row'[i].st = "queued" /\ row'[i].doc = d /\ row'[i].op = "ingest" /\ row'[i].attempt = row[i].attempt
    BY <2>4, <2>5, <2>6, <2>7 DEF RowMoves, Queued
  <2> QED BY <2>1, <2>4, <2>5, <2>8
<1> QED BY <1>1, <1>3

LEMMA SlotInit ==
    ASSUME Init PROVE SlotInv
<1>1. ClaimTypes /\ OtherTypes
  BY ClaimInit, OthersInit DEF ClaimInv
<1>2. 1..last = {}
  BY DEF Init
<1>3. \A w \in Worker : Chosen(w) = {}
  BY DEF Init, Chosen, Idle
<1>4. \A d \in Doc : doc[d].stage = "parsing"
  BY DEF Init
<1> QED BY <1>1, <1>2, <1>3, <1>4 DEF SlotInv, RetractIsLast, RowsInOrder, SlotInBatch, SlotHasRow

LEMMA SlotInvStep ==
    ASSUME SlotInv, [Next]_vars
    PROVE  SlotInv'
  BY TypesStep, OthersStep, RetractStep, OrderStep, SlotBatchStep, SlotRowStep DEF SlotInv

\* A document that waits for its wiki slot has a row of its attempt in the queue,
\* whatever the batches trim, put back, give up or withdraw, unless a batch tried to
\* release the slot and could not.
THEOREM SlotsHaveRows == Spec => []SlotHasRow
<1>1. SlotInv => SlotHasRow
  BY DEF SlotInv
<1> QED BY <1>1, SlotInit, SlotInvStep, PTL DEF Spec

-----------------------------------------------------------------------------
(* What the batches write on the page *)

LEMMA PageMoves ==
    ASSUME [Next]_vars
    PROVE  /\ \/ UNCHANGED <<page, applied>>
              \/ \E w \in Worker : SavePage(w)
              \/ UNCHANGED applied /\ \E d \in Doc : Unlink(d)
           /\ torn \subseteq torn' /\ clobbered \subseteq clobbered'
<1>1. ASSUME NEW d \in Doc, SeedFinalizing(d) \/ Reparse(d) \/ Cancel(d) \/ Tombstone(d) \/ Cleanup(d)
      PROVE  /\ UNCHANGED applied /\ (UNCHANGED page \/ Unlink(d))
             /\ torn \subseteq torn' /\ clobbered \subseteq clobbered'
  BY <1>1 DEF SeedFinalizing, Reparse, Cancel, Tombstone, Cleanup, ScrubDeleted, QueueRetract, Unlink,
              Scrub, stains
<1>2. ASSUME NEW w \in Worker, ClaimBatch(w) \/ Step(w) \/ Abort(w) \/ Crash(w)
      PROVE  /\ UNCHANGED <<page, applied>> \/ SavePage(w)
             /\ torn \subseteq torn' /\ clobbered \subseteq clobbered'
  <2>1. CASE MapPhase(w) \/ EndBatch(w)
    BY <2>1 DEF MapPhase, EndBatch
  <2>2. CASE ClaimBatch(w) \/ TakeSlug(w) \/ CheckSources(w) \/ SavePage(w) \/ Conflict(w) \/ DrainMapped(w)
             \/ TrimPendingList(w) \/ RequeueFailedOps(w) \/ Abort(w) \/ Crash(w)
    BY <2>2 DEF ClaimBatch, TakeSlug, CheckSources, SavePage, Conflict, DrainMapped, TrimPendingList,
                RequeueFailedOps, Abort, Crash, stains
  <2> QED BY <1>2, <2>1, <2>2 DEF Step
<1>3. CASE (\E i \in Op : ClaimGoesStale(i)) \/ LockExpires \/ DrainUnclaimedAndRelease
           \/ DiscardUnclaimed \/ UNCHANGED vars
  BY <1>3 DEF ClaimGoesStale, LockExpires, DrainUnclaimedAndRelease, DiscardUnclaimed, vars, stains
<1> QED BY <1>1, <1>2, <1>3 DEF Next

\* A batch adds to the page what it extracted of the documents it works for, none of
\* it older than what is there; and takes off the page only documents on their way out.
Contributes ==
    \A w \in Worker :
        /\ batch[w].adds # {} \/ batch[w].drops # {} => batch[w].pc \in {"reduce", "write", "save"}
        /\ \A d \in batch[w].adds :
             /\ d \in Docs(w)
             /\ batch[w].said[d] <= doc[d].attempt
             /\ d \notin torn => applied[d] <= batch[w].said[d]
        /\ \A d \in batch[w].drops : Leaving(d)

AppliedBound == \A d \in Doc : applied[d] <= doc[d].attempt

KeptInv ==
    /\ ClaimInv /\ OtherTypes /\ RetractIsLast
    /\ Contributes /\ AppliedBound /\ ContributionKept

LEMMA Numbers ==
    ASSUME ClaimTypes, OtherTypes, NEW w \in Worker, NEW d \in Doc
    PROVE  /\ batch[w] \in Run /\ batch[w].adds \subseteq Doc /\ batch[w].drops \subseteq Doc
           /\ batch[w].said[d] \in Int /\ applied[d] \in Nat /\ doc[d].attempt \in Int
           /\ batch[w].snap \in Page /\ doc[d] \in Document
<1>1. batch[w] \in Run /\ doc[d] \in Document
  BY DEF ClaimTypes
<1>2. /\ batch[w].adds \subseteq Doc /\ batch[w].drops \subseteq Doc
      /\ batch[w].said \in [Doc -> Attempt] /\ batch[w].snap \in Page
  BY <1>1 DEF Run
<1>3. applied[d] \in Nat
  BY Constants DEF OtherTypes, Attempt
<1> QED BY <1>1, <1>2, <1>3 DEF Attempt, Document

LEMMA ContributesStep ==
    ASSUME KeptInv, [Next]_vars
    PROVE  Contributes'
<1>0. ClaimTypes /\ OtherTypes /\ torn \subseteq torn'
  BY PageMoves DEF KeptInv, ClaimInv
<1> SUFFICES ASSUME NEW w \in Worker
             PROVE  /\ batch'[w].adds # {} \/ batch'[w].drops # {}
                          => batch'[w].pc \in {"reduce", "write", "save"}
                    /\ \A d \in batch'[w].adds :
                         /\ d \in Docs(w)'
                         /\ batch'[w].said[d] <= doc'[d].attempt
                         /\ d \notin torn' => applied'[d] <= batch'[w].said[d]
                    /\ \A d \in batch'[w].drops : Leaving(d)'
  BY DEF Contributes
<1>1. /\ Idle.adds = {} /\ Idle.drops = {}
      /\ batch[w].adds \subseteq Doc /\ batch[w].drops \subseteq Doc
  BY <1>0 DEF Idle, ClaimTypes, Run
<1>2. \A d \in Doc : Leaving(d) => Leaving(d)'
  BY <1>0, LifeMoves
\* The batch goes on for the same documents.
<1>3. ASSUME batch'[w].ops = batch[w].ops, batch'[w].pc \notin {"idle", "end"},
             batch[w].pc \notin {"idle", "end"}, NEW d \in Docs(w)
      PROVE  d \in Docs(w)'
  <2>1. PICK i \in batch[w].ops : row[i].doc = d
    BY DEF Docs, Holds
  <2>2. i \in Op /\ row'[i].doc = d
    BY <1>0, <2>1, FixedRows, WrittenRows
  <2> QED BY <1>3, <2>1, <2>2 DEF Docs, Holds
<1>4. CASE batch'[w] = batch[w] /\ (batch[w].adds # {} \/ batch[w].drops # {})
  <2>1. batch[w].pc \in {"reduce", "write", "save"}
    BY <1>4 DEF KeptInv, Contributes
  <2>2. ASSUME NEW d \in batch[w].adds
        PROVE  d \in Docs(w)' /\ batch[w].said[d] <= doc'[d].attempt
    <3>1. d \in Docs(w) /\ batch[w].said[d] <= doc[d].attempt /\ d \in Doc
      BY <1>1, <2>2 DEF KeptInv, Contributes
    <3>2. doc'[d].attempt >= doc[d].attempt /\ doc'[d].attempt \in Int
      BY <1>0, <3>1, LifeMoves, TypesStep DEF ClaimTypes, Document, Attempt
    <3> QED BY <1>0, <1>3, <1>4, <2>1, <3>1, <3>2, Numbers
  <2>3. ASSUME NEW d \in batch[w].adds, d \notin torn'
        PROVE  applied'[d] <= batch[w].said[d]
    <3>1. d \in Docs(w) /\ applied[d] <= batch[w].said[d] /\ d \notin torn /\ d \in Doc
      BY <1>0, <1>1, <2>3 DEF KeptInv, Contributes
    <3>2. CASE UNCHANGED applied
      BY <3>1, <3>2
    <3>3. ASSUME NEW v \in Worker, SavePage(v) PROVE applied'[d] = applied[d]
      <4>1. v # w
        <5>1. batch[v].pc = "save" /\ batch'[v].pc = "drain"
          BY <1>0, <3>3, ReducedFields DEF SavePage, ClaimTypes
        <5> QED BY <1>4, <5>1
      <4>2. d \notin batch[v].adds
        BY <3>1, <4>1 DEF KeptInv, Contributes, ClaimInv, DocAlone
      <4> QED BY <3>1, <3>3, <4>2 DEF SavePage
    <3> QED BY <3>1, <3>2, <3>3, PageMoves
  <2>4. \A d \in batch[w].drops : Leaving(d)'
    BY <1>1, <1>2 DEF KeptInv, Contributes
  <2> QED BY <1>4, <2>1, <2>2, <2>3, <2>4
<1>5. CASE batch'[w] = batch[w] /\ batch[w].adds = {} /\ batch[w].drops = {}
  BY <1>5
<1>6. CASE ClaimBatch(w)
  BY <1>0, <1>6, ClaimFields
<1>7. CASE MapPhase(w)
  <2>0. PICK skip \in SUBSET Ingests(w), F \in SUBSET Ingests(w), blind \in SUBSET Retracts(w) :
           Mapped(w, skip, F, blind)
    BY <1>0, <1>7, MapFields
  <2>1. /\ batch[w].pc = "map" /\ batch'[w].ops = batch[w].ops
        /\ batch'[w].pc = "reduce" \/ (batch'[w].pc = "drain" /\ batch'[w].adds = {} /\ batch'[w].drops = {})
        /\ batch'[w].ok = {row[i].doc : i \in Ingests(w) \ (skip \cup F)}
        /\ batch'[w].adds = batch'[w].ok
        /\ batch'[w].said = [d \in Doc |-> IF d \in batch'[w].ok THEN doc[d].attempt ELSE 0]
        /\ batch'[w].drops = {row[i].doc : i \in {j \in Retracts(w) : row[j].hit}
                                                \cup {j \in Retracts(w) \ blind : Touches(j)}}
    BY <2>0 DEF Mapped
  <2>2. doc' = doc /\ applied' = applied
    BY <1>7 DEF MapPhase
  <2>3. ASSUME NEW d \in batch'[w].adds
        PROVE  /\ d \in Docs(w)' /\ batch'[w].said[d] <= doc'[d].attempt
               /\ applied'[d] <= batch'[w].said[d] /\ batch'[w].pc = "reduce"
    <3>1. PICK i \in Chosen(w) : row[i].doc = d
      BY <2>1, <2>3 DEF Ingests
    <3>2. i \in batch[w].ops /\ d \in Doc
      BY <1>0, <3>1, WrittenRows
    <3>3. d \in Docs(w)
      BY <1>0, <2>1, <3>1, <3>2, WrittenRows DEF Docs, Holds
    <3>4. batch'[w].said[d] = doc[d].attempt /\ batch'[w].pc = "reduce"
      BY <2>1, <2>3, <3>2
    <3>5. d \in Docs(w)'
      BY <1>3, <2>1, <3>3, <3>4
    <3>6. applied[d] <= doc[d].attempt /\ doc[d].attempt \in Int
      BY <1>0, <3>2, Numbers DEF KeptInv, AppliedBound
    <3> QED BY <2>2, <3>4, <3>5, <3>6
  <2>4. ASSUME NEW d \in batch'[w].drops PROVE Leaving(d)' /\ batch'[w].pc = "reduce"
    <3>1. PICK i \in Retracts(w) : row[i].doc = d
      BY <2>1, <2>4
    <3>2. i \in 1..last /\ Retract(i) /\ d \in Doc
      BY <1>0, <3>1, WrittenRows DEF Retracts, Retract
    <3>3. Leaving(d)
      BY <3>1, <3>2 DEF KeptInv, RetractIsLast
    <3> QED BY <1>2, <2>1, <2>4, <3>2, <3>3
  <2> QED BY <2>3, <2>4
<1>8. CASE TakeSlug(w) \/ CheckSources(w) \/ SavePage(w) \/ Conflict(w)
  <2>1. CASE batch'[w].adds = {} /\ batch'[w].drops = {}
    BY <2>1
  <2>2. CASE /\ batch'[w].pc \in {"write", "save"} /\ batch'[w].said = batch[w].said
             /\ batch'[w].adds \subseteq batch[w].adds /\ batch'[w].drops = batch[w].drops
    <3>1. batch[w].pc \in {"reduce", "write", "save"} /\ batch'[w].ops = batch[w].ops
      BY <1>0, <1>8, ReduceFields
    <3>2. doc' = doc /\ applied' = applied
      <4>1. ~SavePage(w)
        BY <1>0, <2>2, ReducedFields DEF SavePage, ClaimTypes
      <4> QED BY <1>8, <4>1 DEF TakeSlug, CheckSources, Conflict
    <3>3. ASSUME NEW d \in batch'[w].adds
          PROVE  /\ d \in Docs(w)' /\ batch'[w].said[d] <= doc'[d].attempt
                 /\ d \notin torn' => applied'[d] <= batch'[w].said[d]
      <4>1. d \in batch[w].adds /\ d \in Docs(w)
        BY <2>2, <3>3 DEF KeptInv, Contributes
      <4> QED BY <1>0, <1>3, <2>2, <3>1, <3>2, <4>1 DEF KeptInv, Contributes
    <3>4. \A d \in batch'[w].drops : Leaving(d)'
      BY <1>1, <1>2, <2>2 DEF KeptInv, Contributes
    <3> QED BY <2>2, <3>3, <3>4
  <2> QED BY <1>0, <1>8, <2>1, <2>2, ReduceFields
<1>9. CASE DrainMapped(w) \/ TrimPendingList(w) \/ RequeueFailedOps(w) \/ EndBatch(w) \/ Abort(w) \/ Crash(w)
  <2>1. \/ batch'[w] = Idle
        \/ /\ batch[w].pc \in {"drain", "trim", "requeue"}
           /\ batch'[w].adds = batch[w].adds /\ batch'[w].drops = batch[w].drops
    BY <1>0, <1>9, TailFields
  <2>2. batch'[w].adds = {} /\ batch'[w].drops = {}
    BY <1>1, <2>1 DEF KeptInv, Contributes
  <2> QED BY <2>2
<1>10. (\E v \in Worker : ClaimBatch(v) \/ Step(v) \/ Abort(v) \/ Crash(v)) \/ batch' = batch
  BY NoBatch
<1>11. ASSUME NEW v \in Worker, v # w, ClaimBatch(v) \/ Step(v) \/ Abort(v) \/ Crash(v)
       PROVE  batch'[w] = batch[w]
  BY <1>0, <1>11, OneBatch
<1> QED BY <1>4, <1>5, <1>6, <1>7, <1>8, <1>9, <1>10, <1>11 DEF Step

LEMMA AppliedStep ==
    ASSUME KeptInv, [Next]_vars
    PROVE  AppliedBound'
<1> SUFFICES ASSUME NEW d \in Doc PROVE applied'[d] <= doc'[d].attempt
  BY DEF AppliedBound
<1>0. ClaimTypes /\ OtherTypes
  BY DEF KeptInv, ClaimInv
<1>1. /\ doc[d].attempt \in Int /\ doc'[d].attempt \in Int
      /\ doc'[d].attempt >= doc[d].attempt /\ applied[d] \in Int
      /\ applied[d] <= doc[d].attempt
  BY <1>0, LifeMoves, TypesStep, Constants DEF ClaimTypes, Document, Attempt, OtherTypes, KeptInv, AppliedBound
<1>2. ASSUME NEW w \in Worker, SavePage(w) PROVE applied'[d] <= doc[d].attempt
  <2>1. applied'[d] = applied[d] \/ (d \in batch[w].adds /\ applied'[d] = batch[w].said[d])
    BY <1>2 DEF SavePage
  <2>2. d \in batch[w].adds => batch[w].said[d] <= doc[d].attempt
    BY DEF KeptInv, Contributes
  <2> QED BY <1>1, <2>1, <2>2
<1>3. applied'[d] \in Int
  BY OthersStep, <1>0, Constants DEF OtherTypes, Attempt
<1>4. CASE UNCHANGED applied
  BY <1>1, <1>4
<1>5. CASE \E w \in Worker : SavePage(w)
  BY <1>1, <1>2, <1>3, <1>5
<1> QED BY <1>4, <1>5, PageMoves

LEMMA KeptStep ==
    ASSUME KeptInv, [Next]_vars
    PROVE  ContributionKept'
<1> SUFFICES ASSUME NEW d \in Doc, d \notin torn', d \notin clobbered', doc'[d].life = "live"
             PROVE  page'.text[d] = applied'[d] /\ (applied'[d] > 0 => d \in page'.refs)
  BY DEF ContributionKept
<1>0. ClaimTypes /\ OtherTypes
  BY DEF KeptInv, ClaimInv
<1>1. d \notin torn /\ d \notin clobbered /\ doc[d].life = "live"
  BY <1>0, LifeMoves, PageMoves
<1>2. page.text[d] = applied[d] /\ (applied[d] > 0 => d \in page.refs)
  BY <1>1 DEF KeptInv, ContributionKept
<1>3. CASE UNCHANGED <<page, applied>>
  BY <1>2, <1>3
<1>4. ASSUME NEW w \in Worker, SavePage(w)
      PROVE  page'.text[d] = applied'[d] /\ (applied'[d] > 0 => d \in page'.refs)
  <2>1. /\ page' = Rewritten(w) /\ page = batch[w].snap
        /\ applied'[d] = IF d \in batch[w].adds /\ applied[d] < batch[w].said[d]
                         THEN batch[w].said[d] ELSE applied[d]
    BY <1>4 DEF SavePage, Lands
  <2>2. /\ page'.refs = (page.refs \ batch[w].drops) \cup batch[w].adds
        /\ page'.text[d] = IF d \in batch[w].adds THEN batch[w].said[d]
                           ELSE IF d \in batch[w].drops THEN 0 ELSE page.text[d]
    BY <2>1 DEF Rewritten
  <2>3. d \in batch[w].adds => applied[d] <= batch[w].said[d]
    BY <1>1 DEF KeptInv, Contributes
  <2>4. d \notin batch[w].drops
    BY <1>1 DEF KeptInv, Contributes, Leaving
  <2>5. batch[w].said[d] \in Int /\ applied[d] \in Nat
    BY <1>0, Numbers
  <2> QED BY <1>2, <2>1, <2>2, <2>3, <2>4, <2>5
<1>5. ASSUME NEW e \in Doc, Unlink(e), UNCHANGED applied
      PROVE  page'.text[d] = applied'[d] /\ (applied'[d] > 0 => d \in page'.refs)
  <2>1. e # d
    BY <1>1, <1>5 DEF Unlink
  <2>2. (d \in page.refs) = (d \in page'.refs)
    BY <1>5, <2>1 DEF Unlink
  <2>3. page' = page \/ page' = NoPage \/ page' = [page EXCEPT !.refs = doc[e].seen \ {e}]
    BY <1>5 DEF Unlink
  <2>4. applied[d] \in Nat
    BY <1>0 , Constants DEF OtherTypes, Attempt
  <2>5. CASE page' = NoPage
    <3>1. page'.text[d] = 0 /\ page'.refs = {}
      BY <2>5 DEF NoPage, Nobody
    <3>2. applied[d] = 0
      BY <1>2, <2>2, <2>4, <3>1
    <3> QED BY <1>5, <3>1, <3>2
  <2>6. CASE page' = [page EXCEPT !.refs = doc[e].seen \ {e}]
    <3>1. page'.text = page.text
      BY <1>0, <2>6 DEF ClaimTypes, Page
    <3> QED BY <1>2, <1>5, <2>2, <3>1
  <2> QED BY <1>2, <1>5, <2>3, <2>5, <2>6
<1> QED BY <1>3, <1>4, <1>5, PageMoves

LEMMA KeptInit ==
    ASSUME Init PROVE KeptInv
<1>1. ClaimInv /\ OtherTypes
  BY ClaimInit, OthersInit
<1>2. RetractIsLast
  BY DEF Init, RetractIsLast
<1>3. Contributes
  BY DEF Init, Contributes, Idle
<1>4. AppliedBound /\ ContributionKept
  BY DEF Init, AppliedBound, ContributionKept, Nobody, NoPage
<1> QED BY <1>1, <1>2, <1>3, <1>4 DEF KeptInv

LEMMA KeptInvStep ==
    ASSUME KeptInv, [Next]_vars
    PROVE  KeptInv'
<1>1. ClaimInv' /\ OtherTypes'
  BY ClaimStep, OthersStep DEF KeptInv, ClaimInv
<1>2. RetractIsLast'
  BY RetractStep DEF KeptInv, ClaimInv
<1> QED BY <1>1, <1>2, ContributesStep, AppliedStep, KeptStep DEF KeptInv

\* What a batch wrote for a live document stays on the shared page: no concurrent
\* rewrite, retried, stale or unlocked, takes it off or puts an older text back.
THEOREM ContributionsAreKept == Spec => []ContributionKept
<1>1. KeptInv => ContributionKept
  BY DEF KeptInv
<1> QED BY <1>1, KeptInit, KeptInvStep, PTL DEF Spec

-----------------------------------------------------------------------------
(* A deleted document comes off the page *)

PageIsClean == ~page.there => page = NoPage

\* A batch that holds the retract of a document holds all its rows, adds nothing of
\* it, and takes it off the page, puts the retract back, or has found it off the page.
RetractHeld ==
    \A w \in Worker, i \in 1..last :
        Holds(w, i) /\ Retract(i) /\ row[i].doc \notin torn /\ row[i].doc \notin clobbered =>
            /\ RowsOf(row[i].doc) \subseteq batch[w].ops
            /\ row[i].doc \notin batch[w].adds
            /\ batch[w].pc \in {"reduce", "write", "save"} =>
                   row[i].doc \in batch[w].drops \/ row[i].doc \notin page.refs
            /\ batch[w].pc \in {"drain", "trim"} =>
                   row[i].doc \in batch[w].fail \/ row[i].doc \notin page.refs

\* A document on its way out has its retract in the queue, or given up, or is off the
\* page with nothing left to do.
RetractPending ==
    \A d \in Doc : Leaving(d) /\ d \notin torn /\ d \notin clobbered =>
        \/ \E i \in RowsOf(d) : Retract(i)
        \/ GivenUp(d)
        \/ d \notin page.refs /\ RowsOf(d) = {}

GhostInv == KeptInv /\ PageIsClean /\ RetractHeld /\ RetractPending

LEMMA CleanStep ==
    ASSUME ClaimTypes, PageIsClean, [Next]_vars
    PROVE  PageIsClean'
<1>1. CASE UNCHANGED page
  BY <1>1 DEF PageIsClean
<1>2. CASE \E w \in Worker : SavePage(w)
  BY <1>2 DEF SavePage, Rewritten, PageIsClean
<1>3. ASSUME NEW d \in Doc, Unlink(d) PROVE PageIsClean'
  <2>1. \A S : [page EXCEPT !.refs = S].there = page.there
    BY DEF ClaimTypes, Page
  <2> QED BY <1>3, <2>1 DEF Unlink, PageIsClean
<1> QED BY <1>1, <1>2, <1>3, PageMoves

\* No row is written for a document on its way out.
LEMMA RowsShrink ==
    ASSUME ClaimTypes, [Next]_vars, NEW d \in Doc, Leaving(d)
    PROVE  \A j \in Op : row'[j].st = "queued" /\ row'[j].doc = d => j \in RowsOf(d)
<1>1. \A j \in 1..last : row'[j].st = "queued" /\ row'[j].doc = d => j \in RowsOf(d)
  BY FixedRows, WrittenRows DEF RowsOf, Queued
<1>3. \A j \in Op : row'[j].st = "queued" => j \in 1..last'
  BY TypesStep, Constants DEF ClaimTypes, Op
<1>4. CASE last' = last
  BY <1>1, <1>3, <1>4
<1>5. CASE last' = last + 1 /\ Written(last')
  <2>1. row'[last'].doc # d
    BY <1>5 DEF Written, SeedFinalizing, QueueRetract, Leaving
  <2>2. \A j \in 1..last' : j \in 1..last \/ j = last'
    BY <1>5 DEF ClaimTypes
  <2> QED BY <1>1, <1>3, <2>1, <2>2
<1> QED BY <1>4, <1>5, RowsAreWritten

\* A document that is off the page stays so, unless a batch adds it.
LEMMA OffStays ==
    ASSUME KeptInv, [Next]_vars, NEW d \in Doc, d \notin clobbered', d \notin page.refs,
           \A v \in Worker : SavePage(v) => d \notin batch[v].adds
    PROVE  d \notin page'.refs
<1>1. ASSUME NEW v \in Worker, SavePage(v) PROVE d \notin page'.refs
  BY <1>1 DEF SavePage, Lands, Rewritten
<1>2. ASSUME NEW e \in Doc, Unlink(e) PROVE d \notin page'.refs
  <2>1. CASE e # d
    BY <1>2, <2>1 DEF Unlink
  <2>2. CASE e = d
    <3>1. \A S \in SUBSET Doc : [page EXCEPT !.refs = S].refs = S
      BY DEF KeptInv, ClaimInv, ClaimTypes, Page
    <3>2. doc[e].seen \ {e} \subseteq Doc
      BY DEF KeptInv, ClaimInv, ClaimTypes, Document
    <3> QED BY <1>2, <2>2, <3>1, <3>2 DEF Unlink, NoPage
  <2> QED BY <2>1, <2>2
<1> QED BY <1>1, <1>2, PageMoves

LEMMA PendingStep ==
    ASSUME GhostInv, [Next]_vars
    PROVE  RetractPending'
<1>0. KeptInv /\ ClaimTypes
  BY DEF GhostInv, KeptInv, ClaimInv
<1> SUFFICES ASSUME NEW d \in Doc, Leaving(d)', d \notin torn', d \notin clobbered'
             PROVE  \/ \E i \in Op : row'[i].st = "queued" /\ row'[i].doc = d /\ row'[i].op = "retract"
                    \/ GivenUp(d)'
                    \/ d \notin page'.refs /\ \A j \in Op : ~(row'[j].st = "queued" /\ row'[j].doc = d)
  BY DEF RetractPending, RowsOf, Queued, Retract
<1>1. d \notin torn /\ d \notin clobbered
  BY PageMoves
<1>2. CASE ~Leaving(d)
  <2>1. QueueRetract(d)
    BY <1>0, <1>2, DocsMove DEF DocMoves, Same, Leaving
  <2>2. last' = last + 1
    BY <2>1 DEF QueueRetract, Insert
  <2>3. last' \in Op /\ Written(last')
    BY <1>0, <2>2, RowsAreWritten DEF ClaimTypes
  <2>4. Insert(d, "retract", 0, d \in page.refs)
    BY <2>1 DEF QueueRetract
  <2>5. row'[last'] = [st |-> "queued", doc |-> d, op |-> "retract", attempt |-> 0,
                       fails |-> 0, claimed |-> FALSE, hit |-> d \in page.refs]
    BY <1>0, <2>2, <2>3, <2>4 DEF Insert, ClaimTypes
  <2> QED BY <2>3, <2>5
<1>3. CASE Leaving(d)
  <2>1. \A j \in Op : row'[j].st = "queued" /\ row'[j].doc = d => j \in RowsOf(d)
    BY <1>0, <1>3, RowsShrink
  <2>2. ASSUME NEW i \in RowsOf(d), Retract(i)
        PROVE  \/ row'[i].st = "queued" /\ row'[i].doc = d /\ row'[i].op = "retract"
               \/ GivenUp(d)'
               \/ d \notin page'.refs /\ \A j \in Op : ~(row'[j].st = "queued" /\ row'[j].doc = d)
    <3>1. i \in 1..last /\ i \in Op /\ i <= last /\ Queued(i) /\ row[i].doc = d
      BY <1>0, WrittenRows DEF RowsOf
    <3>2. RowMoves(i)
      BY <1>0, <3>1, RowsMove
    <3>3. CASE row'[i].st = row[i].st
      BY <2>2, <3>1, <3>2, <3>3 DEF RowMoves, Retract, Queued
    <3>4. CASE row'[i].st = "dropped"
      BY <2>2, <3>1, <3>2, <3>4 DEF RowMoves, GivenUp, Retract
    <3>5. ASSUME NEW w \in Worker, TrimPendingList(w), i \in batch[w].ops, i \notin FailedOps(w),
                 row'[i].st # row[i].st
          PROVE  d \notin page'.refs /\ \A j \in Op : ~(row'[j].st = "queued" /\ row'[j].doc = d)
      <4>1. batch[w].pc = "trim" /\ page' = page /\ Holds(w, i)
        BY <3>1, <3>5 DEF TrimPendingList, Holds
      <4>2. i \in Chosen(w)
        BY <1>0, <2>2, <3>1, <3>5, WrittenRows DEF Chosen, KeptInv, RetractIsLast
      <4>3. d \notin batch[w].fail
        BY <3>1, <3>5, <4>2 DEF FailedOps, ChosenFor
      <4>4. d \notin page.refs /\ RowsOf(d) \subseteq batch[w].ops
        BY <1>1, <2>2, <3>1, <4>1, <4>3 DEF GhostInv, RetractHeld
      <4>5. row' = Without({j \in batch[w].ops : Queued(j)} \ FailedOps(w))
        BY <3>5 DEF TrimPendingList
      <4>6. ASSUME NEW j \in Op, row'[j].st = "queued", row'[j].doc = d PROVE FALSE
        <5>1. j \in RowsOf(d) /\ j \in batch[w].ops /\ Queued(j) /\ row[j].doc = d /\ row[j] \in Row
          BY <1>0, <2>1, <4>4, <4>6 DEF RowsOf, ClaimTypes
        <5>2. j \notin FailedOps(w)
          BY <4>3, <5>1 DEF FailedOps, ChosenFor
        <5>3. row'[j] = [row[j] EXCEPT !.st = "gone", !.claimed = FALSE]
          BY <4>5, <5>1, <5>2 DEF Without
        <5> QED BY <4>6, <5>1, <5>3, RowFields
      <4> QED BY <4>1, <4>4, <4>6
    <3>6. CASE row'[i].st # row[i].st
      BY <2>2, <3>1, <3>2, <3>4, <3>5, <3>6 DEF RowMoves, Leaves, Retract
    <3> QED BY <3>3, <3>6
  <2>3. CASE GivenUp(d)
    <3>1. PICK i \in Op : row[i].doc = d /\ row[i].op = "retract" /\ row[i].st = "dropped"
      BY <2>3 DEF GivenUp
    <3>2. RowMoves(i)
      BY <1>0, <3>1, RowsMove DEF ClaimTypes
    <3> QED BY <3>1, <3>2 DEF RowMoves, GivenUp, Queued
  <2>4. CASE d \notin page.refs /\ RowsOf(d) = {}
    <3>1. ASSUME NEW v \in Worker, d \in batch[v].adds PROVE FALSE
      <4>1. PICK j \in Op : Holds(v, j) /\ row[j].doc = d
        BY <3>1 DEF KeptInv, GhostInv, Contributes, Docs
      <4> QED BY <1>0, <1>1, <2>4, <4>1 DEF KeptInv, ClaimInv, HeldIsClaimed, RowsOf
    <3> QED BY <1>0, <2>1, <2>4, <3>1, OffStays
  <2> QED BY <1>1, <1>3, <2>2, <2>3, <2>4 DEF GhostInv, RetractPending, RowsOf
<1> QED BY <1>2, <1>3

\* No other batch adds what a batch with the retract of a document holds.
LEMMA NotAdded ==
    ASSUME GhostInv, NEW w \in Worker, NEW i \in 1..last, Holds(w, i), Retract(i),
           row[i].doc \notin torn, row[i].doc \notin clobbered, NEW v \in Worker
    PROVE  row[i].doc \notin batch[v].adds
<1>1. CASE v = w
  BY <1>1 DEF GhostInv, RetractHeld
<1>2. CASE v # w
  <2>1. i \in Op
    BY WrittenRows DEF GhostInv, KeptInv, ClaimInv
  <2>2. row[i].doc \in Docs(w)
    BY <2>1 DEF Docs
  <2> QED BY <1>2, <2>2 DEF GhostInv, KeptInv, ClaimInv, DocAlone, Contributes
<1> QED BY <1>1, <1>2

LEMMA HeldStep ==
    ASSUME GhostInv, [Next]_vars
    PROVE  RetractHeld'
<1> SUFFICES ASSUME NEW w \in Worker, NEW i \in 1..last', batch'[w].pc \notin {"idle", "end"},
                    i \in batch'[w].ops, row'[i].op = "retract",
                    row'[i].doc \notin torn', row'[i].doc \notin clobbered'
             PROVE  /\ \A j \in Op : row'[j].st = "queued" /\ row'[j].doc = row'[i].doc => j \in batch'[w].ops
                    /\ row'[i].doc \notin batch'[w].adds
                    /\ batch'[w].pc \in {"reduce", "write", "save"} =>
                           row'[i].doc \in batch'[w].drops \/ row'[i].doc \notin page'.refs
                    /\ batch'[w].pc \in {"drain", "trim"} =>
                           row'[i].doc \in batch'[w].fail \/ row'[i].doc \notin page'.refs
  BY DEF RetractHeld, Holds, Retract, RowsOf, Queued
<1> DEFINE d == row[i].doc
<1>0. KeptInv /\ ClaimTypes /\ RetractIsLast
  BY DEF GhostInv, KeptInv, ClaimInv
\* The retract is a row of a document on its way out, whose rows only get fewer.
<1>1. ASSUME i \in 1..last
      PROVE  /\ row'[i].doc = d /\ Retract(i) /\ d \in Doc /\ Leaving(d)
             /\ d \notin torn /\ d \notin clobbered
             /\ \A j \in Op : row'[j].st = "queued" /\ row'[j].doc = d => j \in RowsOf(d)
  <2>1. row'[i].doc = d /\ Retract(i) /\ d \in Doc
    BY <1>0, <1>1, FixedRows, WrittenRows DEF Retract
  <2>2. Leaving(d)
    BY <1>0, <1>1, <2>1 DEF RetractIsLast
  <2>3. d \notin torn /\ d \notin clobbered
    BY <2>1, PageMoves
  <2> QED BY <1>0, <2>1, <2>2, <2>3, RowsShrink
\* The batch had it before.
<1>2. ASSUME i \in batch[w].ops, batch[w].pc \notin {"idle", "end"}
      PROVE  /\ i \in 1..last /\ Holds(w, i)
             /\ RowsOf(d) \subseteq batch[w].ops /\ d \notin batch[w].adds
             /\ batch[w].pc \in {"reduce", "write", "save"} => d \in batch[w].drops \/ d \notin page.refs
             /\ batch[w].pc \in {"drain", "trim"} => d \in batch[w].fail \/ d \notin page.refs
             /\ d \notin page.refs => d \notin page'.refs
  <2>1. i \in 1..last /\ Holds(w, i)
    BY <1>0, <1>2, WrittenRows DEF Holds
  <2>2. /\ RowsOf(d) \subseteq batch[w].ops /\ d \notin batch[w].adds
        /\ batch[w].pc \in {"reduce", "write", "save"} => d \in batch[w].drops \/ d \notin page.refs
        /\ batch[w].pc \in {"drain", "trim"} => d \in batch[w].fail \/ d \notin page.refs
    BY <1>1, <2>1 DEF GhostInv, RetractHeld
  <2>3. \A v \in Worker : d \notin batch[v].adds
    BY <1>1, <2>1, NotAdded
  <2>4. d \in Doc /\ d \notin clobbered'
    BY <1>1, <2>1
  <2>5. d \notin page.refs => d \notin page'.refs
    BY <1>0, <2>3, <2>4, OffStays
  <2> QED BY <2>1, <2>2, <2>5
<1> HIDE DEF d
<1>3. CASE batch'[w] = batch[w]
  BY <1>1, <1>2, <1>3
<1>4. CASE ClaimBatch(w)
  <2>1. PICK K \in SUBSET Doc :
           /\ \A e \in K : Claimable(e)
           /\ batch'[w].ops = UNION {RowsOf(e) : e \in K} /\ batch'[w].pc = "map"
           /\ batch'[w].adds = {} /\ batch'[w].drops = {}
    BY <1>0, <1>4, ClaimFields
  <2>2. PICK e \in K : i \in RowsOf(e)
    BY <2>1
  <2>3. i \in 1..last /\ d = e
    BY <1>0, <2>2, WrittenRows DEF RowsOf, d
  <2>4. RowsOf(d) \subseteq batch'[w].ops
    BY <2>1, <2>3
  <2> QED BY <1>1, <2>1, <2>3, <2>4
<1>5. CASE MapPhase(w)
  <2>0. PICK skip \in SUBSET Ingests(w), F \in SUBSET Ingests(w), blind \in SUBSET Retracts(w) :
           Mapped(w, skip, F, blind)
    BY <1>0, <1>5, MapFields
  <2>1. /\ batch[w].pc = "map" /\ batch'[w].ops = batch[w].ops /\ page' = page
        /\ batch'[w].pc = "reduce" \/ (batch'[w].pc = "drain" /\ batch'[w].drops = {})
        /\ batch'[w].adds = {row[j].doc : j \in Ingests(w) \ (skip \cup F)}
        /\ batch'[w].drops = {row[j].doc : j \in {k \in Retracts(w) : row[k].hit}
                                                \cup {k \in Retracts(w) \ blind : Touches(k)}}
        /\ {row[j].doc : j \in blind} \subseteq clobbered'
    <3>1. page' = page
      BY <1>5 DEF MapPhase
    <3> QED BY <2>0, <3>1 DEF Mapped
  <2>2. i \in 1..last /\ RowsOf(d) \subseteq batch[w].ops /\ Retract(i) /\ row'[i].doc = d
    BY <1>1, <1>2, <2>1
  <2>3. \A j \in batch[w].ops : row[j].doc = d => j <= i
    BY <1>0, <2>2, WrittenRows DEF RetractIsLast, d
  <2>4. i \in Retracts(w) \ blind
    BY <2>1, <2>2, <2>3 DEF Retracts, Chosen, Retract, d
  <2>5. \A j \in Chosen(w) : row[j].doc = d => j = i
    <3>1. \A j \in Chosen(w) : row[j].doc = d => i <= j /\ j <= i /\ j \in 1..last
      BY <1>0, <2>1, <2>2, <2>3, WrittenRows DEF Chosen, d
    <3> QED BY <2>2, <3>1, Constants
  <2>6. d \notin batch'[w].adds
    BY <2>1, <2>2, <2>5 DEF Ingests, Retract
  <2>7. d \in batch'[w].drops \/ d \notin page.refs
    BY <2>1, <2>4 DEF Touches, d
  <2>8. batch'[w].pc = "drain" => d \notin page.refs
    BY <2>1, <2>7
  <2> QED BY <1>1, <2>1, <2>2, <2>6, <2>7, <2>8
<1>6. CASE TakeSlug(w) \/ CheckSources(w) \/ SavePage(w) \/ Conflict(w)
  <2>1. batch[w].pc \in {"reduce", "write", "save"} /\ batch'[w].ops = batch[w].ops
    BY <1>0, <1>6, ReduceFields
  <2>2. /\ i \in 1..last /\ RowsOf(d) \subseteq batch[w].ops /\ d \notin batch[w].adds
        /\ d \in batch[w].drops \/ d \notin page.refs
        /\ d \notin page.refs => d \notin page'.refs
    BY <1>2, <2>1
  <2>3. CASE /\ batch'[w].pc \in {"write", "save"} /\ batch'[w].adds \subseteq batch[w].adds
             /\ batch'[w].drops = batch[w].drops
    BY <1>1, <2>1, <2>2, <2>3
  <2>4. CASE /\ batch'[w].pc = "drain" /\ batch'[w].adds = {}
             /\ batch'[w].fail = batch[w].fail \cup batch[w].ok \cup batch[w].drops
    BY <1>1, <2>1, <2>2, <2>4
  <2>5. CASE /\ batch'[w].pc = "drain" /\ batch'[w].adds = {} /\ (batch[w].drops = {} \/ ~page.there)
    <3>1. d \notin page.refs
      BY <2>2, <2>5 DEF GhostInv, PageIsClean, NoPage
    <3> QED BY <1>1, <2>1, <2>2, <2>5, <3>1
  <2>6. CASE batch'[w].pc = "drain" /\ batch'[w].adds = {} /\ SavePage(w)
    <3>1. d \notin page'.refs
      BY <2>2, <2>6 DEF SavePage, Lands, Rewritten
    <3> QED BY <1>1, <2>1, <2>2, <2>6, <3>1
  <2> QED BY <1>0, <1>6, <2>3, <2>4, <2>5, <2>6, ReduceFields
<1>7. CASE DrainMapped(w) \/ TrimPendingList(w) \/ RequeueFailedOps(w) \/ EndBatch(w) \/ Abort(w) \/ Crash(w)
  <2>1. Idle.pc = "idle"
    BY DEF Idle
  <2>2. CASE /\ batch[w].pc = "drain" /\ batch'[w].pc = "trim" /\ batch'[w].ops = batch[w].ops
             /\ batch'[w].fail = batch[w].fail /\ batch'[w].adds = batch[w].adds
    BY <1>1, <1>2, <2>2
  <2>3. CASE /\ batch[w].pc = "trim" /\ batch'[w].pc = "requeue" /\ batch'[w].ops = batch[w].ops
             /\ batch'[w].adds = batch[w].adds
    BY <1>1, <1>2, <2>3
  <2>4. CASE /\ batch[w].pc = "trim" /\ batch'[w].pc = "requeue" /\ batch'[w].ops = FailedOps(w)
             /\ batch'[w].adds = batch[w].adds
             /\ row' = Without({j \in batch[w].ops : Queued(j)} \ FailedOps(w))
    <3>1. i \in batch[w].ops
      BY <2>4 DEF FailedOps, ChosenFor, Chosen
    <3>2. i \in 1..last /\ RowsOf(d) \subseteq batch[w].ops /\ d \notin batch[w].adds
      BY <1>2, <2>4, <3>1
    <3>3. ASSUME NEW j \in Op, row'[j].st = "queued", row'[j].doc = d PROVE j \in batch'[w].ops
      <4>1. j \in RowsOf(d) /\ j \in batch[w].ops /\ Queued(j) /\ row[j] \in Row
        BY <1>0, <1>1, <3>2, <3>3 DEF RowsOf, ClaimTypes
      <4>2. ASSUME j \notin FailedOps(w) PROVE FALSE
        <5>1. row'[j] = [row[j] EXCEPT !.st = "gone", !.claimed = FALSE]
          BY <2>4, <4>1, <4>2 DEF Without
        <5> QED BY <3>3, <4>1, <5>1, RowFields
      <4> QED BY <2>4, <4>2
    <3> QED BY <1>1, <2>4, <3>2, <3>3
  <2> QED BY <1>0, <1>7, <2>1, <2>2, <2>3, <2>4, TailFields
<1>8. (\E v \in Worker : ClaimBatch(v) \/ Step(v) \/ Abort(v) \/ Crash(v)) \/ batch' = batch
  BY NoBatch
<1>9. ASSUME NEW v \in Worker, v # w, ClaimBatch(v) \/ Step(v) \/ Abort(v) \/ Crash(v)
      PROVE  batch'[w] = batch[w]
  BY <1>0, <1>9, OneBatch
<1> QED BY <1>3, <1>4, <1>5, <1>6, <1>7, <1>8, <1>9 DEF Step

LEMMA GhostInit ==
    ASSUME Init PROVE GhostInv
<1>1. PageIsClean
  BY DEF Init, PageIsClean
<1>2. RetractHeld
  BY DEF Init, RetractHeld, Holds, Idle
<1>3. RetractPending
  BY DEF Init, RetractPending, Leaving
<1> QED BY <1>1, <1>2, <1>3, KeptInit DEF GhostInv

\* A deleted document whose operations are all done is off the page, unless its
\* retract was given up: a rewrite that started before the delete does not land after
\* the retract, and a retract that did not land goes back to the queue.
THEOREM NoGhosts == Spec => []NoGhost
<1>1. GhostInv => NoGhost
  BY DEF GhostInv, RetractPending, NoGhost, Leaving, Settled, OffThePage
<1>2. GhostInv /\ [Next]_vars => GhostInv'
  <2> SUFFICES ASSUME GhostInv, [Next]_vars PROVE GhostInv'
    OBVIOUS
  <2>1. KeptInv' /\ PageIsClean'
    BY KeptInvStep, CleanStep DEF GhostInv, KeptInv, ClaimInv
  <2> QED BY <2>1, HeldStep, PendingStep DEF GhostInv
<1> QED BY <1>1, <1>2, GhostInit, PTL DEF Spec

-----------------------------------------------------------------------------
(* How often a document's slot is released *)

\* A batch that will release the slot row i owns, unless it dies or is aborted.
Pledges(w, i) ==
    /\ i \in batch[w].ops
    /\ \/ batch[w].pc = "map"
       \/ batch[w].pc \in {"reduce", "write", "save", "drain"}
          /\ row[i].doc \in batch[w].ok \cup batch[w].fail
       \/ batch[w].pc \in {"trim", "requeue"} /\ row[i].doc \in batch[w].fail

\* A batch that did not settle, and whose end will put row i back.
PutsBack(w, i) ==
    /\ batch[w].err /\ batch[w].pc \in {"requeue", "end"}
    /\ i \in batch[w].ops /\ Queued(i)

\* A batch still to come may release the slot for row i, or a trigger for an older row.
Open(i) ==
    IF Queued(i) THEN ~row[i].claimed \/ \A w \in Worker : i \notin batch[w].ops
                 ELSE RowsOf(row[i].doc) # {}

Pledged(i) == {w \in Worker : Pledges(w, i)}
PutBack(i) == {w \in Worker : PutsBack(w, i)}

\* 1 for what is so, 0 for what is not.
One(b) == IF b THEN 1 ELSE 0

Spent == faults["crash"] + faults["error"]

\* What was released and may still be is covered by one release and the faults.
Covered(i) ==
    /\ IsFiniteSet(Pledged(i)) /\ IsFiniteSet(PutBack(i))
    /\ drained[row[i].doc] + Cardinality(Pledged(i)) + Cardinality(PutBack(i)) + One(Open(i)) <= 1 + Spent

AllCovered == \A i \in 1..last : Current(i) /\ Waits(row[i].doc) => Covered(i)

\* Who waits has a written row; who has settled all but the failed ops holds no other.
HasRow == \A d \in Doc : Waits(d) => \E i \in 1..last : row[i].doc = d /\ Current(i)
BatchesSettle ==
    \A w \in Worker :
        /\ batch[w].pc = "idle" => batch[w].ops = {}
        /\ batch[w].err => batch[w].pc \in {"requeue", "end"}
        /\ batch[w].pc = "end" => batch[w].err
        /\ batch[w].pc = "requeue" /\ ~batch[w].err => batch[w].ops \subseteq FailedOps(w)

\* A batch that holds a row holds every older one of its document.
HeldWhole ==
    \A w \in Worker : \A i \in batch[w].ops, j \in 1..last :
        j < i /\ row[j].doc = row[i].doc /\ Queued(j) => j \in batch[w].ops

DrainInv ==
    /\ SlotInv /\ KeptInv
    /\ HasRow /\ BatchesSettle /\ HeldWhole /\ AllCovered /\ DrainedOnce

LEMMA SizeStep ==
    ASSUME NEW S, NEW T, NEW x, IsFiniteSet(S), T \ {x} \subseteq S
    PROVE  /\ IsFiniteSet(T) /\ Cardinality(T) \in Nat /\ Cardinality(S) \in Nat
           /\ Cardinality(T) + One(x \in S) <= Cardinality(S) + One(x \in T)
<1>1. IsFiniteSet(S \ {x}) /\ Cardinality(S) = Cardinality(S \ {x}) + One(x \in S)
  <2>1. Cardinality(S) \in Nat
    BY FS_CardinalityType
  <2>2. IsFiniteSet(S \ {x})
        /\ Cardinality(S \ {x}) = IF x \in S THEN Cardinality(S) - 1 ELSE Cardinality(S)
    BY FS_RemoveElement
  <2>3. CASE x \in S
    BY <2>1, <2>2, <2>3 DEF One
  <2>4. CASE x \notin S
    BY <2>1, <2>2, <2>4 DEF One
  <2> QED BY <2>3, <2>4
<1>2. T \ {x} \in SUBSET (S \ {x})
  OBVIOUS
<1>3. IsFiniteSet(T \ {x}) /\ Cardinality(T \ {x}) <= Cardinality(S \ {x})
  BY <1>1, <1>2, FS_Subset
<1>4. IsFiniteSet(T) /\ Cardinality(T) = Cardinality(T \ {x}) + One(x \in T)
  <2>1. CASE x \in T
    <3>1. T = (T \ {x}) \cup {x}
      BY <2>1
    <3>2. IsFiniteSet((T \ {x}) \cup {x}) /\ Cardinality((T \ {x}) \cup {x}) = Cardinality(T \ {x}) + 1
      BY <1>3, FS_AddElement
    <3> QED BY <2>1, <3>1, <3>2 DEF One
  <2>2. CASE x \notin T
    <3>1. T = T \ {x}
      BY <2>2
    <3>2. Cardinality(T) \in Nat
      BY <1>3, <3>1, FS_CardinalityType
    <3> QED BY <1>3, <2>2, <3>1, <3>2 DEF One
  <2> QED BY <2>1, <2>2
<1>5. /\ Cardinality(T) \in Nat /\ Cardinality(S) \in Nat
      /\ Cardinality(S \ {x}) \in Nat /\ Cardinality(T \ {x}) \in Nat
  BY <1>1, <1>3, <1>4, FS_CardinalityType
<1>6. One(x \in T) \in {0, 1} /\ One(x \in S) \in {0, 1}
  BY DEF One
<1> QED BY <1>1, <1>3, <1>4, <1>5, <1>6

\* The step of one worker, or of none, in the balance of one row.
Pays(w, i) ==
    drained'[row[i].doc] + One(Pledges(w, i)') + One(PutsBack(w, i)') + One(Open(i)') + Spent
      <= drained[row[i].doc] + One(Pledges(w, i)) + One(PutsBack(w, i)) + One(Open(i)) + Spent'

LEMMA CoveredStep ==
    ASSUME ClaimTypes, OtherTypes, OtherTypes', NEW w \in Worker, NEW i \in 1..last, Covered(i),
           row'[i].doc = row[i].doc,
           \A v \in Worker \ {w} : /\ Pledges(v, i)' => Pledges(v, i)
                                   /\ PutsBack(v, i)' => PutsBack(v, i),
           Pays(w, i)
    PROVE  Covered(i)'
<1>1. /\ IsFiniteSet(Pledged(i)') /\ Cardinality(Pledged(i)') \in Nat /\ Cardinality(Pledged(i)) \in Nat
      /\ Cardinality(Pledged(i)') + One(Pledges(w, i)) <= Cardinality(Pledged(i)) + One(Pledges(w, i)')
  <2>1. Pledged(i)' \ {w} \subseteq Pledged(i)
    BY DEF Pledged
  <2>2. (w \in Pledged(i) <=> Pledges(w, i)) /\ (w \in Pledged(i)' <=> Pledges(w, i)')
    BY DEF Pledged
  <2>3. IsFiniteSet(Pledged(i))
    BY DEF Covered
  <2>4. \A S, T : IsFiniteSet(S) /\ T \ {w} \subseteq S =>
           /\ IsFiniteSet(T) /\ Cardinality(T) \in Nat /\ Cardinality(S) \in Nat
           /\ Cardinality(T) + One(w \in S) <= Cardinality(S) + One(w \in T)
    BY SizeStep
  <2> QED BY <2>1, <2>2, <2>3, <2>4 DEF One
<1>2. /\ IsFiniteSet(PutBack(i)') /\ Cardinality(PutBack(i)') \in Nat /\ Cardinality(PutBack(i)) \in Nat
      /\ Cardinality(PutBack(i)') + One(PutsBack(w, i)) <= Cardinality(PutBack(i)) + One(PutsBack(w, i)')
  <2>1. PutBack(i)' \ {w} \subseteq PutBack(i)
    BY DEF PutBack
  <2>2. (w \in PutBack(i) <=> PutsBack(w, i)) /\ (w \in PutBack(i)' <=> PutsBack(w, i)')
    BY DEF PutBack
  <2>3. IsFiniteSet(PutBack(i))
    BY DEF Covered
  <2>4. \A S, T : IsFiniteSet(S) /\ T \ {w} \subseteq S =>
           /\ IsFiniteSet(T) /\ Cardinality(T) \in Nat /\ Cardinality(S) \in Nat
           /\ Cardinality(T) + One(w \in S) <= Cardinality(S) + One(w \in T)
    BY SizeStep
  <2> QED BY <2>1, <2>2, <2>3, <2>4 DEF One
<1>3. Spent \in Nat /\ Spent' \in Nat /\ drained[row[i].doc] \in Nat /\ drained'[row[i].doc] \in Nat
  BY WrittenRows, Constants DEF OtherTypes, Spent, Fault
<1>4. /\ One(Pledges(w, i)) \in {0, 1} /\ One(Pledges(w, i)') \in {0, 1} /\ One(Open(i)) \in {0, 1}
      /\ One(PutsBack(w, i)) \in {0, 1} /\ One(PutsBack(w, i)') \in {0, 1} /\ One(Open(i)') \in {0, 1}
  BY DEF One
<1>5. drained[row[i].doc] + Cardinality(Pledged(i)) + Cardinality(PutBack(i)) + One(Open(i)) <= 1 + Spent
  BY DEF Covered
<1>6. \A a, b, p, q, r, s, x, y, s1, s2 \in Nat :
      \A x1, x2, y1, y2, o1, o2 \in {0, 1} :
        /\ q + x1 <= p + x2 /\ s + y1 <= r + y2
        /\ b + x2 + y2 + o2 + s1 <= a + x1 + y1 + o1 + s2
        /\ a + p + r + o1 <= 1 + s1
        => b + q + s + o2 <= 1 + s2
  OBVIOUS
<1>7. drained'[row[i].doc] + Cardinality(Pledged(i)') + Cardinality(PutBack(i)') + One(Open(i)') <= 1 + Spent'
  <2> DEFINE a == drained[row[i].doc]
             b == drained'[row[i].doc]
             p == Cardinality(Pledged(i))
             q == Cardinality(Pledged(i)')
             r == Cardinality(PutBack(i))
             s == Cardinality(PutBack(i)')
             x1 == One(Pledges(w, i))
             x2 == One(Pledges(w, i)')
             y1 == One(PutsBack(w, i))
             y2 == One(PutsBack(w, i)')
             o1 == One(Open(i))
             o2 == One(Open(i)')
             s1 == Spent
             s2 == Spent'
  <2>1. /\ a \in Nat /\ b \in Nat /\ p \in Nat /\ q \in Nat /\ r \in Nat /\ s \in Nat /\ s1 \in Nat /\ s2 \in Nat
        /\ x1 \in {0, 1} /\ x2 \in {0, 1} /\ y1 \in {0, 1} /\ y2 \in {0, 1} /\ o1 \in {0, 1} /\ o2 \in {0, 1}
    BY <1>1, <1>2, <1>3, <1>4
  <2>2. /\ q + x1 <= p + x2 /\ s + y1 <= r + y2
        /\ a + p + r + o1 <= 1 + s1
    BY <1>1, <1>2, <1>5
  <2>3. b + x2 + y2 + o2 + s1 <= a + x1 + y1 + o1 + s2
    BY DEF Pays
  <2> HIDE DEF a, b, p, q, r, s, x1, x2, y1, y2, o1, o2, s1, s2
  <2>4. b + q + s + o2 <= 1 + s2
    BY <2>1, <2>2, <2>3
  <2> QED BY <2>4 DEF b, q, s, o2, s2
<1> QED BY <1>1, <1>2, <1>7 DEF Covered

LEMMA SpentMoves ==
    ASSUME OtherTypes, [Next]_vars
    PROVE  /\ Spent \in Nat /\ Spent' \in Nat /\ Spent' >= Spent
           /\ Faulty("crash") \/ Faulty("error") => Spent' = Spent + 1
<1>1. \A k \in Fault : faults[k] \in Nat
  BY Constants DEF OtherTypes
<1>2. {"crash", "error"} \subseteq Fault /\ DOMAIN faults = Fault
  BY DEF Fault, OtherTypes
<1>3. \A k \in Fault : Faulty(k) => \A j \in Fault : faults'[j] = IF j = k THEN faults[k] + 1 ELSE faults[j]
  BY <1>2 DEF Faulty
<1>4. faults' = faults \/ \E k \in Fault : Faulty(k)
  <2>1. ASSUME NEW d \in Doc, SeedFinalizing(d) \/ Reparse(d) \/ Cancel(d) \/ Tombstone(d) \/ Cleanup(d)
        PROVE  faults' = faults \/ Faulty("error")
    BY <2>1 DEF SeedFinalizing, Reparse, Cancel, Tombstone, Cleanup, ScrubDeleted, QueueRetract, Unlink,
                Scrub, budgets
  <2>2. ASSUME NEW w \in Worker, ClaimBatch(w) \/ Step(w) \/ Abort(w) \/ Crash(w)
        PROVE  faults' = faults \/ \E k \in Fault : Faulty(k)
    BY <2>2, BatchFaults
  <2>3. ASSUME (\E i \in Op : ClaimGoesStale(i)) \/ LockExpires \/ DrainUnclaimedAndRelease
               \/ DiscardUnclaimed \/ UNCHANGED vars
        PROVE  faults' = faults \/ \E k \in Fault : Faulty(k)
    BY <2>3 DEF ClaimGoesStale, LockExpires, DrainUnclaimedAndRelease, DiscardUnclaimed, Fails, Fault,
                budgets, vars
  <2> QED BY <2>1, <2>2, <2>3, <1>2 DEF Next
<1>5. Spent \in Nat
  BY <1>1, <1>2 DEF Spent
<1>6. ASSUME NEW k \in Fault, Faulty(k)
      PROVE  Spent' \in Nat /\ Spent' >= Spent /\ (k \in {"crash", "error"} => Spent' = Spent + 1)
  BY <1>1, <1>2, <1>3, <1>6 DEF Spent
<1>7. CASE faults' = faults
  <2>1. ~Faulty("crash") /\ ~Faulty("error")
    BY <1>1, <1>2, <1>3, <1>7
  <2> QED BY <1>5, <1>7, <2>1 DEF Spent
<1>8. CASE \E k \in Fault : Faulty(k)
  BY <1>2, <1>5, <1>6, <1>8
<1> QED BY <1>4, <1>7, <1>8

\* No row is written for a document that goes on waiting.
LEMMA WaitingRows ==
    ASSUME ClaimTypes, [Next]_vars, NEW d \in Doc, Waits(d), ~SeedFinalizing(d)
    PROVE  RowsOf(d)' \subseteq RowsOf(d)
<1>1. \A j \in 1..last : row'[j].st = "queued" /\ row'[j].doc = d => j \in RowsOf(d)
  BY FixedRows, WrittenRows DEF RowsOf, Queued
<1>2. \A j \in Op : row'[j].st = "queued" => j \in 1..last'
  BY TypesStep, Constants DEF ClaimTypes, Op
<1>3. CASE last' = last
  BY <1>1, <1>2, <1>3 DEF RowsOf, Queued
<1>4. CASE last' = last + 1 /\ Written(last')
  <2>1. row'[last'].doc # d
    BY <1>4 DEF Written, QueueRetract, Waits
  <2>2. \A j \in 1..last' : j \in 1..last \/ j = last'
    BY <1>4 DEF ClaimTypes
  <2> QED BY <1>1, <1>2, <2>1, <2>2 DEF RowsOf, Queued
<1> QED BY <1>3, <1>4, RowsAreWritten

LEMMA OpenKept ==
    ASSUME ClaimTypes, [Next]_vars, NEW i \in 1..last, Waits(row[i].doc), ~SeedFinalizing(row[i].doc),
           row'[i].st = row[i].st,
           Queued(i) => /\ row'[i].claimed = row[i].claimed
                        /\ \A v \in Worker : i \in batch[v].ops => i \in batch'[v].ops
    PROVE  Open(i)' => Open(i)
<1>1. PICK d \in Doc : row[i].doc = d /\ row'[i].doc = d
  BY FixedRows, WrittenRows
<1>2. RowsOf(d)' \subseteq RowsOf(d)
  BY <1>1, WaitingRows
<1>3. RowsOf(row[i].doc)' = RowsOf(d)' /\ RowsOf(row[i].doc) = RowsOf(d)
  BY <1>1 DEF RowsOf, Queued
<1> QED BY <1>1, <1>2, <1>3 DEF Open, Queued

LEMMA RunUpdates ==
    ASSUME NEW b \in Run
    PROVE  \A o, l :
             /\ LET y == [b EXCEPT !.ops = o, !.pc = l] IN
                y.ops = o /\ y.pc = l /\ y.ok = b.ok /\ y.fail = b.fail /\ y.err = b.err
             /\ LET y == [b EXCEPT !.err = TRUE, !.pc = l] IN
                y.ops = b.ops /\ y.pc = l /\ y.ok = b.ok /\ y.fail = b.fail /\ y.err = TRUE
             /\ LET y == [b EXCEPT !.pc = l] IN
                y.ops = b.ops /\ y.pc = l /\ y.ok = b.ok /\ y.fail = b.fail /\ y.err = b.err
  BY DEF Run

LEMMA IdleFields ==
    /\ Idle.pc = "idle" /\ Idle.ops = {} /\ Idle.err = FALSE
    /\ \A S : LET y == [Idle EXCEPT !.pc = "map", !.ops = S] IN
              y.pc = "map" /\ y.ops = S /\ y.err = FALSE
  BY DEF Idle

LEMMA ErrStays ==
    ASSUME ClaimTypes, NEW w \in Worker,
           MapPhase(w) \/ TakeSlug(w) \/ CheckSources(w) \/ SavePage(w) \/ Conflict(w)
    PROVE  batch'[w].err = batch[w].err
<1>1. batch[w] \in Run /\ batch \in [Worker -> Run]
  BY DEF ClaimTypes
<1>2. /\ \A A, D, s, f, p : [batch[w] EXCEPT !.ok = A, !.adds = A, !.drops = D,
                                             !.said = s, !.fail = f, !.pc = p].err = batch[w].err
      /\ \A A, p, g, l : /\ [batch[w] EXCEPT !.adds = A, !.snap = p, !.locks = g, !.pc = l].err = batch[w].err
                         /\ [batch[w] EXCEPT !.adds = A, !.snap = p, !.pc = l].err = batch[w].err
      /\ \A l : [batch[w] EXCEPT !.pc = l].err = batch[w].err
  BY <1>1 DEF Run
<1>3. Reduced(w).err = batch[w].err /\ Unapplied(w).err = batch[w].err
  <2>1. Reduced(w).err = batch[w].err /\ Reduced(w) \in Run
    BY <1>1, RunTypes DEF Reduced, Run
  <2>2. \A S : [Reduced(w) EXCEPT !.fail = S].err = Reduced(w).err
    BY <2>1 DEF Run
  <2>3. \E S : Unapplied(w) = [Reduced(w) EXCEPT !.fail = S]
    BY DEF Unapplied
  <2> QED BY <2>1, <2>2, <2>3
<1>4. CASE MapPhase(w)
  <2> DEFINE I == {i \in Chosen(w) : row[i].op = "ingest"}
             R == {i \in Chosen(w) : row[i].op = "retract"}
             ok(skip, F) == {row[i].doc : i \in I \ (skip \cup F)}
             drops(blind) == {row[i].doc : i \in {j \in R : row[j].hit} \cup {j \in R \ blind : Touches(j)}}
             failed(F) == {row[i].doc : i \in F}
             said(D) == [d \in Doc |-> IF d \in D THEN doc[d].attempt ELSE 0]
             pc(D) == IF D = {} THEN "drain" ELSE "reduce"
  <2>1. PICK skip \in SUBSET I, F \in SUBSET I, blind \in SUBSET R :
          batch' = [batch EXCEPT ![w] =
                      [@ EXCEPT !.ok = ok(skip, F), !.adds = ok(skip, F), !.drops = drops(blind),
                                !.said = said(ok(skip, F)), !.fail = failed(F),
                                !.pc = pc(ok(skip, F) \cup drops(blind))]]
    BY <1>4, ZenonT(60) DEF MapPhase
  <2> HIDE DEF I, R, ok, drops, failed, said, pc
  <2> QED BY <1>1, <1>2, <2>1
<1>5. CASE TakeSlug(w)
  <2>1. CASE batch' = [batch EXCEPT ![w] = Unapplied(w)] \/ batch' = [batch EXCEPT ![w] = Reduced(w)]
    BY <1>1, <1>3, <2>1
  <2>2. ASSUME NEW got \in BOOLEAN,
               batch' = [batch EXCEPT ![w] = [@ EXCEPT !.adds = LiveAdds(w), !.snap = page,
                                                       !.locks = got, !.pc = "write"]]
        PROVE  batch'[w].err = batch[w].err
    BY <1>1, <1>2, <2>2
  <2> QED BY <1>5, <2>1, <2>2 DEF TakeSlug
<1>6. CASE CheckSources(w)
  <2>1. CASE batch' = [batch EXCEPT ![w] = Unapplied(w)]
    BY <1>1, <1>3, <2>1
  <2>2. CASE batch' = [batch EXCEPT ![w].pc = "save"]
    <3>1. batch'[w] = [batch[w] EXCEPT !.pc = "save"]
      BY <1>1, <2>2
    <3> QED BY <1>2, <3>1
  <2> QED BY <1>6, <2>1, <2>2 DEF CheckSources
<1>7. CASE SavePage(w)
  BY <1>1, <1>3, <1>7 DEF SavePage
<1>8. CASE Conflict(w)
  <2>1. CASE batch' = [batch EXCEPT ![w] = Unapplied(w)] \/ batch' = [batch EXCEPT ![w] = Reduced(w)]
    BY <1>1, <1>3, <2>1
  <2>2. CASE batch' = [batch EXCEPT ![w] = [@ EXCEPT !.adds = LiveAdds(w), !.snap = page, !.pc = "write"]]
    BY <1>1, <1>2, <2>2
  <2> QED BY <1>8, <2>1, <2>2 DEF Conflict
<1> QED BY <1>4, <1>5, <1>6, <1>7, <1>8

\* How a batch settles, or fails to.
LEMMA DrainMove ==
    ASSUME ClaimTypes, NEW w \in Worker, DrainMapped(w)
    PROVE  /\ batch[w].pc = "drain" /\ batch'[w].pc = "trim" /\ batch'[w].ops = batch[w].ops
           /\ batch'[w].fail = batch[w].fail /\ batch'[w].err = batch[w].err
           /\ Finalizes(ChosenFor(w, batch[w].ok \ batch[w].fail))
<1>1. batch[w] \in Run /\ batch \in [Worker -> Run]
  BY DEF ClaimTypes
<1>2. /\ batch[w].pc = "drain" /\ batch'[w] = [batch[w] EXCEPT !.pc = "trim"]
      /\ Finalizes(ChosenFor(w, batch[w].ok \ batch[w].fail))
  BY <1>1 DEF DrainMapped, Finalizes
<1> QED BY <1>1, <1>2, RunUpdates

Trimmed(w) == {i \in batch[w].ops : Queued(i)} \ FailedOps(w)

LEMMA TrimMove ==
    ASSUME ClaimTypes, NEW w \in Worker, TrimPendingList(w)
    PROVE  /\ batch[w].pc = "trim"
           /\ \/ /\ row' = Without(Trimmed(w)) /\ UNCHANGED faults
                 /\ \/ batch'[w] = Idle /\ FailedOps(w) = {}
                    \/ /\ batch'[w].pc = "requeue" /\ batch'[w].ops = FailedOps(w)
                       /\ batch'[w].fail = batch[w].fail /\ batch'[w].err = batch[w].err
              \/ /\ row' = row /\ Faulty("error")
                 /\ batch'[w].pc = "requeue" /\ batch'[w].ops = batch[w].ops
                 /\ batch'[w].fail = batch[w].fail /\ batch'[w].err
<1>1. batch[w] \in Run /\ batch \in [Worker -> Run]
  BY DEF ClaimTypes
<1>2. \/ /\ row' = Without(Trimmed(w)) /\ UNCHANGED faults
         /\ \/ batch'[w] = Idle /\ FailedOps(w) = {}
            \/ batch'[w] = [batch[w] EXCEPT !.ops = FailedOps(w), !.pc = "requeue"]
      \/ /\ row' = row /\ Faulty("error")
         /\ batch'[w] = [batch[w] EXCEPT !.err = TRUE, !.pc = "requeue"]
  BY <1>1 DEF TrimPendingList, Trimmed, Settling, Fails, budgets
<1>3. batch[w].pc = "trim"
  BY DEF TrimPendingList
<1>4. CASE /\ row' = row /\ Faulty("error")
           /\ batch'[w] = [batch[w] EXCEPT !.err = TRUE, !.pc = "requeue"]
  <2>1. /\ batch'[w].pc = "requeue" /\ batch'[w].ops = batch[w].ops
        /\ batch'[w].fail = batch[w].fail /\ batch'[w].err = TRUE
    BY <1>1, <1>4, RunUpdates
  <2> QED BY <1>3, <1>4, <2>1
<1>5. CASE batch'[w] = [batch[w] EXCEPT !.ops = FailedOps(w), !.pc = "requeue"]
  <2>1. /\ batch'[w].pc = "requeue" /\ batch'[w].ops = FailedOps(w)
        /\ batch'[w].fail = batch[w].fail /\ batch'[w].err = batch[w].err
    BY <1>1, <1>5, RunUpdates
  <2>2. batch'[w] # Idle
    BY <2>1, IdleFields
  <2>3. \/ row' = Without(Trimmed(w)) /\ UNCHANGED faults
        \/ row' = row /\ Faulty("error") /\ batch'[w] = [batch[w] EXCEPT !.err = TRUE, !.pc = "requeue"]
    BY <1>2
  <2>4. CASE row' = Without(Trimmed(w)) /\ UNCHANGED faults
    BY <1>3, <2>1, <2>4
  <2> QED BY <1>4, <2>3, <2>4
<1>6. CASE row' = Without(Trimmed(w)) /\ UNCHANGED faults /\ batch'[w] = Idle /\ FailedOps(w) = {}
  BY <1>3, <1>6
<1> QED BY <1>2, <1>4, <1>5, <1>6

\* What becomes of row i when the failed ops of a batch are put back.
Retried(w) == {i \in FailedOps(w) : Queued(i)} \ Over(w)
Counted(w, i) ==
    /\ row'[i].st = row[i].st
    /\ row'[i].claimed = IF i \in Retried(w) THEN FALSE ELSE row[i].claimed
Resolved(w, i) ==
    /\ row'[i].st = IF i \in Over(w) THEN "dropped" ELSE row[i].st
    /\ i \notin Over(w) => row'[i].claimed = IF i \in Retried(w) THEN FALSE ELSE row[i].claimed

LEMMA RequeueMove ==
    ASSUME ClaimTypes, NEW w \in Worker, RequeueFailedOps(w)
    PROVE  /\ batch[w].pc = "requeue" /\ Finalizes(Over(w))
           /\ \/ /\ \A i \in Op : Resolved(w, i)
                 /\ \/ batch'[w] = Idle /\ ~batch[w].err
                    \/ /\ batch'[w].pc = "end" /\ batch'[w].ops = batch[w].ops
                       /\ batch'[w].err /\ batch[w].err
              \/ /\ Faulty("error") /\ \A i \in Op : Counted(w, i)
                 /\ batch'[w].pc = "end" /\ batch'[w].ops = batch[w].ops /\ batch'[w].err
<1> DEFINE F == {j \in FailedOps(w) : Queued(j)}
           over == {j \in F : Exhausted(j)}
           counted == [j \in Op |-> IF j \in over THEN [row[j] EXCEPT !.fails = MaxFails + 1]
                                    ELSE IF j \in F THEN [row[j] EXCEPT !.fails = @ + 1, !.claimed = FALSE]
                                    ELSE row[j]]
           gone == [j \in Op |-> IF j \in over THEN [counted[j] EXCEPT !.st = "dropped", !.claimed = FALSE]
                                 ELSE counted[j]]
<1>1. batch[w] \in Run /\ batch \in [Worker -> Run] /\ batch[w].err \in BOOLEAN
  BY DEF ClaimTypes, Run
<1>2. batch[w].pc = "requeue" /\ Finalizes(over)
  BY DEF RequeueFailedOps, Finalizes
<1>3. \/ row' = gone /\ Settling(w, IF batch[w].err THEN batch[w].ops ELSE {}, "end")
      \/ /\ row' = counted /\ Faulty("error")
         /\ batch' = [batch EXCEPT ![w] = [@ EXCEPT !.err = TRUE, !.pc = "end"]]
  BY DEF RequeueFailedOps, Fails, budgets
<1>4. over = Over(w) /\ F \ over = Retried(w)
  BY DEF Over, Retried
<1> HIDE DEF F
<1>5. \A i \in Op : /\ counted[i].st = row[i].st
                    /\ counted[i].claimed = IF i \in F \ over THEN FALSE ELSE row[i].claimed
                    /\ counted[i] = [row[i] EXCEPT !.fails = MaxFails + 1] \/ i \notin over
  <2> SUFFICES ASSUME NEW i \in Op
               PROVE  /\ counted[i].st = row[i].st
                      /\ counted[i].claimed = IF i \in F \ over THEN FALSE ELSE row[i].claimed
                      /\ counted[i] = [row[i] EXCEPT !.fails = MaxFails + 1] \/ i \notin over
    OBVIOUS
  <2>1. row[i] \in Row /\ over \subseteq F
    BY DEF ClaimTypes
  <2>2. \A n : /\ [row[i] EXCEPT !.fails = n].st = row[i].st
               /\ [row[i] EXCEPT !.fails = n].claimed = row[i].claimed
               /\ [row[i] EXCEPT !.fails = n, !.claimed = FALSE].st = row[i].st
               /\ [row[i] EXCEPT !.fails = n, !.claimed = FALSE].claimed = FALSE
    BY <2>1 DEF Row
  <2> HIDE DEF over
  <2>3. CASE i \in over
    <3>1. counted[i] = [row[i] EXCEPT !.fails = MaxFails + 1]
      BY <2>3
    <3> QED BY <2>2, <2>3, <3>1
  <2>4. CASE i \in F \ over
    <3>1. counted[i] = [row[i] EXCEPT !.fails = row[i].fails + 1, !.claimed = FALSE]
      BY <2>4
    <3> QED BY <2>2, <2>4, <3>1
  <2>5. CASE i \notin F
    <3>1. counted[i] = row[i] /\ i \notin over
      BY <2>1, <2>5
    <3> QED BY <2>5, <3>1
  <2> QED BY <2>3, <2>4, <2>5
<1> HIDE DEF over, counted
<1>6. \A i \in Op : IF i \in over THEN gone[i].st = "dropped" ELSE gone[i] = counted[i]
  <2>1. ASSUME NEW i \in Op, i \in over PROVE gone[i].st = "dropped"
    <3>1. row[i] \in Row /\ counted[i] = [row[i] EXCEPT !.fails = MaxFails + 1]
      BY <1>5, <2>1 DEF ClaimTypes
    <3>2. gone[i] = [counted[i] EXCEPT !.st = "dropped", !.claimed = FALSE]
      BY <2>1
    <3> QED BY <3>1, <3>2 DEF Row
  <2> QED BY <2>1
<1> HIDE DEF gone
<1>7. CASE row' = gone /\ Settling(w, IF batch[w].err THEN batch[w].ops ELSE {}, "end")
  <2>1. \A i \in Op : Resolved(w, i)
    BY <1>4, <1>5, <1>6, <1>7 DEF Resolved
  <2>2. \/ batch'[w] = Idle /\ ~batch[w].err
        \/ batch'[w] = [batch[w] EXCEPT !.ops = batch[w].ops, !.pc = "end"] /\ batch[w].err
    BY <1>1, <1>7 DEF Settling
  <2>3. CASE batch'[w] = [batch[w] EXCEPT !.ops = batch[w].ops, !.pc = "end"] /\ batch[w].err
    <3>1. batch'[w].pc = "end" /\ batch'[w].ops = batch[w].ops /\ batch'[w].err
      BY <1>1, <2>3, RunUpdates
    <3> QED BY <1>2, <1>4, <1>7, <2>1, <2>3, <3>1
  <2> QED BY <1>2, <1>4, <1>7, <2>1, <2>2, <2>3
<1>8. CASE /\ row' = counted /\ Faulty("error")
           /\ batch' = [batch EXCEPT ![w] = [@ EXCEPT !.err = TRUE, !.pc = "end"]]
  <2>1. \A i \in Op : Counted(w, i)
    BY <1>4, <1>5, <1>8 DEF Counted
  <2>2. batch'[w] = [batch[w] EXCEPT !.err = TRUE, !.pc = "end"]
    BY <1>1, <1>8
  <2> QED BY <1>1, <1>2, <1>4, <1>8, <2>1, <2>2, RunUpdates
<1> QED BY <1>3, <1>7, <1>8

LEMMA HasRowStep ==
    ASSUME SlotInv, HasRow, [Next]_vars
    PROVE  HasRow'
<1> SUFFICES ASSUME NEW d \in Doc, Waits(d)'
             PROVE  \E i \in 1..last' : row'[i].doc = d /\ row'[i].op = "ingest"
                                        /\ row'[i].attempt = doc'[d].attempt
  BY DEF HasRow, Current
<1>0. ClaimTypes /\ doc'[d].stage = "finalizing" /\ doc'[d].life = "live" /\ doc[d] \in Document
      /\ last \in Nat
  BY DEF SlotInv, Waits, ClaimTypes
<1>1. CASE SeedFinalizing(d)
  <2>1. Insert(d, "ingest", doc[d].attempt, FALSE) /\ doc' = [doc EXCEPT ![d].stage = "finalizing"]
    BY <1>1 DEF SeedFinalizing
  <2>2. last + 1 \in Op /\ last' = last + 1
    BY <1>0, <2>1, Constants DEF Insert, ClaimTypes, Op
  <2>3. row'[last + 1] = [st |-> "queued", doc |-> d, op |-> "ingest", attempt |-> doc[d].attempt,
                          fails |-> 0, claimed |-> FALSE, hit |-> FALSE]
    BY <1>0, <2>1, <2>2 DEF Insert, ClaimTypes
  <2>4. doc'[d].attempt = doc[d].attempt
    BY <1>0, <2>1 DEF ClaimTypes, Document
  <2> QED BY <1>0, <2>2, <2>3, <2>4
<1>2. CASE ~SeedFinalizing(d)
  <2>1. Waits(d) /\ doc'[d].attempt = doc[d].attempt
    BY <1>0, <1>2, DocsMove DEF DocMoves, Same, Waits
  <2>2. PICK i \in 1..last : row[i].doc = d /\ Current(i)
    BY <2>1 DEF HasRow
  <2>3. /\ row'[i].doc = d /\ row'[i].op = "ingest" /\ row'[i].attempt = doc'[d].attempt
    BY <1>0, <2>1, <2>2, FixedRows DEF Current
  <2>4. i \in 1..last'
    BY <1>0, RowsAreWritten
  <2> QED BY <2>3, <2>4
<1> QED BY <1>1, <1>2

\* What becomes of the rows a batch holds.
LEMMA OpsMove ==
    ASSUME ClaimTypes, [Next]_vars, NEW w \in Worker
    PROVE  \/ batch'[w].ops = batch[w].ops
           \/ batch'[w].ops = {}
           \/ ClaimBatch(w) /\ batch'[w].pc = "map"
           \/ TrimPendingList(w) /\ row' = Without(Trimmed(w)) /\ batch'[w].ops = FailedOps(w)
<1>1. CASE ClaimBatch(w)
  BY <1>1, ClaimFields
<1>2. CASE MapPhase(w)
  BY <1>2, MapFields DEF Mapped
<1>3. CASE TakeSlug(w) \/ CheckSources(w) \/ SavePage(w) \/ Conflict(w)
  BY <1>3, ReduceFields
<1>4. CASE DrainMapped(w)
  BY <1>4, DrainMove
<1>5. CASE TrimPendingList(w)
  BY <1>5, TrimMove, IdleFields
<1>6. CASE RequeueFailedOps(w)
  BY <1>6, RequeueMove, IdleFields
<1>7. CASE EndBatch(w) \/ Abort(w) \/ Crash(w)
  <2>1. batch'[w] = Idle
    BY <1>7 DEF EndBatch, Abort, Crash, ClaimTypes
  <2> QED BY <2>1, IdleFields
<1>8. (\E v \in Worker : ClaimBatch(v) \/ Step(v) \/ Abort(v) \/ Crash(v)) \/ batch' = batch
  BY NoBatch
<1>9. ASSUME NEW v \in Worker, v # w, ClaimBatch(v) \/ Step(v) \/ Abort(v) \/ Crash(v)
      PROVE  batch'[w] = batch[w]
  BY <1>9, OneBatch
<1> QED BY <1>1, <1>2, <1>3, <1>4, <1>5, <1>6, <1>7, <1>8, <1>9 DEF Step

LEMMA WholeStep ==
    ASSUME ClaimTypes, HeldWhole, [Next]_vars
    PROVE  HeldWhole'
<1> SUFFICES ASSUME NEW w \in Worker, NEW i \in batch'[w].ops, NEW j \in 1..last',
                    j < i, row'[j].doc = row'[i].doc, row'[j].st = "queued"
             PROVE  j \in batch'[w].ops
  BY DEF HeldWhole, Queued
<1>0. last \in Nat /\ last' \in Nat /\ \A k \in 1..last : k \in Nat
  BY TypesStep DEF ClaimTypes
<1>1. ASSUME i \in batch[w].ops
      PROVE  j \in batch[w].ops /\ Queued(j)
  <2>1. i \in 1..last
    BY <1>1, WrittenRows
  <2>2. j \in 1..last
    BY <1>0, <2>1
  <2> QED BY <1>1, <2>1, <2>2, FixedRows DEF HeldWhole, Queued
<1>2. CASE batch'[w].ops = batch[w].ops
  BY <1>1, <1>2
<1>3. CASE ClaimBatch(w)
  <2>1. PICK K \in SUBSET Doc : batch'[w].ops = UNION {RowsOf(d) : d \in K}
    BY <1>3, ClaimFields
  <2>2. PICK d \in K : i \in RowsOf(d)
    BY <2>1
  <2>3. i \in 1..last /\ row[i].doc = d
    BY <2>2, WrittenRows DEF RowsOf
  <2>4. j \in 1..last
    BY <1>0, <2>3
  <2>5. j \in RowsOf(d)
    BY <2>3, <2>4, FixedRows, WrittenRows DEF RowsOf, Queued
  <2> QED BY <2>1, <2>5
<1>4. CASE row' = Without(Trimmed(w)) /\ batch'[w].ops = FailedOps(w)
  <2>1. FailedOps(w) \subseteq batch[w].ops
    BY DEF FailedOps, ChosenFor, Chosen
  <2>2. j \in batch[w].ops /\ Queued(j) /\ j \in Op /\ row[j] \in Row
    BY <1>1, <1>4, <2>1, WrittenRows
  <2>3. ASSUME j \in Trimmed(w) PROVE FALSE
    <3>1. row'[j] = [row[j] EXCEPT !.st = "gone", !.claimed = FALSE]
      BY <1>4, <2>2, <2>3 DEF Without
    <3> QED BY <2>2, <3>1 DEF Row
  <2> QED BY <1>4, <2>2, <2>3 DEF Trimmed
<1> QED BY <1>2, <1>3, <1>4, OpsMove

LEMMA SettledStep ==
    ASSUME ClaimTypes, BatchesSettle, [Next]_vars
    PROVE  BatchesSettle'
<1> SUFFICES ASSUME NEW w \in Worker
             PROVE  /\ batch'[w].pc = "idle" => batch'[w].ops = {}
                    /\ batch'[w].err => batch'[w].pc \in {"requeue", "end"}
                    /\ batch'[w].pc = "end" => batch'[w].err
                    /\ batch'[w].pc = "requeue" /\ ~batch'[w].err => batch'[w].ops \subseteq FailedOps(w)'
  BY DEF BatchesSettle
<1>1. CASE batch'[w] = batch[w]
  <2>1. FailedOps(w)' = FailedOps(w)
    <3>1. Chosen(w)' = Chosen(w)
      BY <1>1, ChosenStays
    <3>2. \A i \in Chosen(w) : row'[i].doc = row[i].doc
      BY FixedRows, WrittenRows
    <3> QED BY <1>1, <3>1, <3>2 DEF FailedOps, ChosenFor
  <2> QED BY <1>1, <2>1 DEF BatchesSettle
<1>2. CASE batch'[w] = Idle
  BY <1>2, IdleFields
<1>3. CASE ClaimBatch(w)
  <2>1. PICK S : batch' = [batch EXCEPT ![w] = [Idle EXCEPT !.pc = "map", !.ops = S]]
    BY <1>3 DEF ClaimBatch
  <2>2. batch'[w] = [Idle EXCEPT !.pc = "map", !.ops = S]
    BY <2>1 DEF ClaimTypes
  <2> QED BY <2>2, IdleFields
<1>4. CASE MapPhase(w)
  <2>1. batch[w].pc = "map" /\ batch'[w].pc \in {"reduce", "drain"} /\ batch'[w].err = batch[w].err
    BY <1>4, MapFields, ErrStays DEF Mapped
  <2> QED BY <2>1 DEF BatchesSettle
<1>5. CASE TakeSlug(w) \/ CheckSources(w) \/ SavePage(w) \/ Conflict(w)
  <2>1. /\ batch[w].pc \in {"reduce", "write", "save"} /\ batch'[w].pc \in {"write", "save", "drain"}
        /\ batch'[w].err = batch[w].err
    BY <1>5, ReduceFields, ErrStays
  <2> QED BY <2>1 DEF BatchesSettle
<1>6. CASE DrainMapped(w)
  <2>1. batch[w].pc = "drain" /\ batch'[w].pc = "trim" /\ batch'[w].err = batch[w].err
    BY <1>6, DrainMove
  <2> QED BY <2>1 DEF BatchesSettle
<1>7. CASE TrimPendingList(w)
  <2>1. batch[w].pc = "trim" /\ ~batch[w].err
    BY <1>7, TrimMove DEF BatchesSettle
  <2>2. CASE /\ batch'[w].pc = "requeue" /\ batch'[w].ops = FailedOps(w)
             /\ batch'[w].fail = batch[w].fail /\ batch'[w].err = batch[w].err
    <3>1. \A i \in batch[w].ops : row'[i].doc = row[i].doc
      BY FixedRows, WrittenRows
    <3>2. FailedOps(w) \subseteq FailedOps(w)'
      BY <2>2, <3>1 DEF FailedOps, ChosenFor, Chosen
    <3> QED BY <2>1, <2>2, <3>2
  <2>3. CASE batch'[w].pc = "requeue" /\ batch'[w].err
    BY <2>3
  <2> QED BY <1>2, <1>7, <2>2, <2>3, TrimMove
<1>8. CASE RequeueFailedOps(w)
  <2>1. batch'[w] = Idle \/ (batch'[w].pc = "end" /\ batch'[w].err)
    BY <1>8, RequeueMove
  <2> QED BY <1>2, <2>1
<1>9. CASE EndBatch(w) \/ Abort(w) \/ Crash(w)
  <2>1. batch'[w] = Idle
    BY <1>9 DEF EndBatch, Abort, Crash, ClaimTypes
  <2> QED BY <1>2, <2>1
<1>10. (\E v \in Worker : ClaimBatch(v) \/ Step(v) \/ Abort(v) \/ Crash(v)) \/ batch' = batch
  BY NoBatch
<1>11. ASSUME NEW v \in Worker, v # w, ClaimBatch(v) \/ Step(v) \/ Abort(v) \/ Crash(v)
       PROVE  batch'[w] = batch[w]
  BY <1>11, OneBatch
<1> QED BY <1>1, <1>3, <1>4, <1>5, <1>6, <1>7, <1>8, <1>9, <1>10, <1>11 DEF Step

-----------------------------------------------------------------------------
(* What a step pays *)

Awaited(i) == Current(i) /\ Waits(row[i].doc)

\* A document that waits has no newer row, and no other of its attempt.
LEMMA Newest ==
    ASSUME SlotInv, NEW i \in 1..last, Awaited(i), NEW j \in 1..last, row[j].doc = row[i].doc
    PROVE  /\ j <= i /\ row[j].op = "ingest"
           /\ Current(j) => j = i
<1>1. /\ row[i].op = "ingest" /\ row[i].attempt = doc[row[i].doc].attempt
      /\ row[i].attempt \in Int /\ row[j].attempt \in Int /\ row[j] \in Row
  BY WrittenRows DEF SlotInv, Awaited, Current, Row, Attempt
<1>2. row[j].op = "ingest"
  BY <1>1 DEF SlotInv, RetractIsLast, Retract, Leaving, Awaited, Waits, Row
<1>3. row[j].attempt <= row[i].attempt
  BY <1>1, <1>2 DEF SlotInv, RowsInOrder
<1>4. j > i => row[i].attempt < row[j].attempt
  BY <1>1, <1>2 DEF SlotInv, RowsInOrder
<1>5. j < i => row[j].attempt < row[i].attempt
  BY <1>1, <1>2 DEF SlotInv, RowsInOrder
<1> QED BY <1>1, <1>2, <1>3, <1>4, <1>5 DEF Current

\* A batch releases the slot of a document that waits for its current row alone.
LEMMA ReleasedFor ==
    ASSUME SlotInv, NEW i \in 1..last, Awaited(i), NEW S \in SUBSET (1..last), Finalizes(S)
    PROVE  \/ drained'[row[i].doc] = drained[row[i].doc]
           \/ i \in S /\ drained'[row[i].doc] = drained[row[i].doc] + 1
<1>1. PICK lost : Release(Releases(S) \ lost)
  BY DEF Finalizes, FinalizeWikiSubtask
<1>2. row[i].doc \in Releases(S) => i \in S
  <2>1. ASSUME NEW j \in S, row[j].doc = row[i].doc, row[j].op = "ingest",
               row[j].attempt = doc[row[i].doc].attempt
        PROVE  i \in S
    BY <2>1, Newest DEF Current
  <2> QED BY <2>1 DEF Releases
<1>3. row[i].doc \in Doc
  BY WrittenRows DEF SlotInv
<1>4. drained'[row[i].doc] = IF row[i].doc \in Releases(S) \ lost THEN drained[row[i].doc] + 1
                             ELSE drained[row[i].doc]
  BY <1>1, <1>3 DEF Release, Awaited, Waits
<1> QED BY <1>2, <1>4

\* What a step may cost without a fault, and with one.
LEMMA Paid ==
    ASSUME OtherTypes, [Next]_vars, NEW w, NEW i \in 1..last, row[i].doc \in Doc
    PROVE  /\ /\ drained'[row[i].doc] = drained[row[i].doc]
              /\ Pledges(w, i)' => Pledges(w, i)
              /\ PutsBack(w, i)' => PutsBack(w, i)
              /\ Open(i)' => Open(i)
              => Pays(w, i)
           /\ /\ drained'[row[i].doc] = drained[row[i].doc]
              /\ Pledges(w, i)' => Pledges(w, i)
              /\ ~PutsBack(w, i)' \/ (Open(i)' => Open(i))
              /\ Faulty("error") \/ Faulty("crash")
              => Pays(w, i)
           /\ /\ drained'[row[i].doc] \in {drained[row[i].doc], drained[row[i].doc] + 1}
              /\ Pledges(w, i) /\ ~Pledges(w, i)'
              /\ PutsBack(w, i)' => PutsBack(w, i)
              /\ (Open(i)' => Open(i)) \/ (PutsBack(w, i) /\ ~PutsBack(w, i)')
              => Pays(w, i)
           /\ /\ drained'[row[i].doc] \in {drained[row[i].doc], drained[row[i].doc] + 1}
              /\ Pledges(w, i) /\ ~Pledges(w, i)'
              /\ Open(i)' => Open(i)
              /\ Faulty("error")
              => Pays(w, i)
           /\ /\ drained'[row[i].doc] = drained[row[i].doc]
              /\ ~Pledges(w, i)' /\ ~PutsBack(w, i)'
              /\ Pledges(w, i) \/ PutsBack(w, i) \/ (Open(i)' => Open(i))
              => Pays(w, i)
           /\ /\ drained'[row[i].doc] = drained[row[i].doc]
              /\ ~Pledges(w, i)' /\ Pledges(w, i)
              /\ (PutsBack(w, i)' => PutsBack(w, i)) \/ Faulty("error")
              => Pays(w, i)
           /\ /\ drained'[row[i].doc] = drained[row[i].doc]
              /\ ~PutsBack(w, i)' /\ ~Open(i)' /\ Open(i)
              => Pays(w, i)
<1> DEFINE p1 == Pledges(w, i)
           p2 == Pledges(w, i)'
           b1 == PutsBack(w, i)
           b2 == PutsBack(w, i)'
           o1 == Open(i)
           o2 == Open(i)'
<1>1. drained[row[i].doc] \in Nat
  BY DEF OtherTypes
<1>2. /\ Spent \in Nat /\ Spent' \in Nat /\ Spent' >= Spent
      /\ Faulty("crash") \/ Faulty("error") => Spent' = Spent + 1
  BY SpentMoves
<1>3. Pays(w, i) <=> drained'[row[i].doc] + One(p2) + One(b2) + One(o2) + Spent
                       <= drained[row[i].doc] + One(p1) + One(b1) + One(o1) + Spent'
  BY DEF Pays
<1> HIDE DEF p1, p2, b1, b2, o1, o2
<1>4. /\ One(p1) = (IF p1 THEN 1 ELSE 0) /\ One(p2) = (IF p2 THEN 1 ELSE 0)
      /\ One(b1) = (IF b1 THEN 1 ELSE 0) /\ One(b2) = (IF b2 THEN 1 ELSE 0)
      /\ One(o1) = (IF o1 THEN 1 ELSE 0) /\ One(o2) = (IF o2 THEN 1 ELSE 0)
  BY DEF One
<1>5. PICK x1, x2, y1, y2, z1, z2 \in {0, 1} :
         /\ x1 = One(p1) /\ x2 = One(p2) /\ y1 = One(b1) /\ y2 = One(b2) /\ z1 = One(o1) /\ z2 = One(o2)
  BY <1>4
<1>6. /\ (p1 <=> x1 = 1) /\ (p2 <=> x2 = 1) /\ (b1 <=> y1 = 1) /\ (b2 <=> y2 = 1)
      /\ (o1 <=> z1 = 1) /\ (o2 <=> z2 = 1)
  BY <1>4, <1>5
<1>7. Pays(w, i) <=> drained'[row[i].doc] + x2 + y2 + z2 + Spent <= drained[row[i].doc] + x1 + y1 + z1 + Spent'
  BY <1>3, <1>5
<1>8. /\ Pledges(w, i) <=> x1 = 1 
      /\ Pledges(w, i)' <=> x2 = 1 
      /\ PutsBack(w, i) <=> y1 = 1 
      /\ PutsBack(w, i)' <=> y2 = 1
      /\ Open(i) <=> z1 = 1 
      /\ Open(i)' <=> z2 = 1
  BY <1>6 DEF p1, p2, b1, b2, o1, o2
<1> QED BY <1>1, <1>2, <1>7, <1>8

\* The row and the document of a step that leaves the document waiting.
Across(i) == Awaited(i) /\ ~SeedFinalizing(row[i].doc)

LEMMA AcrossFacts ==
    ASSUME DrainInv, [Next]_vars, NEW i \in 1..last, Across(i)
    PROVE  /\ SlotInv /\ ClaimTypes /\ OtherTypes /\ i \in Op /\ row[i] \in Row
           /\ row[i].doc \in Doc /\ row'[i].doc = row[i].doc /\ Waits(row[i].doc)
           /\ drained[row[i].doc] \in Nat
           /\ Queued(i)' => Queued(i)
           /\ \A w \in Worker : batch[w].ops \subseteq 1..last /\ Chosen(w) \subseteq batch[w].ops
  BY FixedRows, WrittenRows DEF DrainInv, SlotInv, OtherTypes, Across, Awaited

LEMMA ClaimPays ==
    ASSUME DrainInv, [Next]_vars, NEW i \in 1..last, Across(i), NEW w \in Worker, ClaimBatch(w)
    PROVE  Pays(w, i)
<1> DEFINE d == row[i].doc
<1>0. /\ SlotInv /\ ClaimTypes /\ OtherTypes /\ i \in Op /\ row[i] \in Row
      /\ d \in Doc /\ row'[i].doc = d /\ Waits(d) /\ (Queued(i)' => Queued(i))
  BY AcrossFacts
<1>a. PICK K \in SUBSET Doc :
         /\ NextKeys(K) \/ Selected(K)
         /\ batch' = [batch EXCEPT ![w] = [Idle EXCEPT !.pc = "map", !.ops = UNION {RowsOf(e) : e \in K}]]
         /\ row' = [j \in Op |-> IF j \in UNION {RowsOf(e) : e \in K} THEN [row[j] EXCEPT !.claimed = TRUE]
                                 ELSE row[j]]
  BY Zenon DEF ClaimBatch
<1>1. \A e \in K : Claimable(e)
  BY <1>a DEF NextKeys, Selected
<1>2. /\ batch'[w].pc = "map" /\ batch'[w].ops = UNION {RowsOf(e) : e \in K}
      /\ batch[w].pc = "idle" /\ batch[w].ops = {} /\ drained' = drained
  <2>1. batch'[w] = [Idle EXCEPT !.pc = "map", !.ops = UNION {RowsOf(e) : e \in K}]
    BY <1>0, <1>a DEF ClaimTypes
  <2>2. batch[w].pc = "idle" /\ drained' = drained
    BY DEF ClaimBatch
  <2> QED BY <2>1, <2>2, IdleFields DEF DrainInv, BatchesSettle
<1>3. ~PutsBack(w, i)'
  BY <1>2 DEF PutsBack
<1>4. CASE \E e \in K : i \in RowsOf(e)
  <2>1. Queued(i) /\ ~row[i].claimed
    <3>1. PICK e \in K : i \in RowsOf(e)
      BY <1>4
    <3> QED BY <1>1, <3>1 DEF Claimable, RowsOf
  <2>2. row'[i] = [row[i] EXCEPT !.claimed = TRUE] /\ i \in batch'[w].ops
    BY <1>0, <1>a, <1>2, <1>4
  <2>3. row'[i].claimed /\ row'[i].st = "queued"
    BY <1>0, <2>1, <2>2 DEF Row, Queued
  <2>4. Open(i) /\ ~Open(i)'
    BY <2>1, <2>2, <2>3 DEF Open, Queued
  <2> QED BY <1>0, <1>2, <1>3, <2>4, Paid
<1>5. CASE ~\E e \in K : i \in RowsOf(e)
  <2>1. row'[i] = row[i] /\ i \notin batch'[w].ops
    BY <1>0, <1>a, <1>2, <1>5
  <2>2. ~Pledges(w, i)'
    BY <2>1 DEF Pledges
  <2>3. \A v \in Worker : i \in batch[v].ops => i \in batch'[v].ops
    BY <1>0, <1>2, OneBatch
  <2>4. Open(i)' => Open(i)
    BY <1>0, <2>1, <2>3, OpenKept DEF Across
  <2> QED BY <1>0, <1>2, <1>3, <2>2, <2>4, Paid
<1> QED BY <1>4, <1>5

\* The rows stay what they are, and the batch keeps its own.
LEMMA SameRowsOpen ==
    ASSUME DrainInv, [Next]_vars, NEW i \in 1..last, Across(i), NEW w \in Worker,
           ClaimBatch(w) \/ Step(w) \/ Abort(w) \/ Crash(w),
           row'[i].st = row[i].st,
           Queued(i) => /\ row'[i].claimed = row[i].claimed
                        /\ i \in batch[w].ops => i \in batch'[w].ops
    PROVE  Open(i)' => Open(i)
<1>1. ClaimTypes /\ Waits(row[i].doc) /\ ~SeedFinalizing(row[i].doc)
  BY AcrossFacts DEF Across
<1>2. Queued(i) => \A v \in Worker : i \in batch[v].ops => i \in batch'[v].ops
  BY <1>1, OneBatch
<1> QED BY <1>1, <1>2, OpenKept

LEMMA MapPays ==
    ASSUME DrainInv, [Next]_vars, NEW i \in 1..last, Across(i), NEW w \in Worker, MapPhase(w)
    PROVE  Pays(w, i)
<1> DEFINE d == row[i].doc
<1>0. /\ SlotInv /\ ClaimTypes /\ OtherTypes /\ d \in Doc /\ row'[i].doc = d /\ drained[d] \in Nat
      /\ Chosen(w) \subseteq batch[w].ops /\ batch[w].ops \subseteq 1..last
  BY AcrossFacts
<1>1. PICK skip \in SUBSET Ingests(w), F \in SUBSET Ingests(w), blind \in SUBSET Retracts(w) :
         Mapped(w, skip, F, blind)
  BY <1>0, MapFields
<1>2. /\ batch[w].pc = "map" /\ batch'[w].ops = batch[w].ops /\ batch'[w].pc \in {"reduce", "drain"}
      /\ batch'[w].ok = {row[j].doc : j \in Ingests(w) \ (skip \cup F)}
      /\ batch'[w].fail = {row[j].doc : j \in F} /\ row' = row
      /\ skip \cap F = {} /\ Finalizes(skip)
  BY <1>1 DEF Mapped, MapPhase, queueVars
<1>3. skip \in SUBSET (1..last) /\ F \subseteq Chosen(w)
  BY <1>0 DEF Ingests
<1>4. drained'[d] = drained[d] \/ (i \in skip /\ drained'[d] = drained[d] + 1)
  BY <1>0, <1>2, <1>3, ReleasedFor DEF Across
<1>5. ~PutsBack(w, i)' /\ (Pledges(w, i)' => Pledges(w, i))
  BY <1>2 DEF PutsBack, Pledges
<1>6. Open(i)' => Open(i)
  BY <1>2, SameRowsOpen DEF Step
<1>7. CASE i \notin skip
  <2>1. drained'[d] = drained[d]
    BY <1>4, <1>7
  <2> QED BY <1>0, <1>5, <1>6, <2>1, Paid
<1>8. CASE i \in skip
  <2>1. drained'[d] \in {drained[d], drained[d] + 1}
    BY <1>4
  <2>2. i \in Chosen(w) /\ i \in batch[w].ops
    BY <1>0, <1>8 DEF Ingests
  <2>3. \A j \in Chosen(w) : row[j].doc = d => j = i
    BY <1>0, <2>2 DEF Chosen
  <2>4. d \notin batch'[w].ok \cup batch'[w].fail
    BY <1>2, <1>3, <1>8, <2>3 DEF Ingests
  <2>5. Pledges(w, i) /\ ~Pledges(w, i)'
    BY <1>0, <1>2, <2>2, <2>4 DEF Pledges
  <2> QED BY <1>0, <1>5, <1>6, <2>1, <2>5, Paid
<1> QED BY <1>7, <1>8

LEMMA ReducePays ==
    ASSUME DrainInv, [Next]_vars, NEW i \in 1..last, Across(i), NEW w \in Worker,
           TakeSlug(w) \/ CheckSources(w) \/ SavePage(w) \/ Conflict(w)
    PROVE  Pays(w, i)
<1> DEFINE d == row[i].doc
<1>0. /\ SlotInv /\ ClaimTypes /\ OtherTypes /\ d \in Doc /\ row'[i].doc = d /\ Waits(d)
  BY AcrossFacts
<1>1. row' = row /\ drained' = drained
  BY DEF TakeSlug, CheckSources, SavePage, Conflict, queueVars
<1>2. d \notin batch[w].drops
  BY <1>0 DEF DrainInv, KeptInv, Contributes, Leaving, Waits
<1>3. /\ batch[w].pc \in {"reduce", "write", "save"}
      /\ batch'[w].pc \in {"write", "save", "drain"}
      /\ batch'[w].ops = batch[w].ops /\ batch'[w].ok = batch[w].ok
      /\ batch'[w].fail \subseteq batch[w].fail \cup batch[w].ok \cup batch[w].drops
  BY <1>0, ReduceFields
<1>4. ~PutsBack(w, i)' /\ (Pledges(w, i)' => Pledges(w, i))
  BY <1>0, <1>2, <1>3 DEF PutsBack, Pledges
<1>5. Open(i)' => Open(i)
  BY <1>1, <1>3, SameRowsOpen DEF Step
<1> QED BY <1>0, <1>1, <1>4, <1>5, Paid

LEMMA DrainPays ==
    ASSUME DrainInv, [Next]_vars, NEW i \in 1..last, Across(i), NEW w \in Worker, DrainMapped(w)
    PROVE  Pays(w, i)
<1> DEFINE d == row[i].doc
           S == ChosenFor(w, batch[w].ok \ batch[w].fail)
<1>0. /\ SlotInv /\ ClaimTypes /\ OtherTypes /\ d \in Doc /\ row'[i].doc = d /\ Waits(d)
      /\ Chosen(w) \subseteq batch[w].ops /\ batch[w].ops \subseteq 1..last /\ drained[d] \in Nat
  BY AcrossFacts
<1>1. /\ batch[w].pc = "drain" /\ batch'[w].pc = "trim" /\ batch'[w].ops = batch[w].ops
      /\ batch'[w].fail = batch[w].fail /\ Finalizes(S) /\ row' = row
  BY <1>0, DrainMove DEF DrainMapped, queueVars
<1>2. S \in SUBSET (1..last) /\ (i \in S => d \in batch[w].ok \ batch[w].fail /\ i \in batch[w].ops)
  BY <1>0 DEF ChosenFor
<1> HIDE DEF S
<1>3. drained'[d] = drained[d] \/ (i \in S /\ drained'[d] = drained[d] + 1)
  BY <1>0, <1>1, <1>2, ReleasedFor DEF Across
<1>4. ~PutsBack(w, i)' /\ (Pledges(w, i)' => Pledges(w, i))
  BY <1>0, <1>1 DEF PutsBack, Pledges
<1>5. Open(i)' => Open(i)
  BY <1>1, SameRowsOpen DEF Step
<1>6. CASE i \notin S
  <2>1. drained'[d] = drained[d]
    BY <1>3, <1>6
  <2> QED BY <1>0, <1>4, <1>5, <2>1, Paid
<1>7. CASE i \in S
  <2>1. drained'[d] \in {drained[d], drained[d] + 1}
    BY <1>3
  <2>2. Pledges(w, i) /\ ~Pledges(w, i)'
    BY <1>0, <1>1, <1>2, <1>7 DEF Pledges
  <2> QED BY <1>0, <1>4, <1>5, <2>1, <2>2, Paid
<1> QED BY <1>6, <1>7

\* Rows deleted by a trim, or put back by the end of a batch.
LEMMA RowAfterTrim ==
    ASSUME ClaimTypes, NEW i \in Op, NEW S
    PROVE  /\ row' = Without(S) => IF i \in S THEN row'[i].st = "gone" ELSE row'[i] = row[i]
           /\ row' = Unclaimed(S) => /\ row'[i].st = row[i].st
                                     /\ i \notin S => row'[i] = row[i]
<1>1. row[i] \in Row
  BY DEF ClaimTypes
<1>2. [row[i] EXCEPT !.st = "gone", !.claimed = FALSE].st = "gone"
  BY <1>1 DEF Row
<1>3. [row[i] EXCEPT !.claimed = FALSE].st = row[i].st
  BY <1>1 DEF Row
<1> QED BY <1>2, <1>3 DEF Without, Unclaimed

\* The whole queue of a document that waits is held with its current row.
LEMMA OlderIsHeld ==
    ASSUME DrainInv, NEW i \in 1..last, Awaited(i), NEW w \in Worker, i \in batch[w].ops,
           NEW j \in RowsOf(row[i].doc), j # i
    PROVE  j \in batch[w].ops /\ j \notin Chosen(w) /\ j \notin FailedOps(w)
<1>1. SlotInv /\ j \in 1..last /\ row[j].doc = row[i].doc /\ Queued(j)
  BY WrittenRows DEF DrainInv, SlotInv, RowsOf
<1>2. j <= i
  BY <1>1, Newest
<1>3. j < i
  BY <1>1, <1>2, j # i
<1>4. j \in batch[w].ops
  BY <1>1, <1>3 DEF DrainInv, HeldWhole
<1>5. j \notin Chosen(w)
  BY <1>1, <1>3 DEF Chosen
<1> QED BY <1>4, <1>5 DEF FailedOps, ChosenFor

LEMMA TrimPays ==
    ASSUME DrainInv, [Next]_vars, NEW i \in 1..last, Across(i), NEW w \in Worker, TrimPendingList(w)
    PROVE  Pays(w, i)
<1>0. /\ SlotInv /\ ClaimTypes /\ OtherTypes /\ i \in Op /\ row[i].doc \in Doc
      /\ row'[i].doc = row[i].doc /\ Waits(row[i].doc)
      /\ \A v \in Worker : batch[v].ops \subseteq 1..last
      /\ Awaited(i) /\ ~SeedFinalizing(row[i].doc)
  BY AcrossFacts DEF Across
<1>1. drained' = drained /\ batch[w].pc = "trim" /\ ~batch[w].err
  <2>1. drained' = drained /\ batch[w].pc = "trim"
    BY DEF TrimPendingList
  <2> QED BY <2>1 DEF DrainInv, BatchesSettle
<1>2. i \in batch[w].ops => i \in Chosen(w)
  BY <1>0, CurrentIsChosen DEF Awaited
<1>3. FailedOps(w) \subseteq batch[w].ops
  BY DEF FailedOps, ChosenFor, Chosen
<1>4. CASE /\ row' = row /\ Faulty("error")
           /\ batch'[w].pc = "requeue" /\ batch'[w].ops = batch[w].ops
           /\ batch'[w].fail = batch[w].fail
  <2>1. Pledges(w, i)' => Pledges(w, i)
    BY <1>0, <1>1, <1>4 DEF Pledges
  <2>2. Open(i)' => Open(i)
    BY <1>4, SameRowsOpen DEF Step
  <2> QED BY <1>0, <1>1, <1>4, <2>1, <2>2, Paid
<1>5. CASE /\ row' = Without(Trimmed(w))
           /\ \/ batch'[w] = Idle /\ FailedOps(w) = {}
              \/ /\ batch'[w].pc = "requeue" /\ batch'[w].ops = FailedOps(w)
                 /\ batch'[w].fail = batch[w].fail /\ batch'[w].err = batch[w].err
  <2>1. ~PutsBack(w, i)'
    <3>1. ~batch'[w].err
      BY <1>1, <1>5, IdleFields
    <3> QED BY <3>1 DEF PutsBack
  <2>2. Pledges(w, i)' => Pledges(w, i)
    BY <1>0, <1>1, <1>3, <1>5, IdleFields DEF Pledges
  <2>3. CASE i \in Trimmed(w)
    <3>1. row'[i].st = "gone"
      BY <1>0, <1>5, <2>3, RowAfterTrim
    <3>2. PICK d \in Doc : row[i].doc = d /\ row'[i].doc = d
      BY <1>0
    <3>3. RowsOf(d)' \subseteq RowsOf(d)
      BY <1>0, <3>2, WaitingRows
    <3>4. ASSUME NEW j \in RowsOf(d)' PROVE FALSE
      <4>1. j \in RowsOf(d) /\ j \in Op /\ row'[j].st = "queued"
        BY <3>3, <3>4 DEF RowsOf, Queued
      <4>2. j # i
        BY <3>1, <4>1
      <4>3. j \in batch[w].ops /\ j \notin FailedOps(w)
        BY <1>0, <2>3, <3>2, <4>1, <4>2, OlderIsHeld DEF Trimmed
      <4>4. j \in Trimmed(w)
        BY <4>1, <4>3 DEF Trimmed, RowsOf
      <4>5. row'[j].st = "gone"
        BY <1>0, <1>5, <4>1, <4>4, RowAfterTrim
      <4> QED BY <4>1, <4>5
    <3>5. RowsOf(row[i].doc)' = RowsOf(d)'
      BY <3>2 DEF RowsOf, Queued
    <3>6. ~Open(i)'
      BY <3>1, <3>4, <3>5 DEF Open, Queued
    <3> QED BY <1>0, <1>1, <2>1, <2>2, <3>6, Paid
  <2>4. CASE i \notin Trimmed(w)
    <3>1. row'[i] = row[i]
      BY <1>0, <1>5, <2>4, RowAfterTrim
    <3>2. Queued(i) /\ i \in batch[w].ops => i \in batch'[w].ops
      BY <1>5, <2>4 DEF Trimmed
    <3>3. Open(i)' => Open(i)
      BY <3>1, <3>2, SameRowsOpen DEF Step
    <3> QED BY <1>0, <1>1, <2>1, <2>2, <3>3, Paid
  <2> QED BY <2>3, <2>4
<1> QED BY <1>0, <1>4, <1>5, TrimMove

LEMMA RequeuePays ==
    ASSUME DrainInv, [Next]_vars, NEW i \in 1..last, Across(i), NEW w \in Worker, RequeueFailedOps(w)
    PROVE  Pays(w, i)
<1>0. /\ SlotInv /\ ClaimTypes /\ OtherTypes /\ i \in Op /\ row[i].doc \in Doc
      /\ row'[i].doc = row[i].doc /\ Waits(row[i].doc) /\ drained[row[i].doc] \in Nat
      /\ batch[w].ops \subseteq 1..last
      /\ Awaited(i) /\ ~SeedFinalizing(row[i].doc)
  BY AcrossFacts DEF Across
<1>1. batch[w].pc = "requeue" /\ Finalizes(Over(w))
  BY <1>0, RequeueMove
<1>2. /\ Over(w) \subseteq FailedOps(w) /\ FailedOps(w) \subseteq batch[w].ops
      /\ i \in FailedOps(w) => Pledges(w, i)
      /\ i \in FailedOps(w) => row[i].doc \in batch[w].fail
  BY <1>0, <1>1 DEF Over, FailedOps, ChosenFor, Chosen, Pledges
<1>3. \/ drained'[row[i].doc] = drained[row[i].doc]
      \/ i \in Over(w) /\ drained'[row[i].doc] = drained[row[i].doc] + 1
  <2>1. Over(w) \in SUBSET (1..last)
    BY <1>0, <1>2
  <2> QED BY <1>0, <1>1, <2>1, ReleasedFor
<1>4. ~Pledges(w, i)'
  <2>1. batch'[w].pc \in {"idle", "end"}
    BY <1>0, RequeueMove, IdleFields
  <2> QED BY <2>1 DEF Pledges
\* It settles.
<1>5. CASE /\ \A j \in Op : Resolved(w, j)
           /\ \/ batch'[w] = Idle /\ ~batch[w].err
              \/ /\ batch'[w].pc = "end" /\ batch'[w].ops = batch[w].ops
                 /\ batch'[w].err /\ batch[w].err
  <2>0. Resolved(w, i)
    BY <1>0, <1>5
  <2>1. PutsBack(w, i)' => PutsBack(w, i)
    <3>1. row'[i].st = "queued" => row[i].st = "queued"
      BY <2>0 DEF Resolved
    <3> QED BY <1>1, <1>5, <3>1, IdleFields DEF PutsBack, Queued
  <2>2. CASE i \in Over(w)
    <3>1. drained'[row[i].doc] \in {drained[row[i].doc], drained[row[i].doc] + 1}
      BY <1>3
    <3>2. row'[i].st = "dropped" /\ Queued(i)
      BY <2>0, <2>2 DEF Resolved, Over
    <3>3. ~PutsBack(w, i)'
      BY <3>2 DEF PutsBack, Queued
    <3>4. CASE batch[w].err
      <4>1. PutsBack(w, i)
        BY <1>1, <1>2, <2>2, <3>2, <3>4 DEF PutsBack
      <4> QED BY <1>0, <1>2, <1>4, <2>2, <3>1, <3>3, <4>1, Paid
    <3>5. CASE ~batch[w].err
      <4>1. PICK d \in Doc : row[i].doc = d /\ row'[i].doc = d
        BY <1>0
      <4>2. RowsOf(d)' \subseteq RowsOf(d)
        BY <1>0, <4>1, WaitingRows
      <4>3. batch[w].ops \subseteq FailedOps(w)
        BY <1>1, <3>5 DEF DrainInv, BatchesSettle
      <4>4. ASSUME NEW j \in RowsOf(d)' PROVE FALSE
        <5>1. j \in RowsOf(d) /\ row'[j].st = "queued"
          BY <4>2, <4>4 DEF RowsOf, Queued
        <5>2. j # i
          BY <3>2, <5>1
        <5>3. j \in batch[w].ops /\ j \notin FailedOps(w)
          BY <1>0, <1>2, <2>2, <4>1, <5>1, <5>2, OlderIsHeld
        <5> QED BY <4>3, <5>3
      <4>5. RowsOf(row[i].doc)' = RowsOf(d)'
        BY <4>1 DEF RowsOf, Queued
      <4>6. ~Open(i)'
        BY <3>2, <4>4, <4>5 DEF Open, Queued
      <4> QED BY <1>0, <1>2, <1>4, <2>1, <2>2, <3>1, <4>6, Paid
    <3> QED BY <3>4, <3>5
  <2>3. CASE i \notin Over(w)
    <3>1. drained'[row[i].doc] = drained[row[i].doc]
      BY <1>3, <2>3
    <3>2. CASE i \in FailedOps(w)
      BY <1>0, <1>2, <1>4, <2>1, <3>1, <3>2, Paid
    <3>3. CASE i \notin FailedOps(w)
      <4>1. row'[i].st = row[i].st /\ row'[i].claimed = row[i].claimed
        BY <2>0, <2>3, <3>3 DEF Resolved, Retried
      <4>2. i \in batch[w].ops => i \in batch'[w].ops
        BY <1>1, <1>5, <3>3 DEF DrainInv, BatchesSettle
      <4>3. Open(i)' => Open(i)
        BY <4>1, <4>2, SameRowsOpen DEF Step
      <4> QED BY <1>0, <1>4, <2>1, <3>1, <4>3, Paid
    <3> QED BY <3>2, <3>3
  <2> QED BY <2>2, <2>3
\* The archived rows cannot be deleted.
<1>6. CASE /\ Faulty("error") /\ \A j \in Op : Counted(w, j)
           /\ batch'[w].pc = "end" /\ batch'[w].ops = batch[w].ops /\ batch'[w].err
  <2>0. row'[i].st = row[i].st /\ (i \notin Retried(w) => row'[i].claimed = row[i].claimed)
    BY <1>0, <1>6 DEF Counted
  <2>1. CASE i \in Retried(w)
    <3>1. i \notin Over(w) /\ i \in FailedOps(w)
      BY <2>1 DEF Retried
    <3>2. drained'[row[i].doc] = drained[row[i].doc]
      BY <1>3, <3>1
    <3> QED BY <1>0, <1>2, <1>4, <1>6, <3>1, <3>2, Paid
  <2>2. CASE i \notin Retried(w)
    <3>1. Open(i)' => Open(i)
      BY <1>6, <2>0, <2>2, SameRowsOpen DEF Step
    <3>2. CASE i \in Over(w)
      <4>1. drained'[row[i].doc] \in {drained[row[i].doc], drained[row[i].doc] + 1}
        BY <1>3
      <4> QED BY <1>0, <1>2, <1>4, <1>6, <3>1, <3>2, <4>1, Paid
    <3>3. CASE i \notin Over(w)
      <4>1. drained'[row[i].doc] = drained[row[i].doc]
        BY <1>3, <3>3
      <4> QED BY <1>0, <1>4, <1>6, <3>1, <4>1, Paid
    <3> QED BY <3>2, <3>3
  <2> QED BY <2>1, <2>2
<1> QED BY <1>0, <1>5, <1>6, RequeueMove

LEMMA EndPays ==
    ASSUME DrainInv, [Next]_vars, NEW i \in 1..last, Across(i), NEW w \in Worker,
           EndBatch(w) \/ Abort(w) \/ Crash(w)
    PROVE  Pays(w, i)
<1>0. /\ ClaimTypes /\ OtherTypes /\ i \in Op /\ row[i].doc \in Doc
      /\ row'[i].doc = row[i].doc
  BY AcrossFacts
<1>1. batch'[w] = Idle /\ drained' = drained
  BY <1>0 DEF EndBatch, Abort, Crash, ClaimTypes
<1>2. ~Pledges(w, i)' /\ ~PutsBack(w, i)'
  BY <1>1, IdleFields DEF Pledges, PutsBack
<1>3. CASE EndBatch(w)
  <2>1. batch[w].pc = "end" /\ row' = Unclaimed(batch[w].ops) /\ batch[w].err
    BY <1>3 DEF EndBatch, DrainInv, BatchesSettle
  <2>2. CASE i \in batch[w].ops /\ Queued(i)
    <3>1. PutsBack(w, i)
      BY <2>1, <2>2 DEF PutsBack
    <3> QED BY <1>0, <1>1, <1>2, <3>1, Paid
  <2>3. CASE ~(i \in batch[w].ops /\ Queued(i))
    <3>1. /\ row'[i].st = row[i].st
          /\ Queued(i) => row'[i].claimed = row[i].claimed /\ i \notin batch[w].ops
      BY <1>0, <2>1, <2>3, RowAfterTrim
    <3>2. Open(i)' => Open(i)
      BY <1>3, <3>1, SameRowsOpen DEF Step
    <3> QED BY <1>0, <1>1, <1>2, <3>2, Paid
  <2> QED BY <2>2, <2>3
<1>4. CASE Abort(w) \/ Crash(w)
  <2>1. Faulty("error") \/ Faulty("crash")
    BY <1>4 DEF Abort, Crash, Fails
  <2> QED BY <1>0, <1>1, <1>2, <2>1, Paid
<1> QED BY <1>3, <1>4

LEMMA WorkerPays ==
    ASSUME DrainInv, [Next]_vars, NEW i \in 1..last, Across(i), NEW w \in Worker,
           ClaimBatch(w) \/ Step(w) \/ Abort(w) \/ Crash(w)
    PROVE  Pays(w, i)
<1>1. CASE ClaimBatch(w) \/ MapPhase(w)
  BY <1>1, ClaimPays, MapPays
<1>2. CASE TakeSlug(w) \/ CheckSources(w) \/ SavePage(w) \/ Conflict(w)
  BY <1>2, ReducePays
<1>3. CASE DrainMapped(w) \/ TrimPendingList(w)
  BY <1>3, DrainPays, TrimPays
<1>4. CASE RequeueFailedOps(w)
  BY <1>4, RequeuePays
<1>5. CASE EndBatch(w) \/ Abort(w) \/ Crash(w)
  BY <1>5, EndPays
<1> QED BY <1>1, <1>2, <1>3, <1>4, <1>5 DEF Step

\* A step of no batch releases a slot only by taking the document's rows.
LEMMA OthersPay ==
    ASSUME DrainInv, [Next]_vars, NEW i \in 1..last, Across(i), Waits(row[i].doc)',
           ~\E w \in Worker : ClaimBatch(w) \/ Step(w) \/ Abort(w) \/ Crash(w)
    PROVE  drained'[row[i].doc] + One(Open(i)') <= drained[row[i].doc] + One(Open(i))
<1>0. PICK d \in Doc : row[i].doc = d /\ row'[i].doc = d
  BY AcrossFacts
<1>1. /\ SlotInv /\ ClaimTypes /\ OtherTypes /\ i \in Op /\ row[i] \in Row
      /\ Waits(d) /\ drained[d] \in Nat /\ row[i].op = "ingest"
      /\ Awaited(i) /\ ~SeedFinalizing(d)
      /\ doc'[d].stage = "finalizing" /\ doc'[d].life = "live"
  BY <1>0, AcrossFacts DEF Across, Awaited, Current, Waits
<1>2. batch' = batch
  BY NoBatch
<1>3. ASSUME drained'[d] = drained[d], row'[i].st = row[i].st,
             row'[i].claimed = row[i].claimed \/ Open(i)
      PROVE  drained'[row[i].doc] + One(Open(i)') <= drained[row[i].doc] + One(Open(i))
  <2>1. Open(i)' => Open(i)
    BY <1>0, <1>1, <1>2, <1>3, OpenKept
  <2> QED BY <1>0, <1>1, <1>3, <2>1 DEF One
<1>4. ASSUME NEW e \in Doc, SeedFinalizing(e) \/ Reparse(e) \/ Cancel(e) \/ Tombstone(e) \/ Cleanup(e)
      PROVE  drained'[d] = drained[d] /\ row'[i] = row[i]
  <2>1. ~(Reparse(d) \/ Cancel(d) \/ ScrubDeleted(d))
    <3>1. doc[d] \in Document
      BY <1>1 DEF ClaimTypes
    <3>2. ASSUME Reparse(d) PROVE FALSE
      <4>1. doc'[d] = [doc[d] EXCEPT !.stage = "parsing", !.attempt = doc[d].attempt + 1]
        BY <1>1, <3>2 DEF Reparse, ClaimTypes
      <4> QED BY <1>1, <3>1, <4>1 DEF Document
    <3>3. ASSUME Cancel(d) PROVE FALSE
      <4>1. doc'[d] = [doc[d] EXCEPT !.stage = "cancelled"]
        BY <1>1, <3>3 DEF Cancel, ClaimTypes
      <4> QED BY <1>1, <3>1, <4>1 DEF Document
    <3>4. ~ScrubDeleted(d)
      BY <1>1 DEF ScrubDeleted, Waits
    <3> QED BY <3>2, <3>3, <3>4
  <2>2. CASE SeedFinalizing(e)
    <3>1. Insert(e, "ingest", doc[e].attempt, FALSE) /\ drained' = [drained EXCEPT ![e] = 0] /\ e # d
      BY <1>1, <2>2 DEF SeedFinalizing
    <3>2. i # last + 1
      BY <1>1 DEF ClaimTypes
    <3> QED BY <1>1, <3>1, <3>2 DEF Insert, ClaimTypes, OtherTypes
  <2>3. CASE Reparse(e) \/ Cancel(e) \/ ScrubDeleted(e)
    <3>1. e # d /\ Scrub(e) /\ (drained' = drained \/ drained' = [drained EXCEPT ![e] = 0])
      BY <2>1, <2>3 DEF Reparse, Cancel, ScrubDeleted
    <3>2. i \notin Scrubbed(e)
      BY <1>0, <3>1 DEF Scrubbed, RowsOf
    <3>3. row'[i] = row[i]
      BY <1>1, <3>1, <3>2, RowAfterTrim DEF Scrub
    <3> QED BY <1>1, <3>1, <3>3 DEF OtherTypes
  <2>4. CASE QueueRetract(e)
    <3>1. Insert(e, "retract", 0, e \in page.refs) /\ drained' = drained
      BY <2>4 DEF QueueRetract
    <3>2. i # last + 1
      BY <1>1 DEF ClaimTypes
    <3> QED BY <1>1, <3>1, <3>2 DEF Insert, ClaimTypes
  <2>5. CASE Tombstone(e) \/ Unlink(e)
    BY <2>5 DEF Tombstone, Unlink, queueVars
  <2> QED BY <1>4, <2>2, <2>3, <2>4, <2>5 DEF Cleanup
<1>5. ASSUME NEW j \in Op, ClaimGoesStale(j)
      PROVE  drained' = drained /\ row'[i].st = row[i].st /\ (row'[i].claimed = row[i].claimed \/ Open(i))
  <2>1. drained' = drained /\ row' = Unclaimed({j})
    BY <1>5 DEF ClaimGoesStale
  <2>2. CASE i = j
    BY <1>1, <1>5, <2>1, <2>2, RowAfterTrim DEF ClaimGoesStale, Open
  <2>3. CASE i # j
    BY <1>1, <2>1, <2>3, RowAfterTrim
  <2> QED BY <2>2, <2>3, <2>1
<1>6. CASE DrainUnclaimedAndRelease
  <2> DEFINE S == {j \in Op : Queued(j) /\ row[j].op = "ingest" /\ Claimable(row[j].doc)}
             D == {row[j].doc : j \in S}
  <2>1. row' = Without(S) /\ Release(D)
    BY <1>6 DEF DrainUnclaimedAndRelease
  <2>2. drained'[d] = IF d \in D THEN drained[d] + 1 ELSE drained[d]
    <3> HIDE DEF D
    <3> QED BY <1>1, <2>1 DEF Release, Waits
  <2>3. CASE d \in D
    <3>1. Claimable(d)
      BY <2>3
    <3>2. Open(i)
      <4>1. CASE Queued(i)
        <5>1. i \in RowsOf(d)
          BY <1>0, <1>1, <4>1 DEF RowsOf
        <5> QED BY <3>1, <4>1, <5>1 DEF Claimable, Open
      <4>2. CASE ~Queued(i)
        BY <1>0, <3>1, <4>2 DEF Claimable, Open
      <4> QED BY <4>1, <4>2
    <3>3. RowsOf(d)' \subseteq RowsOf(d)
      BY <1>1, WaitingRows
    <3>4. ASSUME NEW j \in RowsOf(d)' PROVE FALSE
      <4>1. j \in RowsOf(d) /\ j \in 1..last /\ row[j].doc = row[i].doc /\ j \in Op /\ row'[j].st = "queued"
        BY <1>0, <1>1, <3>3, <3>4, WrittenRows DEF RowsOf, Queued
      <4>2. row[j].op = "ingest"
        BY <1>1, <4>1, Newest
      <4>3. j \in S
        BY <1>0, <3>1, <4>1, <4>2 DEF RowsOf
      <4> HIDE DEF S
      <4>4. row'[j].st = "gone"
        BY <1>1, <2>1, <4>1, <4>3, RowAfterTrim
      <4> QED BY <4>1, <4>4
    <3>5. ~Open(i)'
      <4>1. ~Queued(i)'
        <5>1. Queued(i)' => i \in RowsOf(d)'
          BY <1>0, <1>1 DEF RowsOf, Queued
        <5> QED BY <3>4, <5>1
      <4>2. RowsOf(row[i].doc)' = RowsOf(d)'
        BY <1>0 DEF RowsOf, Queued
      <4> QED BY <3>4, <4>1, <4>2 DEF Open
    <3>6. One(Open(i)) = 1 /\ One(Open(i)') = 0
      BY <3>2, <3>5 DEF One
    <3> QED BY <1>0, <1>1, <2>2, <2>3, <3>6
  <2>4. CASE d \notin D
    <3>1. i \notin S
      BY <1>0, <2>4
    <3>2. drained'[d] = drained[d]
      BY <2>2, <2>4
    <3> HIDE DEF S, D
    <3>3. row'[i] = row[i]
      BY <1>1, <2>1, <3>1, RowAfterTrim
    <3> QED BY <1>3, <3>2, <3>3
  <2> QED BY <2>3, <2>4
<1>7. CASE DiscardUnclaimed
  <2> DEFINE S == {j \in Op : Queued(j) /\ row[j].op = "retract" /\ Claimable(row[j].doc)}
  <2>1. /\ row' = [j \in Op |-> IF j \in S THEN [row[j] EXCEPT !.st = "dropped"] ELSE row[j]]
        /\ drained' = drained
    BY <1>7 DEF DiscardUnclaimed
  <2>2. i \notin S
    BY <1>1
  <2> HIDE DEF S
  <2>3. row'[i] = row[i]
    BY <1>1, <2>1, <2>2
  <2> QED BY <1>3, <2>1, <2>3
<1>8. CASE LockExpires \/ UNCHANGED vars
  <2>1. drained' = drained /\ row' = row
    BY <1>8 DEF LockExpires, vars, queueVars
  <2> QED BY <1>3, <2>1
<1>9. CASE \E e \in Doc : SeedFinalizing(e) \/ Reparse(e) \/ Cancel(e) \/ Tombstone(e) \/ Cleanup(e)
  BY <1>3, <1>4, <1>9
<1>10. CASE \E j \in Op : ClaimGoesStale(j)
  BY <1>3, <1>5, <1>10
<1> QED BY <1>6, <1>7, <1>8, <1>9, <1>10 DEF Next

LEMMA StillCovered ==
    ASSUME DrainInv, [Next]_vars, NEW i \in 1..last, Current(i)', Waits(row[i].doc)'
    PROVE  Covered(i)'
<1>0. /\ SlotInv /\ ClaimTypes /\ OtherTypes /\ OtherTypes'
      /\ Across(i) /\ row'[i].doc = row[i].doc /\ row[i].doc \in Doc
      /\ (Queued(i)' => Queued(i)) /\ Covered(i)
  <2>1. SlotInv /\ ClaimTypes /\ OtherTypes /\ OtherTypes'
    BY OthersStep DEF DrainInv, SlotInv
  <2>2. Across(i) /\ row[i].doc \in Doc /\ row'[i].doc = row[i].doc
    BY <2>1, CurrentBack DEF Across, Awaited
  <2>3. Queued(i)' => Queued(i)
    BY <2>1, FixedRows
  <2> QED BY <2>1, <2>2, <2>3 DEF DrainInv, AllCovered, Across, Awaited
\* A batch that does not move neither pledges nor puts back what it did not before.
<1>1. ASSUME NEW v \in Worker, batch'[v] = batch[v]
      PROVE  (Pledges(v, i)' => Pledges(v, i)) /\ (PutsBack(v, i)' => PutsBack(v, i))
  BY <1>0, <1>1 DEF Pledges, PutsBack
<1>2. ASSUME NEW w \in Worker, ClaimBatch(w) \/ Step(w) \/ Abort(w) \/ Crash(w)
      PROVE  Covered(i)'
  <2>1. Pays(w, i)
    BY <1>0, <1>2, WorkerPays
  <2>2. \A v \in Worker \ {w} : /\ Pledges(v, i)' => Pledges(v, i)
                                /\ PutsBack(v, i)' => PutsBack(v, i)
    BY <1>0, <1>1, <1>2, OneBatch
  <2> QED BY <1>0, <2>1, <2>2, CoveredStep
<1>3. CASE ~\E w \in Worker : ClaimBatch(w) \/ Step(w) \/ Abort(w) \/ Crash(w)
  <2>1. drained'[row[i].doc] + One(Open(i)') <= drained[row[i].doc] + One(Open(i))
    BY <1>0, <1>3, OthersPay
  <2>2. \A v \in Worker : /\ Pledges(v, i)' => Pledges(v, i)
                          /\ PutsBack(v, i)' => PutsBack(v, i)
    BY <1>1, <1>3, NoBatch
  <2>3. Pledged(i)' \in SUBSET Pledged(i) /\ PutBack(i)' \in SUBSET PutBack(i)
    BY <2>2 DEF Pledged, PutBack
  <2>4. /\ IsFiniteSet(Pledged(i)) /\ IsFiniteSet(PutBack(i))
        /\ drained[row[i].doc] + Cardinality(Pledged(i)) + Cardinality(PutBack(i)) + One(Open(i)) <= 1 + Spent
    BY <1>0 DEF Covered
  <2>5. /\ IsFiniteSet(Pledged(i)') /\ Cardinality(Pledged(i)') <= Cardinality(Pledged(i))
        /\ IsFiniteSet(PutBack(i)') /\ Cardinality(PutBack(i)') <= Cardinality(PutBack(i))
    BY <2>3, <2>4, FS_Subset
  <2>6. /\ Cardinality(Pledged(i)') \in Nat /\ Cardinality(Pledged(i)) \in Nat
        /\ Cardinality(PutBack(i)') \in Nat /\ Cardinality(PutBack(i)) \in Nat
    BY <2>4, <2>5, FS_CardinalityType
  <2>7. /\ Spent \in Nat /\ Spent' \in Nat /\ Spent' >= Spent
        /\ drained[row[i].doc] \in Nat /\ drained'[row[i].doc] \in Nat
    BY <1>0, SpentMoves DEF OtherTypes
  <2>8. One(Open(i)) \in {0, 1} /\ One(Open(i)') \in {0, 1}
    BY DEF One
  <2>9. drained'[row[i].doc] + Cardinality(Pledged(i)') + Cardinality(PutBack(i)') + One(Open(i)')
          <= 1 + Spent'
    BY <2>1, <2>4, <2>5, <2>6, <2>7, <2>8
  <2> QED BY <1>0, <2>5, <2>9 DEF Covered
<1> QED BY <1>2, <1>3

\* The row a hand-over writes is in no batch, and nothing was released for it.
LEMMA FirstCovered ==
    ASSUME DrainInv, [Next]_vars, last' = last + 1, NEW i \in Op, i = last', Written(i), Current(i)'
    PROVE  Covered(i)'
<1>0. SlotInv /\ ClaimTypes /\ OtherTypes /\ last \in Nat
  BY DEF DrainInv, SlotInv, ClaimTypes
<1>1. PICK d \in Doc : row'[i].doc = d /\ SeedFinalizing(d)
  BY DEF Written, Current
<1>2. batch' = batch /\ drained' = [drained EXCEPT ![d] = 0]
  BY <1>1 DEF SeedFinalizing
<1>3. drained'[d] = 0
  BY <1>0, <1>2 DEF OtherTypes
<1>4. \A w \in Worker : i \notin batch'[w].ops
  BY <1>0, <1>2, WrittenRows
<1>5. Pledged(i)' = {} /\ PutBack(i)' = {}
  BY <1>4 DEF Pledged, PutBack, Pledges, PutsBack
<1>6. /\ IsFiniteSet(Pledged(i)') /\ Cardinality(Pledged(i)') = 0
      /\ IsFiniteSet(PutBack(i)') /\ Cardinality(PutBack(i)') = 0
  BY <1>5, FS_EmptySet
<1>7. One(Open(i)') \in {0, 1} /\ Spent' \in Nat
  BY <1>0, SpentMoves DEF One
<1>8. drained'[row'[i].doc] = 0
  BY <1>1, <1>3
<1> QED BY <1>6, <1>7, <1>8 DEF Covered

LEMMA CoverStep ==
    ASSUME DrainInv, [Next]_vars
    PROVE  AllCovered'
<1> SUFFICES ASSUME NEW i \in 1..last', Current(i)', Waits(row[i].doc)'
             PROVE  Covered(i)'
  BY DEF AllCovered
<1>0. ClaimTypes /\ last \in Nat
  BY DEF DrainInv, SlotInv, ClaimTypes
<1>1. CASE i \in 1..last
  BY <1>1, StillCovered
<1>2. CASE i \notin 1..last
  <2>1. last' = last + 1 /\ last' \in Op /\ Written(last') /\ i = last'
    BY <1>0, <1>2, RowsAreWritten
  <2> QED BY <2>1, FirstCovered
<1> QED BY <1>1, <1>2

\* The count changes for a document that waits, or is set to zero.
LEMMA DrainedMoves ==
    ASSUME OtherTypes, [Next]_vars, NEW d \in Doc
    PROVE  drained'[d] \in {drained[d], 0} \/ (Waits(d) /\ doc' = doc)
<1>0. drained \in [Doc -> Nat]
  BY DEF OtherTypes
<1>1. ASSUME NEW e \in Doc, SeedFinalizing(e) \/ Reparse(e) \/ Cancel(e) \/ Tombstone(e) \/ Cleanup(e)
      PROVE  drained'[d] \in {drained[d], 0}
  <2>1. drained' = drained \/ drained' = [drained EXCEPT ![e] = 0]
    BY <1>1 DEF SeedFinalizing, Reparse, Cancel, Tombstone, Cleanup, ScrubDeleted, QueueRetract, Unlink
  <2> QED BY <1>0, <2>1
<1>2. ASSUME NEW D, Release(D), doc' = doc
      PROVE  drained'[d] = drained[d] \/ (Waits(d) /\ doc' = doc)
  BY <1>2 DEF Release, Waits
<1>3. ASSUME NEW w \in Worker, MapPhase(w) \/ DrainMapped(w) \/ RequeueFailedOps(w)
      PROVE  doc' = doc /\ \E D : Release(D)
  BY <1>3, BatchReleases DEF MapPhase, DrainMapped, RequeueFailedOps
<1>4. ASSUME NEW w \in Worker,
             ClaimBatch(w) \/ TakeSlug(w) \/ CheckSources(w) \/ SavePage(w) \/ Conflict(w)
             \/ TrimPendingList(w) \/ EndBatch(w) \/ Abort(w) \/ Crash(w)
      PROVE  drained' = drained
  BY <1>4 DEF ClaimBatch, TakeSlug, CheckSources, SavePage, Conflict, TrimPendingList, EndBatch, Abort, Crash
<1>5. CASE (\E j \in Op : ClaimGoesStale(j)) \/ LockExpires \/ DiscardUnclaimed \/ UNCHANGED vars
  BY <1>5 DEF ClaimGoesStale, LockExpires, DiscardUnclaimed, vars
<1>6. CASE DrainUnclaimedAndRelease
  <2>1. doc' = doc /\ \E D : Release(D)
    BY <1>6 DEF DrainUnclaimedAndRelease
  <2> QED BY <1>2, <2>1
<1> QED BY <1>1, <1>2, <1>3, <1>4, <1>5, <1>6 DEF Next, Step

LEMMA DrainedStep ==
    ASSUME DrainInv, [Next]_vars, HasRow', AllCovered', OtherTypes'
    PROVE  DrainedOnce'
<1>a. OtherTypes /\ faults["crash"] \in Nat /\ faults["error"] \in Nat
  BY Constants DEF DrainInv, SlotInv, OtherTypes, Fault
<1>b. faults'["crash"] \in Nat /\ faults'["error"] \in Nat
  BY Constants DEF OtherTypes, Fault
<1> SUFFICES ASSUME NEW d \in Doc PROVE drained'[d] <= 1 + Spent'
  <2>1. drained' \in [Doc -> Nat]
    BY DEF OtherTypes
  <2> QED BY <1>b, <2>1 DEF DrainedOnce, Spent
<1>0. OtherTypes /\ drained[d] \in Nat /\ drained'[d] \in Nat
  BY DEF DrainInv, SlotInv, OtherTypes
<1>1. Spent \in Nat /\ Spent' \in Nat /\ Spent' >= Spent
  BY <1>0, SpentMoves
<1>2. drained[d] <= 1 + Spent
  BY <1>0, <1>a DEF DrainInv, DrainedOnce, Spent
<1>3. CASE drained'[d] \in {drained[d], 0}
  BY <1>0, <1>1, <1>2, <1>3
<1>4. CASE Waits(d) /\ doc' = doc
  <2>1. Waits(d)'
    BY <1>4 DEF Waits
  <2>2. PICK i \in 1..last' : row'[i].doc = d /\ Current(i)'
    BY <2>1 DEF HasRow
  <2>3. Waits(row[i].doc)'
    BY <2>1, <2>2 DEF Waits
  <2>4. Covered(i)'
    BY <2>2, <2>3 DEF AllCovered
  <2>5. /\ IsFiniteSet(Pledged(i)') /\ IsFiniteSet(PutBack(i)')
        /\ drained'[d] + Cardinality(Pledged(i)') + Cardinality(PutBack(i)') + One(Open(i)') <= 1 + Spent'
    BY <2>2, <2>4 DEF Covered
  <2>6. Cardinality(Pledged(i)') \in Nat /\ Cardinality(PutBack(i)') \in Nat /\ One(Open(i)') \in {0, 1}
    BY <2>5, FS_CardinalityType DEF One
  <2> QED BY <1>0, <1>1, <2>5, <2>6
<1> QED BY <1>0, <1>3, <1>4, DrainedMoves

LEMMA DrainInit ==
    ASSUME Init PROVE DrainInv
<1>1. SlotInv /\ KeptInv
  BY SlotInit, KeptInit
<1>2. 1..last = {} /\ \A w \in Worker : batch[w] = Idle
  BY DEF Init
<1>3. \A d \in Doc : doc[d].stage = "parsing" /\ drained[d] = 0
  BY DEF Init, Nobody
<1>4. faults["crash"] = 0 /\ faults["error"] = 0
  BY DEF Init, Fault
<1>5. HasRow /\ AllCovered
  BY <1>2, <1>3 DEF HasRow, AllCovered, Waits
<1>6. BatchesSettle /\ HeldWhole
  BY <1>2, IdleFields DEF BatchesSettle, HeldWhole
<1>7. DrainedOnce
  BY <1>3, <1>4 DEF DrainedOnce
<1> QED BY <1>1, <1>5, <1>6, <1>7 DEF DrainInv

LEMMA DrainInvStep ==
    ASSUME DrainInv, [Next]_vars
    PROVE  DrainInv'
<1>1. SlotInv' /\ KeptInv'
  BY SlotInvStep, KeptInvStep DEF DrainInv
<1>2. HasRow' /\ BatchesSettle' /\ HeldWhole'
  BY HasRowStep, SettledStep, WholeStep DEF DrainInv, SlotInv
<1>3. AllCovered'
  BY CoverStep
<1>4. DrainedOnce'
  BY <1>1, <1>2, <1>3, DrainedStep DEF SlotInv
<1> QED BY <1>1, <1>2, <1>3, <1>4 DEF DrainInv

\* However batches overlap, fail, retry, die and are withdrawn, the wiki gives up a
\* document's slot once for an attempt, and once more at most for every fault.
THEOREM SlotsDrainOnce == Spec => []DrainedOnce
<1>1. DrainInv => DrainedOnce
  BY DEF DrainInv
<1> QED BY <1>1, DrainInit, DrainInvStep, PTL DEF Spec
=============================================================================
