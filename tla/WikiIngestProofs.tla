-------------------------- MODULE WikiIngestProofs --------------------------
(* Theorems about WikiIngest, for any number of documents and workers, with  *)
(* any number of operations, faults and retries.                             *)
EXTENDS WikiIngest, FiniteSetTheorems, TLAPS

\* The type of the state that decides who works for which document.
ClaimTypes ==
    /\ row \in [Op -> Row] /\ last \in 0..MaxOps
    /\ doc \in [Doc -> Document]
    /\ batch \in [Worker -> Run]
    /\ page \in Page
    /\ torn \subseteq Doc
    /\ users \in 0..MaxUser
    /\ \A d \in Doc : doc[d].attempt <= users + 1
    /\ \A i \in Op : IF i <= last THEN row[i].doc \in Doc ELSE row[i].st = "free"
    /\ \A w \in Worker : \A i \in batch[w].ops : i <= last

\* What a batch holds is in the queue and claimed, but for torn documents.
HeldIsClaimed ==
    \A w \in Worker, i \in Op :
        Holds(w, i) /\ row[i].doc \notin torn => Queued(i) /\ row[i].claimed

ClaimInv == ClaimTypes /\ HeldIsClaimed /\ DocAlone

-----------------------------------------------------------------------------
(* Types *)

LEMMA Constants ==
    /\ MaxOps \in Nat /\ MaxUser \in Nat /\ MaxFails \in Nat /\ MaxFault \in Nat /\ Batch \in Nat
    /\ MaxOps > 0
    /\ Nobody \in [Doc -> Attempt] /\ NoPage \in Page /\ Idle \in Run
  BY ConstantsAreSound DEF ConstantsAreSound, Attempt, Nobody, NoPage, Page, Idle, Run

\* What an update of the rows keeps that writes no new one.
SameRows(r) ==
    /\ r \in [Op -> Row]
    /\ \A i \in Op : r[i].doc = row[i].doc /\ (row[i].st = "free" => r[i].st = "free")

LEMMA RowRecords ==
    ASSUME NEW x \in Row
    PROVE  /\ [x EXCEPT !.claimed = FALSE] \in Row
           /\ [x EXCEPT !.claimed = FALSE].doc = x.doc /\ [x EXCEPT !.claimed = FALSE].st = x.st
           /\ [x EXCEPT !.claimed = TRUE] \in Row
           /\ [x EXCEPT !.claimed = TRUE].doc = x.doc /\ [x EXCEPT !.claimed = TRUE].st = x.st
           /\ [x EXCEPT !.st = "gone", !.claimed = FALSE] \in Row
           /\ [x EXCEPT !.st = "gone", !.claimed = FALSE].doc = x.doc
           /\ [x EXCEPT !.st = "dropped", !.claimed = FALSE] \in Row
           /\ [x EXCEPT !.st = "dropped", !.claimed = FALSE].doc = x.doc
           /\ [x EXCEPT !.st = "dropped"] \in Row
           /\ [x EXCEPT !.st = "dropped"].doc = x.doc
<1>1. /\ [x EXCEPT !.claimed = FALSE] \in Row
      /\ [x EXCEPT !.claimed = FALSE].doc = x.doc /\ [x EXCEPT !.claimed = FALSE].st = x.st
  BY DEF Row
<1>2. /\ [x EXCEPT !.claimed = TRUE] \in Row
      /\ [x EXCEPT !.claimed = TRUE].doc = x.doc /\ [x EXCEPT !.claimed = TRUE].st = x.st
  BY DEF Row
<1>3. [x EXCEPT !.st = "gone", !.claimed = FALSE] \in Row
      /\ [x EXCEPT !.st = "gone", !.claimed = FALSE].doc = x.doc
  BY DEF Row
<1>4. [x EXCEPT !.st = "dropped", !.claimed = FALSE] \in Row
      /\ [x EXCEPT !.st = "dropped", !.claimed = FALSE].doc = x.doc
  BY DEF Row
<1>5. [x EXCEPT !.st = "dropped"] \in Row /\ [x EXCEPT !.st = "dropped"].doc = x.doc
  BY DEF Row
<1> QED BY <1>1, <1>2, <1>3, <1>4, <1>5

LEMMA RowUpdates ==
    ASSUME ClaimTypes
    PROVE  /\ SameRows(row) /\ \A S : SameRows(Unclaimed(S))
           /\ \A S : (\A i \in S \cap Op : Queued(i)) => SameRows(Without(S))
<1>0. row \in [Op -> Row]
  BY DEF ClaimTypes
<1>1. SameRows(row) /\ \A S : SameRows(Unclaimed(S))
  BY <1>0, RowRecords DEF Unclaimed, SameRows
<1>2. ASSUME NEW S, \A i \in S \cap Op : Queued(i) PROVE SameRows(Without(S))
  BY <1>0, <1>2, RowRecords DEF Without, SameRows, Queued
<1> QED BY <1>1, <1>2

LEMMA SameRowsKeeps ==
    ASSUME ClaimTypes, SameRows(row'), last' = last
    PROVE  \A i \in Op : IF i <= last' THEN row'[i].doc \in Doc ELSE row'[i].st = "free"
  BY DEF ClaimTypes, SameRows

LEMMA DocumentUpdates ==
    ASSUME NEW x \in Document
    PROVE  /\ x.attempt + 1 \in Attempt =>
                 [x EXCEPT !.stage = "parsing", !.attempt = x.attempt + 1] \in Document
           /\ [x EXCEPT !.life = "deleted", !.seen = {}] \in Document
           /\ \A S \in SUBSET Doc : [x EXCEPT !.life = "queued", !.seen = S] \in Document
  BY DEF Document

LEMMA InsertTypes ==
    ASSUME ClaimTypes, NEW d \in Doc, NEW op \in {"ingest", "retract"}, NEW a \in Attempt,
           NEW hit \in BOOLEAN, Insert(d, op, a, hit)
    PROVE  /\ row' \in [Op -> Row] /\ last' \in 0..MaxOps
           /\ \A i \in Op : IF i <= last' THEN row'[i].doc \in Doc ELSE row'[i].st = "free"
           /\ \A w \in Worker : \A i \in batch[w].ops : i <= last'
           /\ last' = last + 1 /\ \A i \in Op : i <= last => row'[i] = row[i]
<1>1. last + 1 \in Op
  BY Constants DEF Insert, ClaimTypes, Op
<1>2. [st |-> "queued", doc |-> d, op |-> op, attempt |-> a,
       fails |-> 0, claimed |-> FALSE, hit |-> hit] \in Row
  BY Constants DEF Row
<1>3. row' \in [Op -> Row] /\ last' \in 0..MaxOps /\ last' = last + 1
  BY <1>1, <1>2, Constants DEF Insert, ClaimTypes
<1>4. \A i \in Op : i # last + 1 => row'[i] = row[i]
  BY DEF Insert, ClaimTypes
<1>5. row'[last + 1].doc = d
  BY <1>1 DEF Insert, ClaimTypes
<1>6. \A i \in Op : i \in Nat
  BY DEF Op
<1>7. \A i \in Op : IF i <= last' THEN row'[i].doc \in Doc ELSE row'[i].st = "free"
  BY <1>3, <1>4, <1>5, <1>6 DEF ClaimTypes
<1>8. \A w \in Worker : \A i \in batch[w].ops : i <= last /\ i \in Op
  BY DEF ClaimTypes, Run
<1>9. \A w \in Worker : \A i \in batch[w].ops : i <= last'
  BY <1>3, <1>6, <1>8 DEF ClaimTypes
<1> QED BY <1>3, <1>4, <1>6, <1>7, <1>9 DEF ClaimTypes

LEMMA RunTypes ==
    ASSUME ClaimTypes, NEW w \in Worker
    PROVE  /\ batch[w] \in Run /\ Reduced(w) \in Run /\ Unapplied(w) \in Run
           /\ LiveAdds(w) \subseteq Doc /\ Rewritten(w) \in Page
           /\ FailedOps(w) \subseteq Op
<1>1. batch[w] \in Run
  BY DEF ClaimTypes
<1>2. Reduced(w) \in Run
  BY <1>1, Constants DEF Reduced, Run
<1>3. Unapplied(w) \in Run
  BY <1>1, <1>2 DEF Unapplied, Run, Reduced
<1>4. LiveAdds(w) \subseteq Doc
  BY <1>1 DEF LiveAdds, Run
<1>5. Rewritten(w) \in Page
  <2>1. /\ batch[w].adds \subseteq Doc /\ batch[w].said \in [Doc -> Attempt]
        /\ batch[w].snap.refs \subseteq Doc /\ batch[w].snap.text \in [Doc -> Attempt]
    BY <1>1 DEF Run, Page
  <2>2. 0 \in Attempt
    BY Constants DEF Attempt
  <2> QED BY <2>1, <2>2 DEF Rewritten, Page
<1>6. FailedOps(w) \subseteq Op
  BY <1>1 DEF FailedOps, ChosenFor, Chosen, Run
<1> QED BY <1>1, <1>2, <1>3, <1>4, <1>5, <1>6

\* Every step keeps the types: the record updates, action by action.
LEMMA ScrubTypes ==
    ASSUME ClaimTypes, NEW d \in Doc, Scrub(d)
    PROVE  /\ row' \in [Op -> Row] /\ torn' \subseteq Doc
           /\ \A i \in Op : IF i <= last' THEN row'[i].doc \in Doc ELSE row'[i].st = "free"
<1>1. \A i \in Scrubbed(d) : Queued(i)
  BY DEF Scrubbed, RowsOf
<1>2. SameRows(row') /\ last' = last
  BY <1>1, RowUpdates DEF Scrub
<1> QED BY <1>2, SameRowsKeeps DEF Scrub, ClaimTypes, SameRows

LEMMA DocumentTypes ==
    ASSUME ClaimTypes, NEW d \in Doc,
           SeedFinalizing(d) \/ Reparse(d) \/ Cancel(d) \/ Tombstone(d) \/ Cleanup(d)
    PROVE  ClaimTypes'
<1>1. CASE SeedFinalizing(d)
  <2>1. doc[d] \in Document
    BY DEF ClaimTypes
  <2>2. /\ row' \in [Op -> Row] /\ last' \in 0..MaxOps
        /\ \A i \in Op : IF i <= last' THEN row'[i].doc \in Doc ELSE row'[i].st = "free"
        /\ \A w \in Worker : \A i \in batch[w].ops : i <= last'
    BY <1>1, <2>1, InsertTypes DEF SeedFinalizing, Document
  <2>3. doc' \in [Doc -> Document] /\ \A e \in Doc : doc'[e].attempt = doc[e].attempt
    BY <1>1 DEF SeedFinalizing, ClaimTypes, Document
  <2> QED BY <1>1, <2>2, <2>3 DEF SeedFinalizing, ClaimTypes, stains, budgets
<1>2. CASE Reparse(d)
  <2>1. users' \in 0..MaxUser /\ users' = users + 1
    BY <1>2, Constants DEF Reparse, Asked, ClaimTypes
  <2>2. doc[d].attempt + 1 \in Attempt
    <3>1. doc[d].attempt \in Attempt /\ doc[d].attempt <= users + 1 /\ users \in Nat
      BY DEF ClaimTypes, Document
    <3> QED BY <2>1, <3>1, Constants DEF Attempt
  <2>3. doc' \in [Doc -> Document]
    <3>1. [doc[d] EXCEPT !.stage = "parsing", !.attempt = doc[d].attempt + 1] \in Document
      BY <2>2, DocumentUpdates DEF ClaimTypes
    <3> QED BY <1>2, <3>1 DEF Reparse, ClaimTypes
  <2>4. \A e \in Doc : doc'[e].attempt <= users' + 1
    BY <1>2, <2>1, Constants DEF Reparse, ClaimTypes, Document, Attempt
  <2> QED BY <1>2, <2>1, <2>3, <2>4, ScrubTypes DEF Reparse, Scrub, ClaimTypes
<1>3. CASE Cancel(d)
  <2>1. users' \in 0..MaxUser /\ users' = users + 1
    BY <1>3, Constants DEF Cancel, Asked, ClaimTypes
  <2>2. doc' \in [Doc -> Document] /\ \A e \in Doc : doc'[e].attempt = doc[e].attempt
    BY <1>3 DEF Cancel, ClaimTypes, Document
  <2>3. \A e \in Doc : doc'[e].attempt <= users' + 1
    BY <2>1, <2>2, Constants DEF ClaimTypes, Document, Attempt
  <2> QED BY <1>3, <2>1, <2>2, <2>3, ScrubTypes DEF Cancel, Scrub, ClaimTypes
<1>4. CASE Tombstone(d)
  <2>1. users' \in 0..MaxUser /\ users' = users + 1
    BY <1>4, Constants DEF Tombstone, Asked, ClaimTypes
  <2>2. doc' \in [Doc -> Document] /\ \A e \in Doc : doc'[e].attempt = doc[e].attempt
    BY <1>4 DEF Tombstone, ClaimTypes, Document
  <2>3. \A e \in Doc : doc'[e].attempt <= users' + 1
    BY <2>1, <2>2, Constants DEF ClaimTypes, Document, Attempt
  <2> QED BY <1>4, <2>1, <2>2, <2>3 DEF Tombstone, ClaimTypes, queueVars, stains
<1>5. CASE ScrubDeleted(d)
  <2>1. doc' \in [Doc -> Document] /\ \A e \in Doc : doc'[e].attempt = doc[e].attempt
    BY <1>5 DEF ScrubDeleted, ClaimTypes, Document
  <2> QED BY <1>5, <2>1, ScrubTypes DEF ScrubDeleted, Scrub, ClaimTypes
<1>6. CASE QueueRetract(d)
  <2>1. 0 \in Attempt /\ (d \in page.refs) \in BOOLEAN /\ page.refs \subseteq Doc
    BY Constants DEF Attempt, ClaimTypes, Page
  <2>2. /\ row' \in [Op -> Row] /\ last' \in 0..MaxOps
        /\ \A i \in Op : IF i <= last' THEN row'[i].doc \in Doc ELSE row'[i].st = "free"
        /\ \A w \in Worker : \A i \in batch[w].ops : i <= last'
    BY <1>6, <2>1, InsertTypes DEF QueueRetract
  <2>3. doc' \in [Doc -> Document] /\ \A e \in Doc : doc'[e].attempt = doc[e].attempt
    <3>1. [doc[d] EXCEPT !.life = "queued", !.seen = page.refs] \in Document
      BY <2>1, DocumentUpdates DEF ClaimTypes
    <3> QED BY <1>6, <3>1 DEF QueueRetract, ClaimTypes, Document
  <2> QED BY <1>6, <2>2, <2>3 DEF QueueRetract, ClaimTypes, stains, budgets
<1>7. CASE Unlink(d)
  <2>1. page' \in Page
    <3>1. doc[d].seen \ {d} \subseteq Doc
      BY DEF ClaimTypes, Document
    <3>2. [page EXCEPT !.refs = doc[d].seen \ {d}] \in Page
      BY <3>1 DEF ClaimTypes, Page
    <3> QED BY <1>7, <3>2, Constants DEF Unlink, ClaimTypes
  <2>2. doc' \in [Doc -> Document] /\ \A e \in Doc : doc'[e].attempt = doc[e].attempt
    <3>1. [doc[d] EXCEPT !.life = "deleted", !.seen = {}] \in Document
      BY DocumentUpdates DEF ClaimTypes
    <3> QED BY <1>7, <3>1 DEF Unlink, ClaimTypes, Document
  <2> QED BY <1>7, <2>1, <2>2 DEF Unlink, ClaimTypes, queueVars, budgets
<1> QED BY <1>1, <1>2, <1>3, <1>4, <1>5, <1>6, <1>7 DEF Cleanup

\* A batch that keeps its rows, gives some back, or ends.
LEMMA WorkerTypes ==
    ASSUME ClaimTypes, NEW w \in Worker, ClaimBatch(w) \/ Step(w) \/ Abort(w) \/ Crash(w)
    PROVE  ClaimTypes'
<1>1. /\ batch[w] \in Run /\ batch[w].ops \subseteq Op /\ FailedOps(w) \subseteq batch[w].ops
      /\ Chosen(w) \subseteq batch[w].ops
      /\ \A i \in batch[w].ops : i \in Op /\ i <= last /\ row[i].doc \in Doc
  BY RunTypes DEF ClaimTypes, Run, FailedOps, ChosenFor, Chosen
<1>2. ASSUME NEW x \in Run, \A i \in x.ops : i <= last, batch' = [batch EXCEPT ![w] = x],
             page' \in Page, SameRows(row'), torn' \subseteq Doc,
             UNCHANGED <<last, doc, users>>
      PROVE  ClaimTypes'
  BY <1>2, SameRowsKeeps DEF ClaimTypes, SameRows
<1>3. page \in Page /\ torn \subseteq Doc
  BY DEF ClaimTypes
<1>4. /\ SameRows(row) /\ \A S : SameRows(Unclaimed(S))
      /\ \A S : (\A i \in S \cap Op : Queued(i)) => SameRows(Without(S))
  BY RowUpdates
<1>5. /\ Idle \in Run /\ Idle.ops = {}
  BY Constants DEF Idle
<1>6. /\ Reduced(w) \in Run /\ Reduced(w).ops = batch[w].ops
      /\ Unapplied(w) \in Run /\ Unapplied(w).ops = batch[w].ops
  <2>1. Reduced(w) \in Run /\ Unapplied(w) \in Run
    BY RunTypes
  <2>2. Reduced(w).ops = batch[w].ops
    BY <1>1 DEF Reduced, Run
  <2>3. Unapplied(w).ops = Reduced(w).ops
    BY <2>1 DEF Unapplied, Run
  <2> QED BY <2>1, <2>2, <2>3
<1>7. CASE ClaimBatch(w)
  <2>1. PICK K \in SUBSET Doc :
           /\ row' = [i \in Op |-> IF i \in UNION {RowsOf(d) : d \in K}
                                   THEN [row[i] EXCEPT !.claimed = TRUE] ELSE row[i]]
           /\ batch' = [batch EXCEPT ![w] = [Idle EXCEPT !.pc = "map", !.ops = UNION {RowsOf(d) : d \in K}]]
    BY <1>7 DEF ClaimBatch
  <2> DEFINE S == UNION {RowsOf(d) : d \in K}
  <2>2. S \subseteq Op /\ \A i \in S : i <= last
    BY DEF RowsOf, Queued, ClaimTypes, Op
  <2>3. [Idle EXCEPT !.pc = "map", !.ops = S] \in Run /\ [Idle EXCEPT !.pc = "map", !.ops = S].ops = S
    BY <2>2, Constants DEF Run
  <2>4. SameRows(row')
    <3>1. row' = [i \in Op |-> IF i \in S THEN [row[i] EXCEPT !.claimed = TRUE] ELSE row[i]]
      BY <2>1
    <3> HIDE DEF S
    <3>2. \A i \in Op : [row[i] EXCEPT !.claimed = TRUE] \in Row
      BY RowRecords DEF ClaimTypes
    <3>3. \A i \in Op : [row[i] EXCEPT !.claimed = TRUE].doc = row[i].doc
                       /\ [row[i] EXCEPT !.claimed = TRUE].st = row[i].st
      BY RowRecords DEF ClaimTypes
    <3> QED BY <3>1, <3>2, <3>3 DEF SameRows, ClaimTypes
  <2> QED BY <1>2, <1>3, <1>7, <2>1, <2>2, <2>3, <2>4 DEF ClaimBatch, stains, budgets
<1>8. CASE MapPhase(w)
  <2> DEFINE I == {i \in Chosen(w) : row[i].op = "ingest"}
             R == {i \in Chosen(w) : row[i].op = "retract"}
             ok(skip, F) == {row[i].doc : i \in I \ (skip \cup F)}
             drops(blind) == {row[i].doc : i \in {j \in R : row[j].hit} \cup {j \in R \ blind : Touches(j)}}
             failed(F) == {row[i].doc : i \in F}
             said(D) == [d \in Doc |-> IF d \in D THEN doc[d].attempt ELSE 0]
  <2>1. PICK skip \in SUBSET I, F \in SUBSET I, blind \in SUBSET R :
           batch' = [batch EXCEPT ![w] =
                        [@ EXCEPT !.ok = ok(skip, F), !.adds = ok(skip, F), !.drops = drops(blind),
                                  !.said = said(ok(skip, F)), !.fail = failed(F),
                                  !.pc = IF ok(skip, F) \cup drops(blind) = {} THEN "drain" ELSE "reduce"]]
    BY <1>8, ZenonT(60) DEF MapPhase
  <2>2. \A T \in SUBSET batch[w].ops : {row[i].doc : i \in T} \subseteq Doc
    BY <1>1
  <2>3. ok(skip, F) \subseteq Doc /\ drops(blind) \subseteq Doc /\ failed(F) \subseteq Doc
    <3>1. I \ (skip \cup F) \subseteq batch[w].ops /\ F \subseteq batch[w].ops
          /\ {j \in R : row[j].hit} \cup {j \in R \ blind : Touches(j)} \subseteq batch[w].ops
      BY <1>1
    <3> HIDE DEF I, R
    <3> QED BY <2>2, <3>1
  <2> HIDE DEF ok, drops, failed
  <2>4. said(ok(skip, F)) \in [Doc -> Attempt]
    BY Constants DEF ClaimTypes, Document, Attempt
  <2> HIDE DEF said
  <2>5. PICK x \in Run : batch' = [batch EXCEPT ![w] = x] /\ x.ops = batch[w].ops
    <3>1. batch[w] \in Run /\ batch \in [Worker -> Run]
      BY DEF ClaimTypes
    <3> DEFINE pc == IF ok(skip, F) \cup drops(blind) = {} THEN "drain" ELSE "reduce"
               x == [batch[w] EXCEPT !.ok = ok(skip, F), !.adds = ok(skip, F), !.drops = drops(blind),
                                     !.said = said(ok(skip, F)), !.fail = failed(F), !.pc = pc]
    <3>2. pc \in {"drain", "reduce"}
      OBVIOUS
    <3>3. batch' = [batch EXCEPT ![w] = x]
      BY <2>1, <3>1
    <3> HIDE DEF pc
    <3> DEFINE a == [batch[w] EXCEPT !.ok = ok(skip, F), !.adds = ok(skip, F)]
               b == [a EXCEPT !.drops = drops(blind), !.said = said(ok(skip, F))]
    <3>4. a \in Run /\ a.ops = batch[w].ops
      BY <2>3, <3>1 DEF Run
    <3>5. x = [b EXCEPT !.fail = failed(F), !.pc = pc]
      OBVIOUS
    <3> HIDE DEF x, a
    <3>6. b \in Run /\ b.ops = a.ops
      BY <2>3, <2>4, <3>4 DEF Run
    <3> HIDE DEF b
    <3>7. x \in Run /\ x.ops = b.ops
      BY <2>3, <3>2, <3>5, <3>6 DEF Run
    <3> QED BY <3>3, <3>4, <3>6, <3>7
  <2>6. UNCHANGED <<row, last, doc, page, torn, users>>
    BY <1>8 DEF MapPhase, Fails, queueVars, budgets
  <2> QED BY <1>1, <1>2, <1>3, <1>4, <2>5, <2>6
<1>9. CASE TakeSlug(w)
  <2>1. \A got \in BOOLEAN :
           /\ [batch[w] EXCEPT !.adds = LiveAdds(w), !.snap = page, !.locks = got, !.pc = "write"] \in Run
           /\ [batch[w] EXCEPT !.adds = LiveAdds(w), !.snap = page, !.locks = got, !.pc = "write"].ops
              = batch[w].ops
    BY <1>1, <1>3, RunTypes DEF Run
  <2>2. PICK x \in Run : batch' = [batch EXCEPT ![w] = x] /\ x.ops = batch[w].ops
    BY <1>6, <1>9, <2>1 DEF TakeSlug
  <2> QED BY <1>1, <1>2, <1>3, <1>4, <1>9, <2>2 DEF TakeSlug, queueVars, stains, budgets, Fails
<1>10. CASE CheckSources(w)
  <2>1. [batch[w] EXCEPT !.pc = "save"] \in Run /\ [batch[w] EXCEPT !.pc = "save"].ops = batch[w].ops
    BY <1>1 DEF Run
  <2>2. PICK x \in Run : batch' = [batch EXCEPT ![w] = x] /\ x.ops = batch[w].ops
    BY <1>6, <1>10, <2>1 DEF CheckSources, ClaimTypes
  <2> QED BY <1>1, <1>2, <1>3, <1>4, <1>10, <2>2 DEF CheckSources, queueVars, stains, budgets
<1>11. CASE SavePage(w)
  BY <1>1, <1>2, <1>3, <1>4, <1>6, <1>11, RunTypes DEF SavePage, queueVars, stains, budgets
<1>12. CASE Conflict(w)
  <2>1. /\ [batch[w] EXCEPT !.adds = LiveAdds(w), !.snap = page, !.pc = "write"] \in Run
        /\ [batch[w] EXCEPT !.adds = LiveAdds(w), !.snap = page, !.pc = "write"].ops = batch[w].ops
    BY <1>1, <1>3, RunTypes DEF Run
  <2>2. PICK x \in Run : batch' = [batch EXCEPT ![w] = x] /\ x.ops = batch[w].ops
    BY <1>6, <1>12, <2>1 DEF Conflict
  <2> QED BY <1>1, <1>2, <1>3, <1>4, <1>12, <2>2 DEF Conflict, queueVars, stains, budgets
<1>13. CASE DrainMapped(w)
  <2>1. [batch[w] EXCEPT !.pc = "trim"] \in Run /\ [batch[w] EXCEPT !.pc = "trim"].ops = batch[w].ops
    BY <1>1 DEF Run
  <2>2. batch' = [batch EXCEPT ![w] = [batch[w] EXCEPT !.pc = "trim"]]
    BY <1>13 DEF DrainMapped, ClaimTypes
  <2> QED BY <1>1, <1>2, <1>3, <1>4, <1>13, <2>1, <2>2 DEF DrainMapped, queueVars, budgets, Fails
<1>14. \A ops \in SUBSET batch[w].ops, pc \in {"requeue", "end"}, e \in BOOLEAN :
          /\ [batch[w] EXCEPT !.ops = ops, !.pc = pc] \in Run
          /\ [batch[w] EXCEPT !.ops = ops, !.pc = pc].ops = ops
          /\ [batch[w] EXCEPT !.err = TRUE, !.pc = pc] \in Run
          /\ [batch[w] EXCEPT !.err = TRUE, !.pc = pc].ops = batch[w].ops
  BY <1>1 DEF Run
<1>15. ASSUME NEW ops \in SUBSET batch[w].ops, NEW pc \in {"requeue", "end"}, Settling(w, ops, pc)
       PROVE  \E x \in Run : batch' = [batch EXCEPT ![w] = x] /\ x.ops \subseteq batch[w].ops
  BY <1>1, <1>5, <1>14, <1>15 DEF Settling
<1>16. CASE TrimPendingList(w)
  <2>1. PICK x \in Run : batch' = [batch EXCEPT ![w] = x] /\ x.ops \subseteq batch[w].ops
    BY <1>1, <1>14, <1>15, <1>16 DEF TrimPendingList
  <2>2. SameRows(row')
    BY <1>4, <1>16 DEF TrimPendingList
  <2> QED BY <1>1, <1>2, <1>3, <1>16, <2>1, <2>2 DEF TrimPendingList, stains, budgets, Fails
<1>17. CASE RequeueFailedOps(w)
  <2> DEFINE F == {i \in FailedOps(w) : Queued(i)}
             over == {i \in F : Exhausted(i)}
             counted == [i \in Op |-> IF i \in over THEN [row[i] EXCEPT !.fails = MaxFails + 1]
                                     ELSE IF i \in F THEN [row[i] EXCEPT !.fails = @ + 1, !.claimed = FALSE]
                                     ELSE row[i]]
             gone == [i \in Op |-> IF i \in over THEN [counted[i] EXCEPT !.st = "dropped", !.claimed = FALSE]
                                  ELSE counted[i]]
  <2>1. PICK x \in Run : batch' = [batch EXCEPT ![w] = x] /\ x.ops \subseteq batch[w].ops
    BY <1>1, <1>14, <1>15, <1>17 DEF RequeueFailedOps
  <2>2. SameRows(counted)
    <3>1. \A i \in Op : [row[i] EXCEPT !.fails = MaxFails + 1] \in Row
      BY Constants DEF ClaimTypes, Row
    <3>2. \A i \in Op : ~Exhausted(i) => [row[i] EXCEPT !.fails = @ + 1, !.claimed = FALSE] \in Row
      <4>1. \A i \in Op : ~Exhausted(i) => row[i].fails + 1 \in 0..(MaxFails + 1)
        BY Constants DEF ClaimTypes, Row, Exhausted
      <4>2. \A y \in Row : y.fails + 1 \in 0..(MaxFails + 1)
               => [y EXCEPT !.fails = y.fails + 1, !.claimed = FALSE] \in Row
        BY DEF Row
      <4> QED BY <4>1, <4>2 DEF ClaimTypes
    <3>3. \A i \in Op : /\ [row[i] EXCEPT !.fails = MaxFails + 1].doc = row[i].doc
                        /\ [row[i] EXCEPT !.fails = MaxFails + 1].st = row[i].st
                        /\ [row[i] EXCEPT !.fails = @ + 1, !.claimed = FALSE].doc = row[i].doc
                        /\ [row[i] EXCEPT !.fails = @ + 1, !.claimed = FALSE].st = row[i].st
      BY DEF ClaimTypes, Row
    <3>4. \A i \in Op : /\ counted[i] \in Row
                        /\ counted[i].doc = row[i].doc /\ counted[i].st = row[i].st
      <4> SUFFICES ASSUME NEW i \in Op
                   PROVE  /\ counted[i] \in Row
                          /\ counted[i].doc = row[i].doc /\ counted[i].st = row[i].st
        OBVIOUS
      <4>1. CASE i \in over
        BY <4>1, <3>1, <3>3
      <4>2. CASE i \in F \ over
        BY <4>2, <3>2, <3>3
      <4>3. CASE i \notin F
        BY <4>3 DEF ClaimTypes
      <4> QED BY <4>1, <4>2, <4>3
    <3> HIDE DEF over, F
    <3> QED BY <3>4 DEF SameRows
  <2>3. SameRows(gone)
    <3>1. \A i \in over : row[i].st = "queued"
      BY DEF Queued
    <3>2. \A i \in Op : counted[i] \in Row
      BY <2>2 DEF SameRows
    <3> HIDE DEF counted, over
    <3>3. \A i \in Op : [counted[i] EXCEPT !.st = "dropped", !.claimed = FALSE] \in Row
                       /\ [counted[i] EXCEPT !.st = "dropped", !.claimed = FALSE].doc = counted[i].doc
      BY <3>2, RowRecords
    <3> QED BY <2>2, <3>1, <3>2, <3>3 DEF SameRows
  <2>4. row' = gone \/ row' = counted
    BY <1>17 DEF RequeueFailedOps
  <2> HIDE DEF gone, counted
  <2> QED BY <1>1, <1>2, <1>3, <1>17, <2>1, <2>2, <2>3, <2>4 DEF RequeueFailedOps, stains, budgets, Fails
<1>18. CASE EndBatch(w)
  <2>1. torn' \subseteq Doc
    BY <1>1, <1>3, <1>18 DEF EndBatch
  <2> QED BY <1>2, <1>3, <1>4, <1>5, <1>18, <2>1 DEF EndBatch, budgets
<1>19. CASE Abort(w)
  BY <1>2, <1>3, <1>4, <1>5, <1>19 DEF Abort, stains, Fails
<1>20. CASE Crash(w)
  BY <1>2, <1>3, <1>4, <1>5, <1>20 DEF Crash, queueVars, stains, Fails
<1> QED BY <1>7, <1>8, <1>9, <1>10, <1>11, <1>12, <1>13, <1>16, <1>17, <1>18, <1>19, <1>20 DEF Step

LEMMA TypesStep ==
    ASSUME ClaimTypes, [Next]_vars
    PROVE  ClaimTypes'
<1>1. ASSUME NEW i \in Op, ClaimGoesStale(i) PROVE ClaimTypes'
  <2>1. SameRows(row')
    BY <1>1, RowUpdates DEF ClaimGoesStale
  <2> QED BY <1>1, <2>1, SameRowsKeeps DEF ClaimGoesStale, ClaimTypes, SameRows, stains, budgets
<1>2. CASE LockExpires
  BY <1>2 DEF LockExpires, ClaimTypes, queueVars, stains, budgets, Fails
<1>3. CASE DrainUnclaimedAndRelease
  <2>1. SameRows(row')
    BY <1>3, RowUpdates DEF DrainUnclaimedAndRelease
  <2> QED BY <1>3, <2>1, SameRowsKeeps DEF DrainUnclaimedAndRelease, ClaimTypes, SameRows, stains, Fails
<1>4. CASE DiscardUnclaimed
  <2> DEFINE S == {i \in Op : Queued(i) /\ row[i].op = "retract" /\ Claimable(row[i].doc)}
  <2>1. \A i \in Op : /\ [row[i] EXCEPT !.st = "dropped"] \in Row
                      /\ [row[i] EXCEPT !.st = "dropped"].doc = row[i].doc
    BY DEF ClaimTypes, Row
  <2>2. \A i \in S : row[i].st = "queued"
    BY DEF Queued
  <2>3. row' = [i \in Op |-> IF i \in S THEN [row[i] EXCEPT !.st = "dropped"] ELSE row[i]]
    BY <1>4 DEF DiscardUnclaimed
  <2> HIDE DEF S
  <2>4. SameRows(row')
    BY <2>1, <2>2, <2>3 DEF SameRows, ClaimTypes
  <2> QED BY <1>4, <2>4, SameRowsKeeps DEF DiscardUnclaimed, ClaimTypes, SameRows, stains, Fails
<1>5. CASE UNCHANGED vars
  BY <1>5 DEF vars, ClaimTypes
<1> QED BY <1>1, <1>2, <1>3, <1>4, <1>5, DocumentTypes, WorkerTypes DEF Next

-----------------------------------------------------------------------------
(* Claims *)

\* Steps that leave every batch with the rows it had.
LEMMA SameHolds ==
    ASSUME \A w \in Worker : batch'[w].pc = batch[w].pc /\ batch'[w].ops = batch[w].ops
    PROVE  \A w \in Worker, i \in Op : Holds(w, i)' <=> Holds(w, i)
  BY DEF Holds

\* A step after which no batch holds a row it did not hold, no row it holds changes
\* hands, and no held row of a document outside torn is given back or deleted.
LEMMA Shrinks ==
    ASSUME ClaimInv, torn \subseteq torn',
           \A w \in Worker, i \in Op : Holds(w, i)' => Holds(w, i) /\ row'[i].doc = row[i].doc,
           \A w \in Worker, i \in Op :
               Holds(w, i)' /\ row[i].doc \notin torn' /\ Queued(i) /\ row[i].claimed
                   => Queued(i)' /\ row'[i].claimed
    PROVE  HeldIsClaimed' /\ DocAlone'
<1>1. HeldIsClaimed'
  BY DEF HeldIsClaimed, ClaimInv
<1>2. \A w \in Worker : Docs(w)' \subseteq Docs(w)
  BY DEF Docs
<1> QED BY <1>1, <1>2 DEF DocAlone, ClaimInv

\* A new row is not held by any batch.
LEMMA InsertHolds ==
    ASSUME ClaimInv, NEW d \in Doc, NEW op \in {"ingest", "retract"}, NEW a \in Attempt,
           NEW hit \in BOOLEAN, Insert(d, op, a, hit), batch' = batch, torn' = torn
    PROVE  HeldIsClaimed' /\ DocAlone'
<1>1. \A i \in Op : i <= last => row'[i] = row[i]
  BY InsertTypes DEF ClaimInv
<1>2. \A w \in Worker, i \in Op : Holds(w, i)' => Holds(w, i) /\ i <= last
  BY DEF Holds, ClaimInv, ClaimTypes
<1> QED BY <1>1, <1>2, Shrinks DEF Queued

\* What a scrub takes from under a batch marks its document.
LEMMA ScrubHolds ==
    ASSUME ClaimInv, NEW d \in Doc, Scrub(d)
    PROVE  HeldIsClaimed' /\ DocAlone'
<1>1. SameRows(row') /\ torn \subseteq torn' /\ batch' = batch
  <2>1. \A i \in Scrubbed(d) : Queued(i)
    BY DEF Scrubbed, RowsOf
  <2> QED BY <2>1, RowUpdates DEF Scrub, ClaimInv
<1>2. \A w \in Worker, i \in Op : Holds(w, i)' <=> Holds(w, i)
  BY <1>1 DEF Holds
<1>3. ASSUME NEW w \in Worker, NEW i \in Op, Holds(w, i), row[i].doc \notin torn',
             Queued(i), row[i].claimed
      PROVE  Queued(i)' /\ row'[i].claimed
  <2>1. i \notin Scrubbed(d) \/ row' = row
    BY <1>3 DEF Scrub, TearsBatch, Scrubbed, RowsOf
  <2>2. row'[i] = row[i]
    BY <2>1 DEF Scrub, Without
  <2> QED BY <1>3, <2>2 DEF Queued
<1> QED BY <1>1, <1>2, <1>3, Shrinks DEF SameRows

LEMMA DocumentHolds ==
    ASSUME ClaimInv, NEW d \in Doc,
           SeedFinalizing(d) \/ Reparse(d) \/ Cancel(d) \/ Tombstone(d) \/ Cleanup(d)
    PROVE  HeldIsClaimed' /\ DocAlone'
<1>1. CASE SeedFinalizing(d)
  <2>1. doc[d].attempt \in Attempt
    BY DEF ClaimInv, ClaimTypes, Document
  <2> QED BY <1>1, <2>1, InsertHolds DEF SeedFinalizing, stains
<1>2. CASE Reparse(d) \/ Cancel(d) \/ ScrubDeleted(d)
  BY <1>2, ScrubHolds DEF Reparse, Cancel, ScrubDeleted
<1>3. CASE QueueRetract(d)
  <2>1. 0 \in Attempt /\ (d \in page.refs) \in BOOLEAN
    BY Constants DEF Attempt
  <2> QED BY <1>3, <2>1, InsertHolds DEF QueueRetract, stains
<1>4. CASE Tombstone(d) \/ Unlink(d)
  <2>1. UNCHANGED <<row, batch, torn>>
    BY <1>4 DEF Tombstone, Unlink, queueVars, stains
  <2>2. \A w \in Worker, i \in Op : Holds(w, i)' <=> Holds(w, i)
    BY <2>1 DEF Holds
  <2> QED BY <2>1, <2>2, Shrinks DEF Queued
<1> QED BY <1>1, <1>2, <1>3, <1>4 DEF Cleanup

\* A batch claims only documents no other batch holds a row of.
LEMMA ClaimHolds ==
    ASSUME ClaimInv, NEW w \in Worker, ClaimBatch(w)
    PROVE  HeldIsClaimed' /\ DocAlone'
<1>1. PICK K \in SUBSET Doc :
         /\ \A d \in K : Claimable(d)
         /\ row' = [i \in Op |-> IF i \in UNION {RowsOf(d) : d \in K}
                                 THEN [row[i] EXCEPT !.claimed = TRUE] ELSE row[i]]
         /\ batch' = [batch EXCEPT ![w] = [Idle EXCEPT !.pc = "map", !.ops = UNION {RowsOf(d) : d \in K}]]
  BY DEF ClaimBatch, NextKeys, Selected
<1> DEFINE S == UNION {RowsOf(d) : d \in K}
<1>2. \A i \in S : i \in Op /\ Queued(i) /\ row[i].doc \in K
  BY DEF RowsOf
<1>3. \A d \in K : \A i \in Op : Queued(i) /\ row[i].doc = d => ~row[i].claimed
  BY <1>1 DEF Claimable, RowsOf
<1>4. \A i \in Op : /\ row'[i].doc = row[i].doc /\ row'[i].st = row[i].st
                    /\ row'[i].claimed = (i \in S \/ row[i].claimed)
  <2>1. \A i \in Op : row[i] \in Row
    BY DEF ClaimInv, ClaimTypes
  <2>2. row' = [i \in Op |-> IF i \in S THEN [row[i] EXCEPT !.claimed = TRUE] ELSE row[i]]
    BY <1>1
  <2> HIDE DEF S
  <2>3. \A i \in Op : i \in S => row'[i] = [row[i] EXCEPT !.claimed = TRUE]
    BY <2>2
  <2>4. \A i \in Op : i \notin S => row'[i] = row[i]
    BY <2>2
  <2> QED BY <2>1, <2>3, <2>4 DEF Row
<1>5. batch'[w].pc = "map" /\ batch'[w].ops = S /\ \A v \in Worker \ {w} : batch'[v] = batch[v]
  BY <1>1, Constants DEF ClaimInv, ClaimTypes, Run
<1>6. torn' = torn
  BY DEF ClaimBatch, stains
<1> HIDE DEF S
<1>7. \A i \in Op : Holds(w, i)' <=> i \in S
  BY <1>5 DEF Holds
<1>8. \A v \in Worker \ {w}, i \in Op : Holds(v, i)' <=> Holds(v, i)
  BY <1>5 DEF Holds
<1>9. \A v \in Worker \ {w}, i \in Op : Holds(v, i) /\ row[i].doc \notin torn => row[i].doc \notin K
  BY <1>3 DEF ClaimInv, HeldIsClaimed
<1>10. HeldIsClaimed'
  BY <1>2, <1>4, <1>6, <1>7, <1>8 DEF HeldIsClaimed, ClaimInv, Queued
<1>11. Docs(w)' \subseteq K
  BY <1>2, <1>4, <1>7 DEF Docs
<1>12. \A v \in Worker \ {w} : Docs(v)' = Docs(v) /\ Docs(v) \cap K \subseteq torn
  BY <1>4, <1>8, <1>9 DEF Docs
<1> QED BY <1>6, <1>10, <1>11, <1>12 DEF DocAlone, ClaimInv

\* A step of one worker leaves the batches of the others alone.
LEMMA OneBatch ==
    ASSUME ClaimTypes, NEW w \in Worker, ClaimBatch(w) \/ Step(w) \/ Abort(w) \/ Crash(w)
    PROVE  \A v \in Worker \ {w} : batch'[v] = batch[v]
<1>1. CASE ClaimBatch(w) \/ MapPhase(w) \/ Abort(w) \/ Crash(w) \/ EndBatch(w)
  BY <1>1 DEF ClaimBatch, MapPhase, EndBatch, Abort, Crash, ClaimTypes
<1>2. CASE TakeSlug(w) \/ CheckSources(w) \/ SavePage(w) \/ Conflict(w)
  BY <1>2 DEF TakeSlug, CheckSources, SavePage, Conflict, ClaimTypes
<1>3. CASE DrainMapped(w) \/ TrimPendingList(w)
  BY <1>3 DEF DrainMapped, TrimPendingList, Settling, ClaimTypes
<1>4. CASE RequeueFailedOps(w)
  BY <1>4 DEF RequeueFailedOps, Settling, ClaimTypes
<1> QED BY <1>1, <1>2, <1>3, <1>4 DEF Step

LEMMA WorkerHolds ==
    ASSUME ClaimInv, NEW w \in Worker, Step(w) \/ Abort(w) \/ Crash(w)
    PROVE  HeldIsClaimed' /\ DocAlone'
<1>1. \A v \in Worker \ {w} : batch'[v] = batch[v]
  BY OneBatch DEF ClaimInv
<1>2. \A v \in Worker \ {w}, i \in Op : Holds(v, i)' <=> Holds(v, i)
  BY <1>1 DEF Holds
<1>3. /\ batch[w] \in Run /\ row \in [Op -> Row]
      /\ FailedOps(w) \subseteq batch[w].ops
  BY DEF ClaimInv, ClaimTypes, FailedOps, ChosenFor, Chosen
\* The rows stay as they are, and the batch keeps its rows.
<1>4. CASE MapPhase(w) \/ TakeSlug(w) \/ CheckSources(w) \/ SavePage(w) \/ Conflict(w) \/ DrainMapped(w)
  <2>1. row' = row /\ torn' = torn
    BY <1>4 DEF MapPhase, TakeSlug, CheckSources, SavePage, Conflict, DrainMapped, queueVars, stains
  <2>2. batch'[w].ops = batch[w].ops /\ batch[w].pc \notin {"idle", "end"}
    <3>1. Reduced(w).ops = batch[w].ops /\ Unapplied(w).ops = batch[w].ops
      BY <1>3 DEF Reduced, Unapplied, Run
    <3>2. batch \in [Worker -> Run]
      BY DEF ClaimInv, ClaimTypes
    <3>3. CASE MapPhase(w)
      BY <1>3, <3>2, <3>3 DEF MapPhase, Run
    <3>4. CASE TakeSlug(w)
      <4>1. \A got : [batch[w] EXCEPT !.adds = LiveAdds(w), !.snap = page, !.locks = got, !.pc = "write"].ops
                     = batch[w].ops
        BY <1>3 DEF Run
      <4>2. PICK x \in {Reduced(w), Unapplied(w)} \cup
                    {[batch[w] EXCEPT !.adds = LiveAdds(w), !.snap = page, !.locks = got, !.pc = "write"] :
                        got \in BOOLEAN} :
               batch' = [batch EXCEPT ![w] = x]
        BY <3>4 DEF TakeSlug
      <4>3. x.ops = batch[w].ops
        BY <3>1, <4>1
      <4> QED BY <3>2, <3>4, <4>2, <4>3 DEF TakeSlug
    <3>6. CASE CheckSources(w)
      BY <1>3, <3>1, <3>2, <3>6 DEF CheckSources, Run
    <3>5. CASE SavePage(w) \/ DrainMapped(w)
      BY <1>3, <3>1, <3>2, <3>5 DEF SavePage, DrainMapped, Run
    <3>7. CASE Conflict(w)
      <4>1. [batch[w] EXCEPT !.adds = LiveAdds(w), !.snap = page, !.pc = "write"].ops = batch[w].ops
        BY <1>3 DEF Run
      <4>2. PICK x \in {Reduced(w), Unapplied(w), [batch[w] EXCEPT !.adds = LiveAdds(w), !.snap = page, !.pc = "write"]} :
               batch' = [batch EXCEPT ![w] = x]
        BY <3>7 DEF Conflict
      <4>3. x.ops = batch[w].ops
        BY <3>1, <4>1, <4>2
      <4> QED BY <3>2, <3>7, <4>2, <4>3 DEF Conflict
    <3> QED BY <1>4, <3>3, <3>4, <3>5, <3>6, <3>7
  <2>3. \A i \in Op : Holds(w, i)' => Holds(w, i)
    BY <2>2 DEF Holds
  <2> QED BY <1>2, <2>1, <2>3, Shrinks DEF Queued
\* The batch is over.
<1>5. CASE Crash(w)
  <2>1. row' = row /\ torn' = torn
    BY <1>5 DEF Crash, queueVars, stains
  <2>2. \A i \in Op : ~Holds(w, i)'
    BY <1>5 DEF Crash, Holds, Idle, ClaimInv, ClaimTypes
  <2> QED BY <1>2, <2>1, <2>2, Shrinks DEF Queued
\* Rows of w: nobody else holds one, but of a torn document.
<1>6. \A v \in Worker \ {w}, i \in Op :
          Holds(v, i) /\ Holds(w, i) => row[i].doc \in torn
  BY DEF ClaimInv, DocAlone, Docs
<1>7. CASE Abort(w)
  <2>1. /\ row' = Unclaimed(batch[w].ops) /\ torn' = torn
        /\ \A i \in batch[w].ops : i \in Op => Holds(w, i)
    BY <1>7 DEF Abort, stains, Holds
  <2>2. \A i \in Op : ~Holds(w, i)'
    BY <1>7 DEF Abort, Holds, Idle, ClaimInv, ClaimTypes
  <2>3. \A i \in Op : row'[i].doc = row[i].doc /\ (i \notin batch[w].ops => row'[i] = row[i])
    BY <1>3, <2>1 DEF Unclaimed, Row
  <2> QED BY <1>2, <1>6, <2>1, <2>2, <2>3, Shrinks DEF Queued
<1>8. CASE EndBatch(w)
  <2>1. /\ row' = Unclaimed(batch[w].ops)
        /\ torn' = torn \cup {row[i].doc : i \in {j \in batch[w].ops : \E v \in Worker : Holds(v, j)}}
    BY <1>8 DEF EndBatch
  <2>2. \A i \in Op : ~Holds(w, i)'
    BY <1>8 DEF EndBatch, Holds, Idle, ClaimInv, ClaimTypes
  <2>3. \A i \in Op : row'[i].doc = row[i].doc /\ (i \notin batch[w].ops => row'[i] = row[i])
    BY <1>3, <2>1 DEF Unclaimed, Row
  <2>4. \A v \in Worker, i \in Op : Holds(v, i) /\ row[i].doc \notin torn' => i \notin batch[w].ops
    BY <2>1
  <2> QED BY <1>2, <2>1, <2>2, <2>3, <2>4, Shrinks DEF Queued
<1>9. CASE TrimPendingList(w)
  <2> DEFINE S == {i \in batch[w].ops : Queued(i)} \ FailedOps(w)
  <2>1. /\ row' = row \/ row' = Without(S)
        /\ torn' = torn /\ batch[w].pc = "trim"
    BY <1>9 DEF TrimPendingList, stains
  <2>2. \A i \in Op : row'[i].doc = row[i].doc /\ (i \notin S => row'[i] = row[i])
    <3> HIDE DEF S
    <3> QED BY <1>3, <2>1, RowRecords DEF Without
  <2>3. \A i \in S : i \in Op => Holds(w, i)
    BY <2>1 DEF Holds
  <2>4. \A i \in Op : Holds(w, i)' => Holds(w, i) /\ (i \notin S \/ row' = row)
    <3>1. batch'[w] = Idle \/ batch'[w].ops = FailedOps(w) \/ (batch'[w].ops = batch[w].ops /\ row' = row)
      <4>1. \A pc : /\ [batch[w] EXCEPT !.ops = FailedOps(w), !.pc = pc].ops = FailedOps(w)
                     /\ [batch[w] EXCEPT !.err = TRUE, !.pc = pc].ops = batch[w].ops
        BY <1>3 DEF Run
      <4>2. CASE Settling(w, FailedOps(w), "requeue")
        BY <4>1, <4>2 DEF Settling, ClaimInv, ClaimTypes
      <4>3. CASE row' = row /\ batch' = [batch EXCEPT ![w] = [@ EXCEPT !.err = TRUE, !.pc = "requeue"]]
        BY <4>1, <4>3 DEF ClaimInv, ClaimTypes
      <4> QED BY <1>9, <4>2, <4>3 DEF TrimPendingList
    <3>2. Idle.pc = "idle"
      BY DEF Idle
    <3> QED BY <1>3, <2>1, <3>1, <3>2 DEF Holds
  <2> HIDE DEF S
  <2> QED BY <1>2, <1>6, <2>1, <2>2, <2>3, <2>4, Shrinks DEF Queued
<1>10. CASE RequeueFailedOps(w)
  <2>1. torn' = torn /\ batch[w].pc = "requeue"
    BY <1>10 DEF RequeueFailedOps, stains
  <2>2. \A i \in Op : ~Holds(w, i)'
    <3>1. \A ops : Settling(w, ops, "end") => batch'[w] = Idle \/ batch'[w].pc = "end"
      BY <1>3 DEF Settling, ClaimInv, ClaimTypes, Run
    <3>2. batch'[w] = [batch[w] EXCEPT !.err = TRUE, !.pc = "end"] => batch'[w].pc = "end"
      BY <1>3 DEF Run
    <3>3. batch'[w] = Idle \/ batch'[w].pc = "end"
      BY <1>10, <3>1, <3>2 DEF RequeueFailedOps, ClaimInv, ClaimTypes
    <3>4. Idle.pc = "idle"
      BY DEF Idle
    <3> QED BY <3>3, <3>4 DEF Holds
  <2>3. \A i \in Op : row'[i].doc = row[i].doc /\ (i \notin batch[w].ops => row'[i] = row[i])
    <3> DEFINE over == {i \in FailedOps(w) : Queued(i) /\ Exhausted(i)}
               F == {i \in FailedOps(w) : Queued(i)}
               counted == [i \in Op |-> IF i \in over THEN [row[i] EXCEPT !.fails = MaxFails + 1]
                                       ELSE IF i \in F THEN [row[i] EXCEPT !.fails = @ + 1, !.claimed = FALSE]
                                       ELSE row[i]]
    <3>1. \A i \in Op : counted[i].doc = row[i].doc /\ (i \notin batch[w].ops => counted[i] = row[i])
      BY <1>3 DEF Row
    <3>2. over = {i \in F : Exhausted(i)}
      OBVIOUS
    <3>3. row' = counted \/ row' = [i \in Op |-> IF i \in over THEN [counted[i] EXCEPT !.st = "dropped", !.claimed = FALSE]
                                                 ELSE counted[i]]
      BY <1>10, <3>2 DEF RequeueFailedOps
    <3>4. \A i \in Op : i \in over => i \in batch[w].ops
      BY <1>3
    <3>5. \A i \in Op : [counted[i] EXCEPT !.st = "dropped", !.claimed = FALSE].doc = counted[i].doc
      BY <1>3 DEF Row
    <3> HIDE DEF over, counted
    <3>6. CASE row' = counted
      BY <3>1, <3>6
    <3>7. CASE row' = [i \in Op |-> IF i \in over THEN [counted[i] EXCEPT !.st = "dropped", !.claimed = FALSE]
                                   ELSE counted[i]]
      BY <3>1, <3>4, <3>5, <3>7
    <3> QED BY <3>3, <3>6, <3>7
  <2>4. \A i \in batch[w].ops : i \in Op => Holds(w, i)
    BY <2>1 DEF Holds
  <2> QED BY <1>2, <1>6, <2>1, <2>2, <2>3, <2>4, Shrinks DEF Queued
<1> QED BY <1>4, <1>5, <1>7, <1>8, <1>9, <1>10 DEF Step

\* The claims keep their meaning in every step.
LEMMA ClaimStep ==
    ASSUME ClaimInv, [Next]_vars
    PROVE  ClaimInv'
<1>1. ClaimTypes'
  BY TypesStep DEF ClaimInv
<1>2. HeldIsClaimed' /\ DocAlone'
  <2>1. ASSUME NEW j \in Op, ClaimGoesStale(j) PROVE HeldIsClaimed' /\ DocAlone'
    <3>1. /\ row' = Unclaimed({j}) /\ batch' = batch /\ torn' = torn
          /\ \A w \in Worker : j \notin batch[w].ops
      BY <2>1 DEF ClaimGoesStale, stains
    <3>2. \A i \in Op : row'[i].doc = row[i].doc /\ (i # j => row'[i] = row[i])
      BY <3>1 DEF Unclaimed, Row, ClaimInv, ClaimTypes
    <3>3. \A w \in Worker, i \in Op : (Holds(w, i)' <=> Holds(w, i)) /\ (Holds(w, i) => i # j)
      BY <3>1 DEF Holds
    <3> QED BY <3>1, <3>2, <3>3, Shrinks DEF Queued
  <2>2. CASE LockExpires \/ UNCHANGED vars
    <3>1. UNCHANGED <<row, batch, torn>>
      BY <2>2 DEF LockExpires, vars, queueVars, stains
    <3>2. \A w \in Worker, i \in Op : Holds(w, i)' <=> Holds(w, i)
      BY <3>1 DEF Holds
    <3> QED BY <3>1, <3>2, Shrinks DEF Queued
  <2>3. CASE DrainUnclaimedAndRelease
    <3> DEFINE S == {i \in Op : Queued(i) /\ row[i].op = "ingest" /\ Claimable(row[i].doc)}
    <3>1. row' = Without(S) /\ batch' = batch /\ torn' = torn
      BY <2>3 DEF DrainUnclaimedAndRelease, stains
    <3>2. \A i \in Op : row'[i].doc = row[i].doc /\ (i \notin S => row'[i] = row[i])
      BY <3>1 DEF Without, Row, ClaimInv, ClaimTypes
    <3>3. \A i \in S : ~row[i].claimed
      BY DEF Claimable, RowsOf
    <3>4. \A w \in Worker, i \in Op : Holds(w, i)' <=> Holds(w, i)
      BY <3>1 DEF Holds
    <3> HIDE DEF S
    <3> QED BY <3>1, <3>2, <3>3, <3>4, Shrinks DEF Queued
  <2>4. CASE DiscardUnclaimed
    <3> DEFINE S == {i \in Op : Queued(i) /\ row[i].op = "retract" /\ Claimable(row[i].doc)}
    <3>1. /\ row' = [i \in Op |-> IF i \in S THEN [row[i] EXCEPT !.st = "dropped"] ELSE row[i]]
          /\ batch' = batch /\ torn' = torn
      BY <2>4 DEF DiscardUnclaimed, stains
    <3>2. \A i \in S : ~row[i].claimed
      BY DEF Claimable, RowsOf
    <3> HIDE DEF S
    <3>3. \A i \in Op : row'[i].doc = row[i].doc /\ (i \notin S => row'[i] = row[i])
      BY <3>1 DEF Row, ClaimInv, ClaimTypes
    <3>4. \A w \in Worker, i \in Op : Holds(w, i)' <=> Holds(w, i)
      BY <3>1 DEF Holds
    <3> QED BY <3>1, <3>2, <3>3, <3>4, Shrinks DEF Queued
  <2> QED BY <2>1, <2>2, <2>3, <2>4, DocumentHolds, ClaimHolds, WorkerHolds DEF Next
<1> QED BY <1>1, <1>2 DEF ClaimInv

LEMMA ClaimInit ==
    ASSUME Init PROVE ClaimInv
<1>1. ClaimTypes
  <2>1. [st |-> "free", doc |-> None, op |-> "ingest", attempt |-> 0,
         fails |-> 0, claimed |-> FALSE, hit |-> FALSE] \in Row
    BY Constants DEF Row, Attempt
  <2>2. [stage |-> "parsing", attempt |-> 1, life |-> "live", seen |-> {}] \in Document
    BY Constants DEF Document, Attempt
  <2>3. \A i \in Op : row[i].st = "free" /\ i > last
    BY DEF Init, Op
  <2>4. \A w \in Worker : batch[w].ops = {}
    BY DEF Init, Idle
  <2>5. row \in [Op -> Row] /\ doc \in [Doc -> Document]
    BY <2>1, <2>2 DEF Init
  <2>6. \A d \in Doc : doc[d].attempt <= users + 1
    BY DEF Init
  <2>7. last \in 0..MaxOps /\ users \in 0..MaxUser /\ batch \in [Worker -> Run] /\ page \in Page /\ torn = {}
    BY Constants DEF Init
  <2>8. \A i \in Op : ~(i <= last)
    BY <2>3, <2>7 DEF Op
  <2> QED BY <2>3, <2>4, <2>5, <2>6, <2>7, <2>8 DEF ClaimTypes
<1>2. \A w \in Worker, i \in Op : ~Holds(w, i)
  BY DEF Init, Holds, Idle
<1> QED BY <1>1, <1>2 DEF ClaimInv, HeldIsClaimed, DocAlone, Docs

\* Concurrent batches work for disjoint documents, whatever fails, is retried,
\* expires or comes late, but for documents scrubbed or released under a batch.
THEOREM DocumentsAreNotShared == Spec => []DocAlone
<1>1. Init => ClaimInv
  BY ClaimInit
<1>2. ClaimInv /\ [Next]_vars => ClaimInv'
  BY ClaimStep
<1>3. ClaimInv => DocAlone
  BY DEF ClaimInv
<1> QED BY <1>1, <1>2, <1>3, PTL DEF Spec

-----------------------------------------------------------------------------
(* The rest of the state *)

\* The type of what no claim depends on.
OtherTypes ==
    /\ lock \in Worker \cup {None}
    /\ drained \in [Doc -> Nat] /\ applied \in [Doc -> Attempt]
    /\ clobbered \subseteq Doc /\ stranded \subseteq Doc
    /\ faults \in [Fault -> 0..MaxFault]

LEMMA FaultyTypes ==
    ASSUME OtherTypes, NEW k \in Fault, Faulty(k)
    PROVE  faults' \in [Fault -> 0..MaxFault]
<1>1. \A j \in Fault : faults[j] \in Nat
  BY DEF OtherTypes
<1>2. faults[k] + 1 \in 0..MaxFault
  BY <1>1, Constants DEF Faulty, Fault
<1> QED BY <1>2 DEF Faulty, OtherTypes

\* A release gives up slots, and takes none back.
LEMMA ReleaseTypes ==
    ASSUME OtherTypes, NEW D, Release(D)
    PROVE  /\ drained' \in [Doc -> Nat]
           /\ \A d \in Doc : drained'[d] >= drained[d]
           /\ \A d \in Doc \cap D : doc[d].stage = "finalizing" /\ doc[d].life = "live"
                                    => drained'[d] = drained[d] + 1
  BY DEF Release, OtherTypes

LEMMA DocumentOthers ==
    ASSUME OtherTypes, NEW d \in Doc,
           SeedFinalizing(d) \/ Reparse(d) \/ Cancel(d) \/ Tombstone(d) \/ Cleanup(d)
    PROVE  OtherTypes'
<1>1. UNCHANGED <<lock, applied>>
  BY DEF SeedFinalizing, Reparse, Cancel, Tombstone, Cleanup, ScrubDeleted, QueueRetract, Unlink, Scrub
<1>2. drained' = drained \/ drained' = [drained EXCEPT ![d] = 0]
  BY DEF SeedFinalizing, Reparse, Cancel, Tombstone, Cleanup, ScrubDeleted, QueueRetract, Unlink
<1>3. clobbered' \subseteq Doc /\ stranded' \subseteq Doc
  BY DEF SeedFinalizing, Reparse, Cancel, Tombstone, Cleanup, ScrubDeleted, QueueRetract, Unlink,
         Scrub, stains, OtherTypes
<1>4. faults' = faults \/ Faulty("error")
  BY DEF SeedFinalizing, Reparse, Cancel, Tombstone, Cleanup, ScrubDeleted, QueueRetract, Unlink,
         Scrub, budgets
<1>5. faults' \in [Fault -> 0..MaxFault]
  BY <1>4, FaultyTypes DEF OtherTypes, Fault
<1> QED BY <1>1, <1>2, <1>3, <1>5 DEF OtherTypes

\* A step of a batch spends one fault at most.
LEMMA BatchFaults ==
    ASSUME NEW w \in Worker, ClaimBatch(w) \/ Step(w) \/ Abort(w) \/ Crash(w)
    PROVE  faults' = faults \/ \E k \in Fault : Faulty(k)
<1>1. CASE MapPhase(w) \/ Abort(w) \/ Crash(w)
  BY <1>1 DEF MapPhase, Abort, Crash, Fails, Fault, budgets
<1>2. CASE DrainMapped(w) \/ TrimPendingList(w)
  BY <1>2 DEF DrainMapped, TrimPendingList, Fails, Fault, budgets
<1>3. CASE RequeueFailedOps(w)
  BY <1>3 DEF RequeueFailedOps, Fails, Fault, budgets
<1>4. CASE ClaimBatch(w) \/ TakeSlug(w) \/ CheckSources(w) \/ SavePage(w) \/ Conflict(w) \/ EndBatch(w)
  BY <1>4 DEF ClaimBatch, TakeSlug, CheckSources, SavePage, Conflict, EndBatch, Fails, Fault, budgets
<1> QED BY <1>1, <1>2, <1>3, <1>4 DEF Step

LEMMA WorkerOthers ==
    ASSUME ClaimTypes, OtherTypes, NEW w \in Worker,
           ClaimBatch(w) \/ Step(w) \/ Abort(w) \/ Crash(w)
    PROVE  OtherTypes'
<1>1. lock' \in {lock, None, w}
  BY DEF ClaimBatch, Step, MapPhase, TakeSlug, CheckSources, SavePage, Conflict, DrainMapped,
         TrimPendingList, RequeueFailedOps, EndBatch, Abort, Crash, Unlock
<1>2. drained' = drained \/ \E D : Release(D)
  <2>1. CASE MapPhase(w)
    BY <2>1 DEF MapPhase, FinalizeWikiSubtask
  <2>2. CASE DrainMapped(w) \/ RequeueFailedOps(w)
    BY <2>2 DEF DrainMapped, RequeueFailedOps, FinalizeWikiSubtask
  <2>3. CASE ClaimBatch(w) \/ TakeSlug(w) \/ CheckSources(w) \/ SavePage(w) \/ Conflict(w)
             \/ TrimPendingList(w) \/ EndBatch(w) \/ Abort(w) \/ Crash(w)
    BY <2>3 DEF ClaimBatch, TakeSlug, CheckSources, SavePage, Conflict, TrimPendingList, EndBatch, Abort, Crash
  <2> QED BY <2>1, <2>2, <2>3 DEF Step
<1>3. applied' \in [Doc -> Attempt]
  <2>1. CASE SavePage(w)
    <3>1. batch[w].said \in [Doc -> Attempt]
      BY RunTypes DEF Run
    <3> QED BY <2>1, <3>1 DEF SavePage, OtherTypes
  <2>2. CASE ~SavePage(w)
    BY <2>2 DEF ClaimBatch, Step, MapPhase, TakeSlug, CheckSources, Conflict, DrainMapped,
                TrimPendingList, RequeueFailedOps, EndBatch, Abort, Crash, OtherTypes
  <2> QED BY <2>1, <2>2
<1>4. clobbered' \subseteq Doc
  <2>1. CASE MapPhase(w)
    <3>1. \A i \in Chosen(w) : row[i].doc \in Doc
      BY RunTypes DEF Chosen, Run, ClaimTypes
    <3>2. PICK blind \in SUBSET Chosen(w) : clobbered' = clobbered \cup {row[j].doc : j \in blind}
      BY <2>1 DEF MapPhase
    <3> QED BY <3>1, <3>2 DEF OtherTypes
  <2>2. CASE ~MapPhase(w)
    BY <2>2 DEF ClaimBatch, Step, TakeSlug, CheckSources, SavePage, Conflict, DrainMapped,
                TrimPendingList, RequeueFailedOps, EndBatch, Abort, Crash, stains, OtherTypes
  <2> QED BY <2>1, <2>2
<1>8. stranded' \subseteq Doc
  <2>1. CASE MapPhase(w) \/ DrainMapped(w) \/ RequeueFailedOps(w)
    <3>1. PICK S, lost : FinalizeWikiSubtask(S, lost)
      <4>1. CASE MapPhase(w)
        BY <4>1 DEF MapPhase
      <4>2. CASE DrainMapped(w)
        BY <4>2 DEF DrainMapped
      <4>3. CASE RequeueFailedOps(w)
        BY <4>3 DEF RequeueFailedOps
      <4> QED BY <2>1, <4>1, <4>2, <4>3
    <3> QED BY <3>1 DEF FinalizeWikiSubtask, Releases, OtherTypes
  <2>2. CASE ~(MapPhase(w) \/ DrainMapped(w) \/ RequeueFailedOps(w))
    BY <2>2 DEF ClaimBatch, Step, TakeSlug, CheckSources, SavePage, Conflict,
                TrimPendingList, EndBatch, Abort, Crash, stains, OtherTypes
  <2> QED BY <2>1, <2>2
<1>5. faults' = faults \/ \E k \in Fault : Faulty(k)
  BY BatchFaults
<1>6. faults' \in [Fault -> 0..MaxFault]
  BY <1>5, FaultyTypes DEF OtherTypes
<1>7. drained' \in [Doc -> Nat]
  BY <1>2, ReleaseTypes DEF OtherTypes
<1> QED BY <1>1, <1>3, <1>4, <1>6, <1>7, <1>8 DEF OtherTypes

LEMMA OthersStep ==
    ASSUME ClaimTypes, OtherTypes, [Next]_vars
    PROVE  OtherTypes'
<1>1. CASE \E i \in Op : ClaimGoesStale(i)
  BY <1>1 DEF ClaimGoesStale, OtherTypes, stains, budgets
<1>2. CASE LockExpires
  <2>1. faults' \in [Fault -> 0..MaxFault]
    BY <1>2, FaultyTypes DEF LockExpires, Fails, Fault, budgets, OtherTypes
  <2> QED BY <1>2, <2>1 DEF LockExpires, OtherTypes, stains
<1>3. CASE DrainUnclaimedAndRelease
  <2>1. faults' \in [Fault -> 0..MaxFault]
    BY <1>3, FaultyTypes DEF DrainUnclaimedAndRelease, Fails, Fault
  <2>2. drained' \in [Doc -> Nat]
    BY <1>3, ReleaseTypes DEF DrainUnclaimedAndRelease
  <2> QED BY <1>3, <2>1, <2>2 DEF DrainUnclaimedAndRelease, OtherTypes, stains
<1>4. CASE DiscardUnclaimed
  <2>1. faults' \in [Fault -> 0..MaxFault]
    BY <1>4, FaultyTypes DEF DiscardUnclaimed, Fails, Fault
  <2> QED BY <1>4, <2>1 DEF DiscardUnclaimed, OtherTypes, stains
<1>5. CASE UNCHANGED vars
  BY <1>5 DEF vars, OtherTypes, stains, budgets
<1> QED BY <1>1, <1>2, <1>3, <1>4, <1>5, DocumentOthers, WorkerOthers DEF Next

LEMMA OthersInit ==
    ASSUME Init PROVE OtherTypes
<1>1. 0 \in Attempt
  BY Constants DEF Attempt
<1> QED BY <1>1, Constants DEF Init, OtherTypes, Nobody

\* Rows, documents, the page, the batches and the counts keep their types: no
\* attempt, fail count or number of rows passes its bound.
THEOREM WikiTyped == Spec => []TypeOK
<1>1. Init => ClaimTypes /\ OtherTypes
  BY ClaimInit, OthersInit DEF ClaimInv
<1>2. ClaimTypes /\ OtherTypes /\ [Next]_vars => (ClaimTypes /\ OtherTypes)'
  BY TypesStep, OthersStep
<1>3. ClaimTypes /\ OtherTypes => TypeOK
  BY DEF ClaimTypes, OtherTypes, TypeOK
<1> QED BY <1>1, <1>2, <1>3, PTL DEF Spec

=============================================================================
