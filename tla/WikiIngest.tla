----------------------------- MODULE WikiIngest -----------------------------
(***************************************************************************)
(* The ingest lane of a knowledge base's wiki with Redis (wiki_ingest.go,  *)
(* wiki_ingest_batch.go) over the durable queue task_pending_ops           *)
(* (repository/task_queue.go).  A document's post-process, reparse, cancel *)
(* and delete write and scrub rows; concurrent batches claim the rows of   *)
(* disjoint documents, map each document, rewrite the pages it touches,    *)
(* release the wiki's slot in the document's count of pending subtasks and *)
(* settle the rows.  One page stands for the slug the documents share.     *)
(***************************************************************************)
EXTENDS Integers, FiniteSets

CONSTANTS Doc, Worker, None,
          MaxOps,       \* bound on rows ever written to the queue
          MaxUser,      \* bound on reparses, cancels and deletes
          MaxFails,     \* wikiMaxFailRetries
          Batch,        \* documents a batch claims at most
          MaxFault      \* bound on faults

ASSUME ConstantsAreSound ==
    /\ None \notin Worker
    /\ IsFiniteSet(Doc)
    /\ {MaxUser, MaxFails, MaxFault} \subseteq Nat
    /\ {MaxOps, Batch} \subseteq Nat \ {0}

Op == 1..MaxOps
Attempt == 0..(MaxUser + 1)

\* crash: a worker dies in a batch.  error: a batch is aborted, or a write of its
\* settling, a release of a slot, a scrub or a look-up fails.  lapse: a slug lock is lost (TTL over, Redis error).
\* withdraw: a trigger finds the wiki unusable.
Fault == {"crash", "error", "lapse", "withdraw"}
Nobody == [d \in Doc |-> 0]

VARIABLES row,      \* task_pending_ops: what row i of the lane holds
          last,     \* rows written so far
          doc,      \* what the queue reads of a document
          page,     \* the shared page: absent, or its sources and their text
          batch,    \* the batch each worker runs
          lock,     \* holder of wiki:slug:<kb>:<slug>
          drained,  \* releases of the wiki's slot for the current attempt
          applied,  \* attempt of each document last written to the page
          torn,     \* documents whose row was scrubbed or released under a live batch
          clobbered, \* documents a clean-up of another one took off the page or put back,
                    \* and those whose retract could not look the page up
          stranded, \* documents whose slot was to be released and could not be
          users,    \* reparses, cancels and deletes so far
          faults    \* faults of each kind so far

queueVars == <<row, last>>
stains == <<torn, clobbered, stranded>>
budgets == <<users, faults>>
vars == <<row, last, doc, page, batch, lock, drained, applied, torn, clobbered, stranded,
          users, faults>>

-----------------------------------------------------------------------------

\* gone: carried out or scrubbed.  dropped: given up, archived or discarded.
Row == [st : {"free", "queued", "gone", "dropped"}, doc : Doc \cup {None}, op : {"ingest", "retract"},
        attempt : Attempt, fails : 0..(MaxFails + 1), claimed : BOOLEAN, hit : BOOLEAN]

\* stage: "parsing" until post-process hands the document to the wiki.
\* life:  the progress of cleanupWikiReferences.
Document == [stage : {"parsing", "finalizing", "cancelled"}, attempt : Attempt,
             life : {"live", "marked", "scrubbed", "queued", "deleted"},
             seen : SUBSET Doc]

Page == [there : BOOLEAN, refs : SUBSET Doc, text : [Doc -> Attempt]]

\* ops: claimed rows.  adds, drops: documents with an addition or a retract for
\* the page, said: the attempt whose text the addition carries.  fail: documents
\* whose op goes back to the queue.  snap: the page the rewrite started from.
Run == [pc : {"idle", "map", "reduce", "write", "save", "drain", "trim", "requeue", "end"},
        ops : SUBSET Op, adds : SUBSET Doc, drops : SUBSET Doc, ok : SUBSET Doc,
        said : [Doc -> Attempt], fail : SUBSET Doc, snap : Page,
        locks : BOOLEAN, err : BOOLEAN]

NoPage == [there |-> FALSE, refs |-> {}, text |-> Nobody]
Idle == [pc |-> "idle", ops |-> {}, adds |-> {}, drops |-> {}, ok |-> {},
         said |-> Nobody, fail |-> {}, snap |-> NoPage,
         locks |-> FALSE, err |-> FALSE]

Init ==
    /\ row = [i \in Op |-> [st |-> "free", doc |-> None, op |-> "ingest", attempt |-> 0,
                            fails |-> 0, claimed |-> FALSE, hit |-> FALSE]]
    /\ last = 0
    /\ doc = [d \in Doc |-> [stage |-> "parsing", attempt |-> 1, life |-> "live", seen |-> {}]]
    /\ page = NoPage
    /\ batch = [w \in Worker |-> Idle]
    /\ lock = None
    /\ drained = Nobody /\ applied = Nobody
    /\ torn = {} /\ clobbered = {} /\ stranded = {}
    /\ users = 0 /\ faults = [k \in Fault |-> 0]

\* A fault of kind k happens.
Faulty(k) ==
    /\ faults["crash"] + faults["error"] + faults["lapse"] + faults["withdraw"] < MaxFault
    /\ faults' = [faults EXCEPT ![k] = @ + 1]
Fails(k) == Faulty(k) /\ UNCHANGED users

-----------------------------------------------------------------------------
(* The queue *)

Queued(i) == row[i].st = "queued"
RowsOf(d) == {i \in Op : Queued(i) /\ row[i].doc = d}

\* A document with a claimed row is skipped as a whole.
ClaimableInPart(d) == \E i \in RowsOf(d) : ~row[i].claimed
Claimable(d) == RowsOf(d) # {} /\ \A i \in RowsOf(d) : ~row[i].claimed

\* Least failed first, then oldest, by the best row of each document.
Precedes(i, j) ==
    row[i].fails < row[j].fails \/ (row[i].fails = row[j].fails /\ i <= j)
Anchor(d) == CHOOSE i \in RowsOf(d) : \A j \in RowsOf(d) : Precedes(i, j)

NextKeys(K) ==
    /\ K # {} /\ K \subseteq {d \in Doc : Claimable(d)}
    /\ Cardinality(K) <= Batch
    /\ \A d \in K, e \in {x \in Doc : Claimable(x)} \ K : Precedes(Anchor(d), Anchor(e))
    /\ Cardinality(K) = Batch \/ K = {d \in Doc : Claimable(d)}

\* A user starts the wiki of one document (ClaimKnowledge).
Selected(K) == \E d \in Doc : Claimable(d) /\ K = {d}

Insert(d, op, a, hit) ==
    /\ last < MaxOps
    /\ last' = last + 1
    /\ row' = [row EXCEPT ![last + 1] =
                 [st |-> "queued", doc |-> d, op |-> op, attempt |-> a,
                  fails |-> 0, claimed |-> FALSE, hit |-> hit]]

Without(S) == [i \in Op |-> IF i \in S THEN [row[i] EXCEPT !.st = "gone", !.claimed = FALSE]
                                       ELSE row[i]]
Unclaimed(S) == [i \in Op |-> IF i \in S THEN [row[i] EXCEPT !.claimed = FALSE] ELSE row[i]]

\* The rows a batch has not settled yet, and the documents it works for.
Holds(w, i) == batch[w].pc \notin {"idle", "end"} /\ i \in batch[w].ops
Docs(w) == {row[i].doc : i \in {j \in Op : Holds(w, j)}}

\* Deletes the ingest rows of a document, those a running batch claimed too; a
\* failure is logged and the caller goes on.
Scrubbed(d) == {i \in RowsOf(d) : row[i].op = "ingest"}
TearsBatch(d) == \E i \in Scrubbed(d), w \in Worker : Holds(w, i)
Scrub(d) ==
    /\ \/ /\ row' = Without(Scrubbed(d))
          /\ torn' = IF TearsBatch(d) THEN torn \cup {d} ELSE torn
          /\ UNCHANGED faults
       \/ /\ Faulty("error")
          /\ UNCHANGED <<row, torn>>
    /\ UNCHANGED <<last, page, batch, lock, applied, clobbered>>

-----------------------------------------------------------------------------
(* The document's side *)

Gone(d) == doc[d].life # "live" \/ doc[d].stage = "cancelled"

\* Post-process: the finalizing count and the row that owns one slot of it.
SeedFinalizing(d) ==
    /\ doc[d].stage = "parsing" /\ doc[d].life = "live"
    /\ Insert(d, "ingest", doc[d].attempt, FALSE)
    /\ doc' = [doc EXCEPT ![d].stage = "finalizing"]
    /\ drained' = [drained EXCEPT ![d] = 0]
    /\ stranded' = stranded \ {d}
    /\ UNCHANGED <<page, batch, lock, applied, torn, clobbered, budgets>>

\* A reparse, a cancel or a delete of a document that was not deleted.
Asked(d) ==
    /\ doc[d].life = "live" /\ users < MaxUser
    /\ users' = users + 1

\* Reparse: a new attempt, the queued ingest scrubbed, the count zeroed.  A drain
\* between the three accesses is superseded by the first or undone by the last.
Reparse(d) ==
    /\ Asked(d)
    /\ Scrub(d)
    /\ doc' = [doc EXCEPT ![d] = [@ EXCEPT !.stage = "parsing", !.attempt = doc[d].attempt + 1]]
    /\ drained' = [drained EXCEPT ![d] = 0]
    /\ stranded' = stranded \ {d}

Cancel(d) ==
    /\ Asked(d) /\ doc[d].stage # "cancelled"
    /\ Scrub(d)
    /\ doc' = [doc EXCEPT ![d].stage = "cancelled"]
    /\ UNCHANGED <<drained, stranded>>

\* cleanupWikiReferences, in its four accesses: tombstone, scrub, list the pages
\* and queue the retract, take the document off the listed pages.
Tombstone(d) ==
    /\ Asked(d)
    /\ doc' = [doc EXCEPT ![d].life = "marked"]
    /\ UNCHANGED <<queueVars, page, batch, lock, drained, applied, stains, faults>>

ScrubDeleted(d) ==
    /\ doc[d].life = "marked"
    /\ Scrub(d)
    /\ doc' = [doc EXCEPT ![d].life = "scrubbed"]
    /\ UNCHANGED <<drained, stranded, users>>

QueueRetract(d) ==
    /\ doc[d].life = "scrubbed"
    /\ Insert(d, "retract", 0, d \in page.refs)
    /\ doc' = [doc EXCEPT ![d] = [@ EXCEPT !.life = "queued", !.seen = page.refs]]
    /\ UNCHANGED <<page, batch, lock, drained, applied, stains, budgets>>

\* It deletes the page by its slug, or writes back the sources it listed: neither
\* looks at what a batch has written since.
Unlink(d) ==
    LET rest == doc[d].seen \ {d} IN
    /\ doc[d].life = "queued"
    /\ page' = IF d \notin doc[d].seen \/ ~page.there THEN page
               ELSE IF rest = {} THEN NoPage
               ELSE [page EXCEPT !.refs = rest]
    /\ doc' = [doc EXCEPT ![d] = [@ EXCEPT !.life = "deleted", !.seen = {}]]
    /\ clobbered' = clobbered \cup {e \in Doc \ {d} : (e \in page.refs) # (e \in page'.refs)}
    /\ UNCHANGED <<queueVars, batch, lock, drained, applied, torn, stranded, budgets>>

-----------------------------------------------------------------------------
(* A batch *)

\* The newest claimed row of a document is the one that is carried out.
Chosen(w) == {i \in batch[w].ops : \A j \in batch[w].ops : row[j].doc = row[i].doc => j <= i}
ChosenFor(w, D) == {i \in Chosen(w) : row[i].doc \in D}

ClaimBatch(w) ==
    /\ batch[w].pc = "idle"
    /\ \E K \in SUBSET Doc :
         LET S == UNION {RowsOf(d) : d \in K} IN
         /\ NextKeys(K) \/ Selected(K)
         /\ row' = [i \in Op |-> IF i \in S THEN [row[i] EXCEPT !.claimed = TRUE] ELSE row[i]]
         /\ batch' = [batch EXCEPT ![w] = [Idle EXCEPT !.pc = "map", !.ops = S]]
    /\ UNCHANGED <<last, doc, page, lock, drained, applied, stains, budgets>>

\* The count of pending subtasks gives up a slot only while the document waits.
Release(D) ==
    drained' = [d \in Doc |-> IF d \in D /\ doc[d].stage = "finalizing" /\ doc[d].life = "live"
                              THEN drained[d] + 1 ELSE drained[d]]

\* Whose slot the ops in S give back: not that of an op of an older attempt.
Releases(S) == {d \in Doc : \E i \in S : row[i].doc = d /\ row[i].op = "ingest"
                                          /\ row[i].attempt = doc[d].attempt}

\* finalizeWikiSubtask for the ops in S.  A release that fails three times, or for
\* ten seconds, is logged and given up; the batch goes on as if it was made.
FinalizeWikiSubtask(S, lost) ==
    /\ lost \subseteq Releases(S)
    /\ Release(Releases(S) \ lost)
    /\ stranded' = stranded \cup lost

\* A retract works on the pages its payload names and those that name the document now.
TouchesListed(j) == row[j].hit
Touches(j) == row[j].hit \/ row[j].doc \in page.refs

\* Every document: gone, or without chunks or text, it is skipped and its slot
\* released; otherwise its text is extracted, or the extraction fails.  The look-up
\* of a retract's pages may fail, too; that is logged.
MapPhase(w) ==
    LET I == {i \in Chosen(w) : row[i].op = "ingest"}
        R == {i \in Chosen(w) : row[i].op = "retract"} IN
    /\ batch[w].pc = "map"
    /\ \E skip \in SUBSET I, F \in SUBSET I, blind \in SUBSET R, lost \in SUBSET Doc :
         LET ok == {row[i].doc : i \in I \ (skip \cup F)}
             hits == {j \in R : row[j].hit}
             drops == {row[i].doc : i \in hits \cup {j \in R \ blind : Touches(j)}} IN
         /\ {i \in I : Gone(row[i].doc)} \subseteq skip /\ skip \cap F = {}
         /\ batch' = [batch EXCEPT ![w] =
                        [@ EXCEPT !.ok = ok, !.adds = ok, !.drops = drops,
                                  !.said = [d \in Doc |-> IF d \in ok THEN doc[d].attempt ELSE 0],
                                  !.fail = {row[i].doc : i \in F},
                                  !.pc = IF ok \cup drops = {} THEN "drain" ELSE "reduce"]]
         /\ FinalizeWikiSubtask(skip, lost)
         /\ IF blind = {} /\ lost = {} THEN UNCHANGED budgets ELSE Fails("error")
         /\ clobbered' = clobbered \cup {row[j].doc : j \in blind}
    /\ UNCHANGED <<queueVars, doc, page, lock, applied, torn>>

LiveAdds(w) == {d \in batch[w].adds : ~Gone(d)}

\* The rewrite is over, and forgotten.
Reduced(w) == [batch[w] EXCEPT !.pc = "drain", !.adds = {}, !.drops = {}, !.said = Nobody,
                               !.snap = NoPage, !.locks = FALSE]

\* The documents of a slug whose update did not land go back to the queue.
Unapplied(w) == [Reduced(w) EXCEPT !.fail = @ \cup batch[w].ok \cup batch[w].drops]

\* The DEL of the slug lock names no owner.
Unlock(w) == lock' = IF batch[w].locks THEN None ELSE lock

\* Nothing to write: no live addition, and no page a retract could change.
Idles(w) == LiveAdds(w) = {} /\ (batch[w].drops = {} \/ ~page.there)

\* withSlugLock and the first read of the page.  A Redis error lets the rewrite
\* run without the lock; a lock that stays busy gives the slug up.
TakeSlug(w) ==
    /\ batch[w].pc = "reduce"
    /\ \/ /\ lock # None
          /\ batch' = [batch EXCEPT ![w] = Unapplied(w)]
          /\ UNCHANGED <<lock, budgets>>
       \/ \E got \in BOOLEAN :
            /\ IF got THEN lock = None /\ UNCHANGED budgets ELSE Fails("lapse")
            /\ lock' = IF got /\ ~Idles(w) THEN w ELSE lock
            /\ batch' = [batch EXCEPT ![w] =
                           IF Idles(w) THEN Reduced(w)
                           ELSE [@ EXCEPT !.adds = LiveAdds(w), !.snap = page,
                                          !.locks = got, !.pc = "write"]]
    /\ UNCHANGED <<queueVars, doc, page, drained, applied, stains>>

\* The model has rewritten the page, or failed; the sources are looked up again.
CheckSources(w) ==
    /\ batch[w].pc = "write"
    /\ \/ /\ LiveAdds(w) = batch[w].adds
          /\ batch' = [batch EXCEPT ![w].pc = "save"]
          /\ UNCHANGED lock
       \/ /\ batch' = [batch EXCEPT ![w] = Unapplied(w)]
          /\ Unlock(w)
    /\ UNCHANGED <<queueVars, doc, page, drained, applied, stains, budgets>>

Rewritten(w) ==
    [there |-> TRUE, refs |-> (batch[w].snap.refs \ batch[w].drops) \cup batch[w].adds,
     text |-> [d \in Doc |-> IF d \in batch[w].adds THEN batch[w].said[d]
                             ELSE IF d \in batch[w].drops THEN 0 ELSE batch[w].snap.text[d]]]

\* UpdatePage lands only on the page that was read, CreatePage only where there
\* is none.
LandsAnyway(w) == page.there = batch[w].snap.there
Lands(w) == page = batch[w].snap

SavePage(w) ==
    /\ batch[w].pc = "save" /\ Lands(w)
    /\ page' = Rewritten(w)
    /\ applied' = [d \in Doc |-> IF d \in batch[w].adds /\ applied[d] < batch[w].said[d]
                                 THEN batch[w].said[d] ELSE applied[d]]
    /\ batch' = [batch EXCEPT ![w] = Reduced(w)]
    /\ Unlock(w)
    /\ UNCHANGED <<queueVars, doc, drained, stains, budgets>>

\* A page that changed is read again with the sources that are left, three times
\* at most; one that was deleted or created since is an error.
Conflict(w) ==
    /\ batch[w].pc = "save" /\ ~Lands(w)
    /\ \/ /\ ~Idles(w) /\ page.there /\ batch[w].snap.there
          /\ batch' = [batch EXCEPT ![w] = [@ EXCEPT !.adds = LiveAdds(w), !.snap = page, !.pc = "write"]]
          /\ UNCHANGED lock
       \/ /\ batch' = [batch EXCEPT ![w] =
                          IF Idles(w) /\ page.there THEN Reduced(w) ELSE Unapplied(w)]
          /\ Unlock(w)
    /\ UNCHANGED <<queueVars, doc, page, drained, applied, stains, budgets>>

\* The slots of the documents whose pages are written.
DrainMappedAll(w) ==
    /\ batch[w].pc = "drain"
    /\ \E lost \in SUBSET Doc :
         /\ FinalizeWikiSubtask(ChosenFor(w, batch[w].ok), lost)
         /\ IF lost = {} THEN UNCHANGED budgets ELSE Fails("error")
    /\ batch' = [batch EXCEPT ![w].pc = "trim"]
    /\ UNCHANGED <<queueVars, doc, page, lock, applied, torn, clobbered>>

DrainMapped(w) ==
    /\ batch[w].pc = "drain"
    /\ \E lost \in SUBSET Doc :
         /\ FinalizeWikiSubtask(ChosenFor(w, batch[w].ok \ batch[w].fail), lost)
         /\ IF lost = {} THEN UNCHANGED budgets ELSE Fails("error")
    /\ batch' = [batch EXCEPT ![w].pc = "trim"]
    /\ UNCHANGED <<queueVars, doc, page, lock, applied, torn, clobbered>>

FailedOpsOfMap(w) == ChosenFor(w, batch[w].fail \ batch[w].ok)
FailedOps(w) == ChosenFor(w, batch[w].fail)

\* The batch as its settling leaves it: over, unless a row is still to be put back.
Settling(w, ops, pc) ==
    batch' = [batch EXCEPT ![w] = IF ops = {} /\ ~@.err THEN Idle ELSE [@ EXCEPT !.ops = ops, !.pc = pc]]

\* Deletes every claimed row that did not fail; after a failed delete the batch
\* still puts the failed ops back, and ends with an error.
TrimPendingList(w) ==
    /\ batch[w].pc = "trim"
    /\ \/ /\ row' = Without({i \in batch[w].ops : Queued(i)} \ FailedOps(w))
          /\ Settling(w, FailedOps(w), "requeue")
          /\ UNCHANGED budgets
       \/ /\ Fails("error")
          /\ batch' = [batch EXCEPT ![w] = [@ EXCEPT !.err = TRUE, !.pc = "requeue"]]
          /\ UNCHANGED row
    /\ UNCHANGED <<last, doc, page, lock, drained, applied, stains>>

ExhaustedAt(i) == row[i].fails = MaxFails
Exhausted(i) == row[i].fails >= MaxFails

\* A failed op is released for another batch until it has used up its retries;
\* then its slot is released and its row archived and deleted, or the delete fails;
\* the row goes although the release failed.
\* A row that was scrubbed has no fail count to raise.
RequeueFailedOps(w) ==
    LET F == {i \in FailedOps(w) : Queued(i)}
        over == {i \in F : Exhausted(i)}
        counted == [i \in Op |-> IF i \in over THEN [row[i] EXCEPT !.fails = MaxFails + 1]
                                 ELSE IF i \in F THEN [row[i] EXCEPT !.fails = @ + 1, !.claimed = FALSE]
                                 ELSE row[i]] IN
    /\ batch[w].pc = "requeue"
    /\ \E lost \in SUBSET Doc :
         /\ FinalizeWikiSubtask(over, lost)
         /\ \/ /\ row' = [i \in Op |-> IF i \in over
                                      THEN [counted[i] EXCEPT !.st = "dropped", !.claimed = FALSE]
                                      ELSE counted[i]]
               /\ Settling(w, IF batch[w].err THEN batch[w].ops ELSE {}, "end")
               /\ IF lost = {} THEN UNCHANGED budgets ELSE Fails("error")
            \/ /\ over # {} /\ Fails("error")
               /\ row' = counted
               /\ batch' = [batch EXCEPT ![w] = [@ EXCEPT !.err = TRUE, !.pc = "end"]]
    /\ UNCHANGED <<last, doc, page, lock, applied, torn, clobbered>>

\* The deferred release of the claims of a batch that did not settle: all of them,
\* a row put back already and claimed by another batch too.
EndBatch(w) ==
    /\ batch[w].pc = "end"
    /\ row' = Unclaimed(batch[w].ops)
    /\ torn' = torn \cup {row[i].doc : i \in {j \in batch[w].ops : \E v \in Worker : Holds(v, j)}}
    /\ batch' = [batch EXCEPT ![w] = Idle]
    /\ UNCHANGED <<last, doc, page, lock, drained, applied, clobbered, stranded, budgets>>

\* The batch's context ends before it settles: the claims are released.
Abort(w) ==
    /\ batch[w].pc \in {"map", "reduce", "write"} /\ Fails("error")
    /\ row' = Unclaimed(batch[w].ops)
    /\ batch' = [batch EXCEPT ![w] = Idle]
    /\ Unlock(w)
    /\ UNCHANGED <<last, doc, page, drained, applied, stains>>

-----------------------------------------------------------------------------
(* What goes on around the batches *)

\* A worker dies: its claims and its slug lock stay behind.
Crash(w) ==
    /\ batch[w].pc # "idle" /\ Fails("crash")
    /\ batch' = [batch EXCEPT ![w] = Idle]
    /\ UNCHANGED <<queueVars, doc, page, lock, drained, applied, stains>>

\* 90 minutes after the claim, 30 after the longest batch.
ClaimGoesStale(i) ==
    /\ Queued(i) /\ row[i].claimed /\ \A w \in Worker : i \notin batch[w].ops
    /\ row' = Unclaimed({i})
    /\ UNCHANGED <<last, doc, page, batch, lock, drained, applied, stains, budgets>>

\* The TTL of the slug lock: behind a holder that died, or under one.
Orphaned(w) == batch[w].pc \notin {"write", "save"} \/ ~batch[w].locks
LockExpires ==
    /\ lock # None
    /\ IF Orphaned(lock) THEN UNCHANGED budgets ELSE Fails("lapse")
    /\ lock' = None
    /\ UNCHANGED <<queueVars, doc, page, batch, drained, applied, stains>>

\* A trigger finds the wiki switched off or without a model: the ingest rows of
\* documents no batch holds are deleted and a slot of each is released, without
\* a look at the attempt, in one transaction.
DrainUnclaimedAndRelease ==
    LET S == {i \in Op : Queued(i) /\ row[i].op = "ingest" /\ Claimable(row[i].doc)} IN
    /\ S # {} /\ Fails("withdraw")
    /\ row' = Without(S)
    /\ Release({row[i].doc : i \in S})
    /\ UNCHANGED <<last, doc, page, batch, lock, applied, stains>>

\* The same where pages are to be written by hand: the retracts go too.
DiscardUnclaimed ==
    LET S == {i \in Op : Queued(i) /\ row[i].op = "retract" /\ Claimable(row[i].doc)} IN
    /\ S # {} /\ Fails("withdraw")
    /\ row' = [i \in Op |-> IF i \in S THEN [row[i] EXCEPT !.st = "dropped"] ELSE row[i]]
    /\ UNCHANGED <<last, doc, page, batch, lock, drained, applied, stains>>

-----------------------------------------------------------------------------

Step(w) ==
    \/ MapPhase(w) \/ TakeSlug(w) \/ CheckSources(w) \/ SavePage(w) \/ Conflict(w)
    \/ DrainMapped(w) \/ TrimPendingList(w) \/ RequeueFailedOps(w) \/ EndBatch(w)

Cleanup(d) == ScrubDeleted(d) \/ QueueRetract(d) \/ Unlink(d)

Next ==
    \/ \E d \in Doc : SeedFinalizing(d) \/ Reparse(d) \/ Cancel(d) \/ Tombstone(d) \/ Cleanup(d)
    \/ \E w \in Worker : ClaimBatch(w) \/ Step(w) \/ Abort(w) \/ Crash(w)
    \/ \E i \in Op : ClaimGoesStale(i)
    \/ LockExpires
    \/ DrainUnclaimedAndRelease
    \/ DiscardUnclaimed

Spec == Init /\ [][Next]_vars

\* Workers run; a trigger is always there while rows are (WikiTriggers); time
\* passes for claims and locks; a clean-up that failed is delivered again.
FairSpec ==
    /\ Spec
    /\ \A w \in Worker : WF_vars(Step(w))
    /\ WF_vars(\E w \in Worker : ClaimBatch(w))
    /\ \A i \in Op : WF_vars(ClaimGoesStale(i))
    /\ \A d \in Doc : WF_vars(Cleanup(d))
    /\ WF_vars(LockExpires)

-----------------------------------------------------------------------------
(* What the ingest lane promises *)

TypeOK ==
    /\ row \in [Op -> Row] /\ last \in 0..MaxOps
    /\ doc \in [Doc -> Document]
    /\ page \in Page
    /\ batch \in [Worker -> Run]
    /\ lock \in Worker \cup {None}
    /\ drained \in [Doc -> Nat] /\ applied \in [Doc -> Attempt]
    /\ torn \subseteq Doc /\ clobbered \subseteq Doc /\ stranded \subseteq Doc
    /\ users \in 0..MaxUser /\ faults \in [Fault -> 0..MaxFault]

\* Two batches never work for one document at once, since a key with a claim is
\* passed over as a whole, however its rows fail, go back or come late; the
\* exception is a document whose rows were scrubbed or released under its batch.
DocAlone ==
    \A v, w \in Worker : v # w => Docs(v) \cap Docs(w) \subseteq torn

\* A document that waits for its wiki slot has a row of its current attempt in the
\* queue: no trim, retry, dead letter or withdrawal leaves it waiting for nothing.
\* The exception is a document whose slot could not be released when its row was
\* carried out: it waits for the housekeeping sweep.
SlotHasRow ==
    \A d \in Doc \ stranded : doc[d].stage = "finalizing" /\ doc[d].life = "live" /\ drained[d] = 0
                  => \E i \in RowsOf(d) : row[i].op = "ingest" /\ row[i].attempt = doc[d].attempt

\* The wiki's slot is released once for a parse attempt, and once more at most for
\* every batch that died or failed to settle after it released.
DrainedOnce == \A d \in Doc : drained[d] <= 1 + faults["crash"] + faults["error"]

\* The text a batch wrote for a live document stays on the shared page, whatever
\* other batches write there, with the slug lock lost or never had: the rewrite
\* lands only on the page it was made from.
ContributionKept ==
    \A d \in Doc \ (torn \cup clobbered) :
        doc[d].life = "live" => page.text[d] = applied[d] /\ (applied[d] > 0 => d \in page.refs)

Settled(d) == RowsOf(d) = {} /\ \A w \in Worker : d \notin Docs(w)
OffThePage(d) == d \notin page.refs
GivenUp(d) == \E i \in Op : row[i].doc = d /\ row[i].op = "retract" /\ row[i].st = "dropped"

\* A deleted document whose operations are all done is off the page, unless its
\* retract was archived or discarded: no stale rewrite puts it back.
NoGhost ==
    \A d \in Doc \ (torn \cup clobbered) :
        doc[d].life = "deleted" /\ Settled(d) => OffThePage(d) \/ GivenUp(d)

\* The same of the documents scrubbed under a batch: ClaimBatch's comment says that
\* a key is never split across batches, lest a stale ingest resurrect the document.
DeletedStaysOff ==
    \A d \in Doc \ clobbered :
        doc[d].life = "deleted" /\ Settled(d) => OffThePage(d) \/ GivenUp(d)

\* Every row of the queue is worked off, by success, skip or the end of its retries,
\* although batches die with their claims and the slug is contended.
RowsSettle == \A i \in Op : Queued(i) ~> ~Queued(i)
=============================================================================
