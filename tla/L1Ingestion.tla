---------------------------- MODULE L1Ingestion ----------------------------
(***************************************************************************)
(* data-transport-layer, l1-ingestion/service.ts with its handlers and the *)
(* transport database: the loop that copies the enqueued transactions and  *)
(* the state batches from the events of L1 into the database the L2 node   *)
(* and the relayer read (eigenUpgradeEnable: transaction batches come from *)
(* the DA layer).  A batch stands for its one state root.                  *)
(*                                                                         *)
(* L1 and its provider are external: L1 replaces blocks that have fewer    *)
(* than Confirmations blocks on top, the provider may report an old block  *)
(* number and may leave events out of an answer.                           *)
(***************************************************************************)
EXTENDS Integers, FiniteSets, FiniteSetsExt

CONSTANTS
    Confirmations,
    LogsPerPollingInterval,     \* blocks of a sync, at most
    MaxTip,                     \* bound on the L1 chain
    MaxEvents,                  \* bound on the events, replaced ones included
    MaxTroubles                 \* bound on reorganisations, events the provider leaves
                                \* out, old block numbers and crashes, together

ASSUME IngestionConstants ==
    Confirmations \in Nat \ {0} /\ LogsPerPollingInterval \in Nat \ {0}

VARIABLES
    log, tip, maxTip,   \* L1: its events, its height, its greatest height so far
    highestSynced, stateRootCacheHeight,
    enqueues, stateBatches, roots, cached,   \* entries by index
    latestEnqueue, latestBatch,         \* the ":latest" keys
    pc, target, head,                   \* the loop
    events, reorgs, faults, misses,     \* so far
    missed                              \* the events ever left out

l1 == <<log, tip, maxTip, events, reorgs>>
db == <<highestSynced, stateRootCacheHeight, enqueues, stateBatches, roots, cached,
        latestEnqueue, latestBatch>>
ingestionVars == <<l1, db, pc, target, head, faults, misses, missed>>

None == -1

IngestionInit ==
    /\ log = {} /\ tip = 0 /\ maxTip = 0
    /\ highestSynced = 0 /\ stateRootCacheHeight = 0
    /\ enqueues = << >> /\ stateBatches = << >> /\ roots = << >> /\ cached = << >>
    /\ latestEnqueue = None /\ latestBatch = None
    /\ pc = "idle" /\ target = 0 /\ head = 0
    /\ events = 0 /\ reorgs = 0 /\ faults = 0 /\ misses = 0 /\ missed = {}

-----------------------------------------------------------------------------
\* External: L1.

troubles == reorgs + faults + misses

\* The order of the events is the order of their identifiers.
last(es) == CHOOSE e \in es : \A d \in es : d.id <= e.id
before(es, e) == {d \in es : d.id < e.id}

OfKind(k) == {e \in log : e.kind = k}

\* What may be appended next: the queue grows, a state batch follows the last
\* one or takes the index of one that was deleted with all after it.
nextIndexes(k) ==
    LET next == IF OfKind(k) = {} THEN 0 ELSE last(OfKind(k)).index + 1
    IN  IF k = "TransactionEnqueued" THEN {next} ELSE 0 .. next

\* An event in the block on top of the tip.
emit ==
    /\ events < MaxEvents /\ tip < MaxTip
    /\ \E k \in {"TransactionEnqueued", "StateBatchAppended"} : \E i \in nextIndexes(k) :
         log' = log \cup {[id |-> events, kind |-> k, index |-> i, block |-> tip + 1]}
    /\ events' = events + 1
    /\ UNCHANGED <<tip, maxTip, db, pc, target, head, reorgs, faults, misses, missed>>

newBlock ==
    /\ tip < MaxTip
    /\ tip' = tip + 1
    /\ maxTip' = IF tip + 1 > maxTip THEN tip + 1 ELSE maxTip
    /\ UNCHANGED <<log, events, reorgs, db, pc, target, head, faults, misses, missed>>

final == IF maxTip < Confirmations THEN 0 ELSE maxTip - Confirmations

reorg ==
    /\ troubles < MaxTroubles
    /\ reorgs' = reorgs + 1
    /\ \E h \in final .. tip - 1 :
         /\ tip' = h
         /\ log' = {e \in log : e.block <= h}
    /\ UNCHANGED <<maxTip, events, db, pc, target, head, faults, misses, missed>>

\* The answers the provider may give for a range of mined blocks.
mined(k, from, to) == {e \in OfKind(k) : e.block \in from .. to /\ e.block <= tip}

answers(k, from, to) ==
    {es \in SUBSET mined(k, from, to) :
        \/ es = mined(k, from, to)
        \/ troubles + Cardinality(mined(k, from, to) \ es) <= MaxTroubles}

leftOut(k, from, to, es) ==
    LET out == mined(k, from, to) \ es
    IN  missed' = missed \cup {e.id : e \in out} /\ misses' = misses + Cardinality(out)

-----------------------------------------------------------------------------
\* The database.

indexes(es) == {e.index : e \in es}

\* _putEntries: an entry replaces the one of its index.
putEntries(entries, es) ==
    [i \in DOMAIN entries \cup indexes(es) |->
        IF i \in indexes(es) THEN last({e \in es : e.index = i}) ELSE entries[i]]

\* _putLatestEntry keeps the greatest index.
putLatest(latest, es) == Max({latest} \cup indexes(es))

delEntries(entries, es) == [i \in DOMAIN entries \ indexes(es) |-> entries[i]]

\* Slip: any.
hasPredecessor_All(entries, es, e) == TRUE

\* The check of storeEvent: the entry before this one is stored, or was just now.
hasPredecessor(entries, es, e) ==
    e.index > 0 => e.index - 1 \in DOMAIN entries \cup indexes(before(es, e))

\* The events stored before the first one that storeEvent refuses.
accepted(entries, es) ==
    {e \in es : \A d \in before(es, e) \cup {e} : hasPredecessor(entries, es, d)}

\* What may have been stored when the process ends.
prefixes(es) == {part \in SUBSET es : \A e \in part : before(es, e) \subseteq part}

butLast(es) == {d \in es : \E e \in es : d.id < e.id}

storeEnqueues(entries, pointers) ==
    /\ enqueues' = putEntries(enqueues, entries)
    /\ latestEnqueue' = putLatest(latestEnqueue, pointers)

\* Slip: roots that are there stay.
storeBatches_KeepRoots(entries, pointers, values, deletes) ==
    /\ stateBatches' = putEntries(stateBatches, entries)
    /\ latestBatch' = putLatest(latestBatch, pointers)
    /\ roots' = putEntries(roots, {e \in values : e.index \notin DOMAIN roots})
    /\ cached' = delEntries(cached, deletes)

\* The puts of the events of StateBatchAppended: the entry, the pointer to
\* the latest one, the roots; then what was cached is deleted.
storeBatches(entries, pointers, values, deletes) ==
    /\ stateBatches' = putEntries(stateBatches, entries)
    /\ latestBatch' = putLatest(latestBatch, pointers)
    /\ roots' = putEntries(roots, values)
    /\ cached' = delEntries(cached, deletes)

-----------------------------------------------------------------------------
\* _start.  Its state between two iterations is in the database.

endLoop == pc' = "idle" /\ target' = 0 /\ head' = 0

Smaller(a, b) == IF a < b THEN a ELSE b
Larger(a, b) == IF a > b THEN a ELSE b

confirmed(current) == current - Confirmations

\* The start of an iteration; L1 is older than the confirmations.  At the
\* head it looks for unconfirmed batches.
poll ==
    /\ pc = "idle"
    /\ \E current \in {tip, tip - 1} :
         /\ current >= Confirmations
         /\ \/ current = tip /\ UNCHANGED faults
            \/ current < tip /\ troubles < MaxTroubles /\ faults' = faults + 1
         /\ head' = current
         /\ target' = Smaller(highestSynced + LogsPerPollingInterval, confirmed(current))
         /\ \/ highestSynced # target' /\ pc' = "enqueued"
            \/ /\ highestSynced = target' /\ target' = confirmed(current)
               /\ Larger(stateRootCacheHeight, target') < current - 1
               /\ pc' = "cached"
    /\ UNCHANGED <<l1, db, misses, missed>>

\* Slip: from the block after the last good element.
rewound_After(lastGood) == lastGood.block + 1

\* Where to go back to for a missing element.
rewound(lastGood) == lastGood.block

\* The handling of MissingElementError.  Without a last good element the
\* process ends, and is started again.
recover(latest, entries) ==
    /\ endLoop
    /\ highestSynced' = IF latest = None THEN highestSynced ELSE rewound(entries[latest])

syncEnqueued ==
    /\ pc = "enqueued"
    /\ \E es \in answers("TransactionEnqueued", highestSynced, target) :
         LET done == accepted(enqueues, es)
         IN  /\ leftOut("TransactionEnqueued", highestSynced, target, es)
             /\ storeEnqueues(done, done)
             /\ \/ done = es /\ pc' = "batches" /\ UNCHANGED <<target, head, highestSynced>>
                \/ done # es /\ recover(latestEnqueue', enqueues')
    /\ UNCHANGED <<l1, stateRootCacheHeight, stateBatches, roots, cached, latestBatch, faults>>

\* Slip: the block number of this iteration.
synced_Head == head

synced == target

syncBatches ==
    /\ pc = "batches"
    /\ \E es \in answers("StateBatchAppended", highestSynced, target) :
         LET done == accepted(stateBatches, es)
         IN  /\ leftOut("StateBatchAppended", highestSynced, target, es)
             /\ storeBatches(done, done, done, done)
             /\ \/ done = es /\ endLoop /\ highestSynced' = synced
                \/ done # es /\ recover(latestBatch', stateBatches')
    /\ UNCHANGED <<l1, stateRootCacheHeight, enqueues, latestEnqueue, faults>>

\* handleEventsStateCachedBatchAppended asks for no predecessor.
syncCached ==
    LET from == Larger(stateRootCacheHeight, target)
    IN  /\ pc = "cached"
        /\ \E es \in answers("StateBatchAppended", from, head - 1) :
             /\ leftOut("StateBatchAppended", from, head - 1, es)
             /\ cached' = putEntries(cached, es)
        /\ stateRootCacheHeight' = head - 1
        /\ endLoop
        /\ UNCHANGED <<l1, highestSynced, enqueues, stateBatches, roots, latestEnqueue, latestBatch,
                       faults>>

\* The process ends within the puts of an event, or after the last one, or a
\* call fails; it starts again.
crash ==
    /\ troubles < MaxTroubles
    /\ faults' = faults + 1
    /\ endLoop
    /\ UNCHANGED <<l1, highestSynced, stateRootCacheHeight>>

crashEnqueued ==
    /\ pc = "enqueued" /\ crash
    /\ \E es \in answers("TransactionEnqueued", highestSynced, target) :
         /\ leftOut("TransactionEnqueued", highestSynced, target, es)
         /\ \E done \in prefixes(accepted(enqueues, es)) :
            \E pointers \in {done, butLast(done)} : storeEnqueues(done, pointers)
    /\ UNCHANGED <<stateBatches, roots, cached, latestBatch>>

crashBatches ==
    /\ pc = "batches" /\ crash
    /\ \E es \in answers("StateBatchAppended", highestSynced, target) :
         /\ leftOut("StateBatchAppended", highestSynced, target, es)
         /\ \E done \in prefixes(accepted(stateBatches, es)) :
            \E pointers, values, deletes \in {done, butLast(done)} :
              /\ deletes \subseteq values /\ values \subseteq pointers
              /\ storeBatches(done, pointers, values, deletes)
    /\ UNCHANGED <<enqueues, latestEnqueue>>

crashCached ==
    /\ pc = "cached" /\ crash
    /\ \E es \in answers("StateBatchAppended", Larger(stateRootCacheHeight, target), head - 1) :
         \E done \in prefixes(es) :
           /\ leftOut("StateBatchAppended", Larger(stateRootCacheHeight, target), head - 1, es)
           /\ cached' = putEntries(cached, done)
    /\ UNCHANGED <<enqueues, latestEnqueue, stateBatches, roots, latestBatch>>

Service == poll \/ syncEnqueued \/ syncBatches \/ syncCached

IngestionNext ==
    \/ emit \/ newBlock \/ reorg
    \/ Service \/ crashEnqueued \/ crashBatches \/ crashCached

\* The loop goes on as long as the service runs; L1 goes on.
IngestionSpec ==
    /\ IngestionInit /\ [][IngestionNext]_ingestionVars
    /\ WF_ingestionVars(Service) /\ WF_ingestionVars(newBlock)

-----------------------------------------------------------------------------
(* What is stored of the queue is a prefix of L1's queue, element by element *)
(* the event L1 ends with: no reorganisation, old block number, crash,       *)
(* omission or rewind leaves a gap or an element of a replaced block.        *)
EntriesArePrefix ==
    \A i \in DOMAIN enqueues :
        /\ {e \in OfKind("TransactionEnqueued") : e.index = i} = {enqueues[i]}
        /\ i > 0 => i - 1 \in DOMAIN enqueues

(* A stored batch below the highest synced block has its own roots, although *)
(* the entry is put before the roots: a crash in between comes before the    *)
(* synced block is moved, and the batch is read again.  Only an omission     *)
(* when it is read again would leave the roots of an older batch.            *)
RootsComplete ==
    faults = 0 \/ missed = {} =>
        \A i \in DOMAIN stateBatches : stateBatches[i].block < highestSynced =>
            i \in DOMAIN roots /\ roots[i] = stateBatches[i]

(* When no event was left out, a batch that was deleted on L1 and appended   *)
(* again is replaced in the database by the time its block is passed, also   *)
(* after rewinds that read older batches again.                              *)
BatchesCurrent ==
    missed = {} =>
        \A e \in OfKind("StateBatchAppended") : e.block < highestSynced =>
            e.index \in DOMAIN stateBatches /\ stateBatches[e.index].id >= e.id

(* Every confirmed element of the queue is stored in the end, also one the   *)
(* provider left out, if a later one shows that it is missing: the service   *)
(* goes back to the block of the last element it has, and reads from there   *)
(* once a later block is confirmed.  The first element is the exception:     *)
(* nothing is stored to go back to (service.ts:337).                         *)
FollowedIsStored ==
    LET queue == OfKind("TransactionEnqueued")
        shown(e) == /\ \A d \in queue : d.index = e.index - 1 => d.block < final
                    /\ \E d \in queue : /\ d.index >= e.index /\ d.block <= final
                                        /\ d.id \notin missed
        firstSeen == \A e \in queue : e.index = 0 => e.id \notin missed
    IN  <>[](\A e \in queue : firstSeen /\ shown(e) => e.index \in DOMAIN enqueues)
=============================================================================
