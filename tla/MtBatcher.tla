----------------------------- MODULE MtBatcher -----------------------------
(***************************************************************************)
(* mt-batcher/services/sequencer/driver.go: the workers that bring the L2  *)
(* blocks to the DA layer.  The main worker rolls up new blocks, the       *)
(* checker rolls batches up again that the re-submitter asked for, and the *)
(* fee worker takes the fee of each batch from the main worker.  Main      *)
(* worker and checker send from one wallet and take the nonce from the     *)
(* mined transactions, so that their transactions compete for one nonce.   *)
(* Of txmgr.Send the outcome is kept: the receipt, of a transaction that   *)
(* may have reverted; an error because the nonce was spent otherwise; or   *)
(* an error that leaves the transaction in the mempool (see TxMgr).        *)
(***************************************************************************)
EXTENDS DataLayrChain, FiniteSets

CONSTANTS
    BlockOffset,            \* blocks of a batch, at most
    RollUpMinTxn, MinTimeoutRollupTxn,
    RollUpMaxSize,          \* in blocks: a batch stays below it
    MaxL2,                  \* bound on the L2 chain
    MaxReRollups,           \* bound on the batches to roll up again
    MaxTroubles             \* bound on L2 blocks that cannot be read, crashes, failing
                            \* calls, reverted transactions, resets, transactions that
                            \* compete for a nonce and rounds that repeat what is done,
                            \* together

\* The service does not start with other timeouts.  A batch has room for a
\* block: a larger block would stop the main worker for good.
ASSUME MtBatcherConstants ==
    /\ BlockOffset \in Nat /\ RollUpMinTxn \in Nat /\ MinTimeoutRollupTxn \in Nat
    /\ RollUpMaxSize \in Nat
    /\ 0 < MinTimeoutRollupTxn /\ MinTimeoutRollupTxn < RollUpMinTxn
    /\ RollUpMaxSize > 1

VARIABLES
    latest,         \* L2: the number of the latest block
    pc,             \* of the main worker and the checker
    job,            \* the range, data and data store a worker is at
    result,         \* what happened to the transaction a worker waits for
    entry, upTo,    \* the checker's loop
    dbIndex,        \* ReRollupBatchIndex in the level DB
    fee,            \* the fee worker
    mempool,        \* the wallet's transactions of the next nonce
    readFails, faults, reverts, resets, races, redos,   \* the troubles so far
    handled, failed,    \* re-rollup entries that were confirmed, that met an error
    staleReset          \* the contract was reset during a round

workers == <<pc, job, result, entry, upTo>>
counters == <<redos, readFails, faults, reverts, resets, races>>
history == <<handled, failed, staleReset>>
vars == <<daVars, latest, workers, dbIndex, fee, mempool, counters, history>>

Workers == {"main", "checker"}
NoJob == [start |-> 0, end |-> 0, data |-> {}, id |-> 0, origin |-> 0, batchIndex |-> 0]

Init ==
    /\ DaInit
    /\ latest = 0
    /\ pc = [w \in Workers |-> "idle"]
    /\ job = [w \in Workers |-> NoJob]
    /\ result = [w \in Workers |-> "none"]
    /\ entry = 0 /\ upTo = 0
    /\ dbIndex = 1          \* Start
    /\ fee = "busy" /\ mempool = {}
    /\ redos = 0 /\ readFails = 0 /\ faults = 0 /\ reverts = 0 /\ resets = 0 /\ races = 0
    /\ handled = {} /\ failed = {} /\ staleReset = FALSE

-----------------------------------------------------------------------------
\* Rounds end here, well or not.

goto(w, l) == pc' = [pc EXCEPT ![w] = l]

\* The checker goes on with its next entry.
nextEntry ==
    /\ goto("checker", IF entry + 1 < upTo THEN "entry" ELSE "idle")
    /\ job' = [job EXCEPT !["checker"] = NoJob]
    /\ entry' = IF entry + 1 < upTo THEN entry + 1 ELSE 0
    /\ upTo' = IF entry + 1 < upTo THEN upTo ELSE 0

checkerFails ==
    /\ nextEntry
    /\ failed' = failed \cup {entry}
    /\ UNCHANGED dbIndex

mainFails ==
    /\ goto("main", "idle")
    /\ job' = [job EXCEPT !["main"] = NoJob]
    /\ UNCHANGED <<entry, upTo, dbIndex, failed>>

\* The continue of either loop after an error.
roundFails(w) == IF w = "checker" THEN checkerFails ELSE mainFails

\* Slip: the entry after the one that is done.
storedIndex_Next(i) == i + 1

\* SetReRollupBatchIndex(i) at the end of entry i.
storedIndex(i) == i

\* Slip: the end of the loop in its place.
entryDone_All ==
    /\ nextEntry
    /\ dbIndex' = upTo

entryDone ==
    /\ nextEntry
    /\ dbIndex' = storedIndex(entry)

troubles == readFails + faults + reverts + resets + races + redos

\* A failing call to a service or to L1.
fault ==
    /\ troubles < MaxTroubles
    /\ faults' = faults + 1

-----------------------------------------------------------------------------
\* The main worker's range; the checker's entries.

Smaller(a, b) == IF a < b THEN a ELSE b

\* Slip: without the timer.
enough_AtTick(n) == n >= RollUpMinTxn

\* Enough blocks at a tick, or fewer when the timer has run out.
enough(n) == n >= RollUpMinTxn \/ n >= MinTimeoutRollupTxn

\* GetBatchBlockRangeWithTimeout
GetBatchBlockRange ==
    LET start == l2ConfirmedBlockNumber
        end == Smaller(start + BlockOffset, latest)
    IN  /\ pc["main"] = "idle"
        /\ enough(end - start)
        /\ job' = [job EXCEPT !["main"] = [NoJob EXCEPT !.start = start, !.end = end]]
        /\ goto("main", "range")
        /\ UNCHANGED <<daVars, latest, result, entry, upTo, dbIndex, fee, mempool,
                       counters, history>>

\* CheckConfirmedWorker, at a tick.
checkerTick ==
    /\ pc["checker"] = "idle"
    /\ dbIndex < Len(reRollupBatchIndex)
    /\ entry' = dbIndex
    /\ upTo' = Len(reRollupBatchIndex)
    /\ goto("checker", "entry")
    /\ \/ redos' = redos /\ ~(dbIndex .. upTo' - 1 \subseteq handled)
       \/ troubles < MaxTroubles /\ redos' = redos + 1
    /\ UNCHANGED <<daVars, latest, job, result, dbIndex, fee, mempool,
                   readFails, faults, reverts, resets, races, history>>

\* An entry whose batch has been reset needs nothing.
readEntry ==
    LET i == reRollupBatchIndex[entry + 1]
    IN  /\ pc["checker"] = "entry"
        /\ \/ /\ i \in DOMAIN rollupStores
              /\ job' = [job EXCEPT !["checker"] =
                    [NoJob EXCEPT !.start = storeOf(i).start, !.end = storeOf(i).end,
                                  !.origin = rollupStores[i].dataStoreId, !.batchIndex = i]]
              /\ goto("checker", "range")
              /\ UNCHANGED <<entry, upTo, dbIndex, faults, handled, failed>>
           \/ /\ i \notin DOMAIN rollupStores
              /\ entryDone
              /\ handled' = handled \cup {entry}
              /\ UNCHANGED <<faults, failed>>
           \/ fault /\ checkerFails /\ UNCHANGED handled
        /\ UNCHANGED <<daVars, latest, result, fee, mempool, redos, readFails,
                       reverts, resets, races, staleReset>>

-----------------------------------------------------------------------------
\* TxAggregator: a block that cannot be read is left out.  The batch ends
\* before the block that would make it too large.

aggregated(from, to, unread) == (from .. to - 1) \ unread

\* Slip: the block that makes the batch too large is counted in.
aggregatedEnd_Inclusive(from, to, unread) ==
    LET full(i) == Cardinality(aggregated(from, i + 1, unread)) >= RollUpMaxSize
    IN  IF \E i \in from .. to - 1 : full(i)
        THEN 1 + CHOOSE i \in from .. to - 1 :
               full(i) /\ \A j \in from .. to - 1 : full(j) => i <= j
        ELSE to

aggregatedEnd(from, to, unread) ==
    LET full(i) == Cardinality(aggregated(from, i + 1, unread)) >= RollUpMaxSize
    IN  IF \E i \in from .. to - 1 : full(i)
        THEN CHOOSE i \in from .. to - 1 :
               full(i) /\ \A j \in from .. to - 1 : full(j) => i <= j
        ELSE to

dataBelow(from, to, unread) ==
    LET data == aggregated(from, to, unread)
    IN  IF Cardinality(data) < RollUpMaxSize THEN data
        ELSE {i \in data : Cardinality({j \in data : j <= i}) < RollUpMaxSize}

\* Into the mempool, at the nonce of whatever is there.
race == IF mempool = {} THEN 0 ELSE 1

transaction(kind, w, j) ==
    [kind |-> kind, from |-> w, isReRollup |-> w = "checker", start |-> j.start, end |-> j.end,
     data |-> j.data, id |-> j.id, origin |-> j.origin, batchIndex |-> j.batchIndex]

publish(t) ==
    /\ races' = races + race
    /\ mempool' = mempool \cup {t}

\* DisperseStoreData: encode, StoreData and into the mempool.  The gas
\* estimate of an empty range fails; the constants leave none.
DisperseStoreData(w) ==
    /\ pc[w] = "range"
    /\ \E unread \in SUBSET (job[w].start .. job[w].end - 1) :
         LET end == aggregatedEnd(job[w].start, job[w].end, unread)
             data == dataBelow(job[w].start, job[w].end, unread)
             t == [job[w] EXCEPT !.end = end, !.data = data]
         IN  /\ troubles + Cardinality(unread) + race <= MaxTroubles
             /\ readFails' = readFails + Cardinality(unread)
             /\ \/ /\ storable(t)
                   /\ job' = [job EXCEPT ![w] = t]
                   /\ publish(transaction("store", w, t))
                   /\ goto(w, "storing")
                   /\ UNCHANGED <<entry, upTo, dbIndex, failed, faults>>
                \/ unread = {} /\ fault /\ roundFails(w) /\ UNCHANGED <<mempool, races>>
    /\ UNCHANGED <<daVars, latest, result, fee, redos, reverts, resets, handled, staleReset>>

\* The receipt of storeData.  The graph node has no data store for the hash of
\* a transaction that reverted, and the poll for it gives up.
storeReturns(w) ==
    /\ pc[w] = "storing"
    /\ \/ /\ result[w] = "mined"
          /\ goto(w, "stored")
          /\ UNCHANGED <<job, entry, upTo, dbIndex, failed>>
       \/ result[w] \in {"reverted", "spent"} /\ roundFails(w)
    /\ result' = [result EXCEPT ![w] = "none"]
    /\ UNCHANGED <<daVars, latest, fee, mempool, counters, handled, staleReset>>

\* ConfirmStoredData: disperse, ConfirmData and into the mempool.
ConfirmStoredData(w) ==
    /\ pc[w] = "stored"
    /\ \/ /\ troubles + race <= MaxTroubles
          /\ confirmable(transaction("confirm", w, job[w]))
          /\ publish(transaction("confirm", w, job[w]))
          /\ goto(w, "confirming")
          /\ UNCHANGED <<job, entry, upTo, dbIndex, failed, faults>>
       \/ fault /\ roundFails(w) /\ UNCHANGED <<mempool, races>>
    /\ UNCHANGED <<daVars, latest, result, fee, redos, readFails, reverts, resets, handled,
                   staleReset>>

\* The receipt of confirmData; its status is not looked at.
mainConfirmed ==
    /\ pc["main"] = "confirming"
    /\ \/ /\ result["main"] \in {"mined", "reverted"}
          /\ goto("main", "fee")
          /\ UNCHANGED <<job, entry, upTo, dbIndex, failed>>
       \/ result["main"] = "spent" /\ mainFails
    /\ result' = [result EXCEPT !["main"] = "none"]
    /\ UNCHANGED <<daVars, latest, fee, mempool, counters, handled, staleReset>>

checkerConfirmed ==
    /\ pc["checker"] = "confirming"
    /\ \/ /\ result["checker"] \in {"mined", "reverted"}
          /\ entryDone
          /\ IF result["checker"] = "mined"
             THEN handled' = handled \cup {entry} /\ UNCHANGED failed
             ELSE failed' = failed \cup {entry} /\ UNCHANGED handled
       \/ result["checker"] = "spent" /\ checkerFails /\ UNCHANGED handled
    /\ result' = [result EXCEPT !["checker"] = "none"]
    /\ UNCHANGED <<daVars, latest, fee, mempool, counters, staleReset>>

\* Send gives up and leaves its transaction in the mempool.
abandon(w) == {IF t.from = w THEN [t EXCEPT !.from = "nobody"] ELSE t : t \in mempool}

sendFails(w) ==
    /\ pc[w] \in {"storing", "confirming"} /\ result[w] = "none"
    /\ fault
    /\ mempool' = abandon(w)
    /\ roundFails(w)
    /\ UNCHANGED <<daVars, latest, result, fee, redos, readFails, reverts, resets, races,
                   handled, staleReset>>

-----------------------------------------------------------------------------
\* RollUpFeeWorker: at a tick it reads the fee of the chain and waits for the
\* main worker, which waits for it over an unbuffered channel.  The update
\* that may follow goes from another wallet to another contract: the worker
\* is busy until the next tick.

feeTick ==
    /\ fee = "busy"
    /\ fee' = "waiting"
    /\ UNCHANGED <<daVars, latest, workers, dbIndex, mempool, counters, history>>

FeeCh ==
    /\ pc["main"] = "fee" /\ fee = "waiting"
    /\ fee' = "busy"
    /\ goto("main", "idle")
    /\ job' = [job EXCEPT !["main"] = NoJob]
    /\ UNCHANGED <<daVars, latest, result, entry, upTo, dbIndex, mempool, counters, history>>

-----------------------------------------------------------------------------
\* External: L2, L1 and the operators.

newBlock ==
    /\ latest < MaxL2
    /\ latest' = latest + 1
    /\ UNCHANGED <<daVars, workers, dbIndex, fee, mempool, counters, history>>

\* Whatever is mined spends the nonce of every transaction in the mempool.
spend(w, how) ==
    result' = [v \in Workers |->
        IF v = w THEN how
        ELSE IF pc[v] \in {"storing", "confirming"} /\ result[v] = "none" THEN "spent"
        ELSE result[v]]

\* The data store the graph node reports for the transaction.
mine ==
    \E t \in mempool :
      /\ \/ /\ t.kind = "store"
            /\ storeData(t)
            /\ job' = IF t.from \in Workers THEN [job EXCEPT ![t.from].id = Len(dataStores) + 1]
                      ELSE job
         \/ t.kind = "confirm" /\ confirmData(t) /\ UNCHANGED job
      /\ spend(t.from, "mined")
      /\ mempool' = {}
      /\ UNCHANGED <<latest, pc, entry, upTo, dbIndex, fee, counters, history>>

mineReverted ==
    /\ troubles < MaxTroubles
    /\ reverts' = reverts + 1
    /\ \E t \in mempool : spend(t.from, "reverted")
    /\ mempool' = {}
    /\ UNCHANGED <<daVars, latest, pc, job, entry, upTo, dbIndex, fee, redos, readFails,
                   faults, resets, races, history>>

\* The process stops and starts again.
crash ==
    /\ fault
    /\ pc' = [w \in Workers |-> "idle"]
    /\ job' = [w \in Workers |-> NoJob]
    /\ entry' = 0 /\ upTo' = 0
    /\ result' = [w \in Workers |-> "none"]
    /\ fee' = "busy"
    /\ mempool' = {[t EXCEPT !.from = "nobody"] : t \in mempool}
    /\ failed' = IF pc["checker"] = "idle" THEN failed ELSE failed \cup {entry}
    /\ UNCHANGED <<daVars, latest, dbIndex, redos, readFails, reverts, resets, races,
                   handled, staleReset>>

reSubmit ==
    /\ Len(reRollupBatchIndex) < MaxReRollups
    /\ \E i \in 0 .. rollupBatchIndex - 1 : submitReRollUpInfo(i)
    /\ UNCHANGED <<latest, workers, dbIndex, fee, mempool, counters, history>>

\* The operator resets to the end of a batch that stays, from the wallet of
\* the batcher, which is the sequencer.
operatorReset ==
    /\ troubles < MaxTroubles
    /\ resets' = resets + 1
    /\ \E i \in 0 .. rollupBatchIndex - 1 :
         LET end == IF i = 0 THEN 0 ELSE storeOf(i - 1).end
         IN  /\ i > 0 => i - 1 \in DOMAIN rollupStores
             /\ resetRollupBatchData(i, end, end)
    /\ spend("operator", "mined")
    /\ mempool' = {}
    /\ staleReset' = (staleReset \/ \E w \in Workers : pc[w] # "idle")
    /\ UNCHANGED <<latest, pc, job, entry, upTo, dbIndex, fee, redos, readFails, faults,
                   reverts, races, handled, failed>>

MainWorker ==
    \/ GetBatchBlockRange \/ DisperseStoreData("main") \/ storeReturns("main")
    \/ ConfirmStoredData("main") \/ mainConfirmed

CheckConfirmedWorker ==
    \/ checkerTick \/ readEntry \/ DisperseStoreData("checker") \/ storeReturns("checker")
    \/ ConfirmStoredData("checker") \/ checkerConfirmed

FeeWorker == feeTick \/ FeeCh

Next ==
    \/ MainWorker \/ CheckConfirmedWorker \/ FeeWorker
    \/ \E w \in Workers : sendFails(w)
    \/ newBlock \/ mine \/ mineReverted \/ crash \/ reSubmit \/ operatorReset

\* Every worker is a goroutine driven by a ticker; L1 mines what is in its
\* mempool.
Spec ==
    /\ Init /\ [][Next]_vars
    /\ WF_vars(MainWorker) /\ WF_vars(CheckConfirmedWorker) /\ WF_vars(FeeWorker)
    /\ WF_vars(mine)

-----------------------------------------------------------------------------
(* Every L2 block below l2ConfirmedBlockNumber has its data in the store of  *)
(* a batch, whatever the two workers, late transactions and re-rollups do,   *)
(* unless a block could not be read or the contract was reset in a round:    *)
(* confirmData does not compare the start of the range with the end of the   *)
(* confirmed blocks, and TxAggregator leaves out what it cannot read.        *)
DataAvailable ==
    readFails = 0 /\ ~staleReset =>
        \A b \in 0 .. l2ConfirmedBlockNumber - 1 :
            \E i \in DOMAIN rollupStores : i < rollupBatchIndex /\ b \in storeOf(i).data

(* Without a failed Send or a crash the batches are also disjoint: each one  *)
(* starts where the one before it ends, after competing nonces, reverted     *)
(* confirmations, resets and re-rollups.                                     *)
BatchesTile ==
    faults = 0 /\ readFails = 0 /\ ~staleReset =>
        /\ DOMAIN rollupStores = 0 .. rollupBatchIndex - 1
        /\ \A i \in DOMAIN rollupStores :
             storeOf(i).start = IF i = 0 THEN 0 ELSE storeOf(i - 1).end
        /\ rollupBatchIndex > 0 => storeOf(rollupBatchIndex - 1).end = l2ConfirmedBlockNumber

(* The index in the level DB passes an entry other than the first only when  *)
(* the entry was confirmed or met an error (driver.go:951): a success moves  *)
(* the index past the failures before it, so that only the last entry is     *)
(* sure to be taken up again.                                                *)
OnlyFailedSkipped == 1 .. dbIndex - 1 \subseteq handled \cup failed

(* The blocks the sequencer produced are confirmed sooner or later: the two *)
(* workers do not starve each other and the fee channel does not block.     *)
EventuallyConfirmed == <>[](latest - l2ConfirmedBlockNumber < MinTimeoutRollupTxn)

(* The last entry is rolled up again in the end, also when its confirmation *)
(* reverted and was taken for a success: the stored index is the index of   *)
(* the entry itself, which the next round starts from.                      *)
LastEntryHandled ==
    <>[](Len(reRollupBatchIndex) > 1 => Len(reRollupBatchIndex) - 1 \in handled)
=============================================================================
