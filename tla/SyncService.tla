---------------------------- MODULE SyncService ----------------------------
(***************************************************************************)
(* The sync service of l2geth running as the sequencer                     *)
(* (l2geth/rollup/sync_service.go): user transactions arriving over RPC    *)
(* and L1 queue elements polled from the data transport layer are put, one *)
(* per block, at the tip of the L2 chain.  The index and the queue index   *)
(* of the last transaction are written to the database BEFORE the block is *)
(* added, so a crash can leave them ahead of the chain; initializeLatestL1 *)
(* repairs them.  The L1 timestamp and block number (the BVM context) are  *)
(* held in memory only.                                                    *)
(*                                                                         *)
(* Block number i of the chain is chain[i]; the genesis block has no       *)
(* transaction and is not in the sequence.  A transaction is abstracted to *)
(* its metadata: queueIndex (Unset for a user transaction), index,         *)
(* timestamp and blockNumber.  An L1 queue element carries the number of   *)
(* its L1 block and, when it is the message by which the state commitment  *)
(* chain asks for a rollback, the first L2 block to roll back (else 0).    *)
(* The node is an archive node: a mined block survives a crash.            *)
(***************************************************************************)
EXTENDS Integers, Sequences

CONSTANTS
    Bootstrapped,   \* TRUE: the chain already holds the first queue element
    MaxL1,          \* bound on L1 blocks
    MaxQueue,       \* bound on L1 queue elements
    RollbackTargets,\* L2 blocks a rollback message may name
    Times,          \* readings of the sequencer's clock
    Threshold,      \* timestampRefreshThreshold
    MaxRpc,         \* bound on user transactions
    MaxCrashes,     \* bound on crashes
    MaxFails,       \* bound on user transactions the miner refuses
    MaxQueueFails,  \* bound on queue elements the miner refuses
    MaxCacheFails   \* bound on failures to refresh the gas price oracle cache

ASSUME SyncConstants ==
    /\ Bootstrapped \in BOOLEAN
    /\ RollbackTargets \subseteq Nat
    /\ Times \subseteq Nat
    /\ Threshold \in Nat

VARIABLES
    chain,          \* the L2 chain (database)
    headIndex,      \* latest CTC index (database)
    headQueueIndex, \* latest queue index (database)
    timestamp,      \* BVMContext: latest L1 timestamp (memory)
    blockNumber,    \* BVMContext: latest L1 block number (memory)
    pc,             \* where the application of the current transaction is
    cur,            \* the transaction being applied
    saved,          \* ts, bn and index read when its application began
    rest,           \* transactions the loop applies after the current one
    phase,          \* where the sequencer's own goroutine is
    fetched,        \* the L1 context it has read
    l1, queue,      \* L1: its tip and the queue of the CTC
    seen,           \* how many queue elements the DTL has ingested
    now,            \* the sequencer's clock
    rpcs, crashes, fails, queueFails, cacheFails

memory == <<timestamp, blockNumber>>
database == <<chain, headIndex, headQueueIndex>>
applying == <<pc, cur, saved, rest>>
loop == <<phase, fetched>>
world == <<l1, queue, seen, now>>
faults == <<crashes, fails, queueFails, cacheFails>>
vars == <<memory, database, applying, loop, world, rpcs, faults>>

Unset == -1
NoTx == [queueIndex |-> Unset, index |-> Unset, timestamp |-> Unset, blockNumber |-> Unset]

\* L1 block 1 is the deploy height of the canonical transaction chain.
Deploy == 1

firstBlock == [queueIndex |-> 0, index |-> 0, timestamp |-> 0, blockNumber |-> Deploy]

Init ==
    /\ chain = IF Bootstrapped THEN <<firstBlock>> ELSE <<>>
    /\ headIndex = IF Bootstrapped THEN 0 ELSE Unset
    /\ headQueueIndex = IF Bootstrapped THEN 0 ELSE Unset
    /\ queue = IF Bootstrapped THEN <<[blockNumber |-> Deploy, rollback |-> 0]>> ELSE <<>>
    /\ seen = Len(queue)
    /\ timestamp = 0 /\ blockNumber = 0
    /\ pc = "down" /\ cur = NoTx /\ saved = NoTx /\ rest = <<>>
    /\ phase = "startup" /\ fetched = Unset
    /\ l1 = Deploy /\ now = 0
    /\ rpcs = 0 /\ crashes = 0 /\ fails = 0 /\ queueFails = 0 /\ cacheFails = 0

----------------------------------------------------------------------------
(* Applying a transaction.  pc goes from "idle" (or "next", when the loop  *)
(* has more to apply) through "index" and "queueIndex", the two database   *)
(* writes, to "mine", where the service waits for the miner.               *)

\* The timestamp of a transaction that brings none: the latest one, unless the clock has moved on.
currentTimestamp == IF now - timestamp > Threshold THEN now ELSE timestamp

\* applyTransactionToTip up to the first database write.
toTip(tx) ==
    LET ts == IF tx.timestamp = Unset THEN currentTimestamp ELSE tx.timestamp
        bn == IF tx.blockNumber = Unset THEN blockNumber ELSE tx.blockNumber
        index == IF tx.index = Unset THEN headIndex + 1 ELSE tx.index
    IN /\ cur' = [queueIndex |-> tx.queueIndex, index |-> index, timestamp |-> ts, blockNumber |-> bn]
       /\ saved' = [NoTx EXCEPT !.index = headIndex, !.timestamp = timestamp, !.blockNumber = blockNumber]
       /\ timestamp' = IF ts > timestamp THEN ts ELSE timestamp
       /\ blockNumber' = IF bn > blockNumber THEN bn ELSE blockNumber
       /\ pc' = "index"

SetLatestIndex ==
    /\ pc = "index"
    /\ headIndex' = cur.index
    /\ pc' = "queueIndex"
    /\ UNCHANGED <<memory, chain, headQueueIndex, cur, saved, rest, loop, world, rpcs, faults>>

SetLatestEnqueueIndex ==
    /\ pc = "queueIndex"
    /\ headQueueIndex' = IF cur.queueIndex = Unset THEN headQueueIndex ELSE cur.queueIndex
    /\ pc' = "mine"
    /\ UNCHANGED <<memory, chain, headIndex, cur, saved, rest, loop, world, rpcs, faults>>

\* Where the service goes once the transaction is in the chain.
afterMined == IF rest = <<>> THEN "idle" ELSE "next"

mine ==
    /\ pc = "mine"
    /\ chain' = Append(chain, cur)
    /\ pc' = afterMined /\ cur' = NoTx /\ saved' = NoTx
    /\ UNCHANGED <<memory, headIndex, headQueueIndex, rest, loop, world, rpcs, faults>>

\* The process exits (log.Crit) or crashes: what is in memory is lost.
exit ==
    /\ timestamp' = 0 /\ blockNumber' = 0
    /\ pc' = "down" /\ cur' = NoTx /\ saved' = NoTx /\ rest' = <<>>
    /\ phase' = "startup" /\ fetched' = Unset

\* A rollback being replayed and the initial sync exit on an error; the loop logs it and goes on.
fatal == rest # <<>> \/ phase = "startup"

\* SetLatestIndex(nil) writes nothing.
restoredIndex == IF saved.index = Unset THEN headIndex ELSE saved.index

\* The error paths of applyTransactionToTip: the context and the index are put back, the queue index is not.
restore ==
    /\ headIndex' = restoredIndex
    /\ UNCHANGED <<headQueueIndex, world, rpcs>>
    /\ \/ fatal /\ exit
       \/ /\ ~fatal
          /\ timestamp' = saved.timestamp /\ blockNumber' = saved.blockNumber
          /\ pc' = "idle" /\ cur' = NoTx /\ saved' = NoTx
          /\ phase' = IF phase = "sequence" THEN "update" ELSE phase
          /\ UNCHANGED <<rest, fetched>>

minerRefuses ==
    /\ pc = "mine"
    /\ \/ /\ cur.queueIndex = Unset /\ fails < MaxFails
          /\ fails' = fails + 1 /\ UNCHANGED queueFails
       \/ /\ cur.queueIndex # Unset /\ queueFails < MaxQueueFails
          /\ queueFails' = queueFails + 1 /\ UNCHANGED fails
    /\ restore
    /\ UNCHANGED <<chain, crashes, cacheFails>>

\* The block is in the chain but the cache of the gas price oracle, whose owner sent it, is not refreshed.
cacheUpdateFails ==
    /\ pc = "mine"
    /\ cacheFails < MaxCacheFails
    /\ cur.queueIndex = Unset
    /\ cacheFails' = cacheFails + 1
    /\ chain' = Append(chain, cur)
    /\ restore
    /\ UNCHANGED <<crashes, fails, queueFails>>

----------------------------------------------------------------------------
(* The two sources of transactions.                                        *)

\* The RPC refuses while the node is syncing and waits for txLock, held in phase "sequence".
rpcMayApply == pc = "idle" /\ phase \notin {"startup", "sequence"}

ValidateAndApplySequencerTransaction ==
    /\ rpcMayApply
    /\ rpcs < MaxRpc
    /\ rpcs' = rpcs + 1
    /\ toTip(NoTx)
    /\ UNCHANGED <<database, rest, loop, world, faults>>

\* Slip: the loop polls the element it applied last again.
GetNextEnqueueIndex_Again == IF headQueueIndex = Unset THEN 0 ELSE headQueueIndex
GetNextEnqueueIndex == headQueueIndex + 1

\* Slip: the range excludes its end.
moreQueued_Exclusive == GetNextEnqueueIndex + 1 < seen
\* The DTL knows a queue element after the latest one here.
moreQueued == GetNextEnqueueIndex < seen

queueTx(i) == [queueIndex |-> i, index |-> Unset, timestamp |-> Unset,
               blockNumber |-> queue[i + 1].blockNumber]

mayRollback(i) == queue[i + 1].rollback \in 1..Len(chain)

\* syncQueueTransactionRange applies the next queue element the DTL knows.
syncQueue ==
    /\ pc = "idle" /\ phase \in {"startup", "sequence"}
    /\ moreQueued
    /\ rest' = <<queueTx(GetNextEnqueueIndex)>>
    /\ pc' = IF mayRollback(GetNextEnqueueIndex) THEN "rollback" ELSE "next"
    /\ UNCHANGED <<memory, database, cur, saved, loop, world, rpcs, faults>>

\* Slip: the range starts after the block the message names.
rolledBack_After(start) == SubSeq(chain, start + 1, Len(chain))
\* The transactions of the blocks from start on.
rolledBack(start) == SubSeq(chain, start, Len(chain))

\* SchedulerRollback: the blocks from start on are remembered, and the chain is cut before them.
SchedulerRollback ==
    /\ pc = "rollback"
    /\ UNCHANGED <<headIndex, headQueueIndex, world, rpcs, faults>>
    /\ LET start == queue[Head(rest).queueIndex + 1].rollback
           head == chain[start - 1]
       IN \/ /\ start = 1
             /\ exit
             /\ UNCHANGED chain
          \/ /\ start > 1
             /\ rest' = rolledBack(start) \o rest
             /\ chain' = SubSeq(chain, 1, start - 1)
             /\ timestamp' = head.timestamp /\ blockNumber' = head.blockNumber
             /\ pc' = "setHead"
             /\ UNCHANGED <<cur, saved, loop>>

\* The last write of SetHead.
SetHeadIndex ==
    /\ pc = "setHead"
    /\ headIndex' = chain[Len(chain)].index
    /\ pc' = "next"
    /\ UNCHANGED <<memory, chain, headQueueIndex, cur, saved, rest, loop, world, rpcs, faults>>

\* A transaction with an index must be the next one; a lower index is only compared with the chain.
atTip(tx) == tx.index = Unset \/ tx.index = headIndex + 1

applyTransaction ==
    /\ pc = "next"
    /\ UNCHANGED <<database, world, rpcs, faults>>
    /\ LET tx == Head(rest) IN
       \/ /\ atTip(tx)
          /\ toTip(tx)
          /\ rest' = Tail(rest)
          /\ UNCHANGED loop
       \/ /\ ~atTip(tx)
          /\ tx.index <= headIndex /\ tx.index < Len(chain)
          /\ rest' = Tail(rest)
          /\ UNCHANGED <<memory, pc, cur, saved, loop>>
       \/ /\ ~atTip(tx)
          /\ ~(tx.index <= headIndex /\ tx.index < Len(chain))
          /\ exit

----------------------------------------------------------------------------
(* SequencerLoop: take txLock, sync the queue to the tip, release txLock,  *)
(* read the L1 context and advance the latest block number.                *)

goto(from, to) ==
    /\ phase = from
    /\ phase' = to
    /\ UNCHANGED <<memory, database, applying, world, rpcs, faults>>

takeTxLock == pc = "idle" /\ goto("lock", "sequence") /\ UNCHANGED fetched

\* Start's goroutine ends its initial sync, or sequence() returns: the queue is at the tip.
queueAtTip ==
    /\ pc = "idle" /\ ~moreQueued
    /\ goto("startup", "lock") \/ goto("sequence", "update")
    /\ UNCHANGED fetched

\* updateL1BlockNumber: the request, then the comparison with what is the latest by then.
GetLatestEthContext == goto("update", "set") /\ fetched' = l1

updateL1BlockNumber ==
    /\ phase = "set" /\ phase' = "lock"
    /\ blockNumber' = IF fetched > blockNumber THEN fetched ELSE blockNumber
    /\ fetched' = Unset
    /\ UNCHANGED <<timestamp, database, applying, world, rpcs, faults>>

----------------------------------------------------------------------------
(* Crash and restart.                                                      *)

crash ==
    /\ pc # "down"
    /\ crashes < MaxCrashes
    /\ crashes' = crashes + 1
    /\ exit
    /\ UNCHANGED <<database, world, rpcs, fails, queueFails, cacheFails>>

blockFound == headIndex + 1 \in 1..Len(chain)

\* Slip: the index of the current block is taken to be its number.
repairedIndex_Number == IF blockFound THEN headIndex ELSE Len(chain)
\* The block of the latest index is missing: the index of the current block; none at genesis, so no write.
repairedIndex == IF blockFound \/ chain = <<>> THEN headIndex ELSE Len(chain) - 1

queueBlocks == {i \in 1..Len(chain) : chain[i].queueIndex # Unset}

\* Slip: a queue index that is set is trusted.
repairedQueueIndex_Trusted == headQueueIndex
\* Work backwards from the tip to the last queue element; reaching genesis gives nil, so no write.
\* Without a queue index the DTL is asked for the last confirmed element: a chain without queue
\* elements has put none into a batch, so there is none.
repairedQueueIndex ==
    IF headQueueIndex = Unset \/ queueBlocks = {}
    THEN headQueueIndex
    ELSE chain[CHOOSE i \in queueBlocks : \A j \in queueBlocks : j <= i].queueIndex

\* Slip: a missing block is not looked for at the tip.
recoverable_Strict == headIndex = Unset \/ blockFound
\* The node refuses to start, or panics at genesis where no transaction holds the context.
recoverable == headIndex = Unset \/ blockFound \/ (chain # <<>> /\ Len(chain) <= headIndex)

\* NewSyncService runs initializeLatestL1.
initializeLatestL1 ==
    /\ pc = "down"
    /\ recoverable
    /\ headIndex' = repairedIndex
    /\ headQueueIndex' = repairedQueueIndex
    /\ LET block == IF blockFound THEN chain[headIndex + 1] ELSE chain[Len(chain)] IN
       /\ timestamp' = IF headIndex = Unset THEN 0 ELSE block.timestamp
       /\ blockNumber' = IF headIndex = Unset THEN Deploy ELSE block.blockNumber
    /\ pc' = "idle"
    /\ UNCHANGED <<chain, cur, saved, rest, loop, world, rpcs, faults>>

----------------------------------------------------------------------------
(* L1, the DTL and the clock.                                              *)

\* A confirmed L1 block, with at most one queue element in it.
l1Block ==
    /\ l1 < MaxL1
    /\ l1' = l1 + 1
    /\ \/ UNCHANGED queue
       \/ /\ Len(queue) < MaxQueue
          /\ \E r \in {0} \cup RollbackTargets :
                queue' = Append(queue, [blockNumber |-> l1 + 1, rollback |-> r])
    /\ UNCHANGED <<memory, database, applying, loop, seen, now, rpcs, faults>>

ingest ==
    /\ seen < Len(queue)
    /\ seen' = seen + 1
    /\ UNCHANGED <<memory, database, applying, loop, l1, queue, now, rpcs, faults>>

\* The clock is read, not trusted: it may be set back.
clock ==
    /\ now' \in Times \ {now}
    /\ UNCHANGED <<memory, database, applying, loop, l1, queue, seen, rpcs, faults>>

----------------------------------------------------------------------------
Service ==
    \/ SetLatestIndex \/ SetLatestEnqueueIndex \/ mine
    \/ syncQueue \/ SchedulerRollback \/ SetHeadIndex \/ applyTransaction
    \/ takeTxLock \/ queueAtTip \/ GetLatestEthContext \/ updateL1BlockNumber
    \/ initializeLatestL1

Next ==
    \/ Service
    \/ ValidateAndApplySequencerTransaction
    \/ minerRefuses \/ cacheUpdateFails \/ crash
    \/ l1Block \/ ingest \/ clock

\* The goroutines of a running node are scheduled, its miner answers, and a node that is down is restarted.
Spec == Init /\ [][Next]_vars /\ WF_vars(Service)

----------------------------------------------------------------------------
(* Properties.                                                             *)

\* The transaction with CTC index n is in block n + 1 (the off by one the whole service relies on) and
\* timestamps never decrease, whatever is interleaved with its application: the other source, a refused
\* transaction, a rollback, a crash that leaves an index without its block, a clock set back.  A gas
\* price oracle cache that fails after its block is mined does break both.
ChainInOrder ==
    cacheFails = 0 =>
        /\ \A i \in 1..Len(chain) : chain[i].index = i - 1
        /\ \A i \in 2..Len(chain) : chain[i - 1].timestamp <= chain[i].timestamp

\* The chain holds the L1 queue elements in queue order, none skipped and none twice: before each one
\* are exactly those with a lower index.  Unless the miner has refused one (the error path does not put
\* the queue index back) or the cache has failed (a replay then takes an element whose index is used
\* twice for one that is in the chain).
QueueInOrder ==
    queueFails = 0 /\ cacheFails = 0 =>
        \A i \in queueBlocks :
            {chain[j].queueIndex : j \in {k \in queueBlocks : k < i}} = 0..(chain[i].queueIndex - 1)

\* No queue element is executed twice, even when elements are refused or the gas price oracle cache
\* failed.
QueueNeverRepeats ==
    \A i, j \in queueBlocks : i < j => chain[i].queueIndex < chain[j].queueIndex

\* The chain, the transaction that is being put back, and those that wait for it.
replayed == chain \o (IF cur.index # Unset /\ rest # <<>> THEN <<cur>> ELSE <<>>) \o rest

userPlaces(txs) == {i \in DOMAIN txs : txs[i].queueIndex = Unset}

\* As long as the process lives, a user transaction that is in the chain stays at its place, with its
\* index, timestamp and block number, or is waiting to be put back there by the rollback that took it
\* out, and no new one comes before it.
RollbackKeepsUserTxs ==
    [][pc' # "down" /\ cacheFails = 0 =>
          \A i \in userPlaces(replayed) :
              /\ i \in userPlaces(replayed') /\ replayed'[i] = replayed[i]
              /\ \A j \in userPlaces(replayed') \ userPlaces(replayed) : i < j]_vars

\* A sequencer that is down comes up again.
Restarts == (pc = "down") ~> (pc # "down")

\* A message that rolls back the first block stops the node each time it is applied.
stuckAt(i) == \E k \in 1..(i + 1) : k <= Len(queue) /\ queue[k].rollback = 1

\* Every queue element the DTL has ingested gets into the chain, unless the miner refuses one, the
\* cache has failed or it comes after a message the node cannot get past.
QueueIncluded ==
    \A i \in 0..(MaxQueue - 1) :
        (i < seen) ~> \/ \E b \in 1..Len(chain) : chain[b].queueIndex = i
                      \/ queueFails > 0 \/ cacheFails > 0 \/ stuckAt(i)

============================================================================
