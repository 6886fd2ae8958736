------------------------- MODULE SyncService_proof -------------------------
(***************************************************************************)
(* What holds of SyncService for every number of L1 blocks, queue          *)
(* elements, user transactions and faults: the chain keeps its indexes and *)
(* timestamps in order, and no queue element is skipped or repeated.       *)
(***************************************************************************)
EXTENDS SyncService, SequenceTheorems, WellFoundedInduction, TLAPS

----------------------------------------------------------------------------
\* Types, and the shape of what is being applied.

Labels == {"down", "idle", "next", "rollback", "setHead", "index", "queueIndex", "mine"}

Txs == [queueIndex : Int, index : Int, timestamp : Int, blockNumber : Int]

Elements == [blockNumber : Int, rollback : Nat]

Types ==
    /\ chain \in Seq(Txs) /\ rest \in Seq(Txs)
    /\ cur \in Txs /\ saved \in Txs
    /\ headIndex \in Int /\ headQueueIndex \in Int
    /\ timestamp \in Int /\ blockNumber \in Int
    /\ pc \in Labels
    /\ fetched \in Int /\ l1 \in Int /\ now \in Nat
    /\ queue \in Seq(Elements)
    /\ seen \in 0..Len(queue)
    /\ queueFails \in Nat /\ cacheFails \in Nat

\* A transaction is on its way into the chain.
Busy == {"index", "queueIndex", "mine"}

\* The last transaction of a round is the new queue element.
Shape ==
    /\ pc \in {"down", "idle"} => rest = <<>>
    /\ pc \in {"next", "rollback", "setHead"} => rest # <<>>
    /\ rest # <<>> => LET tx == rest[Len(rest)] IN
         /\ tx.index = Unset /\ tx.timestamp = Unset
         /\ tx.queueIndex \in 0..(Len(queue) - 1)
    /\ pc = "rollback" =>
         /\ Len(rest) = 1
         /\ queue[rest[1].queueIndex + 1].rollback \in 1..Len(chain)
    /\ pc = "setHead" => Len(chain) > 0

----------------------------------------------------------------------------
\* The transactions in the chain, the one on its way into it and those that
\* follow.  A rollback moves them along this line and leaves the line as it is.

pending == IF pc \in Busy THEN 1 ELSE 0

length == Len(chain) + pending + Len(rest)

at(i) ==
    IF i <= Len(chain) THEN chain[i]
    ELSE IF i <= Len(chain) + pending THEN cur
    ELSE rest[i - Len(chain) - pending]

----------------------------------------------------------------------------
\* Queue elements are not repeated, whatever fails.

Rising ==
    /\ \A i \in 1..length : at(i).queueIndex >= Unset
    /\ \A i, j \in 1..length :
         i < j /\ at(i).queueIndex # Unset /\ at(j).queueIndex # Unset
         => at(i).queueIndex < at(j).queueIndex

\* Nothing but a transaction of a user is on its way.
Settled == pc \in {"idle"} \cup Busy /\ rest = <<>> /\ cur.queueIndex = Unset

\* The latest queue index is not below the chain when the next element is read.
HeadInv ==
    /\ headQueueIndex >= Unset
    /\ Settled => \A i \in 1..Len(chain) : chain[i].queueIndex <= headQueueIndex
    /\ pc = "mine" /\ cur.queueIndex # Unset => headQueueIndex = cur.queueIndex
    /\ headQueueIndex = Unset => \A i \in 1..Len(chain) : chain[i].queueIndex = Unset
    /\ pc \notin Busy => cur = NoTx

RepeatInv == Rising /\ HeadInv

----------------------------------------------------------------------------
\* The order of the chain, with the first queue element in it from the start.

\* Only the new queue element at the end of the line has no index yet.
placed == IF rest = <<>> THEN length ELSE length - 1

\* The timestamp the next transaction may not be below.
floor ==
    IF pc \in Busy THEN saved.timestamp ELSE timestamp

Sorted ==
    /\ \A i \in 1..placed : at(i).index = i - 1 /\ at(i).timestamp >= 0
    /\ \A i, j \in 1..placed : i < j => at(i).timestamp <= at(j).timestamp

\* The latest index is that of the tip, or of the transaction on its way.
IndexInv ==
    /\ headIndex >= Len(chain) - 1
    /\ pc \in {"idle", "next", "rollback", "index"} => headIndex = Len(chain) - 1
    /\ pc \in {"queueIndex", "mine"} => headIndex = Len(chain)
    /\ pc \in Busy => saved.index = Len(chain) - 1

ClockInv ==
    /\ pc \in Busy => cur.timestamp <= timestamp
    /\ pc # "down" => chain[Len(chain)].timestamp <= floor

OrderInv == Len(chain) > 0 /\ Sorted /\ IndexInv /\ ClockInv

\* No queue element is left out while the miner takes them all.
Closed ==
    \A i \in 1..length : \A q \in 0..(at(i).queueIndex - 1) :
        \E j \in 1..length : at(j).queueIndex = q

Gapless ==
    /\ chain[1].queueIndex = 0 /\ headQueueIndex >= 0
    /\ Closed
    /\ Settled => \E j \in 1..Len(chain) : chain[j].queueIndex = headQueueIndex

IInv ==
    /\ Types /\ Shape /\ RepeatInv
    /\ Bootstrapped /\ cacheFails = 0 => OrderInv
    /\ Bootstrapped /\ cacheFails = 0 /\ queueFails = 0 => Gapless

----------------------------------------------------------------------------
\* Types.

LEMMA NoTxType == NoTx \in Txs
BY DEF NoTx, Txs, Unset

LEMMA LastAt ==
    ASSUME NEW s \in Seq(Txs), s # <<>>
    PROVE  s[Len(s)] \in Txs /\ Len(s) \in Nat \ {0}
OBVIOUS

LEMMA ToTipTypes ==
    ASSUME Types, NEW tx \in Txs, toTip(tx)
    PROVE  cur' \in Txs /\ saved' \in Txs /\ timestamp' \in Int /\ blockNumber' \in Int
<1>1. /\ tx.queueIndex \in Int /\ tx.index \in Int /\ tx.timestamp \in Int
      /\ tx.blockNumber \in Int
  BY Zenon DEF Txs
<1>2. headIndex \in Int /\ timestamp \in Int /\ blockNumber \in Int /\ now \in Int
  BY DEF Types
<1>3. PICK ts, bn, index :
        /\ ts = IF tx.timestamp = Unset THEN currentTimestamp ELSE tx.timestamp
        /\ bn = IF tx.blockNumber = Unset THEN blockNumber ELSE tx.blockNumber
        /\ index = IF tx.index = Unset THEN headIndex + 1 ELSE tx.index
  BY Zenon
<1>4. ts \in Int /\ bn \in Int /\ index \in Int
  BY <1>1, <1>2, <1>3 DEF currentTimestamp
<1>5. /\ cur' = [queueIndex |-> tx.queueIndex, index |-> index, timestamp |-> ts, blockNumber |-> bn]
      /\ timestamp' = IF ts > timestamp THEN ts ELSE timestamp
      /\ blockNumber' = IF bn > blockNumber THEN bn ELSE blockNumber
  BY <1>3, Zenon DEF toTip
<1>6. saved' = [queueIndex |-> Unset, index |-> headIndex, timestamp |-> timestamp,
                blockNumber |-> blockNumber]
  BY Zenon DEF toTip, NoTx
<1>7. QED
  BY <1>1, <1>2, <1>4, <1>5, <1>6 DEF Txs, Unset

LEMMA ExitTypes ==
    ASSUME exit
    PROVE  /\ cur' \in Txs /\ saved' \in Txs /\ timestamp' \in Int /\ blockNumber' \in Int
           /\ rest' \in Seq(Txs) /\ pc' \in Labels /\ fetched' \in Int
BY NoTxType DEF exit, Labels, Unset

LEMMA RestoreTypes ==
    ASSUME Types, restore
    PROVE  /\ cur' \in Txs /\ saved' \in Txs /\ timestamp' \in Int /\ blockNumber' \in Int
           /\ rest' \in Seq(Txs) /\ pc' \in Labels /\ fetched' \in Int /\ headIndex' \in Int
<1>1. headIndex' \in Int
  BY Zenon DEF restore, restoredIndex, Types, Txs
<1>2. CASE exit
  BY <1>1, <1>2, ExitTypes, Zenon
<1>3. CASE ~fatal /\ timestamp' = saved.timestamp /\ blockNumber' = saved.blockNumber
           /\ pc' = "idle" /\ cur' = NoTx /\ saved' = NoTx /\ UNCHANGED <<rest, fetched>>
  BY <1>1, <1>3, NoTxType, Zenon DEF Types, Txs, Labels
<1>4. QED
  BY <1>2, <1>3, Zenon DEF restore

LEMMA Greatest ==
    ASSUME NEW n \in Nat, NEW S \in SUBSET (1..n), S # {}
    PROVE  \E i \in S : \A j \in S : j <= i
<1> DEFINE T == {n - i : i \in S}
<1>1. T \in SUBSET Nat /\ T # {}
  <2>1. \A i \in S : n - i \in Nat
    OBVIOUS
  <2>2. QED
    BY <2>1, Zenon
<1>2. IsWellFoundedOn(OpToRel(<, Nat), Nat)
  BY NatLessThanWellFounded, Zenon
<1>3. PICK t \in T : \A u \in T : <<u, t>> \notin OpToRel(<, Nat)
  BY <1>1, <1>2, WFMin, Zenon
<1>4. \A u \in T : ~(u < t)
  BY <1>1, <1>3, Zenon DEF OpToRel
<1>5. PICK i \in S : t = n - i
  BY <1>1, Zenon
<1>6. \A j \in S : j <= i
  BY <1>4, <1>5
<1>7. QED
  BY <1>6, Zenon

LEMMA LatestQueueBlock ==
    ASSUME Types, queueBlocks # {}
    PROVE  \E i \in queueBlocks :
             /\ i = CHOOSE k \in queueBlocks : \A j \in queueBlocks : j <= k
             /\ \A j \in queueBlocks : j <= i
<1>1. Len(chain) \in Nat /\ queueBlocks \in SUBSET (1..Len(chain))
  BY DEF Types, queueBlocks
<1>2. \E i \in queueBlocks : \A j \in queueBlocks : j <= i
  BY <1>1, Greatest, Zenon
<1>3. QED
  BY <1>2, Zenon

LEMMA RepairedQueueIndex ==
    ASSUME Types
    PROVE  \/ (headQueueIndex = Unset \/ queueBlocks = {}) /\ repairedQueueIndex = headQueueIndex
           \/ /\ headQueueIndex # Unset
              /\ \E i \in queueBlocks : /\ repairedQueueIndex = chain[i].queueIndex
                                        /\ \A j \in queueBlocks : j <= i
BY LatestQueueBlock, Zenon DEF repairedQueueIndex

\* The block the context is taken from when the service starts.
LEMMA StartBlock ==
    ASSUME Types, recoverable, headIndex # Unset
    PROVE  (IF blockFound THEN chain[headIndex + 1] ELSE chain[Len(chain)]) \in Txs
<1>1. CASE blockFound
  BY <1>1 DEF Types, blockFound
<1>2. CASE ~blockFound
  BY <1>2, LastAt, Zenon DEF Types, recoverable
<1>3. QED
  BY <1>1, <1>2, Zenon

LEMMA QueueTx ==
    ASSUME Types, NEW i \in 0..(Len(queue) - 1)
    PROVE  /\ queueTx(i) \in Txs
           /\ queueTx(i).queueIndex = i
           /\ queueTx(i).index = Unset /\ queueTx(i).timestamp = Unset
           /\ queue[i + 1].rollback \in Nat
<1>1. queue \in Seq(Elements) /\ i + 1 \in 1..Len(queue)
  BY DEF Types
<1>2. queue[i + 1] \in Elements
  BY <1>1, ElementOfSeq, Zenon
<1>3. QED
  BY <1>2 DEF Elements, Txs, queueTx, Unset

LEMMA TypesStep ==
    ASSUME Types, Shape, RepeatInv, [Next]_vars
    PROVE  Types'
<1> USE DEF Types
<1>1. CASE SetLatestIndex
  BY <1>1, Zenon DEF SetLatestIndex, memory, loop, world, faults, Txs, Labels
<1>2. CASE SetLatestEnqueueIndex
  BY <1>2, Zenon DEF SetLatestEnqueueIndex, memory, loop, world, faults, Txs, Labels
<1>3. CASE mine
  BY <1>3, NoTxType DEF mine, memory, loop, world, faults, afterMined, Labels
<1>4. CASE minerRefuses \/ cacheUpdateFails
  <2>1. chain' = chain \/ chain' = Append(chain, cur)
    BY <1>4, Zenon DEF minerRefuses, cacheUpdateFails
  <2>2. chain' \in Seq(Txs)
    <3>1. chain \in Seq(Txs) /\ cur \in Txs
      BY Zenon
    <3> HIDE DEF Types
    <3>2. QED
      BY <2>1, <3>1, AppendProperties
  <2>3. queueFails' \in Nat /\ cacheFails' \in Nat
    BY <1>4 DEF minerRefuses, cacheUpdateFails
  <2>4. restore
    BY <1>4, Zenon DEF minerRefuses, cacheUpdateFails
  <2>5. UNCHANGED <<headQueueIndex, world>>
    BY <2>4, Zenon DEF restore
  <2>6. QED
    BY <2>2, <2>3, <2>4, <2>5, RestoreTypes, Zenon DEF world
<1>5. CASE ValidateAndApplySequencerTransaction
  <2>1. toTip(NoTx) /\ pc' = "index" /\ UNCHANGED <<database, rest, loop, world, faults>>
    BY <1>5, Zenon DEF ValidateAndApplySequencerTransaction, toTip
  <2>2. QED
    BY <2>1, NoTxType, ToTipTypes, Zenon DEF database, loop, world, faults, Labels
<1>6. CASE syncQueue
  <2>1. /\ UNCHANGED <<memory, database, cur, saved, loop, world, rpcs, faults>>
        /\ rest' = <<queueTx(GetNextEnqueueIndex)>> /\ pc' \in Labels /\ moreQueued
    BY <1>6, Zenon DEF syncQueue, Labels
  <2>2. queueTx(GetNextEnqueueIndex) \in Txs
    <3>1. GetNextEnqueueIndex \in 0..(Len(queue) - 1)
      BY <2>1 DEF moreQueued, GetNextEnqueueIndex, RepeatInv, HeadInv, Unset
    <3>2. QED
      BY <3>1, QueueTx, Zenon
  <2>3. rest' \in Seq(Txs)
    BY <2>1, <2>2
  <2>4. QED
    BY <2>1, <2>3, Zenon DEF memory, database, loop, world, faults
<1>7. CASE SchedulerRollback
  <2> DEFINE start == queue[Head(rest).queueIndex + 1].rollback
  <2>1. UNCHANGED <<headIndex, headQueueIndex, world, faults>> /\ pc = "rollback"
    BY <1>7, Zenon DEF SchedulerRollback
  <2>2. CASE exit /\ UNCHANGED chain
    BY <2>1, <2>2, ExitTypes, Zenon DEF world, faults
  <2>3. CASE /\ start > 1
             /\ rest' = rolledBack(start) \o rest
             /\ chain' = SubSeq(chain, 1, start - 1)
             /\ timestamp' = chain[start - 1].timestamp
             /\ blockNumber' = chain[start - 1].blockNumber
             /\ pc' = "setHead"
             /\ UNCHANGED <<cur, saved, loop>>
    <3>1. start \in 1..Len(chain)
      BY <2>1 DEF Shape
    <3> HIDE DEF start
    <3>2. start \in 2..Len(chain)
      BY <2>3, <3>1
    <3>3. chain[start - 1] \in Txs
      BY <3>2
    <3>4. rolledBack(start) \in Seq(Txs) /\ SubSeq(chain, 1, start - 1) \in Seq(Txs)
      <4>1. chain \in Seq(Txs) /\ Len(chain) \in Nat
        OBVIOUS
      <4> HIDE DEF Types
      <4>2. /\ start \in 1..Len(chain) + 1 /\ Len(chain) \in start - 1..Len(chain)
            /\ start - 1 \in 0..Len(chain)
        BY <3>2, <4>1
      <4>3. SubSeq(chain, start, Len(chain)) \in Seq(Txs)
        BY <4>1, <4>2, SubSeqProperties
      <4>4. SubSeq(chain, 1, start - 1) \in Seq(Txs)
        BY <4>1, <4>2, SubSeqProperties
      <4>5. QED
        BY <4>3, <4>4, Zenon DEF rolledBack
    <3>5. chain' \in Seq(Txs) /\ rest' \in Seq(Txs) /\ timestamp' \in Int /\ blockNumber' \in Int
      <4>1. rolledBack(start) \o rest \in Seq(Txs)
        BY <3>4, ConcatProperties, Zenon
      <4>2. QED
        BY <2>3, <3>3, <3>4, <4>1, Zenon DEF Txs
    <3>6. QED
      BY <2>1, <2>3, <3>5, Zenon DEF world, faults, loop, Labels
  <2>4. QED
    BY <1>7, <2>2, <2>3, Zenon DEF SchedulerRollback
<1>8. CASE SetHeadIndex
  <2>1. pc = "setHead" /\ headIndex' = chain[Len(chain)].index /\ pc' = "next"
        /\ UNCHANGED <<memory, chain, headQueueIndex, cur, saved, rest, loop, world, faults>>
    BY <1>8, Zenon DEF SetHeadIndex
  <2>2. chain # <<>>
    BY <2>1 DEF Shape
  <2>3. chain[Len(chain)] \in Txs
    BY <2>2, LastAt, Zenon
  <2>4. QED
    BY <2>1, <2>3, Zenon DEF memory, loop, world, faults, Labels, Txs
<1>9. CASE applyTransaction
  <2>1. UNCHANGED <<database, world, faults>> /\ rest # <<>>
    BY <1>9, Zenon DEF applyTransaction, Shape
  <2>2. Head(rest) \in Txs /\ Tail(rest) \in Seq(Txs)
    BY <2>1
  <2>3. CASE toTip(Head(rest)) /\ rest' = Tail(rest) /\ UNCHANGED loop
    BY <2>1, <2>2, <2>3, ToTipTypes, Zenon DEF database, world, faults, loop, toTip, Labels
  <2>4. CASE rest' = Tail(rest) /\ UNCHANGED <<memory, pc, cur, saved, loop>>
    BY <2>1, <2>2, <2>4, Zenon DEF database, world, faults, loop, memory
  <2>5. CASE exit
    BY <2>1, <2>5, ExitTypes, Zenon DEF database, world, faults
  <2>6. QED
    BY <1>9, <2>3, <2>4, <2>5, Zenon DEF applyTransaction
<1>10. CASE takeTxLock \/ queueAtTip \/ GetLatestEthContext \/ updateL1BlockNumber
  <2>1. UNCHANGED <<timestamp, database, applying, world, faults>>
    BY <1>10, Zenon DEF takeTxLock, queueAtTip, GetLatestEthContext, updateL1BlockNumber, goto, memory
  <2>2. fetched' \in Int /\ blockNumber' \in Int
    BY <1>10 DEF takeTxLock, queueAtTip, GetLatestEthContext, updateL1BlockNumber, goto, memory,
         Unset
  <2>3. QED
    BY <2>1, <2>2, Zenon DEF database, applying, world, faults
<1>11. CASE initializeLatestL1
  <2>1. UNCHANGED <<chain, cur, saved, rest, loop, world, faults>> /\ pc' = "idle" /\ recoverable
    BY <1>11, Zenon DEF initializeLatestL1
  <2>2. headIndex' \in Int
    BY <1>11 DEF initializeLatestL1, repairedIndex
  <2>3. headQueueIndex' \in Int
    <3>1. headQueueIndex' = repairedQueueIndex
      BY <1>11, Zenon DEF initializeLatestL1
    <3>2. \A i \in queueBlocks : chain[i].queueIndex \in Int
      <4>1. \A i \in queueBlocks : chain[i] \in Txs
        BY DEF queueBlocks
      <4>2. QED
        BY <4>1, Zenon DEF Txs
    <3>3. QED
      BY <3>1, <3>2, RepairedQueueIndex, Zenon
  <2>4. timestamp' \in Int /\ blockNumber' \in Int
    BY <1>11, <2>1, StartBlock DEF initializeLatestL1, Deploy, Txs
  <2>5. QED
    BY <2>1, <2>2, <2>3, <2>4, Zenon DEF loop, world, faults, Labels
<1>12. CASE crash
  <2>1. exit /\ UNCHANGED <<database, world, queueFails, cacheFails>>
    BY <1>12, Zenon DEF crash
  <2>2. QED
    BY <2>1, ExitTypes, Zenon DEF database, world
<1>13. CASE l1Block
  <2>1. /\ l1' = l1 + 1
        /\ UNCHANGED <<memory, database, applying, loop, seen, now, rpcs, faults>>
    BY <1>13, Zenon DEF l1Block
  <2>2. queue' = queue \/ \E r \in {0} \cup RollbackTargets :
              queue' = Append(queue, [blockNumber |-> l1 + 1, rollback |-> r])
    BY <1>13, Zenon DEF l1Block
  <2>3. queue' \in Seq(Elements) /\ Len(queue') >= Len(queue)
    <3>1. \A r \in {0} \cup RollbackTargets : [blockNumber |-> l1 + 1, rollback |-> r] \in Elements
      BY SyncConstants DEF Elements
    <3>2. queue' = queue \/ \E e \in Elements : queue' = Append(queue, e)
      BY <2>2, <3>1, Zenon
    <3>3. queue \in Seq(Elements) /\ Len(queue) \in Nat
      OBVIOUS
    <3> HIDE DEF Types
    <3>4. QED
      BY <3>2, <3>3, AppendProperties
  <2>4. QED
    BY <2>1, <2>3 DEF memory, database, applying, loop, faults
<1>14. CASE ingest
  BY <1>14 DEF ingest, memory, database, applying, loop, faults
<1>15. CASE clock
  <2>1. now' \in Nat
    BY <1>15, SyncConstants, Zenon DEF clock
  <2>2. UNCHANGED <<memory, database, applying, loop, l1, queue, seen, rpcs, faults>>
    BY <1>15, Zenon DEF clock
  <2>3. QED
    BY <2>1, <2>2, Zenon DEF memory, database, applying, loop, faults
<1>16. CASE UNCHANGED vars
  BY <1>16, Zenon DEF vars, memory, database, applying, loop, world, faults
<1>17. QED
  BY <1>1, <1>2, <1>3, <1>4, <1>5, <1>6, <1>7, <1>8, <1>9, <1>10, <1>11, <1>12, <1>13, <1>14,
     <1>15, <1>16, Zenon DEF Next, Service

----------------------------------------------------------------------------
\* The shape of a round.

LEMMA TailAt ==
    ASSUME NEW s \in Seq(Txs), s # <<>>
    PROVE  /\ Tail(s) \in Seq(Txs) /\ Len(Tail(s)) = Len(s) - 1
           /\ \A i \in 1..(Len(s) - 1) : Tail(s)[i] = s[i + 1]
           /\ Head(s) = s[1] /\ Len(s) \in Nat \ {0}
BY HeadTailProperties, EmptySeq

\* What SchedulerRollback moves from the chain to the round.
LEMMA RolledBackAt ==
    ASSUME Types, NEW start \in 2..Len(chain)
    PROVE  LET kept == SubSeq(chain, 1, start - 1)
               back == rolledBack(start) \o rest
           IN  /\ kept \in Seq(Txs) /\ Len(kept) = start - 1
               /\ \A i \in 1..(start - 1) : kept[i] = chain[i]
               /\ back \in Seq(Txs) /\ Len(back) = Len(chain) - start + 1 + Len(rest)
               /\ \A i \in 1..Len(back) :
                    back[i] = IF i <= Len(chain) - start + 1 THEN chain[start + i - 1]
                              ELSE rest[i - (Len(chain) - start + 1)]
<1>1. chain \in Seq(Txs) /\ rest \in Seq(Txs) /\ Len(chain) \in Nat /\ Len(rest) \in Nat
  BY DEF Types
<1>2. \A i \in 1..Len(chain) : chain[i] \in Txs
  BY <1>1
<1> DEFINE kept == SubSeq(chain, 1, start - 1)
           cut == SubSeq(chain, start, Len(chain))
<1>3. /\ kept \in Seq(Txs) /\ Len(kept) = start - 1
      /\ \A i \in 1..(start - 1) : kept[i] = chain[i]
  <2>1. start - 1 \in Int /\ 1 <= start - 1 /\ \A i \in 1..(start - 1) : chain[i] \in Txs
    BY <1>1, <1>2
  <2>2. kept \in Seq(Txs) /\ Len(kept) = start - 1 - 1 + 1
        /\ \A i \in 1..start - 1 - 1 + 1 : kept[i] = chain[1 + i - 1]
    BY <2>1, SubSeqProperties
  <2> HIDE DEF kept
  <2>3. QED
    BY <1>1, <2>2
<1>4. /\ cut \in Seq(Txs) /\ Len(cut) = Len(chain) - start + 1
      /\ \A i \in 1..(Len(chain) - start + 1) : cut[i] = chain[start + i - 1]
  <2>1. start <= Len(chain) /\ \A i \in start..Len(chain) : chain[i] \in Txs
    BY <1>1, <1>2
  <2>2. QED
    BY <1>1, <2>1, SubSeqProperties
<1> HIDE DEF kept, cut
<1>5. /\ cut \o rest \in Seq(Txs) /\ Len(cut \o rest) = Len(cut) + Len(rest)
      /\ \A i \in 1..(Len(cut) + Len(rest)) :
           (cut \o rest)[i] = IF i <= Len(cut) THEN cut[i] ELSE rest[i - Len(cut)]
  BY <1>1, <1>4, ConcatProperties, Zenon
<1>6. QED
  BY <1>1, <1>3, <1>4, <1>5 DEF kept, cut, rolledBack

\* The new queue element stays the last of the round.
LEMMA ShapeKept ==
    ASSUME Types, Types', Shape, pc' # "rollback",
           pc' \in {"down", "idle"} => rest' = <<>>,
           pc' \in {"next", "rollback", "setHead"} => rest' # <<>>,
           pc' = "setHead" => Len(chain') > 0,
           rest' # <<>> => rest # <<>> /\ rest'[Len(rest')] = rest[Len(rest)],
           Len(queue) <= Len(queue')
    PROVE  Shape'
<1>1. Len(queue) \in Nat /\ Len(queue') \in Nat
  <2>1. queue \in Seq(Elements) /\ queue' \in Seq(Elements)
    BY Zenon DEF Types
  <2>2. QED
    BY <2>1
<1>2. ASSUME rest' # <<>>
      PROVE  /\ rest'[Len(rest')].index = Unset /\ rest'[Len(rest')].timestamp = Unset
             /\ rest'[Len(rest')].queueIndex \in 0..(Len(queue') - 1)
  <2>1. PICK tx : tx = rest[Len(rest)] /\ tx = rest'[Len(rest')]
    BY <1>2, Zenon
  <2>2. tx.index = Unset /\ tx.timestamp = Unset /\ tx.queueIndex \in 0..(Len(queue) - 1)
    BY <1>2, <2>1, Zenon DEF Shape
  <2>3. QED
    BY <1>1, <2>1, <2>2
<1>3. QED
  BY <1>2, Zenon DEF Shape

LEMMA ShapeStep ==
    ASSUME Types, Types', Shape, RepeatInv, [Next]_vars
    PROVE  Shape'
<1>0. rest \in Seq(Txs) /\ chain \in Seq(Txs) /\ pc \in Labels
  BY Zenon DEF Types
<1>1. ASSUME exit, UNCHANGED queue
      PROVE  Shape'
  BY <1>1, Zenon DEF exit, Shape
<1>2. CASE SetLatestIndex \/ SetLatestEnqueueIndex
  <2>1. pc' \in {"queueIndex", "mine"} /\ UNCHANGED <<rest, queue>>
    BY <1>2, Zenon DEF SetLatestIndex, SetLatestEnqueueIndex, world
  <2>2. Len(queue) <= Len(queue')
    BY <2>1 DEF Types
  <2>3. QED
    BY <2>1, <2>2, ShapeKept, Zenon
<1>3. CASE mine
  BY <1>3, ShapeKept DEF mine, world, afterMined, Types
<1>4. CASE minerRefuses \/ cacheUpdateFails
  <2>1. restore /\ UNCHANGED queue
    BY <1>4, Zenon DEF minerRefuses, cacheUpdateFails, restore, world
  <2>2. CASE ~fatal /\ pc' = "idle" /\ UNCHANGED rest
    BY <2>1, <2>2, ShapeKept DEF fatal, Types
  <2>3. QED
    BY <1>1, <2>1, <2>2, Zenon DEF restore
<1>5. CASE ValidateAndApplySequencerTransaction
  BY <1>5, ShapeKept DEF ValidateAndApplySequencerTransaction, toTip, world, Types
<1>6. CASE syncQueue
  <2>1. GetNextEnqueueIndex \in 0..(Len(queue) - 1)
    BY <1>6 DEF syncQueue, Types, moreQueued, GetNextEnqueueIndex, RepeatInv, HeadInv, Unset
  <2>2. PICK n \in 0..(Len(queue) - 1) : n = GetNextEnqueueIndex
    BY <2>1, Zenon
  <2>3. /\ rest' = <<queueTx(n)>> /\ UNCHANGED <<chain, queue>>
        /\ pc' = IF mayRollback(n) THEN "rollback" ELSE "next"
    BY <1>6, <2>2, Zenon DEF syncQueue, database, world
  <2>4. /\ Len(rest') = 1 /\ rest' # <<>> /\ rest'[1].queueIndex = n
        /\ rest'[1].index = Unset /\ rest'[1].timestamp = Unset
    BY <2>2, <2>3, QueueTx, Zenon
  <2>5. pc' = "rollback" => queue'[rest'[1].queueIndex + 1].rollback \in 1..Len(chain')
    BY <2>3, <2>4, Zenon DEF mayRollback
  <2>6. QED
    BY <2>2, <2>3, <2>4, <2>5, Zenon DEF Shape
<1>7. CASE SchedulerRollback
  <2>1. PICK start \in 1..Len(chain) : start = queue[Head(rest).queueIndex + 1].rollback
    <3>1. pc = "rollback" /\ rest # <<>>
      BY <1>7, Zenon DEF SchedulerRollback, Shape
    <3>2. QED
      BY <1>0, <3>1, TailAt, Zenon DEF Shape
  <2>2. UNCHANGED queue /\ pc = "rollback"
    BY <1>7, Zenon DEF SchedulerRollback, world
  <2>3. CASE /\ start > 1
             /\ rest' = rolledBack(start) \o rest
             /\ chain' = SubSeq(chain, 1, start - 1)
             /\ pc' = "setHead"
    <3>1. start \in 2..Len(chain) /\ rest # <<>>
      BY <1>0, <2>2, <2>3 DEF Shape
    <3>2. Len(rest) \in Nat \ {0} /\ Len(chain) \in Nat
      BY <1>0, <3>1, EmptySeq
    <3>3. /\ Len(chain') = start - 1
          /\ Len(rest') = Len(chain) - start + 1 + Len(rest)
          /\ rest'[Len(rest')] = rest[Len(rest)]
      <4>1. /\ Len(chain') = start - 1
            /\ Len(rest') = Len(chain) - start + 1 + Len(rest)
            /\ \A i \in 1..Len(rest') :
                 rest'[i] = IF i <= Len(chain) - start + 1 THEN chain[start + i - 1]
                            ELSE rest[i - (Len(chain) - start + 1)]
        BY <2>3, <3>1, RolledBackAt, Zenon
      <4>2. PICK n : n = Len(rest')
        BY Zenon
      <4>3. /\ n \in 1..n /\ ~(n <= Len(chain) - start + 1)
            /\ n - (Len(chain) - start + 1) = Len(rest)
        BY <3>1, <3>2, <4>1, <4>2
      <4>4. QED
        BY <4>1, <4>2, <4>3, Zenon
    <3>4. Len(rest') > 0
      BY <3>1, <3>2, <3>3
    <3>5. rest' # <<>> /\ Len(queue) <= Len(queue')
      BY <2>2, <3>4 DEF Types
    <3>6. Len(chain') > 0
      BY <3>1, <3>3
    <3>7. QED
      BY <2>3, <3>1, <3>3, <3>5, <3>6, ShapeKept, Zenon
  <2>4. QED
    BY <1>1, <1>7, <2>1, <2>2, <2>3, Zenon DEF SchedulerRollback
<1>8. CASE SetHeadIndex
  BY <1>8, ShapeKept, Zenon DEF SetHeadIndex, world, Types, Shape
<1>9. CASE applyTransaction
  <2>1. UNCHANGED queue /\ rest # <<>> /\ pc = "next" /\ UNCHANGED chain
    BY <1>9, Zenon DEF applyTransaction, Shape, world, database
  <2>2. Head(rest) = rest[1] /\ Len(rest) \in Nat \ {0}
    BY <1>0, <2>1, TailAt, Zenon
  <2>3. ASSUME rest' = Tail(rest), rest' # <<>>
        PROVE  rest'[Len(rest')] = rest[Len(rest)]
    <3>1. Len(rest') = Len(rest) - 1 /\ Len(rest') # 0
      BY <1>0, <2>1, <2>3, TailAt, EmptySeq, Zenon DEF Types
    <3>2. QED
      BY <1>0, <2>1, <2>2, <2>3, <3>1, TailAt
  <2>4. Len(queue) <= Len(queue')
    BY <2>1 DEF Types
  <2>5. CASE toTip(Head(rest)) /\ rest' = Tail(rest)
    <3>1. pc' = "index"
      BY <2>5, Zenon DEF toTip
    <3>2. QED
      BY <2>1, <2>3, <2>4, <2>5, <3>1, ShapeKept, Zenon
  <2>6. CASE ~atTip(Head(rest)) /\ rest' = Tail(rest) /\ UNCHANGED pc
    <3>1. Len(rest) # 1
      BY <2>1, <2>2, <2>6, Zenon DEF Shape, atTip
    <3>2. rest' # <<>>
      <4>1. Len(rest') = Len(rest) - 1
        BY <1>0, <2>1, <2>6, TailAt, Zenon
      <4>2. Len(rest') # 0
        BY <2>2, <3>1, <4>1
      <4>3. QED
        BY <4>2
    <3>3. QED
      BY <2>1, <2>3, <2>4, <2>6, <3>2, ShapeKept, Zenon
  <2>7. QED
    BY <1>1, <1>9, <2>1, <2>5, <2>6, Zenon DEF applyTransaction
<1>10. CASE takeTxLock \/ queueAtTip \/ GetLatestEthContext \/ updateL1BlockNumber \/ ingest \/ clock
            \/ UNCHANGED vars
  <2>1. UNCHANGED <<chain, pc, rest, queue>>
    BY <1>10, Zenon DEF takeTxLock, queueAtTip, GetLatestEthContext, updateL1BlockNumber, ingest, clock,
         goto, vars, database, applying, world
  <2>2. QED
    BY <2>1, Zenon DEF Shape
<1>11. CASE initializeLatestL1
  <2>1. pc' = "idle" /\ pc = "down" /\ UNCHANGED <<rest, queue>>
    BY <1>11, Zenon DEF initializeLatestL1, world
  <2>2. QED
    BY <2>1, Zenon DEF Shape
<1>12. CASE crash
  BY <1>1, <1>12, Zenon DEF crash, world
<1>13. CASE l1Block
  <2>1. UNCHANGED <<chain, pc, rest>>
    BY <1>13, Zenon DEF l1Block, database, applying
  <2>2. queue' = queue \/ \E e : queue' = Append(queue, e)
    BY <1>13, Zenon DEF l1Block
  <2>3. queue \in Seq(Elements) /\ Len(queue) \in Nat
    BY DEF Types
  <2>4. /\ Len(queue') \in Nat /\ Len(queue) <= Len(queue')
        /\ \A k \in 1..Len(queue) : queue'[k] = queue[k]
    BY <2>2, <2>3
  <2>5. CASE pc # "rollback"
    BY <2>1, <2>4, <2>5 DEF Shape
  <2>6. CASE pc = "rollback"
    <3>1. rest[1].queueIndex \in 0..(Len(queue) - 1) /\ Len(rest) = 1
      BY <2>6, Zenon DEF Shape
    <3>2. rest[1].queueIndex + 1 \in 1..Len(queue)
      BY <2>3, <3>1
    <3>3. QED
      BY <2>1, <2>4, <2>6, <3>1, <3>2 DEF Shape
  <2>7. QED
    BY <2>5, <2>6, Zenon
<1>14. QED
  BY <1>2, <1>3, <1>4, <1>5, <1>6, <1>7, <1>8, <1>9, <1>10, <1>11, <1>12, <1>13, Zenon
     DEF Next, Service

----------------------------------------------------------------------------
\* What the steps do to the line.

LEMMA LineKept ==
    ASSUME UNCHANGED <<chain, cur, rest>>, (pc' \in Busy) = (pc \in Busy)
    PROVE  length' = length /\ \A i \in 1..length : at(i)' = at(i)
BY Zenon DEF length, at, pending

LEMMA LineMined ==
    ASSUME Types, pc = "mine", chain' = Append(chain, cur), UNCHANGED rest, pc' \notin Busy
    PROVE  length' = length /\ \A i \in 1..length : at(i)' = at(i)
<1>1. /\ Len(chain) \in Nat /\ Len(rest) \in Nat /\ pending = 1 /\ pending' = 0
      /\ Len(chain') = Len(chain) + 1 /\ chain'[Len(chain) + 1] = cur
      /\ \A i \in 1..Len(chain) : chain'[i] = chain[i]
  BY DEF Types, pending, Busy
<1>2. QED
  BY <1>1 DEF length, at

\* The rest of the round is given up, and the transaction on its way with it
\* unless it was mined.
LEMMA LineCut ==
    ASSUME Types, rest' = <<>>, pc' \notin Busy,
           chain' = chain \/ (pc = "mine" /\ chain' = Append(chain, cur))
    PROVE  /\ length' = Len(chain') /\ length' \in Nat /\ length' <= length
           /\ \A i \in 1..length' : at(i)' = at(i)
<1>1. Len(chain) \in Nat /\ Len(rest) \in Nat /\ pending \in {0, 1} /\ pending' = 0 /\ Len(rest') = 0
  BY DEF Types, pending
<1>2. CASE chain' = chain
  BY <1>1, <1>2 DEF length, at
<1>3. CASE pc = "mine" /\ chain' = Append(chain, cur)
  <2>1. /\ pending = 1 /\ Len(chain') = Len(chain) + 1 /\ chain'[Len(chain) + 1] = cur
        /\ \A i \in 1..Len(chain) : chain'[i] = chain[i]
    BY <1>3 DEF Types, pending, Busy
  <2>2. QED
    BY <1>1, <2>1 DEF length, at
<1>4. QED
  BY <1>2, <1>3, Zenon

LEMMA LineRolledBack ==
    ASSUME Types, pc \notin Busy, pc' \notin Busy, NEW start \in 2..Len(chain),
           rest' = rolledBack(start) \o rest, chain' = SubSeq(chain, 1, start - 1)
    PROVE  length' = length /\ \A i \in 1..length : at(i)' = at(i)
<1>1. Len(chain) \in Nat /\ Len(rest) \in Nat /\ pending = 0 /\ pending' = 0
  BY DEF Types, pending
<1>2. /\ Len(chain') = start - 1 /\ \A i \in 1..(start - 1) : chain'[i] = chain[i]
      /\ Len(rest') = Len(chain) - start + 1 + Len(rest)
      /\ \A i \in 1..Len(rest') :
           rest'[i] = IF i <= Len(chain) - start + 1 THEN chain[start + i - 1]
                      ELSE rest[i - (Len(chain) - start + 1)]
  BY RolledBackAt, Zenon
<1>3. length' = length /\ length = Len(chain) + Len(rest)
  BY <1>1, <1>2 DEF length
<1>4. ASSUME NEW i \in 1..length
      PROVE  at(i)' = at(i)
  <2>1. CASE i < start
    BY <1>1, <1>2, <2>1 DEF at
  <2>2. CASE i >= start
    <3>1. at(i)' = rest'[i - (start - 1)] /\ i - (start - 1) \in 1..Len(rest')
      BY <1>1, <1>2, <1>3, <2>2 DEF at
    <3>2. PICK k \in 1..Len(rest') : k = i - (start - 1)
      BY <3>1, Zenon
    <3>3. rest'[k] = IF k <= Len(chain) - start + 1 THEN chain[start + k - 1]
                     ELSE rest[k - (Len(chain) - start + 1)]
      BY <1>2, Zenon
    <3>4. start + k - 1 = i /\ k - (Len(chain) - start + 1) = i - Len(chain)
          /\ (k <= Len(chain) - start + 1 <=> i <= Len(chain))
      BY <1>1, <1>3, <3>2
    <3>5. rest'[k] = IF i <= Len(chain) THEN chain[i] ELSE rest[i - Len(chain)]
      BY <3>3, <3>4, Zenon
    <3>6. QED
      BY <1>1, <1>3, <3>1, <3>2, <3>5 DEF at
  <2>3. QED
    BY <1>1, <1>3, <2>1, <2>2
<1>5. QED
  BY <1>3, <1>4, Zenon

\* The next transaction of the round is on its way.
LEMMA LineTaken ==
    ASSUME Types, pc = "next", pc' \in Busy, rest # <<>>, rest' = Tail(rest), UNCHANGED chain
    PROVE  /\ length' = length
           /\ \A i \in 1..length : i # Len(chain) + 1 => at(i)' = at(i)
           /\ at(Len(chain) + 1) = rest[1] /\ at(Len(chain) + 1)' = cur'
           /\ Len(chain) + 1 \in 1..length
<1>1. Len(chain) \in Nat /\ Len(rest) \in Nat \ {0} /\ pending = 0 /\ pending' = 1
  BY EmptySeq DEF Types, pending, Busy
<1>2. Len(rest') = Len(rest) - 1 /\ \A i \in 1..(Len(rest) - 1) : rest'[i] = rest[i + 1]
  BY TailAt, Zenon DEF Types
<1>3. length' = length /\ length = Len(chain) + Len(rest)
  BY <1>1, <1>2 DEF length
<1>4. ASSUME NEW i \in 1..length, i # Len(chain) + 1
      PROVE  at(i)' = at(i)
  <2>1. CASE i <= Len(chain)
    BY <2>1, Zenon DEF at
  <2>2. CASE i > Len(chain)
    <3>1. PICK k \in 1..(Len(rest) - 1) : k = i - Len(chain) - 1
      <4>1. i - Len(chain) - 1 \in 1..(Len(rest) - 1)
        BY <1>1, <1>3, <1>4, <2>2
      <4>2. QED
        BY <4>1, Zenon
    <3>2. i > Len(chain') + pending' /\ i > Len(chain) + pending
      BY <1>1, <1>3, <1>4, <2>2
    <3>3. at(i)' = rest'[i - Len(chain') - pending'] /\ at(i) = rest[i - Len(chain) - pending]
      BY <1>1, <1>3, <2>2, <3>2 DEF at
    <3>4. i - Len(chain') - pending' = k /\ i - Len(chain) - pending = k + 1
      BY <1>1, <1>3, <3>1
    <3>5. QED
      BY <1>2, <3>3, <3>4, Zenon
  <2>3. QED
    BY <1>1, <1>3, <2>1, <2>2
<1>5. at(Len(chain) + 1) = rest[1] /\ at(Len(chain) + 1)' = cur'
  BY <1>1 DEF at
<1>6. QED
  BY <1>1, <1>3, <1>4, <1>5

\* A replayed transaction is taken for one that is in the chain.
LEMMA LineDropped ==
    ASSUME Types, pc = "next", UNCHANGED <<pc, chain>>, rest # <<>>, rest' = Tail(rest)
    PROVE  /\ length \in Nat /\ length' = length - 1
           /\ \A i \in 1..length' : at(i)' = IF i <= Len(chain) THEN at(i) ELSE at(i + 1)
<1>1. Len(chain) \in Nat /\ Len(rest) \in Nat \ {0} /\ pending = 0 /\ pending' = 0
  BY EmptySeq DEF Types, pending, Busy
<1>2. Len(rest') = Len(rest) - 1 /\ \A i \in 1..(Len(rest) - 1) : rest'[i] = rest[i + 1]
  BY TailAt, Zenon DEF Types
<1>3. length \in Nat /\ length' = length - 1 /\ length = Len(chain) + Len(rest)
  BY <1>1, <1>2 DEF length
<1>4. ASSUME NEW i \in 1..length'
      PROVE  at(i)' = IF i <= Len(chain) THEN at(i) ELSE at(i + 1)
  <2>1. CASE i <= Len(chain)
    BY <2>1, Zenon DEF at
  <2>2. CASE i > Len(chain)
    <3>1. PICK k \in 1..(Len(rest) - 1) : k = i - Len(chain)
      <4>1. i - Len(chain) \in 1..(Len(rest) - 1)
        BY <1>1, <1>3, <1>4, <2>2
      <4>2. QED
        BY <4>1, Zenon
    <3>2. i > Len(chain') + pending' /\ i + 1 > Len(chain) + pending
      BY <1>1, <1>3, <1>4, <2>2
    <3>3. at(i)' = rest'[i - Len(chain') - pending']
          /\ at(i + 1) = rest[i + 1 - Len(chain) - pending]
      BY <1>1, <1>3, <2>2, <3>2 DEF at
    <3>4. i - Len(chain') - pending' = k /\ i + 1 - Len(chain) - pending = k + 1
      BY <1>1, <1>3, <3>1
    <3>5. QED
      BY <1>2, <2>2, <3>3, <3>4
  <2>3. QED
    BY <1>1, <1>3, <2>1, <2>2
<1>5. QED
  BY <1>3, <1>4, Zenon

\* A new transaction, of a user or from the queue.
LEMMA LineExtended ==
    ASSUME Types, Shape, pc = "idle", UNCHANGED chain, NEW tx,
           \/ pc' \in Busy /\ UNCHANGED rest /\ tx = cur'
           \/ pc' \notin Busy /\ rest' = <<tx>>
    PROVE  /\ length \in Nat /\ length = Len(chain) /\ length' = length + 1
           /\ \A i \in 1..length : at(i)' = at(i)
           /\ \A i : i = Len(chain) + 1 => at(i)' = tx
<1>1. Len(chain) \in Nat /\ Len(rest) = 0 /\ pending = 0 /\ rest = <<>>
  BY DEF Types, pending, Busy, Shape
<1>2. length \in Nat /\ length = Len(chain)
  BY <1>1 DEF length
<1>3. \A i \in 1..length : at(i)' = at(i)
  BY <1>2 DEF at
<1>4. CASE pc' \in Busy /\ UNCHANGED rest /\ tx = cur'
  <2>1. pending' = 1 /\ length' = length + 1
    BY <1>1, <1>2, <1>4 DEF length, pending
  <2>2. ASSUME NEW i, i = Len(chain) + 1
        PROVE  at(i)' = tx
    BY <1>1, <1>4, <2>1, <2>2 DEF at
  <2>3. QED
    BY <1>2, <1>3, <2>1, <2>2, Zenon
<1>5. CASE pc' \notin Busy /\ rest' = <<tx>>
  <2>1. pending' = 0 /\ Len(rest') = 1 /\ rest'[1] = tx
    BY <1>5, Zenon DEF pending
  <2>2. length' = length + 1
    BY <1>1, <1>2, <2>1 DEF length
  <2>3. ASSUME NEW i, i = Len(chain) + 1
        PROVE  at(i)' = tx
    BY <1>1, <2>1, <2>3 DEF at
  <2>4. QED
    BY <1>2, <1>3, <2>2, <2>3, Zenon
<1>6. QED
  BY <1>4, <1>5, Zenon

----------------------------------------------------------------------------
\* Queue elements are not repeated.

LEMMA LineTypes ==
    ASSUME Types
    PROVE  /\ length \in Nat /\ Len(chain) \in Nat /\ Len(chain) <= length
           /\ \A i \in 1..length : at(i) \in Txs /\ at(i).queueIndex \in Int
           /\ \A i \in 1..Len(chain) : at(i) = chain[i]
<1>1. /\ chain \in Seq(Txs) /\ rest \in Seq(Txs) /\ cur \in Txs
      /\ Len(chain) \in Nat /\ Len(rest) \in Nat /\ pending \in {0, 1}
  BY DEF Types, pending
<1>2. length \in Nat /\ Len(chain) <= length /\ \A i \in 1..Len(chain) : at(i) = chain[i]
  BY <1>1 DEF length, at
<1>3. ASSUME NEW i \in 1..length
      PROVE  at(i) \in Txs
  <2>1. CASE i <= Len(chain)
    BY <1>1, <1>2, <2>1 DEF at
  <2>2. CASE i > Len(chain) /\ i <= Len(chain) + pending
    BY <1>1, <1>2, <2>2 DEF at
  <2>3. CASE i > Len(chain) + pending
    <3>1. i - Len(chain) - pending \in 1..Len(rest)
      BY <1>1, <1>2, <2>3 DEF length
    <3>2. rest[i - Len(chain) - pending] \in Txs
      BY <1>1, <3>1, ElementOfSeq, Zenon
    <3>3. QED
      BY <1>1, <2>3, <3>2 DEF at
  <2>4. QED
    BY <1>1, <1>2, <2>1, <2>2, <2>3
<1>4. \A i \in 1..length : at(i).queueIndex \in Int
  BY <1>3, Zenon DEF Txs
<1>5. QED
  BY <1>1, <1>2, <1>3, <1>4, Zenon

LEMMA RisingKept ==
    ASSUME Types, Rising, length' \in Nat, length' <= length,
           \A i \in 1..length' : at(i)'.queueIndex = at(i).queueIndex
    PROVE  Rising'
<1>1. \A i \in 1..length' : i \in 1..length
  BY LineTypes
<1>2. QED
  BY <1>1, Zenon DEF Rising

LEMMA RisingExtended ==
    ASSUME Types, Rising, length' = length + 1,
           \A i \in 1..length : at(i)' = at(i),
           NEW n, n = length + 1,
           \/ at(n)'.queueIndex = Unset
           \/ at(n)'.queueIndex >= Unset /\ \A i \in 1..length : at(i).queueIndex < at(n)'.queueIndex
    PROVE  Rising'
<1>1. length \in Nat
  BY LineTypes, Zenon
<1>2. \A i \in 1..length' : i \in 1..length \/ i = n
  BY <1>1
<1>3. ASSUME NEW i \in 1..length'
      PROVE  at(i)'.queueIndex >= Unset
  BY <1>2 DEF Rising, Unset
<1>4. ASSUME NEW i \in 1..length', NEW j \in 1..length', i < j,
             at(i)'.queueIndex # Unset, at(j)'.queueIndex # Unset
      PROVE  at(i)'.queueIndex < at(j)'.queueIndex
  <2>1. i \in 1..length
    BY <1>1, <1>4
  <2>2. CASE j \in 1..length
    BY <1>4, <2>1, <2>2, Zenon DEF Rising
  <2>3. CASE j = n
    BY <1>4, <2>1, <2>3, Zenon
  <2>4. QED
    BY <1>2, <2>2, <2>3, Zenon
<1>5. QED
  BY <1>3, <1>4, Zenon DEF Rising

LEMMA RisingDropped ==
    ASSUME Types, Rising, length \in Nat, length' = length - 1,
           \A i \in 1..length' : at(i)' = IF i <= Len(chain) THEN at(i) ELSE at(i + 1)
    PROVE  Rising'
<1>1. Len(chain) \in Nat
  BY DEF Types
<1>2. \A i \in 1..length' : \E k \in 1..length : /\ at(i)' = at(k)
                                                 /\ k = IF i <= Len(chain) THEN i ELSE i + 1
  OBVIOUS
<1>3. ASSUME NEW i \in 1..length', NEW j \in 1..length', i < j,
             at(i)'.queueIndex # Unset, at(j)'.queueIndex # Unset
      PROVE  at(i)'.queueIndex < at(j)'.queueIndex
  <2>1. PICK k \in 1..length : at(i)' = at(k) /\ k = IF i <= Len(chain) THEN i ELSE i + 1
    BY <1>2, Zenon
  <2>2. PICK m \in 1..length : at(j)' = at(m) /\ m = IF j <= Len(chain) THEN j ELSE j + 1
    BY <1>2, Zenon
  <2>3. k < m
    BY <1>1, <1>3, <2>1, <2>2
  <2>4. QED
    BY <1>3, <2>1, <2>2, <2>3, Zenon DEF Rising
<1>4. \A i \in 1..length' : at(i)'.queueIndex >= Unset
  BY <1>2, Zenon DEF Rising
<1>5. QED
  BY <1>3, <1>4, Zenon DEF Rising

\* Before it is mined, a queue element is the latest and above the chain.
LEMMA MineAbove ==
    ASSUME Types, RepeatInv, pc = "mine", rest = <<>>
    PROVE  /\ \A i \in 1..Len(chain) : chain[i].queueIndex <= headQueueIndex
           /\ cur.queueIndex <= headQueueIndex
           /\ cur.queueIndex # Unset => headQueueIndex # Unset
<1>1. cur.queueIndex \in Int /\ headQueueIndex \in Int /\ headQueueIndex >= Unset
  BY Zenon DEF Types, Txs, RepeatInv, HeadInv
<1>2. CASE cur.queueIndex = Unset
  BY <1>1, <1>2, Zenon DEF RepeatInv, HeadInv, Settled, Busy
<1>3. CASE cur.queueIndex # Unset
  <2>1. headQueueIndex = cur.queueIndex
    BY <1>3, Zenon DEF RepeatInv, HeadInv
  <2>2. PICK n : n = Len(chain) + 1
    BY Zenon
  <2>3. n \in 1..length /\ at(n) = cur
    BY <2>2 DEF Types, length, at, pending, Busy
  <2>4. \A i \in 1..Len(chain) : i \in 1..length /\ at(i) = chain[i] /\ i < n
    BY <2>2, LineTypes
  <2>5. \A i \in 1..Len(chain) : at(i).queueIndex = Unset \/ at(i).queueIndex < cur.queueIndex
    BY <1>3, <2>3, <2>4, Zenon DEF RepeatInv, Rising
  <2>6. \A i \in 1..Len(chain) : chain[i].queueIndex <= headQueueIndex
    BY <1>1, <2>1, <2>4, <2>5, LineTypes DEF Unset
  <2>7. QED
    BY <1>1, <1>3, <2>1, <2>6
<1>4. QED
  BY <1>2, <1>3, Zenon

\* A step that ends the round: the process stops, or the error is logged.
LEMMA RepeatCut ==
    ASSUME Types, RepeatInv, rest' = <<>>, pc' \in {"down", "idle"}, cur' = NoTx,
           UNCHANGED headQueueIndex,
           \/ chain' = chain
           \/ pc = "mine" /\ chain' = Append(chain, cur) /\ cur.queueIndex = Unset,
           pc' = "idle" => pc = "mine" /\ rest = <<>>
    PROVE  RepeatInv'
<1>1. pc' \notin Busy
  BY Zenon DEF Busy
<1>2. Rising'
  <2>1. length' \in Nat /\ length' <= length /\ \A i \in 1..length' : at(i)' = at(i)
    BY <1>1, LineCut, Zenon
  <2>2. QED
    BY <2>1, RisingKept, Zenon DEF RepeatInv
<1>3. chain' = chain \/ (/\ Len(chain') = Len(chain) + 1 /\ Len(chain) \in Nat
                         /\ chain'[Len(chain) + 1].queueIndex = Unset
                         /\ \A i \in 1..Len(chain) : chain'[i] = chain[i])
  <2>1. chain \in Seq(Txs) /\ cur \in Txs
    BY Zenon DEF Types
  <2>2. CASE chain' = Append(chain, cur) /\ cur.queueIndex = Unset
    BY <2>1, <2>2, AppendProperties
  <2>3. QED
    BY <2>2, Zenon
<1>4. headQueueIndex \in Int /\ headQueueIndex >= Unset
  BY Zenon DEF Types, RepeatInv, HeadInv
<1>5. pc' = "idle" => \A i \in 1..Len(chain') : chain'[i].queueIndex <= headQueueIndex'
  BY <1>3, <1>4, MineAbove DEF Unset
<1>6. headQueueIndex' = Unset => \A i \in 1..Len(chain') : chain'[i].queueIndex = Unset
  BY <1>3 DEF RepeatInv, HeadInv
<1>7. HeadInv'
  BY <1>1, <1>4, <1>5, <1>6, Zenon DEF HeadInv, Settled
<1>8. QED
  BY <1>2, <1>7, Zenon DEF RepeatInv

LEMMA RepeatMined ==
    ASSUME Types, RepeatInv, mine
    PROVE  RepeatInv'
<1>1. /\ pc = "mine" /\ chain' = Append(chain, cur) /\ cur' = NoTx
      /\ UNCHANGED <<rest, headQueueIndex>>
      /\ pc' = IF rest = <<>> THEN "idle" ELSE "next"
  BY Zenon DEF mine, afterMined
<1>2. pc' \notin Busy
  BY <1>1, Zenon DEF Busy
<1>3. Rising'
  <2>1. length' = length /\ \A i \in 1..length : at(i)' = at(i)
    BY <1>1, <1>2, LineMined, Zenon
  <2>2. QED
    BY <2>1, LineTypes, RisingKept DEF RepeatInv
<1>4. /\ Len(chain') = Len(chain) + 1 /\ Len(chain) \in Nat /\ chain'[Len(chain) + 1] = cur
      /\ \A i \in 1..Len(chain) : chain'[i] = chain[i]
  BY <1>1 DEF Types
<1>5. rest = <<>> => \A i \in 1..Len(chain') : chain'[i].queueIndex <= headQueueIndex'
  BY <1>1, <1>4, MineAbove
<1>6. headQueueIndex' = Unset => \A i \in 1..Len(chain') : chain'[i].queueIndex = Unset
  BY <1>1, <1>4 DEF RepeatInv, HeadInv
<1>7. HeadInv'
  BY <1>1, <1>2, <1>5, <1>6, Zenon DEF HeadInv, Settled, RepeatInv
<1>8. QED
  BY <1>3, <1>7, Zenon DEF RepeatInv

LEMMA RepeatApplied ==
    ASSUME Types, Shape, RepeatInv, applyTransaction
    PROVE  RepeatInv'
<1>1. pc = "next" /\ rest # <<>> /\ UNCHANGED database
  BY Zenon DEF applyTransaction, Shape
<1>2. rest \in Seq(Txs) /\ Len(rest) \in Nat \ {0} /\ Head(rest) = rest[1]
  BY <1>1, TailAt, Zenon DEF Types
<1>3. CASE toTip(Head(rest)) /\ rest' = Tail(rest)
  <2>1. cur'.queueIndex = rest[1].queueIndex /\ pc' = "index"
    BY <1>2, <1>3, Zenon DEF toTip
  <2>2. UNCHANGED <<chain, headQueueIndex>>
    BY <1>1, Zenon DEF database
  <2>3. PICK n : n = Len(chain) + 1
    BY Zenon
  <2>4. /\ length' = length /\ n \in 1..length /\ at(n) = rest[1] /\ at(n)' = cur'
        /\ \A i \in 1..length : i # n => at(i)' = at(i)
    BY <1>1, <1>3, <2>1, <2>2, <2>3, LineTaken, Zenon DEF Busy
  <2>5. \A i \in 1..length' : at(i)'.queueIndex = at(i).queueIndex
    BY <2>1, <2>4, Zenon
  <2>6. Rising'
    BY <2>4, <2>5, LineTypes, RisingKept DEF RepeatInv
  <2>7. ~Settled'
    <3>1. CASE Len(rest) = 1
      BY <1>1, <2>1, <3>1 DEF Shape, Settled, Unset
    <3>2. CASE Len(rest) # 1
      <4>1. Len(rest') # 0
        BY <1>1, <1>2, <1>3, <3>2, TailAt
      <4>2. QED
        BY <4>1 DEF Settled
    <3>3. QED
      BY <3>1, <3>2, Zenon
  <2>8. HeadInv'
    BY <2>1, <2>2, <2>7, Zenon DEF HeadInv, RepeatInv, Busy
  <2>9. QED
    BY <2>6, <2>8, Zenon DEF RepeatInv
<1>4. CASE rest' = Tail(rest) /\ UNCHANGED <<pc, cur>>
  <2>1. UNCHANGED <<chain, headQueueIndex>>
    BY <1>1, Zenon DEF database
  <2>2. Rising'
    <3>1. /\ length \in Nat /\ length' = length - 1
          /\ \A i \in 1..length' : at(i)' = IF i <= Len(chain) THEN at(i) ELSE at(i + 1)
      BY <1>1, <1>4, <2>1, LineDropped, Zenon
    <3>2. QED
      BY <3>1, RisingDropped, Zenon DEF RepeatInv
  <2>3. HeadInv'
    BY <1>1, <1>4, <2>1, Zenon DEF HeadInv, RepeatInv, Settled, Busy
  <2>4. QED
    BY <2>2, <2>3, Zenon DEF RepeatInv
<1>5. CASE exit
  BY <1>1, <1>5, RepeatCut, Zenon DEF exit, database
<1>6. QED
  BY <1>3, <1>4, <1>5, Zenon DEF applyTransaction

LEMMA RepeatRolledBack ==
    ASSUME Types, Shape, RepeatInv, SchedulerRollback
    PROVE  RepeatInv'
<1>1. pc = "rollback" /\ UNCHANGED headQueueIndex /\ rest # <<>> /\ rest \in Seq(Txs)
  BY Zenon DEF SchedulerRollback, Shape, Types
<1>2. PICK start \in 1..Len(chain) : start = queue[Head(rest).queueIndex + 1].rollback
  BY <1>1, TailAt, Zenon DEF Shape
<1>3. CASE exit /\ UNCHANGED chain
  BY <1>1, <1>3, RepeatCut, Zenon DEF exit
<1>4. CASE /\ start > 1
           /\ rest' = rolledBack(start) \o rest
           /\ chain' = SubSeq(chain, 1, start - 1)
           /\ pc' = "setHead" /\ UNCHANGED cur
  <2>1. start \in 2..Len(chain) /\ Len(chain) \in Nat
    BY <1>4 DEF Types
  <2>2. Rising'
    <3>1. length' = length /\ \A i \in 1..length : at(i)' = at(i)
      BY <1>1, <1>4, <2>1, LineRolledBack, Zenon DEF Busy
    <3>2. QED
      BY <3>1, LineTypes, RisingKept DEF RepeatInv
  <2>3. Len(chain') = start - 1 /\ \A i \in 1..(start - 1) : chain'[i] = chain[i]
    BY <1>4, <2>1, RolledBackAt, Zenon
  <2>4. headQueueIndex' = Unset => \A i \in 1..Len(chain') : chain'[i].queueIndex = Unset
    BY <1>1, <2>1, <2>3 DEF RepeatInv, HeadInv
  <2>5. HeadInv'
    BY <1>1, <1>4, <2>4, Zenon DEF HeadInv, RepeatInv, Settled, Busy
  <2>6. QED
    BY <2>2, <2>5, Zenon DEF RepeatInv
<1>5. QED
  BY <1>2, <1>3, <1>4, Zenon DEF SchedulerRollback

LEMMA RepeatStarted ==
    ASSUME Types, Shape, RepeatInv, initializeLatestL1
    PROVE  RepeatInv'
<1>1. /\ pc = "down" /\ pc' = "idle" /\ UNCHANGED <<chain, cur, rest>>
      /\ headQueueIndex' = repairedQueueIndex
  BY Zenon DEF initializeLatestL1
<1>2. Rising'
  <2>1. length' = length /\ \A i \in 1..length : at(i)' = at(i)
    BY <1>1, LineKept DEF Busy
  <2>2. QED
    BY <2>1, LineTypes, RisingKept DEF RepeatInv
<1>3. /\ headQueueIndex' >= Unset
      /\ \A i \in 1..Len(chain) : chain[i].queueIndex <= headQueueIndex'
      /\ headQueueIndex' = Unset => \A i \in 1..Len(chain) : chain[i].queueIndex = Unset
  <2>1. \A i \in 1..Len(chain) : i \in 1..length /\ at(i) = chain[i] /\ chain[i].queueIndex \in Int
    BY LineTypes
  <2>2. headQueueIndex \in Int /\ headQueueIndex >= Unset
    BY Zenon DEF Types, RepeatInv, HeadInv
  <2>3. CASE /\ headQueueIndex = Unset \/ queueBlocks = {}
             /\ repairedQueueIndex = headQueueIndex
    <3>1. \A i \in 1..Len(chain) : chain[i].queueIndex = Unset
      BY <2>3, Zenon DEF RepeatInv, HeadInv, queueBlocks
    <3>2. QED
      BY <1>1, <2>2, <2>3, <3>1, Zenon DEF Unset
  <2>4. ASSUME NEW i \in queueBlocks, repairedQueueIndex = chain[i].queueIndex,
               \A j \in queueBlocks : j <= i
        PROVE  /\ headQueueIndex' >= Unset /\ headQueueIndex' # Unset
               /\ \A j \in 1..Len(chain) : chain[j].queueIndex <= headQueueIndex'
    <3>1. i \in 1..Len(chain) /\ chain[i].queueIndex # Unset
      BY Zenon DEF queueBlocks
    <3>2. headQueueIndex' = chain[i].queueIndex /\ chain[i].queueIndex >= Unset
      BY <1>1, <2>1, <2>4, <3>1, Zenon DEF RepeatInv, Rising
    <3>3. ASSUME NEW j \in 1..Len(chain)
          PROVE  chain[j].queueIndex <= chain[i].queueIndex
      <4>1. CASE chain[j].queueIndex = Unset
        BY <2>1, <3>1, <3>2, <4>1, Zenon DEF Unset
      <4>2. CASE j = i
        BY <2>1, <3>1, <4>2
      <4>3. CASE chain[j].queueIndex # Unset /\ j # i
        <5>1. j < i
          BY <2>4, <3>1, <4>3, LineTypes DEF queueBlocks
        <5>2. chain[j].queueIndex < chain[i].queueIndex
          BY <2>1, <3>1, <4>3, <5>1, Zenon DEF RepeatInv, Rising
        <5>3. QED
          BY <2>1, <3>1, <5>2
      <4>4. QED
        BY <4>1, <4>2, <4>3, Zenon
    <3>4. QED
      BY <3>1, <3>2, <3>3, Zenon
  <2>5. QED
    BY <2>3, <2>4, RepairedQueueIndex, Zenon
<1>4. HeadInv'
  BY <1>1, <1>3, Zenon DEF HeadInv, RepeatInv, Busy
<1>5. QED
  BY <1>2, <1>4, Zenon DEF RepeatInv

LEMMA RepeatStep ==
    ASSUME Types, Shape, RepeatInv, [Next]_vars
    PROVE  RepeatInv'
<1>1. CASE UNCHANGED <<chain, headQueueIndex, pc, cur, rest>>
  <2>1. length' = length /\ \A i \in 1..length : at(i)' = at(i)
    BY <1>1, LineKept, Zenon
  <2>2. Rising'
    BY <2>1, LineTypes, RisingKept DEF RepeatInv
  <2>3. HeadInv'
    BY <1>1, Zenon DEF RepeatInv, HeadInv, Settled
  <2>4. QED
    BY <2>2, <2>3, Zenon DEF RepeatInv
<1>2. CASE SetLatestIndex \/ SetLatestEnqueueIndex \/ SetHeadIndex
  <2>1. UNCHANGED <<chain, cur, rest>> /\ (pc' \in Busy) = (pc \in Busy)
    BY <1>2 DEF SetLatestIndex, SetLatestEnqueueIndex, SetHeadIndex, Busy
  <2>2. length' = length /\ \A i \in 1..length : at(i)' = at(i)
    BY <2>1, LineKept, Zenon
  <2>3. Rising'
    BY <2>2, LineTypes, RisingKept DEF RepeatInv
  <2>4. CASE SetLatestIndex \/ SetHeadIndex
    <3>1. /\ UNCHANGED headQueueIndex /\ pc' # "mine"
          /\ \/ pc = "index" /\ pc' = "queueIndex"
             \/ pc = "setHead" /\ pc' = "next"
      BY <2>4, Zenon DEF SetLatestIndex, SetHeadIndex
    <3>2. HeadInv'
      BY <2>1, <3>1, Zenon DEF RepeatInv, HeadInv, Settled, Busy
    <3>3. QED
      BY <2>3, <3>2, Zenon DEF RepeatInv
  <2>5. CASE SetLatestEnqueueIndex
    <3>1. /\ pc = "queueIndex" /\ pc' = "mine"
          /\ headQueueIndex' = IF cur.queueIndex = Unset THEN headQueueIndex ELSE cur.queueIndex
      BY <2>5, Zenon DEF SetLatestEnqueueIndex
    <3>2. cur.queueIndex >= Unset
      <4>1. PICK n : n = Len(chain) + 1
        BY Zenon
      <4>2. n \in 1..length /\ at(n) = cur
        BY <3>1, <4>1 DEF Types, length, at, pending, Busy
      <4>3. QED
        BY <4>2, Zenon DEF RepeatInv, Rising
    <3>3. HeadInv'
      BY <2>1, <3>1, <3>2, Zenon DEF RepeatInv, HeadInv, Settled, Busy
    <3>4. QED
      BY <2>3, <3>3, Zenon DEF RepeatInv
  <2>6. QED
    BY <1>2, <2>4, <2>5, Zenon
<1>3. CASE mine
  BY <1>3, RepeatMined, Zenon
<1>4. CASE minerRefuses \/ cacheUpdateFails
  <2>1. /\ pc = "mine" /\ restore
        /\ \/ chain' = chain
           \/ chain' = Append(chain, cur) /\ cur.queueIndex = Unset
    BY <1>4, Zenon DEF minerRefuses, cacheUpdateFails
  <2>2. UNCHANGED headQueueIndex
    BY <2>1, Zenon DEF restore
  <2>3. CASE exit
    BY <2>1, <2>2, <2>3, RepeatCut, Zenon DEF exit
  <2>4. CASE ~fatal /\ pc' = "idle" /\ cur' = NoTx /\ UNCHANGED rest
    BY <2>1, <2>2, <2>4, RepeatCut, Zenon DEF fatal
  <2>5. QED
    BY <2>1, <2>3, <2>4, Zenon DEF restore
<1>5. CASE ValidateAndApplySequencerTransaction
  <2>1. /\ pc = "idle" /\ pc' = "index" /\ UNCHANGED <<chain, headQueueIndex, rest>>
        /\ cur'.queueIndex = Unset
    BY <1>5, Zenon DEF ValidateAndApplySequencerTransaction, rpcMayApply, toTip, database, NoTx
  <2>2. PICK n : n = Len(chain) + 1
    BY Zenon
  <2>3. PICK tx : tx = cur'
    BY Zenon
  <2>4. /\ length = Len(chain) /\ length' = length + 1
        /\ \A i \in 1..length : at(i)' = at(i)
        /\ at(n)' = cur'
    BY <2>1, <2>2, <2>3, LineExtended, Zenon DEF Busy
  <2>5. Rising'
    BY <2>1, <2>2, <2>4, RisingExtended, Zenon DEF RepeatInv
  <2>6. Settled
    BY <2>1 DEF Settled, Shape, RepeatInv, HeadInv, Busy, NoTx
  <2>7. HeadInv'
    BY <2>1, <2>6, Zenon DEF HeadInv, RepeatInv, Busy
  <2>8. QED
    BY <2>5, <2>7, Zenon DEF RepeatInv
<1>6. CASE syncQueue
  <2>1. PICK m : m = headQueueIndex + 1
    BY Zenon
  <2>2. /\ pc = "idle" /\ pc' \in {"rollback", "next"} /\ UNCHANGED <<chain, headQueueIndex, cur>>
        /\ rest' = <<queueTx(m)>> /\ m < seen
    BY <1>6, <2>1, Zenon DEF syncQueue, database, GetNextEnqueueIndex, moreQueued
  <2>3. m \in 0..(Len(queue) - 1) /\ headQueueIndex \in Int
    BY <2>1, <2>2 DEF Types, RepeatInv, HeadInv, Unset
  <2>4. queueTx(m).queueIndex = m
    BY <2>3, QueueTx, Zenon
  <2>5. PICK n : n = Len(chain) + 1
    BY Zenon
  <2>6. /\ length = Len(chain) /\ length' = length + 1
        /\ \A i \in 1..length : at(i)' = at(i)
        /\ at(n)' = queueTx(m)
    <3>1. PICK tx : tx = queueTx(m)
      BY Zenon
    <3>2. QED
      BY <2>2, <2>5, <3>1, LineExtended, Zenon DEF Busy
  <2>7. \A i \in 1..length : at(i).queueIndex <= headQueueIndex
    <3>1. Settled
      BY <2>2 DEF Settled, Shape, RepeatInv, HeadInv, Busy, NoTx
    <3>2. QED
      BY <2>6, <3>1, LineTypes, Zenon DEF RepeatInv, HeadInv
  <2>8. /\ at(n)'.queueIndex >= Unset
        /\ \A i \in 1..length : at(i).queueIndex < at(n)'.queueIndex
    <3>1. \A i \in 1..length : at(i).queueIndex \in Int
      BY LineTypes, Zenon
    <3>2. at(n)'.queueIndex = m
      BY <2>4, <2>6, Zenon
    <3>3. QED
      BY <2>1, <2>3, <2>7, <3>1, <3>2 DEF Unset
  <2>9. Rising'
    BY <2>5, <2>6, <2>8, RisingExtended, Zenon DEF RepeatInv
  <2>10. HeadInv'
    BY <2>2, Zenon DEF HeadInv, RepeatInv, Settled, Busy
  <2>11. QED
    BY <2>9, <2>10, Zenon DEF RepeatInv
<1>7. CASE SchedulerRollback
  BY <1>7, RepeatRolledBack, Zenon
<1>8. CASE applyTransaction
  BY <1>8, RepeatApplied, Zenon
<1>9. CASE initializeLatestL1
  BY <1>9, RepeatStarted, Zenon
<1>10. CASE crash
  <2>1. exit /\ UNCHANGED <<chain, headQueueIndex>>
    BY <1>10, Zenon DEF crash, database
  <2>2. QED
    BY <2>1, RepeatCut, Zenon DEF exit
<1>11. CASE \/ takeTxLock \/ queueAtTip \/ GetLatestEthContext \/ updateL1BlockNumber
            \/ l1Block \/ ingest \/ clock \/ UNCHANGED vars
  BY <1>1, <1>11, Zenon DEF takeTxLock, queueAtTip, GetLatestEthContext, updateL1BlockNumber, l1Block,
     ingest, clock, goto, vars, database, applying
<1>12. QED
  BY <1>2, <1>3, <1>4, <1>5, <1>6, <1>7, <1>8, <1>9, <1>10, <1>11, Zenon DEF Next, Service

----------------------------------------------------------------------------
\* The indexes and the timestamps.

LEMMA PlacedTypes ==
    ASSUME Types
    PROVE  /\ placed \in Nat /\ placed <= length /\ Len(chain) <= placed
           /\ \A i \in 1..placed : at(i).index \in Int /\ at(i).timestamp \in Int
           /\ \A i \in 1..Len(chain) : at(i) = chain[i] /\ i \in 1..placed
<1>1. Len(chain) \in Nat /\ Len(rest) \in Nat /\ pending \in {0, 1} /\ (rest # <<>> => Len(rest) > 0)
  BY EmptySeq DEF Types, pending
<1>2. placed \in Nat /\ placed <= length /\ Len(chain) <= placed
  BY <1>1 DEF placed, length
<1>3. \A i \in 1..placed : at(i) \in Txs
  BY <1>2, LineTypes
<1>4. \A i \in 1..placed : at(i).index \in Int /\ at(i).timestamp \in Int
  BY <1>3, Zenon DEF Txs
<1>5. QED
  BY <1>1, <1>2, <1>4, LineTypes

LEMMA SortedKept ==
    ASSUME Types, Sorted, placed' \in Nat, placed' <= placed,
           \A i \in 1..placed' : /\ at(i)'.index = at(i).index
                                 /\ at(i)'.timestamp = at(i).timestamp
    PROVE  Sorted'
<1>1. \A i \in 1..placed' : i \in 1..placed
  BY PlacedTypes
<1>2. QED
  BY <1>1, Zenon DEF Sorted

LEMMA SortedExtended ==
    ASSUME Types, Sorted, placed' = placed + 1,
           \A i \in 1..placed : at(i)' = at(i),
           NEW n, n = placed + 1,
           at(n)'.index = placed, at(n)'.timestamp >= 0,
           \A i \in 1..placed : at(i).timestamp <= at(n)'.timestamp
    PROVE  Sorted'
<1>1. placed \in Nat
  BY PlacedTypes, Zenon
<1>2. \A i \in 1..placed' : i \in 1..placed \/ i = n
  BY <1>1
<1>3. ASSUME NEW i \in 1..placed'
      PROVE  at(i)'.index = i - 1 /\ at(i)'.timestamp >= 0
  <2>1. CASE i \in 1..placed
    BY <2>1, Zenon DEF Sorted
  <2>2. CASE i = n
    BY <1>1, <2>2
  <2>3. QED
    BY <1>2, <2>1, <2>2, Zenon
<1>4. ASSUME NEW i \in 1..placed', NEW j \in 1..placed', i < j
      PROVE  at(i)'.timestamp <= at(j)'.timestamp
  <2>1. i \in 1..placed
    BY <1>1, <1>2, <1>4
  <2>2. CASE j \in 1..placed
    BY <1>4, <2>1, <2>2, Zenon DEF Sorted
  <2>3. CASE j = n
    BY <2>1, <2>3, Zenon
  <2>4. QED
    BY <1>2, <2>2, <2>3, Zenon
<1>5. QED
  BY <1>3, <1>4, Zenon DEF Sorted

\* The last block has the greatest timestamp of the chain.
LEMMA Tip ==
    ASSUME Types, OrderInv
    PROVE  /\ Len(chain) \in Nat \ {0}
           /\ chain[Len(chain)].index = Len(chain) - 1
           /\ chain[Len(chain)].timestamp \in Nat
           /\ \A i \in 1..Len(chain) : chain[i].timestamp <= chain[Len(chain)].timestamp
<1>1. PICK n : n = Len(chain)
  BY Zenon
<1>2. n \in Nat \ {0} /\ n \in 1..placed /\ at(n) = chain[n] /\ at(n).timestamp \in Int
  BY <1>1, PlacedTypes DEF OrderInv
<1>3. chain[n].index = n - 1 /\ chain[n].timestamp \in Nat
  BY <1>2 DEF OrderInv, Sorted
<1>4. ASSUME NEW i \in 1..n
      PROVE  chain[i].timestamp <= chain[n].timestamp
  <2>1. i \in 1..placed /\ at(i) = chain[i]
    BY <1>1, PlacedTypes, Zenon
  <2>2. CASE i = n
    BY <1>3, <2>2
  <2>3. CASE i < n
    BY <1>2, <2>1, <2>3, Zenon DEF OrderInv, Sorted
  <2>4. QED
    BY <1>2, <2>2, <2>3
<1>5. QED
  BY <1>1, <1>2, <1>3, <1>4, Zenon

\* The transaction on its way has its place.
LEMMA OnItsWay ==
    ASSUME Types, OrderInv, pc \in Busy
    PROVE  cur.index = Len(chain) /\ cur.timestamp \in Nat
<1>1. PICK n : n = Len(chain) + 1
  BY Zenon
<1>2. n \in 1..placed /\ at(n) = cur /\ n \in Nat
  <2>1. Len(chain) \in Nat /\ Len(rest) \in Nat /\ pending = 1 /\ (rest # <<>> => Len(rest) > 0)
    BY EmptySeq DEF Types, pending
  <2>2. QED
    BY <1>1, <2>1 DEF placed, length, at
<1>3. at(n).index = n - 1 /\ at(n).timestamp >= 0 /\ at(n).timestamp \in Int
  BY <1>2, PlacedTypes, Zenon DEF OrderInv, Sorted
<1>4. QED
  BY <1>1, <1>2, <1>3 DEF Types

\* A transaction without a timestamp gets one that is not below the tip.
LEMMA Stamped ==
    ASSUME Types, OrderInv, pc \in {"idle", "next"}, NEW tx \in Txs, toTip(tx),
           tx.timestamp = Unset, tx.index = Unset
    PROVE  /\ cur'.index = Len(chain) /\ cur'.timestamp \in Nat
           /\ cur'.timestamp <= timestamp'
           /\ \A i \in 1..Len(chain) : chain[i].timestamp <= cur'.timestamp
<1>1. headIndex = Len(chain) - 1 /\ Len(chain) \in Nat
  BY Tip, Zenon DEF OrderInv, IndexInv
<1>2. /\ cur'.index = headIndex + 1
      /\ cur'.timestamp = currentTimestamp
      /\ timestamp' = IF currentTimestamp > timestamp THEN currentTimestamp ELSE timestamp
  BY Zenon DEF toTip
<1>3. chain[Len(chain)].timestamp <= timestamp /\ timestamp \in Int /\ now \in Nat
  BY Zenon DEF OrderInv, ClockInv, floor, Busy, Types
<1>4. currentTimestamp \in Int /\ currentTimestamp >= timestamp
  BY <1>3, SyncConstants DEF currentTimestamp
<1>5. cur'.timestamp \in Nat /\ cur'.timestamp <= timestamp'
  BY <1>2, <1>3, <1>4, Tip
<1>6. ASSUME NEW i \in 1..Len(chain)
      PROVE  chain[i].timestamp <= cur'.timestamp
  <2>1. chain[i].timestamp \in Int
    BY PlacedTypes, Zenon
  <2>2. chain[i].timestamp <= chain[Len(chain)].timestamp /\ chain[Len(chain)].timestamp \in Int
    BY Tip
  <2>3. QED
    BY <1>2, <1>3, <1>4, <2>1, <2>2
<1>7. QED
  BY <1>1, <1>2, <1>5, <1>6

\* What toTip leaves for the chain's order to hold.
LEMMA OrderTaken ==
    ASSUME Types, OrderInv, pc \in {"idle", "next"}, NEW tx \in Txs, toTip(tx), UNCHANGED database,
           cur'.timestamp <= timestamp'
    PROVE  IndexInv' /\ ClockInv'
<1>1. /\ pc' = "index" /\ saved'.index = headIndex /\ saved'.timestamp = timestamp
      /\ UNCHANGED <<chain, headIndex>>
  BY Zenon DEF toTip, database, NoTx
<1>2. headIndex = Len(chain) - 1 /\ headIndex \in Int
  BY Zenon DEF OrderInv, IndexInv, Types
<1>3. chain[Len(chain)].timestamp <= timestamp
  BY Zenon DEF OrderInv, ClockInv, floor, Busy
<1>4. IndexInv'
  BY <1>1, <1>2 DEF IndexInv
<1>5. ClockInv'
  BY <1>1, <1>3, Zenon DEF ClockInv, floor, Busy
<1>6. QED
  BY <1>4, <1>5, Zenon

LEMMA OrderCut ==
    ASSUME Types, OrderInv, rest' = <<>>, UNCHANGED chain, pc' \in {"down", "idle"},
           \/ pc' = "down" /\ headIndex' >= Len(chain) - 1
           \/ /\ pc \in Busy
              /\ headIndex' = Len(chain) - 1
              /\ timestamp' = saved.timestamp
    PROVE  OrderInv'
<1>1. pc' \notin Busy
  BY Zenon DEF Busy
<1>2. Sorted'
  <2>1. length' = Len(chain) /\ \A i \in 1..length' : at(i)' = at(i)
    BY <1>1, LineCut, Zenon
  <2>2. placed' = Len(chain)
    BY <2>1, Zenon DEF placed
  <2>3. QED
    BY <2>1, <2>2, PlacedTypes, SortedKept DEF OrderInv
<1>3. IndexInv'
  BY <1>1, Tip DEF IndexInv
<1>4. ClockInv'
  <2>1. CASE pc' = "down"
    BY <1>1, <2>1, Zenon DEF ClockInv
  <2>2. CASE pc \in Busy /\ timestamp' = saved.timestamp
    <3>1. chain[Len(chain)].timestamp <= saved.timestamp
      BY <2>2, Zenon DEF OrderInv, ClockInv, floor, Busy
    <3>2. QED
      BY <1>1, <2>2, <3>1, Zenon DEF ClockInv, floor
  <2>3. QED
    BY <2>1, <2>2, Zenon
<1>5. QED
  BY <1>2, <1>3, <1>4, Zenon DEF OrderInv

LEMMA OrderMined ==
    ASSUME Types, OrderInv, mine
    PROVE  OrderInv'
<1>1. /\ pc = "mine" /\ chain' = Append(chain, cur)
      /\ UNCHANGED <<rest, headIndex, timestamp>> /\ pc' \in {"idle", "next"}
  BY Zenon DEF mine, afterMined, memory
<1>2. /\ Len(chain') = Len(chain) + 1 /\ Len(chain) \in Nat /\ chain'[Len(chain')] = cur
  <2>1. chain \in Seq(Txs) /\ cur \in Txs
    BY Zenon DEF Types
  <2>2. QED
    BY <1>1, <2>1, AppendProperties
<1>3. Sorted'
  <2>1. length' = length /\ \A i \in 1..length : at(i)' = at(i)
    BY <1>1, LineMined, Zenon DEF Busy
  <2>2. placed' = placed
    BY <1>1, <2>1, Zenon DEF placed
  <2>3. QED
    BY <2>1, <2>2, PlacedTypes, LineTypes, SortedKept DEF OrderInv
<1>4. IndexInv'
  BY <1>1, <1>2 DEF OrderInv, IndexInv, Busy
<1>5. ClockInv'
  BY <1>1, <1>2, Zenon DEF OrderInv, ClockInv, floor, Busy
<1>6. QED
  BY <1>2, <1>3, <1>4, <1>5 DEF OrderInv

LEMMA OrderRpc ==
    ASSUME Types, Shape, OrderInv, ValidateAndApplySequencerTransaction
    PROVE  OrderInv'
<1>1. /\ pc = "idle" /\ pc' = "index" /\ UNCHANGED database /\ UNCHANGED rest /\ toTip(NoTx)
  BY Zenon DEF ValidateAndApplySequencerTransaction, rpcMayApply, toTip
<1>2. UNCHANGED chain /\ rest = <<>>
  BY <1>1, Zenon DEF database, Shape
<1>3. NoTx.timestamp = Unset /\ NoTx.index = Unset
  BY Zenon DEF NoTx
<1>4. PICK n : n = Len(chain) + 1
  BY Zenon
<1>5. PICK tx : tx = cur'
  BY Zenon
<1>6. /\ length = Len(chain) /\ length' = length + 1
      /\ \A i \in 1..length : at(i)' = at(i)
      /\ at(n)' = cur'
  BY <1>1, <1>2, <1>4, <1>5, LineExtended, Zenon DEF Busy
<1>7. placed = Len(chain) /\ placed' = placed + 1
  BY <1>1, <1>2, <1>6, Zenon DEF placed
<1>8. /\ cur'.index = Len(chain) /\ cur'.timestamp \in Nat
      /\ cur'.timestamp <= timestamp'
      /\ \A i \in 1..Len(chain) : chain[i].timestamp <= cur'.timestamp
  BY <1>1, <1>3, NoTxType, Stamped, Zenon
<1>9. Sorted'
  <2>1. \A i \in 1..placed : at(i).timestamp <= at(n)'.timestamp
    BY <1>6, <1>7, <1>8, PlacedTypes, Zenon
  <2>2. QED
    BY <1>4, <1>6, <1>7, <1>8, <2>1, SortedExtended DEF OrderInv
<1>10. IndexInv' /\ ClockInv'
  BY <1>1, <1>8, NoTxType, OrderTaken, Zenon
<1>11. QED
  BY <1>2, <1>9, <1>10, Zenon DEF OrderInv

\* A transaction that is replayed has its place at the tip and keeps it.
LEMMA Replayed ==
    ASSUME Types, Shape, OrderInv, pc = "next", Len(rest) # 1
    PROVE  /\ rest[1].index = Len(chain) /\ rest[1].index = headIndex + 1
           /\ rest[1].timestamp \in Nat
<1>1. Len(chain) \in Nat /\ Len(rest) \in Nat /\ Len(rest) > 1 /\ pending = 0 /\ rest # <<>>
  <2>1. rest # <<>> /\ pending = 0
    BY Zenon DEF pending, Busy, Shape
  <2>2. Len(chain) \in Nat /\ Len(rest) \in Nat \ {0}
    BY <2>1, EmptySeq DEF Types
  <2>3. QED
    BY <2>1, <2>2
<1>2. PICK n : n = Len(chain) + 1
  BY Zenon
<1>3. n \in 1..placed /\ at(n) = rest[1]
  BY <1>1, <1>2 DEF placed, length, at
<1>4. at(n).index = n - 1 /\ at(n).timestamp >= 0 /\ at(n).timestamp \in Int
  BY <1>3, PlacedTypes, Zenon DEF OrderInv, Sorted
<1>5. headIndex = Len(chain) - 1
  BY Zenon DEF OrderInv, IndexInv
<1>6. QED
  BY <1>1, <1>2, <1>3, <1>4, <1>5

LEMMA AlwaysAtTip ==
    ASSUME Types, Shape, OrderInv, applyTransaction
    PROVE  atTip(Head(rest)) /\ toTip(Head(rest)) /\ rest' = Tail(rest)
<1>1. pc = "next" /\ rest # <<>> /\ rest \in Seq(Txs) /\ Head(rest) = rest[1]
  BY TailAt, Zenon DEF applyTransaction, Shape, Types
<1>2. atTip(Head(rest))
  <2>1. CASE Len(rest) = 1
    BY <1>1, <2>1, Zenon DEF Shape, atTip
  <2>2. CASE Len(rest) # 1
    BY <1>1, <2>2, Replayed, Zenon DEF atTip
  <2>3. QED
    BY <2>1, <2>2, Zenon
<1>3. QED
  BY <1>2, Zenon DEF applyTransaction

LEMMA OrderApplied ==
    ASSUME Types, Shape, OrderInv, applyTransaction
    PROVE  OrderInv'
<1>1. pc = "next" /\ rest # <<>> /\ UNCHANGED database /\ UNCHANGED chain
  BY Zenon DEF applyTransaction, Shape, database
<1>2. toTip(Head(rest)) /\ rest' = Tail(rest) /\ pc' = "index"
  BY AlwaysAtTip, Zenon DEF toTip
<1>3. /\ rest \in Seq(Txs) /\ Len(rest) \in Nat \ {0} /\ Head(rest) = rest[1] /\ Head(rest) \in Txs
      /\ Len(rest') = Len(rest) - 1 /\ rest' \in Seq(Txs)
  BY <1>1, <1>2, TailAt, ElementOfSeq DEF Types
<1>4. PICK n : n = Len(chain) + 1
  BY Zenon
<1>5. /\ length' = length /\ n \in 1..length /\ at(n) = rest[1] /\ at(n)' = cur'
      /\ \A i \in 1..length : i # n => at(i)' = at(i)
  BY <1>1, <1>2, <1>4, LineTaken, Zenon DEF Busy
<1>6. length = Len(chain) + Len(rest) /\ Len(chain) \in Nat
  BY <1>1 DEF length, pending, Busy, Types
<1>7. Sorted' /\ cur'.timestamp <= timestamp'
  <2>1. CASE Len(rest) = 1
    <3>1. Head(rest).timestamp = Unset /\ Head(rest).index = Unset
      BY <1>1, <1>3, <2>1, Zenon DEF Shape
    <3>2. /\ cur'.index = Len(chain) /\ cur'.timestamp \in Nat
          /\ cur'.timestamp <= timestamp'
          /\ \A i \in 1..Len(chain) : chain[i].timestamp <= cur'.timestamp
      BY <1>1, <1>2, <1>3, <3>1, Stamped, Zenon
    <3>3. rest' = <<>>
      BY <1>3, <2>1, EmptySeq
    <3>4. placed = Len(chain) /\ placed' = placed + 1
      BY <1>1, <1>5, <1>6, <2>1, <3>3 DEF placed
    <3>5. \A i \in 1..placed : at(i)' = at(i)
      BY <1>4, <1>5, <1>6, <2>1, <3>4
    <3>6. \A i \in 1..placed : at(i).timestamp <= at(n)'.timestamp
      BY <1>5, <3>2, <3>4, PlacedTypes, Zenon
    <3>7. Sorted'
      BY <1>4, <1>5, <3>2, <3>4, <3>5, <3>6, SortedExtended DEF OrderInv
    <3>8. QED
      BY <3>2, <3>7, Zenon
  <2>2. CASE Len(rest) # 1
    <3>1. /\ rest[1].index = Len(chain) /\ rest[1].timestamp \in Nat
      BY <1>1, <2>2, Replayed, Zenon
    <3>2. /\ cur'.index = rest[1].index /\ cur'.timestamp = rest[1].timestamp
          /\ timestamp' = IF rest[1].timestamp > timestamp THEN rest[1].timestamp ELSE timestamp
      BY <1>2, <1>3, <1>6, <3>1 DEF toTip, Unset
    <3>3. rest' # <<>>
      BY <1>3, <2>2, EmptySeq
    <3>4. placed' = placed
      BY <1>1, <1>5, <3>3, Zenon DEF placed
    <3>5. \A i \in 1..placed : at(i)'.index = at(i).index /\ at(i)'.timestamp = at(i).timestamp
      BY <1>5, <3>2, PlacedTypes, LineTypes
    <3>6. Sorted'
      BY <3>4, <3>5, PlacedTypes, SortedKept DEF OrderInv
    <3>7. cur'.timestamp <= timestamp'
      BY <3>1, <3>2 DEF Types
    <3>8. QED
      BY <3>6, <3>7, Zenon
  <2>3. QED
    BY <2>1, <2>2, Zenon
<1>8. IndexInv' /\ ClockInv'
  BY <1>1, <1>2, <1>3, <1>7, OrderTaken, Zenon
<1>9. QED
  BY <1>1, <1>7, <1>8, Zenon DEF OrderInv

LEMMA OrderRolledBack ==
    ASSUME Types, Shape, OrderInv, SchedulerRollback
    PROVE  OrderInv'
<1>1. pc = "rollback" /\ UNCHANGED headIndex /\ rest # <<>> /\ rest \in Seq(Txs)
  BY Zenon DEF SchedulerRollback, Shape, Types
<1>2. PICK start \in 1..Len(chain) : start = queue[Head(rest).queueIndex + 1].rollback
  BY <1>1, TailAt, Zenon DEF Shape
<1>3. CASE exit /\ UNCHANGED chain
  BY <1>1, <1>3, OrderCut, Zenon DEF exit, OrderInv, IndexInv
<1>4. CASE /\ start > 1
           /\ rest' = rolledBack(start) \o rest
           /\ chain' = SubSeq(chain, 1, start - 1)
           /\ timestamp' = chain[start - 1].timestamp
           /\ pc' = "setHead"
  <2>1. start \in 2..Len(chain) /\ Len(chain) \in Nat
    BY <1>4 DEF Types
  <2>2. Len(chain') = start - 1 /\ \A i \in 1..(start - 1) : chain'[i] = chain[i]
    BY <1>4, <2>1, RolledBackAt, Zenon
  <2>3. Sorted'
    <3>1. length' = length /\ \A i \in 1..length : at(i)' = at(i)
      BY <1>1, <1>4, <2>1, LineRolledBack, Zenon DEF Busy
    <3>2. rest' # <<>>
      <4>1. Len(rest') = Len(chain) - start + 1 + Len(rest) /\ Len(rest) \in Nat \ {0}
        BY <1>1, <1>4, <2>1, RolledBackAt, EmptySeq, Zenon
      <4>2. QED
        BY <2>1, <4>1
    <3>3. placed' = placed
      BY <1>1, <3>1, <3>2, Zenon DEF placed
    <3>4. QED
      BY <3>1, <3>3, PlacedTypes, LineTypes, SortedKept DEF OrderInv
  <2>4. IndexInv'
    BY <1>1, <1>4, <2>1, <2>2 DEF OrderInv, IndexInv, Busy
  <2>5. ClockInv'
    <3>1. chain[start - 1].timestamp \in Int
      BY <2>1, PlacedTypes
    <3>2. QED
      BY <1>4, <2>1, <2>2, <3>1 DEF ClockInv, floor, Busy
  <2>6. QED
    BY <2>1, <2>2, <2>3, <2>4, <2>5 DEF OrderInv
<1>5. QED
  BY <1>2, <1>3, <1>4, Zenon DEF SchedulerRollback

LEMMA OrderStarted ==
    ASSUME Types, Shape, OrderInv, initializeLatestL1
    PROVE  OrderInv'
<1>1. /\ pc = "down" /\ pc' = "idle" /\ UNCHANGED <<chain, cur, rest>>
      /\ headIndex' = repairedIndex
  BY Zenon DEF initializeLatestL1
<1>2. headIndex \in Int /\ headIndex >= Len(chain) - 1 /\ Len(chain) \in Nat \ {0} /\ chain # <<>>
  BY Tip DEF Types, OrderInv, IndexInv
<1>3. headIndex # Unset /\ (blockFound => headIndex = Len(chain) - 1)
  BY <1>2 DEF blockFound, Unset
<1>4. headIndex' = Len(chain) - 1
  BY <1>1, <1>2, <1>3, Zenon DEF repairedIndex
<1>5. timestamp' = chain[Len(chain)].timestamp
  <2>1. timestamp' = IF blockFound THEN chain[headIndex + 1].timestamp ELSE chain[Len(chain)].timestamp
    BY <1>3, Zenon DEF initializeLatestL1
  <2>2. blockFound => headIndex + 1 = Len(chain)
    BY <1>2, <1>3
  <2>3. QED
    BY <2>1, <2>2, Zenon
<1>6. Sorted'
  <2>1. length' = length /\ \A i \in 1..length : at(i)' = at(i)
    BY <1>1, LineKept DEF Busy
  <2>2. placed' = placed
    BY <1>1, <2>1, Zenon DEF placed
  <2>3. QED
    BY <2>1, <2>2, PlacedTypes, LineTypes, SortedKept DEF OrderInv
<1>7. IndexInv'
  BY <1>1, <1>2, <1>4 DEF IndexInv, Busy
<1>8. ClockInv'
  BY <1>1, <1>5, Tip DEF ClockInv, floor, Busy
<1>9. QED
  BY <1>1, <1>2, <1>6, <1>7, <1>8, Zenon DEF OrderInv

LEMMA OrderStep ==
    ASSUME Types, Shape, OrderInv, cacheFails' = cacheFails, [Next]_vars
    PROVE  OrderInv'
<1>1. CASE UNCHANGED <<chain, headIndex, timestamp, pc, cur, saved, rest>>
  BY <1>1 DEF OrderInv, Sorted, IndexInv, ClockInv, placed, floor, length, at, pending
<1>2. CASE SetLatestIndex \/ SetLatestEnqueueIndex \/ SetHeadIndex
  <2>1. /\ UNCHANGED <<chain, cur, rest, saved, timestamp>> /\ (pc' \in Busy) = (pc \in Busy)
        /\ pc # "down" /\ pc' # "down"
    BY <1>2 DEF SetLatestIndex, SetLatestEnqueueIndex, SetHeadIndex, Busy, memory
  <2>2. length' = length /\ \A i \in 1..length : at(i)' = at(i)
    BY <2>1, LineKept, Zenon
  <2>3. placed' = placed
    BY <2>1, <2>2, Zenon DEF placed
  <2>4. Sorted'
    BY <2>2, <2>3, LineTypes, PlacedTypes, SortedKept DEF OrderInv
  <2>5. ClockInv'
    BY <2>1, Zenon DEF OrderInv, ClockInv, floor
  <2>6. IndexInv'
    <3>1. CASE SetLatestIndex
      <4>1. pc = "index" /\ headIndex' = cur.index /\ pc' = "queueIndex"
        BY <3>1, Zenon DEF SetLatestIndex
      <4>2. cur.index = Len(chain) /\ Len(chain) \in Nat
        BY <4>1, OnItsWay, Tip, Zenon DEF Busy
      <4>3. QED
        BY <2>1, <4>1, <4>2 DEF OrderInv, IndexInv, Busy
    <3>2. CASE SetLatestEnqueueIndex
      <4>1. pc = "queueIndex" /\ UNCHANGED headIndex /\ pc' = "mine"
        BY <3>2, Zenon DEF SetLatestEnqueueIndex
      <4>2. QED
        BY <2>1, <4>1, Zenon DEF OrderInv, IndexInv, Busy
    <3>3. CASE SetHeadIndex
      <4>1. pc = "setHead" /\ headIndex' = chain[Len(chain)].index /\ pc' = "next"
        BY <3>3, Zenon DEF SetHeadIndex
      <4>2. QED
        BY <2>1, <4>1, Tip DEF IndexInv, Busy
    <3>4. QED
      BY <1>2, <3>1, <3>2, <3>3, Zenon
  <2>7. QED
    BY <2>1, <2>4, <2>5, <2>6, Zenon DEF OrderInv
<1>3. CASE mine
  BY <1>3, OrderMined, Zenon
<1>4. CASE minerRefuses
  <2>1. pc = "mine" /\ restore /\ UNCHANGED chain
    BY <1>4, Zenon DEF minerRefuses
  <2>2. headIndex' = Len(chain) - 1
    <3>1. saved.index = Len(chain) - 1 /\ saved.index # Unset
      BY <2>1, Tip DEF OrderInv, IndexInv, Busy, Unset
    <3>2. QED
      BY <2>1, <3>1, Zenon DEF restore, restoredIndex
  <2>3. CASE exit
    <3>1. headIndex' >= Len(chain) - 1
      BY <2>2, Tip
    <3>2. QED
      BY <2>1, <2>3, <3>1, OrderCut, Zenon DEF exit
  <2>4. CASE /\ ~fatal /\ pc' = "idle" /\ UNCHANGED rest
             /\ timestamp' = saved.timestamp
    BY <2>1, <2>2, <2>4, OrderCut, Zenon DEF fatal, Busy
  <2>5. QED
    BY <2>1, <2>3, <2>4, Zenon DEF restore
<1>5. CASE cacheUpdateFails
  BY <1>5 DEF cacheUpdateFails, Types
<1>6. CASE ValidateAndApplySequencerTransaction
  BY <1>6, OrderRpc, Zenon
<1>7. CASE syncQueue
  <2>1. /\ pc = "idle" /\ pc' \in {"rollback", "next"}
        /\ UNCHANGED <<chain, headIndex, timestamp, cur, saved>>
    BY <1>7, Zenon DEF syncQueue, database, memory
  <2>2. PICK tx : rest' = <<tx>>
    BY <1>7, Zenon DEF syncQueue
  <2>3. /\ length = Len(chain) /\ length' = length + 1 /\ length \in Nat
        /\ \A i \in 1..length : at(i)' = at(i)
    BY <2>1, <2>2, LineExtended, Zenon DEF Busy
  <2>4. placed = length /\ placed' = placed
    BY <2>1, <2>2, <2>3 DEF placed, Shape
  <2>5. Sorted'
    BY <2>3, <2>4, SortedKept DEF OrderInv
  <2>6. IndexInv' /\ ClockInv'
    BY <2>1, Zenon DEF OrderInv, IndexInv, ClockInv, floor, Busy
  <2>7. QED
    BY <2>1, <2>5, <2>6, Zenon DEF OrderInv
<1>8. CASE SchedulerRollback
  BY <1>8, OrderRolledBack, Zenon
<1>9. CASE applyTransaction
  BY <1>9, OrderApplied, Zenon
<1>10. CASE initializeLatestL1
  BY <1>10, OrderStarted, Zenon
<1>11. CASE crash
  BY <1>11, OrderCut, Zenon DEF crash, exit, database, OrderInv, IndexInv
<1>12. CASE \/ takeTxLock \/ queueAtTip \/ GetLatestEthContext \/ updateL1BlockNumber
            \/ l1Block \/ ingest \/ clock \/ UNCHANGED vars
  BY <1>1, <1>12, Zenon DEF takeTxLock, queueAtTip, GetLatestEthContext, updateL1BlockNumber, l1Block,
     ingest, clock, goto, vars, database, memory, applying
<1>13. QED
  BY <1>2, <1>3, <1>4, <1>5, <1>6, <1>7, <1>8, <1>9, <1>10, <1>11, <1>12, Zenon DEF Next, Service

----------------------------------------------------------------------------
\* No queue element is skipped.

\* What is below an element of the line is before it.
LEMMA ClosedBefore ==
    ASSUME Types, Rising, Closed, NEW i \in 1..length, NEW q \in 0..(at(i).queueIndex - 1)
    PROVE  \E j \in 1..length : j < i /\ at(j).queueIndex = q
<1>1. PICK j \in 1..length : at(j).queueIndex = q
  BY Zenon DEF Closed
<1>2. length \in Nat /\ at(i).queueIndex \in Int
  BY LineTypes, Zenon
<1>3. q # Unset /\ at(i).queueIndex # Unset /\ q < at(i).queueIndex
  BY <1>2 DEF Unset
<1>4. ~(i < j) /\ i # j
  BY <1>1, <1>2, <1>3 DEF Rising
<1>5. QED
  BY <1>1, <1>2, <1>4

LEMMA ClosedKept ==
    ASSUME Types, Rising, Closed, length' \in Nat, length' <= length,
           \A i \in 1..length' : at(i)'.queueIndex = at(i).queueIndex
    PROVE  Closed'
<1>1. ASSUME NEW i \in 1..length', NEW q \in 0..(at(i)'.queueIndex - 1)
      PROVE  \E j \in 1..length' : at(j)'.queueIndex = q
  <2>1. i \in 1..length /\ q \in 0..(at(i).queueIndex - 1)
    BY <1>1, LineTypes
  <2>2. PICK j \in 1..length : j < i /\ at(j).queueIndex = q
    BY <2>1, ClosedBefore, Zenon
  <2>3. j \in 1..length'
    BY <1>1, <2>2
  <2>4. QED
    BY <2>2, <2>3, Zenon
<1>2. QED
  BY <1>1, Zenon DEF Closed

LEMMA ClosedExtended ==
    ASSUME Types, Closed, length' = length + 1,
           \A i \in 1..length : at(i)' = at(i),
           NEW n, n = length + 1,
           \/ at(n)'.queueIndex = Unset
           \/ \A q \in 0..(at(n)'.queueIndex - 1) : \E j \in 1..length : at(j).queueIndex = q
    PROVE  Closed'
<1>1. length \in Nat
  BY LineTypes, Zenon
<1>2. \A i \in 1..length' : i \in 1..length \/ i = n
  BY <1>1
<1>3. \A i \in 1..length : i \in 1..length'
  BY <1>1
<1>4. ASSUME NEW i \in 1..length', NEW q \in 0..(at(i)'.queueIndex - 1)
      PROVE  \E j \in 1..length : at(j).queueIndex = q
  <2>1. CASE i \in 1..length
    BY <1>4, <2>1, Zenon DEF Closed
  <2>2. CASE i = n
    BY <1>4, <2>2 DEF Unset
  <2>3. QED
    BY <1>2, <2>1, <2>2, Zenon
<1>5. QED
  BY <1>3, <1>4, Zenon DEF Closed

LEMMA GaplessMined ==
    ASSUME Types, RepeatInv, OrderInv, Gapless, mine
    PROVE  Gapless'
<1>1. /\ pc = "mine" /\ chain' = Append(chain, cur) /\ cur' = NoTx
      /\ UNCHANGED <<rest, headQueueIndex>>
      /\ pc' = IF rest = <<>> THEN "idle" ELSE "next"
  BY Zenon DEF mine, afterMined
<1>2. /\ Len(chain') = Len(chain) + 1 /\ Len(chain) \in Nat \ {0} /\ chain'[Len(chain) + 1] = cur
      /\ \A i \in 1..Len(chain) : chain'[i] = chain[i]
  <2>1. chain \in Seq(Txs) /\ cur \in Txs
    BY Zenon DEF Types
  <2>2. QED
    BY <1>1, <2>1, Tip, AppendProperties
<1>3. Closed'
  <2>1. length' = length /\ \A i \in 1..length : at(i)' = at(i)
    BY <1>1, LineMined, Zenon DEF Busy
  <2>2. QED
    BY <2>1, LineTypes, ClosedKept DEF Gapless, RepeatInv
<1>4. chain'[1].queueIndex = 0 /\ headQueueIndex' >= 0
  BY <1>1, <1>2 DEF Gapless
<1>5. ASSUME Settled'
      PROVE  \E j \in 1..Len(chain') : chain'[j].queueIndex = headQueueIndex'
  <2>1. rest = <<>>
    BY <1>1, <1>5, Zenon DEF Settled, Busy
  <2>2. CASE cur.queueIndex = Unset
    <3>1. Settled
      BY <1>1, <2>1, <2>2, Zenon DEF Settled, Busy
    <3>2. PICK j \in 1..Len(chain) : chain[j].queueIndex = headQueueIndex
      BY <3>1, Zenon DEF Gapless
    <3>3. j \in 1..Len(chain') /\ chain'[j].queueIndex = headQueueIndex'
      BY <1>1, <1>2, <3>2
    <3>4. QED
      BY <3>3, Zenon
  <2>3. CASE cur.queueIndex # Unset
    <3>1. headQueueIndex = cur.queueIndex
      BY <1>1, <2>3, Zenon DEF RepeatInv, HeadInv
    <3>2. Len(chain) + 1 \in 1..Len(chain')
      BY <1>2
    <3>3. QED
      BY <1>1, <1>2, <3>1, <3>2, Zenon
  <2>4. QED
    BY <2>2, <2>3, Zenon
<1>6. QED
  BY <1>3, <1>4, <1>5, Zenon DEF Gapless

\* A step that ends the round without a block: the process stops, or the
\* transaction refused was that of a user.
LEMMA GaplessCut ==
    ASSUME Types, RepeatInv, Gapless, rest' = <<>>, UNCHANGED <<chain, headQueueIndex>>,
           pc' = "down" \/ (pc' = "idle" /\ Settled)
    PROVE  Gapless'
<1>1. pc' \notin Busy
  BY Zenon DEF Busy
<1>2. length' \in Nat /\ length' <= length /\ \A i \in 1..length' : at(i)' = at(i)
  BY <1>1, LineCut, Zenon
<1>3. Closed'
  BY <1>2, ClosedKept, Zenon DEF Gapless, RepeatInv
<1>4. Settled' => Settled
  BY <1>1, Zenon DEF Settled, Busy
<1>5. QED
  BY <1>3, <1>4, Zenon DEF Gapless

LEMMA GaplessRead ==
    ASSUME Types, Shape, RepeatInv, Gapless, syncQueue
    PROVE  Gapless'
<1>1. PICK m : m = headQueueIndex + 1
  BY Zenon
<1>2. /\ pc = "idle" /\ pc' \in {"rollback", "next"} /\ UNCHANGED <<chain, headQueueIndex, cur>>
      /\ rest' = <<queueTx(m)>> /\ m < seen
  BY <1>1, Zenon DEF syncQueue, database, GetNextEnqueueIndex, moreQueued
<1>3. m \in 0..(Len(queue) - 1) /\ headQueueIndex \in Nat
  BY <1>1, <1>2 DEF Types, Gapless
<1>4. queueTx(m).queueIndex = m
  BY <1>3, QueueTx, Zenon
<1>5. PICK n : n = Len(chain) + 1
  BY Zenon
<1>6. /\ length = Len(chain) /\ length' = length + 1
      /\ \A i \in 1..length : at(i)' = at(i)
      /\ at(n)' = queueTx(m)
  <2>1. PICK tx : tx = queueTx(m)
    BY Zenon
  <2>2. QED
    BY <1>2, <1>5, <2>1, LineExtended, Zenon DEF Busy
<1>7. ASSUME NEW q \in 0..(m - 1)
      PROVE  \E j \in 1..length : at(j).queueIndex = q
  <2>1. Settled
    BY <1>2 DEF Settled, Shape, RepeatInv, HeadInv, Busy, NoTx
  <2>2. PICK j \in 1..Len(chain) : chain[j].queueIndex = headQueueIndex
    BY <2>1, Zenon DEF Gapless
  <2>3. j \in 1..length /\ at(j).queueIndex = headQueueIndex
    BY <1>6, <2>2, LineTypes, Zenon
  <2>4. CASE q = headQueueIndex
    BY <2>3, <2>4, Zenon
  <2>5. CASE q # headQueueIndex
    <3>1. q \in 0..(at(j).queueIndex - 1)
      BY <1>1, <1>3, <2>3, <2>5
    <3>2. QED
      BY <2>3, <3>1, Zenon DEF Gapless, Closed
  <2>6. QED
    BY <2>4, <2>5, Zenon
<1>8. Closed'
  <2>1. \A q \in 0..(at(n)'.queueIndex - 1) : \E j \in 1..length : at(j).queueIndex = q
    BY <1>4, <1>6, <1>7, Zenon
  <2>2. QED
    BY <1>5, <1>6, <2>1, ClosedExtended, Zenon DEF Gapless
<1>9. ~Settled'
  BY <1>2, Zenon DEF Settled
<1>10. QED
  BY <1>2, <1>8, <1>9, Zenon DEF Gapless

LEMMA GaplessApplied ==
    ASSUME Types, Shape, RepeatInv, OrderInv, Gapless, applyTransaction
    PROVE  Gapless'
<1>1. pc = "next" /\ rest # <<>> /\ UNCHANGED <<chain, headQueueIndex>>
  BY Zenon DEF applyTransaction, Shape, database
<1>2. toTip(Head(rest)) /\ rest' = Tail(rest) /\ pc' = "index"
  BY AlwaysAtTip, Zenon DEF toTip
<1>3. /\ rest \in Seq(Txs) /\ Len(rest) \in Nat \ {0} /\ Head(rest) = rest[1]
      /\ Len(rest') = Len(rest) - 1
  BY <1>1, <1>2, TailAt, Zenon DEF Types
<1>4. cur'.queueIndex = rest[1].queueIndex
  BY <1>2, <1>3, Zenon DEF toTip
<1>5. PICK n : n = Len(chain) + 1
  BY Zenon
<1>6. /\ length' = length /\ n \in 1..length /\ at(n) = rest[1] /\ at(n)' = cur'
      /\ \A i \in 1..length : i # n => at(i)' = at(i)
  BY <1>1, <1>2, <1>5, LineTaken, Zenon DEF Busy
<1>7. \A i \in 1..length' : at(i)'.queueIndex = at(i).queueIndex
  BY <1>4, <1>6, Zenon
<1>8. Closed'
  BY <1>6, <1>7, LineTypes, ClosedKept DEF Gapless, RepeatInv
<1>9. ~Settled'
  <2>1. CASE Len(rest) = 1
    BY <1>1, <1>4, <2>1 DEF Shape, Settled, Unset
  <2>2. CASE Len(rest) # 1
    BY <1>3, <2>2 DEF Settled
  <2>3. QED
    BY <2>1, <2>2, Zenon
<1>10. QED
  BY <1>1, <1>8, <1>9, Zenon DEF Gapless

LEMMA GaplessRolledBack ==
    ASSUME Types, Shape, RepeatInv, Gapless, SchedulerRollback
    PROVE  Gapless'
<1>1. pc = "rollback" /\ UNCHANGED headQueueIndex /\ rest # <<>> /\ rest \in Seq(Txs)
  BY Zenon DEF SchedulerRollback, Shape, Types
<1>2. PICK start \in 1..Len(chain) : start = queue[Head(rest).queueIndex + 1].rollback
  BY <1>1, TailAt, Zenon DEF Shape
<1>3. CASE exit /\ UNCHANGED chain
  BY <1>1, <1>3, GaplessCut, Zenon DEF exit
<1>4. CASE /\ start > 1
           /\ rest' = rolledBack(start) \o rest
           /\ chain' = SubSeq(chain, 1, start - 1)
           /\ pc' = "setHead"
  <2>1. start \in 2..Len(chain) /\ Len(chain) \in Nat
    BY <1>4 DEF Types
  <2>2. \A i \in 1..(start - 1) : chain'[i] = chain[i]
    BY <1>4, <2>1, RolledBackAt, Zenon
  <2>3. Closed'
    <3>1. length' = length /\ \A i \in 1..length : at(i)' = at(i)
      BY <1>1, <1>4, <2>1, LineRolledBack, Zenon DEF Busy
    <3>2. QED
      BY <3>1, LineTypes, ClosedKept DEF Gapless, RepeatInv
  <2>4. chain'[1].queueIndex = 0
    BY <2>1, <2>2 DEF Gapless
  <2>5. ~Settled'
    BY <1>4, Zenon DEF Settled, Busy
  <2>6. QED
    BY <1>1, <2>3, <2>4, <2>5, Zenon DEF Gapless
<1>5. QED
  BY <1>2, <1>3, <1>4, Zenon DEF SchedulerRollback

LEMMA GaplessStarted ==
    ASSUME Types, RepeatInv, OrderInv, Gapless, initializeLatestL1
    PROVE  Gapless'
<1>1. /\ pc = "down" /\ pc' = "idle" /\ UNCHANGED <<chain, cur, rest>>
      /\ headQueueIndex' = repairedQueueIndex
  BY Zenon DEF initializeLatestL1
<1>2. Closed'
  <2>1. length' = length /\ \A i \in 1..length : at(i)' = at(i)
    BY <1>1, LineKept DEF Busy
  <2>2. QED
    BY <2>1, LineTypes, ClosedKept DEF Gapless, RepeatInv
<1>3. 1 \in queueBlocks /\ headQueueIndex # Unset
  <2>1. 1 \in 1..Len(chain) /\ chain[1].queueIndex = 0
    BY Tip DEF Gapless
  <2>2. QED
    BY <2>1 DEF queueBlocks, Gapless, Unset
<1>4. PICK i \in queueBlocks : repairedQueueIndex = chain[i].queueIndex
  BY <1>3, RepairedQueueIndex, Zenon
<1>5. i \in 1..Len(chain) /\ chain[i].queueIndex # Unset
  BY Zenon DEF queueBlocks
<1>6. i \in 1..length /\ at(i) = chain[i] /\ chain[i].queueIndex \in Int
  BY <1>5, LineTypes
<1>7. headQueueIndex' = chain[i].queueIndex /\ headQueueIndex' >= 0
  BY <1>1, <1>4, <1>5, <1>6 DEF RepeatInv, Rising, Unset
<1>8. QED
  BY <1>1, <1>2, <1>5, <1>7, Zenon DEF Gapless

LEMMA GaplessStep ==
    ASSUME Types, Shape, RepeatInv, OrderInv, Gapless,
           cacheFails' = cacheFails, queueFails' = queueFails, [Next]_vars
    PROVE  Gapless'
<1>1. CASE UNCHANGED <<chain, headQueueIndex, pc, cur, rest>>
  <2>1. length' = length /\ \A i \in 1..length : at(i)' = at(i)
    BY <1>1, LineKept, Zenon
  <2>2. Closed'
    BY <2>1, LineTypes, ClosedKept DEF Gapless, RepeatInv
  <2>3. QED
    BY <1>1, <2>2, Zenon DEF Gapless, Settled
<1>2. CASE SetLatestIndex \/ SetLatestEnqueueIndex \/ SetHeadIndex
  <2>1. /\ UNCHANGED <<chain, cur, rest>> /\ (pc' \in Busy) = (pc \in Busy)
        /\ Settled' = Settled
    BY <1>2 DEF SetLatestIndex, SetLatestEnqueueIndex, SetHeadIndex, Busy, Settled
  <2>2. Closed'
    <3>1. length' = length /\ \A i \in 1..length : at(i)' = at(i)
      BY <2>1, LineKept, Zenon
    <3>2. QED
      BY <3>1, LineTypes, ClosedKept DEF Gapless, RepeatInv
  <2>3. /\ headQueueIndex' >= 0
        /\ Settled => headQueueIndex' = headQueueIndex
    <3>1. \/ UNCHANGED headQueueIndex
          \/ /\ pc \in Busy /\ cur.queueIndex # Unset
             /\ headQueueIndex' = cur.queueIndex
      BY <1>2, Zenon DEF SetLatestIndex, SetLatestEnqueueIndex, SetHeadIndex, Busy
    <3>2. pc \in Busy => cur.queueIndex >= Unset /\ cur.queueIndex \in Int
      <4>1. PICK n : n = Len(chain) + 1
        BY Zenon
      <4>2. pc \in Busy => n \in 1..length /\ at(n) = cur
        BY <4>1 DEF Types, length, at, pending
      <4>3. QED
        BY <4>2, LineTypes, Zenon DEF RepeatInv, Rising
    <3>3. QED
      BY <3>1, <3>2 DEF Gapless, Settled, Unset
  <2>4. QED
    BY <2>1, <2>2, <2>3, Zenon DEF Gapless
<1>3. CASE mine
  BY <1>3, GaplessMined, Zenon
<1>4. CASE minerRefuses
  <2>1. /\ pc = "mine" /\ restore /\ UNCHANGED chain /\ cur.queueIndex = Unset
    BY <1>4 DEF minerRefuses, Types
  <2>2. UNCHANGED headQueueIndex
    BY <2>1, Zenon DEF restore
  <2>3. CASE exit
    BY <2>1, <2>2, <2>3, GaplessCut, Zenon DEF exit
  <2>4. CASE ~fatal /\ pc' = "idle" /\ UNCHANGED rest
    BY <2>1, <2>2, <2>4, GaplessCut, Zenon DEF fatal, Settled, Busy
  <2>5. QED
    BY <2>1, <2>3, <2>4, Zenon DEF restore
<1>5. CASE cacheUpdateFails
  BY <1>5 DEF cacheUpdateFails, Types
<1>6. CASE ValidateAndApplySequencerTransaction
  <2>1. /\ pc = "idle" /\ pc' = "index" /\ UNCHANGED <<chain, headQueueIndex, rest>>
        /\ cur'.queueIndex = Unset
    BY <1>6, Zenon DEF ValidateAndApplySequencerTransaction, rpcMayApply, toTip, database, NoTx
  <2>2. PICK n : n = Len(chain) + 1
    BY Zenon
  <2>3. PICK tx : tx = cur'
    BY Zenon
  <2>4. /\ length = Len(chain) /\ length' = length + 1
        /\ \A i \in 1..length : at(i)' = at(i)
        /\ at(n)' = cur'
    BY <2>1, <2>2, <2>3, LineExtended, Zenon DEF Busy
  <2>5. Closed'
    BY <2>1, <2>2, <2>4, ClosedExtended, Zenon DEF Gapless
  <2>6. Settled
    BY <2>1 DEF Settled, Shape, RepeatInv, HeadInv, Busy, NoTx
  <2>7. QED
    BY <2>1, <2>5, <2>6, Zenon DEF Gapless
<1>7. CASE syncQueue
  BY <1>7, GaplessRead, Zenon
<1>8. CASE SchedulerRollback
  BY <1>8, GaplessRolledBack, Zenon
<1>9. CASE applyTransaction
  BY <1>9, GaplessApplied, Zenon
<1>10. CASE initializeLatestL1
  BY <1>10, GaplessStarted, Zenon
<1>11. CASE crash
  <2>1. exit /\ UNCHANGED <<chain, headQueueIndex>>
    BY <1>11, Zenon DEF crash, database
  <2>2. QED
    BY <2>1, GaplessCut, Zenon DEF exit
<1>12. CASE \/ takeTxLock \/ queueAtTip \/ GetLatestEthContext \/ updateL1BlockNumber
            \/ l1Block \/ ingest \/ clock \/ UNCHANGED vars
  BY <1>1, <1>12, Zenon DEF takeTxLock, queueAtTip, GetLatestEthContext, updateL1BlockNumber, l1Block,
     ingest, clock, goto, vars, database, applying
<1>13. QED
  BY <1>2, <1>3, <1>4, <1>5, <1>6, <1>7, <1>8, <1>9, <1>10, <1>11, <1>12, Zenon DEF Next, Service

----------------------------------------------------------------------------
\* The invariant, and what it says of the chain.

\* The counts of failures only grow.
LEMMA FailuresGrow ==
    ASSUME Types, [Next]_vars
    PROVE  /\ cacheFails' = 0 => cacheFails = 0
           /\ queueFails' = 0 => queueFails = 0
<1>1. queueFails \in Nat /\ cacheFails \in Nat
  BY Zenon DEF Types
<1>2. queueFails' \in {queueFails, queueFails + 1} /\ cacheFails' \in {cacheFails, cacheFails + 1}
  <2>1. CASE cacheUpdateFails
    BY <2>1, Zenon DEF cacheUpdateFails
  <2>2. CASE minerRefuses
    BY <2>2, Zenon DEF minerRefuses
  <2>3. CASE crash
    BY <2>3, Zenon DEF crash
  <2>4. CASE ~(cacheUpdateFails \/ minerRefuses \/ crash)
    <3>1. UNCHANGED faults
      BY <2>4, Zenon DEF Next, Service, SetLatestIndex, SetLatestEnqueueIndex, mine, syncQueue,
         SchedulerRollback, SetHeadIndex, applyTransaction, takeTxLock, queueAtTip,
         GetLatestEthContext, updateL1BlockNumber, initializeLatestL1,
         ValidateAndApplySequencerTransaction, l1Block, ingest, clock, goto, vars
    <3>2. QED
      BY <3>1, Zenon DEF faults
  <2>5. QED
    BY <2>1, <2>2, <2>3, <2>4, Zenon
<1>3. QED
  BY <1>1, <1>2

LEMMA SyncInit ==
    ASSUME Init
    PROVE  IInv
<1>1. firstBlock \in Txs /\ firstBlock.queueIndex = 0 /\ firstBlock.index = 0 /\ firstBlock.timestamp = 0
  BY DEF firstBlock, Txs, Deploy
<1>2. [blockNumber |-> Deploy, rollback |-> 0] \in Elements
  BY DEF Elements, Deploy
<1>3. /\ chain \in Seq(Txs) /\ Len(chain) \in {0, 1} /\ (Len(chain) = 1 => chain[1] = firstBlock)
      /\ Bootstrapped => Len(chain) = 1
  BY <1>1, SyncConstants DEF Init
<1>4. queue \in Seq(Elements) /\ seen = Len(queue) /\ Len(queue) \in Nat
  BY <1>2, SyncConstants DEF Init
<1>5. /\ pc = "down" /\ cur = NoTx /\ saved = NoTx /\ rest = <<>> /\ headIndex \in Int
      /\ headQueueIndex \in Int /\ headQueueIndex >= Unset
      /\ Bootstrapped => headIndex = 0 /\ headQueueIndex = 0
      /\ ~Bootstrapped => Len(chain) = 0
  BY SyncConstants DEF Init, Unset
<1>6. Types
  <2>1. timestamp \in Int /\ blockNumber \in Int /\ fetched \in Int /\ l1 \in Int /\ now \in Nat
        /\ queueFails \in Nat /\ cacheFails \in Nat
    BY DEF Init, Unset, Deploy
  <2>2. rest \in Seq(Txs)
    BY <1>5
  <2>3. QED
    BY <1>3, <1>4, <1>5, <2>1, <2>2, NoTxType DEF Types, Labels
<1>7. Shape
  BY <1>5, Zenon DEF Shape
<1>8. /\ pending = 0 /\ length = Len(chain) /\ placed = Len(chain)
      /\ \A i \in 1..length : i = 1 /\ at(i) = firstBlock
  <2>1. pending = 0 /\ Len(rest) = 0
    BY <1>5, Zenon DEF pending, Busy
  <2>2. length = Len(chain)
    BY <1>3, <2>1 DEF length
  <2>3. placed = Len(chain)
    BY <1>5, <2>2, Zenon DEF placed
  <2>4. \A i \in 1..length : i = 1 /\ at(i) = firstBlock
    BY <1>3, <2>2 DEF at
  <2>5. QED
    BY <2>1, <2>2, <2>3, <2>4, Zenon
<1>9. RepeatInv
  <2>1. Rising
    BY <1>1, <1>3, <1>8 DEF Rising, Unset
  <2>2. ~Settled
    BY <1>5, Zenon DEF Settled, Busy
  <2>3. headQueueIndex = Unset => Len(chain) = 0
    BY <1>5 DEF Unset
  <2>4. HeadInv
    BY <1>5, <2>2, <2>3 DEF HeadInv, Busy
  <2>5. QED
    BY <2>1, <2>4, Zenon DEF RepeatInv
<1>10. ASSUME Bootstrapped
       PROVE  OrderInv
  <2>1. Sorted
    BY <1>1, <1>3, <1>8 DEF Sorted
  <2>2. Len(chain) = 1 /\ headIndex = 0
    BY <1>3, <1>5, <1>10, Zenon
  <2>3. IndexInv /\ ClockInv
    BY <1>5, <2>2 DEF IndexInv, ClockInv, Busy
  <2>4. QED
    BY <2>1, <2>2, <2>3 DEF OrderInv
<1>11. ASSUME Bootstrapped
       PROVE  Gapless
  <2>1. Closed
    BY <1>1, <1>8 DEF Closed
  <2>2. ~Settled
    BY <1>5, Zenon DEF Settled, Busy
  <2>3. chain[1] = firstBlock /\ headQueueIndex = 0
    BY <1>3, <1>5, <1>11, Zenon
  <2>4. QED
    BY <1>1, <2>1, <2>2, <2>3 DEF Gapless
<1>12. QED
  BY <1>6, <1>7, <1>9, <1>10, <1>11, Zenon DEF IInv

LEMMA SyncStep ==
    ASSUME IInv, [Next]_vars
    PROVE  IInv'
<1>1. Types /\ Shape /\ RepeatInv
  BY Zenon DEF IInv
<1>2. Types' /\ Shape' /\ RepeatInv'
  BY <1>1, TypesStep, ShapeStep, RepeatStep, Zenon
<1>3. ASSUME Bootstrapped, cacheFails' = 0
      PROVE  OrderInv'
  <2>1. cacheFails = 0
    BY <1>1, <1>3, FailuresGrow, Zenon
  <2>2. QED
    BY <1>1, <1>3, <2>1, OrderStep, Zenon DEF IInv
<1>4. ASSUME Bootstrapped, cacheFails' = 0, queueFails' = 0
      PROVE  Gapless'
  <2>1. cacheFails = 0 /\ queueFails = 0
    BY <1>1, <1>4, FailuresGrow, Zenon
  <2>2. QED
    BY <1>1, <1>4, <2>1, GaplessStep, Zenon DEF IInv
<1>5. QED
  BY <1>2, <1>3, <1>4, Zenon DEF IInv

\* The inductive invariant holds of every behaviour of the service.
THEOREM SyncInvariant == Spec => []IInv
<1>1. Init => IInv
  BY SyncInit, Zenon
<1>2. IInv /\ [Next]_vars => IInv'
  BY SyncStep, Zenon
<1>3. QED
  BY <1>1, <1>2, PTL DEF Spec

LEMMA InOrder ==
    ASSUME IInv, Bootstrapped
    PROVE  ChainInOrder
<1>1. SUFFICES ASSUME cacheFails = 0
               PROVE  /\ \A i \in 1..Len(chain) : chain[i].index = i - 1
                      /\ \A i \in 2..Len(chain) : chain[i - 1].timestamp <= chain[i].timestamp
  BY Zenon DEF ChainInOrder
<1>2. Types /\ Sorted /\ Len(chain) \in Nat
  BY <1>1, LineTypes, Zenon DEF IInv, OrderInv
<1>3. \A i \in 1..Len(chain) : at(i) = chain[i] /\ i \in 1..placed
  BY <1>2, PlacedTypes, Zenon
<1>4. \A i \in 1..Len(chain) : chain[i].index = i - 1
  BY <1>2, <1>3, Zenon DEF Sorted
<1>5. ASSUME NEW i \in 2..Len(chain)
      PROVE  chain[i - 1].timestamp <= chain[i].timestamp
  <2>1. i \in 1..Len(chain) /\ i - 1 \in 1..Len(chain) /\ i - 1 < i
    BY <1>2
  <2>2. QED
    BY <1>2, <1>3, <2>1, Zenon DEF Sorted
<1>6. QED
  BY <1>4, <1>5, Zenon

LEMMA InQueueOrder ==
    ASSUME IInv, Bootstrapped
    PROVE  QueueInOrder
<1>1. SUFFICES ASSUME queueFails = 0, cacheFails = 0, NEW i \in queueBlocks
               PROVE  {chain[j].queueIndex : j \in {k \in queueBlocks : k < i}}
                          = 0..(chain[i].queueIndex - 1)
  BY Zenon DEF QueueInOrder
<1>2. Types /\ Rising /\ Closed /\ Len(chain) \in Nat
  BY <1>1, LineTypes, Zenon DEF IInv, RepeatInv, Gapless
<1>3. \A k \in 1..Len(chain) : at(k) = chain[k] /\ k \in 1..length /\ chain[k].queueIndex \in Int
  BY <1>2, LineTypes
<1>4. i \in 1..Len(chain)
  BY <1>1, Zenon DEF queueBlocks
<1>5. ASSUME NEW j \in queueBlocks, j < i
      PROVE  chain[j].queueIndex \in 0..(chain[i].queueIndex - 1)
  <2>1. j \in 1..Len(chain) /\ chain[j].queueIndex # Unset /\ chain[i].queueIndex # Unset
    BY <1>1, <1>5, Zenon DEF queueBlocks
  <2>2. chain[j].queueIndex >= Unset /\ chain[j].queueIndex < chain[i].queueIndex
    BY <1>2, <1>3, <1>4, <1>5, <2>1, Zenon DEF Rising
  <2>3. QED
    BY <1>3, <1>4, <2>1, <2>2 DEF Unset
<1>6. ASSUME NEW q \in 0..(chain[i].queueIndex - 1)
      PROVE  \E j \in queueBlocks : j < i /\ chain[j].queueIndex = q
  <2>1. i \in 1..length /\ q \in 0..(at(i).queueIndex - 1)
    BY <1>3, <1>4, <1>6, Zenon
  <2>2. PICK j \in 1..length : j < i /\ at(j).queueIndex = q
    BY <1>2, <2>1, ClosedBefore, Zenon
  <2>3. j \in 1..Len(chain)
    BY <1>2, <1>4, <2>2
  <2>4. q # Unset
    BY <1>6 DEF Unset
  <2>5. j \in queueBlocks /\ chain[j].queueIndex = q
    BY <1>3, <2>2, <2>3, <2>4, Zenon DEF queueBlocks
  <2>6. QED
    BY <2>2, <2>5, Zenon
<1>7. QED
  BY <1>5, <1>6, Zenon

LEMMA NotRepeated ==
    ASSUME IInv
    PROVE  QueueNeverRepeats
<1>1. Types /\ Rising
  BY Zenon DEF IInv, RepeatInv
<1>2. \A k \in 1..Len(chain) : at(k) = chain[k] /\ k \in 1..length
  BY <1>1, LineTypes
<1>3. QED
  BY <1>1, <1>2, Zenon DEF QueueNeverRepeats, queueBlocks, Rising

\* The transaction with CTC index n is in block n + 1 and timestamps never
\* decrease, on a chain that holds the first queue element from the start: any
\* number of user transactions, queue elements, rollbacks, refused
\* transactions and crashes between the database writes and the block.
THEOREM ChainOrdered == Bootstrapped /\ Spec => []ChainInOrder
<1>1. Bootstrapped /\ IInv => ChainInOrder
  BY InOrder, Zenon
<1>2. CASE Bootstrapped
  <2>1. IInv => ChainInOrder
    BY <1>1, <1>2, Zenon
  <2>2. QED
    BY <2>1, SyncInvariant, PTL
<1>3. QED
  BY <1>2, Zenon

\* Before each queue element of the chain are exactly those with a lower
\* index, as long as the miner has refused no queue element and the gas price
\* oracle cache has not failed.
THEOREM QueueOrdered == Bootstrapped /\ Spec => []QueueInOrder
<1>1. CASE Bootstrapped
  <2>1. IInv => QueueInOrder
    BY <1>1, InQueueOrder, Zenon
  <2>2. QED
    BY <2>1, SyncInvariant, PTL
<1>2. QED
  BY <1>1, Zenon

\* No queue element is executed twice, whatever fails and wherever the chain
\* starts.
THEOREM QueueNotRepeated == Spec => []QueueNeverRepeats
<1>1. IInv => QueueNeverRepeats
  BY NotRepeated, Zenon
<1>2. QED
  BY <1>1, SyncInvariant, PTL
----------------------------------------------------------------------------
\* The block numbers.  A transaction that is put back after a rollback keeps
\* its block number because it has one: none is Unset.

ContextInv ==
    /\ l1 \in Nat /\ blockNumber \in Nat
    /\ \A i \in 1..Len(queue) : queue[i].blockNumber \in Nat
    /\ pc \in Busy => saved.blockNumber \in Nat

LineNumbered == \A i \in 1..length : at(i).blockNumber \in Nat

NumberInv == ContextInv /\ LineNumbered

LEMMA NumberedKept ==
    ASSUME Types, LineNumbered, length' \in Nat, length' <= length,
           \A i \in 1..length' : at(i)' = at(i)
    PROVE  LineNumbered'
<1>1. \A i \in 1..length' : i \in 1..length
  BY LineTypes
<1>2. QED
  BY <1>1, Zenon DEF LineNumbered

LEMMA NumberedExtended ==
    ASSUME Types, LineNumbered, length' = length + 1, NEW n, n = length + 1,
           \A i \in 1..length : at(i)' = at(i), at(n)'.blockNumber \in Nat
    PROVE  LineNumbered'
<1>1. \A i \in 1..length' : i \in 1..length \/ i = n
  BY LineTypes
<1>2. QED
  BY <1>1, Zenon DEF LineNumbered

LEMMA ToTipNumbers ==
    ASSUME Types, ContextInv, NEW tx, toTip(tx), tx.blockNumber \in Nat \cup {Unset}
    PROVE  /\ cur'.blockNumber \in Nat /\ saved'.blockNumber \in Nat /\ blockNumber' \in Nat
           /\ tx.blockNumber \in Nat => cur'.blockNumber = tx.blockNumber
<1>1. PICK bn : bn = IF tx.blockNumber = Unset THEN blockNumber ELSE tx.blockNumber
  BY Zenon
<1>2. /\ cur'.blockNumber = bn /\ saved'.blockNumber = blockNumber
      /\ blockNumber' = IF bn > blockNumber THEN bn ELSE blockNumber
  BY <1>1, Zenon DEF toTip, NoTx
<1>3. blockNumber \in Nat
  BY Zenon DEF ContextInv
<1>4. bn \in Nat
  BY <1>1, <1>3, Zenon
<1>5. tx.blockNumber \in Nat => tx.blockNumber # Unset
  BY DEF Unset
<1>6. QED
  BY <1>1, <1>2, <1>3, <1>4, <1>5, Zenon

\* L1 and its queue.
LEMMA L1Numbers ==
    ASSUME Types, ContextInv, [Next]_vars
    PROVE  l1' \in Nat /\ \A i \in 1..Len(queue') : queue'[i].blockNumber \in Nat
<1>1. CASE UNCHANGED <<l1, queue>>
  BY <1>1, Zenon DEF ContextInv
<1>2. CASE l1Block
  <2>1. l1 \in Nat /\ l1' = l1 + 1 /\ queue \in Seq(Elements)
    BY <1>2, Zenon DEF l1Block, ContextInv, Types
  <2>2. \/ queue' = queue
        \/ \E r : queue' = Append(queue, [blockNumber |-> l1 + 1, rollback |-> r])
    BY <1>2, Zenon DEF l1Block
  <2>3. ASSUME NEW r, queue' = Append(queue, [blockNumber |-> l1 + 1, rollback |-> r])
        PROVE  \A i \in 1..Len(queue') : queue'[i].blockNumber \in Nat
    <3>1. Len(queue') = Len(queue) + 1 /\ Len(queue) \in Nat
      BY <2>1, <2>3
    <3>2. queue'[Len(queue) + 1] = [blockNumber |-> l1 + 1, rollback |-> r]
      BY <2>1, <2>3
    <3>3. \A i \in 1..Len(queue) : queue'[i] = queue[i]
      BY <2>1, <2>3
    <3>4. queue'[Len(queue) + 1].blockNumber \in Nat
      BY <2>1, <3>2
    <3>5. QED
      BY <3>1, <3>3, <3>4 DEF ContextInv
  <2>4. l1' \in Nat
    BY <2>1
  <2>5. QED
    BY <2>2, <2>3, <2>4, Zenon DEF ContextInv
<1>3. CASE ~l1Block
  <2>1. UNCHANGED <<l1, queue>>
    BY <1>3, Zenon DEF Next, Service, SetLatestIndex, SetLatestEnqueueIndex, mine, syncQueue,
       SchedulerRollback, SetHeadIndex, applyTransaction, takeTxLock, queueAtTip,
       GetLatestEthContext, updateL1BlockNumber, initializeLatestL1, minerRefuses,
       cacheUpdateFails, restore, crash, ValidateAndApplySequencerTransaction, ingest, clock,
       goto, vars, world
  <2>2. QED
    BY <1>1, <2>1, Zenon
<1>4. QED
  BY <1>2, <1>3, Zenon

\* The rest of the round is given up.
LEMMA NumbersCut ==
    ASSUME Types, NumberInv, rest' = <<>>, pc' \notin Busy, blockNumber' \in Nat,
           chain' = chain \/ (pc = "mine" /\ chain' = Append(chain, cur))
    PROVE  blockNumber' \in Nat /\ pc' \notin Busy /\ LineNumbered'
<1>1. length' \in Nat /\ length' <= length /\ \A i \in 1..length' : at(i)' = at(i)
  BY LineCut, Zenon
<1>2. QED
  BY <1>1, NumberedKept, Zenon DEF NumberInv

LEMMA NumbersApplied ==
    ASSUME Types, Shape, NumberInv, applyTransaction
    PROVE  /\ blockNumber' \in Nat /\ LineNumbered'
           /\ pc' \in Busy => saved'.blockNumber \in Nat
<1>1. pc = "next" /\ rest # <<>> /\ UNCHANGED database
  BY Zenon DEF applyTransaction, Shape
<1>2. rest \in Seq(Txs) /\ Len(rest) \in Nat \ {0} /\ Head(rest) = rest[1] /\ UNCHANGED chain
  BY <1>1, TailAt, Zenon DEF Types, database
<1>3. CASE toTip(Head(rest)) /\ rest' = Tail(rest)
  <2>1. pc' = "index"
    BY <1>3, Zenon DEF toTip
  <2>2. PICK n : n = Len(chain) + 1
    BY Zenon
  <2>3. /\ length' = length /\ n \in 1..length /\ at(n) = rest[1] /\ at(n)' = cur'
        /\ \A i \in 1..length : i # n => at(i)' = at(i)
    BY <1>1, <1>2, <1>3, <2>1, <2>2, LineTaken, Zenon DEF Busy
  <2>4. rest[1].blockNumber \in Nat
    BY <2>3, Zenon DEF NumberInv, LineNumbered
  <2>5. cur'.blockNumber \in Nat /\ saved'.blockNumber \in Nat /\ blockNumber' \in Nat
    BY <1>2, <1>3, <2>4, ToTipNumbers, Zenon DEF NumberInv
  <2>6. QED
    BY <2>3, <2>5, Zenon DEF NumberInv, LineNumbered
<1>4. CASE rest' = Tail(rest) /\ UNCHANGED <<memory, pc, cur, saved>>
  <2>1. /\ length \in Nat /\ length' = length - 1
        /\ \A i \in 1..length' : at(i)' = IF i <= Len(chain) THEN at(i) ELSE at(i + 1)
    BY <1>1, <1>2, <1>4, LineDropped, Zenon
  <2>2. \A i \in 1..length' : i \in 1..length /\ i + 1 \in 1..length
    BY <2>1
  <2>3. LineNumbered'
    BY <2>1, <2>2, Zenon DEF NumberInv, LineNumbered
  <2>4. QED
    BY <1>4, <2>3, Zenon DEF NumberInv, ContextInv, memory
<1>5. CASE exit
  <2>1. blockNumber' \in Nat /\ rest' = <<>> /\ pc' \notin Busy
    BY <1>5 DEF exit, Busy
  <2>2. QED
    BY <1>2, <2>1, NumbersCut, Zenon
<1>6. QED
  BY <1>3, <1>4, <1>5, Zenon DEF applyTransaction

LEMMA NumbersRolledBack ==
    ASSUME Types, Shape, NumberInv, SchedulerRollback
    PROVE  blockNumber' \in Nat /\ pc' \notin Busy /\ LineNumbered'
<1>1. pc = "rollback" /\ rest # <<>> /\ rest \in Seq(Txs)
  BY Zenon DEF SchedulerRollback, Shape, Types
<1>2. PICK start \in 1..Len(chain) : start = queue[Head(rest).queueIndex + 1].rollback
  BY <1>1, TailAt, Zenon DEF Shape
<1>3. CASE exit /\ UNCHANGED chain
  <2>1. blockNumber' \in Nat /\ rest' = <<>> /\ pc' \notin Busy
    BY <1>3 DEF exit, Busy
  <2>2. QED
    BY <1>3, <2>1, NumbersCut, Zenon
<1>4. CASE /\ start > 1
           /\ rest' = rolledBack(start) \o rest
           /\ chain' = SubSeq(chain, 1, start - 1)
           /\ blockNumber' = chain[start - 1].blockNumber
           /\ pc' = "setHead"
  <2>1. start \in 2..Len(chain) /\ start - 1 \in 1..Len(chain)
    BY <1>4 DEF Types
  <2>2. length' = length /\ \A i \in 1..length : at(i)' = at(i)
    BY <1>1, <1>4, <2>1, LineRolledBack, Zenon DEF Busy
  <2>3. LineNumbered'
    BY <2>2, Zenon DEF NumberInv, LineNumbered
  <2>4. \A i \in 1..Len(chain) : at(i) = chain[i] /\ i \in 1..length
    BY LineTypes
  <2>5. blockNumber' \in Nat
    BY <1>4, <2>1, <2>4, Zenon DEF NumberInv, LineNumbered
  <2>6. QED
    BY <1>4, <2>3, <2>5, Zenon DEF Busy
<1>5. QED
  BY <1>2, <1>3, <1>4, Zenon DEF SchedulerRollback

LEMMA NumbersStarted ==
    ASSUME Types, NumberInv, initializeLatestL1
    PROVE  blockNumber' \in Nat /\ pc' \notin Busy /\ LineNumbered'
<1>1. pc = "down" /\ pc' = "idle" /\ UNCHANGED <<chain, cur, rest>> /\ recoverable
  BY Zenon DEF initializeLatestL1
<1>2. length' = length /\ \A i \in 1..length : at(i)' = at(i)
  BY <1>1, LineKept DEF Busy
<1>3. \A i \in 1..Len(chain) : chain[i].blockNumber \in Nat
  <2>1. \A i \in 1..Len(chain) : at(i) = chain[i] /\ i \in 1..length
    BY LineTypes
  <2>2. QED
    BY <2>1, Zenon DEF NumberInv, LineNumbered
<1>4. CASE headIndex = Unset
  BY <1>1, <1>2, <1>4 DEF initializeLatestL1, Deploy, NumberInv, LineNumbered, Busy
<1>5. CASE headIndex # Unset
  <2>1. blockFound => headIndex + 1 \in 1..Len(chain)
    BY Zenon DEF blockFound
  <2>2. ~blockFound => Len(chain) \in 1..Len(chain)
    <3>1. ~blockFound => chain # <<>>
      BY <1>1, <1>5, Zenon DEF recoverable
    <3>2. QED
      BY <3>1, EmptySeq DEF Types
  <2>3. blockNumber' = (IF blockFound THEN chain[headIndex + 1] ELSE chain[Len(chain)]).blockNumber
    BY <1>5, Zenon DEF initializeLatestL1
  <2>4. blockNumber' \in Nat
    BY <1>3, <2>1, <2>2, <2>3, Zenon
  <2>5. QED
    BY <1>1, <1>2, <2>4, Zenon DEF NumberInv, LineNumbered, Busy
<1>6. QED
  BY <1>4, <1>5, Zenon

LEMMA NumberStep ==
    ASSUME Types, Shape, RepeatInv, NumberInv, [Next]_vars
    PROVE  NumberInv'
<1>1. SUFFICES /\ blockNumber' \in Nat /\ LineNumbered'
               /\ pc' \in Busy => saved'.blockNumber \in Nat
  BY L1Numbers, Zenon DEF NumberInv, ContextInv
<1>2. ASSUME UNCHANGED <<chain, cur, rest>>, (pc' \in Busy) = (pc \in Busy)
      PROVE  LineNumbered'
  <2>1. length' = length /\ \A i \in 1..length : at(i)' = at(i)
    BY <1>2, LineKept, Zenon
  <2>2. QED
    BY <2>1, Zenon DEF NumberInv, LineNumbered
<1>3. CASE SetLatestIndex \/ SetLatestEnqueueIndex \/ SetHeadIndex
  <2>1. /\ UNCHANGED <<chain, cur, rest, saved, blockNumber>>
        /\ (pc' \in Busy) = (pc \in Busy)
    BY <1>3 DEF SetLatestIndex, SetLatestEnqueueIndex, SetHeadIndex, Busy, memory
  <2>2. QED
    BY <1>2, <2>1, Zenon DEF NumberInv, ContextInv
<1>4. CASE mine
  <2>1. /\ pc = "mine" /\ chain' = Append(chain, cur) /\ UNCHANGED <<rest, blockNumber>>
        /\ pc' \notin Busy
    BY <1>4 DEF mine, afterMined, memory, Busy
  <2>2. length' = length /\ \A i \in 1..length : at(i)' = at(i)
    BY <2>1, LineMined, Zenon
  <2>3. QED
    BY <2>1, <2>2, Zenon DEF NumberInv, LineNumbered, ContextInv
<1>5. CASE minerRefuses \/ cacheUpdateFails
  <2>1. pc = "mine" /\ restore /\ (chain' = chain \/ chain' = Append(chain, cur))
    BY <1>5, Zenon DEF minerRefuses, cacheUpdateFails
  <2>2. CASE exit
    <3>1. blockNumber' \in Nat /\ rest' = <<>> /\ pc' \notin Busy
      BY <2>2 DEF exit, Busy
    <3>2. QED
      BY <2>1, <3>1, NumbersCut, Zenon
  <2>3. CASE ~fatal /\ blockNumber' = saved.blockNumber /\ pc' = "idle" /\ UNCHANGED rest
    <3>1. rest' = <<>> /\ pc' \notin Busy /\ blockNumber' \in Nat
      BY <2>1, <2>3, Zenon DEF fatal, Busy, NumberInv, ContextInv
    <3>2. QED
      BY <2>1, <3>1, NumbersCut, Zenon
  <2>4. QED
    BY <2>1, <2>2, <2>3, Zenon DEF restore
<1>6. CASE ValidateAndApplySequencerTransaction
  <2>1. /\ pc = "idle" /\ pc' = "index" /\ UNCHANGED <<chain, rest>> /\ toTip(NoTx)
    BY <1>6, Zenon DEF ValidateAndApplySequencerTransaction, rpcMayApply, toTip, database
  <2>2. cur'.blockNumber \in Nat /\ saved'.blockNumber \in Nat /\ blockNumber' \in Nat
    <3>1. NoTx.blockNumber \in Nat \cup {Unset}
      BY Zenon DEF NoTx
    <3>2. QED
      BY <2>1, <3>1, ToTipNumbers, Zenon DEF NumberInv
  <2>3. PICK n, tx : n = Len(chain) + 1 /\ tx = cur'
    BY Zenon
  <2>4. /\ length = Len(chain) /\ length' = length + 1
        /\ \A i \in 1..length : at(i)' = at(i)
        /\ at(n)' = cur'
    BY <2>1, <2>3, LineExtended, Zenon DEF Busy
  <2>5. LineNumbered'
    BY <2>2, <2>3, <2>4, NumberedExtended, Zenon DEF NumberInv
  <2>6. QED
    BY <2>2, <2>5, Zenon
<1>7. CASE syncQueue
  <2>1. PICK m : m = headQueueIndex + 1
    BY Zenon
  <2>2. /\ pc = "idle" /\ pc' \in {"rollback", "next"} /\ UNCHANGED <<chain, blockNumber>>
        /\ rest' = <<queueTx(m)>> /\ m < seen
    BY <1>7, <2>1, Zenon DEF syncQueue, database, memory, GetNextEnqueueIndex, moreQueued
  <2>3. m + 1 \in 1..Len(queue)
    BY <2>1, <2>2 DEF Types, RepeatInv, HeadInv, Unset
  <2>4. queueTx(m).blockNumber \in Nat
    BY <2>3, Zenon DEF queueTx, NumberInv, ContextInv
  <2>5. PICK n, tx : n = Len(chain) + 1 /\ tx = queueTx(m)
    BY Zenon
  <2>6. /\ length = Len(chain) /\ length' = length + 1
        /\ \A i \in 1..length : at(i)' = at(i)
        /\ at(n)' = tx
    BY <2>2, <2>5, LineExtended, Zenon DEF Busy
  <2>7. LineNumbered'
    BY <2>4, <2>5, <2>6, NumberedExtended, Zenon DEF NumberInv
  <2>8. QED
    BY <2>2, <2>7, Zenon DEF NumberInv, ContextInv, Busy
<1>8. CASE SchedulerRollback
  BY <1>8, NumbersRolledBack, Zenon
<1>9. CASE applyTransaction
  BY <1>9, NumbersApplied, Zenon
<1>10. CASE initializeLatestL1
  BY <1>10, NumbersStarted, Zenon
<1>11. CASE crash
  <2>1. blockNumber' \in Nat /\ rest' = <<>> /\ pc' \notin Busy /\ chain' = chain
    BY <1>11 DEF crash, exit, database, Busy
  <2>2. QED
    BY <2>1, NumbersCut, Zenon
<1>12. CASE updateL1BlockNumber
  <2>1. /\ UNCHANGED <<chain, cur, rest, saved, pc>>
        /\ blockNumber' = IF fetched > blockNumber THEN fetched ELSE blockNumber
    BY <1>12, Zenon DEF updateL1BlockNumber, database, applying
  <2>2. blockNumber' \in Nat
    BY <2>1 DEF Types, NumberInv, ContextInv
  <2>3. QED
    BY <1>2, <2>1, <2>2, Zenon DEF NumberInv, ContextInv
<1>13. CASE \/ takeTxLock \/ queueAtTip \/ GetLatestEthContext
            \/ l1Block \/ ingest \/ clock \/ UNCHANGED vars
  <2>1. UNCHANGED <<chain, cur, rest, saved, pc, blockNumber>>
    BY <1>13, Zenon DEF takeTxLock, queueAtTip, GetLatestEthContext, l1Block, ingest, clock, goto,
       vars, database, applying, memory
  <2>2. QED
    BY <1>2, <2>1, Zenon DEF NumberInv, ContextInv
<1>14. QED
  BY <1>3, <1>4, <1>5, <1>6, <1>7, <1>8, <1>9, <1>10, <1>11, <1>12, <1>13, Zenon
     DEF Next, Service

LEMMA NumberInit ==
    ASSUME Init
    PROVE  NumberInv
<1>1. rest = <<>> /\ pc = "down" /\ blockNumber = 0 /\ l1 = 1
  BY Zenon DEF Init, Deploy
<1>2. chain = <<firstBlock>> \/ chain = <<>>
  BY Zenon DEF Init
<1>3. /\ Len(chain) \in {0, 1} /\ length = Len(chain)
      /\ \A i \in 1..Len(chain) : at(i) = firstBlock
  BY <1>1, <1>2 DEF length, at, pending, Busy
<1>4. LineNumbered
  BY <1>3 DEF LineNumbered, firstBlock, Deploy
<1>5. \A i \in 1..Len(queue) : queue[i].blockNumber \in Nat
  BY DEF Init, Deploy
<1>6. QED
  BY <1>1, <1>4, <1>5 DEF NumberInv, ContextInv, Busy

----------------------------------------------------------------------------
\* The transactions of users.

\* Those of L are the first ones of M.
keepsUsers(L, M) ==
    /\ userPlaces(L) \subseteq userPlaces(M)
    /\ \A u \in userPlaces(L) : \A v \in userPlaces(M) \ userPlaces(L) : u < v
    /\ \A u \in userPlaces(L) : M[u] = L[u]

\* The chain, a transaction that is put back, and those that wait for it.
joined(c, x, r) == c \o (IF x.index # Unset /\ r # <<>> THEN <<x>> ELSE <<>>) \o r

LEMMA JoinedForms ==
    ASSUME NEW c \in Seq(Txs), NEW x \in Txs, NEW r \in Seq(Txs)
    PROVE  /\ joined(c, x, r) \in Seq(Txs)
           /\ r = <<>> => joined(c, x, r) = c
           /\ x.index = Unset => joined(c, x, r) = c \o r
           /\ x.index # Unset /\ r # <<>> => joined(c, x, r) = Append(c, x) \o r
<1>1. c \o <<>> = c /\ c \o <<x>> = Append(c, x)
  OBVIOUS
<1>2. Append(c, x) \in Seq(Txs) /\ c \o r \in Seq(Txs)
  OBVIOUS
<1>3. Append(c, x) \o r \in Seq(Txs)
  BY <1>2, ConcatProperties, Zenon
<1>4. r = <<>> => joined(c, x, r) = c
  BY <1>1, Zenon DEF joined
<1>5. x.index = Unset => joined(c, x, r) = c \o r
  BY <1>1, Zenon DEF joined
<1>6. x.index # Unset /\ r # <<>> => joined(c, x, r) = Append(c, x) \o r
  BY <1>1, Zenon DEF joined
<1>7. QED
  BY <1>2, <1>3, <1>4, <1>5, <1>6, Zenon

\* One more transaction at the end.
LEMMA UsersExtended ==
    ASSUME NEW L \in Seq(Txs), NEW x \in Txs
    PROVE  /\ keepsUsers(L, L) /\ keepsUsers(L, Append(L, x))
           /\ x.queueIndex # Unset => keepsUsers(Append(L, x), L)
<1>1. PICK n \in Nat : n = Len(L)
  BY LenProperties, Zenon
<1>2. PICK M : M = Append(L, x)
  BY Zenon
<1>3. /\ DOMAIN L = 1..n /\ DOMAIN M = 1..(n + 1)
      /\ M[n + 1] = x /\ \A i \in 1..n : M[i] = L[i]
  BY <1>1, <1>2
<1>4. keepsUsers(L, L)
  BY Zenon DEF keepsUsers
<1>5. /\ \A u \in userPlaces(L) : u \in 1..n /\ L[u].queueIndex = Unset
      /\ \A v \in userPlaces(M) : v \in 1..(n + 1) /\ M[v].queueIndex = Unset
  BY <1>3, Zenon DEF userPlaces
<1>6. \A u \in 1..n : u \in 1..(n + 1) /\ u < n + 1
  OBVIOUS
<1>7. userPlaces(L) \subseteq userPlaces(M)
  BY <1>3, <1>5, <1>6, Zenon DEF userPlaces
<1>8. \A v \in userPlaces(M) \ userPlaces(L) : v = n + 1
  <2>1. \A v \in 1..(n + 1) : v \in 1..n \/ v = n + 1
    OBVIOUS
  <2>2. QED
    BY <1>3, <1>5, <2>1, Zenon DEF userPlaces
<1>9. keepsUsers(L, M)
  BY <1>3, <1>5, <1>6, <1>7, <1>8, Zenon DEF keepsUsers
<1>10. ASSUME x.queueIndex # Unset
       PROVE  keepsUsers(M, L)
  <2>1. userPlaces(M) \subseteq userPlaces(L)
    BY <1>3, <1>5, <1>8, <1>10, Zenon
  <2>2. QED
    BY <1>3, <1>5, <1>7, <2>1, Zenon DEF keepsUsers
<1>11. QED
  BY <1>2, <1>4, <1>9, <1>10, Zenon

\* What a rollback cuts off and puts in front of the rest.
LEMMA CutAndJoined ==
    ASSUME NEW c \in Seq(Txs), NEW r \in Seq(Txs), NEW start \in 2..Len(c)
    PROVE  SubSeq(c, 1, start - 1) \o (SubSeq(c, start, Len(c)) \o r) = c \o r
<1>1. Len(c) \in Nat
  OBVIOUS
<1>2. SubSeq(c, 1, start - 1) \o SubSeq(c, start, Len(c)) = c
  OBVIOUS
<1>3. SubSeq(c, 1, start - 1) \in Seq(Txs) /\ SubSeq(c, start, Len(c)) \in Seq(Txs)
  OBVIOUS
<1>4. QED
  BY <1>2, <1>3, ConcatAssociative, SMTT(30)

LEMMA HeadMoved ==
    ASSUME NEW c \in Seq(Txs), NEW r \in Seq(Txs), r # <<>>
    PROVE  /\ Append(c, r[1]) \o Tail(r) = c \o r
           /\ Len(r) = 1 => Tail(r) = <<>> /\ c \o r = Append(c, r[1])
<1>1. Append(c, r[1]) \o Tail(r) = c \o r
  <2>1. r[1] \in Txs /\ Tail(r) \in Seq(Txs) /\ <<r[1]>> \in Seq(Txs)
    BY HeadTailProperties
  <2>2. <<r[1]>> \o Tail(r) = r
    OBVIOUS
  <2>3. Append(c, r[1]) = c \o <<r[1]>>
    BY <2>1
  <2>4. (c \o <<r[1]>>) \o Tail(r) = c \o (<<r[1]>> \o Tail(r))
    BY <2>1, ConcatAssociative, SMTT(30)
  <2>5. QED
    BY <2>2, <2>3, <2>4, Zenon
<1>2. ASSUME Len(r) = 1
      PROVE  Tail(r) = <<>> /\ c \o r = Append(c, r[1])
  <2>1. Tail(r) \in Seq(Txs) /\ Len(Tail(r)) = 0 /\ r[1] \in Txs
    BY <1>2, HeadTailProperties
  <2>2. Tail(r) = <<>>
    BY <2>1, EmptySeq
  <2>3. Append(c, r[1]) \in Seq(Txs)
    BY <2>1
  <2>4. Append(c, r[1]) \o <<>> = Append(c, r[1])
    BY <2>3
  <2>5. QED
    BY <1>1, <2>2, <2>4, Zenon
<1>3. QED
  BY <1>1, <1>2, Zenon

\* What is put back is what was cut off: a transaction of the round but the last
\* has its index, timestamp and block number.
LEMMA PutBack ==
    ASSUME Types, Shape, OrderInv, NumberInv, pc = "next", Len(rest) # 1, toTip(Head(rest))
    PROVE  cur' = rest[1]
<1>1. rest # <<>> /\ rest \in Seq(Txs) /\ Head(rest) = rest[1]
  BY TailAt, Zenon DEF Shape, Types
<1>2. PICK tx : tx = rest[1]
  BY Zenon
<1>3. tx \in Txs
  BY <1>1, <1>2, HeadTailProperties, Zenon
<1>4. tx.index = Len(chain) /\ tx.timestamp \in Nat /\ Len(chain) \in Nat
  BY <1>2, Replayed, LineTypes, Zenon
<1>5. tx.blockNumber \in Nat
  <2>1. PICK n : n = Len(chain) + 1
    BY Zenon
  <2>2. n \in 1..length /\ at(n) = rest[1]
    BY <1>1, <2>1, EmptySeq DEF length, at, pending, Busy, Types
  <2>3. QED
    BY <1>2, <2>2, Zenon DEF NumberInv, LineNumbered
<1>6. tx.index # Unset /\ tx.timestamp # Unset /\ tx.blockNumber # Unset
  BY <1>4, <1>5 DEF Unset
<1>7. cur' = [queueIndex |-> tx.queueIndex, index |-> tx.index, timestamp |-> tx.timestamp,
              blockNumber |-> tx.blockNumber]
  BY <1>1, <1>2, <1>6, Zenon DEF toTip
<1>8. QED
  BY <1>2, <1>3, <1>7 DEF Txs

LEMMA UsersApplied ==
    ASSUME Types, Shape, RepeatInv, OrderInv, NumberInv, applyTransaction, Types'
    PROVE  keepsUsers(joined(chain, cur, rest), joined(chain', cur', rest'))
<1>1. pc = "next" /\ rest # <<>> /\ UNCHANGED chain
  BY Zenon DEF applyTransaction, Shape, database
<1>2. toTip(Head(rest)) /\ rest' = Tail(rest)
  BY AlwaysAtTip, Zenon
<1>3. chain \in Seq(Txs) /\ cur \in Txs /\ rest \in Seq(Txs) /\ cur' \in Txs /\ rest' \in Seq(Txs)
  BY Zenon DEF Types
<1>4. cur.index = Unset
  BY <1>1 DEF RepeatInv, HeadInv, Busy, NoTx
<1>5. joined(chain, cur, rest) = chain \o rest
  BY <1>3, <1>4, JoinedForms, Zenon
<1>6. rest[1] \in Txs /\ Len(rest) \in Nat \ {0} /\ Len(rest') = Len(rest) - 1
  <2>1. Len(rest) \in Nat \ {0} /\ Len(rest') = Len(rest) - 1
    BY <1>1, <1>2, <1>3, TailAt, Zenon
  <2>2. QED
    BY <1>3, <2>1
<1>7. CASE Len(rest) = 1
  <2>1. rest' = <<>> /\ chain \o rest = Append(chain, rest[1])
    BY <1>1, <1>2, <1>3, <1>7, HeadMoved, Zenon
  <2>2. joined(chain', cur', rest') = chain
    BY <1>1, <1>3, <2>1, JoinedForms, Zenon
  <2>3. rest[1].queueIndex # Unset
    BY <1>1, <1>7 DEF Shape, Unset
  <2>4. keepsUsers(Append(chain, rest[1]), chain)
    BY <1>3, <1>6, <2>3, UsersExtended, Zenon
  <2>5. QED
    BY <1>5, <2>1, <2>2, <2>4, Zenon
<1>8. CASE Len(rest) # 1
  <2>1. cur' = rest[1]
    BY <1>1, <1>2, <1>8, PutBack, Zenon
  <2>2. Append(chain, rest[1]) \o rest' = chain \o rest
    BY <1>1, <1>2, <1>3, HeadMoved, Zenon
  <2>3. rest' # <<>>
    <3>1. Len(rest') # 0
      BY <1>6, <1>8
    <3>2. QED
      BY <3>1
  <2>4. cur'.index # Unset
    <3>1. rest[1].index = Len(chain) /\ Len(chain) \in Nat
      BY <1>1, <1>8, Replayed, LineTypes, Zenon
    <3>2. QED
      BY <2>1, <3>1 DEF Unset
  <2>5. joined(chain', cur', rest') = Append(chain, cur') \o rest'
    BY <1>1, <1>3, <2>3, <2>4, JoinedForms, Zenon
  <2>6. joined(chain', cur', rest') = chain \o rest
    BY <2>1, <2>2, <2>5, Zenon
  <2>7. chain \o rest \in Seq(Txs)
    BY <1>3, ConcatProperties, Zenon
  <2>8. QED
    BY <1>5, <1>6, <2>6, <2>7, UsersExtended, Zenon
<1>9. QED
  BY <1>7, <1>8, Zenon

LEMMA UsersStep ==
    ASSUME IInv, NumberInv, Bootstrapped, [Next]_vars, pc' # "down", cacheFails = 0
    PROVE  /\ replayed \in Seq(Txs) /\ replayed' \in Seq(Txs)
           /\ keepsUsers(replayed, replayed')
<1>1. Types /\ Shape /\ RepeatInv /\ OrderInv
  BY Zenon DEF IInv
<1>2. Types'
  BY <1>1, TypesStep, Zenon
<1>3. /\ chain \in Seq(Txs) /\ cur \in Txs /\ rest \in Seq(Txs)
      /\ chain' \in Seq(Txs) /\ cur' \in Txs /\ rest' \in Seq(Txs)
  BY <1>1, <1>2, Zenon DEF Types
<1>4. replayed = joined(chain, cur, rest) /\ replayed' = joined(chain', cur', rest')
  BY Zenon DEF replayed, joined
<1>5. replayed \in Seq(Txs) /\ replayed' \in Seq(Txs)
  BY <1>3, <1>4, JoinedForms, Zenon
<1>6. SUFFICES keepsUsers(joined(chain, cur, rest), joined(chain', cur', rest'))
  BY <1>4, <1>5, Zenon
<1>7. ASSUME replayed' = replayed
      PROVE  keepsUsers(joined(chain, cur, rest), joined(chain', cur', rest'))
  BY <1>3, <1>4, <1>5, <1>7, UsersExtended, Zenon
<1>8. ASSUME rest = <<>>, rest' = <<>>, chain' = chain \/ chain' = Append(chain, cur)
      PROVE  keepsUsers(joined(chain, cur, rest), joined(chain', cur', rest'))
  <2>1. joined(chain, cur, rest) = chain /\ joined(chain', cur', rest') = chain'
    BY <1>3, <1>8, JoinedForms, Zenon
  <2>2. QED
    BY <1>3, <1>8, <2>1, UsersExtended, Zenon
<1>9. pc \notin Busy => cur.index = Unset
  BY <1>1 DEF RepeatInv, HeadInv, NoTx
<1>10. CASE mine
  <2>1. /\ pc = "mine" /\ chain' = Append(chain, cur) /\ cur' = NoTx /\ UNCHANGED rest
    BY <1>10, Zenon DEF mine
  <2>2. CASE rest = <<>>
    BY <1>8, <2>1, <2>2, Zenon
  <2>3. CASE rest # <<>>
    <3>1. cur.index # Unset
      <4>1. PICK n : n = Len(chain) + 1
        BY Zenon
      <4>2. Len(chain) \in Nat /\ n \in 1..placed /\ at(n) = cur
        BY <1>3, <2>1, <2>3, <4>1, EmptySeq DEF placed, length, at, pending, Busy
      <4>3. cur.index = n - 1
        BY <1>1, <4>2, Zenon DEF OrderInv, Sorted
      <4>4. QED
        BY <4>1, <4>2, <4>3 DEF Unset
    <3>2. joined(chain, cur, rest) = chain' \o rest
      <4>1. chain \in Seq(Txs) /\ cur \in Txs /\ rest \in Seq(Txs)
        BY <1>3, Zenon
      <4>2. cur.index # Unset /\ rest # <<>> => joined(chain, cur, rest) = Append(chain, cur) \o rest
        BY <4>1, JoinedForms, Zenon
      <4>3. QED
        BY <2>1, <2>3, <3>1, <4>2, Zenon
    <3>3. cur'.index = Unset
      BY <2>1, Zenon DEF NoTx
    <3>4. joined(chain', cur', rest') = chain' \o rest
      BY <1>3, <2>1, <3>3, JoinedForms, Zenon
    <3>5. QED
      BY <1>4, <1>7, <3>2, <3>4, Zenon
  <2>4. QED
    BY <2>2, <2>3, Zenon
<1>11. CASE minerRefuses \/ cacheUpdateFails
  <2>1. restore /\ (chain' = chain \/ chain' = Append(chain, cur))
    BY <1>11, Zenon DEF minerRefuses, cacheUpdateFails
  <2>2. ~exit
    BY Zenon DEF exit
  <2>3. rest = <<>> /\ rest' = <<>>
    BY <2>1, <2>2, Zenon DEF restore, fatal
  <2>4. QED
    BY <1>8, <2>1, <2>3, Zenon
<1>12. CASE ValidateAndApplySequencerTransaction
  <2>1. rest = <<>> /\ rest' = rest /\ chain' = chain
    BY <1>1, <1>12, Zenon DEF ValidateAndApplySequencerTransaction, rpcMayApply, Shape, database
  <2>2. QED
    BY <1>8, <2>1, Zenon
<1>13. CASE syncQueue
  <2>1. PICK tx : tx = queueTx(GetNextEnqueueIndex)
    BY Zenon
  <2>2. pc = "idle" /\ rest' = <<tx>> /\ UNCHANGED <<chain, cur>>
    BY <1>13, <2>1, Zenon DEF syncQueue, database
  <2>3. rest = <<>> /\ cur.index = Unset
    BY <1>1, <1>9, <2>2, Zenon DEF Shape, Busy
  <2>4. tx \in Txs /\ chain \o <<tx>> = Append(chain, tx)
    BY <1>3, <2>2
  <2>5. joined(chain, cur, rest) = chain
    BY <1>3, <2>3, JoinedForms, Zenon
  <2>6. joined(chain', cur', rest') = Append(chain, tx)
    <3>1. cur'.index = Unset
      BY <2>2, <2>3, Zenon
    <3>2. joined(chain', cur', rest') = chain' \o rest'
      BY <1>3, <3>1, JoinedForms, Zenon
    <3>3. QED
      BY <2>2, <2>4, <3>2, Zenon
  <2>7. QED
    BY <1>3, <2>4, <2>5, <2>6, UsersExtended, Zenon
<1>14. CASE SchedulerRollback
  <2>1. pc = "rollback" /\ rest # <<>> /\ ~exit
    BY <1>1, <1>14, Zenon DEF SchedulerRollback, Shape, exit
  <2>2. PICK start \in 1..Len(chain) : start = queue[Head(rest).queueIndex + 1].rollback
    BY <1>1, <1>3, <2>1, TailAt, Zenon DEF Shape
  <2>3. /\ start > 1 /\ rest' = rolledBack(start) \o rest
        /\ chain' = SubSeq(chain, 1, start - 1) /\ cur' = cur
    BY <1>14, <2>1, <2>2, Zenon DEF SchedulerRollback
  <2>4. start \in 2..Len(chain)
    BY <1>3, <2>3
  <2>5. chain' \o rest' = chain \o rest
    BY <1>3, <2>3, <2>4, CutAndJoined, Zenon DEF rolledBack
  <2>6. cur.index = Unset
    BY <1>9, <2>1, Zenon DEF Busy
  <2>7. joined(chain, cur, rest) = chain \o rest
    BY <1>3, <2>6, JoinedForms, Zenon
  <2>8. joined(chain', cur', rest') = chain' \o rest'
    <3>1. cur'.index = Unset
      BY <2>3, <2>6, Zenon
    <3>2. QED
      BY <1>3, <3>1, JoinedForms, Zenon
  <2>9. QED
    BY <1>4, <1>7, <2>5, <2>7, <2>8, Zenon
<1>15. CASE applyTransaction
  BY <1>1, <1>2, <1>15, UsersApplied, Zenon
<1>16. CASE crash
  BY <1>16, Zenon DEF crash, exit
<1>17. CASE UNCHANGED <<chain, cur, rest>>
  BY <1>4, <1>7, <1>17, Zenon
<1>18. CASE \/ SetLatestIndex \/ SetLatestEnqueueIndex \/ SetHeadIndex \/ initializeLatestL1
            \/ takeTxLock \/ queueAtTip \/ GetLatestEthContext \/ updateL1BlockNumber
            \/ l1Block \/ ingest \/ clock \/ UNCHANGED vars
  BY <1>17, <1>18, Zenon DEF SetLatestIndex, SetLatestEnqueueIndex, SetHeadIndex,
     initializeLatestL1, takeTxLock, queueAtTip, GetLatestEthContext, updateL1BlockNumber, l1Block,
     ingest, clock, goto, vars, database, applying
<1>19. QED
  BY <1>10, <1>11, <1>12, <1>13, <1>14, <1>15, <1>16, <1>18, Zenon DEF Next, Service

\* As long as the process lives and the cache has not failed, the transactions
\* of users in the chain and on their way back into it stay, each at its place
\* with its index, timestamp and block number, and new ones come after them,
\* through any number of rollbacks of any depth and of refused transactions.
THEOREM UserTxsKept == Bootstrapped /\ Spec => RollbackKeepsUserTxs
<1>1. CASE Bootstrapped
  <2>1. Init => NumberInv
    BY NumberInit, Zenon
  <2>2. IInv /\ NumberInv /\ [Next]_vars => NumberInv'
    BY NumberStep, Zenon DEF IInv
  <2>3. IInv /\ NumberInv /\ [Next]_vars =>
          [pc' # "down" /\ cacheFails = 0 =>
             \A i \in userPlaces(replayed) :
                 /\ i \in userPlaces(replayed') /\ replayed'[i] = replayed[i]
                 /\ \A j \in userPlaces(replayed') \ userPlaces(replayed) : i < j]_vars
    BY <1>1, UsersStep, Zenon DEF keepsUsers
  <2>4. QED
    BY <2>1, <2>2, <2>3, SyncInvariant, PTL DEF Spec, RollbackKeepsUserTxs
<1>2. QED
  BY <1>1, Zenon
============================================================================
