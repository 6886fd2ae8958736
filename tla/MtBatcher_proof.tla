-------------------------- MODULE MtBatcher_proof --------------------------
(***************************************************************************)
(* What holds of MtBatcher for every offset, size, number of blocks,       *)
(* re-rollups and troubles: the data of the confirmed blocks is available, *)
(* the batches tile the chain, and the checker skips only what failed.     *)
(***************************************************************************)
EXTENDS MtBatcher, TLAPS

-----------------------------------------------------------------------------
\* Types.

Labels == {"idle", "entry", "range", "storing", "stored", "confirming", "fee"}

Jobs ==
    [start : Nat, end : Nat, data : SUBSET Nat, id : Nat, origin : Nat, batchIndex : Nat]

Transactions ==
    [kind : {"store", "confirm"}, from : Workers \cup {"nobody"}, isReRollup : BOOLEAN,
     start : Nat, end : Nat, data : SUBSET Nat, id : Nat, origin : Nat, batchIndex : Nat]

Stores ==
    [start : Nat, end : Nat, isReRollup : BOOLEAN, number : Int, data : SUBSET Nat]

WorkerTypes ==
    /\ latest \in Nat
    /\ pc \in [Workers -> Labels]
    /\ job \in [Workers -> Jobs]
    /\ result \in [Workers -> {"none", "mined", "reverted", "spent"}]
    /\ mempool \in SUBSET Transactions
    /\ readFails \in Nat /\ faults \in Nat
    /\ staleReset \in BOOLEAN

DaTypes ==
    /\ dataStores \in Seq(Stores)
    /\ rollupBatchIndex \in Nat
    /\ l2ConfirmedBlockNumber \in Nat
    /\ DOMAIN rollupStores \subseteq Nat
    /\ \A i \in DOMAIN rollupStores : rollupStores[i].dataStoreId \in DOMAIN dataStores
    /\ reRollupBatchIndex \in Seq(Nat)

-----------------------------------------------------------------------------
\* Who owns a transaction.

\* A transaction of a worker is the one it waits for; a confirmation stays
\* valid until a transaction is mined.
Owned ==
    /\ \A w \in Workers : result[w] # "none" => pc[w] \in {"storing", "confirming"}
    /\ \A t \in mempool :
         /\ t.from \in Workers =>
              /\ result[t.from] = "none"
              /\ pc[t.from] = IF t.kind = "store" THEN "storing" ELSE "confirming"
              /\ t.isReRollup = (t.from = "checker")
              /\ t.start = job[t.from].start
         /\ faults = 0 => t.from \in Workers
         /\ t.kind = "confirm" => confirmable(t)

-----------------------------------------------------------------------------
\* The data, while every block could be read and no round met a reset.

Undisturbed == readFails = 0 /\ ~staleReset

\* The end of the blocks in the first i batches.
endOf(i) == IF i = 0 THEN 0 ELSE storeOf(i - 1).end

\* A range that fits into a batch, with the data of its blocks.
Full(r) ==
    /\ r.start < r.end
    /\ r.end - r.start < RollUpMaxSize
    /\ r.data = r.start .. r.end - 1

ContractInv ==
    /\ DOMAIN rollupStores = 0 .. rollupBatchIndex - 1
    /\ l2ConfirmedBlockNumber = endOf(rollupBatchIndex)
    /\ \A k \in DOMAIN dataStores : Full(dataStores[k])
    /\ \A i \in 0 .. rollupBatchIndex : \A b \in 0 .. endOf(i) - 1 :
         \E j \in 0 .. i - 1 : b \in storeOf(j).data

\* The range of new blocks contains the end of the confirmed ones.
NewRange(r) ==
    /\ r.start <= l2ConfirmedBlockNumber
    /\ l2ConfirmedBlockNumber <= r.end
    /\ r.end <= latest
    /\ r.end <= r.start + BlockOffset

\* The range of a batch that is rolled up again.
BatchRange(r) ==
    /\ r.batchIndex \in DOMAIN rollupStores
    /\ r.start = storeOf(r.batchIndex).start
    /\ r.end = storeOf(r.batchIndex).end

MempoolInv ==
    \A t \in mempool :
        /\ Full(t)
        /\ IF t.isReRollup THEN BatchRange(t) ELSE NewRange(t)

Busy == {"range", "storing", "stored", "confirming"}

\* Where the batch of a range ends.
reach(j) == Smaller(j.end, j.start + RollUpMaxSize - 1)

\* A transaction of new blocks that a Send has left behind does not reach
\* further than the range of the main worker.
MainInv ==
    pc["main"] \in Busy =>
        /\ job["main"].start < job["main"].end
        /\ NewRange(job["main"])
        /\ l2ConfirmedBlockNumber <= reach(job["main"])
        /\ \A t \in mempool : ~t.isReRollup => t.end <= reach(job["main"])
        /\ pc["main"] # "range" => Full(job["main"])

CheckerInv ==
    pc["checker"] \in Busy =>
        /\ BatchRange(job["checker"])
        /\ pc["checker"] # "range" => Full(job["checker"])

DataInv == ContractInv /\ MempoolInv /\ MainInv /\ CheckerInv

\* Without a failed Send nothing but the main worker's own confirmation moves
\* the end of the confirmed blocks, and each batch starts where the one before
\* it ends.
MainStarts ==
    pc["main"] \in Busy /\ ~(pc["main"] = "confirming" /\ result["main"] = "mined")
    => job["main"].start = l2ConfirmedBlockNumber

Tiles == \A i \in 0 .. rollupBatchIndex - 1 : storeOf(i).start = endOf(i)

TileInv == Tiles /\ MainStarts

IInv ==
    /\ WorkerTypes /\ DaTypes /\ Owned
    /\ Undisturbed => DataInv
    /\ Undisturbed /\ faults = 0 => TileInv

-----------------------------------------------------------------------------
\* The checker's entries.

EntryInv ==
    /\ dbIndex \in Nat /\ entry \in Nat
    /\ pc["checker"] # "idle" => 1 .. entry - 1 \subseteq handled \cup failed
    /\ OnlyFailedSkipped

-----------------------------------------------------------------------------
\* The checker.

LEMMA EntryStep ==
    ASSUME WorkerTypes, EntryInv, [Next]_vars
    PROVE  EntryInv'
<1> USE DEF EntryInv, OnlyFailedSkipped, WorkerTypes, Workers
<1>1. ASSUME checkerFails, pc["checker"] # "idle", UNCHANGED handled
      PROVE  EntryInv'
  BY <1>1 DEF checkerFails, nextEntry, goto
<1>2. ASSUME entryDone, \/ handled' = handled \cup {entry} /\ UNCHANGED failed
                        \/ failed' = failed \cup {entry} /\ UNCHANGED handled,
             pc["checker"] # "idle"
      PROVE  EntryInv'
  BY <1>2 DEF entryDone, storedIndex, nextEntry, goto
<1>3. ASSUME mainFails, UNCHANGED handled
      PROVE  EntryInv'
  BY <1>3, Zenon DEF mainFails, goto
<1>4. ASSUME NEW w \in Workers, roundFails(w), pc[w] # "idle", UNCHANGED handled
      PROVE  EntryInv'
  BY <1>1, <1>3, <1>4, Zenon DEF roundFails
<1>5. ASSUME NEW w \in Workers, NEW l, goto(w, l), pc[w] # "idle",
             UNCHANGED <<entry, dbIndex, handled, failed>>
      PROVE  EntryInv'
  BY <1>5, Zenon DEF goto
<1>6. ASSUME UNCHANGED <<pc, entry, dbIndex, handled, failed>>
      PROVE  EntryInv'
  BY <1>6, Zenon
<1>7. CASE GetBatchBlockRange
  BY <1>7, Zenon DEF GetBatchBlockRange, goto, history
<1>8. ASSUME NEW w \in Workers, DisperseStoreData(w)
      PROVE  EntryInv'
  BY <1>4, <1>5, <1>8, Zenon DEF DisperseStoreData
<1>9. ASSUME NEW w \in Workers, storeReturns(w)
      PROVE  EntryInv'
  BY <1>4, <1>5, <1>9, Zenon DEF storeReturns
<1>10. ASSUME NEW w \in Workers, ConfirmStoredData(w)
       PROVE  EntryInv'
  BY <1>4, <1>5, <1>10, Zenon DEF ConfirmStoredData
<1>11. CASE mainConfirmed
  BY <1>3, <1>5, <1>11, Zenon DEF mainConfirmed
<1>12. CASE checkerTick
  BY <1>12, Zenon DEF checkerTick, goto, history
<1>13. CASE readEntry
  BY <1>1, <1>2, <1>5, <1>13, Zenon DEF readEntry
<1>14. CASE checkerConfirmed
  BY <1>1, <1>2, <1>14, Zenon DEF checkerConfirmed
<1>15. CASE FeeCh
  BY <1>5, <1>15, Zenon DEF FeeCh, history
<1>16. ASSUME NEW w \in Workers, sendFails(w)
       PROVE  EntryInv'
  BY <1>4, <1>16, Zenon DEF sendFails
<1>17. CASE crash
  BY <1>17, Zenon DEF crash
<1>18. CASE feeTick \/ newBlock \/ mine \/ mineReverted \/ reSubmit \/ operatorReset
            \/ UNCHANGED vars
  BY <1>6, <1>18, ZenonT(30) DEF feeTick, newBlock, mine, mineReverted, reSubmit, operatorReset, vars,
                     workers, history
<1>19. QED
  BY <1>7, <1>8, <1>9, <1>10, <1>11, <1>12, <1>13, <1>14, <1>15, <1>16, <1>17, <1>18, Zenon
     DEF Next, MainWorker, CheckConfirmedWorker, FeeWorker

-----------------------------------------------------------------------------
\* Types.

\* A round that ends leaves the types as they are.
LEMMA RoundTypes ==
    ASSUME WorkerTypes, EntryInv
    PROVE  /\ nextEntry => pc' \in [Workers -> Labels] /\ job' \in [Workers -> Jobs]
           /\ \A w \in Workers : roundFails(w) =>
                pc' \in [Workers -> Labels] /\ job' \in [Workers -> Jobs]
<1>1. NoJob \in Jobs
  BY Zenon DEF NoJob, Jobs
<1>2. nextEntry => pc' \in [Workers -> Labels] /\ job' \in [Workers -> Jobs]
  BY <1>1 DEF nextEntry, goto, WorkerTypes, Workers, Labels
<1>3. mainFails => pc' \in [Workers -> Labels] /\ job' \in [Workers -> Jobs]
  BY <1>1, Zenon DEF mainFails, goto, WorkerTypes, Workers, Labels
<1>4. QED
  BY <1>2, <1>3, Zenon DEF roundFails, checkerFails

\* What is used of counting.  The library's theorems on finite sets, from which
\* it is proved, are brought in at the end of the module.
Counting ==
    /\ \A S \in SUBSET Nat : S # {} => \E i \in S : \A j \in S : i <= j
    /\ \A a, b \in Int : a <= b => Cardinality(a .. b) = b - a + 1
    /\ \A a, b \in Int : \A S \in SUBSET (a .. b) :
         Cardinality(S) \in Nat /\ (Cardinality(S) = 0 => S = {})

LEMMA AggregatedTypes ==
    ASSUME Counting, NEW a \in Nat, NEW b \in Nat, NEW unread
    PROVE  aggregatedEnd(a, b, unread) \in Nat /\ dataBelow(a, b, unread) \in SUBSET Nat
<1>1. aggregatedEnd(a, b, unread) \in Nat
  <2> DEFINE full(i) == Cardinality(aggregated(a, i + 1, unread)) >= RollUpMaxSize
             S == {i \in a .. b - 1 : full(i)}
  <2>1. CASE S = {}
    BY <2>1, ZenonT(30) DEF aggregatedEnd
  <2>2. CASE S # {}
    <3>1. \E i \in S : \A j \in S : i <= j
      <4>1. S \in SUBSET Nat
        OBVIOUS
      <4> HIDE DEF S
      <4>2. QED
        BY <2>2, <4>1, ZenonT(30) DEF Counting
    <3>2. \E i \in a .. b - 1 : full(i) /\ \A j \in a .. b - 1 : full(j) => i <= j
      BY <3>1, Zenon
    <3>3. (CHOOSE i \in a .. b - 1 : full(i) /\ \A j \in a .. b - 1 : full(j) => i <= j) \in Nat
      <4> HIDE DEF full
      <4> QED
        BY <3>2
    <3>4. QED
      BY <3>3, Zenon DEF aggregatedEnd
  <2>3. QED
    BY <2>1, <2>2, Zenon
<1>2. dataBelow(a, b, unread) \in SUBSET Nat
  BY DEF dataBelow, aggregated
<1>3. QED
  BY <1>1, <1>2, Zenon

\* What is aggregated when every block can be read.
LEMMA Aggregated ==
    ASSUME Counting, NEW a \in Nat, NEW b \in Nat, a < b
    PROVE  LET end == Smaller(b, a + RollUpMaxSize - 1)
           IN  /\ aggregatedEnd(a, b, {}) = end
               /\ dataBelow(a, b, {}) = a .. end - 1
<1> USE MtBatcherConstants
<1> DEFINE end == Smaller(b, a + RollUpMaxSize - 1)
           full(i) == Cardinality(aggregated(a, i + 1, {})) >= RollUpMaxSize
<1>1. ASSUME NEW i \in Int, a <= i
      PROVE  Cardinality(a .. i) = i - a + 1
  BY <1>1 DEF Counting
<1>2. \A i \in a .. b - 1 : full(i) <=> i >= a + RollUpMaxSize - 1
  <2> SUFFICES ASSUME NEW i \in a .. b - 1
               PROVE  full(i) <=> i >= a + RollUpMaxSize - 1
    BY Zenon
  <2>1. aggregated(a, i + 1, {}) = a .. i
    BY DEF aggregated
  <2>2. QED
    BY <1>1, <2>1
<1>3. aggregatedEnd(a, b, {}) = end
  <2>1. CASE b <= a + RollUpMaxSize - 1
    <3>1. ~\E i \in a .. b - 1 : full(i)
      BY <1>2, <2>1
    <3>2. QED
      BY <2>1, <3>1 DEF aggregatedEnd, Smaller
  <2>2. CASE b > a + RollUpMaxSize - 1
    <3> DEFINE least(i) == full(i) /\ \A j \in a .. b - 1 : full(j) => i <= j
    <3>1. end \in a .. b - 1 /\ least(end)
      BY <1>2, <2>2 DEF Smaller
    <3>2. \A i \in a .. b - 1 : least(i) => i = end
      BY <1>2, <3>1
    <3>3. (CHOOSE i \in a .. b - 1 : least(i)) = end
      <4> HIDE DEF least, end
      <4> QED
        BY <3>1, <3>2, Zenon
    <3>4. QED
      BY <3>1, <3>3, Zenon DEF aggregatedEnd
  <2>3. QED
    BY <2>1, <2>2
<1>4. dataBelow(a, b, {}) = a .. end - 1
  <2>1. aggregated(a, b, {}) = a .. b - 1 /\ Cardinality(a .. b - 1) = b - a
    BY <1>1 DEF aggregated
  <2>2. CASE b - a < RollUpMaxSize
    BY <2>1, <2>2 DEF dataBelow, Smaller
  <2>3. CASE b - a >= RollUpMaxSize
    <3>1. \A i \in a .. b - 1 : Cardinality({j \in a .. b - 1 : j <= i}) = i - a + 1
      <4> SUFFICES ASSUME NEW i \in a .. b - 1
                   PROVE  Cardinality({j \in a .. b - 1 : j <= i}) = i - a + 1
        BY Zenon
      <4>1. {j \in a .. b - 1 : j <= i} = a .. i
        OBVIOUS
      <4>2. Cardinality(a .. i) = i - a + 1
        BY <1>1
      <4>3. QED
        BY <4>1, <4>2, ZenonT(30)
    <3>2. dataBelow(a, b, {}) = {i \in a .. b - 1 : i - a + 1 < RollUpMaxSize}
      BY <2>1, <2>3, <3>1 DEF dataBelow
    <3>3. end = a + RollUpMaxSize - 1
      BY <2>3 DEF Smaller
    <3>4. \A i \in Int : i \in a .. b - 1 /\ i - a + 1 < RollUpMaxSize <=> i \in a .. end - 1
      BY <2>3, <3>3
    <3>5. {i \in a .. b - 1 : i - a + 1 < RollUpMaxSize} = a .. end - 1
      <4>1. end \in Int
        BY <3>3
      <4> HIDE DEF end
      <4>2. QED
        BY <3>4, <4>1
    <3>6. QED
      BY <3>2, <3>5, ZenonT(30)
  <2>4. QED
    BY <2>2, <2>3
<1>5. QED
  BY <1>3, <1>4, Zenon

LEMMA StoreTypes ==
    ASSUME DaTypes, NEW i \in DOMAIN rollupStores
    PROVE  /\ storeOf(i) \in Stores
           /\ storeOf(i).start \in Nat /\ storeOf(i).end \in Nat
<1>1. storeOf(i) \in Stores
  BY DEF DaTypes, storeOf
<1>2. QED
  BY <1>1, Zenon DEF Stores

LEMMA TransactionType ==
    ASSUME NEW kind \in {"store", "confirm"}, NEW w \in Workers, NEW j \in Jobs
    PROVE  transaction(kind, w, j) \in Transactions
BY Zenon DEF transaction, Transactions, Jobs

LEMMA DaTypesStep ==
    ASSUME WorkerTypes, DaTypes, Owned, [Next]_vars
    PROVE  DaTypes'
<1>1. ASSUME NEW t \in Transactions, storeData(t)
      PROVE  DaTypes'
  <2>1. [start |-> t.start, end |-> t.end, isReRollup |-> t.isReRollup,
         number |-> NotConfirmed, data |-> t.data] \in Stores
    BY DEF Transactions, Stores, NotConfirmed
  <2>2. dataStores' \in Seq(Stores) /\ DOMAIN dataStores \subseteq DOMAIN dataStores'
    BY <1>1, <2>1 DEF storeData, DaTypes
  <2>3. QED
    BY <1>1, <2>2, Zenon DEF storeData, DaTypes
<1>2. ASSUME NEW t \in Transactions, confirmData(t), confirmable(t)
      PROVE  DaTypes'
  <2> DEFINE number == IF t.isReRollup THEN t.batchIndex ELSE rollupBatchIndex
             origin == IF t.isReRollup THEN t.origin ELSE t.id
  <2>1. number \in Nat /\ t.id \in DOMAIN dataStores /\ t.end \in Nat
    BY <1>2, Zenon DEF confirmable, Transactions, DaTypes
  <2>2. dataStores' = [dataStores EXCEPT ![t.id].number = number]
    BY <1>2, Zenon DEF confirmData
  <2>3. dataStores' \in Seq(Stores) /\ DOMAIN dataStores' = DOMAIN dataStores
    <3>1. dataStores[t.id] \in Stores
      BY <2>1 DEF DaTypes
    <3>2. [dataStores[t.id] EXCEPT !.number = number] \in Stores
      BY <2>1, <3>1 DEF Stores
    <3>3. dataStores' = [dataStores EXCEPT ![t.id] = [dataStores[t.id] EXCEPT !.number = number]]
      BY <2>2, Zenon
    <3> HIDE DEF number
    <3>4. QED
      BY <2>1, <3>2, <3>3 DEF DaTypes
  <2>4. rollupStores' = [i \in DOMAIN rollupStores \cup {number} |->
            IF i = number THEN [origin |-> origin, dataStoreId |-> t.id] ELSE rollupStores[i]]
    BY <1>2, Zenon DEF confirmData
  <2>5. /\ DOMAIN rollupStores' \subseteq Nat
        /\ \A i \in DOMAIN rollupStores' : rollupStores'[i].dataStoreId \in DOMAIN dataStores'
    <3> HIDE DEF number, origin
    <3> QED
      BY <2>1, <2>3, <2>4, Zenon DEF DaTypes
  <2>6. rollupBatchIndex' \in Nat /\ l2ConfirmedBlockNumber' \in Nat
    BY <1>2, <2>1 DEF confirmData, confirmedEnd, DaTypes
  <2>7. QED
    BY <1>2, <2>3, <2>5, <2>6, Zenon DEF confirmData, DaTypes
<1>3. CASE mine
  BY <1>1, <1>2, <1>3, Zenon DEF mine, Owned, WorkerTypes
<1>4. CASE operatorReset
  <2>1. PICK i \in 0 .. rollupBatchIndex - 1 :
          LET end == IF i = 0 THEN 0 ELSE storeOf(i - 1).end
          IN  /\ i > 0 => i - 1 \in DOMAIN rollupStores
              /\ resetRollupBatchData(i, end, end)
    BY <1>4, Zenon DEF operatorReset
  <2>2. (IF i = 0 THEN 0 ELSE storeOf(i - 1).end) \in Nat
    BY <2>1, StoreTypes
  <2>3. /\ rollupStores' = [k \in {k \in DOMAIN rollupStores : k < i \/ k >= rollupBatchIndex}
                             |-> rollupStores[k]]
        /\ rollupBatchIndex' = i /\ UNCHANGED <<dataStores, reRollupBatchIndex>>
        /\ l2ConfirmedBlockNumber' = IF i = 0 THEN 0 ELSE storeOf(i - 1).end
    <3> DEFINE end == IF i = 0 THEN 0 ELSE storeOf(i - 1).end
    <3>1. resetRollupBatchData(i, end, end)
      BY <2>1, Zenon
    <3> HIDE DEF end
    <3>2. /\ rollupStores' = [k \in {k \in DOMAIN rollupStores : k < i \/ k >= rollupBatchIndex}
                              |-> rollupStores[k]]
          /\ rollupBatchIndex' = i /\ UNCHANGED <<dataStores, reRollupBatchIndex>>
          /\ l2ConfirmedBlockNumber' = end
      BY <3>1, Zenon DEF resetRollupBatchData
    <3>3. QED
      BY <3>2, Zenon DEF end
  <2>4. /\ DOMAIN rollupStores' \subseteq DOMAIN rollupStores
        /\ \A k \in DOMAIN rollupStores' : rollupStores'[k] = rollupStores[k]
    BY <2>3, Zenon
  <2>5. QED
    BY <2>2, <2>3, <2>4 DEF DaTypes
<1>5. CASE reSubmit
  BY <1>5 DEF reSubmit, submitReRollUpInfo, DaTypes
<1>6. ASSUME UNCHANGED daVars
      PROVE  DaTypes'
  BY <1>6, Zenon DEF daVars, DaTypes
<1>7. CASE MainWorker
  BY <1>6, <1>7, ZenonT(30) DEF MainWorker, GetBatchBlockRange, DisperseStoreData, storeReturns,
                    ConfirmStoredData, mainConfirmed
<1>8. CASE CheckConfirmedWorker
  BY <1>6, <1>8, ZenonT(30) DEF CheckConfirmedWorker, checkerTick, readEntry, DisperseStoreData,
                    storeReturns, ConfirmStoredData, checkerConfirmed
<1>9. CASE \/ FeeWorker \/ \E w \in Workers : sendFails(w)
           \/ newBlock \/ mineReverted \/ crash \/ UNCHANGED vars
  BY <1>6, <1>9, Zenon DEF FeeWorker, feeTick, FeeCh, sendFails, newBlock, mineReverted, crash, vars
<1>10. QED
  BY <1>3, <1>4, <1>5, <1>7, <1>8, <1>9, Zenon DEF Next

LEMMA WorkerTypesStep ==
    ASSUME Counting, WorkerTypes, DaTypes, Owned, EntryInv, [Next]_vars
    PROVE  WorkerTypes'
<1> DEFINE PcJob == pc' \in [Workers -> Labels] /\ job' \in [Workers -> Jobs]
<1>1. ASSUME NEW w \in Workers, NEW l \in Labels, goto(w, l), UNCHANGED job
      PROVE  PcJob
  BY <1>1, Zenon DEF goto, WorkerTypes
<1>2. NoJob \in Jobs
  BY Zenon DEF NoJob, Jobs
<1>3. CASE GetBatchBlockRange
  <2> DEFINE start == l2ConfirmedBlockNumber
             end == Smaller(start + BlockOffset, latest)
  <2>1. start \in Nat /\ end \in Nat
    BY MtBatcherConstants DEF Smaller, DaTypes, WorkerTypes
  <2>2. [NoJob EXCEPT !.start = start, !.end = end] \in Jobs
    BY <1>2, <2>1, ZenonT(30) DEF Jobs
  <2>3. PcJob
    BY <1>3, <2>2, Zenon DEF GetBatchBlockRange, goto, WorkerTypes, Workers, Labels
  <2>4. QED
    BY <1>3, <2>3, Zenon DEF GetBatchBlockRange, WorkerTypes, counters, history
<1>4. ASSUME NEW w \in Workers, DisperseStoreData(w)
      PROVE  WorkerTypes'
  <2>1. job[w] \in Jobs
    BY Zenon DEF WorkerTypes
  <2>2. job[w].start \in Nat /\ job[w].end \in Nat
    BY <2>1, Zenon DEF Jobs
  <2>3. PICK unread \in SUBSET (job[w].start .. job[w].end - 1) :
          LET end == aggregatedEnd(job[w].start, job[w].end, unread)
              data == dataBelow(job[w].start, job[w].end, unread)
              t == [job[w] EXCEPT !.end = end, !.data = data]
          IN  /\ troubles + Cardinality(unread) + race <= MaxTroubles
              /\ readFails' = readFails + Cardinality(unread)
              /\ \/ /\ storable(t)
                    /\ job' = [job EXCEPT ![w] = t]
                    /\ publish(transaction("store", w, t))
                    /\ goto(w, "storing")
                    /\ UNCHANGED <<entry, upTo, dbIndex, failed, faults>>
                 \/ unread = {} /\ fault /\ roundFails(w) /\ UNCHANGED <<mempool, races>>
    BY <1>4, ZenonT(30) DEF DisperseStoreData
  <2>4. readFails' \in Nat
    <3>1. job[w].start \in Int /\ job[w].end - 1 \in Int
      BY <2>2
    <3>2. Cardinality(unread) \in Nat
      BY <2>3, <3>1, ZenonT(30) DEF Counting
    <3>3. QED
      BY <2>3, <3>2 DEF WorkerTypes
  <2> DEFINE end == aggregatedEnd(job[w].start, job[w].end, unread)
             data == dataBelow(job[w].start, job[w].end, unread)
             t == [job[w] EXCEPT !.end = end, !.data = data]
  <2>5. t \in Jobs
    <3>1. end \in Nat /\ data \in SUBSET Nat
      BY <2>2, AggregatedTypes, Zenon
    <3> HIDE DEF end, data
    <3>2. QED
      BY <2>1, <3>1, ZenonT(30) DEF Jobs
  <2>6. latest' = latest /\ result' = result /\ staleReset' = staleReset
    BY <1>4, Zenon DEF DisperseStoreData
  <2>7. CASE /\ job' = [job EXCEPT ![w] = t]
             /\ publish(transaction("store", w, t))
             /\ goto(w, "storing")
             /\ UNCHANGED faults
    <3> HIDE DEF t
    <3>1. PcJob
      BY <2>5, <2>7, Zenon DEF goto, WorkerTypes, Labels
    <3>2. mempool' \in SUBSET Transactions
      BY <2>5, <2>7, TransactionType, Zenon DEF publish, WorkerTypes
    <3>3. QED
      BY <2>4, <2>6, <2>7, <3>1, <3>2, Zenon DEF WorkerTypes
  <2>8. CASE fault /\ roundFails(w) /\ UNCHANGED mempool
    BY <2>4, <2>6, <2>8, RoundTypes DEF fault, WorkerTypes
  <2>9. QED
    BY <2>3, <2>7, <2>8, Zenon
<1>5. ASSUME NEW w \in Workers, storeReturns(w)
      PROVE  WorkerTypes'
  <2>1. PcJob
    BY <1>1, <1>5, RoundTypes, Zenon DEF storeReturns, Labels
  <2>2. QED
    BY <1>5, <2>1, ZenonT(30) DEF storeReturns, WorkerTypes, counters
<1>6. ASSUME NEW w \in Workers, ConfirmStoredData(w)
      PROVE  WorkerTypes'
  <2>1. PcJob
    BY <1>1, <1>6, RoundTypes, Zenon DEF ConfirmStoredData, Labels
  <2>2. mempool' \in SUBSET Transactions
    BY <1>6, TransactionType DEF ConfirmStoredData, publish, WorkerTypes
  <2>3. faults' \in Nat
    BY <1>6 DEF ConfirmStoredData, fault, WorkerTypes
  <2>4. QED
    BY <1>6, <2>1, <2>2, <2>3, Zenon DEF ConfirmStoredData, WorkerTypes
<1>7. CASE mainConfirmed
  <2>1. mainFails => roundFails("main")
    BY Zenon DEF roundFails
  <2>2. PcJob
    BY <1>1, <1>7, <2>1, RoundTypes, Zenon DEF mainConfirmed, Labels, Workers
  <2>3. QED
    BY <1>7, <2>2, ZenonT(30) DEF mainConfirmed, WorkerTypes, counters
<1>8. CASE checkerTick
  <2>1. PcJob
    BY <1>1, <1>8, Zenon DEF checkerTick, Labels, Workers
  <2>2. QED
    BY <1>8, <2>1, Zenon DEF checkerTick, WorkerTypes, history
<1>9. CASE readEntry
  <2> DEFINE i == reRollupBatchIndex[entry + 1]
  <2>1. CASE /\ i \in DOMAIN rollupStores
             /\ job' = [job EXCEPT !["checker"] =
                    [NoJob EXCEPT !.start = storeOf(i).start, !.end = storeOf(i).end,
                                  !.origin = rollupStores[i].dataStoreId, !.batchIndex = i]]
             /\ goto("checker", "range")
             /\ UNCHANGED faults
    <3>1. i \in Nat /\ rollupStores[i].dataStoreId \in Nat
      BY <2>1 DEF DaTypes
    <3>2. storeOf(i).start \in Nat /\ storeOf(i).end \in Nat
      BY <2>1, StoreTypes, Zenon
    <3> DEFINE j == [NoJob EXCEPT !.start = storeOf(i).start, !.end = storeOf(i).end,
                                  !.origin = rollupStores[i].dataStoreId, !.batchIndex = i]
    <3>3. j \in Jobs
      <4> HIDE DEF i
      <4> QED
        BY <1>2, <3>1, <3>2, ZenonT(30) DEF Jobs
    <3> HIDE DEF j
    <3>4. job' = [job EXCEPT !["checker"] = j]
      BY <2>1, Zenon DEF j
    <3>5. PcJob
      BY <2>1, <3>3, <3>4 DEF goto, WorkerTypes, Workers, Labels
    <3>6. QED
      BY <1>9, <2>1, <3>5, Zenon DEF readEntry, WorkerTypes
  <2>2. CASE entryDone /\ UNCHANGED faults
    BY <1>9, <2>2, RoundTypes, Zenon DEF readEntry, entryDone, WorkerTypes
  <2>3. CASE fault /\ checkerFails
    BY <1>9, <2>3, RoundTypes DEF readEntry, fault, checkerFails, WorkerTypes
  <2>4. QED
    BY <1>9, <2>1, <2>2, <2>3, Zenon DEF readEntry
<1>10. CASE checkerConfirmed
  <2>1. PcJob
    BY <1>10, RoundTypes, Zenon DEF checkerConfirmed, entryDone, checkerFails
  <2>2. QED
    BY <1>10, <2>1, ZenonT(30) DEF checkerConfirmed, WorkerTypes, counters
<1>11. CASE FeeCh
  BY <1>2, <1>11, Zenon DEF FeeCh, goto, WorkerTypes, counters, history, Labels, Workers
<1>12. \A t \in Transactions : [t EXCEPT !.from = "nobody"] \in Transactions
  BY Zenon DEF Transactions
<1>13. ASSUME NEW w \in Workers, sendFails(w)
       PROVE  WorkerTypes'
  <2>1. PcJob
    BY <1>13, RoundTypes, Zenon DEF sendFails
  <2>2. mempool' \in SUBSET Transactions
    BY <1>12, <1>13, Zenon DEF sendFails, abandon, WorkerTypes
  <2>3. QED
    BY <1>13, <2>1, <2>2 DEF sendFails, fault, WorkerTypes
<1>14. CASE crash
  <2>1. PcJob
    BY <1>2, <1>14, Zenon DEF crash, Labels
  <2>2. mempool' \in SUBSET Transactions
    BY <1>12, <1>14, Zenon DEF crash, WorkerTypes
  <2>3. result' \in [Workers -> {"none", "mined", "reverted", "spent"}]
    BY <1>14, Zenon DEF crash
  <2>4. QED
    BY <1>14, <2>1, <2>2, <2>3 DEF crash, fault, WorkerTypes
<1>15. ASSUME NEW w, NEW how \in {"mined", "reverted"}, spend(w, how)
       PROVE  result' \in [Workers -> {"none", "mined", "reverted", "spent"}]
  BY <1>15, Zenon DEF spend, WorkerTypes
<1>16. CASE mine
  <2>1. PICK t \in mempool :
          /\ \/ /\ storeData(t)
                /\ job' = IF t.from \in Workers
                          THEN [job EXCEPT ![t.from].id = Len(dataStores) + 1] ELSE job
             \/ UNCHANGED job
          /\ spend(t.from, "mined")
          /\ mempool' = {}
          /\ UNCHANGED <<latest, pc, counters, history>>
    BY <1>16, ZenonT(30) DEF mine
  <2>2. job' \in [Workers -> Jobs]
    <3>1. Len(dataStores) + 1 \in Nat
      BY DEF DaTypes
    <3>2. \A j \in Jobs : [j EXCEPT !.id = Len(dataStores) + 1] \in Jobs
      BY <3>1, Zenon DEF Jobs
    <3>3. t.from \in Workers => job[t.from] \in Jobs
      BY Zenon DEF WorkerTypes
    <3>4. t.from \in Workers =>
            [job EXCEPT ![t.from].id = Len(dataStores) + 1]
            = [job EXCEPT ![t.from] = [job[t.from] EXCEPT !.id = Len(dataStores) + 1]]
      BY Zenon DEF WorkerTypes
    <3>5. QED
      BY <2>1, <3>2, <3>3, <3>4 DEF WorkerTypes
  <2>3. QED
    BY <1>15, <2>1, <2>2, Zenon DEF WorkerTypes, counters, history
<1>17. CASE mineReverted
  BY <1>15, <1>17, Zenon DEF mineReverted, WorkerTypes, history
<1>18. CASE operatorReset
  BY <1>15, <1>18, Zenon DEF operatorReset, WorkerTypes
<1>19. CASE feeTick \/ newBlock \/ reSubmit \/ UNCHANGED vars
  BY <1>19 DEF feeTick, newBlock, reSubmit, vars, workers, counters, history, WorkerTypes
<1>20. QED
  BY <1>3, <1>4, <1>5, <1>6, <1>7, <1>8, <1>9, <1>10, <1>11, <1>13, <1>14, <1>16, <1>17,
     <1>18, <1>19, Zenon DEF Next, MainWorker, CheckConfirmedWorker, FeeWorker, Workers

-----------------------------------------------------------------------------
\* Who owns a transaction.

\* The end of a round is about one worker.
LEMMA RoundEnds ==
    ASSUME WorkerTypes
    PROVE  /\ nextEntry => /\ pc'["checker"] \in {"idle", "entry"}
                           /\ pc'["main"] = pc["main"] /\ job'["main"] = job["main"]
           /\ mainFails => /\ pc'["main"] = "idle"
                           /\ pc'["checker"] = pc["checker"] /\ job'["checker"] = job["checker"]
           /\ \A w \in Workers : roundFails(w) =>
                /\ pc'[w] \in {"idle", "entry"}
                /\ \A v \in Workers \ {w} : pc'[v] = pc[v] /\ job'[v] = job[v]
<1>1. nextEntry => /\ pc'["checker"] \in {"idle", "entry"}
                   /\ pc'["main"] = pc["main"] /\ job'["main"] = job["main"]
  BY Zenon DEF nextEntry, goto, WorkerTypes, Workers
<1>2. mainFails => /\ pc'["main"] = "idle"
                   /\ pc'["checker"] = pc["checker"] /\ job'["checker"] = job["checker"]
  BY Zenon DEF mainFails, goto, WorkerTypes, Workers
<1>3. QED
  BY <1>1, <1>2, Zenon DEF roundFails, checkerFails, Workers

\* One worker takes a step that is not the end of a wait.
LEMMA OwnedAlone ==
    ASSUME WorkerTypes, Owned, NEW w \in Workers,
           \A t \in mempool : t.from # w,
           pc'[w] \notin {"storing", "confirming"},
           \A v \in Workers \ {w} : pc'[v] = pc[v] /\ job'[v] = job[v] /\ result'[v] = result[v],
           result'[w] = "none", UNCHANGED <<dataStores, mempool>>,
           faults' \in Nat, faults <= faults'
    PROVE  Owned'
BY DEF Owned, WorkerTypes, confirmable

\* Its transaction enters the mempool.
LEMMA OwnedPublished ==
    ASSUME WorkerTypes, Owned, NEW w \in Workers, NEW t \in Transactions,
           \A u \in mempool : u.from # w,
           mempool' = mempool \cup {t},
           t.from = w, t.isReRollup = (w = "checker"), t.start = job'[w].start,
           t.kind = "confirm" => confirmable(t),
           pc'[w] = IF t.kind = "store" THEN "storing" ELSE "confirming",
           \A v \in Workers \ {w} : pc'[v] = pc[v] /\ job'[v] = job[v],
           result[w] = "none", UNCHANGED <<result, dataStores, faults>>
    PROVE  Owned'
<1>1. \A v \in Workers : result'[v] # "none" => pc'[v] \in {"storing", "confirming"}
  BY Zenon DEF Owned
<1>2. ASSUME NEW u \in mempool
      PROVE  /\ u.from \in Workers =>
                  /\ result'[u.from] = "none"
                  /\ pc'[u.from] = IF u.kind = "store" THEN "storing" ELSE "confirming"
                  /\ u.isReRollup = (u.from = "checker")
                  /\ u.start = job'[u.from].start
             /\ faults' = 0 => u.from \in Workers
             /\ u.kind = "confirm" => confirmable(u)'
  BY DEF Owned, confirmable
<1>3. t.kind = "confirm" => confirmable(t)'
  BY Zenon DEF confirmable
<1>4. QED
  BY <1>1, <1>2, <1>3 DEF Owned, confirmable

LEMMA OwnedStep ==
    ASSUME WorkerTypes, WorkerTypes', Owned, [Next]_vars
    PROVE  Owned'
<1>1. ASSUME NEW w \in Workers, pc[w] \notin {"storing", "confirming"}
      PROVE  result[w] = "none" /\ \A t \in mempool : t.from # w
  BY <1>1, Zenon DEF Owned
<1>2. ASSUME NEW w \in Workers, result[w] # "none"
      PROVE  \A t \in mempool : t.from # w
  BY <1>2, Zenon DEF Owned
<1>3. ASSUME NEW w \in Workers, NEW l, goto(w, l)
      PROVE  pc'[w] = l /\ \A v \in Workers \ {w} : pc'[v] = pc[v]
  BY <1>3, Zenon DEF goto, WorkerTypes
<1>4. CASE GetBatchBlockRange
  BY <1>1, <1>3, <1>4, OwnedAlone DEF GetBatchBlockRange, WorkerTypes, Workers, daVars, counters
<1>5. ASSUME NEW w \in Workers, DisperseStoreData(w)
      PROVE  Owned'
  <2>1. /\ pc[w] = "range" /\ UNCHANGED <<result, dataStores>>
        /\ \/ \E t \in Jobs : /\ job' = [job EXCEPT ![w] = t]
                              /\ publish(transaction("store", w, t))
                              /\ goto(w, "storing")
                              /\ UNCHANGED faults
           \/ fault /\ roundFails(w) /\ UNCHANGED mempool
    <3>1. \A t : job' = [job EXCEPT ![w] = t] => t \in Jobs
      BY DEF WorkerTypes
    <3>2. QED
      BY <1>5, <3>1, Zenon DEF DisperseStoreData, daVars
  <2>2. CASE fault /\ roundFails(w) /\ UNCHANGED mempool
    BY <1>1, <2>1, <2>2, RoundEnds, OwnedAlone DEF fault, WorkerTypes
  <2>3. CASE \E t \in Jobs : /\ job' = [job EXCEPT ![w] = t]
                             /\ publish(transaction("store", w, t))
                             /\ goto(w, "storing")
                             /\ UNCHANGED faults
    <3>1. PICK j \in Jobs : /\ job' = [job EXCEPT ![w] = j]
                            /\ publish(transaction("store", w, j))
                            /\ goto(w, "storing")
                            /\ UNCHANGED faults
      BY <2>3, ZenonT(30)
    <3> DEFINE t == transaction("store", w, j)
    <3>2. /\ t \in Transactions /\ t.from = w /\ t.isReRollup = (w = "checker")
          /\ t.start = j.start /\ t.kind = "store"
      BY TransactionType, Zenon DEF transaction
    <3>3. job'[w] = j /\ \A v \in Workers \ {w} : job'[v] = job[v]
      BY <3>1, Zenon DEF WorkerTypes
    <3>4. mempool' = mempool \cup {t}
      BY <3>1, Zenon DEF publish
    <3> HIDE DEF t
    <3>5. QED
      BY <1>1, <1>3, <2>1, <3>1, <3>2, <3>3, <3>4, OwnedPublished
  <2>4. QED
    BY <2>1, <2>2, <2>3, Zenon
<1>6. ASSUME NEW w \in Workers, storeReturns(w)
      PROVE  Owned'
  <2>1. /\ result[w] # "none" /\ result' = [result EXCEPT ![w] = "none"]
        /\ UNCHANGED <<dataStores, mempool, faults>>
        /\ (goto(w, "stored") /\ UNCHANGED job) \/ roundFails(w)
    BY <1>6, ZenonT(30) DEF storeReturns, daVars, counters
  <2>2. /\ pc'[w] \in {"idle", "entry", "stored"}
        /\ \A v \in Workers \ {w} : pc'[v] = pc[v] /\ job'[v] = job[v]
    BY <1>3, <2>1, RoundEnds, Zenon
  <2>3. QED
    BY <1>2, <2>1, <2>2, OwnedAlone DEF WorkerTypes
<1>7. ASSUME NEW w \in Workers, ConfirmStoredData(w)
      PROVE  Owned'
  <2>1. pc[w] = "stored" /\ UNCHANGED <<result, dataStores>>
    BY <1>7, Zenon DEF ConfirmStoredData, daVars
  <2>2. CASE fault /\ roundFails(w) /\ UNCHANGED mempool
    BY <1>1, <2>1, <2>2, RoundEnds, OwnedAlone DEF fault, WorkerTypes
  <2>3. CASE /\ confirmable(transaction("confirm", w, job[w]))
             /\ publish(transaction("confirm", w, job[w]))
             /\ goto(w, "confirming")
             /\ UNCHANGED <<job, faults>>
    <3> DEFINE t == transaction("confirm", w, job[w])
    <3>1. job[w] \in Jobs
      BY Zenon DEF WorkerTypes
    <3>2. /\ t \in Transactions /\ t.from = w /\ t.isReRollup = (w = "checker")
          /\ t.start = job[w].start /\ t.kind = "confirm"
      BY <3>1, TransactionType, Zenon DEF transaction
    <3>3. mempool' = mempool \cup {t} /\ confirmable(t)
      BY <2>3, Zenon DEF publish
    <3> HIDE DEF t
    <3>4. QED
      BY <1>1, <1>3, <2>1, <2>3, <3>2, <3>3, OwnedPublished
  <2>4. QED
    BY <1>7, <2>2, <2>3, Zenon DEF ConfirmStoredData
<1>8. CASE mainConfirmed
  <2>1. /\ result["main"] # "none" /\ result' = [result EXCEPT !["main"] = "none"]
        /\ UNCHANGED <<dataStores, mempool, faults>>
        /\ (goto("main", "fee") /\ UNCHANGED job) \/ mainFails
    BY <1>8, Zenon DEF mainConfirmed, daVars, counters
  <2>2. /\ pc'["main"] \in {"idle", "fee"}
        /\ \A v \in Workers \ {"main"} : pc'[v] = pc[v] /\ job'[v] = job[v]
    BY <1>3, <2>1, RoundEnds, Zenon DEF Workers
  <2>3. QED
    BY <1>2, <2>1, <2>2, OwnedAlone DEF WorkerTypes, Workers
<1>9. CASE checkerTick
  BY <1>1, <1>3, <1>9, OwnedAlone DEF checkerTick, WorkerTypes, Workers, daVars
<1>10. CASE readEntry
  <2>1. /\ pc["checker"] = "entry" /\ UNCHANGED <<result, dataStores, mempool>>
        /\ \/ \E j : job' = [job EXCEPT !["checker"] = j] /\ goto("checker", "range")
           \/ nextEntry
        /\ UNCHANGED faults \/ faults' = faults + 1
    BY <1>10, Zenon DEF readEntry, daVars, entryDone, checkerFails, fault
  <2>2. /\ pc'["checker"] \in {"range", "idle", "entry"}
        /\ \A v \in Workers \ {"checker"} : pc'[v] = pc[v] /\ job'[v] = job[v]
    BY <1>3, <2>1, RoundEnds, Zenon DEF Workers, WorkerTypes
  <2>3. faults' \in Nat /\ faults <= faults'
    BY <2>1 DEF WorkerTypes
  <2>4. QED
    BY <1>1, <2>1, <2>2, <2>3, OwnedAlone, Zenon DEF Workers
<1>11. CASE checkerConfirmed
  <2>1. /\ result["checker"] # "none" /\ result' = [result EXCEPT !["checker"] = "none"]
        /\ UNCHANGED <<dataStores, mempool, faults>> /\ nextEntry
    BY <1>11, Zenon DEF checkerConfirmed, daVars, counters, entryDone, checkerFails
  <2>2. /\ pc'["checker"] \in {"idle", "entry"}
        /\ \A v \in Workers \ {"checker"} : pc'[v] = pc[v] /\ job'[v] = job[v]
    BY <2>1, RoundEnds, Zenon DEF Workers
  <2>3. QED
    BY <1>2, <2>1, <2>2, OwnedAlone DEF WorkerTypes, Workers
<1>12. CASE FeeCh
  BY <1>1, <1>3, <1>12, OwnedAlone DEF FeeCh, WorkerTypes, Workers, daVars, counters
<1>13. ASSUME NEW w \in Workers, sendFails(w)
       PROVE  Owned'
  <2>1. /\ result[w] = "none" /\ UNCHANGED <<result, dataStores>>
        /\ faults' = faults + 1 /\ mempool' = abandon(w) /\ roundFails(w)
    BY <1>13, Zenon DEF sendFails, fault, daVars
  <2>2. /\ pc'[w] \in {"idle", "entry"}
        /\ \A v \in Workers \ {w} : pc'[v] = pc[v] /\ job'[v] = job[v]
    BY <2>1, RoundEnds, ZenonT(30)
  <2>3. faults' # 0
    BY <2>1 DEF WorkerTypes
  <2>4. \A v \in Workers : result'[v] # "none" => pc'[v] \in {"storing", "confirming"}
    BY <2>1, <2>2, Zenon DEF Owned
  <2>5. ASSUME NEW u \in mempool'
        PROVE  /\ u.from \in Workers =>
                    /\ result'[u.from] = "none"
                    /\ pc'[u.from] = IF u.kind = "store" THEN "storing" ELSE "confirming"
                    /\ u.isReRollup = (u.from = "checker")
                    /\ u.start = job'[u.from].start
               /\ u.kind = "confirm" => confirmable(u)'
    <3>1. PICK t \in mempool : u = IF t.from = w THEN [t EXCEPT !.from = "nobody"] ELSE t
      BY <2>1, Zenon DEF abandon
    <3>2. t \in Transactions
      BY Zenon DEF WorkerTypes
    <3>3. CASE t.from = w
      <4>1. /\ u.from = "nobody" /\ u.kind = t.kind /\ u.start = t.start /\ u.end = t.end
            /\ u.id = t.id /\ u.isReRollup = t.isReRollup
        BY <3>1, <3>2, <3>3, Zenon DEF Transactions
      <4>2. QED
        BY <2>1, <4>1 DEF Owned, confirmable, Workers
    <3>4. CASE t.from # w
      BY <2>1, <2>2, <3>1, <3>4 DEF Owned, confirmable
    <3>5. QED
      BY <3>3, <3>4, Zenon
  <2>6. QED
    BY <2>3, <2>4, <2>5, Zenon DEF Owned, confirmable
<1>14. CASE crash
  <2>1. /\ result' = [v \in Workers |-> "none"] /\ UNCHANGED dataStores
        /\ faults' = faults + 1 /\ mempool' = {[t EXCEPT !.from = "nobody"] : t \in mempool}
    BY <1>14, Zenon DEF crash, fault, daVars
  <2>2. faults' # 0
    BY <2>1 DEF WorkerTypes
  <2>3. ASSUME NEW u \in mempool'
        PROVE  u.from \notin Workers /\ (u.kind = "confirm" => confirmable(u)')
    <3>1. PICK t \in mempool : u = [t EXCEPT !.from = "nobody"]
      BY <2>1, Zenon
    <3>2. t \in Transactions
      BY Zenon DEF WorkerTypes
    <3>3. /\ u.from = "nobody" /\ u.kind = t.kind /\ u.start = t.start /\ u.end = t.end
          /\ u.id = t.id /\ u.isReRollup = t.isReRollup
      BY <3>1, <3>2, Zenon DEF Transactions
    <3>4. QED
      BY <2>1, <3>3 DEF Owned, confirmable, Workers
  <2>4. QED
    BY <2>1, <2>2, <2>3, Zenon DEF Owned, confirmable
<1>15. ASSUME NEW w, NEW how, spend(w, how), w \in Workers => pc[w] \in {"storing", "confirming"},
              pc' = pc, mempool' = {}
       PROVE  Owned'
  BY <1>15, Zenon DEF Owned, spend
<1>16. CASE mine \/ mineReverted
  BY <1>15, <1>16, ZenonT(30) DEF mine, mineReverted, Owned
<1>17. CASE operatorReset
  BY <1>15, <1>17, Zenon DEF operatorReset, Workers
<1>18. CASE feeTick \/ newBlock \/ reSubmit \/ UNCHANGED vars
  BY <1>18 DEF feeTick, newBlock, reSubmit, submitReRollUpInfo, vars, workers, counters, daVars,
               Owned, confirmable
<1>19. QED
  BY <1>4, <1>5, <1>6, <1>7, <1>8, <1>9, <1>10, <1>11, <1>12, <1>13, <1>14, <1>16, <1>17,
     <1>18, Zenon DEF Next, MainWorker, CheckConfirmedWorker, FeeWorker, Workers

-----------------------------------------------------------------------------
\* The data.

\* Blocks that were not read and resets in a round are not forgotten.
LEMMA UndisturbedBefore ==
    ASSUME Counting, WorkerTypes, WorkerTypes', [Next]_vars, Undisturbed'
    PROVE  Undisturbed
<1>1. readFails \in Nat /\ readFails' = 0 /\ ~staleReset'
  BY Zenon DEF WorkerTypes, Undisturbed
<1>2. ASSUME NEW w \in Workers, DisperseStoreData(w)
      PROVE  readFails = 0 /\ UNCHANGED staleReset
  <2>1. PICK unread \in SUBSET (job[w].start .. job[w].end - 1) :
          readFails' = readFails + Cardinality(unread)
    BY <1>2, Zenon DEF DisperseStoreData
  <2>2. job[w].start \in Int /\ job[w].end - 1 \in Int
    BY DEF WorkerTypes, Jobs
  <2>3. Cardinality(unread) \in Nat
    BY <2>1, <2>2, ZenonT(30) DEF Counting
  <2>4. QED
    BY <1>1, <1>2, <2>1, <2>3 DEF DisperseStoreData
<1>3. CASE MainWorker
  BY <1>1, <1>2, <1>3
     DEF MainWorker, Workers, GetBatchBlockRange, storeReturns, ConfirmStoredData,
         mainConfirmed, counters, history, Undisturbed
<1>4. CASE CheckConfirmedWorker
  BY <1>1, <1>2, <1>4
     DEF CheckConfirmedWorker, Workers, checkerTick, readEntry, storeReturns,
         ConfirmStoredData, checkerConfirmed, counters, history, Undisturbed
<1>5. CASE FeeWorker \/ newBlock \/ reSubmit \/ UNCHANGED vars
  BY <1>1, <1>5 DEF FeeWorker, feeTick, FeeCh, newBlock, reSubmit, vars, counters, history,
                    Undisturbed
<1>6. CASE mine \/ mineReverted \/ (\E w \in Workers : sendFails(w)) \/ crash
  <2>1. UNCHANGED <<readFails, staleReset>>
    BY <1>6, ZenonT(30) DEF mine, mineReverted, sendFails, crash, counters, history
  <2>2. QED
    BY <1>1, <2>1, Zenon DEF Undisturbed
<1>7. CASE operatorReset
  <2>1. UNCHANGED readFails /\ (staleReset => staleReset')
    BY <1>7, ZenonT(30) DEF operatorReset
  <2>2. QED
    BY <1>1, <2>1, Zenon DEF Undisturbed
<1>8. QED
  BY <1>3, <1>4, <1>5, <1>6, <1>7, Zenon DEF Next

Contract == <<dataStores, rollupStores, rollupBatchIndex, l2ConfirmedBlockNumber>>

SameRange(r, s) ==
    r.start = s.start /\ r.end = s.end /\ r.data = s.data /\ r.batchIndex = s.batchIndex

\* Steps that neither mine a transaction, nor take or publish a range.
LEMMA DataKept ==
    ASSUME WorkerTypes, WorkerTypes', DaTypes, DataInv, UNCHANGED Contract, latest <= latest',
           \A u \in mempool' : \E t \in mempool : SameRange(u, t) /\ u.isReRollup = t.isReRollup,
           \A w \in Workers : pc'[w] \in Busy =>
               /\ pc[w] \in Busy /\ (pc[w] = "range" => pc'[w] = "range")
               /\ SameRange(job'[w], job[w])
    PROVE  DataInv'
<1> USE DEF Contract
<1>1. ContractInv'
  <2>1. /\ dataStores' = dataStores /\ rollupStores' = rollupStores
        /\ rollupBatchIndex' = rollupBatchIndex
        /\ l2ConfirmedBlockNumber' = l2ConfirmedBlockNumber
    BY Zenon
  <2>2. ContractInv
    BY Zenon DEF DataInv
  <2>3. QED
    BY <2>1, <2>2, ZenonT(30) DEF ContractInv, endOf, storeOf, Full
<1>2. latest \in Nat /\ latest' \in Nat
  BY Zenon DEF WorkerTypes
<1>3. ASSUME NEW u \in mempool'
      PROVE  Full(u) /\ IF u.isReRollup THEN BatchRange(u)' ELSE NewRange(u)'
  <2>1. PICK t \in mempool : SameRange(u, t) /\ u.isReRollup = t.isReRollup
    BY Zenon
  <2>2. Full(t) /\ IF t.isReRollup THEN BatchRange(t) ELSE NewRange(t)
    BY Zenon DEF DataInv, MempoolInv
  <2>3. t.end \in Nat
    BY Zenon DEF WorkerTypes, Transactions
  <2>4. QED
    BY <1>2, <2>1, <2>2, <2>3 DEF SameRange, Full, BatchRange, NewRange, storeOf
<1>4. MempoolInv'
  BY <1>3, Zenon DEF MempoolInv, Full, BatchRange, NewRange, storeOf
<1>5. ASSUME pc'["main"] \in Busy
      PROVE  MainInv'
  <2>1. /\ pc["main"] \in Busy /\ (pc["main"] = "range" => pc'["main"] = "range")
        /\ SameRange(job'["main"], job["main"])
    BY <1>5, Zenon DEF Workers
  <2>2. /\ job["main"].start < job["main"].end
        /\ NewRange(job["main"])
        /\ l2ConfirmedBlockNumber <= reach(job["main"])
        /\ \A t \in mempool : ~t.isReRollup => t.end <= reach(job["main"])
        /\ pc["main"] # "range" => Full(job["main"])
    BY <2>1, Zenon DEF DataInv, MainInv
  <2>3. job["main"].end \in Nat
    BY Zenon DEF WorkerTypes, Workers, Jobs
  <2>4. reach(job["main"])' = reach(job["main"])
    BY <2>1, Zenon DEF reach, SameRange
  <2>5. \A t \in mempool' : ~t.isReRollup => t.end <= reach(job["main"])'
    BY <2>2, <2>4 DEF SameRange
  <2>6. NewRange(job["main"])'
    BY <1>2, <2>1, <2>2, <2>3 DEF NewRange, SameRange
  <2>7. pc'["main"] # "range" => Full(job["main"])'
    BY <2>1, <2>2, Zenon DEF Full, SameRange
  <2>8. QED
    BY <2>1, <2>2, <2>4, <2>5, <2>6, <2>7, Zenon DEF MainInv, SameRange
<1>6. ASSUME pc'["checker"] \in Busy
      PROVE  CheckerInv'
  <2>1. /\ pc["checker"] \in Busy /\ (pc["checker"] = "range" => pc'["checker"] = "range")
        /\ SameRange(job'["checker"], job["checker"])
    BY <1>6, Zenon DEF Workers
  <2>2. QED
    BY <2>1, Zenon DEF DataInv, CheckerInv, BatchRange, Full, SameRange, storeOf
<1>7. QED
  BY <1>1, <1>4, <1>5, <1>6, ZenonT(30) DEF DataInv, MainInv, CheckerInv

LEMMA DataQuiet ==
    ASSUME WorkerTypes, WorkerTypes', DaTypes, DataInv,
           \/ \E w \in Workers :
                \/ DisperseStoreData(w) /\ roundFails(w) /\ UNCHANGED mempool
                \/ storeReturns(w)
                \/ ConfirmStoredData(w) /\ roundFails(w) /\ UNCHANGED mempool
                \/ sendFails(w)
           \/ mainConfirmed \/ checkerTick \/ (readEntry /\ nextEntry) \/ checkerConfirmed
           \/ FeeWorker \/ newBlock \/ mineReverted \/ crash \/ reSubmit \/ UNCHANGED vars
    PROVE  DataInv'
<1> DEFINE Same(w) == pc'[w] \in Busy =>
               /\ pc[w] \in Busy /\ (pc[w] = "range" => pc'[w] = "range")
               /\ SameRange(job'[w], job[w])
           Pool == \A u \in mempool' : \E t \in mempool :
                       SameRange(u, t) /\ u.isReRollup = t.isReRollup
<1>1. latest \in Nat
  BY Zenon DEF WorkerTypes
<1>2. ASSUME UNCHANGED Contract, latest <= latest', Pool, \A w \in Workers : Same(w)
      PROVE  DataInv'
  BY <1>2, DataKept, Zenon
<1>3. ASSUME UNCHANGED mempool
      PROVE  Pool
  BY <1>3, Zenon DEF SameRange
<1>4. ASSUME NEW w \in Workers, pc'[w] = pc[w], job'[w] = job[w]
      PROVE  Same(w)
  BY <1>4, ZenonT(30) DEF SameRange
<1>5. ASSUME NEW w \in Workers, pc'[w] \notin Busy
      PROVE  Same(w)
  BY <1>5, Zenon
<1>6. "idle" \notin Busy /\ "entry" \notin Busy /\ "fee" \notin Busy
      /\ "storing" \in Busy /\ "stored" \in Busy
  BY Zenon DEF Busy
<1>7. ASSUME NEW w \in Workers, roundFails(w)
      PROVE  \A v \in Workers : Same(v)
  <2> HIDE DEF Same
  <2> QED
    BY <1>4, <1>5, <1>6, <1>7, RoundEnds
<1>8. ASSUME nextEntry
      PROVE  \A v \in Workers : Same(v)
  <2> HIDE DEF Same
  <2> QED
    BY <1>4, <1>5, <1>6, <1>8, RoundEnds, Zenon DEF Workers
<1>9. ASSUME NEW w \in Workers, NEW l, goto(w, l), l \notin Busy,
             \A v \in Workers \ {w} : job'[v] = job[v]
      PROVE  \A v \in Workers : Same(v)
  <2>1. pc'[w] = l /\ \A v \in Workers \ {w} : pc'[v] = pc[v]
    BY <1>9, Zenon DEF goto, WorkerTypes
  <2> HIDE DEF Same
  <2>2. QED
    BY <1>4, <1>5, <1>9, <2>1, Zenon
<1>10. ASSUME UNCHANGED <<pc, job>>
       PROVE  \A v \in Workers : Same(v)
  BY <1>4, <1>10, Zenon
<1> HIDE DEF Pool
<1>11. ASSUME NEW w \in Workers,
              \/ DisperseStoreData(w) /\ roundFails(w) /\ UNCHANGED mempool
              \/ ConfirmStoredData(w) /\ roundFails(w) /\ UNCHANGED mempool
       PROVE  DataInv'
  <2>1. UNCHANGED Contract /\ latest' = latest
    BY <1>11, ZenonT(30) DEF DisperseStoreData, ConfirmStoredData, daVars, Contract
  <2> HIDE DEF Same
  <2>2. QED
    BY <1>1, <1>2, <1>3, <1>7, <1>11, <2>1
<1>12. ASSUME NEW w \in Workers, storeReturns(w)
       PROVE  DataInv'
  <2>1. UNCHANGED Contract /\ latest' = latest /\ UNCHANGED mempool
    BY <1>12, Zenon DEF storeReturns, daVars, Contract
  <2>2. \A v \in Workers : Same(v)
    <3>1. CASE roundFails(w)
      BY <1>7, <3>1, ZenonT(30)
    <3>2. CASE goto(w, "stored") /\ UNCHANGED job
      <4>1. pc[w] = "storing"
        BY <1>12, Zenon DEF storeReturns
      <4>2. pc'[w] = "stored" /\ \A v \in Workers \ {w} : pc'[v] = pc[v]
        BY <3>2, Zenon DEF goto, WorkerTypes
      <4>3. QED
        BY <1>6, <3>2, <4>1, <4>2, Zenon DEF SameRange
    <3>3. QED
      BY <1>12, <3>1, <3>2, ZenonT(30) DEF storeReturns
  <2> HIDE DEF Same
  <2>3. QED
    BY <1>1, <1>2, <1>3, <2>1, <2>2
<1> HIDE DEF Same
<1>13. ASSUME NEW w \in Workers, sendFails(w)
       PROVE  DataInv'
  <2>1. UNCHANGED Contract /\ latest' = latest /\ mempool' = abandon(w) /\ roundFails(w)
    BY <1>13, Zenon DEF sendFails, daVars, Contract
  <2>2. Pool
    <3>1. \A t \in Transactions :
            /\ SameRange([t EXCEPT !.from = "nobody"], t)
            /\ [t EXCEPT !.from = "nobody"].isReRollup = t.isReRollup
      BY Zenon DEF Transactions, SameRange
    <3>2. ASSUME NEW u \in mempool'
          PROVE  \E t \in mempool : SameRange(u, t) /\ u.isReRollup = t.isReRollup
      <4>1. PICK t \in mempool : u = IF t.from = w THEN [t EXCEPT !.from = "nobody"] ELSE t
        BY <2>1, Zenon DEF abandon
      <4>2. t \in Transactions
        BY Zenon DEF WorkerTypes
      <4>3. SameRange(u, t) /\ u.isReRollup = t.isReRollup
        BY <3>1, <4>1, <4>2, Zenon DEF SameRange
      <4>4. QED
        BY <4>3, Zenon
    <3>3. QED
      BY <3>2, Zenon DEF Pool
  <2>3. QED
    BY <1>1, <1>2, <1>7, <2>1, <2>2
<1>14. CASE mainConfirmed
  <2>1. UNCHANGED Contract /\ latest' = latest /\ UNCHANGED mempool
    BY <1>14, Zenon DEF mainConfirmed, daVars, Contract
  <2>2. \A v \in Workers : Same(v)
    <3>1. "main" \in Workers
      BY Zenon DEF Workers
    <3>2. QED
      BY <1>6, <1>7, <1>9, <1>14, <3>1, Zenon DEF mainConfirmed, roundFails
  <2>3. QED
    BY <1>1, <1>2, <1>3, <2>1, <2>2
<1>15. CASE checkerTick
  <2>1. UNCHANGED Contract /\ latest' = latest /\ UNCHANGED mempool
    BY <1>15, Zenon DEF checkerTick, daVars, Contract
  <2>2. \A v \in Workers : Same(v)
    BY <1>6, <1>9, <1>15, Zenon DEF checkerTick, Workers
  <2>3. QED
    BY <1>1, <1>2, <1>3, <2>1, <2>2
<1>16. CASE (readEntry /\ nextEntry) \/ checkerConfirmed
  <2>1. UNCHANGED Contract /\ latest' = latest /\ UNCHANGED mempool /\ nextEntry
    BY <1>16, Zenon DEF readEntry, checkerConfirmed, entryDone, checkerFails, daVars, Contract
  <2>2. QED
    BY <1>1, <1>2, <1>3, <1>8, <2>1
<1>17. CASE FeeWorker
  <2>1. UNCHANGED Contract /\ latest' = latest /\ UNCHANGED mempool
    BY <1>17, Zenon DEF FeeWorker, feeTick, FeeCh, daVars, Contract
  <2>2. CASE feeTick
    BY <1>1, <1>2, <1>3, <1>10, <2>1, <2>2 DEF feeTick, workers
  <2>3. CASE FeeCh
    <3>1. job'["checker"] = job["checker"]
      BY <2>3, Zenon DEF FeeCh, WorkerTypes, Workers
    <3>2. \A v \in Workers : Same(v)
      BY <1>6, <1>9, <2>3, <3>1, Zenon DEF FeeCh, Workers
    <3>3. QED
      BY <1>1, <1>2, <1>3, <2>1, <3>2
  <2>4. QED
    BY <1>17, <2>2, <2>3, Zenon DEF FeeWorker
<1>18. CASE newBlock
  BY <1>1, <1>2, <1>3, <1>10, <1>18 DEF newBlock, workers, daVars, Contract
<1>19. CASE mineReverted
  <2>1. Pool
    BY <1>19, Zenon DEF mineReverted, Pool
  <2>2. QED
    BY <1>1, <1>2, <1>10, <1>19, <2>1 DEF mineReverted, daVars, Contract
<1>20. CASE crash
  <2>1. Pool
    <3>1. \A t \in Transactions :
            /\ SameRange([t EXCEPT !.from = "nobody"], t)
            /\ [t EXCEPT !.from = "nobody"].isReRollup = t.isReRollup
      BY Zenon DEF Transactions, SameRange
    <3>2. ASSUME NEW u \in mempool'
          PROVE  \E t \in mempool : SameRange(u, t) /\ u.isReRollup = t.isReRollup
      <4>1. PICK t \in mempool : u = [t EXCEPT !.from = "nobody"]
        BY <1>20, Zenon DEF crash
      <4>2. t \in Transactions
        BY Zenon DEF WorkerTypes
      <4>3. SameRange(u, t) /\ u.isReRollup = t.isReRollup
        BY <3>1, <4>1, <4>2, Zenon
      <4>4. QED
        BY <4>3, Zenon
    <3>3. QED
      BY <3>2, Zenon DEF Pool
  <2>2. \A w \in Workers : pc'[w] = "idle"
    BY <1>20, Zenon DEF crash
  <2>3. \A w \in Workers : Same(w)
    BY <1>5, <1>6, <2>2, Zenon
  <2>4. QED
    BY <1>1, <1>2, <1>20, <2>1, <2>3 DEF crash, daVars, Contract
<1>21. CASE reSubmit
  <2>1. UNCHANGED Contract
    BY <1>21, Zenon DEF reSubmit, submitReRollUpInfo, Contract
  <2>2. QED
    BY <1>1, <1>2, <1>3, <1>10, <1>21, <2>1 DEF reSubmit, workers
<1>22. CASE UNCHANGED vars
  BY <1>1, <1>2, <1>3, <1>10, <1>22 DEF vars, workers, daVars, Contract
<1>23. QED
  BY <1>11, <1>12, <1>13, <1>14, <1>15, <1>16, <1>17, <1>18, <1>19, <1>20, <1>21, <1>22, Zenon

LEMMA ContractKept ==
    ASSUME ContractInv, UNCHANGED Contract
    PROVE  ContractInv'
<1>1. /\ dataStores' = dataStores /\ rollupStores' = rollupStores
      /\ rollupBatchIndex' = rollupBatchIndex
      /\ l2ConfirmedBlockNumber' = l2ConfirmedBlockNumber
  BY Zenon DEF Contract
<1>2. QED
  BY <1>1, Zenon DEF ContractInv, endOf, storeOf, Full

\* A range of new blocks is taken.
LEMMA DataRange ==
    ASSUME WorkerTypes, WorkerTypes', DaTypes, DataInv, GetBatchBlockRange
    PROVE  DataInv'
<1> DEFINE start == l2ConfirmedBlockNumber
           end == Smaller(start + BlockOffset, latest)
           j == [NoJob EXCEPT !.start = start, !.end = end]
<1>1. /\ UNCHANGED Contract /\ latest' = latest /\ mempool' = mempool
      /\ enough(end - start)
      /\ job' = [job EXCEPT !["main"] = j] /\ goto("main", "range")
  BY Zenon DEF GetBatchBlockRange, daVars, Contract
<1>2. /\ pc'["main"] = "range" /\ pc'["checker"] = pc["checker"]
      /\ job'["main"] = j /\ job'["checker"] = job["checker"]
  BY <1>1, Zenon DEF goto, WorkerTypes, Workers
<1>3. start \in Nat /\ latest \in Nat /\ end \in Nat /\ j.start = start /\ j.end = end
  <2>1. start \in Nat /\ latest \in Nat
    BY Zenon DEF DaTypes, WorkerTypes
  <2>2. end \in Nat
    BY <2>1, MtBatcherConstants DEF Smaller
  <2>3. j.start = start /\ j.end = end
    BY Zenon DEF NoJob
  <2>4. QED
    BY <2>1, <2>2, <2>3, Zenon
<1>4. start < end /\ end <= latest /\ end <= start + BlockOffset
  BY <1>1, <1>3, MtBatcherConstants DEF enough, Smaller
<1>5. start <= reach(j)
  BY <1>3, <1>4, MtBatcherConstants DEF reach, Smaller
<1>6. ASSUME NEW t \in mempool, ~t.isReRollup
      PROVE  t.end <= reach(j)
  <2>1. t.start \in Nat /\ t.end \in Nat
    BY Zenon DEF WorkerTypes, Transactions
  <2>2. /\ t.start <= start /\ t.end <= latest /\ t.end <= t.start + BlockOffset
        /\ t.end - t.start < RollUpMaxSize
    BY <1>6, Zenon DEF DataInv, MempoolInv, NewRange, Full
  <2>3. t.end <= end /\ t.end <= start + RollUpMaxSize - 1
    BY <1>3, <2>1, <2>2, MtBatcherConstants DEF Smaller
  <2> HIDE DEF start, end
  <2>4. QED
    BY <1>3, <2>1, <2>3, Zenon DEF reach, Smaller
<1> HIDE DEF j, start, end
<1>7. ContractInv'
  BY <1>1, ContractKept, Zenon DEF DataInv
<1>8. MempoolInv'
  BY <1>1 DEF DataInv, MempoolInv, Full, BatchRange, NewRange, Contract, storeOf
<1>9. MainInv'
  <2>1. NewRange(job["main"])'
    BY <1>1, <1>2, <1>3, <1>4 DEF NewRange, Contract, start
  <2>2. reach(job["main"])' = reach(j)
    BY <1>2, Zenon DEF reach
  <2>3. l2ConfirmedBlockNumber' <= reach(job["main"])'
    BY <1>1, <1>5, <2>2, Zenon DEF Contract, start
  <2>4. \A t \in mempool' : ~t.isReRollup => t.end <= reach(job["main"])'
    BY <1>1, <1>6, <2>2, Zenon
  <2>5. QED
    BY <1>2, <1>3, <1>4, <2>1, <2>3, <2>4, Zenon DEF MainInv
<1>10. CheckerInv'
  BY <1>1, <1>2, Zenon DEF DataInv, CheckerInv, BatchRange, Full, Contract, storeOf
<1>11. QED
  BY <1>7, <1>8, <1>9, <1>10, Zenon DEF DataInv

\* A batch is to be rolled up again.
LEMMA DataEntry ==
    ASSUME WorkerTypes, DaTypes, DataInv, readEntry, ~nextEntry
    PROVE  DataInv'
<1> DEFINE i == reRollupBatchIndex[entry + 1]
           j == [NoJob EXCEPT !.start = storeOf(i).start, !.end = storeOf(i).end,
                              !.origin = rollupStores[i].dataStoreId, !.batchIndex = i]
<1>1. /\ UNCHANGED Contract /\ latest' = latest /\ mempool' = mempool
      /\ i \in DOMAIN rollupStores
      /\ job' = [job EXCEPT !["checker"] = j] /\ goto("checker", "range")
  BY Zenon DEF readEntry, entryDone, checkerFails, daVars, Contract
<1>2. /\ pc'["checker"] = "range" /\ pc'["main"] = pc["main"]
      /\ job'["checker"] = j /\ job'["main"] = job["main"]
  BY <1>1, Zenon DEF goto, WorkerTypes, Workers
<1>3. BatchRange(j)
  BY <1>1, Zenon DEF BatchRange, NoJob
<1> HIDE DEF j
<1>4. ContractInv'
  BY <1>1, ContractKept, Zenon DEF DataInv
<1>5. MempoolInv'
  BY <1>1, ZenonT(30) DEF DataInv, MempoolInv, Full, BatchRange, NewRange, Contract, storeOf
<1>6. MainInv'
  BY <1>1, <1>2, Zenon DEF DataInv, MainInv, NewRange, Full, reach, Contract
<1>7. CheckerInv'
  BY <1>1, <1>2, <1>3, Zenon DEF CheckerInv, BatchRange, Contract, storeOf
<1>8. QED
  BY <1>4, <1>5, <1>6, <1>7, Zenon DEF DataInv

LEMMA FullReach ==
    ASSUME NEW j \in Jobs, Full(j)
    PROVE  reach(j) = j.end
BY MtBatcherConstants DEF Jobs, Full, reach, Smaller

\* The transaction of a worker enters the mempool.
LEMMA DataPublished ==
    ASSUME WorkerTypes, WorkerTypes', DaTypes, DataInv, UNCHANGED <<Contract, latest>>,
           NEW w \in Workers, NEW kind \in {"store", "confirm"}, NEW j \in Jobs, Full(j),
           mempool' = mempool \cup {transaction(kind, w, j)},
           job'[w] = j, pc'[w] \in {"storing", "confirming"},
           \A v \in Workers \ {w} : pc'[v] = pc[v] /\ job'[v] = job[v],
           w = "main" => /\ NewRange(j)
                         /\ \A u \in mempool : ~u.isReRollup => u.end <= j.end,
           w = "checker" => BatchRange(j)
    PROVE  DataInv'
<1> DEFINE t == transaction(kind, w, j)
<1>1. /\ t.start = j.start /\ t.end = j.end /\ t.data = j.data /\ t.batchIndex = j.batchIndex
      /\ t.isReRollup = (w = "checker")
  BY ZenonT(30) DEF transaction
<1>2. mempool' = mempool \cup {t}
  BY ZenonT(30)
<1> HIDE DEF t
<1>3. ContractInv'
  BY ContractKept, ZenonT(30) DEF DataInv
<1>4. Full(t) /\ IF t.isReRollup THEN BatchRange(t) ELSE NewRange(t)
  BY <1>1, ZenonT(30) DEF Full, BatchRange, NewRange, Workers
<1>5. MempoolInv'
  BY <1>2, <1>4, ZenonT(30) DEF DataInv, MempoolInv, Full, BatchRange, NewRange, Contract, storeOf
<1>6. CASE w = "main"
  <2>1. /\ job'["main"] = j /\ pc'["main"] \in {"storing", "confirming"}
        /\ pc'["checker"] = pc["checker"] /\ job'["checker"] = job["checker"]
    BY <1>6, ZenonT(30) DEF Workers
  <2>2. reach(job["main"])' = j.end
    BY <2>1, FullReach, ZenonT(30) DEF reach
  <2>3. j.end \in Nat
    BY ZenonT(30) DEF Jobs
  <2>4. MainInv'
    <3>1. NewRange(job["main"])' /\ Full(job["main"])'
      BY <1>6, <2>1, Zenon DEF NewRange, Full, Contract
    <3>2. l2ConfirmedBlockNumber' <= j.end
      BY <1>6, ZenonT(30) DEF NewRange, Contract
    <3>3. \A u \in mempool' : ~u.isReRollup => u.end <= j.end
      BY <1>1, <1>2, <1>6, <2>3
    <3>4. job'["main"].start < job'["main"].end
      BY <2>1, ZenonT(30) DEF Full
    <3>5. QED
      BY <2>2, <3>1, <3>2, <3>3, <3>4, ZenonT(30) DEF MainInv
  <2>5. CheckerInv'
    BY <2>1, ZenonT(30) DEF DataInv, CheckerInv, BatchRange, Full, Contract, storeOf
  <2>6. QED
    BY <1>3, <1>5, <2>4, <2>5, Zenon DEF DataInv
<1>7. CASE w = "checker"
  <2>1. /\ job'["checker"] = j
        /\ pc'["main"] = pc["main"] /\ job'["main"] = job["main"]
    BY <1>7, ZenonT(30) DEF Workers
  <2>2. MainInv'
    <3>1. t.isReRollup
      BY <1>1, <1>7, ZenonT(30)
    <3>2. \A u \in mempool' : ~u.isReRollup => u \in mempool
      BY <1>2, <3>1, Zenon
    <3>3. QED
      BY <2>1, <3>2, ZenonT(30) DEF DataInv, MainInv, NewRange, Full, reach, Contract
  <2>3. CheckerInv'
    BY <1>7, <2>1, ZenonT(30) DEF CheckerInv, BatchRange, Full, Contract, storeOf
  <2>4. QED
    BY <1>3, <1>5, <2>2, <2>3, ZenonT(30) DEF DataInv
<1>8. QED
  BY <1>6, <1>7, Zenon DEF Workers

LEMMA DataDispersed ==
    ASSUME Counting, WorkerTypes, WorkerTypes', DaTypes, DataInv, Undisturbed, Undisturbed',
           NEW w \in Workers, DisperseStoreData(w), ~(roundFails(w) /\ UNCHANGED mempool)
    PROVE  DataInv'
<1>1. job[w] \in Jobs /\ job[w].start \in Nat /\ job[w].end \in Nat
  BY Zenon DEF WorkerTypes, Jobs
<1>2. PICK unread \in SUBSET (job[w].start .. job[w].end - 1) :
        LET t == [job[w] EXCEPT !.end = aggregatedEnd(job[w].start, job[w].end, unread),
                                !.data = dataBelow(job[w].start, job[w].end, unread)]
        IN  /\ readFails' = readFails + Cardinality(unread)
            /\ storable(t)
            /\ job' = [job EXCEPT ![w] = t]
            /\ publish(transaction("store", w, t))
            /\ goto(w, "storing")
  BY ZenonT(30) DEF DisperseStoreData
<1>3. unread = {}
  <2>1. job[w].start \in Int /\ job[w].end - 1 \in Int
    BY <1>1
  <2>2. Cardinality(unread) \in Nat /\ (Cardinality(unread) = 0 => unread = {})
    BY <1>2, <2>1, ZenonT(30) DEF Counting
  <2>3. QED
    BY <1>2, <2>2 DEF Undisturbed
<1>4. pc[w] = "range" /\ UNCHANGED <<Contract, latest>>
  BY Zenon DEF DisperseStoreData, daVars, Contract
<1>5. ASSUME w = "checker"
      PROVE  /\ BatchRange(job[w])
             /\ job[w].start < job[w].end /\ job[w].end - job[w].start < RollUpMaxSize
  <2>1. BatchRange(job[w])
    BY <1>4, <1>5, ZenonT(30) DEF DataInv, CheckerInv, Busy
  <2>2. rollupStores[job[w].batchIndex].dataStoreId \in DOMAIN dataStores
    BY <2>1, ZenonT(30) DEF BatchRange, DaTypes
  <2>3. Full(storeOf(job[w].batchIndex))
    BY <2>2, Zenon DEF DataInv, ContractInv, storeOf
  <2>4. QED
    BY <2>1, <2>3, Zenon DEF BatchRange, Full
<1>6. ASSUME w = "main"
      PROVE  /\ NewRange(job[w]) /\ job[w].start < job[w].end
             /\ l2ConfirmedBlockNumber <= reach(job[w])
             /\ \A u \in mempool : ~u.isReRollup => u.end <= reach(job[w])
  BY <1>4, <1>6, ZenonT(30) DEF DataInv, MainInv, Busy
<1>7. job[w].start < job[w].end
  BY <1>5, <1>6, Zenon DEF Workers
<1> DEFINE end == reach(job[w])
           j == [job[w] EXCEPT !.end = end, !.data = job[w].start .. end - 1]
<1>8. /\ job' = [job EXCEPT ![w] = j] /\ publish(transaction("store", w, j))
      /\ goto(w, "storing") /\ storable(j)
  <2>1. /\ aggregatedEnd(job[w].start, job[w].end, {}) = end
        /\ dataBelow(job[w].start, job[w].end, {}) = job[w].start .. end - 1
    BY <1>1, <1>7, Aggregated, Zenon DEF reach
  <2>2. QED
    BY <1>2, <1>3, <2>1, ZenonT(30)
<1>9. /\ end \in Nat /\ end <= job[w].end /\ end <= job[w].start + RollUpMaxSize - 1
      /\ job[w].end <= job[w].start + RollUpMaxSize - 1 => end = job[w].end
  BY <1>1, MtBatcherConstants DEF reach, Smaller
<1> HIDE DEF end
<1>10. /\ j \in Jobs /\ j.start = job[w].start /\ j.end = end
       /\ j.data = job[w].start .. end - 1 /\ j.batchIndex = job[w].batchIndex
  <2> DEFINE data == job[w].start .. end - 1
  <2>1. data \in SUBSET Nat
    BY <1>1, <1>9
  <2> HIDE DEF data
  <2>2. \A k \in Jobs : LET m == [k EXCEPT !.end = end, !.data = data]
                       IN  /\ m \in Jobs /\ m.start = k.start /\ m.end = end
                           /\ m.data = data /\ m.batchIndex = k.batchIndex
    BY <1>9, <2>1, ZenonT(30) DEF Jobs
  <2>3. QED
    BY <1>1, <2>2, ZenonT(30) DEF data
<1>11. Full(j)
  BY <1>1, <1>8, <1>9, <1>10, MtBatcherConstants DEF Full, storable
<1>12. w = "main" => NewRange(j) /\ \A u \in mempool : ~u.isReRollup => u.end <= j.end
  <2> SUFFICES ASSUME w = "main"
               PROVE  NewRange(j) /\ \A u \in mempool : ~u.isReRollup => u.end <= j.end
    BY Zenon
  <2>1. latest \in Nat /\ BlockOffset \in Nat
    BY MtBatcherConstants, Zenon DEF WorkerTypes
  <2>2. l2ConfirmedBlockNumber <= end
    BY <1>6, Zenon DEF end
  <2>3. NewRange(j)
    BY <1>1, <1>6, <1>9, <1>10, <2>1, <2>2 DEF NewRange
  <2>4. QED
    BY <1>6, <1>10, <2>3, Zenon DEF end
<1>13. w = "checker" => BatchRange(j)
  BY <1>1, <1>5, <1>9, <1>10, MtBatcherConstants DEF BatchRange
<1> HIDE DEF j
<1>14. /\ job'[w] = j /\ pc'[w] = "storing"
       /\ \A v \in Workers \ {w} : pc'[v] = pc[v] /\ job'[v] = job[v]
  BY <1>8, Zenon DEF goto, WorkerTypes
<1>15. mempool' = mempool \cup {transaction("store", w, j)}
  BY <1>8, Zenon DEF publish
<1>16. QED
  BY <1>4, <1>10, <1>11, <1>12, <1>13, <1>14, <1>15, DataPublished, ZenonT(30)

LEMMA DataConfirming ==
    ASSUME WorkerTypes, WorkerTypes', DaTypes, DataInv,
           NEW w \in Workers, ConfirmStoredData(w), ~(roundFails(w) /\ UNCHANGED mempool)
    PROVE  DataInv'
<1>1. /\ pc[w] = "stored" /\ UNCHANGED <<Contract, latest, job>>
      /\ publish(transaction("confirm", w, job[w])) /\ goto(w, "confirming")
  BY ZenonT(30) DEF ConfirmStoredData, daVars, Contract
<1>2. job[w] \in Jobs
  BY Zenon DEF WorkerTypes
<1>3. Full(job[w])
  <2>1. CASE w = "main"
    BY <1>1, <2>1, Zenon DEF DataInv, MainInv, Busy
  <2>2. CASE w = "checker"
    BY <1>1, <2>2, Zenon DEF DataInv, CheckerInv, Busy
  <2>3. QED
    BY <2>1, <2>2, Zenon DEF Workers
<1>4. reach(job[w]) = job[w].end
  BY <1>2, <1>3, FullReach, Zenon
<1>5. w = "main" => /\ NewRange(job[w])
                    /\ \A u \in mempool : ~u.isReRollup => u.end <= job[w].end
  BY <1>1, <1>4, ZenonT(30) DEF DataInv, MainInv, Busy
<1>6. w = "checker" => BatchRange(job[w])
  BY <1>1, Zenon DEF DataInv, CheckerInv, Busy
<1>7. /\ pc'[w] = "confirming"
      /\ \A v \in Workers \ {w} : pc'[v] = pc[v]
  BY <1>1, Zenon DEF goto, WorkerTypes
<1> DEFINE j == job[w]
<1>8. mempool' = mempool \cup {transaction("confirm", w, j)}
  BY <1>1, Zenon DEF publish
<1>9. /\ j \in Jobs /\ Full(j) /\ job'[w] = j
      /\ w = "main" => /\ NewRange(j)
                       /\ \A u \in mempool : ~u.isReRollup => u.end <= j.end
      /\ w = "checker" => BatchRange(j)
  BY <1>1, <1>2, <1>3, <1>5, <1>6, ZenonT(30)
<1> HIDE DEF j
<1>10. QED
  BY <1>1, <1>7, <1>8, <1>9, DataPublished, ZenonT(30)

\* What a batch says of its blocks.
SameBlocks(s, r) == s.start = r.start /\ s.end = r.end /\ s.data = r.data

LEMMA SameStores ==
    ASSUME ContractInv, DaTypes, UNCHANGED <<rollupBatchIndex, l2ConfirmedBlockNumber>>,
           DOMAIN rollupStores' = DOMAIN rollupStores,
           \A i \in DOMAIN rollupStores : SameBlocks(storeOf(i)', storeOf(i)),
           \A k \in DOMAIN dataStores' : Full(dataStores'[k])
    PROVE  ContractInv'
<1>1. rollupBatchIndex \in Nat /\ DOMAIN rollupStores = 0 .. rollupBatchIndex - 1
  BY ZenonT(30) DEF DaTypes, ContractInv
<1>2. \A i \in 0 .. rollupBatchIndex : endOf(i)' = endOf(i)
  BY <1>1 DEF endOf, SameBlocks
<1>3. l2ConfirmedBlockNumber' = endOf(rollupBatchIndex)'
  BY <1>1, <1>2 DEF ContractInv
<1>4. ASSUME NEW i \in 0 .. rollupBatchIndex, NEW b \in 0 .. endOf(i)' - 1
      PROVE  \E j \in 0 .. i - 1 : b \in storeOf(j)'.data
  <2>1. PICK j \in 0 .. i - 1 : b \in storeOf(j).data
    BY <1>2, <1>4, Zenon DEF ContractInv
  <2>2. j \in DOMAIN rollupStores
    BY <1>1
  <2>3. b \in storeOf(j)'.data
    BY <2>1, <2>2, Zenon DEF SameBlocks
  <2>4. QED
    BY <2>3, Zenon
<1>5. DOMAIN rollupStores' = 0 .. rollupBatchIndex' - 1
  BY <1>1, Zenon
<1>6. \A k \in DOMAIN dataStores' : Full(dataStores[k])'
  BY Zenon DEF Full
<1>7. \A i \in 0 .. rollupBatchIndex' : \A b \in 0 .. endOf(i)' - 1 :
        \E j \in 0 .. i - 1 : b \in storeOf(j)'.data
  BY <1>4, Zenon
<1>8. QED
  BY <1>3, <1>5, <1>6, <1>7, ZenonT(30) DEF ContractInv

\* A transaction was mined that leaves the end of the confirmed blocks.
LEMMA WorkersKept ==
    ASSUME WorkerTypes, DaTypes, DataInv,
           UNCHANGED <<pc, latest, l2ConfirmedBlockNumber>>, mempool' = {},
           \A w \in Workers : SameRange(job'[w], job[w]),
           DOMAIN rollupStores' = DOMAIN rollupStores,
           \A i \in DOMAIN rollupStores : SameBlocks(storeOf(i)', storeOf(i))
    PROVE  MainInv' /\ CheckerInv'
<1>1. SameRange(job'["main"], job["main"]) /\ SameRange(job'["checker"], job["checker"])
  BY Zenon DEF Workers
<1>2. MainInv'
  BY <1>1, ZenonT(30) DEF DataInv, MainInv, NewRange, Full, reach, SameRange
<1>3. CheckerInv'
  BY <1>1, ZenonT(30) DEF DataInv, CheckerInv, BatchRange, Full, SameRange, SameBlocks
<1>4. QED
  BY <1>2, <1>3, Zenon

LEMMA DataStored ==
    ASSUME WorkerTypes, DaTypes, DataInv, UNCHANGED <<pc, latest>>, mempool' = {},
           \A w \in Workers : SameRange(job'[w], job[w]),
           NEW t \in mempool, storeData(t)
    PROVE  DataInv'
<1> DEFINE s == [start |-> t.start, end |-> t.end, isReRollup |-> t.isReRollup,
                 number |-> NotConfirmed, data |-> t.data]
<1>1. /\ dataStores' = Append(dataStores, s)
      /\ UNCHANGED <<rollupStores, rollupBatchIndex, l2ConfirmedBlockNumber>>
  BY Zenon DEF storeData
<1>2. Full(s)
  BY ZenonT(30) DEF DataInv, MempoolInv, Full
<1> HIDE DEF s
<1>3. /\ DOMAIN dataStores' = DOMAIN dataStores \cup {Len(dataStores) + 1}
      /\ dataStores'[Len(dataStores) + 1] = s
      /\ \A k \in DOMAIN dataStores : dataStores'[k] = dataStores[k]
  BY <1>1 DEF DaTypes
<1>4. \A k \in DOMAIN dataStores' : Full(dataStores'[k])
  BY <1>2, <1>3, Zenon DEF DataInv, ContractInv
<1>5. \A i \in DOMAIN rollupStores : storeOf(i)' = storeOf(i)
  BY <1>1, <1>3, Zenon DEF storeOf, DaTypes
<1>6. \A i \in DOMAIN rollupStores : SameBlocks(storeOf(i)', storeOf(i))
  BY <1>5, Zenon DEF SameBlocks
<1>7. ContractInv'
  BY <1>1, <1>4, <1>6, SameStores, ZenonT(30) DEF DataInv
<1>8. MainInv' /\ CheckerInv'
  BY <1>1, <1>6, WorkersKept, ZenonT(30)
<1>9. QED
  BY <1>7, <1>8, ZenonT(30) DEF DataInv, MempoolInv

\* What a confirmation does to the data stores and to the batches.
LEMMA Confirmed ==
    ASSUME WorkerTypes, DaTypes, Owned, DataInv, NEW t \in mempool, t.kind = "confirm",
           confirmData(t),
           NEW n, n = IF t.isReRollup THEN t.batchIndex ELSE rollupBatchIndex
    PROVE  /\ DOMAIN rollupStores' = DOMAIN rollupStores \cup {n}
           /\ SameBlocks(storeOf(n)', t)
           /\ \A i \in DOMAIN rollupStores \ {n} : SameBlocks(storeOf(i)', storeOf(i))
           /\ \A k \in DOMAIN dataStores' : Full(dataStores'[k])
<1> DEFINE origin == IF t.isReRollup THEN t.origin ELSE t.id
<1>1. t \in Transactions /\ confirmable(t) /\ Full(t)
  BY ZenonT(30) DEF WorkerTypes, Owned, DataInv, MempoolInv
<1>2. n \in Nat
  BY <1>1, Zenon DEF Transactions, DaTypes
<1>3. /\ rollupStores' = [i \in DOMAIN rollupStores \cup {n} |->
              IF i = n THEN [origin |-> origin, dataStoreId |-> t.id] ELSE rollupStores[i]]
      /\ dataStores' = [dataStores EXCEPT ![t.id].number = n]
  BY Zenon DEF confirmData
<1> HIDE DEF origin
<1>4. /\ t.id \in DOMAIN dataStores
      /\ dataStores[t.id].start = t.start /\ dataStores[t.id].end = t.end
  BY <1>1, Zenon DEF confirmable
<1>5. /\ DOMAIN dataStores' = DOMAIN dataStores
      /\ \A k \in DOMAIN dataStores : SameBlocks(dataStores'[k], dataStores[k])
  <2>1. \A k \in DOMAIN dataStores : dataStores[k] \in Stores
    BY DEF DaTypes
  <2>2. QED
    BY <1>3, <2>1 DEF Stores, SameBlocks
<1>6. \A k \in DOMAIN dataStores : Full(dataStores[k])
  BY Zenon DEF DataInv, ContractInv
<1>7. \A k \in DOMAIN dataStores' : Full(dataStores'[k])
  BY <1>5, <1>6, Zenon DEF Full, SameBlocks
<1>8. SameBlocks(dataStores[t.id], t)
  BY <1>1, <1>4, <1>6, Zenon DEF SameBlocks, Full
<1>9. storeOf(n)' = dataStores'[t.id]
  BY <1>3, Zenon DEF storeOf
<1>10. SameBlocks(storeOf(n)', t)
  BY <1>4, <1>5, <1>8, <1>9 DEF SameBlocks
<1>11. ASSUME NEW i \in DOMAIN rollupStores \ {n}
       PROVE  SameBlocks(storeOf(i)', storeOf(i))
  <2>1. rollupStores'[i] = rollupStores[i] /\ rollupStores[i].dataStoreId \in DOMAIN dataStores
    BY <1>3, Zenon DEF DaTypes
  <2>2. QED
    BY <1>5, <2>1, ZenonT(30) DEF storeOf
<1>12. DOMAIN rollupStores' = DOMAIN rollupStores \cup {n}
  BY <1>3, Zenon
<1>13. QED
  BY <1>7, <1>10, <1>11, <1>12, ZenonT(30)

LEMMA DataConfirmedAgain ==
    ASSUME WorkerTypes, DaTypes, Owned, DataInv, UNCHANGED <<pc, latest, job>>, mempool' = {},
           NEW t \in mempool, t.kind = "confirm", t.isReRollup, confirmData(t)
    PROVE  DataInv'
<1>1. /\ t.batchIndex \in DOMAIN rollupStores
      /\ t.start = storeOf(t.batchIndex).start /\ t.end = storeOf(t.batchIndex).end
      /\ Full(t)
  BY Zenon DEF DataInv, MempoolInv, BatchRange
<1>2. Full(storeOf(t.batchIndex))
  BY <1>1, ZenonT(30) DEF DataInv, ContractInv, DaTypes, storeOf
<1>3. SameBlocks(t, storeOf(t.batchIndex))
  BY <1>1, <1>2, ZenonT(30) DEF SameBlocks, Full
<1>4. UNCHANGED <<rollupBatchIndex, l2ConfirmedBlockNumber>>
  BY Zenon DEF confirmData, confirmedEnd
<1>5. /\ DOMAIN rollupStores' = DOMAIN rollupStores
      /\ \A i \in DOMAIN rollupStores : SameBlocks(storeOf(i)', storeOf(i))
      /\ \A k \in DOMAIN dataStores' : Full(dataStores'[k])
  <2>1. /\ DOMAIN rollupStores' = DOMAIN rollupStores \cup {t.batchIndex}
        /\ SameBlocks(storeOf(t.batchIndex)', t)
        /\ \A i \in DOMAIN rollupStores \ {t.batchIndex} : SameBlocks(storeOf(i)', storeOf(i))
        /\ \A k \in DOMAIN dataStores' : Full(dataStores'[k])
    <3> DEFINE n == t.batchIndex
    <3>1. n = IF t.isReRollup THEN t.batchIndex ELSE rollupBatchIndex
      BY Zenon
    <3>2. QED
      BY <3>1, Confirmed, Zenon
  <2>2. SameBlocks(storeOf(t.batchIndex)', storeOf(t.batchIndex))
    BY <1>3, <2>1, Zenon DEF SameBlocks
  <2>3. QED
    BY <1>1, <2>1, <2>2, Zenon
<1>6. ContractInv'
  BY <1>4, <1>5, SameStores, Zenon DEF DataInv
<1>7. MainInv' /\ CheckerInv'
  BY <1>4, <1>5, WorkersKept, Zenon DEF SameRange
<1>8. QED
  BY <1>6, <1>7, Zenon DEF DataInv, MempoolInv

\* New blocks are confirmed: what was confirmed reaches their start.
LEMMA DataConfirmedNew ==
    ASSUME WorkerTypes, DaTypes, Owned, DataInv, UNCHANGED <<pc, latest, job>>, mempool' = {},
           NEW t \in mempool, t.kind = "confirm", ~t.isReRollup, confirmData(t)
    PROVE  DataInv'
<1>0. PICK n, c : n = rollupBatchIndex /\ c = l2ConfirmedBlockNumber
  BY Zenon
<1>1. /\ n \in Nat /\ c \in Nat /\ latest \in Nat /\ t.start \in Nat /\ t.end \in Nat
      /\ DOMAIN rollupStores = 0 .. n - 1 /\ c = endOf(n)
  BY <1>0, Zenon DEF DaTypes, WorkerTypes, Transactions, DataInv, ContractInv
<1>2. Full(t) /\ t.start <= c /\ c <= t.end /\ t.end <= latest
  BY <1>0, Zenon DEF DataInv, MempoolInv, NewRange
<1>3. rollupBatchIndex' = n + 1 /\ l2ConfirmedBlockNumber' = t.end
  BY <1>0, Zenon DEF confirmData, confirmedEnd
<1>4. /\ DOMAIN rollupStores' = 0 .. n
      /\ SameBlocks(storeOf(n)', t)
      /\ \A i \in 0 .. n - 1 : SameBlocks(storeOf(i)', storeOf(i))
      /\ \A k \in DOMAIN dataStores' : Full(dataStores'[k])
  <2>1. /\ DOMAIN rollupStores' = DOMAIN rollupStores \cup {n}
        /\ SameBlocks(storeOf(n)', t)
        /\ \A i \in DOMAIN rollupStores \ {n} : SameBlocks(storeOf(i)', storeOf(i))
        /\ \A k \in DOMAIN dataStores' : Full(dataStores'[k])
    BY <1>0, Confirmed, Zenon
  <2>2. DOMAIN rollupStores \ {n} = 0 .. n - 1 /\ DOMAIN rollupStores \cup {n} = 0 .. n
    BY <1>1
  <2>3. QED
    BY <2>1, <2>2, Zenon
<1>5. /\ \A i \in 0 .. n : endOf(i)' = endOf(i)
      /\ endOf(n + 1)' = t.end
  BY <1>1, <1>4 DEF endOf, SameBlocks
<1>6. ContractInv'
  <2>1. /\ DOMAIN rollupStores' = 0 .. rollupBatchIndex' - 1
        /\ l2ConfirmedBlockNumber' = endOf(rollupBatchIndex)'
    <3>1. endOf(rollupBatchIndex)' = endOf(n + 1)'
      BY <1>3, Zenon DEF endOf
    <3>2. QED
      BY <1>1, <1>3, <1>4, <1>5, <3>1
  <2>2. ASSUME NEW i \in 0 .. n, NEW b \in 0 .. endOf(i)' - 1
        PROVE  \E j \in 0 .. i - 1 : b \in storeOf(j)'.data
    <3>1. PICK j \in 0 .. i - 1 : b \in storeOf(j).data
      BY <1>0, <1>5, <2>2, Zenon DEF DataInv, ContractInv
    <3>2. j \in 0 .. n - 1
      BY <1>1
    <3>3. b \in storeOf(j)'.data
      BY <1>4, <3>1, <3>2, Zenon DEF SameBlocks
    <3>4. QED
      BY <3>3, Zenon
  <2>3. ASSUME NEW b \in 0 .. endOf(n + 1)' - 1
        PROVE  \E j \in 0 .. n : b \in storeOf(j)'.data
    <3>1. b \in Nat /\ b < t.end
      BY <1>1, <1>5, <2>3
    <3>2. CASE b < c
      <4>1. b \in 0 .. endOf(n)' - 1 /\ n \in 0 .. n
        BY <1>1, <1>5, <3>1, <3>2
      <4>2. \E j \in 0 .. n - 1 : b \in storeOf(j)'.data
        BY <2>2, <4>1, Zenon
      <4>3. QED
        BY <1>1, <4>2
    <3>3. CASE b >= c
      <4>1. b \in t.data
        BY <1>1, <1>2, <3>1, <3>3 DEF Full
      <4>2. b \in storeOf(n)'.data /\ n \in 0 .. n
        BY <1>1, <1>4, <4>1 DEF SameBlocks
      <4>3. QED
        BY <4>2, Zenon
    <3>4. QED
      BY <1>1, <3>1, <3>2, <3>3
  <2>4. \A i \in 0 .. rollupBatchIndex' : \A b \in 0 .. endOf(i)' - 1 :
          \E j \in 0 .. i - 1 : b \in storeOf(j)'.data
    <3> SUFFICES ASSUME NEW i \in 0 .. rollupBatchIndex'
                 PROVE  \A b \in 0 .. endOf(i)' - 1 : \E j \in 0 .. i - 1 : b \in storeOf(j)'.data
      BY Zenon
    <3>1. CASE i = n + 1
      <4>1. i - 1 = n
        BY <1>1, <3>1
      <4>2. QED
        BY <2>3, <3>1, <4>1, Zenon
    <3>2. CASE i # n + 1
      <4>1. i \in 0 .. n
        BY <1>1, <1>3, <3>2
      <4>2. QED
        BY <2>2, <4>1, Zenon
    <3>3. QED
      BY <3>1, <3>2, Zenon
  <2>5. \A k \in DOMAIN dataStores' : Full(dataStores[k])'
    BY <1>4, Zenon DEF Full
  <2>6. QED
    BY <2>1, <2>4, <2>5, Zenon DEF ContractInv
<1>7. MainInv'
  <2> SUFFICES ASSUME pc["main"] \in Busy
               PROVE  MainInv'
    BY Zenon DEF MainInv
  <2> DEFINE j == job["main"]
  <2>1. /\ j.start < j.end /\ NewRange(j)
        /\ t.end <= reach(j)
        /\ pc["main"] # "range" => Full(j)
    BY ZenonT(30) DEF DataInv, MainInv
  <2>2. j.start \in Nat /\ j.end \in Nat
    BY Zenon DEF WorkerTypes, Workers, Jobs
  <2>3. reach(j) \in Int /\ reach(j) <= j.end
    BY <2>2, MtBatcherConstants DEF reach, Smaller
  <2>4. NewRange(j)'
    BY <1>0, <1>1, <1>2, <1>3, <2>1, <2>2, <2>3 DEF NewRange
  <2>5. reach(j)' = reach(j)
    BY ZenonT(30) DEF reach
  <2>6. QED
    BY <1>3, <2>1, <2>4, <2>5, Zenon DEF MainInv, Full
<1>8. CheckerInv'
  <2>1. \A i \in DOMAIN rollupStores : i \in DOMAIN rollupStores' /\ SameBlocks(storeOf(i)', storeOf(i))
    BY <1>1, <1>4
  <2>2. QED
    BY <2>1, ZenonT(30) DEF DataInv, CheckerInv, BatchRange, Full, SameBlocks
<1>9. QED
  BY <1>6, <1>7, <1>8, Zenon DEF DataInv, MempoolInv

\* A reset takes the batches from an index on away and keeps the others.
LEMMA ResetStores ==
    ASSUME DaTypes, ContractInv, operatorReset
    PROVE  \E i \in 0 .. rollupBatchIndex - 1 :
             /\ rollupBatchIndex' = i /\ UNCHANGED dataStores
             /\ l2ConfirmedBlockNumber' = endOf(i)
             /\ DOMAIN rollupStores' = 0 .. i - 1
             /\ \A k \in 0 .. i - 1 : storeOf(k)' = storeOf(k)
<1>1. PICK i \in 0 .. rollupBatchIndex - 1 :
        LET end == IF i = 0 THEN 0 ELSE storeOf(i - 1).end
        IN  resetRollupBatchData(i, end, end)
  BY Zenon DEF operatorReset
<1>2. resetRollupBatchData(i, endOf(i), endOf(i))
  BY <1>1, Zenon DEF endOf
<1>3. /\ rollupStores' = [k \in {k \in DOMAIN rollupStores : k < i \/ k >= rollupBatchIndex}
                           |-> rollupStores[k]]
      /\ rollupBatchIndex' = i /\ UNCHANGED dataStores
      /\ l2ConfirmedBlockNumber' = endOf(i)
  BY <1>2, Zenon DEF resetRollupBatchData
<1>4. {k \in DOMAIN rollupStores : k < i \/ k >= rollupBatchIndex} = 0 .. i - 1
  BY DEF DaTypes, ContractInv
<1>5. /\ DOMAIN rollupStores' = 0 .. i - 1
      /\ \A k \in 0 .. i - 1 : storeOf(k)' = storeOf(k)
  BY <1>3, <1>4, Zenon DEF storeOf
<1>6. QED
  BY <1>3, <1>5, Zenon

\* It is harmless between rounds.
LEMMA DataReset ==
    ASSUME WorkerTypes, DaTypes, DataInv, Undisturbed', operatorReset
    PROVE  DataInv'
<1>1. ContractInv
  BY Zenon DEF DataInv
<1>2. PICK i \in 0 .. rollupBatchIndex - 1 :
             /\ rollupBatchIndex' = i /\ UNCHANGED dataStores
             /\ l2ConfirmedBlockNumber' = endOf(i)
             /\ DOMAIN rollupStores' = 0 .. i - 1
             /\ \A k \in 0 .. i - 1 : storeOf(k)' = storeOf(k)
  BY <1>1, ResetStores, Zenon
<1>3. rollupBatchIndex' = i /\ UNCHANGED dataStores /\ l2ConfirmedBlockNumber' = endOf(i)
  BY <1>2, Zenon
<1>4. rollupBatchIndex \in Nat
  BY Zenon DEF DaTypes
<1>5. /\ DOMAIN rollupStores' = 0 .. i - 1
      /\ \A k \in 0 .. i - 1 : storeOf(k)' = storeOf(k)
  BY <1>2, Zenon
<1>6. \A k \in 0 .. i : endOf(k)' = endOf(k)
  BY <1>4, <1>5 DEF endOf
<1>7. ContractInv'
  <2>1. ASSUME NEW k \in 0 .. i, NEW b \in 0 .. endOf(k)' - 1
        PROVE  \E j \in 0 .. k - 1 : b \in storeOf(j)'.data
    <3>1. k \in 0 .. rollupBatchIndex /\ b \in 0 .. endOf(k) - 1
      BY <1>4, <1>6, <2>1
    <3>2. PICK j \in 0 .. k - 1 : b \in storeOf(j).data
      BY <3>1, Zenon DEF DataInv, ContractInv
    <3>3. j \in 0 .. i - 1
      BY <1>4
    <3>4. QED
      BY <1>5, <3>2, <3>3, Zenon
  <2>2. \A k \in 0 .. rollupBatchIndex' : \A b \in 0 .. endOf(k)' - 1 :
          \E j \in 0 .. k - 1 : b \in storeOf(j)'.data
    BY <1>3, <2>1, Zenon
  <2>3. l2ConfirmedBlockNumber' = endOf(rollupBatchIndex)'
    <3>1. endOf(rollupBatchIndex)' = endOf(i)'
      BY <1>3, Zenon DEF endOf
    <3>2. QED
      BY <1>3, <1>4, <1>6, <3>1
  <2>4. \A k \in DOMAIN dataStores' : Full(dataStores[k])'
    BY <1>3, Zenon DEF DataInv, ContractInv, Full
  <2>5. QED
    BY <1>3, <1>5, <2>2, <2>3, <2>4, Zenon DEF ContractInv
<1>8. mempool' = {} /\ pc' = pc /\ \A w \in Workers : pc[w] = "idle"
  BY ZenonT(30) DEF operatorReset, Undisturbed
<1>9. QED
  BY <1>7, <1>8, ZenonT(30) DEF DataInv, MempoolInv, MainInv, CheckerInv, Workers, Busy

LEMMA DataStep ==
    ASSUME Counting, WorkerTypes, WorkerTypes', DaTypes, Owned, Undisturbed, Undisturbed', DataInv, [Next]_vars
    PROVE  DataInv'
<1>1. ASSUME NEW w \in Workers, DisperseStoreData(w) \/ ConfirmStoredData(w)
      PROVE  DataInv'
  <2>1. CASE roundFails(w) /\ UNCHANGED mempool
    BY <1>1, <2>1, DataQuiet, Zenon
  <2>2. CASE ~(roundFails(w) /\ UNCHANGED mempool)
    BY <1>1, <2>2, DataDispersed, DataConfirming, Zenon
  <2>3. QED
    BY <2>1, <2>2, Zenon
<1>2. CASE readEntry
  BY <1>2, DataQuiet, DataEntry, Zenon
<1>3. CASE mine
  <2>1. PICK t \in mempool :
          /\ \/ /\ storeData(t)
                /\ job' = IF t.from \in Workers
                          THEN [job EXCEPT ![t.from].id = Len(dataStores) + 1] ELSE job
             \/ t.kind = "confirm" /\ confirmData(t) /\ UNCHANGED job
          /\ mempool' = {} /\ UNCHANGED <<latest, pc>>
    BY <1>3, Zenon DEF mine
  <2>2. CASE t.kind = "confirm" /\ confirmData(t) /\ UNCHANGED job
    BY <2>1, <2>2, DataConfirmedNew, DataConfirmedAgain, Zenon
  <2>3. CASE /\ storeData(t)
             /\ job' = IF t.from \in Workers
                       THEN [job EXCEPT ![t.from].id = Len(dataStores) + 1] ELSE job
    <3>1. \A w \in Workers : job[w] \in Jobs
      BY Zenon DEF WorkerTypes
    <3>2. \A w \in Workers : SameRange(job'[w], job[w])
      BY <2>3, <3>1, ZenonT(30) DEF WorkerTypes, Jobs, SameRange
    <3>3. QED
      BY <2>1, <2>3, <3>2, DataStored, Zenon
  <2>4. QED
    BY <2>1, <2>2, <2>3, Zenon
<1>4. CASE operatorReset
  BY <1>4, DataReset, Zenon
<1>5. CASE GetBatchBlockRange
  BY <1>5, DataRange, Zenon
<1>6. ASSUME NEW w \in Workers, storeReturns(w) \/ sendFails(w)
      PROVE  DataInv'
  BY <1>6, DataQuiet, Zenon
<1>7. CASE mainConfirmed \/ checkerTick \/ checkerConfirmed \/ FeeWorker
  BY <1>7, DataQuiet, Zenon
<1>8. CASE newBlock \/ mineReverted \/ crash \/ reSubmit
  BY <1>8, DataQuiet, Zenon
<1>9. CASE UNCHANGED vars
  BY <1>9, DataQuiet, Zenon
<1>10. QED
  BY <1>1, <1>2, <1>3, <1>4, <1>5, <1>6, <1>7, <1>8, <1>9, Zenon
     DEF Next, MainWorker, CheckConfirmedWorker, Workers

-----------------------------------------------------------------------------
\* The batches, without a failed Send.

LEMMA FaultsBefore ==
    ASSUME WorkerTypes, [Next]_vars, faults' = 0
    PROVE  faults = 0 /\ ~fault
<1>1. faults \in Nat /\ ~fault
  BY DEF WorkerTypes, fault
<1>2. CASE MainWorker \/ CheckConfirmedWorker
  BY <1>1, <1>2, ZenonT(30) DEF MainWorker, CheckConfirmedWorker, GetBatchBlockRange, DisperseStoreData,
         storeReturns, ConfirmStoredData, mainConfirmed, checkerTick, readEntry,
         checkerConfirmed, counters
<1>3. CASE FeeWorker \/ newBlock \/ mineReverted \/ reSubmit \/ UNCHANGED vars
  BY <1>1, <1>3, Zenon DEF FeeWorker, feeTick, FeeCh, newBlock, mineReverted, reSubmit, vars, counters
<1>4. CASE (\E w \in Workers : sendFails(w)) \/ crash
  BY <1>1, <1>4, Zenon DEF sendFails, crash
<1>5. CASE mine \/ operatorReset
  <2>1. UNCHANGED faults
    BY <1>5, ZenonT(30) DEF mine, operatorReset, counters
  <2>2. QED
    BY <1>1, <2>1, Zenon
<1>6. QED
  BY <1>2, <1>3, <1>4, <1>5, Zenon DEF Next

\* The start of the main worker's range stays the end of the confirmed blocks.
LEMMA MainStartsKept ==
    ASSUME WorkerTypes, WorkerTypes', DaTypes, MainStarts, UNCHANGED l2ConfirmedBlockNumber,
           pc'["main"] \in Busy =>
               /\ pc["main"] \in Busy /\ job'["main"].start = job["main"].start
               /\ pc["main"] = "confirming" /\ result["main"] = "mined"
                  => pc'["main"] = "confirming" /\ result'["main"] = "mined"
    PROVE  MainStarts'
BY Zenon DEF MainStarts

LEMMA MainStartsStep ==
    ASSUME WorkerTypes, WorkerTypes', DaTypes, Owned, MainStarts, Undisturbed', faults' = 0,
           [Next]_vars
    PROVE  MainStarts'
<1> DEFINE Same == pc'["main"] \in Busy =>
               /\ pc["main"] \in Busy /\ job'["main"].start = job["main"].start
               /\ pc["main"] = "confirming" /\ result["main"] = "mined"
                  => pc'["main"] = "confirming" /\ result'["main"] = "mined"
<1>1. faults = 0 /\ ~fault
  BY FaultsBefore, Zenon
<1>2. ASSUME UNCHANGED l2ConfirmedBlockNumber, Same
      PROVE  MainStarts'
  BY <1>2, MainStartsKept, Zenon
<1>3. "main" \in Workers /\ "checker" \in Workers
  BY Zenon DEF Workers
<1>4. CASE GetBatchBlockRange
  <2>1. /\ job'["main"].start = l2ConfirmedBlockNumber
        /\ l2ConfirmedBlockNumber' = l2ConfirmedBlockNumber
    BY <1>4, Zenon DEF GetBatchBlockRange, WorkerTypes, Workers, NoJob, daVars
  <2>2. QED
    BY <2>1, Zenon DEF MainStarts
<1>5. ASSUME NEW w \in Workers, DisperseStoreData(w)
      PROVE  MainStarts'
  <2>1. pc[w] = "range" /\ UNCHANGED <<l2ConfirmedBlockNumber, result>>
    BY <1>5, Zenon DEF DisperseStoreData, daVars
  <2>2. PICK end, data :
          /\ job' = [job EXCEPT ![w] = [job[w] EXCEPT !.end = end, !.data = data]]
          /\ goto(w, "storing")
    BY <1>1, <1>5, ZenonT(30) DEF DisperseStoreData
  <2>3. \A v \in Workers : job'[v].start = job[v].start
    BY <2>2, Zenon DEF WorkerTypes, Jobs
  <2>4. w = "main" \/ pc'["main"] = pc["main"]
    BY <1>3, <2>2, Zenon DEF goto, WorkerTypes
  <2>5. Same
    BY <1>3, <2>1, <2>3, <2>4, Zenon DEF Busy
  <2>6. QED
    BY <1>2, <2>1, <2>5, Zenon
<1>6. ASSUME NEW w \in Workers, storeReturns(w)
      PROVE  MainStarts'
  <2>1. /\ pc[w] = "storing" /\ UNCHANGED l2ConfirmedBlockNumber
        /\ result' = [result EXCEPT ![w] = "none"]
        /\ (goto(w, "stored") /\ UNCHANGED job) \/ roundFails(w)
    BY <1>6, Zenon DEF storeReturns, daVars
  <2>2. CASE w = "main"
    <3>1. (pc'["main"] = "stored" /\ UNCHANGED job) \/ pc'["main"] \in {"idle", "entry"}
      BY <1>3, <2>1, <2>2, RoundEnds, Zenon DEF goto, WorkerTypes
    <3>2. Same
      BY <2>1, <2>2, <3>1, Zenon DEF Busy
    <3>3. QED
      BY <1>2, <2>1, <3>2, Zenon
  <2>3. CASE w # "main"
    <3>1. pc'["main"] = pc["main"] /\ job'["main"] = job["main"]
      BY <1>3, <2>1, <2>3, RoundEnds DEF goto, WorkerTypes
    <3>2. result'["main"] = result["main"]
      BY <1>3, <2>1, <2>3, Zenon DEF WorkerTypes
    <3>3. QED
      BY <1>2, <2>1, <3>1, <3>2, Zenon
  <2>4. QED
    BY <2>2, <2>3, Zenon
<1>7. ASSUME NEW w \in Workers, ConfirmStoredData(w)
      PROVE  MainStarts'
  <2>1. /\ pc[w] = "stored" /\ UNCHANGED <<l2ConfirmedBlockNumber, result, job>>
        /\ goto(w, "confirming")
    BY <1>1, <1>7, Zenon DEF ConfirmStoredData, daVars
  <2>2. w = "main" \/ pc'["main"] = pc["main"]
    BY <1>3, <2>1, Zenon DEF goto, WorkerTypes
  <2>3. QED
    BY <1>2, <2>1, <2>2, Zenon DEF Busy
<1>8. CASE mainConfirmed \/ FeeCh
  <2>1. UNCHANGED l2ConfirmedBlockNumber
        /\ (goto("main", "fee") \/ goto("main", "idle"))
    BY <1>8, Zenon DEF mainConfirmed, mainFails, FeeCh, daVars
  <2>2. pc'["main"] \in {"fee", "idle"}
    BY <1>3, <2>1, Zenon DEF goto, WorkerTypes
  <2>3. QED
    BY <1>2, <2>1, <2>2, Zenon DEF Busy
<1>9. CASE checkerTick \/ readEntry \/ checkerConfirmed
  <2>1. /\ UNCHANGED l2ConfirmedBlockNumber
        /\ \/ goto("checker", "entry") /\ UNCHANGED job
           \/ goto("checker", "range") /\ \E j : job' = [job EXCEPT !["checker"] = j]
           \/ nextEntry
        /\ result' = result \/ result' = [result EXCEPT !["checker"] = "none"]
    BY <1>9, Zenon DEF checkerTick, readEntry, checkerConfirmed, entryDone, checkerFails, daVars
  <2>2. pc'["main"] = pc["main"] /\ job'["main"] = job["main"]
    BY <1>3, <2>1, RoundEnds DEF goto, WorkerTypes
  <2>3. result'["main"] = result["main"]
    BY <1>3, <2>1, Zenon DEF WorkerTypes
  <2>4. QED
    BY <1>2, <2>1, <2>2, <2>3, Zenon
<1>10. CASE mine
  <2>1. PICK t \in mempool :
          /\ \/ /\ storeData(t)
                /\ job' = IF t.from \in Workers
                          THEN [job EXCEPT ![t.from].id = Len(dataStores) + 1] ELSE job
             \/ t.kind = "confirm" /\ confirmData(t) /\ UNCHANGED job
          /\ spend(t.from, "mined") /\ UNCHANGED pc
    BY <1>10, Zenon DEF mine
  <2>2. job'["main"].start = job["main"].start
    <3>1. job["main"] \in Jobs /\ DOMAIN job = Workers /\ job \in [Workers -> Jobs]
      BY <1>3, Zenon DEF WorkerTypes
    <3>2. CASE t.from \in Workers /\ job' = [job EXCEPT ![t.from].id = Len(dataStores) + 1]
      BY <1>3, <3>1, <3>2, Zenon DEF Jobs
    <3>3. QED
      BY <2>1, <3>2, Zenon
  <2>3. /\ t.from \in Workers /\ result[t.from] = "none"
        /\ t.kind = "confirm" => pc[t.from] = "confirming"
        /\ t.isReRollup = (t.from = "checker")
    BY <1>1, Zenon DEF Owned
  <2>4. result'["main"] = IF t.from = "main" THEN "mined"
                          ELSE IF pc["main"] \in {"storing", "confirming"} /\ result["main"] = "none"
                          THEN "spent" ELSE result["main"]
    BY <1>3, <2>1, Zenon DEF spend
  <2>5. CASE t.kind = "confirm" /\ confirmData(t) /\ t.from = "main"
    BY <2>1, <2>3, <2>4, <2>5, Zenon DEF MainStarts
  <2>6. CASE UNCHANGED l2ConfirmedBlockNumber
    <3>1. Same
      BY <2>1, <2>2, <2>3, <2>4, Zenon
    <3>2. QED
      BY <1>2, <2>6, <3>1, Zenon
  <2>7. QED
    BY <2>1, <2>3, <2>5, <2>6, ZenonT(30) DEF storeData, confirmData, confirmedEnd, Workers
<1>11. CASE mineReverted
  <2>1. PICK t \in mempool : spend(t.from, "reverted")
    BY <1>11, Zenon DEF mineReverted
  <2>2. t.from \in Workers /\ result[t.from] = "none"
    BY <1>1, Zenon DEF Owned
  <2>3. UNCHANGED <<l2ConfirmedBlockNumber, pc, job>>
    BY <1>11, Zenon DEF mineReverted, daVars
  <2>4. Same
    BY <1>3, <2>1, <2>2, <2>3, Zenon DEF spend
  <2>5. QED
    BY <1>2, <2>3, <2>4, Zenon
<1>12. CASE operatorReset
  <2>1. pc'["main"] = "idle"
    BY <1>3, <1>12, ZenonT(30) DEF operatorReset, Undisturbed
  <2>2. QED
    BY <2>1, Zenon DEF MainStarts, Busy
<1>13. CASE feeTick \/ newBlock \/ reSubmit \/ UNCHANGED vars
  <2>1. UNCHANGED <<l2ConfirmedBlockNumber, pc, job, result>>
    BY <1>13, Zenon DEF feeTick, newBlock, reSubmit, submitReRollUpInfo, vars, workers, daVars
  <2>2. QED
    BY <1>2, <2>1, Zenon
<1>14. CASE (\E w \in Workers : sendFails(w)) \/ crash
  BY <1>1, <1>14, Zenon DEF sendFails, crash
<1>15. QED
  BY <1>4, <1>5, <1>6, <1>7, <1>8, <1>9, <1>10, <1>11, <1>12, <1>13, <1>14, Zenon
     DEF Next, MainWorker, CheckConfirmedWorker, FeeWorker, Workers

LEMMA TilesKept ==
    ASSUME DaTypes, Tiles, rollupBatchIndex' = rollupBatchIndex,
           \A i \in 0 .. rollupBatchIndex - 1 : SameBlocks(storeOf(i)', storeOf(i))
    PROVE  Tiles'
<1>1. rollupBatchIndex \in Nat
  BY ZenonT(30) DEF DaTypes
<1>2. \A i \in 0 .. rollupBatchIndex - 1 : endOf(i)' = endOf(i)
  BY <1>1 DEF endOf, SameBlocks
<1>3. QED
  BY <1>2, Zenon DEF Tiles, SameBlocks

\* Without a failed Send a confirmation of new blocks is the main worker's.
LEMMA TilesMine ==
    ASSUME WorkerTypes, DaTypes, Owned, DataInv, Tiles, MainStarts, faults = 0, mine
    PROVE  Tiles'
<1>1. PICK t \in mempool : storeData(t) \/ (t.kind = "confirm" /\ confirmData(t))
  BY Zenon DEF mine
<1>2. rollupBatchIndex \in Nat /\ DOMAIN rollupStores = 0 .. rollupBatchIndex - 1
  BY Zenon DEF DaTypes, DataInv, ContractInv
<1>3. CASE storeData(t)
  <2>1. UNCHANGED <<rollupStores, rollupBatchIndex>>
    BY <1>3, Zenon DEF storeData
  <2>2. \A k \in DOMAIN dataStores : dataStores'[k] = dataStores[k]
    <3>1. dataStores \in Seq(Stores)
      BY Zenon DEF DaTypes
    <3>2. PICK e : dataStores' = Append(dataStores, e)
      BY <1>3, Zenon DEF storeData
    <3>3. QED
      BY <3>1, <3>2
  <2>3. \A i \in 0 .. rollupBatchIndex - 1 : SameBlocks(storeOf(i)', storeOf(i))
    BY <1>2, <2>1, <2>2, ZenonT(30) DEF storeOf, DaTypes, SameBlocks
  <2>4. QED
    BY <2>1, <2>3, TilesKept, Zenon
<1>4. CASE t.kind = "confirm" /\ confirmData(t) /\ t.isReRollup
  <2> DEFINE n == t.batchIndex
  <2>1. /\ n \in DOMAIN rollupStores
        /\ t.start = storeOf(n).start /\ t.end = storeOf(n).end /\ Full(t)
    BY <1>4, Zenon DEF DataInv, MempoolInv, BatchRange
  <2>2. Full(storeOf(n))
    BY <2>1, Zenon DEF DataInv, ContractInv, DaTypes, storeOf
  <2>3. n = IF t.isReRollup THEN t.batchIndex ELSE rollupBatchIndex
    BY <1>4, Zenon
  <2>4. /\ SameBlocks(storeOf(n)', t)
        /\ \A i \in DOMAIN rollupStores \ {n} : SameBlocks(storeOf(i)', storeOf(i))
    BY <1>4, <2>3, Confirmed, ZenonT(30)
  <2>5. SameBlocks(storeOf(n)', storeOf(n))
    BY <2>1, <2>2, <2>4, ZenonT(30) DEF SameBlocks, Full
  <2>6. \A i \in 0 .. rollupBatchIndex - 1 : SameBlocks(storeOf(i)', storeOf(i))
    BY <1>2, <2>4, <2>5, Zenon
  <2>7. rollupBatchIndex' = rollupBatchIndex
    BY <1>4, Zenon DEF confirmData
  <2>8. QED
    BY <2>6, <2>7, TilesKept, Zenon
<1>5. CASE t.kind = "confirm" /\ confirmData(t) /\ ~t.isReRollup
  <2>1. PICK n : n = rollupBatchIndex
    BY Zenon
  <2>2. n \in Nat /\ rollupBatchIndex' = n + 1
    BY <1>2, <1>5, <2>1, Zenon DEF confirmData
  <2>3. n = IF t.isReRollup THEN t.batchIndex ELSE rollupBatchIndex
    BY <1>5, <2>1, Zenon
  <2>4. /\ SameBlocks(storeOf(n)', t)
        /\ \A i \in DOMAIN rollupStores \ {n} : SameBlocks(storeOf(i)', storeOf(i))
    BY <1>5, <2>3, Confirmed, ZenonT(30)
  <2>5. \A i \in 0 .. n - 1 : SameBlocks(storeOf(i)', storeOf(i))
    BY <1>2, <2>1, <2>2, <2>4
  <2>6. \A i \in 0 .. n : endOf(i)' = endOf(i)
    BY <2>2, <2>5 DEF endOf, SameBlocks
  <2>7. t.start = endOf(n)
    <3>1. /\ t.from = "main" /\ result["main"] = "none" /\ pc["main"] = "confirming"
          /\ t.start = job["main"].start
      <4>1. /\ t.from \in Workers /\ t.isReRollup = (t.from = "checker")
            /\ result[t.from] = "none" /\ t.start = job[t.from].start
            /\ pc[t.from] = "confirming"
        BY <1>5, Zenon DEF Owned
      <4>2. t.from # "checker"
        BY <1>5, <4>1, ZenonT(30)
      <4>3. t.from = "main"
        BY <4>1, <4>2, Zenon DEF Workers
      <4>4. QED
        BY <4>1, <4>3, Zenon
    <3>2. QED
      BY <2>1, <3>1, Zenon DEF MainStarts, Busy, DataInv, ContractInv
  <2>8. ASSUME NEW i \in 0 .. n
        PROVE  storeOf(i)'.start = endOf(i)'
    <3>1. CASE i = n
      BY <2>4, <2>6, <2>7, <3>1, Zenon DEF SameBlocks
    <3>2. CASE i # n
      <4>1. i \in 0 .. n - 1
        BY <2>2, <3>2
      <4>2. storeOf(i).start = endOf(i)
        BY <2>1, <4>1, Zenon DEF Tiles
      <4>3. QED
        BY <2>5, <2>6, <4>1, <4>2, Zenon DEF SameBlocks
    <3>3. QED
      BY <3>1, <3>2, Zenon
  <2>9. \A i \in 0 .. rollupBatchIndex' - 1 : storeOf(i)'.start = endOf(i)'
    BY <2>2, <2>8
  <2>10. QED
    BY <2>9, Zenon DEF Tiles
<1>6. QED
  BY <1>1, <1>3, <1>4, <1>5, Zenon

LEMMA TileStep ==
    ASSUME WorkerTypes, WorkerTypes', DaTypes, Owned, DataInv, TileInv, Undisturbed', faults' = 0,
           [Next]_vars
    PROVE  TileInv'
<1>1. Tiles /\ MainStarts /\ faults = 0
  BY FaultsBefore, Zenon DEF TileInv
<1>2. MainStarts'
  BY <1>1, MainStartsStep, Zenon
<1>3. ASSUME mine
      PROVE  Tiles'
  BY <1>1, <1>3, TilesMine, Zenon
<1>4. ASSUME operatorReset
      PROVE  Tiles'
  <2>1. ContractInv
    BY Zenon DEF DataInv
  <2>2. PICK i \in 0 .. rollupBatchIndex - 1 :
          /\ rollupBatchIndex' = i
          /\ \A k \in 0 .. i - 1 : storeOf(k)' = storeOf(k)
    BY <1>4, <2>1, ResetStores, Zenon
  <2>3. rollupBatchIndex \in Nat
    BY Zenon DEF DaTypes
  <2>4. \A k \in 0 .. i - 1 : endOf(k)' = endOf(k)
    BY <2>2, <2>3 DEF endOf
  <2>5. QED
    BY <1>1, <2>2, <2>3, <2>4 DEF Tiles
<1>5. ASSUME UNCHANGED <<dataStores, rollupStores, rollupBatchIndex>>
      PROVE  Tiles'
  <2>1. \A i : storeOf(i)' = storeOf(i)
    BY <1>5, Zenon DEF storeOf
  <2>2. QED
    BY <1>1, <1>5, <2>1, TilesKept, Zenon DEF SameBlocks
<1>6. mine \/ operatorReset \/ UNCHANGED <<dataStores, rollupStores, rollupBatchIndex>>
  BY ZenonT(30) DEF Next, MainWorker, CheckConfirmedWorker, FeeWorker, GetBatchBlockRange,
         DisperseStoreData, storeReturns, ConfirmStoredData, mainConfirmed, checkerTick, readEntry,
         checkerConfirmed, feeTick, FeeCh, sendFails, newBlock, mineReverted, crash, reSubmit,
         submitReRollUpInfo, vars, daVars
<1>7. QED
  BY <1>2, <1>3, <1>4, <1>5, <1>6, Zenon DEF TileInv

-----------------------------------------------------------------------------
\* The invariants, and what they imply.

LEMMA MtInit == Init => IInv /\ EntryInv
<1> SUFFICES ASSUME Init
             PROVE  IInv /\ EntryInv
  BY Zenon
<1> USE DEF Init, DaInit
<1>1. NoJob \in Jobs
  BY Zenon DEF NoJob, Jobs
<1>2. WorkerTypes
  BY <1>1, ZenonT(30) DEF WorkerTypes, Labels
<1>3. DaTypes
  BY DEF DaTypes
<1>4. Owned
  BY Zenon DEF Owned
<1>5. DataInv
  BY DEF DataInv, ContractInv, MempoolInv, MainInv, CheckerInv, endOf, Busy, Workers
<1>6. TileInv
  BY DEF TileInv, Tiles, MainStarts, Busy, Workers
<1>7. EntryInv
  BY DEF EntryInv, OnlyFailedSkipped, Workers
<1>8. QED
  BY <1>2, <1>3, <1>4, <1>5, <1>6, <1>7, Zenon DEF IInv

LEMMA MtStep ==
    ASSUME Counting, IInv, EntryInv, [Next]_vars
    PROVE  IInv' /\ EntryInv'
<1>1. WorkerTypes /\ DaTypes /\ Owned
  BY Zenon DEF IInv
<1>2. DaTypes'
  BY <1>1, DaTypesStep, Zenon
<1>3. WorkerTypes'
  BY <1>1, WorkerTypesStep, Zenon DEF EntryInv
<1>4. Owned'
  BY <1>1, <1>2, <1>3, OwnedStep, Zenon
<1>5. ASSUME Undisturbed'
      PROVE  DataInv'
  <2>1. Undisturbed
    BY <1>1, <1>3, <1>5, UndisturbedBefore, Zenon
  <2>2. QED
    BY <1>1, <1>3, <1>5, <2>1, DataStep, Zenon DEF IInv
<1>6. ASSUME Undisturbed', faults' = 0
      PROVE  TileInv'
  <2>1. Undisturbed /\ faults = 0
    BY <1>1, <1>3, <1>6, UndisturbedBefore, FaultsBefore, Zenon
  <2>2. QED
    BY <1>1, <1>3, <1>6, <2>1, TileStep, Zenon DEF IInv
<1>7. EntryInv'
  BY <1>1, EntryStep, Zenon
<1>8. QED
  BY <1>2, <1>3, <1>4, <1>5, <1>6, <1>7, Zenon DEF IInv

-----------------------------------------------------------------------------
\* The results.

INSTANCE FiniteSetTheorems

\* A set of natural numbers has a least element.
LEMMA Least ==
    ASSUME NEW S \in SUBSET Nat, S # {}
    PROVE  \E i \in S : \A j \in S : i <= j
<1> DEFINE R == {ss \in Nat \X Nat : ss[1] < ss[2]}
<1>1. IsWellFoundedOn(R, Nat)
  BY NatLessThanWellFounded, Zenon DEF OpToRel
<1>2. \E i \in S : \A j \in S : ~ (<<j, i>> \in R)
  <2> HIDE DEF R
  <2> QED BY <1>1, WFMin, ZenonT(30)
<1>3. \A i, j \in Nat : j < i => <<j, i>> \in R
  BY Zenon
<1>4. QED
  <2> HIDE DEF R
  <2>1. PICK i \in S : \A j \in S : ~ (<<j, i>> \in R)
    BY <1>2, Zenon
  <2>2. \A j \in S : ~ (j < i)
    BY <1>3, <2>1, ZenonT(30)
  <2>3. QED
    BY <2>2

LEMMA Counted == Counting
<1>1. \A S \in SUBSET Nat : S # {} => \E i \in S : \A j \in S : i <= j
  BY Least, Zenon
<1>2. \A a, b \in Int : IsFiniteSet(a .. b) /\ (a <= b => Cardinality(a .. b) = b - a + 1)
  BY FS_Interval
<1>3. ASSUME NEW a \in Int, NEW b \in Int, NEW S \in SUBSET (a .. b)
      PROVE  Cardinality(S) \in Nat /\ (Cardinality(S) = 0 => S = {})
  <2>1. IsFiniteSet(S)
    BY <1>2, FS_Subset, Zenon
  <2>2. QED
    BY <2>1, FS_CardinalityType, FS_EmptySet, Zenon
<1>4. QED
  BY <1>1, <1>2, <1>3, ZenonT(30) DEF Counting

LEMMA MtInvariant == Spec => [](IInv /\ EntryInv)
<1>1. Init => IInv /\ EntryInv
  BY MtInit, Zenon
<1>2. IInv /\ EntryInv /\ [Next]_vars => IInv' /\ EntryInv'
  BY Counted, MtStep, Zenon
<1>3. QED
  BY <1>1, <1>2, PTL DEF Spec

\* For every batch size, number of blocks, re-rollups and troubles: the data of
\* every block below l2ConfirmedBlockNumber is in the store of a batch, unless
\* TxAggregator could not read a block or a reset met a round.
THEOREM ConfirmedDataAvailable == Spec => []DataAvailable
<1>1. IInv => DataAvailable
  <2> SUFFICES ASSUME IInv, Undisturbed
               PROVE  \A b \in 0 .. l2ConfirmedBlockNumber - 1 :
                        \E i \in DOMAIN rollupStores : i < rollupBatchIndex /\ b \in storeOf(i).data
    BY Zenon DEF DataAvailable, Undisturbed
  <2>1. ContractInv /\ rollupBatchIndex \in Nat
    BY Zenon DEF IInv, DataInv, DaTypes
  <2>2. rollupBatchIndex \in 0 .. rollupBatchIndex
    BY <2>1
  <2>3. \A b \in 0 .. l2ConfirmedBlockNumber - 1 :
          \E i \in 0 .. rollupBatchIndex - 1 : b \in storeOf(i).data
    BY <2>1, <2>2, Zenon DEF ContractInv
  <2>4. \A i \in 0 .. rollupBatchIndex - 1 : i \in DOMAIN rollupStores /\ i < rollupBatchIndex
    BY <2>1 DEF ContractInv
  <2>5. QED
    BY <2>3, <2>4, Zenon
<1>2. QED
  BY <1>1, MtInvariant, PTL

\* Without a failed Send or a crash, a block that could not be read and a reset
\* in a round, every batch starts where the one before it ends, and the last
\* one ends at l2ConfirmedBlockNumber.
THEOREM BatchesTiled == Spec => []BatchesTile
<1>1. IInv => BatchesTile
  <2> SUFFICES ASSUME IInv, faults = 0, Undisturbed
               PROVE  /\ DOMAIN rollupStores = 0 .. rollupBatchIndex - 1
                      /\ \A i \in DOMAIN rollupStores :
                           storeOf(i).start = IF i = 0 THEN 0 ELSE storeOf(i - 1).end
                      /\ rollupBatchIndex > 0 =>
                           storeOf(rollupBatchIndex - 1).end = l2ConfirmedBlockNumber
    BY Zenon DEF BatchesTile, Undisturbed
  <2>1. ContractInv /\ TileInv /\ rollupBatchIndex \in Nat
    BY Zenon DEF IInv, DataInv, DaTypes
  <2>2. QED
    BY <2>1 DEF ContractInv, TileInv, Tiles, endOf
<1>2. QED
  BY <1>1, MtInvariant, PTL

\* The index in the level DB passes no entry other than the first that was not
\* confirmed and met no error, through crashes and failed calls.
THEOREM SkipsOnlyFailed == Spec => []OnlyFailedSkipped
<1>1. EntryInv => OnlyFailedSkipped
  BY Zenon DEF EntryInv
<1>2. QED
  BY <1>1, MtInvariant, PTL
=============================================================================
