--------------------------- MODULE DataLayrChain ---------------------------
(***************************************************************************)
(* BVM_EigenDataLayrChain.sol: which L2 blocks have their data in a data   *)
(* store of the DA layer.  A data store is announced by storeData and      *)
(* becomes a rollup batch by confirmData; a batch can be rolled up again   *)
(* into another data store.  The DA service manager hands out data store   *)
(* identifiers from 1 on and fixes the data by its header; it is external. *)
(***************************************************************************)
EXTENDS Integers, Sequences

VARIABLES
    dataStores,     \* dataStoreIdToL2RollUpBlock, dataStoreIdToRollupStoreNumber
                    \* and the data, by identifier
    rollupStores,   \* rollupBatchIndexRollupStores; its domain: what is not zero
    rollupBatchIndex,
    l2StoredBlockNumber, l2ConfirmedBlockNumber,
    reRollupBatchIndex      \* the batches to roll up again; reRollupIndex: its length

daVars == <<dataStores, rollupStores, rollupBatchIndex,
            l2StoredBlockNumber, l2ConfirmedBlockNumber, reRollupBatchIndex>>

\* DATA_STORE_INITIALIZED_BUT_NOT_CONFIRMED
NotConfirmed == -1

DaInit ==
    /\ dataStores = << >> /\ rollupStores = << >>
    /\ rollupBatchIndex = 0
    /\ l2StoredBlockNumber = 0 /\ l2ConfirmedBlockNumber = 0
    /\ reRollupBatchIndex = << >>

\* What storeData requires of the range; the age of the reference block is
\* left to the caller.
storable(t) == t.end > t.start

storeData(t) ==
    /\ dataStores' = Append(dataStores,
           [start |-> t.start, end |-> t.end, isReRollup |-> t.isReRollup,
            number |-> NotConfirmed, data |-> t.data])
    /\ l2StoredBlockNumber' = IF t.isReRollup THEN l2StoredBlockNumber ELSE t.end
    /\ UNCHANGED <<rollupStores, rollupBatchIndex, l2ConfirmedBlockNumber, reRollupBatchIndex>>

\* The requires of confirmData.  The start of the range is not compared with
\* l2ConfirmedBlockNumber.
confirmable(t) ==
    /\ t.end > t.start
    /\ t.id \in DOMAIN dataStores
    /\ dataStores[t.id].start = t.start
    /\ dataStores[t.id].end = t.end
    /\ dataStores[t.id].isReRollup = t.isReRollup
    /\ dataStores[t.id].number = NotConfirmed

\* Slip: rolling a batch up again moves the end of the confirmed blocks too.
confirmedEnd_Always(t) == t.end

confirmedEnd(t) == IF t.isReRollup THEN l2ConfirmedBlockNumber ELSE t.end

\* A new batch gets the next index, a batch rolled up again the one it had.
confirmData(t) ==
    LET number == IF t.isReRollup THEN t.batchIndex ELSE rollupBatchIndex
        origin == IF t.isReRollup THEN t.origin ELSE t.id
    IN  /\ rollupStores' = [i \in DOMAIN rollupStores \cup {number} |->
              IF i = number THEN [origin |-> origin, dataStoreId |-> t.id] ELSE rollupStores[i]]
        /\ rollupBatchIndex' = IF t.isReRollup THEN rollupBatchIndex ELSE rollupBatchIndex + 1
        /\ l2ConfirmedBlockNumber' = confirmedEnd(t)
        /\ dataStores' = [dataStores EXCEPT ![t.id].number = number]
        /\ UNCHANGED <<l2StoredBlockNumber, reRollupBatchIndex>>

\* Does nothing for a batch without a data store.
submitReRollUpInfo(batchIndex) ==
    /\ batchIndex \in DOMAIN rollupStores
    /\ reRollupBatchIndex' = Append(reRollupBatchIndex, batchIndex)
    /\ UNCHANGED <<dataStores, rollupStores, rollupBatchIndex,
                   l2StoredBlockNumber, l2ConfirmedBlockNumber>>

resetRollupBatchData(index, stored, confirmed) ==
    /\ rollupStores' = [i \in {j \in DOMAIN rollupStores : j < index \/ j >= rollupBatchIndex}
                        |-> rollupStores[i]]
    /\ rollupBatchIndex' = index
    /\ l2StoredBlockNumber' = stored
    /\ l2ConfirmedBlockNumber' = confirmed
    /\ UNCHANGED <<dataStores, reRollupBatchIndex>>

\* The data store of a batch, as getRollupStoreByRollupBatchIndex and
\* getL2RollUpBlockByDataStoreId return it.
storeOf(i) == dataStores[rollupStores[i].dataStoreId]
=============================================================================
