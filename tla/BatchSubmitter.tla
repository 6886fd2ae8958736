--------------------------- MODULE BatchSubmitter ---------------------------
(***************************************************************************)
(* The batch submitter of L2 transactions (bss-core/service.go with the    *)
(* sequencer driver) against the CanonicalTransactionChain.  The service   *)
(* keeps no state between rounds: it reads where the chain ends, crafts a  *)
(* batch from there, and sends it through the transaction manager, of      *)
(* which only the outcome is kept (see TxMgr).  What it read may be stale  *)
(* when the transaction is mined, and transactions of an earlier round or  *)
(* an earlier incarnation may still be in the mempool.                     *)
(***************************************************************************)
EXTENDS CanonicalTransactionChain, SequencerBatch

CONSTANTS
    BlockOffset,                \* L2 blocks that are not in the chain of batches
    MinRollupTxn, MaxRollupTxn,
    DaUpgradeBlock,             \* from this L2 block on data availability comes first
    Timestamps, BlockNumbers,   \* what L2 blocks may carry
    MaxL2,                      \* bound on the L2 chain
    MaxFaults,                  \* bound on crashes and failed sends
    MaxReorgs,                  \* bound on L1 reorganisations
    MaxTroubles                 \* bound on these and the owner's resets together

ASSUME SubmitterConstants == MinRollupTxn \in Nat /\ MaxRollupTxn \in Nat

VARIABLES
    l2,             \* the sequencer's blocks after genesis, one transaction each
    daConfirmed,    \* L2 blocks below this one are confirmed by the DA contract
    pc, start, end, nonce,      \* the round of the service
    mempool,        \* L1 transactions of the service's wallet
    spent,          \* the wallet's nonce on L1
    undo,           \* the last mined transaction and what it replaced, or << >>
    faults, reorgs  \* so far

service == <<pc, start, end, nonce>>
l1 == <<mempool, spent, undo, reorgs>>
l2Vars == <<l2, daConfirmed>>
vars == <<ctcVars, l2Vars, service, l1, faults>>

Init ==
    /\ CtcInit
    /\ l2 = << >> /\ daConfirmed = 0
    /\ pc = "idle" /\ start = 0 /\ end = 0 /\ nonce = 0
    /\ mempool = {} /\ spent = 0 /\ undo = << >>
    /\ faults = 0 /\ reorgs = 0

troubles == faults + reorgs + resets

-----------------------------------------------------------------------------
\* External: the sequencer, as SyncService has it, and data availability.

newBlock ==
    /\ Len(l2) < MaxL2
    /\ \E ts \in Timestamps, bn \in BlockNumbers, q \in {NotQueued, queuedIn(l2)} :
         /\ q < queueLength
         /\ l2 # << >> => ts >= l2[Len(l2)].timestamp
         /\ l2' = Append(l2, [queueIndex |-> q, timestamp |-> ts, blockNumber |-> bn])
    /\ UNCHANGED <<ctcVars, daConfirmed, service, l1, faults>>

confirmDa ==
    /\ daConfirmed < Len(l2) + 1
    /\ daConfirmed' = Len(l2) + 1
    /\ UNCHANGED <<ctcVars, l2, service, l1, faults>>

-----------------------------------------------------------------------------
\* One round of the event loop.

\* The round ends, and with it what it has read.
endRound == pc' = "idle" /\ start' = 0 /\ end' = 0 /\ nonce' = 0

\* GetBatchBlockRange: the two ends are read in two calls.
readStart ==
    /\ pc = "idle"
    /\ start' = totalElements + BlockOffset
    /\ pc' = "start"
    /\ UNCHANGED <<ctcVars, l2Vars, end, nonce, l1, faults>>

\* Slip: the end is taken to be inclusive.
rangeEnd_Inclusive(from, upTo) ==
    IF upTo - from < MinRollupTxn THEN from
    ELSE IF upTo - from > MaxRollupTxn THEN from + MaxRollupTxn ELSE upTo - 1

rangeEnd(from, upTo) ==
    IF upTo - from < MinRollupTxn THEN from
    ELSE IF upTo - from > MaxRollupTxn THEN from + MaxRollupTxn ELSE upTo

readEnd ==
    /\ pc = "start"
    /\ LET to == rangeEnd(start, IF Len(l2) < DaUpgradeBlock THEN Len(l2) + 1 ELSE daConfirmed)
       IN  \/ to = start /\ endRound
           \/ to # start /\ end' = to /\ pc' = "range" /\ UNCHANGED <<start, nonce>>
    /\ UNCHANGED <<ctcVars, l2Vars, l1, faults>>

readNonce ==
    /\ pc = "range"
    /\ nonce' = spent
    /\ pc' = "craft"
    /\ UNCHANGED <<ctcVars, l2Vars, start, end, l1, faults>>

\* CraftBatchTx: L2 block n is element n of l2.
craft(from, to) ==
    GenSequencerBatchParams(from - BlockOffset, SubSeq(l2, from, to - 1))

\* txMgr.Send: the transaction enters the mempool, unless its nonce is spent.
send ==
    /\ pc = "craft"
    /\ \/ /\ nonce = spent
          /\ mempool' = mempool \cup {[nonce |-> nonce, call |-> <<craft(start, end)>>]}
          /\ pc' = "wait"
          /\ UNCHANGED <<start, end, nonce>>
       \/ /\ nonce # spent
          /\ endRound
          /\ UNCHANGED mempool
    /\ UNCHANGED <<ctcVars, l2Vars, spent, undo, reorgs, faults>>

\* ... and returns once some transaction of the nonce is mined,
sent ==
    /\ pc \in {"wait", "waitClear"}
    /\ spent > nonce
    /\ endRound
    /\ UNCHANGED <<ctcVars, l2Vars, l1, faults>>

\* ... or with an error, the transaction still in the mempool.
sendFails ==
    /\ pc = "wait"
    /\ faults < MaxFaults /\ troubles < MaxTroubles
    /\ faults' = faults + 1
    /\ endRound
    /\ UNCHANGED <<ctcVars, l2Vars, l1>>

\* The service stops and starts again, configured to clear pending
\* transactions first or not.
restart ==
    /\ faults < MaxFaults /\ troubles < MaxTroubles
    /\ faults' = faults + 1
    /\ \/ endRound
       \/ pc' = "clear" /\ start' = 0 /\ end' = 0 /\ nonce' = 0
    /\ UNCHANGED <<ctcVars, l2Vars, l1>>

\* ClearPendingTx sends an empty transaction at the next nonce.
ClearPendingTx ==
    /\ pc = "clear"
    /\ nonce' = spent
    /\ mempool' = mempool \cup {[nonce |-> spent, call |-> << >>]}
    /\ pc' = "waitClear"
    /\ UNCHANGED <<ctcVars, l2Vars, start, end, spent, undo, reorgs, faults>>

-----------------------------------------------------------------------------
\* External: L1 mines one transaction of each nonce and drops the others.  A
\* call that the contract does not accept reverts, and spends its nonce.

mine ==
    /\ \E t \in mempool :
         /\ t.nonce = spent
         /\ IF t.call # << >> /\ accepts(t.call[1])
            THEN appendSequencerBatch(t.call[1])
            ELSE UNCHANGED ctcVars
    /\ spent' = spent + 1
    /\ mempool' = {u \in mempool : u.nonce > spent}
    /\ undo' = <<[mempool |-> {u \in mempool : u.nonce = spent}, batches |-> batches,
                  total |-> totalElements, inMeta |-> nextQueueIndex,
                  inContract |-> _nextQueueIndex]>>
    /\ UNCHANGED <<l2Vars, service, faults, reorgs>>

\* The block of the last transaction is replaced by one without it.
reorg ==
    /\ reorgs < MaxReorgs /\ troubles < MaxTroubles
    /\ undo # << >>
    /\ batches' = undo[1].batches /\ totalElements' = undo[1].total
    /\ nextQueueIndex' = undo[1].inMeta /\ _nextQueueIndex' = undo[1].inContract
    /\ spent' = spent - 1
    /\ mempool' = mempool \cup undo[1].mempool
    /\ undo' = << >>
    /\ reorgs' = reorgs + 1
    /\ UNCHANGED <<queueLength, resets, l2Vars, service, faults>>

Service == readStart \/ readEnd \/ readNonce \/ send \/ sent \/ ClearPendingTx

Next ==
    \/ Service \/ sendFails \/ restart
    \/ mine \/ reorg
    \/ newBlock \/ confirmDa
    \/ enqueue /\ UNCHANGED <<l2Vars, service, l1, faults>>
    \/ reset /\ undo' = << >> /\ troubles < MaxTroubles
             /\ UNCHANGED <<l2Vars, service, mempool, spent, reorgs, faults>>

\* The service's loop runs, L1 mines what is in its mempool, and data
\* availability is confirmed sooner or later.
Spec == Init /\ [][Next]_vars /\ WF_vars(Service) /\ WF_vars(mine) /\ WF_vars(confirmDa)

-----------------------------------------------------------------------------
\* What a reader of L1 takes the L2 chain to be.
canonical ==
    FoldLeft(LAMBDA txs, b : txs \o parseEvent(b.startingQueueIndex, b.contexts),
             << >>, batches)

(* The chain of batches on L1 is the beginning of the sequencer's chain:    *)
(* every block once, in order, each queue transaction in its own place,     *)
(* whatever was retried, restarted, mined late or reorganised.              *)
CanonicalIsPrefix ==
    /\ totalElements = Len(canonical)
    /\ totalElements <= Len(l2)
    /\ canonical = publishedAll(SubSeq(l2, 1, totalElements))

(* Both copies of the index say which queue element is the first one that   *)
(* is not in a batch (the comment at _nextQueueIndex).                      *)
QueueIndexesAgree ==
    /\ nextQueueIndex = _nextQueueIndex
    /\ _nextQueueIndex = queuedIn(canonical)

(* The submitter catches up: once the L2 chain stops growing at most a      *)
(* remainder too small for a batch stays out of the chain of batches.       *)
CatchesUp == <>[](Len(l2) + 1 - BlockOffset - totalElements < MinRollupTxn)
=============================================================================
