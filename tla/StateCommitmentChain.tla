------------------------ MODULE StateCommitmentChain ------------------------
(***************************************************************************)
(* The L1 contract that holds the batches of L2 state roots                *)
(* (packages/contracts/contracts/L1/rollup/StateCommitmentChain.sol), with *)
(* the chain storage container it keeps them in.                           *)
(*                                                                         *)
(* A batch is its header.  The header's hash is what the contract stores,  *)
(* so "the hash matches" is equality of headers.  A call that reverts      *)
(* changes nothing, so an action is a call that succeeds and its guard is  *)
(* the conjunction of the call's requirements.  The TSS group's signature  *)
(* over a batch is verified by another contract: an action is taken only   *)
(* with a batch whose signature verifies.                                  *)
(***************************************************************************)
EXTENDS Integers, Sequences

CONSTANTS
    Senders,                   \* the addresses that call the contract
    BVM_Proposer,              \* the address the BondManager finds collateralized
    BVM_FraudVerifier,         \* the address that may delete batches
    Roots,                     \* merkle roots of batches
    Windows,                   \* the fraud proof windows the owner may set
    SEQUENCER_PUBLISH_WINDOW,
    MaxBatchSize,              \* bound: state roots in one batch
    MaxElements,               \* bound: transactions in the CTC
    MaxTime                    \* bound: last block timestamp

ASSUME SccConstants ==
    /\ BVM_Proposer \in Senders
    /\ BVM_FraudVerifier \in Senders
    /\ Windows \subseteq Nat
    /\ SEQUENCER_PUBLISH_WINDOW \in Nat
    /\ MaxBatchSize \in Nat
    /\ MaxElements \in Nat
    /\ MaxTime \in Nat

VARIABLES
    batches,                   \* the batch headers in the container, in order
    totalElements,             \* first field of the container's metadata
    lastSequencerTimestamp,    \* second field of the container's metadata
    FRAUD_PROOF_WINDOW,
    ctcTotal,                  \* getTotalElements() of the CanonicalTransactionChain
    now                        \* block.timestamp

sccVars == <<batches, totalElements, lastSequencerTimestamp, FRAUD_PROOF_WINDOW>>
vars == <<sccVars, ctcTotal, now>>

Header == [batchIndex : Nat, batchRoot : Roots, batchSize : Nat,
           prevTotalElements : Nat, timestamp : Nat, sender : Senders]

-----------------------------------------------------------------------------
getTotalBatches == Len(batches)

\* The stored hash at the header's index; Lib_Buffer.get reverts past the end.
isValidBatchHeader(h) ==
    /\ h.batchIndex < getTotalBatches
    /\ batches[h.batchIndex + 1] = h

insideFraudProofWindow(h) == h.timestamp + FRAUD_PROOF_WINDOW > now

isCollateralized(sender) == sender = BVM_Proposer

\* Slip: prevTotalElements read after the count was raised.
NewHeader_AfterCount(sender, root, size) ==
    [batchIndex |-> getTotalBatches, batchRoot |-> root, batchSize |-> size,
     prevTotalElements |-> totalElements + size, timestamp |-> now, sender |-> sender]

\* The header _appendBatch makes of a batch.
NewHeader(sender, root, size) ==
    [batchIndex |-> getTotalBatches, batchRoot |-> root, batchSize |-> size,
     prevTotalElements |-> totalElements, timestamp |-> now, sender |-> sender]

\* No more state roots than there are transactions.
fitsCtc(size) == totalElements + size <= ctcTotal

\* appendStateBatch: _shouldStartAtElement is what the caller believes the
\* total to be.  Within _appendBatch only the proposer escapes the publication
\* window and refreshes the last sequencer timestamp.
appendStateBatch(sender, root, size, shouldStartAtElement) ==
    /\ shouldStartAtElement = totalElements
    /\ isCollateralized(sender)
    /\ size > 0
    /\ fitsCtc(size)
    /\ sender # BVM_Proposer =>
           lastSequencerTimestamp + SEQUENCER_PUBLISH_WINDOW < now
    /\ batches' = Append(batches, NewHeader(sender, root, size))
    /\ totalElements' = totalElements + size
    /\ lastSequencerTimestamp' =
           IF sender = BVM_Proposer THEN now ELSE lastSequencerTimestamp
    /\ UNCHANGED FRAUD_PROOF_WINDOW

\* Slip: no look at the fraud proof window.
mayDelete_AnyTime(h) == isValidBatchHeader(h)

mayDelete(h) == isValidBatchHeader(h) /\ insideFraudProofWindow(h)

\* The element count _deleteBatch goes back to.
totalBefore(h) == h.prevTotalElements

\* deleteStateBatch and _deleteBatch: the batch and every later one go.
deleteStateBatch(sender, h) ==
    /\ sender = BVM_FraudVerifier
    /\ mayDelete(h)
    /\ batches' = SubSeq(batches, 1, h.batchIndex)
    /\ totalElements' = totalBefore(h)
    /\ lastSequencerTimestamp' = 0
    /\ UNCHANGED FRAUD_PROOF_WINDOW

setFraudProofWindow(w) ==
    /\ FRAUD_PROOF_WINDOW' = w
    /\ UNCHANGED <<batches, totalElements, lastSequencerTimestamp>>

-----------------------------------------------------------------------------
Init ==
    /\ batches = <<>>
    /\ totalElements = 0
    /\ lastSequencerTimestamp = 0
    /\ FRAUD_PROOF_WINDOW \in Windows
    /\ ctcTotal = 0
    /\ now = 1

\* A transaction is appended to the CanonicalTransactionChain.
CtcGrows ==
    /\ ctcTotal < MaxElements
    /\ ctcTotal' = ctcTotal + 1
    /\ UNCHANGED <<sccVars, now>>

\* An L1 block is mined.
MineBlock ==
    /\ now < MaxTime
    /\ now' = now + 1
    /\ UNCHANGED <<sccVars, ctcTotal>>

AppendStateBatch ==
    \E sender \in Senders, root \in Roots, size \in 1 .. MaxBatchSize,
       start \in 0 .. MaxElements :
        /\ appendStateBatch(sender, root, size, start)
        /\ UNCHANGED <<ctcTotal, now>>

\* Any header may be passed in, one of a batch deleted earlier included.
AnyHeader ==
    [batchIndex : 0 .. MaxElements, batchRoot : Roots,
     batchSize : 1 .. MaxBatchSize, prevTotalElements : 0 .. MaxElements,
     timestamp : 1 .. MaxTime, sender : Senders]

DeleteStateBatch ==
    \E sender \in Senders, h \in AnyHeader :
        /\ deleteStateBatch(sender, h)
        /\ UNCHANGED <<ctcTotal, now>>

SetFraudProofWindow ==
    \E w \in Windows :
        /\ setFraudProofWindow(w)
        /\ UNCHANGED <<ctcTotal, now>>

Next == AppendStateBatch \/ DeleteStateBatch \/ SetFraudProofWindow
            \/ CtcGrows \/ MineBlock

Spec == Init /\ [][Next]_vars

-----------------------------------------------------------------------------
(* The totals the batch headers and the container keep are naturals: the    *)
(* subtractions of StateCommitmentChain.sol never underflow.                *)
TypeOK ==
    /\ batches \in Seq(Header)
    /\ totalElements \in Nat
    /\ lastSequencerTimestamp \in Nat
    /\ FRAUD_PROOF_WINDOW \in Nat
    /\ ctcTotal \in Nat
    /\ now \in Nat

\* appendStateBatch and _deleteBatch keep the element count in the container's
\* metadata and the prevTotalElements of the headers in step: every batch
\* starts where the one before it ends, the metadata points to the end of the
\* last one, and each header carries the index it is stored at.
End(i) == batches[i].prevTotalElements + batches[i].batchSize

BatchesContiguous ==
    /\ \A i \in 1 .. Len(batches) :
           /\ batches[i].batchIndex = i - 1
           /\ batches[i].batchSize > 0
           /\ batches[i].prevTotalElements = IF i = 1 THEN 0 ELSE End(i - 1)
    /\ totalElements = IF Len(batches) = 0 THEN 0 ELSE End(Len(batches))

\* appendStateBatch admits no state root for a transaction the
\* CanonicalTransactionChain does not hold.
StateWithinCtc == totalElements <= ctcTotal

\* Batches are stored in the order of their timestamps, none from the future:
\* what lets deleteStateBatch check the window of the first batch only.
TimestampsOrdered ==
    /\ \A i \in 1 .. Len(batches) : batches[i].timestamp <= now
    /\ \A i, j \in 1 .. Len(batches) :
           i <= j => batches[i].timestamp <= batches[j].timestamp

\* deleteStateBatch takes out the batch it is given and all later ones but
\* tests the window of the first only; still no step ever removes or changes
\* a batch that is out of the fraud proof window when the step is taken.
FinalBatchesSurvive ==
    [][\A i \in 1 .. Len(batches) :
           ~insideFraudProofWindow(batches[i]) =>
               i <= Len(batches') /\ batches'[i] = batches[i]]_vars
=============================================================================
