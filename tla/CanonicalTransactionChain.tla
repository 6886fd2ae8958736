---------------------- MODULE CanonicalTransactionChain ----------------------
(***************************************************************************)
(* CanonicalTransactionChain.sol: the queue of L1 to L2 transactions and   *)
(* the chain of batches that fixes the order of all L2 transactions.  A    *)
(* batch is kept by the fields its header hash commits to.  The index of   *)
(* the next queue element is stored twice: in the contract and in the      *)
(* metadata of the batch container.                                        *)
(***************************************************************************)
EXTENDS Integers, Sequences, Loops

CONSTANTS
    MaxQueue,       \* bound on the queue
    MaxResets,      \* bound on the resets
    ResetForms      \* how the owner describes the state to reset to, see resetIndex

VARIABLES
    queueLength,        \* queueElements, by its length
    _nextQueueIndex,    \* the contract's own copy
    batches,            \* the batch container: sizes and contents
    totalElements,      \* container metadata
    nextQueueIndex,     \* container metadata
    resets              \* so far

ctcVars == <<queueLength, _nextQueueIndex, batches, totalElements, nextQueueIndex, resets>>

CtcInit ==
    /\ queueLength = 0 /\ _nextQueueIndex = 0
    /\ batches = << >>
    /\ totalElements = 0 /\ nextQueueIndex = 0
    /\ resets = 0

\* Gas limits, gas burning and the sender's alias are left out: whoever
\* passes them appends one element.
enqueue ==
    /\ queueLength < MaxQueue
    /\ queueLength' = queueLength + 1
    /\ UNCHANGED <<_nextQueueIndex, batches, totalElements, nextQueueIndex, resets>>

numSequencerTransactions(p) ==
    FoldLeft(LAMBDA n, c : n + c.numSequenced, 0, p.contexts)

queueAfter(p) ==
    FoldLeft(LAMBDA n, c : n + c.numQueued, _nextQueueIndex, p.contexts)

\* Slip: the batch may start anywhere.
accepts_Anywhere(p) ==
    /\ queueAfter(p) <= queueLength
    /\ numSequencerTransactions(p) <= p.totalElementsToAppend

\* The requires of appendSequencerBatch; an underflow reverts too.
accepts(p) ==
    /\ p.shouldStartAtElement = totalElements
    /\ queueAfter(p) <= queueLength
    /\ numSequencerTransactions(p) <= p.totalElementsToAppend

numQueuedTransactions(p) == p.totalElementsToAppend - numSequencerTransactions(p)

appendSequencerBatch(p) ==
    /\ batches' = Append(batches,
           [prevTotalElements |-> totalElements,
            batchSize |-> p.totalElementsToAppend,
            startingQueueIndex |-> queueAfter(p) - numQueuedTransactions(p),
            numQueued |-> numQueuedTransactions(p),
            contexts |-> p.contexts])
    /\ totalElements' = totalElements + p.totalElementsToAppend
    /\ nextQueueIndex' = nextQueueIndex + numQueuedTransactions(p)
    /\ _nextQueueIndex' = queueAfter(p)
    /\ UNCHANGED <<queueLength, resets>>

\* Slip: the contract's own copy of the queue index is left as it was.
resetIndex_Metadata(i, t) ==
    /\ i < Len(batches)
    /\ batches' = SubSeq(batches, 1, i)
    /\ totalElements' = t.totalElement + t.batchSize
    /\ nextQueueIndex' = t.nextqIndex + t.numQueuedTransactions
    /\ resets' = resets + 1
    /\ UNCHANGED <<queueLength, _nextQueueIndex>>

\* resetIndex deletes the batches from index i on; the owner passes totals of
\* which the contract keeps one sum in the metadata and one summand in
\* _nextQueueIndex.  "totals" passes the totals after the last batch kept,
\* "lastBatch" the fields of that batch.
resetIndex(i, t) ==
    /\ i < Len(batches)
    /\ batches' = SubSeq(batches, 1, i)
    /\ totalElements' = t.totalElement + t.batchSize
    /\ nextQueueIndex' = t.nextqIndex + t.numQueuedTransactions
    /\ _nextQueueIndex' = t.nextqIndex
    /\ resets' = resets + 1
    /\ UNCHANGED queueLength

resetArguments(form, i) ==
    LET kept == batches[i]
        cut == batches[i + 1]
    IN  IF form = "totals" \/ i = 0
        THEN [totalElement |-> cut.prevTotalElements, batchSize |-> 0,
              nextqIndex |-> cut.startingQueueIndex, numQueuedTransactions |-> 0]
        ELSE [totalElement |-> kept.prevTotalElements, batchSize |-> kept.batchSize,
              nextqIndex |-> kept.startingQueueIndex,
              numQueuedTransactions |-> kept.numQueued]

reset ==
    /\ resets < MaxResets
    /\ \E i \in 0 .. Len(batches) - 1, form \in ResetForms :
         resetIndex(i, resetArguments(form, i))
=============================================================================
