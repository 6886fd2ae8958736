--------------------------- MODULE SequencerBatch ---------------------------
(***************************************************************************)
(* How L2 blocks are written into a batch and read back from it: the batch *)
(* submitter groups blocks that share a timestamp and a block number into  *)
(* contexts (GenSequencerBatchParams), the data transport layer unfolds    *)
(* the contexts into transactions again (parseEvent).  A queue transaction *)
(* is not written at all, only counted, and is recovered from its place    *)
(* in the L1 queue.  The payload of the sequencer transactions, which a    *)
(* batch carried before the data availability upgrade, is left out.        *)
(***************************************************************************)
EXTENDS Integers, Sequences, FiniteSets, Loops

NotQueued == -1

\* A block's one transaction: its queue index (NotQueued for a sequencer
\* transaction), and the timestamp and L1 block number it carries.
IsSequencerTx(el) == el.queueIndex = NotQueued

\* How many queue transactions are among them.
queuedIn(els) == Cardinality({n \in DOMAIN els : ~IsSequencerTx(els[n])})

-----------------------------------------------------------------------------
\* GenSequencerBatchParams: the loop over the elements.

Grouping == [groups |-> << >>, last |-> << >>]

needsNewGroup(g, el) ==
    \/ g.groups = << >>
    \/ el.timestamp # g.last[1].timestamp
    \/ /\ IsSequencerTx(el)
       /\ \/ ~IsSequencerTx(g.last[1])
          \/ el.blockNumber # g.last[1].blockNumber

addTo(group, el) ==
    IF IsSequencerTx(el) THEN [group EXCEPT !.sequenced = Append(@, el)]
                         ELSE [group EXCEPT !.queued = Append(@, el)]

groupStep(g, el) ==
    LET open == IF needsNewGroup(g, el)
                THEN Append(g.groups, [sequenced |-> << >>, queued |-> << >>])
                ELSE g.groups
    IN  [groups |-> [open EXCEPT ![Len(open)] = addTo(@, el)], last |-> <<el>>]

contextOf(group) ==
    LET first == IF group.sequenced # << >> THEN group.sequenced[1] ELSE group.queued[1]
    IN  [numSequenced |-> Len(group.sequenced), numQueued |-> Len(group.queued),
         timestamp |-> first.timestamp, blockNumber |-> first.blockNumber]

groupAll(batch) == FoldLeft(groupStep, Grouping, batch)

contextsOf(g) == [i \in 1 .. Len(g.groups) |-> contextOf(g.groups[i])]

\* The whole call, for the blocks of a batch.
GenSequencerBatchParams(shouldStartAtElement, batch) ==
    [shouldStartAtElement |-> shouldStartAtElement,
     totalElementsToAppend |-> Len(batch),
     contexts |-> contextsOf(groupAll(batch))]

-----------------------------------------------------------------------------
\* parseEvent: the loop over the contexts.  The block number of a queue
\* transaction is left for the queue entry to supply.

unfoldContext(acc, c) ==
    LET n == queuedIn(acc.txs)
    IN  [acc EXCEPT !.txs = @
            \o [j \in 1 .. c.numSequenced |->
                  [queueIndex |-> NotQueued, timestamp |-> c.timestamp,
                   blockNumber |-> c.blockNumber]]
            \o [j \in 1 .. c.numQueued |->
                  [queueIndex |-> acc.start + n + j - 1, timestamp |-> c.timestamp,
                   blockNumber |-> 0]]]

parseEvent(startingQueueIndex, contexts) ==
    FoldLeft(unfoldContext, [start |-> startingQueueIndex, txs |-> << >>], contexts).txs

\* What a reader can know of a block from L1.
published(el) ==
    IF IsSequencerTx(el) THEN el ELSE [el EXCEPT !.blockNumber = 0]

publishedAll(els) == [i \in 1 .. Len(els) |-> published(els[i])]

=============================================================================
