------------------------- MODULE StateBatches_proof -------------------------
(***************************************************************************)
(* Proofs about the batches of state roots.  On L1: StateCommitmentChain,  *)
(* for any senders, roots, windows and bounds.  In the data transport      *)
(* layer that copies them: L1Ingestion, what the database holds of the     *)
(* queue and of the state batches, for every confirmation depth, every     *)
(* polling range and any number of events, reorganisations, omissions and  *)
(* crashes.                                                                *)
(***************************************************************************)
EXTENDS StateCommitmentChain, L1Ingestion, SequenceTheorems, WellFoundedInduction,
        TLAPS

\* Batches end later and later.  Stated for all pairs: that neighbours are in
\* order would need an induction to be of use.
EndsOrdered ==
    \A i, j \in 1 .. Len(batches) : i <= j => End(i) <= End(j)

\* The inductive invariant: the deletion of a batch restores the element count
\* from the header of that batch, so the count is right afterwards only if all
\* headers are contiguous; the order of time needs "none from the future".
SccInv ==
    /\ TypeOK /\ BatchesContiguous /\ EndsOrdered
    /\ StateWithinCtc /\ TimestampsOrdered

\* The constructor's state satisfies the invariant.
LEMMA SccInitInv == Init => SccInv
  BY SccConstants DEF Init, SccInv, TypeOK, BatchesContiguous, StateWithinCtc,
     TimestampsOrdered, EndsOrdered, Header

\* Where a stored batch ends is a number.
LEMMA EndType == ASSUME TypeOK, NEW i \in 1 .. Len(batches) PROVE End(i) \in Nat
<1>1. batches[i] \in Header
  BY DEF TypeOK
<1> QED BY <1>1 DEF End, Header

\* appendStateBatch keeps the invariant: the new header starts at the count.
LEMMA SccAppendInv == ASSUME SccInv, AppendStateBatch PROVE SccInv'
<1>1. PICK sender \in Senders, root \in Roots, size \in 1 .. MaxBatchSize,
           start \in 0 .. MaxElements :
           appendStateBatch(sender, root, size, start) /\ UNCHANGED <<ctcTotal, now>>
  BY Zenon DEF AppendStateBatch
<1> DEFINE h == NewHeader(sender, root, size)
<1>2. h \in Header /\ size \in Nat /\ size > 0
  BY <1>1, SccConstants DEF NewHeader, Header, SccInv, TypeOK, getTotalBatches, appendStateBatch
<1>3. batches' = Append(batches, h) /\ batches \in Seq(Header)
  BY <1>1, Zenon DEF appendStateBatch, SccInv, TypeOK
<1> HIDE DEF h
<1>4. /\ Len(batches') = Len(batches) + 1
      /\ \A i \in 1 .. Len(batches) : batches'[i] = batches[i]
      /\ batches'[Len(batches) + 1] = h
      /\ batches' \in Seq(Header)
      /\ Len(batches) \in Nat
  BY <1>2, <1>3
<1>5. TypeOK'
  BY <1>1, <1>2, <1>4 DEF SccInv, TypeOK, appendStateBatch
<1>6. StateWithinCtc'
  BY <1>1, <1>2, Zenon DEF StateWithinCtc, appendStateBatch, fitsCtc, SccInv, TypeOK
<1>7. BatchesContiguous'
  <2>1. h.batchIndex = Len(batches) /\ h.batchSize = size /\ h.prevTotalElements = totalElements
    BY Zenon DEF h, NewHeader, getTotalBatches
  <2>2. \A i \in 1 .. Len(batches) : End(i)' = End(i)
    BY <1>4, Zenon DEF End
  <2>3. End(Len(batches))' = totalElements'
    BY <1>1, <1>4, <2>1, Zenon DEF End, appendStateBatch
  <2>4. \A i \in 1 .. Len(batches') :
           /\ batches'[i].batchIndex = i - 1
           /\ batches'[i].batchSize > 0
           /\ batches'[i].prevTotalElements = IF i = 1 THEN 0 ELSE End(i - 1)'
    <3> SUFFICES ASSUME NEW i \in 1 .. Len(batches')
                 PROVE  /\ batches'[i].batchIndex = i - 1
                        /\ batches'[i].batchSize > 0
                        /\ batches'[i].prevTotalElements = IF i = 1 THEN 0 ELSE End(i - 1)'
      BY Zenon
    <3>1. CASE i <= Len(batches)
      BY <3>1, <1>4, <2>2 DEF BatchesContiguous, SccInv
    <3>2. CASE i = Len(batches) + 1
      BY <3>2, <1>2, <1>4, <2>1, <2>2 DEF BatchesContiguous, SccInv
    <3> QED BY <1>4, <3>1, <3>2
  <2> QED BY <1>4, <2>3, <2>4 DEF BatchesContiguous
<1>8. EndsOrdered'
  <2>1. \A i \in 1 .. Len(batches) : End(i)' = End(i) /\ End(i) \in Nat
    BY <1>4, EndType, Zenon DEF End, SccInv
  <2>2. \A k : k = Len(batches) + 1 => End(k)' = totalElements + size
    BY <1>4 DEF End, h, NewHeader
  <2>3. \A i \in 1 .. Len(batches) : End(i) <= totalElements
    BY <1>4, <2>1 DEF SccInv, EndsOrdered, BatchesContiguous
  <2>4. ASSUME NEW i \in 1 .. Len(batches'), NEW j \in 1 .. Len(batches'), i <= j
        PROVE  End(i)' <= End(j)'
    <3>1. CASE j <= Len(batches)
      <4>1. i \in 1 .. Len(batches) /\ j \in 1 .. Len(batches)
        BY <1>4, <2>4, <3>1
      <4> QED BY <2>1, <2>4, <4>1, Zenon DEF EndsOrdered, SccInv
    <3>2. CASE j = Len(batches) + 1 /\ i <= Len(batches)
      <4>1. i \in 1 .. Len(batches) /\ size \in Nat /\ totalElements \in Nat
        BY <1>2, <1>4, <2>4, <3>2 DEF SccInv, TypeOK
      <4>2. End(i)' <= totalElements /\ End(i)' \in Nat /\ End(j)' = totalElements + size
        BY <2>1, <2>2, <2>3, <3>2, <4>1, Zenon
      <4> QED BY <4>1, <4>2
    <3>3. CASE i = Len(batches) + 1 /\ j = Len(batches) + 1
      <4>1. End(i)' = totalElements + size /\ End(j)' = totalElements + size
        BY <2>2, <3>3, Zenon
      <4>2. size \in Nat /\ totalElements \in Nat
        BY <1>2, Zenon DEF SccInv, TypeOK
      <4> QED BY <4>1, <4>2
    <3> QED BY <1>4, <2>4, <3>1, <3>2, <3>3
  <2> QED BY <2>4, Zenon DEF EndsOrdered
<1>9. TimestampsOrdered'
  <2>1. h.timestamp = now /\ now' = now /\ now \in Nat
    BY <1>1, Zenon DEF h, NewHeader, SccInv, TypeOK
  <2>2. \A i \in 1 .. Len(batches) : batches[i].timestamp <= now
    BY Zenon DEF SccInv, TimestampsOrdered
  <2>3. \A i \in 1 .. Len(batches') : batches'[i].timestamp <= now'
    BY <1>4, <2>1, <2>2
  <2>4. ASSUME NEW i \in 1 .. Len(batches'), NEW j \in 1 .. Len(batches'), i <= j
        PROVE  batches'[i].timestamp <= batches'[j].timestamp
    <3>1. CASE j <= Len(batches)
      BY <1>4, <2>4, <3>1 DEF TimestampsOrdered, SccInv
    <3>2. CASE j = Len(batches) + 1
      BY <1>4, <2>1, <2>3, <3>2, Zenon
    <3> QED BY <1>4, <3>1, <3>2
  <2> QED BY <2>3, <2>4, Zenon DEF TimestampsOrdered
<1> QED BY <1>5, <1>6, <1>7, <1>8, <1>9, Zenon DEF SccInv

\* deleteStateBatch keeps the invariant: a valid header is the one stored at its
\* index, so its prevTotalElements is where the batch before it ends.
LEMMA SccDeleteInv == ASSUME SccInv, DeleteStateBatch PROVE SccInv'
<1>1. PICK sender \in Senders, h \in AnyHeader :
           deleteStateBatch(sender, h) /\ UNCHANGED <<ctcTotal, now>>
  BY Zenon DEF DeleteStateBatch
<1> DEFINE n == h.batchIndex
<1>2. /\ n \in Nat /\ n < Len(batches) /\ Len(batches) \in Nat
      /\ batches[n + 1] = h
      /\ h \in Header
  <2>1. n \in Nat /\ n < Len(batches) /\ batches[n + 1] = h
    BY <1>1, SccConstants DEF AnyHeader, deleteStateBatch, mayDelete, isValidBatchHeader, getTotalBatches
  <2> QED BY <2>1 DEF SccInv, TypeOK
<1>3. batches' = SubSeq(batches, 1, n) /\ totalElements' = h.prevTotalElements
  BY <1>1, Zenon DEF deleteStateBatch, totalBefore
<1>4. /\ batches' \in Seq(Header)
      /\ Len(batches') = n
      /\ \A i \in 1 .. n : batches'[i] = batches[i]
  BY <1>2, <1>3, SubSeqProperties DEF SccInv, TypeOK
<1>5. h.prevTotalElements = IF n = 0 THEN 0 ELSE End(n)
  BY <1>2 DEF SccInv, BatchesContiguous
<1>6. TypeOK'
  BY <1>1, <1>2, <1>3, <1>4, Zenon DEF TypeOK, SccInv, deleteStateBatch, Header
<1>7. BatchesContiguous'
  <2>1. \A i \in 1 .. n : End(i)' = End(i)
    BY <1>4, Zenon DEF End
  <2> QED BY <1>2, <1>3, <1>4, <1>5, <2>1 DEF BatchesContiguous, SccInv
<1>8. StateWithinCtc'
  <2>1. \A i \in 1 .. Len(batches) : End(i) \in Nat
    BY EndType, Zenon DEF SccInv
  <2>2. h.prevTotalElements <= totalElements
    <3>1. End(n + 1) <= totalElements /\ End(n + 1) = h.prevTotalElements + h.batchSize
      BY <1>2, <2>1 DEF SccInv, EndsOrdered, BatchesContiguous, End
    <3> QED BY <1>2, <3>1 DEF Header, SccInv, TypeOK
  <2> QED BY <1>1, <1>2, <1>3, <2>2 DEF StateWithinCtc, SccInv, TypeOK, Header
<1>9. EndsOrdered'
  <2>1. ASSUME NEW i \in 1 .. n PROVE End(i)' = End(i) /\ i \in 1 .. Len(batches)
    BY <1>2, <1>4 DEF End
  <2> QED BY <1>4, <2>1, Zenon DEF EndsOrdered, SccInv
<1>10. TimestampsOrdered'
  <2>1. now' = now
    BY <1>1, Zenon
  <2>2. 1 .. Len(batches') \subseteq 1 .. Len(batches)
    BY <1>2, <1>4
  <2> QED BY <1>4, <2>1, <2>2, Zenon DEF TimestampsOrdered, SccInv
<1> QED BY <1>6, <1>7, <1>8, <1>9, <1>10, Zenon DEF SccInv

\* Every step keeps the invariant.
LEMMA SccNextInv == SccInv /\ [Next]_vars => SccInv'
<1> SUFFICES ASSUME SccInv, [Next]_vars PROVE SccInv'
  BY Zenon
<1>1. CASE AppendStateBatch
  BY <1>1, SccAppendInv, Zenon
<1>2. CASE DeleteStateBatch
  BY <1>2, SccDeleteInv, Zenon
<1>3. CASE SetFraudProofWindow
  BY <1>3, SccConstants, Zenon DEF SetFraudProofWindow, setFraudProofWindow, SccInv, TypeOK,
     BatchesContiguous, EndsOrdered, End, StateWithinCtc, TimestampsOrdered
<1>4. CASE CtcGrows
  BY <1>4 DEF CtcGrows, sccVars, SccInv, TypeOK,
     BatchesContiguous, EndsOrdered, End, StateWithinCtc, TimestampsOrdered
<1>5. CASE MineBlock
  <2>1. UNCHANGED <<sccVars, ctcTotal>> /\ now' = now + 1
    BY <1>5, Zenon DEF MineBlock
  <2>2. TypeOK' /\ BatchesContiguous' /\ EndsOrdered' /\ StateWithinCtc'
    BY <2>1 DEF sccVars, SccInv, TypeOK, BatchesContiguous, EndsOrdered, End, StateWithinCtc
  <2>3. \A i \in 1 .. Len(batches) : batches[i].timestamp \in Nat
    <3>1. \A i \in 1 .. Len(batches) : batches[i] \in Header
      BY DEF SccInv, TypeOK
    <3> QED BY <3>1, Zenon DEF Header
  <2>4. TimestampsOrdered'
    BY <2>1, <2>3 DEF sccVars, TimestampsOrdered, SccInv, TypeOK
  <2> QED BY <2>2, <2>4, Zenon DEF SccInv
<1>6. CASE UNCHANGED vars
  BY <1>6, Zenon DEF vars, sccVars, SccInv, TypeOK,
     BatchesContiguous, EndsOrdered, End, StateWithinCtc, TimestampsOrdered
<1> QED BY <1>1, <1>2, <1>3, <1>4, <1>5, <1>6, Zenon DEF Next

\* In every behaviour of the contract the batches are contiguous, within the
\* CTC and in the order of time.
THEOREM SccSafety == Spec => [](TypeOK /\ BatchesContiguous /\ StateWithinCtc /\ TimestampsOrdered)
<1>1. SccInv => TypeOK /\ BatchesContiguous /\ StateWithinCtc /\ TimestampsOrdered
  BY Zenon DEF SccInv
<1> QED BY <1>1, SccInitInv, SccNextInv, PTL DEF Spec

\* One step: a batch out of the window is still there after it.  Deletion from
\* index n on removes batches that are younger than the one tested.
LEMMA SccFinalStep ==
    SccInv /\ [Next]_vars =>
        [\A i \in 1 .. Len(batches) :
            ~insideFraudProofWindow(batches[i]) =>
                i <= Len(batches') /\ batches'[i] = batches[i]]_vars
<1> SUFFICES ASSUME SccInv, Next, NEW i \in 1 .. Len(batches),
                    ~insideFraudProofWindow(batches[i])
             PROVE  i <= Len(batches') /\ batches'[i] = batches[i]
  BY Zenon
<1>1. CASE AppendStateBatch
  <2>1. PICK h : batches' = Append(batches, h)
    BY <1>1, Zenon DEF AppendStateBatch, appendStateBatch
  <2> QED BY <2>1 DEF SccInv, TypeOK
<1>2. CASE DeleteStateBatch
  <2>1. PICK h \in AnyHeader : \E sender \in Senders : deleteStateBatch(sender, h)
    BY <1>2, Zenon DEF DeleteStateBatch
  <2> DEFINE n == h.batchIndex
  <2>2. /\ n \in Nat /\ n < Len(batches) /\ batches[n + 1] = h
        /\ insideFraudProofWindow(h)
        /\ batches' = SubSeq(batches, 1, n)
    BY <2>1, SccConstants DEF AnyHeader, deleteStateBatch, mayDelete, isValidBatchHeader, getTotalBatches
  <2>3. batches[i] \in Header /\ h \in Header
    BY <2>2 DEF SccInv, TypeOK
  <2>4. i <= n
    <3> SUFFICES ASSUME n + 1 <= i PROVE FALSE
      BY <2>2
    <3>1. n + 1 \in 1 .. Len(batches)
      BY <2>2 DEF SccInv, TypeOK
    <3>2. batches[n + 1].timestamp <= batches[i].timestamp
      BY <3>1, Zenon DEF SccInv, TimestampsOrdered
    <3>3. h.timestamp \in Nat /\ batches[i].timestamp \in Nat
      BY <2>3, Zenon DEF Header
    <3> QED BY <2>2, <3>2, <3>3 DEF insideFraudProofWindow, SccInv, TypeOK
  <2> QED BY <2>2, <2>4, SubSeqProperties DEF SccInv, TypeOK
<1>3. CASE SetFraudProofWindow \/ CtcGrows \/ MineBlock
  BY <1>3 DEF SetFraudProofWindow, setFraudProofWindow, CtcGrows, MineBlock, sccVars
<1> QED BY <1>1, <1>2, <1>3, Zenon DEF Next

\* No step removes a batch that is out of the fraud proof window, for any
\* windows the owner sets.
THEOREM SccFinality == Spec => FinalBatchesSurvive
<1> QED BY SccInitInv, SccNextInv, SccFinalStep, PTL DEF Spec, FinalBatchesSurvive

-----------------------------------------------------------------------------
(* The data transport layer: its inductive invariant.                      *)

Queue == OfKind("TransactionEnqueued")
StateBatches == OfKind("StateBatchAppended")

Event == [id : Nat, kind : {"TransactionEnqueued", "StateBatchAppended"},
          index : Nat, block : Nat]

\* L1: blocks that can be replaced are above final; events are numbered in the
\* order of their blocks, every index came after all smaller ones, and the queue
\* uses no index twice.
ChainInv ==
    /\ tip \in Nat /\ maxTip \in Nat /\ tip <= maxTip /\ final <= tip
    /\ events \in Nat
    /\ log \subseteq Event
    /\ \A e \in log : e.id < events /\ e.index <= e.id /\ e.block <= tip + 1
    /\ \A d, e \in log : d.id = e.id => d = e
    /\ \A d, e \in log : d.id < e.id => d.block <= e.block
    /\ \A e \in log : \A j \in 0 .. e.index - 1 :
           \E d \in log : d.kind = e.kind /\ d.index = j /\ d.id < e.id
    /\ \A d, e \in Queue : d.id < e.id => d.index < e.index

\* What is stored came from blocks that L1 keeps.
Stored(entries, es) ==
    \A i \in DOMAIN entries : entries[i] \in es /\ entries[i].index = i /\ entries[i].block <= final

\* The service reads below final only.
LoopInv ==
    /\ highestSynced \in Nat /\ highestSynced <= final
    /\ pc \in {"enqueued", "batches"} => target \in Nat /\ target <= final
    /\ faults \in Nat
    /\ Stored(enqueues, Queue) /\ Stored(stateBatches, StateBatches)
    /\ latestEnqueue \in DOMAIN enqueues \cup {None}
    /\ latestBatch \in DOMAIN stateBatches \cup {None}

\* Without omissions nothing of the queue below the synced block is missing, so
\* the service never has to go back.
QueueCurrent ==
    missed = {} =>
        \A e \in Queue :
            e.block < highestSynced \/ (pc = "batches" /\ e.block < target) =>
                e.index \in DOMAIN enqueues

RootsEqual ==
    faults = 0 => \A i \in DOMAIN stateBatches : i \in DOMAIN roots /\ roots[i] = stateBatches[i]

IngestInv ==
    /\ ChainInv /\ LoopInv
    /\ EntriesArePrefix /\ QueueCurrent /\ BatchesCurrent /\ RootsEqual /\ RootsComplete

-----------------------------------------------------------------------------
(* The operators of the model.                                             *)

\* A bounded set of numbers has a greatest element.
LEMMA GreatestExists ==
    ASSUME NEW S, S \subseteq Nat, S # {}, NEW b \in Nat, \A x \in S : x <= b
    PROVE  \E m \in S : \A x \in S : x <= m
<1> DEFINE B == {n \in Nat : \A x \in S : x <= n}
<1>1. \E n \in B : \A m \in B : <<m, n>> \notin OpToRel(<, Nat)
  <2>1. B \subseteq Nat /\ B # {}
    BY Zenon
  <2> QED BY <2>1, NatLessThanWellFounded, WFMin, Zenon
<1>2. PICK n \in B : \A m \in B : <<m, n>> \notin OpToRel(<, Nat)
  BY <1>1, Zenon
<1>3. n \in Nat /\ \A x \in S : x \in Nat /\ x <= n
  BY Zenon
<1>4. n \in S
  <2> SUFFICES ASSUME n \notin S PROVE FALSE
    BY Zenon
  <2>1. \A x \in S : x < n
    BY <1>3
  <2>2. n - 1 \in Nat /\ \A x \in S : x <= n - 1
    <3>1. PICK x \in S : TRUE
      BY Zenon
    <3>2. n - 1 \in Nat
      BY <1>3, <2>1, <3>1
    <3> QED BY <1>3, <2>1, <3>2
  <2>3. <<n - 1, n>> \in OpToRel(<, Nat)
    BY <1>3, <2>2 DEF OpToRel
  <2> QED BY <1>2, <2>2, <2>3, Zenon
<1> QED BY <1>3, <1>4, Zenon

\* The type of an event.
LEMMA EventType ==
    ASSUME ChainInv, NEW e \in log
    PROVE  /\ e.id \in Nat /\ e.index \in Nat /\ e.block \in Nat
           /\ e.id < events /\ e.index <= e.id /\ e.block <= tip + 1
           /\ e.kind \in {"TransactionEnqueued", "StateBatchAppended"}
BY DEF ChainInv, Event

\* Some events of the chain have a last one.
LEMMA LastOf ==
    ASSUME ChainInv, NEW es \in SUBSET log, es # {}
    PROVE  last(es) \in es /\ \A d \in es : d.id <= last(es).id
<1> DEFINE S == {d.id : d \in es}
<1>1. S # {} /\ events \in Nat
  BY Zenon DEF ChainInv
<1>2. \A x \in S : x \in Nat /\ x <= events
  BY EventType, <1>1
<1>3. \E m \in S : \A x \in S : x <= m
  <2>1. S \subseteq Nat /\ \A x \in S : x <= events
    BY <1>2, Zenon
  <2> HIDE DEF S
  <2> QED BY <1>1, <2>1, GreatestExists, Zenon
<1>4. \E e \in es : \A d \in es : d.id <= e.id
  BY <1>3, Zenon
<1> QED BY <1>4, Zenon DEF last

\* What a put does.
LEMMA PutEntries ==
    ASSUME ChainInv, NEW es \in SUBSET log, NEW entries
    PROVE  /\ DOMAIN putEntries(entries, es) = DOMAIN entries \cup indexes(es)
           /\ \A i \in indexes(es) :
                /\ putEntries(entries, es)[i] \in es /\ putEntries(entries, es)[i].index = i
                /\ \A d \in es : d.index = i => d.id <= putEntries(entries, es)[i].id
           /\ \A i \in DOMAIN entries : i \notin indexes(es) => putEntries(entries, es)[i] = entries[i]
<1> DEFINE new == putEntries(entries, es)
<1>1. DOMAIN new = DOMAIN entries \cup indexes(es)
  BY Zenon DEF putEntries
<1>2. ASSUME NEW i \in indexes(es)
      PROVE  /\ new[i] \in es /\ new[i].index = i
             /\ \A d \in es : d.index = i => d.id <= new[i].id
  <2> DEFINE these == {e \in es : e.index = i}
  <2>1. new[i] = last(these)
    BY Zenon DEF putEntries
  <2>2. these \in SUBSET log /\ these # {}
    BY Zenon DEF indexes
  <2>3. last(these) \in these /\ \A d \in these : d.id <= last(these).id
    <3> HIDE DEF these
    <3> QED BY <2>2, LastOf, Zenon
  <2> QED BY <2>1, <2>3, Zenon
<1>3. ASSUME NEW i \in DOMAIN entries, i \notin indexes(es)
      PROVE  new[i] = entries[i]
  BY <1>3, Zenon DEF putEntries
<1> QED BY <1>1, <1>2, <1>3, Zenon

\* What is read below final may be stored.
LEMMA PutStored ==
    ASSUME ChainInv, NEW k, NEW from, NEW to \in Nat, to <= final,
           NEW es \in SUBSET mined(k, from, to), NEW entries, Stored(entries, OfKind(k))
    PROVE  Stored(putEntries(entries, es), OfKind(k))
<1>1. es \in SUBSET log /\ \A e \in es : e \in OfKind(k) /\ e.block <= to
  <2>1. \A e \in es : e \in OfKind(k) /\ e \in log /\ e.block \in from .. to
    BY Zenon DEF mined, OfKind
  <2> QED BY <2>1
<1>2. \A e \in es : e.block <= final
  <2>1. final \in Int
    BY IngestionConstants DEF ChainInv, final
  <2> QED BY <1>1, <2>1, EventType
<1> DEFINE new == putEntries(entries, es)
<1>3. /\ DOMAIN new = DOMAIN entries \cup indexes(es)
      /\ \A i \in indexes(es) : new[i] \in es /\ new[i].index = i
      /\ \A i \in DOMAIN entries : i \notin indexes(es) => new[i] = entries[i]
  <2>1. es \in SUBSET log
    BY <1>1, Zenon
  <2>2. \A i \in indexes(es) : new[i] \in es /\ new[i].index = i
    BY <2>1, PutEntries
  <2> QED BY <2>2, Zenon DEF putEntries
<1> HIDE DEF new
<1>4. Stored(new, OfKind(k))
  BY <1>1, <1>2, <1>3, Zenon DEF Stored
<1> QED BY <1>4, Zenon DEF new

\* The pointer to the latest entry points to an entry.
LEMMA PutLatest ==
    ASSUME ChainInv, NEW k, NEW es \in SUBSET log, NEW pointers \in SUBSET es,
           NEW entries, Stored(entries, OfKind(k)),
           NEW latest, latest \in DOMAIN entries \cup {None}
    PROVE  putLatest(latest, pointers) \in DOMAIN putEntries(entries, es) \cup {None}
<1> DEFINE S == {latest} \cup indexes(pointers)
           Up == {x + 1 : x \in S}
<1>1. \A x \in S : x \in Int /\ x >= -1 /\ x <= events
  <2>1. \A x \in indexes(pointers) : x \in Nat /\ x <= events
    <3>1. \A e \in pointers : e.index \in Nat /\ e.index <= events
      <4>1. events \in Nat
        BY DEF ChainInv
      <4> QED BY <4>1, EventType
    <3> QED BY <3>1, Zenon DEF indexes
  <2>2. events \in Nat
    BY DEF ChainInv
  <2>3. latest # None => latest \in Nat /\ latest <= events
    <3> SUFFICES ASSUME latest # None PROVE latest \in Nat /\ latest <= events
      BY Zenon
    <3>1. entries[latest] \in log /\ entries[latest].index = latest
      BY Zenon DEF Stored, OfKind
    <3> QED BY <2>2, <3>1, EventType
  <2> QED BY <2>1, <2>2, <2>3 DEF None
<1>2. \E m \in S : \A x \in S : m >= x
  <2>1. Up \subseteq Nat /\ Up # {} /\ (\A x \in Up : x <= events + 1) /\ events + 1 \in Nat
    BY <1>1 DEF ChainInv
  <2>2. PICK m \in Up : \A x \in Up : x <= m
    <3> HIDE DEF Up
    <3> QED BY <2>1, GreatestExists
  <2>3. PICK y \in S : m = y + 1
    BY Zenon
  <2>4. \A x \in S : x + 1 <= y + 1
    BY <2>2, <2>3, Zenon
  <2> HIDE DEF S
  <2> QED BY <1>1, <2>4
<1>3. putLatest(latest, pointers) \in S
  BY <1>2, Zenon DEF putLatest, Max
<1>4. DOMAIN putEntries(entries, es) = DOMAIN entries \cup indexes(es)
  BY Zenon DEF putEntries
<1> QED BY <1>3, <1>4, Zenon DEF indexes

\* The accepted events, and any first ones of them, close no gap.
LEMMA AcceptedClosed ==
    ASSUME ChainInv, NEW es \in SUBSET log, NEW entries,
           NEW done \in prefixes(accepted(entries, es)), NEW e \in done, e.index > 0
    PROVE  e.index - 1 \in DOMAIN entries \cup indexes(done)
<1>1. e \in accepted(entries, es) /\ before(accepted(entries, es), e) \subseteq done
  BY Zenon DEF prefixes
<1>2. e \in es /\ \A d \in before(es, e) \cup {e} : hasPredecessor(entries, es, d)
  BY <1>1, Zenon DEF accepted
<1>3. e.index - 1 \in DOMAIN entries \cup indexes(before(es, e))
  BY <1>2, Zenon DEF hasPredecessor
<1>4. ASSUME NEW d \in before(es, e) PROVE d \in done
  <2>1. d \in es /\ d.id < e.id
    BY Zenon DEF before
  <2>2. before(es, d) \subseteq before(es, e)
    <3>1. \A c \in es : c.id \in Nat
      BY EventType
    <3> QED BY <1>2, <2>1, <3>1 DEF before
  <2>3. d \in accepted(entries, es)
    BY <1>2, <1>4, <2>1, <2>2, Zenon DEF accepted
  <2> QED BY <1>1, <2>1, <2>3, Zenon DEF before
<1> QED BY <1>3, <1>4, Zenon DEF indexes

\* All accepted events are among the first ones of them.
LEMMA AcceptedPrefix ==
    ASSUME NEW es, NEW entries
    PROVE  accepted(entries, es) \in prefixes(accepted(entries, es))
BY Zenon DEF prefixes, before

\* When all events below from are stored and none is left out, none is refused.
LEMMA AllAccepted ==
    ASSUME ChainInv, NEW k, NEW from \in Nat, NEW to \in Nat, to <= final, NEW entries,
           \A d \in OfKind(k) : d.block < from => d.index \in DOMAIN entries
    PROVE  accepted(entries, mined(k, from, to)) = mined(k, from, to)
<1> DEFINE es == mined(k, from, to)
<1>1. ASSUME NEW e \in es PROVE hasPredecessor(entries, es, e)
  <2> SUFFICES ASSUME e.index > 0
               PROVE  e.index - 1 \in DOMAIN entries \cup indexes(before(es, e))
    BY Zenon DEF hasPredecessor
  <2>1. e \in log /\ e.kind = k /\ e.block \in from .. to /\ e.block <= tip
    BY Zenon DEF mined, OfKind
  <2>2. e.index - 1 \in 0 .. e.index - 1
    BY <2>1, EventType
  <2>3. PICK d \in log : d.kind = e.kind /\ d.index = e.index - 1 /\ d.id < e.id
    BY <2>1, <2>2, Zenon DEF ChainInv
  <2>4. d.block <= e.block
    BY <2>1, <2>3, Zenon DEF ChainInv
  <2>5. d \in OfKind(k)
    BY <2>1, <2>3, Zenon DEF OfKind
  <2>6. CASE d.block < from
    BY <2>3, <2>5, <2>6, Zenon
  <2>7. CASE ~(d.block < from)
    <3>1. d.block \in from .. to /\ d.block <= tip
      <4>1. tip \in Nat
        BY DEF ChainInv
      <4> QED BY <2>1, <2>3, <2>4, <2>7, <4>1, EventType
    <3>2. d \in before(es, e)
      BY <2>3, <2>5, <3>1, Zenon DEF before, mined
    <3> QED BY <2>3, <3>2, Zenon DEF indexes
  <2> QED BY <2>6, <2>7, Zenon
<1> HIDE DEF es
<1>2. accepted(entries, es) = es
  BY <1>1, Zenon DEF accepted, before
<1> QED BY <1>2, Zenon DEF es

-----------------------------------------------------------------------------
(* L1.                                                                     *)

\* The numbers L1 is described by.
LEMMA Heights ==
    ASSUME ChainInv
    PROVE  /\ tip \in Nat /\ maxTip \in Nat /\ final \in Nat /\ events \in Nat
           /\ tip <= maxTip /\ final <= tip
BY IngestionConstants DEF ChainInv, final

\* The invariant of the chain is about L1 alone.
LEMMA ChainSame ==
    ASSUME ChainInv, UNCHANGED l1
    PROVE  ChainInv' /\ final' = final /\ OfKind("TransactionEnqueued")' = OfKind("TransactionEnqueued")
           /\ OfKind("StateBatchAppended")' = OfKind("StateBatchAppended")
<1>1. /\ log' = log /\ tip' = tip /\ maxTip' = maxTip /\ events' = events
  BY Zenon DEF l1
<1>2. final' = final
  BY <1>1, Zenon DEF final
<1>3. OfKind("TransactionEnqueued")' = OfKind("TransactionEnqueued")
      /\ OfKind("StateBatchAppended")' = OfKind("StateBatchAppended")
  BY <1>1, Zenon DEF OfKind
<1>4. Queue' = Queue
  BY <1>1, Zenon DEF Queue, OfKind
<1> QED BY <1>1, <1>2, <1>3, <1>4, Zenon DEF ChainInv

\* A new event.
LEMMA ChainEmit == ASSUME ChainInv, emit PROVE ChainInv'
<1>1. PICK k \in {"TransactionEnqueued", "StateBatchAppended"} : \E i \in nextIndexes(k) :
        log' = log \cup {[id |-> events, kind |-> k, index |-> i, block |-> tip + 1]}
  BY Zenon DEF emit
<1>2. PICK i \in nextIndexes(k) :
        log' = log \cup {[id |-> events, kind |-> k, index |-> i, block |-> tip + 1]}
  BY <1>1, Zenon
<1>3. tip' = tip /\ maxTip' = maxTip /\ events' = events + 1
  BY Zenon DEF emit
<1> DEFINE n == [id |-> events, kind |-> k, index |-> i, block |-> tip + 1]
           p == last(OfKind(k))
<1>4. n.id = events /\ n.kind = k /\ n.index = i /\ n.block = tip + 1
  BY Zenon
<1>5. tip \in Nat /\ events \in Nat
  BY Heights, Zenon
<1>6. OfKind(k) # {} => /\ p \in log /\ p.kind = k /\ \A d \in OfKind(k) : d.id <= p.id
                        /\ p.id \in Nat /\ p.index \in Nat /\ p.index <= p.id /\ p.id < events
  <2> SUFFICES ASSUME OfKind(k) # {}
               PROVE  /\ p \in log /\ p.kind = k /\ \A d \in OfKind(k) : d.id <= p.id
                      /\ p.id \in Nat /\ p.index \in Nat /\ p.index <= p.id /\ p.id < events
    BY Zenon
  <2>1. OfKind(k) \in SUBSET log
    BY Zenon DEF OfKind
  <2>2. p \in OfKind(k) /\ \A d \in OfKind(k) : d.id <= p.id
    BY <2>1, LastOf, Zenon
  <2>3. p \in log /\ p.kind = k
    BY <2>2, Zenon DEF OfKind
  <2> QED BY <2>2, <2>3, EventType, Zenon
<1>7. /\ i \in Nat
      /\ OfKind(k) = {} => i = 0
      /\ OfKind(k) # {} => i <= p.index + 1
      /\ OfKind(k) # {} /\ k = "TransactionEnqueued" => i = p.index + 1
  BY <1>6 DEF nextIndexes
<1> HIDE DEF p
<1>8. i <= events
  BY <1>5, <1>6, <1>7
<1>9. log' = log \cup {n}
  BY <1>2, Zenon
<1>10. n \in Event
  BY <1>5, <1>7 DEF Event
<1> HIDE DEF n
<1>11. \A e \in log' : e.id < events' /\ e.index <= e.id /\ e.block <= tip' + 1
  BY <1>3, <1>4, <1>5, <1>8, <1>9, EventType
<1>12. \A e \in log : e.id < n.id /\ e.block <= n.block /\ e.id \in Nat
  BY <1>4, EventType, Zenon
<1>13. \A d, e \in log' : d.id = e.id => d = e
  <2>1. \A e \in log : e.id # n.id
    BY <1>4, <1>5, <1>12
  <2> QED BY <1>9, <2>1, Zenon DEF ChainInv
<1>14. \A d, e \in log' : d.id < e.id => d.block <= e.block
  <2>1. \A e \in log : ~(n.id < e.id)
    BY <1>4, <1>5, <1>12
  <2>2. n.block <= n.block
    BY <1>4, <1>5
  <2> QED BY <1>9, <1>12, <2>1, <2>2, Zenon DEF ChainInv
<1>15. ASSUME NEW e \in log', NEW j \in 0 .. e.index - 1
       PROVE  \E d \in log' : d.kind = e.kind /\ d.index = j /\ d.id < e.id
  <2>1. CASE e \in log
    BY <1>9, <2>1, Zenon DEF ChainInv
  <2>2. CASE e = n
    <3>1. j \in 0 .. i - 1
      BY <1>4, <2>2, Zenon
    <3>2. OfKind(k) # {} /\ j \in Nat /\ j <= p.index
      BY <1>6, <1>7, <3>1
    <3>3. p \in log /\ p.kind = k /\ p.id < n.id
      BY <1>6, <1>12, <3>2, Zenon
    <3>4. CASE j = p.index
      BY <1>4, <1>9, <2>2, <3>3, <3>4, Zenon
    <3>5. CASE j # p.index
      <4>1. j \in 0 .. p.index - 1
        BY <1>6, <3>2, <3>5
      <4>2. PICK d \in log : d.kind = p.kind /\ d.index = j /\ d.id < p.id
        BY <3>3, <4>1, Zenon DEF ChainInv
      <4>3. d.id < n.id
        BY <1>12, Zenon
      <4> QED BY <1>4, <1>9, <2>2, <3>3, <4>2, <4>3, Zenon
    <3> QED BY <3>4, <3>5, Zenon
  <2> QED BY <1>9, <2>1, <2>2, Zenon
<1>16. ASSUME NEW d \in Queue', NEW e \in Queue', d.id < e.id PROVE d.index < e.index
  <2>1. d \in log' /\ e \in log' /\ d.kind = "TransactionEnqueued"
        /\ e.kind = "TransactionEnqueued"
    BY Zenon DEF Queue, OfKind
  <2>2. CASE d \in log /\ e \in log
    BY <1>16, <2>1, <2>2, Zenon DEF ChainInv, Queue, OfKind
  <2>3. CASE e = n /\ d \in log
    <3>1. k = "TransactionEnqueued" /\ d \in OfKind(k)
      BY <1>4, <2>1, <2>3, Zenon DEF OfKind
    <3>2. i = p.index + 1 /\ d.id <= p.id
      BY <1>6, <1>7, <3>1, Zenon
    <3>3. d.index <= p.index
      <4>1. CASE d.id = p.id
        <5>1. d = p
          BY <1>6, <2>3, <3>1, <4>1, Zenon DEF ChainInv
        <5> QED BY <1>6, <3>1, <5>1
      <4>2. CASE d.id # p.id
        <5>1. d.id < p.id
          BY <1>6, <2>3, <3>1, <3>2, <4>2, EventType
        <5>2. p \in log /\ p.kind = "TransactionEnqueued"
          BY <1>6, <3>1, Zenon
        <5>3. d.index < p.index
          BY <2>1, <2>3, <5>1, <5>2, Zenon DEF ChainInv, Queue, OfKind
        <5> QED BY <2>3, <5>2, <5>3, EventType
      <4> QED BY <4>1, <4>2, Zenon
    <3>4. d.index \in Nat /\ p.index \in Nat
      BY <1>6, <2>3, <3>1, EventType, Zenon
    <3> QED BY <1>4, <2>3, <3>2, <3>3, <3>4
  <2>4. CASE d = n
    <3>1. e.id \in Nat /\ e.id <= events
      BY <1>4, <1>5, <1>9, <1>12, <2>1
    <3> QED BY <1>4, <1>5, <1>16, <2>4, <3>1
  <2> QED BY <1>9, <2>1, <2>2, <2>3, <2>4, Zenon
<1>17. log' \subseteq Event
  BY <1>9, <1>10, Zenon DEF ChainInv
<1>18. tip' \in Nat /\ maxTip' \in Nat /\ tip' <= maxTip' /\ final' <= tip' /\ events' \in Nat
  <2>1. final' = final
    BY <1>3, Zenon DEF final
  <2> QED BY <1>3, <2>1, Heights
<1> QED BY <1>11, <1>13, <1>14, <1>15, <1>16, <1>17, <1>18, Zenon DEF ChainInv

\* A new block.
LEMMA ChainBlock == ASSUME ChainInv, newBlock PROVE ChainInv' /\ final <= final'
<1>1. tip' = tip + 1 /\ log' = log /\ events' = events
  BY Zenon DEF newBlock
<1>2. maxTip' = IF tip + 1 > maxTip THEN tip + 1 ELSE maxTip
  BY Zenon DEF newBlock
<1>3. tip' \in Nat /\ maxTip' \in Nat /\ tip' <= maxTip' /\ final' <= tip' /\ final <= final'
  BY <1>1, <1>2, Heights, IngestionConstants DEF final
<1>4. \A e \in log' : e.id < events' /\ e.index <= e.id /\ e.block <= tip' + 1
  BY <1>1, EventType, Heights
<1>5. Queue' = Queue
  BY <1>1, Zenon DEF Queue, OfKind
<1> QED BY <1>1, <1>3, <1>4, <1>5, Zenon DEF ChainInv

\* A reorganisation takes the events above some block away.
LEMMA ChainReorg ==
    ASSUME ChainInv, reorg
    PROVE  /\ ChainInv' /\ final' = final /\ log' \subseteq log
           /\ \A e \in log : e.block <= final => e \in log'
<1>1. PICK h \in final .. tip - 1 : tip' = h /\ log' = {e \in log : e.block <= h}
  BY Zenon DEF reorg
<1>2. maxTip' = maxTip /\ events' = events
  BY Zenon DEF reorg
<1>3. final' = final
  BY <1>2, Zenon DEF final
<1>4. h \in Nat /\ final <= h /\ h <= maxTip
  BY <1>1, Heights
<1>5. \A e \in log' : e.id < events' /\ e.index <= e.id /\ e.block <= tip' + 1
  BY <1>1, <1>2, <1>4, EventType
<1>6. ASSUME NEW e \in log', NEW j \in 0 .. e.index - 1
      PROVE  \E d \in log' : d.kind = e.kind /\ d.index = j /\ d.id < e.id
  <2>1. e \in log /\ e.block <= h
    BY <1>1, Zenon
  <2>2. PICK d \in log : d.kind = e.kind /\ d.index = j /\ d.id < e.id
    BY <2>1, Zenon DEF ChainInv
  <2>3. d.block <= e.block
    BY <2>1, <2>2, Zenon DEF ChainInv
  <2>4. d.block <= h
    BY <1>4, <2>1, <2>3, EventType
  <2> QED BY <1>1, <2>2, <2>4, Zenon
<1>7. Queue' \subseteq Queue /\ log' \subseteq log
  BY <1>1, Zenon DEF Queue, OfKind
<1>8. \A e \in log : e.block <= final => e \in log'
  BY <1>1, <1>4, Heights, EventType
<1>9. tip' \in Nat /\ maxTip' \in Nat /\ tip' <= maxTip' /\ final' <= tip' /\ events' \in Nat
  BY <1>1, <1>2, <1>3, <1>4, Heights
<1>10. log' \subseteq Event
  BY <1>7, Zenon DEF ChainInv
<1>11. \A d, e \in log' : d.id = e.id => d = e
  BY <1>7, Zenon DEF ChainInv
<1>12. \A d, e \in log' : d.id < e.id => d.block <= e.block
  BY <1>7, Zenon DEF ChainInv
<1>13. \A d, e \in Queue' : d.id < e.id => d.index < e.index
  BY <1>7, Zenon DEF ChainInv
<1> QED BY <1>3, <1>5, <1>6, <1>7, <1>8, <1>9, <1>10, <1>11, <1>12, <1>13, Zenon DEF ChainInv

\* What L1 does keeps the invariant: it keeps every event of a final block and
\* adds one above the blocks the service may have read.
LEMMA InvL1 == ASSUME IngestInv, emit \/ newBlock \/ reorg PROVE IngestInv'
<1>1. UNCHANGED <<db, pc, target, head, faults, misses, missed>>
  BY Zenon DEF emit, newBlock, reorg
<1>2. /\ highestSynced' = highestSynced /\ enqueues' = enqueues /\ stateBatches' = stateBatches
      /\ roots' = roots /\ latestEnqueue' = latestEnqueue /\ latestBatch' = latestBatch
      /\ pc' = pc /\ target' = target /\ faults' = faults /\ missed' = missed
  BY <1>1, Zenon DEF db
<1>0. ChainInv /\ LoopInv
  BY Zenon DEF IngestInv
<1>3. final \in Nat /\ tip \in Nat
  BY <1>0, Heights, Zenon
<1>4. /\ ChainInv' /\ final <= final'
      /\ \A e \in log : e.block <= final => e \in log'
      /\ \A e \in log' : e \in log \/ e.block = tip + 1
  <2>1. CASE emit
    <3>1. ChainInv'
      BY <1>0, <2>1, ChainEmit, Zenon
    <3>2. log \subseteq log' /\ \A e \in log' : e \in log \/ e.block = tip + 1
      BY <2>1 DEF emit
    <3>3. final' = final
      BY <2>1, Zenon DEF emit, final
    <3> QED BY <1>3, <3>1, <3>2, <3>3
  <2>2. CASE newBlock
    <3>1. log' = log
      BY <2>2, Zenon DEF newBlock
    <3> QED BY <1>0, <2>2, <3>1, ChainBlock, Zenon
  <2>3. CASE reorg
    <3>1. final <= final
      BY <1>3
    <3> QED BY <1>0, <2>3, <3>1, ChainReorg, Zenon
  <2> QED BY <2>1, <2>2, <2>3, Zenon
<1>5. final' \in Nat
  <2>1. maxTip' \in Nat
    BY <1>4, Zenon DEF ChainInv
  <2>2. final' = IF maxTip' < Confirmations THEN 0 ELSE maxTip' - Confirmations
    BY Zenon DEF final
  <2>3. \A m \in Nat : (IF m < Confirmations THEN 0 ELSE m - Confirmations) \in Nat
    BY IngestionConstants
  <2> QED BY <2>1, <2>2, <2>3, Zenon
<1>6. ASSUME NEW k, NEW entries, Stored(entries, OfKind(k))
      PROVE  \A i \in DOMAIN entries : /\ entries[i] \in log' /\ entries[i].kind = k
                                       /\ entries[i].index = i
                                       /\ entries[i].block <= final'
  <2> SUFFICES ASSUME NEW i \in DOMAIN entries
               PROVE  /\ entries[i] \in log' /\ entries[i].kind = k
                      /\ entries[i].index = i /\ entries[i].block <= final'
    BY Zenon
  <2>1. entries[i] \in log /\ entries[i].kind = k /\ entries[i].index = i
        /\ entries[i].block <= final
    BY <1>6, Zenon DEF Stored, OfKind
  <2>2. entries[i].block \in Nat
    BY <1>0, <2>1, EventType, Zenon
  <2> QED BY <1>3, <1>4, <1>5, <2>1, <2>2
<1>7. Stored(enqueues, Queue)' /\ Stored(stateBatches, StateBatches)'
  <2>1. Stored(enqueues, OfKind("TransactionEnqueued"))
        /\ Stored(stateBatches, OfKind("StateBatchAppended"))
    BY <1>0, Zenon DEF LoopInv, Queue, StateBatches
  <2>2. /\ \A i \in DOMAIN enqueues :
             /\ enqueues[i] \in log' /\ enqueues[i].kind = "TransactionEnqueued"
             /\ enqueues[i].index = i /\ enqueues[i].block <= final'
        /\ \A i \in DOMAIN stateBatches :
             /\ stateBatches[i] \in log' /\ stateBatches[i].kind = "StateBatchAppended"
             /\ stateBatches[i].index = i /\ stateBatches[i].block <= final'
    BY <1>6, <2>1, Zenon
  <2> QED BY <1>2, <2>2, Zenon DEF Stored, Queue, StateBatches, OfKind
<1>8. LoopInv'
  <2>1. highestSynced' \in Nat /\ highestSynced' <= final'
    BY <1>0, <1>2, <1>3, <1>4, <1>5 DEF LoopInv
  <2>2. pc' \in {"enqueued", "batches"} => target' \in Nat /\ target' <= final'
    BY <1>0, <1>2, <1>3, <1>4, <1>5 DEF LoopInv
  <2> QED BY <1>0, <1>2, <1>7, <2>1, <2>2, Zenon DEF LoopInv
<1>9. ASSUME NEW e \in log', NEW b \in Nat, b <= final, e.block < b PROVE e \in log
  BY <1>0, <1>3, <1>4, <1>9, Heights
<1>10. highestSynced \in Nat /\ highestSynced <= final
  BY <1>0, Zenon DEF LoopInv
<1>11. BatchesCurrent'
  BY <1>2, <1>9, <1>10, Zenon DEF IngestInv, BatchesCurrent, OfKind
<1>12. QueueCurrent'
  <2>1. pc = "batches" => target \in Nat /\ target <= final
    BY <1>0, Zenon DEF LoopInv
  <2> QED BY <1>2, <1>9, <1>10, <2>1, Zenon DEF IngestInv, QueueCurrent, Queue, OfKind
<1>13. RootsEqual' /\ RootsComplete'
  BY <1>2, Zenon DEF IngestInv, RootsEqual, RootsComplete
<1>14. EntriesArePrefix'
  <2> SUFFICES ASSUME NEW i \in DOMAIN enqueues'
               PROVE  /\ {e \in OfKind("TransactionEnqueued")' : e.index = i} = {enqueues'[i]}
                      /\ i > 0 => i - 1 \in DOMAIN enqueues'
    BY Zenon DEF EntriesArePrefix
  <2>1. i \in DOMAIN enqueues /\ (i > 0 => i - 1 \in DOMAIN enqueues')
    BY <1>2, Zenon DEF IngestInv, EntriesArePrefix
  <2>2. enqueues'[i] \in Queue' /\ enqueues'[i].index = i
    BY <1>7, Zenon DEF Stored
  <2>3. ASSUME NEW e \in Queue', e.index = i PROVE e = enqueues'[i]
    <3>1. ChainInv'
      BY <1>4, Zenon
    <3>2. /\ \A c \in Queue' : c.id \in Nat /\ c.index \in Nat
          /\ \A c, d \in Queue' : c.id < d.id => c.index < d.index
          /\ \A c, d \in Queue' : c.id = d.id => c = d
      <4>1. /\ \A c \in log' : c \in Event
            /\ \A c, d \in Queue' : c.id < d.id => c.index < d.index
            /\ \A c, d \in log' : c.id = d.id => c = d
        BY <3>1, Zenon DEF ChainInv
      <4>2. Queue' \subseteq log'
        BY Zenon DEF Queue, OfKind
      <4> QED BY <4>1, <4>2 DEF Event
    <3>3. ~(e.id < enqueues'[i].id) /\ ~(enqueues'[i].id < e.id)
      BY <2>2, <2>3, <3>2
    <3>4. e.id = enqueues'[i].id
      BY <2>2, <3>2, <3>3
    <3> QED BY <2>2, <3>2, <3>4, Zenon
  <2> QED BY <2>1, <2>2, <2>3, Zenon DEF Queue
<1> QED BY <1>4, <1>8, <1>11, <1>12, <1>13, <1>14, Zenon DEF IngestInv

-----------------------------------------------------------------------------
(* The service.                                                            *)

\* A look at L1's height: the target is final.
LEMMA InvPoll == ASSUME IngestInv, poll PROVE IngestInv'
<1>0. ChainInv /\ LoopInv
  BY Zenon DEF IngestInv
<1>1. /\ UNCHANGED l1 /\ UNCHANGED db /\ missed' = missed /\ pc' # "batches"
      /\ faults' = faults \/ faults' = faults + 1
  BY DEF poll
<1>2. /\ highestSynced' = highestSynced /\ enqueues' = enqueues /\ stateBatches' = stateBatches
      /\ roots' = roots /\ latestEnqueue' = latestEnqueue /\ latestBatch' = latestBatch
  BY <1>1, Zenon DEF db
<1>3. ChainInv' /\ final' = final /\ log' = log
  BY <1>0, <1>1, ChainSame, Zenon DEF l1
<1>4. Queue' = Queue /\ StateBatches' = StateBatches
  BY <1>3, Zenon DEF Queue, StateBatches, OfKind
<1>5. target' \in Nat /\ target' <= final
  <2>1. PICK current \in {tip, tip - 1} :
          /\ current >= Confirmations
          /\ target' = Smaller(highestSynced + LogsPerPollingInterval, confirmed(current))
    BY Zenon DEF poll
  <2>2. /\ tip \in Nat /\ maxTip \in Nat /\ tip <= maxTip
        /\ highestSynced \in Nat /\ highestSynced <= final
    BY <1>0, Heights, Zenon DEF LoopInv
  <2> QED BY <2>1, <2>2, IngestionConstants DEF Smaller, confirmed, final
<1>6. faults' \in Nat /\ (faults' = 0 => faults = 0)
  BY <1>0, <1>1 DEF LoopInv
<1>7. LoopInv'
  BY <1>0, <1>2, <1>3, <1>4, <1>5, <1>6, Zenon DEF LoopInv, Stored
<1>8. EntriesArePrefix' /\ BatchesCurrent'
  BY <1>1, <1>2, <1>3, Zenon DEF IngestInv, EntriesArePrefix, BatchesCurrent, OfKind
<1>9. QueueCurrent'
  BY <1>1, <1>2, <1>4, Zenon DEF IngestInv, QueueCurrent
<1>10. RootsEqual' /\ RootsComplete'
  BY <1>1, <1>2, <1>6, Zenon DEF IngestInv, RootsEqual, RootsComplete
<1> QED BY <1>3, <1>7, <1>8, <1>9, <1>10, Zenon DEF IngestInv

\* What an answer is, and what it means that nothing was left out.
LEMMA Answers ==
    ASSUME ChainInv, NEW k, NEW from, NEW to, NEW es \in answers(k, from, to),
           leftOut(k, from, to, es)
    PROVE  /\ es \in SUBSET mined(k, from, to) /\ es \in SUBSET log
           /\ missed' = {} => missed = {} /\ es = mined(k, from, to)
BY Zenon DEF answers, leftOut, mined, OfKind

\* What both a completed and an interrupted read of the queue do to it.
LEMMA QueueStep ==
    ASSUME ChainInv, LoopInv, EntriesArePrefix, target \in Nat, target <= final,
           NEW es \in SUBSET mined("TransactionEnqueued", highestSynced, target),
           NEW done \in prefixes(accepted(enqueues, es)), NEW pointers \in SUBSET done,
           storeEnqueues(done, pointers), log' = log
    PROVE  /\ done \in SUBSET es
           /\ Stored(enqueues', Queue)
           /\ latestEnqueue' \in DOMAIN enqueues' \cup {None}
           /\ DOMAIN enqueues' = DOMAIN enqueues \cup indexes(done)
           /\ EntriesArePrefix'
<1>1. done \in SUBSET es /\ es \in SUBSET log
  BY Zenon DEF prefixes, accepted, mined, OfKind
<1>2. done \in SUBSET log /\ done \in SUBSET mined("TransactionEnqueued", highestSynced, target)
  BY <1>1, Zenon
<1>3. enqueues' = putEntries(enqueues, done) /\ latestEnqueue' = putLatest(latestEnqueue, pointers)
  BY Zenon DEF storeEnqueues
<1>4. Stored(enqueues, OfKind("TransactionEnqueued"))
  BY Zenon DEF LoopInv, Queue
<1>5. Stored(enqueues', Queue)
  <2>1. Stored(putEntries(enqueues, done), OfKind("TransactionEnqueued"))
    BY <1>2, <1>4, PutStored, Zenon
  <2> QED BY <1>3, <2>1, Zenon DEF Queue
<1>6. latestEnqueue' \in DOMAIN enqueues' \cup {None}
  <2>1. latestEnqueue \in DOMAIN enqueues \cup {None}
    BY Zenon DEF LoopInv
  <2>2. putLatest(latestEnqueue, pointers) \in DOMAIN putEntries(enqueues, done) \cup {None}
    BY <1>2, <1>4, <2>1, PutLatest, Zenon
  <2> QED BY <1>3, <2>2, Zenon
<1>7. DOMAIN enqueues' = DOMAIN enqueues \cup indexes(done)
  BY <1>3, Zenon DEF putEntries
<1>8. ASSUME NEW i \in DOMAIN enqueues'
      PROVE  /\ {e \in Queue : e.index = i} = {enqueues'[i]}
             /\ i > 0 => i - 1 \in DOMAIN enqueues'
  <2>1. enqueues'[i] \in Queue /\ enqueues'[i].index = i
    BY <1>5, Zenon DEF Stored
  <2>2. ASSUME NEW e \in Queue, e.index = i PROVE e = enqueues'[i]
    <3>1. /\ e \in log /\ enqueues'[i] \in log
          /\ e.id < enqueues'[i].id => e.index < enqueues'[i].index
          /\ enqueues'[i].id < e.id => enqueues'[i].index < e.index
      BY <2>1, Zenon DEF ChainInv, Queue, OfKind
    <3>2. e.id = enqueues'[i].id
      BY <2>1, <2>2, <3>1, EventType
    <3> QED BY <3>1, <3>2, Zenon DEF ChainInv
  <2>3. ASSUME i > 0 PROVE i - 1 \in DOMAIN enqueues'
    <3>1. CASE i \in DOMAIN enqueues
      BY <1>7, <2>3, <3>1, Zenon DEF EntriesArePrefix
    <3>2. CASE i \in indexes(done)
      <4>1. PICK e \in done : e.index = i
        BY <3>2, Zenon DEF indexes
      <4> QED BY <1>1, <1>7, <2>3, <4>1, AcceptedClosed, Zenon
    <3> QED BY <1>7, <3>1, <3>2, Zenon
  <2> QED BY <2>1, <2>2, <2>3, Zenon
<1>9. EntriesArePrefix'
  BY <1>8, Zenon DEF EntriesArePrefix, Queue, OfKind
<1> QED BY <1>1, <1>5, <1>6, <1>7, <1>9, Zenon

\* The block that the service goes back to is final.
LEMMA Rewound ==
    ASSUME ChainInv, LoopInv, NEW k, NEW entries, Stored(entries, OfKind(k)),
           NEW latest \in DOMAIN entries \cup {None}, recover(latest, entries)
    PROVE  highestSynced' \in Nat /\ highestSynced' <= final /\ pc' = "idle"
<1>1. CASE latest = None
  BY <1>1, Zenon DEF recover, endLoop, LoopInv
<1>2. CASE latest # None
  <2>1. entries[latest] \in log /\ entries[latest].block <= final
    BY <1>2, Zenon DEF Stored, OfKind
  <2>2. highestSynced' = entries[latest].block /\ pc' = "idle"
    BY <1>2, Zenon DEF recover, rewound, endLoop
  <2> QED BY <2>1, <2>2, EventType, Zenon
<1> QED BY <1>1, <1>2, Zenon

\* Facts about a step that leaves L1 alone.
LEMMA Unmoved ==
    ASSUME IngestInv, UNCHANGED l1
    PROVE  /\ ChainInv' /\ final' = final /\ log' = log
           /\ Queue' = Queue /\ StateBatches' = StateBatches
<1>1. ChainInv' /\ final' = final /\ log' = log
  BY ChainSame, Zenon DEF IngestInv, l1
<1> QED BY <1>1, Zenon DEF Queue, StateBatches, OfKind

\* Reading the queue: nothing is refused unless something was left out.
LEMMA InvSyncEnqueued == ASSUME IngestInv, syncEnqueued PROVE IngestInv'
<1>0. ChainInv /\ LoopInv /\ EntriesArePrefix
  BY Zenon DEF IngestInv
<1>1. PICK es \in answers("TransactionEnqueued", highestSynced, target) :
        /\ leftOut("TransactionEnqueued", highestSynced, target, es)
        /\ storeEnqueues(accepted(enqueues, es), accepted(enqueues, es))
        /\ \/ /\ accepted(enqueues, es) = es
              /\ pc' = "batches" /\ UNCHANGED <<target, head, highestSynced>>
           \/ /\ accepted(enqueues, es) # es
              /\ recover(latestEnqueue', enqueues')
  BY Zenon DEF syncEnqueued
<1>2. /\ UNCHANGED l1 /\ pc = "enqueued" /\ stateBatches' = stateBatches /\ roots' = roots
      /\ latestBatch' = latestBatch /\ faults' = faults
  BY Zenon DEF syncEnqueued
<1>3. /\ ChainInv' /\ final' = final /\ log' = log
      /\ Queue' = Queue /\ StateBatches' = StateBatches
  BY <1>2, Unmoved, Zenon
<1>4. target \in Nat /\ target <= final /\ highestSynced \in Nat /\ highestSynced <= final
  BY <1>0, <1>2, Zenon DEF LoopInv
<1>5. /\ es \in SUBSET mined("TransactionEnqueued", highestSynced, target)
      /\ missed' = {} => /\ missed = {}
                         /\ es = mined("TransactionEnqueued", highestSynced, target)
  BY <1>0, <1>1, Answers, Zenon
<1> DEFINE done == accepted(enqueues, es)
<1>6. /\ Stored(enqueues', Queue)
      /\ latestEnqueue' \in DOMAIN enqueues' \cup {None}
      /\ DOMAIN enqueues' = DOMAIN enqueues \cup indexes(done)
      /\ EntriesArePrefix'
  <2>1. done \in prefixes(done) /\ done \in SUBSET done
    BY AcceptedPrefix, Zenon
  <2> QED BY <1>0, <1>1, <1>3, <1>4, <1>5, <2>1, QueueStep, Zenon
<1>7. missed' = {} => done = es
  <2> SUFFICES ASSUME missed' = {} PROVE done = es
    BY Zenon
  <2>1. \A d \in OfKind("TransactionEnqueued") :
            d.block < highestSynced => d.index \in DOMAIN enqueues
    BY <1>5, Zenon DEF IngestInv, QueueCurrent, Queue
  <2> QED BY <1>0, <1>4, <1>5, <2>1, AllAccepted, Zenon
<1> HIDE DEF done
<1>8. /\ highestSynced' \in Nat /\ highestSynced' <= final
      /\ pc' = "batches" => target' = target
      /\ pc' = "batches" \/ pc' = "idle"
  <2>1. CASE done = es
    BY <1>1, <1>4, <2>1, Zenon DEF done
  <2>2. CASE done # es
    <3>1. recover(latestEnqueue', enqueues')
      BY <1>1, <2>2, Zenon DEF done
    <3>2. Stored(enqueues', OfKind("TransactionEnqueued"))
      BY <1>6, Zenon DEF Queue
    <3>3. highestSynced' \in Nat /\ highestSynced' <= final /\ pc' = "idle"
      BY <1>0, <1>6, <3>1, <3>2, Rewound, Zenon
    <3> QED BY <3>3, Zenon
  <2> QED BY <2>1, <2>2, Zenon
<1>9. missed' = {} => highestSynced' = highestSynced /\ target' = target /\ done = es
  BY <1>1, <1>7, Zenon DEF done
<1>10. LoopInv'
  BY <1>0, <1>2, <1>3, <1>4, <1>6, <1>8, Zenon DEF LoopInv, Stored
<1>11. QueueCurrent'
  <2> SUFFICES ASSUME missed' = {}, NEW e \in Queue, e.block < highestSynced \/ e.block < target
               PROVE  e.index \in DOMAIN enqueues'
    BY <1>3, <1>9, Zenon DEF QueueCurrent
  <2>1. CASE e.block < highestSynced
    BY <1>5, <1>6, <2>1, Zenon DEF IngestInv, QueueCurrent
  <2>2. CASE ~(e.block < highestSynced)
    <3>1. e \in OfKind("TransactionEnqueued") /\ e \in log
      BY Zenon DEF Queue, OfKind
    <3>2. e.block \in highestSynced .. target /\ e.block <= tip
      BY <1>0, <1>4, <2>2, <3>1, EventType, Heights
    <3>3. e \in es
      BY <1>5, <3>1, <3>2, Zenon DEF mined
    <3> QED BY <1>6, <1>9, <3>3, Zenon DEF indexes
  <2> QED BY <2>1, <2>2, Zenon
<1>12. BatchesCurrent'
  BY <1>2, <1>3, <1>5, <1>9, Zenon DEF IngestInv, BatchesCurrent, StateBatches
<1>13. RootsEqual'
  BY <1>2, Zenon DEF IngestInv, RootsEqual
<1>14. RootsComplete'
  <2>1. CASE faults = 0
    BY <1>2, <2>1, Zenon DEF IngestInv, RootsEqual, RootsComplete
  <2>2. CASE faults # 0
    BY <1>2, <1>5, <1>9, <2>2, Zenon DEF IngestInv, RootsComplete
  <2> QED BY <2>1, <2>2, Zenon
<1> QED BY <1>3, <1>6, <1>10, <1>11, <1>12, <1>13, <1>14, Zenon DEF IngestInv

\* A crash while the queue is read.
LEMMA InvCrashEnqueued == ASSUME IngestInv, crashEnqueued PROVE IngestInv'
<1>0. ChainInv /\ LoopInv /\ EntriesArePrefix
  BY Zenon DEF IngestInv
<1>1. PICK es \in answers("TransactionEnqueued", highestSynced, target) :
        /\ leftOut("TransactionEnqueued", highestSynced, target, es)
        /\ \E done \in prefixes(accepted(enqueues, es)) :
           \E pointers \in {done, butLast(done)} : storeEnqueues(done, pointers)
  BY Zenon DEF crashEnqueued
<1>2. PICK done \in prefixes(accepted(enqueues, es)) :
           \E pointers \in {done, butLast(done)} : storeEnqueues(done, pointers)
  BY <1>1, Zenon
<1>3. PICK pointers \in {done, butLast(done)} : storeEnqueues(done, pointers)
  BY <1>2, Zenon
<1>4. /\ UNCHANGED l1 /\ pc = "enqueued" /\ stateBatches' = stateBatches /\ roots' = roots
      /\ latestBatch' = latestBatch /\ faults' = faults + 1 /\ pc' = "idle"
      /\ highestSynced' = highestSynced
  BY Zenon DEF crashEnqueued, crash, endLoop
<1>5. /\ ChainInv' /\ final' = final /\ log' = log
      /\ Queue' = Queue /\ StateBatches' = StateBatches
  BY <1>4, Unmoved, Zenon
<1>6. target \in Nat /\ target <= final
  BY <1>0, <1>4, Zenon DEF LoopInv
<1>7. /\ es \in SUBSET mined("TransactionEnqueued", highestSynced, target)
      /\ missed' = {} => missed = {}
  BY <1>0, <1>1, Answers, Zenon
<1>8. /\ Stored(enqueues', Queue)
      /\ latestEnqueue' \in DOMAIN enqueues' \cup {None}
      /\ DOMAIN enqueues' = DOMAIN enqueues \cup indexes(done)
      /\ EntriesArePrefix'
  <2>1. pointers \in SUBSET done
    BY Zenon DEF butLast
  <2> QED BY <1>0, <1>3, <1>5, <1>6, <1>7, <2>1, QueueStep, Zenon
<1>9. faults' \in Nat /\ faults' # 0
  BY <1>0, <1>4 DEF LoopInv
<1>10. LoopInv'
  BY <1>0, <1>4, <1>5, <1>8, <1>9, Zenon DEF LoopInv, Stored
<1>11. QueueCurrent'
  BY <1>4, <1>5, <1>7, <1>8, Zenon DEF IngestInv, QueueCurrent
<1>12. BatchesCurrent'
  BY <1>4, <1>5, <1>7, Zenon DEF IngestInv, BatchesCurrent, StateBatches
<1>13. RootsEqual' /\ RootsComplete'
  BY <1>4, <1>7, <1>9, Zenon DEF IngestInv, RootsEqual, RootsComplete
<1> QED BY <1>5, <1>8, <1>10, <1>11, <1>12, <1>13, Zenon DEF IngestInv

\* What both a completed and an interrupted read of the state batches do to them.
LEMMA BatchStep ==
    ASSUME ChainInv, LoopInv, target \in Nat, target <= final,
           NEW es \in SUBSET mined("StateBatchAppended", highestSynced, target),
           NEW done \in SUBSET es, NEW pointers \in SUBSET done, NEW values \in SUBSET done,
           NEW deletes, storeBatches(done, pointers, values, deletes)
    PROVE  /\ Stored(stateBatches', StateBatches)
           /\ latestBatch' \in DOMAIN stateBatches' \cup {None}
           /\ DOMAIN stateBatches' = DOMAIN stateBatches \cup indexes(done)
           /\ \A i \in indexes(done) :
                /\ stateBatches'[i].block >= highestSynced
                /\ stateBatches'[i] \in done
                /\ \A d \in done : d.index = i => d.id <= stateBatches'[i].id
           /\ \A i \in DOMAIN stateBatches : i \notin indexes(done) => stateBatches'[i] = stateBatches[i]
           /\ \A i \in DOMAIN roots : i \notin indexes(done) =>
                i \in DOMAIN roots' /\ roots'[i] = roots[i]
           /\ values = done => \A i \in indexes(done) :
                i \in DOMAIN roots' /\ roots'[i] = stateBatches'[i]
<1>1. done \in SUBSET log /\ done \in SUBSET mined("StateBatchAppended", highestSynced, target)
      /\ values \in SUBSET log
  BY Zenon DEF mined, OfKind
<1>2. /\ stateBatches' = putEntries(stateBatches, done) /\ latestBatch' = putLatest(latestBatch, pointers)
      /\ roots' = putEntries(roots, values)
  BY Zenon DEF storeBatches
<1>3. Stored(stateBatches, OfKind("StateBatchAppended"))
  BY Zenon DEF LoopInv, StateBatches
<1>4. Stored(stateBatches', StateBatches)
  <2>1. Stored(putEntries(stateBatches, done), OfKind("StateBatchAppended"))
    BY <1>1, <1>3, PutStored, Zenon
  <2> QED BY <1>2, <2>1, Zenon DEF StateBatches
<1>5. latestBatch' \in DOMAIN stateBatches' \cup {None}
  <2>1. latestBatch \in DOMAIN stateBatches \cup {None}
    BY Zenon DEF LoopInv
  <2>2. putLatest(latestBatch, pointers) \in DOMAIN putEntries(stateBatches, done) \cup {None}
    BY <1>1, <1>3, <2>1, PutLatest, Zenon
  <2> QED BY <1>2, <2>2, Zenon
<1>6. /\ DOMAIN stateBatches' = DOMAIN stateBatches \cup indexes(done)
      /\ \A i \in indexes(done) :
           /\ stateBatches'[i] \in done
           /\ \A d \in done : d.index = i => d.id <= stateBatches'[i].id
      /\ \A i \in DOMAIN stateBatches : i \notin indexes(done) => stateBatches'[i] = stateBatches[i]
  <2> DEFINE new == putEntries(stateBatches, done)
  <2>1. done \in SUBSET log
    BY <1>1, Zenon
  <2>2. /\ DOMAIN new = DOMAIN stateBatches \cup indexes(done)
        /\ \A i \in DOMAIN stateBatches : i \notin indexes(done) => new[i] = stateBatches[i]
    BY Zenon DEF putEntries
  <2>3. \A i \in indexes(done) :
          new[i] \in done /\ \A d \in done : d.index = i => d.id <= new[i].id
    BY <2>1, PutEntries, Zenon
  <2>4. stateBatches' = new
    BY <1>2, Zenon
  <2> HIDE DEF new
  <2> QED BY <2>2, <2>3, <2>4, Zenon
<1>7. /\ DOMAIN roots' = DOMAIN roots \cup indexes(values)
      /\ \A i \in DOMAIN roots : i \notin indexes(values) => roots'[i] = roots[i]
  BY <1>2, Zenon DEF putEntries
<1>8. \A i \in indexes(done) : stateBatches'[i].block >= highestSynced
  <2>1. \A e \in done : e.block \in highestSynced .. target
    BY Zenon DEF mined
  <2>2. \A i \in indexes(done) : stateBatches'[i].block \in highestSynced .. target
    BY <1>6, <2>1, Zenon
  <2> QED BY <2>2 DEF LoopInv
<1>9. indexes(values) \subseteq indexes(done)
  BY Zenon DEF indexes
<1>10. ASSUME values = done, NEW i \in indexes(done)
       PROVE  i \in DOMAIN roots' /\ roots'[i] = stateBatches'[i]
  <2>1. stateBatches'[i] = last({e \in done : e.index = i})
        /\ roots'[i] = last({e \in done : e.index = i})
    BY <1>2, <1>10, Zenon DEF putEntries
  <2> QED BY <1>7, <1>10, <2>1, Zenon
<1> QED BY <1>4, <1>5, <1>6, <1>7, <1>8, <1>9, <1>10, Zenon

\* A batch keeps its place, or a later one takes it.
LEMMA KeptOrLater ==
    ASSUME ChainInv, highestSynced \in Nat,
           NEW e \in log, e.block < highestSynced, NEW n \in log, n.block >= highestSynced
    PROVE  n.id >= e.id
<1>1. n.id < e.id => n.block <= e.block
  BY Zenon DEF ChainInv
<1> QED BY <1>1, EventType

\* Reading the state batches.
LEMMA InvSyncBatches == ASSUME IngestInv, syncBatches PROVE IngestInv'
<1>0. ChainInv /\ LoopInv
  BY Zenon DEF IngestInv
<1>1. PICK es \in answers("StateBatchAppended", highestSynced, target) :
        /\ leftOut("StateBatchAppended", highestSynced, target, es)
        /\ storeBatches(accepted(stateBatches, es), accepted(stateBatches, es), accepted(stateBatches, es),
                        accepted(stateBatches, es))
        /\ \/ accepted(stateBatches, es) = es /\ endLoop /\ highestSynced' = synced
           \/ accepted(stateBatches, es) # es /\ recover(latestBatch', stateBatches')
  BY Zenon DEF syncBatches
<1>2. /\ UNCHANGED l1 /\ pc = "batches" /\ enqueues' = enqueues
      /\ latestEnqueue' = latestEnqueue /\ faults' = faults
  BY Zenon DEF syncBatches
<1>3. /\ ChainInv' /\ final' = final /\ log' = log
      /\ Queue' = Queue /\ StateBatches' = StateBatches
  BY <1>2, Unmoved, Zenon
<1>4. target \in Nat /\ target <= final /\ highestSynced \in Nat /\ highestSynced <= final
  BY <1>0, <1>2, Zenon DEF LoopInv
<1>5. /\ es \in SUBSET mined("StateBatchAppended", highestSynced, target)
      /\ es \in SUBSET log
      /\ missed' = {} => /\ missed = {}
                         /\ es = mined("StateBatchAppended", highestSynced, target)
  BY <1>0, <1>1, Answers, Zenon
<1> DEFINE done == accepted(stateBatches, es)
<1>6. done \in SUBSET es
  BY Zenon DEF accepted
<1>7. missed' = {} => done = es
  <2> SUFFICES ASSUME missed' = {} PROVE done = es
    BY Zenon
  <2>1. \A d \in OfKind("StateBatchAppended") :
            d.block < highestSynced => d.index \in DOMAIN stateBatches
    BY <1>5, Zenon DEF IngestInv, BatchesCurrent
  <2> QED BY <1>0, <1>4, <1>5, <2>1, AllAccepted, Zenon
<1>8. storeBatches(done, done, done, done)
  BY <1>1, Zenon
<1> HIDE DEF done
<1>9. /\ Stored(stateBatches', StateBatches)
      /\ latestBatch' \in DOMAIN stateBatches' \cup {None}
      /\ DOMAIN stateBatches' = DOMAIN stateBatches \cup indexes(done)
      /\ \A i \in indexes(done) :
           /\ stateBatches'[i].block >= highestSynced
           /\ stateBatches'[i] \in done
           /\ \A d \in done : d.index = i => d.id <= stateBatches'[i].id
      /\ \A i \in DOMAIN stateBatches : i \notin indexes(done) => stateBatches'[i] = stateBatches[i]
      /\ \A i \in DOMAIN roots : i \notin indexes(done) =>
           i \in DOMAIN roots' /\ roots'[i] = roots[i]
      /\ \A i \in indexes(done) : i \in DOMAIN roots' /\ roots'[i] = stateBatches'[i]
  <2>1. done \in SUBSET done
    BY Zenon
  <2> QED BY <1>0, <1>4, <1>5, <1>6, <1>8, <2>1, BatchStep
<1>10. highestSynced' \in Nat /\ highestSynced' <= final /\ pc' = "idle"
  <2>1. CASE done = es
    BY <1>1, <1>4, <2>1, Zenon DEF done, endLoop, synced
  <2>2. CASE done # es
    <3>1. recover(latestBatch', stateBatches')
      BY <1>1, <2>2, Zenon DEF done
    <3>2. Stored(stateBatches', OfKind("StateBatchAppended"))
      BY <1>9, Zenon DEF StateBatches
    <3> QED BY <1>0, <1>9, <3>1, <3>2, Rewound, Zenon
  <2> QED BY <2>1, <2>2, Zenon
<1>11. missed' = {} => highestSynced' = target /\ done = es
  BY <1>1, <1>7, Zenon DEF done, synced
<1>12. LoopInv'
  BY <1>0, <1>2, <1>3, <1>9, <1>10, Zenon DEF LoopInv, Stored
<1>13. QueueCurrent'
  BY <1>2, <1>3, <1>5, <1>10, <1>11, Zenon DEF IngestInv, QueueCurrent
<1>14. ASSUME missed' = {}, NEW e \in StateBatches, ~(e.block < highestSynced), e.block < target
       PROVE  e \in done
  <2>1. e \in OfKind("StateBatchAppended") /\ e \in log
    BY Zenon DEF StateBatches, OfKind
  <2>2. e.block \in highestSynced .. target /\ e.block <= tip
    BY <1>0, <1>4, <1>14, <2>1, EventType, Heights
  <2> QED BY <1>5, <1>11, <1>14, <2>1, <2>2, Zenon DEF mined
<1>15. BatchesCurrent'
  <2> SUFFICES ASSUME missed' = {}, NEW e \in StateBatches, e.block < target
               PROVE  e.index \in DOMAIN stateBatches' /\ stateBatches'[e.index].id >= e.id
    BY <1>3, <1>11, Zenon DEF BatchesCurrent, StateBatches
  <2>0. e \in log /\ e.id \in Nat
    BY <1>0, EventType, Zenon DEF StateBatches, OfKind
  <2>1. CASE e.index \in indexes(done)
    <3>1. /\ stateBatches'[e.index] \in log /\ stateBatches'[e.index].block >= highestSynced
          /\ e.index \in DOMAIN stateBatches'
      BY <1>5, <1>6, <1>9, <2>1, Zenon
    <3>2. CASE e.block < highestSynced
      BY <1>0, <1>4, <2>0, <3>1, <3>2, KeptOrLater, Zenon
    <3>3. CASE ~(e.block < highestSynced)
      <4>1. e.id <= stateBatches'[e.index].id
        BY <1>9, <1>14, <2>1, <3>3, Zenon
      <4> QED BY <1>0, <2>0, <3>1, <4>1, EventType
    <3> QED BY <3>2, <3>3, Zenon
  <2>2. CASE e.index \notin indexes(done)
    <3>1. e \notin done
      BY <2>2, Zenon DEF indexes
    <3>2. e.block < highestSynced
      BY <1>14, <3>1, Zenon
    <3>3. e.index \in DOMAIN stateBatches /\ stateBatches[e.index].id >= e.id
      BY <1>5, <3>2, Zenon DEF IngestInv, BatchesCurrent, StateBatches
    <3> QED BY <1>9, <2>2, <3>3, Zenon
  <2> QED BY <2>1, <2>2, Zenon
<1>16. RootsEqual'
  <2> SUFFICES ASSUME faults = 0, NEW i \in DOMAIN stateBatches'
               PROVE  i \in DOMAIN roots' /\ roots'[i] = stateBatches'[i]
    BY <1>2, Zenon DEF RootsEqual
  <2>1. CASE i \in indexes(done)
    BY <1>9, <2>1, Zenon
  <2>2. CASE i \notin indexes(done)
    BY <1>9, <2>2, Zenon DEF IngestInv, RootsEqual
  <2> QED BY <2>1, <2>2, Zenon
<1>17. RootsComplete'
  <2>1. CASE faults = 0
    BY <1>2, <1>16, <2>1, Zenon DEF RootsEqual, RootsComplete
  <2>2. ASSUME missed' = {}, NEW i \in DOMAIN stateBatches', stateBatches'[i].block < target
        PROVE  i \in DOMAIN roots' /\ roots'[i] = stateBatches'[i]
    <3>1. CASE i \in indexes(done)
      BY <1>9, <3>1, Zenon
    <3>2. CASE i \notin indexes(done)
      <4>1. i \in DOMAIN stateBatches /\ stateBatches'[i] = stateBatches[i]
        BY <1>9, <3>2, Zenon
      <4>2. stateBatches[i] \in StateBatches /\ stateBatches[i].index = i
        BY <1>0, <4>1, Zenon DEF LoopInv, Stored
      <4>3. stateBatches[i] \notin done
        BY <3>2, <4>2, Zenon DEF indexes
      <4>4. stateBatches[i].block < highestSynced
        BY <1>14, <2>2, <4>1, <4>2, <4>3, Zenon
      <4>5. i \in DOMAIN roots /\ roots[i] = stateBatches[i]
        BY <1>5, <2>2, <4>1, <4>4, Zenon DEF IngestInv, RootsComplete
      <4> QED BY <1>9, <3>2, <4>1, <4>5, Zenon
    <3> QED BY <3>1, <3>2, Zenon
  <2> QED BY <1>2, <1>11, <2>1, <2>2, Zenon DEF RootsComplete
<1>18. EntriesArePrefix'
  BY <1>2, <1>3, Zenon DEF IngestInv, EntriesArePrefix, Queue
<1> QED BY <1>3, <1>12, <1>13, <1>15, <1>16, <1>17, <1>18, Zenon DEF IngestInv

\* A crash while the state batches are read: the synced block has not moved.
LEMMA InvCrashBatches == ASSUME IngestInv, crashBatches PROVE IngestInv'
<1>0. ChainInv /\ LoopInv
  BY Zenon DEF IngestInv
<1>1. PICK es \in answers("StateBatchAppended", highestSynced, target) :
        /\ leftOut("StateBatchAppended", highestSynced, target, es)
        /\ \E done \in prefixes(accepted(stateBatches, es)) :
           \E pointers, values, deletes \in {done, butLast(done)} :
             /\ deletes \subseteq values /\ values \subseteq pointers
             /\ storeBatches(done, pointers, values, deletes)
  BY Zenon DEF crashBatches
<1>2. PICK done \in prefixes(accepted(stateBatches, es)) :
           \E pointers, values, deletes \in {done, butLast(done)} :
             storeBatches(done, pointers, values, deletes)
  BY <1>1, Zenon
<1>3. PICK pointers, values, deletes \in {done, butLast(done)} :
             storeBatches(done, pointers, values, deletes)
  BY <1>2, Zenon
<1>4. /\ UNCHANGED l1 /\ pc = "batches" /\ enqueues' = enqueues
      /\ latestEnqueue' = latestEnqueue /\ faults' = faults + 1 /\ pc' = "idle"
      /\ highestSynced' = highestSynced
  BY Zenon DEF crashBatches, crash, endLoop
<1>5. /\ ChainInv' /\ final' = final /\ log' = log
      /\ Queue' = Queue /\ StateBatches' = StateBatches
  BY <1>4, Unmoved, Zenon
<1>6. target \in Nat /\ target <= final /\ highestSynced \in Nat
  BY <1>0, <1>4, Zenon DEF LoopInv
<1>7. /\ es \in SUBSET mined("StateBatchAppended", highestSynced, target)
      /\ es \in SUBSET log
      /\ missed' = {} => missed = {}
  BY <1>0, <1>1, Answers, Zenon
<1>8. done \in SUBSET es /\ pointers \in SUBSET done /\ values \in SUBSET done
  BY Zenon DEF prefixes, accepted, butLast
<1>9. /\ Stored(stateBatches', StateBatches)
      /\ latestBatch' \in DOMAIN stateBatches' \cup {None}
      /\ DOMAIN stateBatches' = DOMAIN stateBatches \cup indexes(done)
      /\ \A i \in indexes(done) : /\ stateBatches'[i].block >= highestSynced
                                  /\ stateBatches'[i] \in done
      /\ \A i \in DOMAIN stateBatches : i \notin indexes(done) => stateBatches'[i] = stateBatches[i]
      /\ \A i \in DOMAIN roots : i \notin indexes(done) =>
           i \in DOMAIN roots' /\ roots'[i] = roots[i]
  BY <1>0, <1>3, <1>6, <1>7, <1>8, BatchStep
<1>10. faults' \in Nat /\ faults' # 0
  BY <1>0, <1>4 DEF LoopInv
<1>11. LoopInv'
  BY <1>0, <1>4, <1>5, <1>9, <1>10, Zenon DEF LoopInv, Stored
<1>12. QueueCurrent'
  BY <1>4, <1>5, <1>7, Zenon DEF IngestInv, QueueCurrent
<1>13. BatchesCurrent'
  <2> SUFFICES ASSUME missed' = {}, NEW e \in StateBatches, e.block < highestSynced
               PROVE  e.index \in DOMAIN stateBatches' /\ stateBatches'[e.index].id >= e.id
    BY <1>4, <1>5, Zenon DEF BatchesCurrent, StateBatches
  <2>0. e \in log
    BY Zenon DEF StateBatches, OfKind
  <2>1. e.index \in DOMAIN stateBatches /\ stateBatches[e.index].id >= e.id
    BY <1>7, Zenon DEF IngestInv, BatchesCurrent, StateBatches
  <2>2. CASE e.index \in indexes(done)
    <3>1. /\ stateBatches'[e.index] \in log /\ stateBatches'[e.index].block >= highestSynced
          /\ e.index \in DOMAIN stateBatches'
      BY <1>7, <1>8, <1>9, <2>2, Zenon
    <3> QED BY <1>0, <1>6, <2>0, <3>1, KeptOrLater, Zenon
  <2>3. CASE e.index \notin indexes(done)
    BY <1>9, <2>1, <2>3, Zenon
  <2> QED BY <2>2, <2>3, Zenon
<1>14. RootsEqual'
  BY <1>10, Zenon DEF RootsEqual
<1>15. RootsComplete'
  <2> SUFFICES ASSUME missed' = {}, NEW i \in DOMAIN stateBatches', stateBatches'[i].block < highestSynced
               PROVE  i \in DOMAIN roots' /\ roots'[i] = stateBatches'[i]
    BY <1>4, <1>10, Zenon DEF RootsComplete
  <2>1. i \notin indexes(done)
    <3> SUFFICES ASSUME i \in indexes(done) PROVE FALSE
      BY Zenon
    <3>1. stateBatches'[i] \in log /\ stateBatches'[i].block >= highestSynced
      BY <1>7, <1>8, <1>9, Zenon
    <3> QED BY <1>0, <1>6, <3>1, EventType
  <2>2. i \in DOMAIN stateBatches /\ stateBatches'[i] = stateBatches[i]
    BY <1>9, <2>1, Zenon
  <2>3. i \in DOMAIN roots /\ roots[i] = stateBatches[i]
    BY <1>7, <2>2, Zenon DEF IngestInv, RootsComplete
  <2> QED BY <1>9, <2>1, <2>2, <2>3, Zenon
<1>16. EntriesArePrefix'
  BY <1>4, <1>5, Zenon DEF IngestInv, EntriesArePrefix, Queue
<1> QED BY <1>5, <1>11, <1>12, <1>13, <1>14, <1>15, <1>16, Zenon DEF IngestInv

\* Unconfirmed batches go to entries of their own.
LEMMA InvCached == ASSUME IngestInv, syncCached \/ crashCached PROVE IngestInv'
<1>1. /\ UNCHANGED l1 /\ pc' = "idle" /\ highestSynced' = highestSynced
      /\ enqueues' = enqueues /\ stateBatches' = stateBatches /\ roots' = roots
      /\ latestEnqueue' = latestEnqueue /\ latestBatch' = latestBatch
      /\ faults' = faults \/ faults' = faults + 1
  BY Zenon DEF syncCached, crashCached, crash, endLoop
<1>2. missed' = {} => missed = {}
  BY Zenon DEF syncCached, crashCached, leftOut
<1>3. /\ ChainInv' /\ final' = final /\ log' = log
      /\ Queue' = Queue /\ StateBatches' = StateBatches
  BY <1>1, Unmoved, Zenon
<1>4. faults' \in Nat /\ (faults' = 0 => faults = 0)
  BY <1>1 DEF IngestInv, LoopInv
<1>5. LoopInv'
  BY <1>1, <1>3, <1>4, Zenon DEF IngestInv, LoopInv, Stored
<1>6. EntriesArePrefix'
  BY <1>1, <1>3, Zenon DEF IngestInv, EntriesArePrefix, Queue
<1>7. QueueCurrent'
  BY <1>1, <1>2, <1>3, Zenon DEF IngestInv, QueueCurrent
<1>8. BatchesCurrent'
  BY <1>1, <1>2, <1>3, Zenon DEF IngestInv, BatchesCurrent, StateBatches
<1>9. RootsEqual' /\ RootsComplete'
  BY <1>1, <1>2, <1>4, Zenon DEF IngestInv, RootsEqual, RootsComplete
<1> QED BY <1>3, <1>5, <1>6, <1>7, <1>8, <1>9, Zenon DEF IngestInv

\* A stuttering step.
LEMMA InvSame == ASSUME IngestInv, UNCHANGED ingestionVars PROVE IngestInv'
<1>1. UNCHANGED l1 /\ UNCHANGED db /\ pc' = pc /\ target' = target /\ faults' = faults
      /\ missed' = missed
  BY Zenon DEF ingestionVars
<1>2. /\ highestSynced' = highestSynced /\ enqueues' = enqueues /\ stateBatches' = stateBatches
      /\ roots' = roots /\ latestEnqueue' = latestEnqueue /\ latestBatch' = latestBatch
  BY <1>1, Zenon DEF db
<1>3. /\ ChainInv' /\ final' = final /\ log' = log
      /\ Queue' = Queue /\ StateBatches' = StateBatches
  BY <1>1, Unmoved, Zenon
<1>4. LoopInv'
  BY <1>1, <1>2, <1>3, Zenon DEF IngestInv, LoopInv, Stored
<1>5. EntriesArePrefix' /\ QueueCurrent'
  BY <1>1, <1>2, <1>3, Zenon DEF IngestInv, EntriesArePrefix, QueueCurrent, Queue
<1>6. BatchesCurrent' /\ RootsEqual' /\ RootsComplete'
  BY <1>1, <1>2, <1>3, Zenon DEF IngestInv, BatchesCurrent, StateBatches, RootsEqual, RootsComplete
<1> QED BY <1>3, <1>4, <1>5, <1>6, Zenon DEF IngestInv

\* An empty database next to a chain without events.
LEMMA InvInit == IngestionInit => IngestInv
<1> SUFFICES ASSUME IngestionInit PROVE IngestInv
  BY Zenon
<1>1. /\ log = {} /\ tip = 0 /\ maxTip = 0 /\ events = 0 /\ faults = 0 /\ highestSynced = 0
      /\ pc = "idle" /\ latestEnqueue = None /\ latestBatch = None
  BY Zenon DEF IngestionInit
<1>2. DOMAIN enqueues = {} /\ DOMAIN stateBatches = {}
  BY DEF IngestionInit
<1>3. final = 0
  BY <1>1, IngestionConstants DEF final
<1>4. Queue = {} /\ StateBatches = {}
  BY <1>1, Zenon DEF Queue, StateBatches, OfKind
<1>5. ChainInv
  BY <1>1, <1>3, <1>4 DEF ChainInv
<1>6. LoopInv
  BY <1>1, <1>2, <1>3 DEF LoopInv, Stored
<1>7. EntriesArePrefix /\ QueueCurrent /\ RootsEqual /\ RootsComplete
  BY <1>2, <1>4, Zenon DEF EntriesArePrefix, QueueCurrent, RootsEqual, RootsComplete
<1>8. BatchesCurrent
  BY <1>4, Zenon DEF BatchesCurrent, StateBatches
<1> QED BY <1>5, <1>6, <1>7, <1>8, Zenon DEF IngestInv

\* Every step of L1, of its provider and of the service preserves the invariant.
LEMMA InvNext == IngestInv /\ [IngestionNext]_ingestionVars => IngestInv'
BY InvL1, InvPoll, InvSyncEnqueued, InvSyncBatches, InvCached, InvCrashEnqueued,
   InvCrashBatches, InvSame, Zenon DEF IngestionNext, Service

-----------------------------------------------------------------------------
\* Whatever L1 replaces below the confirmation depth, whatever the provider
\* reports late or leaves out, and wherever the process ends: the stored queue
\* has no gap, and every element of it is L1's only event of that index.  The
\* argument: what is read is final, and storeEvent's check refuses an element
\* without its predecessor.
THEOREM IngestionEntries == IngestionSpec => []EntriesArePrefix
<1>1. IngestInv => EntriesArePrefix
  BY Zenon DEF IngestInv
<1> QED BY <1>1, InvInit, InvNext, PTL DEF IngestionSpec

\* A stored batch below the highest synced block has its own roots, if no
\* process ended early or no event was left out: the synced block moves only
\* after entry and roots are put.
THEOREM IngestionRoots == IngestionSpec => []RootsComplete
<1>1. IngestInv => RootsComplete
  BY Zenon DEF IngestInv
<1> QED BY <1>1, InvInit, InvNext, PTL DEF IngestionSpec

\* If no event was left out, every batch below the highest synced block is
\* stored, or one that L1 put in its place later.  QueueCurrent beside it: then
\* no element is refused, so the service never goes back.
THEOREM IngestionBatches == IngestionSpec => []BatchesCurrent
<1>1. IngestInv => BatchesCurrent
  BY Zenon DEF IngestInv
<1> QED BY <1>1, InvInit, InvNext, PTL DEF IngestionSpec
=============================================================================
