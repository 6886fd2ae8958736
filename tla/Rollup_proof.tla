---------------------------- MODULE Rollup_proof ----------------------------
(***************************************************************************)
(* Proofs about Rollup for any stakers, operators, hashes and bounds.      *)
(***************************************************************************)
EXTENDS Rollup, FiniteSetTheorems, SequenceTheorems, TLAPS

-----------------------------------------------------------------------------
(* The operations of AssertionMap keep the type of the store.              *)

MapType(a) == a \in [AssertionIDs -> Assertion(AssertionIDs)]

StatesType(st) == st \in [AssertionIDs -> AssertionState]

\* stakeOnAssertion keeps the map of assertions well typed.
LEMMA AfterStakeType ==
    ASSUME NEW a, MapType(a), NEW id \in AssertionIDs
    PROVE  MapType(AfterStake(a, id))
  BY DEF MapType, Assertion, AfterStake

\* stakeOnAssertion keeps the bookkeeping of the stakers of an assertion well typed.
LEMMA StatesAfterStakeType ==
    ASSUME NEW st, StatesType(st), NEW id \in AssertionIDs, NEW s \in Stakers
    PROVE  StatesType(StatesAfterStake(st, id, s))
  BY Zenon DEF StatesType, StatesAfterStake, AssertionState

\* createAssertion of AssertionMap keeps the map of assertions well typed.
LEMMA AfterCreateType ==
    ASSUME NEW a, MapType(a), NEW id \in AssertionIDs, NEW h \in VMHashes,
           NEW size \in Nat, NEW p \in AssertionIDs, NEW d \in Nat, NEW t \in Nat
    PROVE  MapType(AfterCreate(a, id, h, size, p, d, t))
  BY DEF MapType, Assertion, AfterCreate, NewAssertion

\* createAssertion of AssertionMap keeps the sets of child hashes and stakers well typed.
LEMMA StatesAfterCreateType ==
    ASSUME NEW st, StatesType(st), NEW h \in VMHashes, NEW p \in AssertionIDs
    PROVE  StatesType(StatesAfterCreate(st, h, p))
  BY Zenon DEF StatesType, StatesAfterCreate, AssertionState

\* deleteAssertionForBatch keeps the map of assertions well typed.
LEMMA AfterDeleteType ==
    ASSUME NEW a, MapType(a), NEW id \in AssertionIDs
    PROVE  MapType(AfterDeleteForBatch(a, id))
<1>1. 0 \in AssertionIDs
  BY RollupConstants DEF AssertionIDs
<1> QED BY <1>1, Zenon DEF MapType, Assertion, AfterDeleteForBatch, NoAssertion

\* deleteAssertionForBatch keeps the sets of child hashes and stakers well typed.
LEMMA StatesAfterDeleteType ==
    ASSUME NEW a, MapType(a), NEW st, StatesType(st), NEW id \in AssertionIDs
    PROVE  StatesType(StatesAfterDeleteForBatch(a, st, id))
  BY Zenon DEF MapType, Assertion, StatesType, StatesAfterDeleteForBatch, AssertionState

-----------------------------------------------------------------------------
(* Types, the counters, and batches against assertions.                    *)

\* The inductive invariant.  That the counters agree is what keeps
\* lastResolved... and lastConfirmed... in range when a rejection lowers all
\* three, and that no more batches than assertions exist is what keeps the
\* rejection off the genesis.
CoreInv ==
    /\ TypeOK /\ InstantlyResolved /\ BatchesWithinAssertions
    /\ RegistersMatchStakers

\* Properties of the identifiers used throughout.
LEMMA IDs == AssertionIDs \subseteq Nat /\ 0 \in AssertionIDs
  BY RollupConstants DEF AssertionIDs

\* The contract as Rollup.initialize leaves it satisfies the core invariant.
LEMMA CoreInit == Init => CoreInv
<1> SUFFICES ASSUME Init PROVE CoreInv
  BY Zenon
<1> USE IDs, RollupConstants
<1>1. Genesis \in Assertion(AssertionIDs) /\ NoAssertion \in Assertion(AssertionIDs)
  BY Zenon DEF Genesis, NewAssertion, NoAssertion, Assertion, Init, SCC!Init
<1>2. SCC!TypeOK /\ Len(batches) = 0
  BY DEF Init, SCC!Init, SCC!TypeOK, SCC!Header
<1>3. assertionStates \in [AssertionIDs -> AssertionState]
  BY Zenon DEF Init, AssertionState
<1>4. stakers \in [Stakers -> Staker]
  BY Zenon DEF Init, Staker, NoStaker
<1>5. RegistersMatchStakers
  <2>1. Staked = {}
    BY Zenon DEF Init, Staked, isStaked, NoStaker
  <2> QED BY <2>1, FS_EmptySet, Zenon DEF Init, RegistersMatchStakers, isStaked, NoStaker
<1> QED BY <1>1, <1>2, <1>3, <1>4, <1>5 DEF Init, CoreInv, TypeOK, InstantlyResolved,
        BatchesWithinAssertions

\* What every action that leaves the SCC alone keeps of it.
LEMMA SccSame == ASSUME SCC!TypeOK, UNCHANGED sccState PROVE SCC!TypeOK'
  BY Zenon DEF sccState, SCC!TypeOK

\* The staked addresses are a finite set.
LEMMA StakedFinite == IsFiniteSet(Staked)
  BY RollupConstants, FS_Subset, Zenon DEF Staked

\* Actions that change neither who is staked nor for whom keep the registers
\* consistent.
LEMMA RegistersSame ==
    ASSUME RegistersMatchStakers, TypeOK, UNCHANGED <<registers, numStakers>>,
           \A s \in Stakers : /\ stakers'[s].isStaked = stakers[s].isStaked
                              /\ stakers'[s].operator = stakers[s].operator
    PROVE  RegistersMatchStakers'
<1>1. Staked' = Staked
  BY Zenon DEF isStaked, Staked
<1>2. \A s \in Stakers : isStaked(s)' = isStaked(s)
  BY Zenon DEF isStaked
<1>3. \A op \in Operators : registers[op] \in Stakers \cup {NoAddr}
  BY Zenon DEF TypeOK
<1> QED BY <1>1, <1>2, <1>3, Zenon DEF RegistersMatchStakers

\* stake() of a staker that is already in preserves the core invariant.
LEMMA CoreStakeMore ==
    ASSUME CoreInv, NEW s \in Stakers, NEW amount \in Nat, NEW op \in Operators,
           stakeMore(s, amount, op)
    PROVE  CoreInv'
<1> USE IDs
<1>1. stakers' \in [Stakers -> Staker]
  BY DEF stakeMore, CoreInv, TypeOK, Staker
<1>2. RegistersMatchStakers'
  BY RegistersSame DEF stakeMore, CoreInv, TypeOK
<1> QED BY <1>1, <1>2, SccSame DEF stakeMore, mapVars, ids, sccState, CoreInv,
        TypeOK, InstantlyResolved, BatchesWithinAssertions

\* stake() of a new staker, which registers its operator, preserves the core invariant.
LEMMA CoreStakeNew ==
    ASSUME CoreInv, NEW s \in Stakers, NEW amount \in Nat, NEW op \in Operators,
           stakeNew(s, amount, op)
    PROVE  CoreInv'
<1> USE IDs
<1>1. stakers' \in [Stakers -> Staker] /\ registers' \in [Operators -> Stakers \cup {NoAddr}]
  BY Zenon DEF stakeNew, CoreInv, TypeOK, Staker
<1>2. assertions' \in [AssertionIDs -> Assertion(AssertionIDs)]
  BY AfterStakeType, Zenon DEF stakeNew, CoreInv, TypeOK, MapType
<1>3. assertionStates' \in [AssertionIDs -> AssertionState]
  BY StatesAfterStakeType, Zenon DEF stakeNew, CoreInv, TypeOK, StatesType
<1>4. RegistersMatchStakers'
  <2>1. /\ ~stakers[s].isStaked /\ stakers'[s].isStaked /\ stakers'[s].operator = op
        /\ \A r \in Stakers \ {s} : stakers'[r] = stakers[r]
        /\ registers[op] = NoAddr /\ registers'[op] = s
        /\ \A o \in Operators \ {op} : registers'[o] = registers[o]
        /\ numStakers' = numStakers + 1
    BY Zenon DEF stakeNew, isStaked, isFree, CoreInv, TypeOK
  <2>2. Staked' = Staked \cup {s} /\ s \notin Staked
    BY <2>1 DEF isStaked, Staked
  <2>3. numStakers' = Cardinality(Staked')
    <3>1. Cardinality(Staked \cup {s}) = Cardinality(Staked) + 1
      BY <2>2, StakedFinite, FS_AddElement, Zenon
    <3> QED BY <2>1, <2>2, <3>1, Zenon DEF CoreInv, RegistersMatchStakers
  <2>4. ASSUME NEW r \in Stakers, isStaked(r)'
        PROVE  /\ stakers'[r].operator \in Operators
               /\ registers'[stakers'[r].operator] = r
    <3>1. CASE r = s
      BY <2>1, <3>1, Zenon
    <3>2. CASE r # s
      <4>1. isStaked(r) /\ stakers[r].operator \in Operators /\ registers[stakers[r].operator] = r
        BY <2>1, <2>4, <3>2, Zenon DEF isStaked, CoreInv, RegistersMatchStakers
      <4>2. r # NoAddr
        BY RollupConstants, Zenon
      <4> QED BY <2>1, <3>2, <4>1, <4>2, Zenon
    <3> QED BY <3>1, <3>2, Zenon
  <2>5. ASSUME NEW o \in Operators, registers'[o] # NoAddr
        PROVE  isStaked(registers[o])' /\ stakers'[registers'[o]].operator = o
    <3>1. CASE o = op
      BY <2>1, <3>1, Zenon DEF isStaked
    <3>2. CASE o # op
      <4>1. /\ registers'[o] = registers[o] /\ registers[o] \in Stakers
            /\ stakers[registers[o]].isStaked /\ stakers[registers[o]].operator = o
        BY <2>1, <2>5, <3>2 DEF CoreInv, RegistersMatchStakers, TypeOK, isStaked
      <4> QED BY <2>1, <4>1 DEF isStaked
    <3> QED BY <3>1, <3>2, Zenon
  <2> QED BY <2>3, <2>4, <2>5, Zenon DEF RegistersMatchStakers
<1> QED BY <1>1, <1>2, <1>3, <1>4, SccSame DEF stakeNew, ids, sccState, CoreInv,
        TypeOK, InstantlyResolved, BatchesWithinAssertions

\* unstake() preserves the core invariant.
LEMMA CoreUnstake ==
    ASSUME CoreInv, NEW s \in Stakers, NEW amount \in Nat, unstake(s, amount)
    PROVE  CoreInv'
<1> USE IDs
<1>1. stakers' \in [Stakers -> Staker]
  BY RollupConstants DEF unstake, excessStake, CoreInv, TypeOK, Staker
<1>2. RegistersMatchStakers'
  BY RegistersSame DEF unstake, CoreInv, TypeOK
<1> QED BY <1>1, <1>2, SccSame DEF unstake, mapVars, ids, sccState, CoreInv,
        TypeOK, InstantlyResolved, BatchesWithinAssertions

\* removeStake(), which deletes the staker and its registration, preserves the core invariant.
LEMMA CoreRemoveStake ==
    ASSUME CoreInv, NEW s \in Stakers, removeStake(s)
    PROVE  CoreInv'
<1> USE IDs
<1> DEFINE op == stakers[s].operator
<1>1. stakers' \in [Stakers -> Staker] /\ registers' \in [Operators -> Stakers \cup {NoAddr}]
  BY ZenonT(30) DEF removeStake, CoreInv, TypeOK, Staker, NoStaker
<1>2. /\ isStaked(s) /\ op \in Operators /\ registers[op] = s
  BY Zenon DEF removeStake, mayTakeOut, CoreInv, RegistersMatchStakers
<1>3. /\ ~stakers'[s].isStaked
      /\ \A r \in Stakers \ {s} : stakers'[r] = stakers[r]
      /\ registers'[op] = NoAddr
      /\ \A o \in Operators \ {op} : registers'[o] = registers[o]
      /\ numStakers' = numStakers - 1
  BY <1>2, Zenon DEF removeStake, CoreInv, TypeOK, NoStaker
<1>4. Staked' = Staked \ {s} /\ s \in Staked
  BY <1>2, <1>3, Zenon DEF isStaked, Staked
<1>5. numStakers' = Cardinality(Staked') /\ numStakers' \in Nat
  <2>1. IsFiniteSet(Staked \ {s}) /\ Cardinality(Staked \ {s}) = Cardinality(Staked) - 1
    BY <1>4, StakedFinite, FS_RemoveElement, Zenon
  <2> QED BY <1>3, <1>4, <2>1, FS_CardinalityType, Zenon DEF CoreInv, RegistersMatchStakers
<1>6. ASSUME NEW r \in Stakers, isStaked(r)'
      PROVE  /\ stakers'[r].operator \in Operators
             /\ registers'[stakers'[r].operator] = r
  <2>1. r # s
    BY <1>3, <1>6, Zenon DEF isStaked
  <2>2. isStaked(r) /\ stakers[r].operator \in Operators /\ registers[stakers[r].operator] = r
    BY <1>3, <1>6, <2>1, Zenon DEF isStaked, CoreInv, RegistersMatchStakers
  <2>3. stakers[r].operator # op
    BY <1>2, <2>1, <2>2, Zenon
  <2> QED BY <1>3, <2>1, <2>2, <2>3, Zenon
<1>7. ASSUME NEW o \in Operators, registers'[o] # NoAddr
      PROVE  isStaked(registers[o])' /\ stakers'[registers'[o]].operator = o
  <2>1. o # op /\ registers'[o] = registers[o]
    BY <1>3, <1>7, Zenon
  <2>2. /\ registers[o] \in Stakers
        /\ stakers[registers[o]].isStaked /\ stakers[registers[o]].operator = o
    BY <1>7, <2>1 DEF CoreInv, RegistersMatchStakers, TypeOK, isStaked
  <2>3. registers[o] # s
    BY <2>1, <2>2, Zenon
  <2> QED BY <1>3, <2>1, <2>2, <2>3, Zenon DEF isStaked
<1>8. RegistersMatchStakers'
  BY <1>5, <1>6, <1>7, Zenon DEF RegistersMatchStakers
<1>9. balance' \in Int
  BY DEF removeStake, CoreInv, TypeOK, Staker
<1> QED BY <1>1, <1>5, <1>8, <1>9, SccSame, Zenon DEF removeStake, mapVars, ids, sccState, CoreInv,
        TypeOK, InstantlyResolved, BatchesWithinAssertions

\* advanceStake() preserves the core invariant.
LEMMA CoreAdvanceStake ==
    ASSUME CoreInv, NEW op \in Operators, NEW id \in AssertionIDs, advanceStake(op, id)
    PROVE  CoreInv'
<1> USE IDs
<1> DEFINE s == registers[op]
<1>1. s \in Stakers
  BY Zenon DEF advanceStake, isOperator, CoreInv, TypeOK
<1>2. stakers' = [stakers EXCEPT ![s].assertionID = id]
  BY Zenon DEF advanceStake
<1>3. stakers' \in [Stakers -> Staker]
  BY <1>1, <1>2, Zenon DEF CoreInv, TypeOK, Staker
<1>4. RegistersMatchStakers'
  BY <1>1, <1>2, RegistersSame DEF advanceStake, CoreInv, TypeOK
<1>5. assertions' \in [AssertionIDs -> Assertion(AssertionIDs)]
  BY AfterStakeType, Zenon DEF advanceStake, CoreInv, TypeOK, MapType
<1>6. assertionStates' \in [AssertionIDs -> AssertionState]
  BY <1>1, StatesAfterStakeType, Zenon DEF advanceStake, CoreInv, TypeOK, StatesType
<1> QED BY <1>3, <1>4, <1>5, <1>6, SccSame, Zenon DEF advanceStake, ids, sccState, CoreInv,
        TypeOK, InstantlyResolved, BatchesWithinAssertions

\* createAssertion keeps types, raises all three counters and leaves the
\* registers alone, whatever happens to the SCC.
LEMMA CoreCreate ==
    ASSUME CoreInv, NEW op \in Operators, NEW h \in VMHashes, NEW size \in Nat,
           createAssertion(op, h, size)
    PROVE  /\ assertions' \in [AssertionIDs -> Assertion(AssertionIDs)]
           /\ assertionStates' \in [AssertionIDs -> AssertionState]
           /\ stakers' \in [Stakers -> Staker]
           /\ lastCreatedAssertionID' = lastCreatedAssertionID + 1
           /\ lastCreatedAssertionID' \in AssertionIDs
           /\ InstantlyResolved'
           /\ RegistersMatchStakers'
<1> USE IDs
<1> DEFINE s == registers[op]
           p == stakers[s].assertionID
           n == lastCreatedAssertionID + 1
           d == now + FRAUD_PROOF_WINDOW
<1>1. s \in Stakers
  BY Zenon DEF createAssertion, isOperator, CoreInv, TypeOK
<1>2. p \in AssertionIDs
  BY <1>1, Zenon DEF CoreInv, TypeOK, Staker
<1>3. n \in AssertionIDs /\ lastCreatedAssertionID' = n
  <2>1. lastCreatedAssertionID \in AssertionIDs
    BY Zenon DEF CoreInv, TypeOK
  <2>2. lastCreatedAssertionID < MaxAssertions /\ lastCreatedAssertionID' = n
    BY Zenon DEF createAssertion
  <2>3. QED
    BY <2>1, <2>2, RollupConstants DEF AssertionIDs
<1>4. d \in Nat /\ now \in Nat
  <2>1. SCC!TypeOK
    BY Zenon DEF CoreInv, TypeOK
  <2>2. now \in Nat /\ FRAUD_PROOF_WINDOW \in Nat
    BY <2>1, Zenon DEF SCC!TypeOK
  <2> QED BY <2>2
<1>5. /\ assertions' = AfterStake(AfterCreate(assertions, n, h, size, p, d, now), n)
      /\ assertionStates' = StatesAfterStake(StatesAfterCreate(assertionStates, h, p), n, s)
      /\ stakers' = [stakers EXCEPT ![s].assertionID = n]
  BY Zenon DEF createAssertion
<1>6. stakers' \in [Stakers -> Staker]
  BY <1>1, <1>3, <1>5, Zenon DEF CoreInv, TypeOK, Staker
<1>7. RegistersMatchStakers'
  BY <1>1, <1>5, RegistersSame DEF createAssertion, CoreInv, TypeOK
<1>8. InstantlyResolved'
  BY <1>3, Zenon DEF createAssertion, confirmInstantly, CoreInv, InstantlyResolved
<1> HIDE DEF s, p, n, d
<1>9. MapType(AfterCreate(assertions, n, h, size, p, d, now))
  BY <1>2, <1>3, <1>4, AfterCreateType, ZenonT(30) DEF CoreInv, TypeOK, MapType
<1>10. StatesType(StatesAfterCreate(assertionStates, h, p))
  BY <1>2, StatesAfterCreateType, Zenon DEF CoreInv, TypeOK, StatesType
<1>11. MapType(assertions') /\ StatesType(assertionStates')
  BY <1>1, <1>3, <1>5, <1>9, <1>10, AfterStakeType, StatesAfterStakeType, Zenon
<1>12. lastCreatedAssertionID' = lastCreatedAssertionID + 1
  BY <1>3, Zenon DEF n
<1> QED BY <1>3, <1>6, <1>7, <1>8, <1>11, <1>12, Zenon DEF MapType, StatesType

\* createAssertion() called directly preserves the core invariant.
LEMMA CoreCreateAlone ==
    ASSUME CoreInv, NEW op \in Operators, NEW h \in VMHashes, NEW size \in Nat,
           createAssertionAlone(op, h, size)
    PROVE  CoreInv'
<1>1. createAssertion(op, h, size) /\ UNCHANGED sccState
  BY Zenon DEF createAssertionAlone
<1>2. UNCHANGED <<registers, numStakers, balance, stakerslist>>
  BY <1>1, Zenon DEF createAssertion
<1>3. BatchesWithinAssertions'
  <2>1. Len(batches) \in Nat /\ lastCreatedAssertionID \in Nat
    BY IDs DEF CoreInv, TypeOK, SCC!TypeOK
  <2> QED BY <1>1, <2>1, CoreCreate DEF sccState, CoreInv, BatchesWithinAssertions
<1> QED BY <1>1, <1>2, <1>3, CoreCreate, SccSame, Zenon DEF CoreInv, TypeOK, InstantlyResolved

\* createAssertionWithStateBatch(), which also appends to the state commitment chain, preserves the core invariant.
LEMMA CoreCreateWithBatch ==
    ASSUME CoreInv, NEW op \in Operators, NEW h \in VMHashes, NEW size \in Nat,
           NEW m \in Nat, NEW start \in Nat,
           createAssertionWithStateBatch(op, h, size, m, start)
    PROVE  CoreInv' /\ Len(batches') = Len(batches) + 1
<1>1. createAssertion(op, h, size) /\ appendBatch(m, start) /\ UNCHANGED <<ctcTotal, now>>
  BY Zenon DEF createAssertionWithStateBatch
<1>2. UNCHANGED <<registers, numStakers, balance, stakerslist>>
  BY <1>1, Zenon DEF createAssertion
<1> DEFINE b == SCC!NewHeader(RollupAddress, NoHash, m)
<1>3. b \in SCC!Header
  BY DEF SCC!NewHeader, SCC!Header, SCC!getTotalBatches, CoreInv, TypeOK, SCC!TypeOK
<1>4. /\ batches' = Append(batches, b)
      /\ totalElements' = totalElements + m
      /\ lastSequencerTimestamp' = now
      /\ FRAUD_PROOF_WINDOW' = FRAUD_PROOF_WINDOW
  BY <1>1, Zenon DEF appendBatch, SCC!appendStateBatch
<1> HIDE DEF b
<1>5. SCC!TypeOK' /\ Len(batches') = Len(batches) + 1
  BY <1>1, <1>3, <1>4 DEF CoreInv, TypeOK, SCC!TypeOK
<1>6. BatchesWithinAssertions'
  <2>1. Len(batches) \in Nat /\ lastCreatedAssertionID \in Nat
    BY IDs DEF CoreInv, TypeOK, SCC!TypeOK
  <2> QED BY <1>1, <1>5, <2>1, CoreCreate DEF CoreInv, BatchesWithinAssertions
<1> QED BY <1>1, <1>2, <1>5, <1>6, CoreCreate, Zenon DEF CoreInv, TypeOK, InstantlyResolved

\* A prefix of a sequence.
LEMMA Prefix ==
    ASSUME NEW S, NEW q \in Seq(S), NEW n \in Nat, n <= Len(q)
    PROVE  /\ SubSeq(q, 1, n) \in Seq(S)
           /\ Len(SubSeq(q, 1, n)) = n
           /\ \A k \in 1 .. n : SubSeq(q, 1, n)[k] = q[k]
  BY SubSeqProperties

\* The call of the SCC in rejectLatest... removes exactly the last batch.
LEMMA RejectRemovesOne ==
    ASSUME CoreInv, NEW i \in 1 .. Len(batches),
           rejectLatestCreatedAssertionWithBatch(batches[i])
    PROVE  /\ Len(batches) \in Nat \ {0}
           /\ batches' = SubSeq(batches, 1, Len(batches) - 1)
           /\ Len(batches') = Len(batches) - 1
           /\ \A k \in 1 .. Len(batches) - 1 : batches'[k] = batches[k]
           /\ SCC!TypeOK'
<1> DEFINE h == batches[i]
<1>1. h \in SCC!Header /\ Len(batches) \in Nat \ {0} /\ batches \in Seq(SCC!Header)
  BY DEF CoreInv, TypeOK, SCC!TypeOK
<1>2. Len(batches) - h.batchIndex = 1 /\ deleteBatch(h)
  BY Zenon DEF rejectLatestCreatedAssertionWithBatch, SCC!getTotalBatches
<1>3. h.batchIndex = Len(batches) - 1
  <2> HIDE DEF h
  <2>1. h.batchIndex \in Nat
    BY <1>1, Zenon DEF SCC!Header
  <2>2. \A m, n \in Nat : m - n = 1 => n = m - 1
    OBVIOUS
  <2> QED BY <1>1, <1>2, <2>1, <2>2, Zenon
<1>4. batches' = SubSeq(batches, 1, Len(batches) - 1)
  BY <1>2, <1>3, Zenon DEF deleteBatch, SCC!deleteStateBatch
<1>5. /\ Len(batches') = Len(batches) - 1
      /\ \A k \in 1 .. Len(batches) - 1 : batches'[k] = batches[k]
      /\ batches' \in Seq(SCC!Header)
  <2>1. Len(batches) - 1 \in Nat /\ Len(batches) - 1 <= Len(batches)
    BY <1>1
  <2> HIDE DEF h
  <2> QED BY <1>1, <1>4, <2>1, Prefix, ZenonT(30)
<1>6. SCC!TypeOK'
  <2>1. /\ totalElements' = h.prevTotalElements /\ lastSequencerTimestamp' = 0
        /\ UNCHANGED <<FRAUD_PROOF_WINDOW, ctcTotal, now>>
    BY <1>2, Zenon DEF deleteBatch, SCC!deleteStateBatch, SCC!totalBefore,
       rejectLatestCreatedAssertionWithBatch
  <2> QED BY <1>1, <1>5, <2>1, ZenonT(30) DEF SCC!TypeOK, SCC!Header, CoreInv, TypeOK
<1> QED BY <1>1, <1>4, <1>5, <1>6, Zenon

\* rejectLatestCreatedAssertionWithBatch() preserves the core invariant.
LEMMA CoreReject == ASSUME CoreInv, Reject PROVE CoreInv'
<1> USE IDs
<1>1. PICK i \in 1 .. Len(batches) : rejectLatestCreatedAssertionWithBatch(batches[i])
  BY Zenon DEF Reject
<1> DEFINE last == lastCreatedAssertionID - 1
<1>2. last \in AssertionIDs /\ lastCreatedAssertionID' = last
  <2>1. lastCreatedAssertionID >= 1
    <3>1. Len(batches) \in Nat \ {0}
      BY <1>1, RejectRemovesOne, Zenon
    <3>2. lastCreatedAssertionID \in Nat /\ Len(batches) <= lastCreatedAssertionID
      BY Zenon DEF CoreInv, BatchesWithinAssertions, TypeOK
    <3> QED BY <3>1, <3>2
  <2> QED BY <1>1, <2>1, RollupConstants DEF rejectLatestCreatedAssertionWithBatch, CoreInv,
          TypeOK, AssertionIDs
<1>3. stakers' = FallBack(last)
  BY <1>1, <1>2, Zenon DEF rejectLatestCreatedAssertionWithBatch
<1>4. /\ stakers' \in [Stakers -> Staker]
      /\ \A s \in Stakers : /\ stakers'[s].isStaked = stakers[s].isStaked
                            /\ stakers'[s].operator = stakers[s].operator
  BY <1>2, <1>3, ZenonT(30) DEF FallBack, CoreInv, TypeOK, Staker
<1>5. UNCHANGED <<registers, numStakers, balance, stakerslist>>
  BY <1>1, Zenon DEF rejectLatestCreatedAssertionWithBatch
<1>6. RegistersMatchStakers'
  BY <1>4, <1>5, RegistersSame, Zenon DEF CoreInv
<1>7. assertions' \in [AssertionIDs -> Assertion(AssertionIDs)]
  BY <1>1, AfterDeleteType, Zenon DEF rejectLatestCreatedAssertionWithBatch, CoreInv, TypeOK, MapType
<1>8. assertionStates' \in [AssertionIDs -> AssertionState]
  BY <1>1, StatesAfterDeleteType, Zenon DEF rejectLatestCreatedAssertionWithBatch, CoreInv, TypeOK,
     MapType, StatesType
<1>9. InstantlyResolved'
  BY <1>1, Zenon DEF rejectLatestCreatedAssertionWithBatch, CoreInv, InstantlyResolved
<1>10. BatchesWithinAssertions'
  BY <1>1, <1>2, RejectRemovesOne, SMTT(30) DEF CoreInv, BatchesWithinAssertions, TypeOK
<1>11. SCC!TypeOK'
  BY <1>1, RejectRemovesOne, Zenon
<1> QED BY <1>2, <1>4, <1>5, <1>6, <1>7, <1>8, <1>9, <1>10, <1>11, Zenon DEF CoreInv, TypeOK,
        InstantlyResolved

\* The remaining steps touch neither assertions nor stakes.
LEMMA CoreRest ==
    ASSUME CoreInv, Whitelist \/ Environment \/ UNCHANGED vars
    PROVE  CoreInv'
<1>1. UNCHANGED <<mapVars, ids, staking, batches>>
  BY Zenon DEF Whitelist, removeFromStakerWhitelist, addToStakerWhitelist, Environment,
     SCC!CtcGrows, SCC!MineBlock, SCC!sccVars, sccState, vars
<1>2. stakerslist' \subseteq Stakers
  BY Zenon DEF Whitelist, removeFromStakerWhitelist, addToStakerWhitelist, Environment, vars,
     CoreInv, TypeOK
<1>3. SCC!TypeOK'
  BY DEF Whitelist, removeFromStakerWhitelist, addToStakerWhitelist, Environment,
     SCC!CtcGrows, SCC!MineBlock, SCC!sccVars, sccState, vars, SCC!TypeOK, CoreInv, TypeOK
<1>4. RegistersMatchStakers'
  BY <1>1, RegistersSame, Zenon DEF staking, CoreInv
<1> QED BY <1>1, <1>2, <1>3, <1>4, Zenon DEF CoreInv, TypeOK, InstantlyResolved,
        BatchesWithinAssertions, mapVars, ids, staking

\* Every step of the rollup contract preserves the core invariant.
LEMMA CoreNext == CoreInv /\ [Next]_vars => CoreInv'
<1> SUFFICES ASSUME CoreInv, [Next]_vars PROVE CoreInv'
  BY Zenon
<1>1. 0 .. MaxBalance \subseteq Nat /\ 0 .. MaxInboxSize \subseteq Nat
      /\ 1 .. MaxBatchSize \subseteq Nat /\ 0 .. MaxElements \subseteq Nat
  BY RollupConstants
<1>2. CASE Stake
  BY <1>1, <1>2, CoreStakeMore, CoreStakeNew, Zenon DEF Stake
<1>3. CASE TakeOut
  BY <1>1, <1>3, CoreUnstake, CoreRemoveStake, Zenon DEF TakeOut
<1>4. CASE CreateAssertion
  BY <1>1, <1>4, CoreCreateAlone, CoreCreateWithBatch, Zenon DEF CreateAssertion
<1>5. CASE \E op \in Operators, id \in AssertionIDs : advanceStake(op, id)
  BY <1>5, CoreAdvanceStake, Zenon
<1> QED BY <1>2, <1>3, <1>4, <1>5, CoreReject, CoreRest, Zenon DEF Next

\* Whatever stakers, operators and the owner do: types hold, every assertion is
\* resolved as soon as it exists, hence no challenge and no late confirmation or
\* rejection is ever possible; registers and stakers match; and there are never
\* more state batches than assertions.
THEOREM RollupSafety ==
    Spec => [](TypeOK /\ DisputesClosed /\ RegistersMatchStakers /\ BatchesWithinAssertions)
<1>1. CoreInv => DisputesClosed
  BY IDs DEF CoreInv, InstantlyResolved, DisputesClosed, mayChallenge,
     mayResolveFirstUnresolved, TypeOK
<1>2. CoreInv => TypeOK /\ RegistersMatchStakers /\ BatchesWithinAssertions
  BY Zenon DEF CoreInv
<1> QED BY <1>1, <1>2, CoreInit, CoreNext, PTL DEF Spec

\* So createAssertion, which resolves what it creates, leaves nothing for a
\* challenge or a later resolution, whoever calls and whatever is delisted.
COROLLARY RollupDisputes == Spec => []DisputesClosed
<1> QED BY RollupSafety, PTL

-----------------------------------------------------------------------------
(* The tree of assertions, when no staker leaves the whitelist.            *)

\* The inductive invariant: the loop in rejectLatest... reaches every staker, so
\* the parent of a new assertion, the one its staker stands on, exists; and no
\* assertion is from the future.
TreeInv ==
    /\ stakerslist = Stakers
    /\ StakesOnLiveAssertions
    /\ AssertionsFormTree
    /\ \A id \in AssertionIDs : assertions[id].proposalTime <= now

\* Two records agree on the fields the tree is made of.
SameShape(a, b) ==
    /\ a.parent = b.parent /\ a.stateHash = b.stateHash
    /\ a.inboxSize = b.inboxSize /\ a.proposalTime = b.proposalTime

Shape(h, size, p, t) ==
    [parent |-> p, stateHash |-> h, inboxSize |-> size, proposalTime |-> t]

\* Staking on an assertion changes none of the fields that make up the tree.
LEMMA StakeKeepsShape ==
    ASSUME NEW a, MapType(a), NEW i \in AssertionIDs
    PROVE  \A id \in AssertionIDs : SameShape(AfterStake(a, i)[id], a[id])
  BY DEF MapType, Assertion, AfterStake, SameShape

\* Creating an assertion writes its own entry and leaves the shape of the others.
LEMMA CreateShape ==
    ASSUME NEW a, MapType(a), NEW i \in AssertionIDs, NEW h \in VMHashes,
           NEW size \in Nat, NEW p \in AssertionIDs, NEW d \in Nat, NEW t \in Nat
    PROVE  /\ SameShape(AfterCreate(a, i, h, size, p, d, t)[i], Shape(h, size, p, t))
           /\ \A id \in AssertionIDs \ {i} :
                  SameShape(AfterCreate(a, i, h, size, p, d, t)[id], a[id])
  BY DEF MapType, Assertion, AfterCreate, NewAssertion, SameShape, Shape

\* Deleting an assertion clears its own entry and leaves the shape of the others.
LEMMA DeleteShape ==
    ASSUME NEW a, MapType(a), NEW i \in AssertionIDs
    PROVE  /\ AfterDeleteForBatch(a, i)[i].proposalTime = 0
           /\ \A id \in AssertionIDs \ {i} :
                  SameShape(AfterDeleteForBatch(a, i)[id], a[id])
<1>1. a[i].parent \in AssertionIDs
  BY Zenon DEF MapType, Assertion
<1> QED BY <1>1 DEF MapType, Assertion, AfterDeleteForBatch, NoAssertion, SameShape

\* Steps that keep the shapes, the last identifier and the clock's direction
\* keep the tree.
LEMMA TreeSameShape ==
    ASSUME CoreInv, CoreInv', TreeInv,
           \A id \in AssertionIDs : SameShape(assertions'[id], assertions[id]),
           UNCHANGED <<lastCreatedAssertionID, stakerslist>>, now <= now',
           StakesOnLiveAssertions'
    PROVE  TreeInv'
<1>1. \A id \in AssertionIDs : /\ assertions'[id].parent = assertions[id].parent
                               /\ assertions'[id].inboxSize = assertions[id].inboxSize
                               /\ assertions'[id].proposalTime = assertions[id].proposalTime
  BY Zenon DEF SameShape
<1>2. \A id \in AssertionIDs : /\ assertions[id].parent \in AssertionIDs
                               /\ assertions[id].proposalTime \in Nat
  BY SMTT(30) DEF CoreInv, TypeOK, Assertion
<1>3. 1 .. lastCreatedAssertionID \subseteq AssertionIDs
  BY RollupConstants DEF CoreInv, TypeOK, AssertionIDs
<1>4. AssertionsFormTree'
  BY <1>1, <1>2, <1>3, SMTT(30) DEF AssertionsFormTree, TreeInv
<1>5. \A id \in AssertionIDs : assertions'[id].proposalTime <= now'
  <2>1. now \in Nat /\ now' \in Nat
    BY Zenon DEF CoreInv, TypeOK, SCC!TypeOK
  <2>2. \A id \in AssertionIDs : assertions[id].proposalTime <= now
    BY Zenon DEF TreeInv
  <2> QED BY <1>1, <1>2, <2>1, <2>2
<1> QED BY <1>4, <1>5, Zenon DEF TreeInv

\* The staking operations preserve the tree invariant.
LEMMA TreeStaking ==
    ASSUME CoreInv, CoreInv', TreeInv,
           \/ Stake
           \/ TakeOut
           \/ \E op \in Operators, id \in AssertionIDs : advanceStake(op, id)
    PROVE  TreeInv'
<1> USE IDs
<1>1. /\ \A id \in AssertionIDs : SameShape(assertions'[id], assertions[id])
      /\ UNCHANGED <<lastCreatedAssertionID, stakerslist, now>>
  <2>1. MapType(assertions) /\ lastConfirmedAssertionID \in AssertionIDs
    BY Zenon DEF CoreInv, TypeOK, MapType
  <2>2. \/ UNCHANGED assertions
        \/ \E i \in AssertionIDs : assertions' = AfterStake(assertions, i)
    BY <2>1, ZenonT(30) DEF Stake, stakeMore, stakeNew, TakeOut, unstake, removeStake, advanceStake, mapVars
  <2>3. UNCHANGED <<lastCreatedAssertionID, stakerslist, now>>
    BY ZenonT(30) DEF Stake, stakeMore, stakeNew, TakeOut, unstake, removeStake, advanceStake, ids, sccState
  <2>4. \A id \in AssertionIDs : SameShape(assertions[id], assertions[id])
    BY Zenon DEF SameShape
  <2> QED BY <2>1, <2>2, <2>3, <2>4, StakeKeepsShape, Zenon
<1>2. StakesOnLiveAssertions'
  <2> USE DEF StakesOnLiveAssertions
  <2>1. \A s \in Stakers : stakers[s].assertionID <= lastCreatedAssertionID
    BY Zenon DEF TreeInv
  <2>2. lastConfirmedAssertionID = lastCreatedAssertionID /\ lastCreatedAssertionID \in Nat
    BY Zenon DEF CoreInv, InstantlyResolved, TypeOK
  <2>3. stakers \in [Stakers -> Staker]
    BY Zenon DEF CoreInv, TypeOK
  <2>4. \A s \in Stakers : \/ stakers'[s].assertionID = stakers[s].assertionID
                           \/ stakers'[s].assertionID <= lastCreatedAssertionID
    <3>1. CASE Stake
      BY <2>2, <2>3, <3>1 DEF Stake, stakeMore, stakeNew, Staker
    <3>2. CASE TakeOut
      BY <2>2, <2>3, <3>2 DEF TakeOut, unstake, removeStake, NoStaker, Staker
    <3>3. CASE \E op \in Operators, id \in AssertionIDs : advanceStake(op, id)
      BY <2>2, <2>3, <3>3, Zenon DEF advanceStake, Staker
    <3> QED BY <3>1, <3>2, <3>3, Zenon
  <2> QED BY <1>1, <2>1, <2>4, Zenon
<1>3. now <= now'
  BY <1>1 DEF CoreInv, TypeOK, SCC!TypeOK
<1> QED BY <1>1, <1>2, <1>3, TreeSameShape, Zenon

\* The steps that touch neither assertions nor stakers preserve the tree invariant.
LEMMA TreeRest ==
    ASSUME Delistable = {}, CoreInv, CoreInv', TreeInv,
           Whitelist \/ Environment \/ UNCHANGED vars
    PROVE  TreeInv'
<1>1. UNCHANGED <<mapVars, ids, staking>> /\ now <= now'
  BY DEF Whitelist, removeFromStakerWhitelist, addToStakerWhitelist, Environment,
     SCC!CtcGrows, SCC!MineBlock, SCC!sccVars, sccState, vars, CoreInv, TypeOK, SCC!TypeOK
<1>2. UNCHANGED stakerslist
  BY Zenon DEF Whitelist, removeFromStakerWhitelist, addToStakerWhitelist, Environment, vars, TreeInv
<1>3. StakesOnLiveAssertions'
  BY <1>1, Zenon DEF TreeInv, StakesOnLiveAssertions, staking, ids
<1>4. \A id \in AssertionIDs : SameShape(assertions'[id], assertions[id])
  BY <1>1, Zenon DEF SameShape, mapVars
<1> QED BY <1>1, <1>2, <1>3, <1>4, TreeSameShape, Zenon DEF ids

\* What createAssertion does: the new assertion hangs below the one its staker
\* stands on, whose child hashes did not hold its hash and now do; the staker
\* moves to it; the other assertions and child hashes stay.
Created(s, h, size) ==
    LET p == stakers[s].assertionID
        n == lastCreatedAssertionID + 1
    IN  /\ p \in AssertionIDs /\ n \in AssertionIDs
        /\ size > assertions[p].inboxSize
        /\ SameShape(assertions'[n], Shape(h, size, p, now))
        /\ \A id \in AssertionIDs \ {n} : SameShape(assertions'[id], assertions[id])
        /\ h \notin assertionStates[p].childStateHashes
        /\ assertionStates'[p].childStateHashes =
               assertionStates[p].childStateHashes \cup {h}
        /\ \A id \in AssertionIDs \ {p} :
               assertionStates'[id].childStateHashes = assertionStates[id].childStateHashes
        /\ stakers'[s].assertionID = n
        /\ \A r \in Stakers \ {s} : stakers'[r] = stakers[r]

\* createAssertion has the effect described by Created.
LEMMA CreateEffect ==
    ASSUME CoreInv, NEW op \in Operators, NEW h \in VMHashes, NEW size \in Nat,
           createAssertion(op, h, size)
    PROVE  \E s \in Stakers : Created(s, h, size)
<1> USE IDs
<1> DEFINE s == registers[op]
           p == stakers[s].assertionID
           n == lastCreatedAssertionID + 1
           d == now + FRAUD_PROOF_WINDOW
<1>1. s \in Stakers
  BY Zenon DEF createAssertion, isOperator, CoreInv, TypeOK
<1>2. p \in AssertionIDs
  BY <1>1, Zenon DEF CoreInv, TypeOK, Staker
<1>3. n \in AssertionIDs
  <2>1. lastCreatedAssertionID \in AssertionIDs
    BY SMTT(30) DEF CoreInv, TypeOK
  <2>2. lastCreatedAssertionID < MaxAssertions
    BY Zenon DEF createAssertion
  <2> QED BY <2>1, <2>2, RollupConstants DEF AssertionIDs
<1>4. d \in Nat /\ now \in Nat /\ MapType(assertions)
  BY SMTT(30) DEF CoreInv, TypeOK, SCC!TypeOK, MapType
<1>5. /\ assertions' = AfterStake(AfterCreate(assertions, n, h, size, p, d, now), n)
      /\ stakers' = [stakers EXCEPT ![s].assertionID = n]
      /\ size > assertions[p].inboxSize
  BY SMTT(30) DEF createAssertion, advancesInbox
<1>6. stakers'[s].assertionID = n /\ \A r \in Stakers \ {s} : stakers'[r] = stakers[r]
  BY <1>1, <1>5, Zenon DEF CoreInv, TypeOK, Staker
<1>7. /\ h \notin assertionStates[p].childStateHashes
      /\ assertionStates'[p].childStateHashes =
             assertionStates[p].childStateHashes \cup {h}
      /\ \A id \in AssertionIDs \ {p} :
             assertionStates'[id].childStateHashes = assertionStates[id].childStateHashes
  <2>1. /\ h \notin assertionStates[p].childStateHashes
        /\ assertionStates' =
               StatesAfterStake(StatesAfterCreate(assertionStates, h, p), n, s)
    BY SMTT(30) DEF createAssertion, MayCreateAssertion
  <2>2. StatesType(assertionStates)
    BY Zenon DEF CoreInv, TypeOK, StatesType
  <2> HIDE DEF s, p, n, d
  <2> DEFINE c == StatesAfterCreate(assertionStates, h, p)
  <2>3. StatesType(c)
    BY <1>2, <2>2, StatesAfterCreateType, Zenon
  <2>4. /\ c[p].childStateHashes = assertionStates[p].childStateHashes \cup {h}
        /\ \A id \in AssertionIDs \ {p} :
               c[id].childStateHashes = assertionStates[id].childStateHashes
    BY <1>2, <2>2, Zenon DEF StatesType, AssertionState, StatesAfterCreate
  <2> HIDE DEF c
  <2>5. \A id \in AssertionIDs :
            StatesAfterStake(c, n, s)[id].childStateHashes = c[id].childStateHashes
    BY <1>3, <2>3, Zenon DEF StatesType, AssertionState, StatesAfterStake
  <2> QED BY <1>2, <2>1, <2>4, <2>5, Zenon DEF c
<1> HIDE DEF s, p, n, d
<1>8. MapType(AfterCreate(assertions, n, h, size, p, d, now))
  BY <1>2, <1>3, <1>4, AfterCreateType, SMTT(30)
<1> DEFINE c == AfterCreate(assertions, n, h, size, p, d, now)
<1>9. /\ SameShape(c[n], Shape(h, size, p, now))
      /\ \A id \in AssertionIDs \ {n} : SameShape(c[id], assertions[id])
  BY <1>2, <1>3, <1>4, CreateShape, ZenonT(30)
<1> HIDE DEF c
<1>10. \A id \in AssertionIDs : SameShape(assertions'[id], c[id])
  BY <1>3, <1>5, <1>8, StakeKeepsShape, Zenon DEF c
<1>11. /\ SameShape(assertions'[n], Shape(h, size, p, now))
       /\ \A id \in AssertionIDs \ {n} : SameShape(assertions'[id], assertions[id])
  BY <1>3, <1>9, <1>10, Zenon DEF SameShape
<1> QED BY <1>1, <1>2, <1>3, <1>5, <1>6, <1>7, <1>11, Zenon DEF Created, p, n

\* Creating an assertion, with or without a batch, preserves the tree invariant.
LEMMA TreeCreate ==
    ASSUME CoreInv, CoreInv', TreeInv, NEW op \in Operators, NEW h \in VMHashes,
           NEW size \in Nat, createAssertion(op, h, size), UNCHANGED now
    PROVE  TreeInv'
<1> USE IDs
<1>1. PICK s \in Stakers : Created(s, h, size)
  BY CreateEffect, Zenon
<1> DEFINE p == stakers[s].assertionID
           n == lastCreatedAssertionID + 1
<1>2. /\ lastCreatedAssertionID' = n /\ n \in Nat /\ n \in AssertionIDs
      /\ lastCreatedAssertionID \in Nat /\ stakerslist' = stakerslist
  BY <1>1, CoreCreate, Zenon DEF Created, createAssertion, CoreInv, TypeOK
<1>3. p \in AssertionIDs /\ p < n
  <2>1. p \in AssertionIDs
    BY <1>1, Zenon DEF Created
  <2>2. p <= lastCreatedAssertionID
    BY Zenon DEF TreeInv, StakesOnLiveAssertions
  <2>3. p \in Nat
    BY <2>1, ZenonT(30)
  <2> HIDE DEF p
  <2> QED BY <1>2, <2>1, <2>2, <2>3, SMTT(30)
<1>4. /\ assertions'[n].parent = p
      /\ assertions'[n].inboxSize = size
      /\ assertions'[n].proposalTime = now
      /\ \A id \in AssertionIDs \ {n} :
             /\ assertions'[id].parent = assertions[id].parent
             /\ assertions'[id].inboxSize = assertions[id].inboxSize
             /\ assertions'[id].proposalTime = assertions[id].proposalTime
  BY <1>1, Zenon DEF Created, SameShape, Shape
<1>5. now \in Nat /\ now' = now /\ \A id \in AssertionIDs : assertions[id].proposalTime <= now
  BY Zenon DEF TreeInv, CoreInv, TypeOK, SCC!TypeOK
<1>6. StakesOnLiveAssertions'
  <2>1. \A r \in Stakers : stakers[r].assertionID \in Nat
    BY ZenonT(30) DEF CoreInv, TypeOK, Staker
  <2>2. \A r \in Stakers : stakers[r].assertionID <= lastCreatedAssertionID
    BY Zenon DEF TreeInv, StakesOnLiveAssertions
  <2>3. stakers'[s].assertionID = n /\ \A r \in Stakers \ {s} : stakers'[r] = stakers[r]
    BY <1>1, Zenon DEF Created
  <2> HIDE DEF p
  <2>4. ASSUME NEW r \in Stakers
        PROVE  stakers'[r].assertionID <= n
    BY <1>2, <2>1, <2>2, <2>3, <2>4, SMTT(30)
  <2> QED BY <1>2, <2>4, SMTT(30) DEF StakesOnLiveAssertions
<1>7. AssertionsFormTree'
  <2> SUFFICES ASSUME NEW id \in 1 .. n
               PROVE  LET q == assertions'[id].parent IN
                      /\ q < id
                      /\ assertions'[id].inboxSize > assertions'[q].inboxSize
                      /\ assertions'[id].proposalTime >= assertions'[q].proposalTime
    BY <1>2, SMTT(30) DEF AssertionsFormTree
  <2>1. CASE id = n
    <3>1. assertions'[id].parent = p /\ p \in AssertionIDs \ {n}
      BY <1>2, <1>3, <1>4, <2>1, SMTT(30)
    <3> QED BY <1>1, <1>3, <1>4, <1>5, <2>1, <3>1, ZenonT(30) DEF Created
  <2>2. CASE id # n
    <3> DEFINE q == assertions[id].parent
    <3>1. id \in 1 .. lastCreatedAssertionID /\ id \in AssertionIDs \ {n}
      BY <1>2, <2>2, RollupConstants DEF AssertionIDs
    <3>2. q \in AssertionIDs
      BY <3>1, Zenon DEF CoreInv, TypeOK, Assertion
    <3>3. /\ q < id /\ assertions[id].inboxSize > assertions[q].inboxSize
          /\ assertions[id].proposalTime >= assertions[q].proposalTime
      BY <3>1, Zenon DEF TreeInv, AssertionsFormTree
    <3>4. q \in AssertionIDs \ {n}
      BY <1>2, <3>1, <3>2, <3>3
    <3> QED BY <1>4, <3>1, <3>3, <3>4, Zenon
  <2> QED BY <2>1, <2>2, SMTT(30)
<1>8. \A id \in AssertionIDs : assertions'[id].proposalTime <= now'
  BY <1>4, <1>5, SMTT(30)
<1> QED BY <1>2, <1>6, <1>7, <1>8, SMTT(30) DEF TreeInv

\* Rejecting the latest assertion preserves the tree invariant when every staker is whitelisted.
LEMMA TreeReject ==
    ASSUME CoreInv, CoreInv', TreeInv, Reject
    PROVE  TreeInv'
<1> USE IDs
<1>1. PICK i \in 1 .. Len(batches) : rejectLatestCreatedAssertionWithBatch(batches[i])
  BY Zenon DEF Reject
<1> DEFINE last == lastCreatedAssertionID
<1>2. /\ lastCreatedAssertionID' = last - 1 /\ last \in Nat /\ last \in AssertionIDs
      /\ last - 1 \in Nat
      /\ UNCHANGED <<stakerslist, now>>
  BY <1>1, Zenon DEF rejectLatestCreatedAssertionWithBatch, CoreInv, TypeOK
<1>3. /\ assertions'[last].proposalTime = 0
      /\ \A id \in AssertionIDs \ {last} : SameShape(assertions'[id], assertions[id])
  BY <1>1, <1>2, DeleteShape, Zenon DEF rejectLatestCreatedAssertionWithBatch, CoreInv, TypeOK, MapType
<1>4. \A id \in AssertionIDs \ {last} :
             /\ assertions'[id].parent = assertions[id].parent
             /\ assertions'[id].inboxSize = assertions[id].inboxSize
             /\ assertions'[id].proposalTime = assertions[id].proposalTime
  BY <1>3, ZenonT(30) DEF SameShape
<1>5. StakesOnLiveAssertions'
  <2>1. stakers' = FallBack(last - 1)
    BY <1>1, <1>2, Zenon DEF rejectLatestCreatedAssertionWithBatch
  <2>2. \A s \in Stakers : s \in stakerslist /\ stakers[s] \in Staker
    BY Zenon DEF TreeInv, CoreInv, TypeOK
  <2>3. \A s \in Stakers : stakers'[s].assertionID <= last - 1
    BY <1>2, <2>1, <2>2, SMTT(30) DEF FallBack, Staker
  <2> QED BY <1>2, <2>3, Zenon DEF StakesOnLiveAssertions
<1>6. AssertionsFormTree'
  <2> SUFFICES ASSUME NEW id \in 1 .. last - 1
               PROVE  LET q == assertions'[id].parent IN
                      /\ q < id
                      /\ assertions'[id].inboxSize > assertions'[q].inboxSize
                      /\ assertions'[id].proposalTime >= assertions'[q].proposalTime
    BY <1>2, SMTT(30) DEF AssertionsFormTree
  <2> DEFINE q == assertions[id].parent
  <2>1. id \in 1 .. lastCreatedAssertionID /\ id \in AssertionIDs \ {last}
    BY <1>2, RollupConstants DEF AssertionIDs
  <2>2. q \in AssertionIDs
    BY <2>1, Zenon DEF CoreInv, TypeOK, Assertion
  <2>3. /\ q < id /\ assertions[id].inboxSize > assertions[q].inboxSize
        /\ assertions[id].proposalTime >= assertions[q].proposalTime
    BY <2>1, Zenon DEF TreeInv, AssertionsFormTree
  <2>4. q \in AssertionIDs \ {last}
    BY <1>2, <2>1, <2>2, <2>3
  <2> QED BY <1>4, <2>1, <2>3, <2>4, ZenonT(30)
<1>7. \A id \in AssertionIDs : assertions'[id].proposalTime <= now'
  <2>1. now \in Nat /\ \A id \in AssertionIDs : assertions[id].proposalTime <= now
    BY Zenon DEF TreeInv, CoreInv, TypeOK, SCC!TypeOK
  <2> QED BY <1>2, <1>3, <1>4, <2>1
<1> QED BY <1>2, <1>5, <1>6, <1>7, ZenonT(30) DEF TreeInv

\* The tree invariant holds of the contract as Rollup.initialize leaves it.
LEMMA TreeInit == Init => TreeInv
<1> SUFFICES ASSUME Init PROVE TreeInv
  BY Zenon
<1> USE IDs
<1>1. StakesOnLiveAssertions
  <2> SUFFICES ASSUME NEW s \in Stakers
               PROVE  stakers[s].assertionID <= lastCreatedAssertionID
    BY ZenonT(30) DEF StakesOnLiveAssertions
  <2>1. lastCreatedAssertionID = 0 /\ stakers[s].assertionID = 0
    BY Zenon DEF Init, NoStaker
  <2> QED BY <2>1
<1>2. AssertionsFormTree
  BY SMTT(30) DEF Init, AssertionsFormTree
<1>3. \A id \in AssertionIDs : assertions[id].proposalTime <= now
  BY SMTT(30) DEF Init, SCC!Init, Genesis, NewAssertion, NoAssertion
<1> QED BY <1>1, <1>2, <1>3, Zenon DEF Init, TreeInv

\* Every step of the rollup contract preserves the tree invariant while the whitelist is stable.
LEMMA TreeNext ==
    ASSUME Delistable = {}, CoreInv, CoreInv', TreeInv, [Next]_vars
    PROVE  TreeInv'
<1>1. CASE CreateAssertion
  <2>1. PICK op \in Operators, h \in VMHashes, size \in 0 .. MaxInboxSize :
            createAssertion(op, h, size) /\ UNCHANGED now
    BY <1>1, Zenon DEF CreateAssertion, createAssertionAlone, createAssertionWithStateBatch, sccState
  <2>2. size \in Nat
    BY RollupConstants
  <2> QED BY <2>1, <2>2, TreeCreate, Zenon
<1> QED BY <1>1, TreeStaking, TreeReject, TreeRest, Zenon DEF Next

\* As long as no staker is taken off the whitelist, the assertions form a tree
\* below the genesis and every stake stands on an assertion that exists, through
\* any number of rejections and reuses of identifiers.
THEOREM RollupTree ==
    ASSUME Delistable = {}
    PROVE  Spec => [](StakesOnLiveAssertions /\ AssertionsFormTree)
<1>1. Init => CoreInv /\ TreeInv
  BY CoreInit, TreeInit, Zenon
<1>2. CoreInv /\ TreeInv /\ [Next]_vars => (CoreInv /\ TreeInv)'
  BY CoreNext, TreeNext, Zenon
<1>3. TreeInv => StakesOnLiveAssertions /\ AssertionsFormTree
  BY Zenon DEF TreeInv
<1> QED BY <1>1, <1>2, <1>3, PTL DEF Spec

\* So the loop of a rejection takes every stake off the assertion it deletes.
COROLLARY RollupStakes ==
    ASSUME Delistable = {}
    PROVE  Spec => []StakesOnLiveAssertions
<1> QED BY RollupTree, PTL

-----------------------------------------------------------------------------
(* The child hashes AssertionMap keeps beside the assertions.              *)

\* The identifiers up to the last created are identifiers of the model.
LEMMA LiveIDs ==
    ASSUME CoreInv
    PROVE  /\ lastCreatedAssertionID \in Nat
           /\ 0 .. lastCreatedAssertionID \subseteq AssertionIDs
  BY RollupConstants DEF CoreInv, TypeOK, AssertionIDs

\* The hashes of assertions S, in two maps that agree on S.
LEMMA HashesAgree ==
    ASSUME NEW S, NEW a, NEW b, \A c \in S : b[c].stateHash = a[c].stateHash
    PROVE  {b[c].stateHash : c \in S} = {a[c].stateHash : c \in S}
  BY SMTT(30)

\* One more assertion adds its hash.
LEMMA HashesAdd ==
    ASSUME NEW S, NEW a, NEW n
    PROVE  {a[c].stateHash : c \in S \cup {n}} =
               {a[c].stateHash : c \in S} \cup {a[n].stateHash}
  BY SMTT(30)

\* Steps that keep the shapes, the child hashes and the last identifier keep
\* the child hashes exact.
LEMMA HashesSame ==
    ASSUME CoreInv, ChildHashesExact, UNCHANGED lastCreatedAssertionID,
           \A id \in AssertionIDs :
               /\ SameShape(assertions'[id], assertions[id])
               /\ assertionStates'[id].childStateHashes =
                      assertionStates[id].childStateHashes
    PROVE  ChildHashesExact'
<1>1. \A c \in 0 .. lastCreatedAssertionID :
          /\ assertions'[c].parent = assertions[c].parent
          /\ assertions'[c].stateHash = assertions[c].stateHash
  BY LiveIDs, Zenon DEF SameShape
<1>2. \A id \in AssertionIDs : Children(id)' = Children(id)
  BY <1>1, Zenon DEF Children
<1>3. \A id \in AssertionIDs :
          {assertions'[c].stateHash : c \in Children(id)'} =
              {assertions[c].stateHash : c \in Children(id)}
  <2>1. \A id \in AssertionIDs : \A c \in Children(id) :
            assertions'[c].stateHash = assertions[c].stateHash
    BY <1>1, Zenon DEF Children
  <2> QED BY <1>2, <2>1, HashesAgree, Zenon
<1>4. ASSUME NEW id \in AssertionIDs
      PROVE  /\ assertionStates'[id].childStateHashes =
                    {assertions'[c].stateHash : c \in Children(id)'}
             /\ \A c, d \in Children(id)' :
                    assertions'[c].stateHash = assertions'[d].stateHash => c = d
  <2>1. assertionStates'[id].childStateHashes = {assertions'[c].stateHash : c \in Children(id)'}
    BY <1>3, <1>4, Zenon DEF ChildHashesExact
  <2>2. \A c, d \in Children(id) :
            assertions[c].stateHash = assertions[d].stateHash => c = d
    BY <1>4, Zenon DEF ChildHashesExact
  <2>3. \A c \in Children(id) : assertions'[c].stateHash = assertions[c].stateHash
    BY <1>1, Zenon DEF Children
  <2> QED BY <1>2, <1>4, <2>1, <2>2, <2>3, Zenon
<1> QED BY <1>4, Zenon DEF ChildHashesExact

\* All steps but creations and rejections keep the child hashes exact.
LEMMA HashesRest ==
    ASSUME CoreInv, ChildHashesExact,
           \/ Stake \/ TakeOut \/ Whitelist \/ Environment \/ UNCHANGED vars
           \/ \E op \in Operators, id \in AssertionIDs : advanceStake(op, id)
    PROVE  ChildHashesExact'
<1>1. UNCHANGED lastCreatedAssertionID
  BY ZenonT(30) DEF Stake, stakeMore, stakeNew, TakeOut, unstake, removeStake, advanceStake,
     Whitelist, removeFromStakerWhitelist, addToStakerWhitelist, Environment, vars, ids
<1>2. /\ MapType(assertions) /\ StatesType(assertionStates)
      /\ lastConfirmedAssertionID \in AssertionIDs
  BY Zenon DEF CoreInv, TypeOK, MapType, StatesType
<1>3. \/ UNCHANGED mapVars
      \/ \E i \in AssertionIDs : \E s :
             /\ assertions' = AfterStake(assertions, i)
             /\ assertionStates' = StatesAfterStake(assertionStates, i, s)
  BY <1>2, ZenonT(30) DEF Stake, stakeMore, stakeNew, TakeOut, unstake, removeStake, advanceStake,
     Whitelist, removeFromStakerWhitelist, addToStakerWhitelist, Environment, vars
<1>4. CASE UNCHANGED mapVars
  BY <1>1, <1>4, HashesSame, Zenon DEF mapVars, SameShape
<1>5. CASE \E i \in AssertionIDs : \E s :
               /\ assertions' = AfterStake(assertions, i)
               /\ assertionStates' = StatesAfterStake(assertionStates, i, s)
  <2>1. PICK i \in AssertionIDs : \E s :
            /\ assertions' = AfterStake(assertions, i)
            /\ assertionStates' = StatesAfterStake(assertionStates, i, s)
    BY <1>5, Zenon
  <2>2. PICK s : /\ assertions' = AfterStake(assertions, i)
                 /\ assertionStates' = StatesAfterStake(assertionStates, i, s)
    BY <2>1, Zenon
  <2>3. \A id \in AssertionIDs : SameShape(assertions'[id], assertions[id])
    BY <1>2, <2>2, StakeKeepsShape, Zenon
  <2>4. \A id \in AssertionIDs :
            assertionStates'[id].childStateHashes = assertionStates[id].childStateHashes
    BY <1>2, <2>2, Zenon DEF StatesType, AssertionState, StatesAfterStake
  <2> QED BY <1>1, <2>3, <2>4, HashesSame, Zenon
<1> QED BY <1>3, <1>4, <1>5, Zenon

\* Creating an assertion adds its hash to its parent's, where it was not.
LEMMA HashesCreate ==
    ASSUME CoreInv, ChildHashesExact, NEW op \in Operators, NEW h \in VMHashes,
           NEW size \in Nat, createAssertion(op, h, size)
    PROVE  ChildHashesExact'
<1> USE IDs
<1>1. PICK s \in Stakers : Created(s, h, size)
  BY CreateEffect, Zenon
<1> DEFINE p == stakers[s].assertionID
           last == lastCreatedAssertionID
           n == last + 1
           hashes(id) == assertionStates[id].childStateHashes
           newHashes(id) == assertionStates'[id].childStateHashes
<1>2. /\ lastCreatedAssertionID' = n /\ n \in AssertionIDs /\ p \in AssertionIDs
      /\ last \in Nat /\ 0 .. last \subseteq AssertionIDs
  BY <1>1, LiveIDs, Zenon DEF Created, createAssertion
<1>3. /\ assertions'[n].parent = p /\ assertions'[n].stateHash = h
      /\ \A id \in AssertionIDs \ {n} :
             /\ assertions'[id].parent = assertions[id].parent
             /\ assertions'[id].stateHash = assertions[id].stateHash
      /\ h \notin hashes(p)
      /\ newHashes(p) = hashes(p) \cup {h}
      /\ \A id \in AssertionIDs \ {p} : newHashes(id) = hashes(id)
  BY <1>1, Zenon DEF Created, SameShape, Shape
<1> HIDE DEF p
<1>4. 0 .. n = (0 .. last) \cup {n} /\ n \notin 0 .. last
  BY <1>2
<1>5. \A c \in 0 .. last : /\ assertions'[c].parent = assertions[c].parent
                           /\ assertions'[c].stateHash = assertions[c].stateHash
  BY <1>2, <1>3, <1>4, Zenon
<1> HIDE DEF n, last
<1>6. \A id \in AssertionIDs :
          Children(id)' = IF id = p THEN Children(id) \cup {n} ELSE Children(id)
  <2> SUFFICES ASSUME NEW id \in AssertionIDs
               PROVE  Children(id)' = IF id = p THEN Children(id) \cup {n} ELSE Children(id)
    BY Zenon
  <2>1. Children(id)' = {c \in (0 .. last) \cup {n} : assertions'[c].parent = id}
    BY <1>2, <1>4, Zenon DEF Children
  <2>2. Children(id) = {c \in 0 .. last : assertions[c].parent = id}
    BY Zenon DEF Children, last
  <2>3. assertions'[n].parent = p
    BY <1>3, Zenon
  <2>4. CASE id = p
    BY <1>5, <2>1, <2>2, <2>3, <2>4, SMTT(30)
  <2>5. CASE id # p
    BY <1>5, <2>1, <2>2, <2>3, <2>5, SMTT(30)
  <2> QED BY <2>4, <2>5, Zenon
<1>7. \A id \in AssertionIDs : \A c \in Children(id) :
          c \in 0 .. last /\ assertions'[c].stateHash = assertions[c].stateHash
  BY <1>5, Zenon DEF Children, last
<1>8. \A id \in AssertionIDs :
          /\ hashes(id) = {assertions[c].stateHash : c \in Children(id)}
          /\ \A c, d \in Children(id) :
                 assertions[c].stateHash = assertions[d].stateHash => c = d
  BY Zenon DEF ChildHashesExact
<1>9. ASSUME NEW id \in AssertionIDs
      PROVE  /\ newHashes(id) = {assertions'[c].stateHash : c \in Children(id)'}
             /\ \A c, d \in Children(id)' :
                    assertions'[c].stateHash = assertions'[d].stateHash => c = d
  <2>1. CASE id = p
    <3>1. Children(id)' = Children(id) \cup {n}
      BY <1>6, <2>1, Zenon
    <3>2. {assertions'[c].stateHash : c \in Children(id) \cup {n}} =
              {assertions[c].stateHash : c \in Children(id)} \cup {h}
      <4>1. {assertions'[c].stateHash : c \in Children(id) \cup {n}} =
                {assertions'[c].stateHash : c \in Children(id)} \cup {h}
        <5>1. assertions'[n].stateHash = h
          BY <1>3, Zenon
        <5>2. {assertions'[c].stateHash : c \in Children(id) \cup {n}} =
                  {assertions'[c].stateHash : c \in Children(id)} \cup {assertions'[n].stateHash}
          BY HashesAdd, SMTT(30)
        <5> QED BY <5>1, <5>2, Zenon
      <4>2. {assertions'[c].stateHash : c \in Children(id)} =
                {assertions[c].stateHash : c \in Children(id)}
        BY <1>7, <1>9, HashesAgree, Zenon
      <4> QED BY <4>1, <4>2, Zenon
    <3>3. \A c \in Children(id) : assertions'[c].stateHash # h
      <4>1. \A c \in Children(id) : assertions[c].stateHash \in hashes(id)
        <5>1. hashes(id) = {assertions[c].stateHash : c \in Children(id)}
          BY <1>8, <1>9, Zenon
        <5> QED BY <5>1, SMTT(30)
      <4>2. h \notin hashes(id)
        BY <1>3, <2>1, Zenon
      <4> QED BY <1>7, <1>9, <4>1, <4>2, Zenon
    <3>4. newHashes(id) = {assertions'[c].stateHash : c \in Children(id)'}
      BY <1>3, <1>8, <2>1, <3>1, <3>2, Zenon
    <3>5. \A c, d \in Children(id)' :
              assertions'[c].stateHash = assertions'[d].stateHash => c = d
      <4>1. \A c, d \in Children(id) :
                assertions'[c].stateHash = assertions'[d].stateHash => c = d
        BY <1>7, <1>8, <1>9, Zenon
      <4>2. assertions'[n].stateHash = h
        BY <1>3, Zenon
      <4> QED BY <3>1, <3>3, <4>1, <4>2, Zenon
    <3> QED BY <3>4, <3>5, Zenon
  <2>2. CASE id # p
    <3>1. Children(id)' = Children(id) /\ newHashes(id) = hashes(id)
      BY <1>3, <1>6, <2>2, Zenon
    <3>2. {assertions'[c].stateHash : c \in Children(id)} =
              {assertions[c].stateHash : c \in Children(id)}
      BY <1>7, <1>9, Zenon
    <3>3. \A c, d \in Children(id) :
              assertions'[c].stateHash = assertions'[d].stateHash => c = d
      BY <1>7, <1>8, <1>9, Zenon
    <3>4. hashes(id) = {assertions[c].stateHash : c \in Children(id)}
      BY <1>8, <1>9, Zenon
    <3>5. newHashes(id) = {assertions'[c].stateHash : c \in Children(id)'}
      BY <3>1, <3>2, <3>4, Zenon
    <3> QED BY <3>1, <3>3, <3>5, Zenon
  <2> QED BY <2>1, <2>2, Zenon
<1> QED BY <1>9, Zenon DEF ChildHashesExact

\* A rejection takes the hash of the deleted assertion, and no sibling's, from
\* its parent.
LEMMA HashesReject ==
    ASSUME CoreInv, CoreInv', ChildHashesExact, Reject
    PROVE  ChildHashesExact'
<1> USE IDs
<1> DEFINE last == lastCreatedAssertionID
           p == assertions[last].parent
           h == assertions[last].stateHash
           hashes(id) == assertionStates[id].childStateHashes
           newHashes(id) == assertionStates'[id].childStateHashes
<1>1. PICK i \in 1 .. Len(batches) : rejectLatestCreatedAssertionWithBatch(batches[i])
  BY Zenon DEF Reject
<1>2. /\ lastCreatedAssertionID' = last - 1 /\ last \in AssertionIDs /\ last \in Nat
      /\ last - 1 \in Nat /\ p \in AssertionIDs /\ 0 .. last \subseteq AssertionIDs
  <2>1. /\ lastCreatedAssertionID' = last - 1 /\ last \in AssertionIDs
        /\ lastCreatedAssertionID' \in AssertionIDs /\ p \in AssertionIDs
    BY <1>1, Zenon DEF rejectLatestCreatedAssertionWithBatch, CoreInv, TypeOK, Assertion
  <2> QED BY <2>1, LiveIDs, Zenon
<1>3. /\ \A id \in AssertionIDs \ {last} : SameShape(assertions'[id], assertions[id])
      /\ newHashes(p) = hashes(p) \ {h}
      /\ \A id \in AssertionIDs \ {p} : newHashes(id) = hashes(id)
  <2>1. /\ assertions' = AfterDeleteForBatch(assertions, last)
        /\ assertionStates' = StatesAfterDeleteForBatch(assertions, assertionStates, last)
        /\ MapType(assertions) /\ StatesType(assertionStates)
    BY <1>1, Zenon DEF rejectLatestCreatedAssertionWithBatch, CoreInv, TypeOK, MapType, StatesType
  <2>2. \A id \in AssertionIDs \ {last} : SameShape(assertions'[id], assertions[id])
    BY <1>2, <2>1, DeleteShape, Zenon
  <2> QED BY <1>2, <2>1, <2>2, Zenon DEF StatesType, AssertionState, StatesAfterDeleteForBatch
<1>4. 0 .. last = (0 .. last - 1) \cup {last} /\ last \notin 0 .. last - 1
  BY <1>2
<1> HIDE DEF p, h
<1>5. \A c \in 0 .. last - 1 : /\ assertions'[c].parent = assertions[c].parent
                               /\ assertions'[c].stateHash = assertions[c].stateHash
  BY <1>2, <1>3, <1>4, Zenon DEF SameShape
<1>6. \A id \in AssertionIDs :
          Children(id) = IF id = p THEN Children(id)' \cup {last} ELSE Children(id)'
  <2> SUFFICES ASSUME NEW id \in AssertionIDs
               PROVE  Children(id) = IF id = p THEN Children(id)' \cup {last} ELSE Children(id)'
    BY Zenon
  <2>1. Children(id) = {c \in (0 .. last - 1) \cup {last} : assertions[c].parent = id}
    BY <1>4, Zenon DEF Children
  <2>2. Children(id)' = {c \in 0 .. last - 1 : assertions'[c].parent = id}
    BY <1>2, Zenon DEF Children
  <2>3. assertions[last].parent = p
    BY Zenon DEF p
  <2> HIDE DEF last
  <2> QED BY <1>5, <2>1, <2>2, <2>3, Zenon
<1>7. \A id \in AssertionIDs : \A c \in Children(id)' :
          c \in 0 .. last - 1 /\ assertions'[c].stateHash = assertions[c].stateHash
  BY <1>2, <1>5, Zenon DEF Children
<1>8. \A id \in AssertionIDs :
          /\ hashes(id) = {assertions[c].stateHash : c \in Children(id)}
          /\ \A c, d \in Children(id) :
                 assertions[c].stateHash = assertions[d].stateHash => c = d
  BY Zenon DEF ChildHashesExact
<1>9. assertions[last].stateHash = h
  BY Zenon DEF h
<1>10. last \notin 0 .. last - 1
  BY <1>4, Zenon
<1> HIDE DEF last
<1>11. ASSUME NEW id \in AssertionIDs
       PROVE  /\ newHashes(id) = {assertions'[c].stateHash : c \in Children(id)'}
              /\ \A c, d \in Children(id)' :
                     assertions'[c].stateHash = assertions'[d].stateHash => c = d
  <2>1. Children(id)' \subseteq Children(id)
    BY <1>6, <1>11, Zenon
  <2>2. \A c, d \in Children(id)' :
            assertions'[c].stateHash = assertions'[d].stateHash => c = d
    BY <1>7, <1>8, <1>11, <2>1, Zenon
  <2>3. {assertions'[c].stateHash : c \in Children(id)'} =
            {assertions[c].stateHash : c \in Children(id)'}
    BY <1>7, <1>11, Zenon
  <2>4. CASE id = p
    <3>1. Children(id) = Children(id)' \cup {last}
      BY <1>6, <2>4, Zenon
    <3>2. \A c \in Children(id)' : assertions[c].stateHash # h
      <4> SUFFICES ASSUME NEW c \in Children(id)', assertions[c].stateHash = h
                   PROVE  FALSE
        BY Zenon
      <4>1. c = last
        BY <1>8, <1>9, <1>11, <3>1, Zenon
      <4> QED BY <1>7, <1>10, <1>11, <4>1, Zenon
    <3>3. hashes(id) = {assertions[c].stateHash : c \in Children(id)'} \cup {h}
      <4>1. hashes(id) = {assertions[c].stateHash : c \in Children(id)' \cup {last}}
        BY <1>8, <1>11, <3>1, Zenon
      <4>2. {assertions[c].stateHash : c \in Children(id)' \cup {last}} =
                {assertions[c].stateHash : c \in Children(id)'} \cup {assertions[last].stateHash}
        BY HashesAdd, SMTT(30)
      <4> QED BY <1>9, <4>1, <4>2, Zenon
    <3>4. newHashes(id) = hashes(id) \ {h}
      BY <1>3, <2>4, Zenon
    <3>5. newHashes(id) = {assertions[c].stateHash : c \in Children(id)'}
      BY <3>2, <3>3, <3>4, Zenon
    <3> QED BY <2>2, <2>3, <3>5, Zenon
  <2>5. CASE id # p
    <3>1. Children(id) = Children(id)' /\ newHashes(id) = hashes(id)
      BY <1>3, <1>6, <2>5, Zenon
    <3> QED BY <1>8, <2>2, <2>3, <3>1, Zenon
  <2> QED BY <2>4, <2>5, Zenon
<1> QED BY <1>11, Zenon DEF ChildHashesExact

\* The genesis is recorded as its own only child.
LEMMA HashesInit == Init => ChildHashesExact
<1> SUFFICES ASSUME Init PROVE ChildHashesExact
  BY Zenon
<1> USE IDs
<1>1. /\ lastCreatedAssertionID = 0
      /\ assertions[0].parent = 0 /\ assertions[0].stateHash = InitialVMHash
      /\ \A id \in AssertionIDs :
             assertionStates[id].childStateHashes = IF id = 0 THEN {InitialVMHash} ELSE {}
  BY Zenon DEF Init, Genesis, NewAssertion
<1>2. 0 .. lastCreatedAssertionID = {0}
  BY <1>1
<1>3. \A id \in AssertionIDs : Children(id) = IF id = 0 THEN {0} ELSE {}
  BY <1>1, <1>2, SMTT(30) DEF Children
<1>4. ASSUME NEW id \in AssertionIDs
      PROVE  /\ assertionStates[id].childStateHashes =
                    {assertions[c].stateHash : c \in Children(id)}
             /\ \A c, d \in Children(id) :
                    assertions[c].stateHash = assertions[d].stateHash => c = d
  <2>1. CASE id = 0
    <3>1. Children(id) = {0} /\ assertionStates[id].childStateHashes = {InitialVMHash}
      BY <1>1, <1>3, <2>1, Zenon
    <3>2. {assertions[c].stateHash : c \in {0}} = {InitialVMHash}
      BY <1>1, SMTT(30)
    <3> QED BY <3>1, <3>2, Zenon
  <2>2. CASE id # 0
    <3>1. Children(id) = {} /\ assertionStates[id].childStateHashes = {}
      BY <1>1, <1>3, <1>4, <2>2, Zenon
    <3> QED BY <3>1, SMTT(30)
  <2> QED BY <2>1, <2>2, Zenon
<1> QED BY <1>4, Zenon DEF ChildHashesExact

\* Whatever stakers, operators and the owner do, delisting included: the child
\* hashes that createAssertion compares a new hash with are those of the
\* assertions that exist, and siblings differ in their hash.  So a rejection
\* forgets exactly the hash it deletes.  ChildHashesExact is inductive beside
\* CoreInv: what a creation adds was absent, so what a rejection takes out no
\* sibling has.
THEOREM RollupChildHashes == Spec => []ChildHashesExact
<1> DEFINE Inv == CoreInv /\ ChildHashesExact
<1>1. Init => Inv
  BY CoreInit, HashesInit, Zenon
<1>2. Inv /\ [Next]_vars => Inv'
  <2> SUFFICES ASSUME CoreInv, ChildHashesExact, [Next]_vars
               PROVE  CoreInv' /\ ChildHashesExact'
    BY Zenon
  <2>1. CoreInv'
    BY CoreNext, Zenon
  <2>2. CASE CreateAssertion
    <3>1. PICK op \in Operators, h \in VMHashes, size \in 0 .. MaxInboxSize :
              createAssertion(op, h, size)
      BY <2>2, Zenon DEF CreateAssertion, createAssertionAlone, createAssertionWithStateBatch
    <3>2. size \in Nat
      BY RollupConstants
    <3> QED BY <2>1, <3>1, <3>2, HashesCreate, Zenon
  <2> QED BY <2>1, <2>2, HashesRest, HashesReject, Zenon DEF Next
<1> QED BY <1>1, <1>2, PTL DEF Spec

-----------------------------------------------------------------------------
(* The stake tokens: what the contract holds is the sum of the stakes.     *)

\* Induction over the natural numbers, for a set instead of a predicate.
LEMMA NatSetInduction ==
    ASSUME NEW T, 0 \in T, \A n \in Nat : n \in T => n + 1 \in T
    PROVE  \A n \in Nat : n \in T
<1> DEFINE C == {n \in Nat : n \notin T}
<1> SUFFICES ASSUME C # {} PROVE FALSE
  BY Zenon
<1>1. \E n \in C : \A m \in C : <<m, n>> \notin OpToRel(<, Nat)
  <2>1. C \subseteq Nat
    BY Zenon
  <2> QED BY <2>1, NatLessThanWellFounded, WFMin, Zenon
<1>2. PICK n \in C : \A m \in C : <<m, n>> \notin OpToRel(<, Nat)
  BY <1>1, Zenon
<1>3. n \in Nat /\ n \notin T /\ n # 0
  BY Zenon
<1>4. n - 1 \in Nat /\ n - 1 < n /\ (n - 1) + 1 = n
  BY <1>3
<1>5. <<n - 1, n>> \in OpToRel(<, Nat)
  BY <1>3, <1>4 DEF OpToRel
<1>6. n - 1 \in T
  BY <1>2, <1>4, <1>5, Zenon
<1> QED BY <1>3, <1>4, <1>6, Zenon

pick(S) == CHOOSE x \in S : TRUE

SmallSets(n) == {S \in SUBSET Stakers : Cardinality(S) <= n}

\* total[S] is the sum of what the stakers in S have staked.
sums(total, st, Sets) ==
    total = [S \in Sets |->
               IF S = {} THEN 0 ELSE st[pick(S)].amountStaked + total[S \ {pick(S)}]]

\* A staker is taken out of a set of stakers.
LEMMA PickRest ==
    ASSUME NEW S \in SUBSET Stakers, S # {}
    PROVE  /\ pick(S) \in S
           /\ S \ {pick(S)} \in SUBSET Stakers
           /\ Cardinality(S) \in Nat
           /\ Cardinality(S \ {pick(S)}) = Cardinality(S) - 1
<1>1. pick(S) \in S
  BY Zenon DEF pick
<1>2. IsFiniteSet(S)
  BY FS_Subset, RollupConstants, Zenon
<1>3. Cardinality(S) \in Nat
  BY <1>2, FS_CardinalityType, Zenon
<1> QED BY <1>1, <1>2, <1>3, FS_RemoveElement, Zenon

\* The recursive function by which MapThenSumSet is defined exists.
LEMMA SumExists ==
    ASSUME NEW st
    PROVE  \E total : sums(total, st, SUBSET Stakers)
<1> DEFINE T == {n \in Nat : \E total : sums(total, st, SmallSets(n))}
<1>1. 0 \in T
  <2> DEFINE f == [S \in SmallSets(0) |-> 0]
  <2>1. ASSUME NEW S \in SmallSets(0) PROVE S = {}
    <3>1. S \in SUBSET Stakers /\ Cardinality(S) <= 0
      BY Zenon DEF SmallSets
    <3>2. IsFiniteSet(S)
      BY <3>1, FS_Subset, RollupConstants, Zenon
    <3>3. Cardinality(S) = 0
      BY <3>1, <3>2, FS_CardinalityType
    <3> QED BY <3>2, <3>3, FS_EmptySet, Zenon
  <2>2. f = [S \in SmallSets(0) |->
               IF S = {} THEN 0 ELSE st[pick(S)].amountStaked + f[S \ {pick(S)}]]
    BY <2>1, Zenon
  <2>3. sums(f, st, SmallSets(0))
    BY <2>2, Zenon DEF sums
  <2> HIDE DEF f
  <2> QED BY <2>3
<1>2. ASSUME NEW n \in Nat, n \in T PROVE n + 1 \in T
  <2>1. PICK f : sums(f, st, SmallSets(n))
    BY <1>2, Zenon
  <2> DEFINE sum(h, S) == IF S = {} THEN 0 ELSE st[pick(S)].amountStaked + h[S \ {pick(S)}]
             g == [S \in SmallSets(n + 1) |-> IF S \in SmallSets(n) THEN f[S] ELSE sum(f, S)]
  <2>2. \A S \in SmallSets(n + 1) : S # {} => S \ {pick(S)} \in SmallSets(n)
    BY PickRest DEF SmallSets
  <2>3. SmallSets(n) \subseteq SmallSets(n + 1)
    <3>1. \A S \in SUBSET Stakers : Cardinality(S) \in Nat
      BY FS_Subset, FS_CardinalityType, RollupConstants, Zenon
    <3> QED BY <3>1 DEF SmallSets
  <2>4. \A S \in SmallSets(n) : f[S] = sum(f, S)
    BY <2>1, Zenon DEF sums
  <2>5. \A S \in SmallSets(n) : g[S] = f[S]
    BY <2>3, Zenon
  <2>6. \A S \in SmallSets(n + 1) : g[S] = sum(f, S)
    BY <2>4, Zenon
  <2>7. ASSUME NEW S \in SmallSets(n + 1) PROVE g[S] = sum(g, S)
    <3>1. CASE S = {}
      BY <2>6, <3>1, Zenon
    <3>2. CASE S # {}
      <4>1. g[S \ {pick(S)}] = f[S \ {pick(S)}]
        BY <2>2, <2>5, <3>2, Zenon
      <4> HIDE DEF g
      <4> QED BY <2>6, <4>1, Zenon
    <3> QED BY <3>1, <3>2, Zenon
  <2>8. g = [S \in SmallSets(n + 1) |-> sum(g, S)]
    <3> DEFINE h == [S \in SmallSets(n + 1) |-> sum(g, S)]
    <3>1. \A S \in SmallSets(n + 1) : g[S] = h[S]
      BY <2>7, Zenon
    <3>2. g = [S \in SmallSets(n + 1) |-> g[S]]
      BY Zenon
    <3> HIDE DEF g
    <3>3. h = [S \in SmallSets(n + 1) |-> h[S]]
      BY Zenon
    <3> HIDE DEF h
    <3>4. g = h
      BY <3>1, <3>2, <3>3, Zenon
    <3> QED BY <3>4, Zenon DEF h
  <2> HIDE DEF g
  <2>9. sums(g, st, SmallSets(n + 1))
    BY <2>8, Zenon DEF sums
  <2> QED BY <2>9
<1> HIDE DEF T
<1>3. \A n \in Nat : n \in T
  BY <1>1, <1>2, NatSetInduction, Zenon
<1>4. Cardinality(Stakers) \in T
  BY <1>3, FS_CardinalityType, RollupConstants, Zenon
<1>5. SmallSets(Cardinality(Stakers)) = SUBSET Stakers
  BY FS_Subset, RollupConstants, Zenon DEF SmallSets
<1> QED BY <1>4, <1>5, Zenon DEF T

\* The sum Solvent compares the balance with is the value of that function.
LEMMA StakedIsSum ==
    ASSUME NEW st
    PROVE  \E total : sums(total, st, SUBSET Stakers) /\ AllStaked(st) = total[Stakers]
<1> DEFINE by(total) ==
      total = [S \in SUBSET Stakers |->
                 IF S = {} THEN 0
                 ELSE LET x == CHOOSE x \in S : TRUE
                      IN st[x].amountStaked + total[S \ {x}]]
<1>1. \A total : by(total) <=> sums(total, st, SUBSET Stakers)
  BY Zenon DEF sums, pick
<1>2. \E total : by(total)
  <2>1. PICK f : sums(f, st, SUBSET Stakers)
    BY SumExists, Zenon
  <2>2. by(f)
    BY <1>1, <2>1
  <2> QED BY <2>2
<1>3. \E total : by(total) /\ AllStaked(st) = total[Stakers]
  BY <1>2, Zenon DEF AllStaked, MapThenSumSet, MapThenFoldSet
<1> QED BY <1>1, <1>3, Zenon

\* When the stake of one staker changes, the sum changes by as much.
LEMMA SumChanges ==
    ASSUME NEW st, \A s \in Stakers : st[s].amountStaked \in Int,
           NEW c \in Stakers, NEW d \in Int, NEW new,
           new[c].amountStaked = st[c].amountStaked + d,
           \A s \in Stakers \ {c} : new[s].amountStaked = st[s].amountStaked
    PROVE  AllStaked(st) \in Int /\ AllStaked(new) = AllStaked(st) + d
<1>1. PICK f : sums(f, st, SUBSET Stakers) /\ AllStaked(st) = f[Stakers]
  BY StakedIsSum, Zenon
<1>2. PICK g : sums(g, new, SUBSET Stakers) /\ AllStaked(new) = g[Stakers]
  BY StakedIsSum, Zenon
<1> DEFINE ok(S) == f[S] \in Int /\ g[S] = f[S] + (IF c \in S THEN d ELSE 0)
           T == {n \in Nat : \A S \in SUBSET Stakers : Cardinality(S) = n => ok(S)}
<1>3. \A S \in SUBSET Stakers : IsFiniteSet(S) /\ Cardinality(S) \in Nat
  BY FS_Subset, FS_CardinalityType, RollupConstants, Zenon
<1>4. 0 \in T
  <2> SUFFICES ASSUME NEW S \in SUBSET Stakers, Cardinality(S) = 0 PROVE ok(S)
    BY Zenon
  <2>1. S = {}
    BY <1>3, FS_EmptySet, Zenon
  <2>2. f[S] = 0 /\ g[S] = 0
    BY <1>1, <1>2, <2>1, Zenon DEF sums
  <2> QED BY <2>1, <2>2
<1>5. ASSUME NEW n \in Nat, n \in T PROVE n + 1 \in T
  <2>0. n + 1 \in Nat /\ n + 1 # 0 /\ (n + 1) - 1 = n
    OBVIOUS
  <2> SUFFICES ASSUME NEW S \in SUBSET Stakers, Cardinality(S) = n + 1 PROVE ok(S)
    BY <2>0, Zenon
  <2> DEFINE x == pick(S)
             R == S \ {x}
  <2>1. S # {}
    BY <2>0, FS_EmptySet, Zenon
  <2>2. x \in S /\ R \in SUBSET Stakers /\ Cardinality(R) = n
    BY <2>0, <2>1, PickRest, Zenon
  <2>3. ok(R)
    BY <1>5, <2>2, Zenon
  <2>4. f[S] = st[x].amountStaked + f[R] /\ g[S] = new[x].amountStaked + g[R]
    BY <1>1, <1>2, <2>1, Zenon DEF sums
  <2>5. x \in Stakers /\ x \notin R
    BY <2>2, Zenon
  <2>6. c \in S <=> c \in R \/ c = x
    BY <2>2, Zenon
  <2>7. st[x].amountStaked \in Int
    BY <2>5, Zenon
  <2> HIDE DEF x, R
  <2>8. CASE x = c
    <3>1. /\ c \in S /\ c \notin R /\ new[x].amountStaked = st[x].amountStaked + d
      BY <2>5, <2>6, <2>8, Zenon
    <3> QED BY <2>3, <2>4, <2>7, <3>1
  <2>9. CASE x # c
    <3>1. new[x].amountStaked = st[x].amountStaked /\ (c \in S <=> c \in R)
      BY <2>5, <2>6, <2>9, Zenon
    <3> QED BY <2>3, <2>4, <2>7, <3>1
  <2> QED BY <2>8, <2>9, Zenon
<1> HIDE DEF T
<1>6. \A n \in Nat : n \in T
  BY <1>4, <1>5, NatSetInduction, Zenon
<1>7. ok(Stakers)
  BY <1>3, <1>6, Zenon DEF T
<1> QED BY <1>1, <1>2, <1>7, Zenon

\* Nothing is staked in the beginning.
LEMMA SumOfNothing ==
    ASSUME NEW st, \A s \in Stakers : st[s].amountStaked = 0
    PROVE  AllStaked(st) = 0
<1>1. PICK f : sums(f, st, SUBSET Stakers) /\ AllStaked(st) = f[Stakers]
  BY StakedIsSum, Zenon
<1> DEFINE T == {n \in Nat : \A S \in SUBSET Stakers : Cardinality(S) = n => f[S] = 0}
<1>3. \A S \in SUBSET Stakers : IsFiniteSet(S) /\ Cardinality(S) \in Nat
  BY FS_Subset, FS_CardinalityType, RollupConstants, Zenon
<1>4. 0 \in T
  <2> SUFFICES ASSUME NEW S \in SUBSET Stakers, Cardinality(S) = 0 PROVE f[S] = 0
    BY Zenon
  <2>1. S = {}
    BY <1>3, FS_EmptySet, Zenon
  <2> QED BY <1>1, <2>1, Zenon DEF sums
<1>5. ASSUME NEW n \in Nat, n \in T PROVE n + 1 \in T
  <2>0. n + 1 \in Nat /\ n + 1 # 0 /\ (n + 1) - 1 = n
    OBVIOUS
  <2> SUFFICES ASSUME NEW S \in SUBSET Stakers, Cardinality(S) = n + 1 PROVE f[S] = 0
    BY <2>0, Zenon
  <2>1. S # {}
    BY <2>0, FS_EmptySet, Zenon
  <2>2. /\ pick(S) \in Stakers /\ S \ {pick(S)} \in SUBSET Stakers
        /\ Cardinality(S \ {pick(S)}) = n
    BY <2>0, <2>1, PickRest, Zenon
  <2>3. st[pick(S)].amountStaked = 0 /\ f[S \ {pick(S)}] = 0
    BY <1>5, <2>2, Zenon
  <2>4. f[S] = st[pick(S)].amountStaked + f[S \ {pick(S)}]
    BY <1>1, <2>1, Zenon DEF sums
  <2> QED BY <2>3, <2>4
<1> HIDE DEF T
<1>6. \A n \in Nat : n \in T
  BY <1>4, <1>5, NatSetInduction, Zenon
<1>7. f[Stakers] = 0
  BY <1>3, <1>6, Zenon DEF T
<1> QED BY <1>1, <1>7, Zenon

\* What a step needs to know of the stakes.
SolventInv ==
    /\ CoreInv
    /\ Solvent
    /\ \A s \in Stakers : ~isStaked(s) => stakers[s].amountStaked = 0

\* The amounts are numbers.
LEMMA Amounts ==
    ASSUME CoreInv
    PROVE  /\ \A s \in Stakers : stakers[s].amountStaked \in Nat
           /\ balance \in Int
           /\ stakers \in [Stakers -> Staker]
BY DEF CoreInv, TypeOK, Staker

\* An assignment to the record of one staker.
LEMMA OneRecord ==
    ASSUME SolventInv, NEW c \in Stakers, NEW r, stakers' = [stakers EXCEPT ![c] = r]
    PROVE  stakers'[c] = r /\ \A s \in Stakers \ {c} : stakers'[s] = stakers[s]
BY Amounts, Zenon DEF SolventInv

\* The record of one staker changes, and the balance by as much as its stake.
LEMMA SolventChange ==
    ASSUME SolventInv, CoreInv', NEW c \in Stakers, NEW d \in Int,
           NEW r, stakers'[c] = r, \A s \in Stakers \ {c} : stakers'[s] = stakers[s],
           r.amountStaked = stakers[c].amountStaked + d,
           balance' = balance + d,
           IF r.isStaked THEN r.amountStaked >= baseStakeAmount ELSE r.amountStaked = 0
    PROVE  SolventInv'
<1>1. \A s \in Stakers : stakers[s].amountStaked \in Int
  BY Amounts DEF SolventInv
<1>2. AllStaked(stakers) \in Int /\ AllStaked(stakers') = AllStaked(stakers) + d
  <2>1. /\ stakers'[c].amountStaked = stakers[c].amountStaked + d
        /\ \A s \in Stakers \ {c} : stakers'[s].amountStaked = stakers[s].amountStaked
    BY Zenon
  <2> QED BY <1>1, <2>1, SumChanges, Zenon
<1>3. balance' = AllStaked(stakers')
  BY <1>2, Zenon DEF SolventInv, Solvent
<1>4. \A s \in Stakers : IF stakers'[s].isStaked
                         THEN stakers'[s].amountStaked >= baseStakeAmount
                         ELSE stakers'[s].amountStaked = 0
  BY Zenon DEF SolventInv, Solvent, isStaked
<1>5. \A s \in Stakers : stakers'[s].amountStaked >=
                             IF stakers'[s].isStaked THEN baseStakeAmount ELSE 0
  BY <1>4
<1> QED BY <1>3, <1>4, <1>5, Zenon DEF SolventInv, Solvent, isStaked

\* Steps that move no token: the amounts and who is staked stay.
LEMMA SolventMove ==
    ASSUME SolventInv, CoreInv', balance' = balance,
           \A s \in Stakers : /\ stakers'[s].amountStaked = stakers[s].amountStaked
                              /\ stakers'[s].isStaked = stakers[s].isStaked
    PROVE  SolventInv'
<1>1. AllStaked(stakers') = AllStaked(stakers)
  <2>1. CASE Stakers = {}
    <3>1. AllStaked(stakers') = 0 /\ AllStaked(stakers) = 0
      BY <2>1, SumOfNothing, Zenon
    <3> QED BY <3>1, Zenon
  <2>2. CASE Stakers # {}
    <3>1. PICK c \in Stakers : TRUE
      BY <2>2, Zenon
    <3>2. \A s \in Stakers : stakers[s].amountStaked \in Int
      BY Amounts DEF SolventInv
    <3>3. stakers'[c].amountStaked = stakers[c].amountStaked + 0
      BY <3>2
    <3>4. 0 \in Int
      OBVIOUS
    <3>5. AllStaked(stakers) \in Int /\ AllStaked(stakers') = AllStaked(stakers) + 0
      BY <3>2, <3>3, <3>4, SumChanges, Zenon
    <3> QED BY <3>5
  <2> QED BY <2>1, <2>2, Zenon
<1> QED BY <1>1, Zenon DEF SolventInv, Solvent, isStaked

\* stake adds its amount, for a staker with a stake or without.
LEMMA SolventStake ==
    ASSUME SolventInv, CoreInv', Stake PROVE SolventInv'
<1>1. PICK s \in Stakers, amount \in 0 .. MaxBalance, op \in Operators :
          stakeMore(s, amount, op) \/ stakeNew(s, amount, op)
  BY Zenon DEF Stake
<1>2. amount \in Nat /\ amount \in Int
  BY RollupConstants
<1>3. stakers[s].amountStaked \in Nat /\ baseStakeAmount \in Nat
  BY Amounts, RollupConstants, Zenon DEF SolventInv
<1>4. CASE stakeMore(s, amount, op)
  <2> DEFINE r == [stakers[s] EXCEPT !.amountStaked = @ + amount]
  <2>1. stakers' = [stakers EXCEPT ![s] = r] /\ balance' = balance + amount /\ isStaked(s)
    BY <1>4, Zenon DEF stakeMore
  <2>2. r.amountStaked = stakers[s].amountStaked + amount /\ r.isStaked = isStaked(s)
    BY Amounts DEF SolventInv, Staker, isStaked
  <2>3. stakers[s].amountStaked >= baseStakeAmount
    BY <2>1, Zenon DEF SolventInv, Solvent
  <2> HIDE DEF r
  <2>4. r.amountStaked >= baseStakeAmount
    BY <1>2, <1>3, <2>2, <2>3
  <2> QED BY <1>2, <2>1, <2>2, <2>4, OneRecord, SolventChange, Zenon
<1>5. CASE stakeNew(s, amount, op)
  <2> DEFINE r == [isStaked |-> TRUE, amountStaked |-> amount,
                   assertionID |-> lastConfirmedAssertionID, operator |-> op]
  <2>1. /\ stakers' = [stakers EXCEPT ![s] = r] /\ balance' = balance + amount
        /\ ~isStaked(s) /\ amount >= baseStakeAmount
    BY <1>5, Zenon DEF stakeNew
  <2>2. stakers[s].amountStaked = 0
    BY <2>1, Zenon DEF SolventInv
  <2>3. r.amountStaked = amount /\ r.isStaked
    BY Zenon
  <2> HIDE DEF r
  <2>4. r.amountStaked = stakers[s].amountStaked + amount
    BY <1>2, <2>2, <2>3
  <2> QED BY <1>2, <2>1, <2>3, <2>4, OneRecord, SolventChange, Zenon
<1> QED BY <1>1, <1>4, <1>5, Zenon

\* unstake and removeStake pay out what they take off the record.
LEMMA SolventTakeOut ==
    ASSUME SolventInv, CoreInv', TakeOut PROVE SolventInv'
<1>1. PICK s \in Stakers : \/ \E amount \in 0 .. MaxBalance : unstake(s, amount)
                           \/ removeStake(s)
  BY Zenon DEF TakeOut
<1>2. stakers[s].amountStaked \in Nat /\ baseStakeAmount \in Nat /\ balance \in Int
  BY Amounts, RollupConstants, Zenon DEF SolventInv
<1>3. ASSUME NEW amount \in 0 .. MaxBalance, unstake(s, amount) PROVE SolventInv'
  <2> DEFINE r == [stakers[s] EXCEPT !.amountStaked = @ - amount]
  <2>1. /\ stakers' = [stakers EXCEPT ![s] = r] /\ balance' = balance - amount
        /\ isStaked(s) /\ amount <= stakers[s].amountStaked - baseStakeAmount
    BY <1>3, Zenon DEF unstake, mayTakeOut, excessStake
  <2>2. r.amountStaked = stakers[s].amountStaked - amount /\ r.isStaked = isStaked(s)
    BY Amounts DEF SolventInv, Staker, isStaked
  <2>3. amount \in Nat
    BY RollupConstants
  <2> HIDE DEF r
  <2>4. /\ r.amountStaked = stakers[s].amountStaked + (- amount)
        /\ r.amountStaked >= baseStakeAmount
        /\ balance' = balance + (- amount)
        /\ - amount \in Int
    BY <1>2, <2>1, <2>2, <2>3
  <2> QED BY <2>1, <2>2, <2>4, OneRecord, SolventChange, Zenon
<1>4. CASE removeStake(s)
  <2> DEFINE d == - stakers[s].amountStaked
  <2>1. /\ stakers' = [stakers EXCEPT ![s] = NoStaker]
        /\ balance' = balance - stakers[s].amountStaked
    BY <1>4, Zenon DEF removeStake
  <2>2. NoStaker.amountStaked = 0 /\ ~NoStaker.isStaked
    BY Zenon DEF NoStaker
  <2>3. /\ NoStaker.amountStaked = stakers[s].amountStaked + d
        /\ balance' = balance + d
        /\ d \in Int
    BY <1>2, <2>1, <2>2
  <2> HIDE DEF d
  <2> QED BY <2>1, <2>2, <2>3, OneRecord, SolventChange, Zenon
<1> QED BY <1>1, <1>3, <1>4, Zenon

\* The other calls move stakers between assertions and pay nothing.
LEMMA SolventRest ==
    ASSUME SolventInv, CoreInv',
           \/ CreateAssertion \/ Reject \/ Whitelist \/ Environment \/ UNCHANGED vars
           \/ \E op \in Operators, id \in AssertionIDs : advanceStake(op, id)
    PROVE  SolventInv'
<1> DEFINE keeps == /\ balance' = balance
                    /\ \A s \in Stakers :
                           /\ stakers'[s].amountStaked = stakers[s].amountStaked
                           /\ stakers'[s].isStaked = stakers[s].isStaked
<1>0. SUFFICES keeps
  BY SolventMove, Zenon
<1>1. stakers \in [Stakers -> Staker]
  BY Amounts, Zenon DEF SolventInv
<1>2. ASSUME NEW c, NEW id, stakers' = [stakers EXCEPT ![c].assertionID = id],
             balance' = balance
      PROVE  keeps
  BY <1>1, <1>2 DEF Staker
<1>3. CASE CreateAssertion
  <2>1. PICK op \in Operators, h \in VMHashes, size \in 0 .. MaxInboxSize :
            createAssertion(op, h, size)
    BY <1>3, Zenon DEF CreateAssertion, createAssertionAlone, createAssertionWithStateBatch
  <2>2. /\ stakers' = [stakers EXCEPT ![registers[op]].assertionID = lastCreatedAssertionID + 1]
        /\ balance' = balance
    BY <2>1, Zenon DEF createAssertion
  <2> HIDE DEF keeps
  <2> QED BY <1>2, <2>2, Zenon
<1>4. CASE \E op \in Operators, id \in AssertionIDs : advanceStake(op, id)
  <2>1. PICK op \in Operators, id \in AssertionIDs : advanceStake(op, id)
    BY <1>4, Zenon
  <2>2. /\ stakers' = [stakers EXCEPT ![registers[op]].assertionID = id]
        /\ balance' = balance
    BY <2>1, Zenon DEF advanceStake
  <2> HIDE DEF keeps
  <2> QED BY <1>2, <2>2, Zenon
<1>5. CASE Reject
  <2>1. balance' = balance /\ stakers' = FallBack(lastCreatedAssertionID')
    BY <1>5, Zenon DEF Reject, rejectLatestCreatedAssertionWithBatch
  <2> QED BY <1>1, <2>1 DEF FallBack, Staker
<1>6. CASE Whitelist \/ Environment \/ UNCHANGED vars
  <2>1. balance' = balance /\ stakers' = stakers
    BY <1>6, Zenon DEF Whitelist, removeFromStakerWhitelist, addToStakerWhitelist,
       Environment, staking, vars
  <2> QED BY <2>1, Zenon
<1> HIDE DEF keeps
<1> QED BY <1>3, <1>4, <1>5, <1>6, Zenon

\* Whatever stakers, operators and the owner do: the contract holds exactly the
\* stakes, each at least the base stake while it stands, so the transfers of
\* unstake and removeStake never lack the tokens.  That an address without a
\* stake has the amount 0 is needed beside it: stake writes the new amount over
\* the old one.
THEOREM RollupSolvent == Spec => []Solvent
<1>1. Init => SolventInv
  <2> SUFFICES ASSUME Init PROVE SolventInv
    BY Zenon
  <2>1. \A s \in Stakers : stakers[s].amountStaked = 0 /\ ~stakers[s].isStaked
    BY Zenon DEF Init, NoStaker
  <2>2. balance = AllStaked(stakers)
    BY <2>1, SumOfNothing, Zenon DEF Init
  <2>3. 0 >= 0
    OBVIOUS
  <2> QED BY <2>1, <2>2, <2>3, CoreInit, Zenon DEF SolventInv, Solvent, isStaked
<1>2. SolventInv /\ [Next]_vars => SolventInv'
  <2> SUFFICES ASSUME SolventInv, [Next]_vars PROVE SolventInv'
    BY Zenon
  <2>1. CoreInv'
    BY CoreNext, Zenon DEF SolventInv
  <2> QED BY <2>1, SolventStake, SolventTakeOut, SolventRest, Zenon DEF Next
<1>3. SolventInv => Solvent
  BY Zenon DEF SolventInv
<1> QED BY <1>1, <1>2, <1>3, PTL DEF Spec

-----------------------------------------------------------------------------
(* Batches and assertions side by side.                                    *)

\* Steps other than a creation or a rejection keep the pairs.
LEMMA PairsSame ==
    ASSUME CoreInv, BatchPerAssertion,
           \/ Stake \/ TakeOut \/ Whitelist \/ Environment \/ UNCHANGED vars
           \/ \E op \in Operators, id \in AssertionIDs : advanceStake(op, id)
    PROVE  BatchPerAssertion'
<1> USE IDs
<1>1. UNCHANGED <<batches, lastCreatedAssertionID>>
  BY ZenonT(30) DEF Stake, stakeMore, stakeNew, TakeOut, unstake, removeStake, advanceStake, Whitelist,
     removeFromStakerWhitelist, addToStakerWhitelist, Environment, SCC!CtcGrows,
     SCC!MineBlock, SCC!sccVars, sccState, vars, ids
<1>2. MapType(assertions) /\ lastConfirmedAssertionID \in AssertionIDs
  BY Zenon DEF CoreInv, TypeOK, MapType
<1>3. \/ UNCHANGED assertions
      \/ \E i \in AssertionIDs : assertions' = AfterStake(assertions, i)
  BY <1>2, ZenonT(30) DEF Stake, stakeMore, stakeNew, TakeOut, unstake, removeStake, advanceStake,
     Whitelist, removeFromStakerWhitelist, addToStakerWhitelist, Environment, vars, mapVars
<1>4. \A id \in AssertionIDs : assertions'[id].proposalTime = assertions[id].proposalTime
  BY <1>2, <1>3, StakeKeepsShape, SMTT(30) DEF SameShape
<1>5. 1 .. Len(batches) \subseteq AssertionIDs
  BY RollupConstants, SMTT(30) DEF CoreInv, TypeOK, AssertionIDs, BatchesWithinAssertions, SCC!TypeOK
<1> QED BY <1>1, <1>4, <1>5, SMTT(30) DEF BatchPerAssertion

\* createAssertionWithStateBatch keeps batches and assertions paired.
LEMMA PairsCreate ==
    ASSUME PlainCreators = {}, CoreInv, BatchPerAssertion, CreateAssertion
    PROVE  BatchPerAssertion'
<1> USE IDs
<1>1. PICK op \in Operators, h \in VMHashes, size \in 0 .. MaxInboxSize,
           m \in 1 .. MaxBatchSize, start \in 0 .. MaxElements :
           createAssertionWithStateBatch(op, h, size, m, start)
  BY Zenon DEF CreateAssertion, createAssertionAlone
<1>2. size \in Nat /\ m \in Nat /\ start \in Nat
  BY RollupConstants
<1>3. createAssertion(op, h, size) /\ appendBatch(m, start)
  BY <1>1, Zenon DEF createAssertionWithStateBatch
<1> DEFINE n == lastCreatedAssertionID + 1
           b == SCC!NewHeader(RollupAddress, NoHash, m)
<1>4. /\ n \in AssertionIDs /\ lastCreatedAssertionID' = n
      /\ assertions'[n].proposalTime = now
      /\ \A id \in AssertionIDs \ {n} :
             assertions'[id].proposalTime = assertions[id].proposalTime
  BY <1>2, <1>3, CreateEffect, CoreCreate, ZenonT(30) DEF Created, SameShape, Shape
<1>5. batches' = Append(batches, b) /\ b.timestamp = now
  BY <1>3, Zenon DEF appendBatch, SCC!appendStateBatch, SCC!NewHeader
<1> HIDE DEF b
<1>6. batches \in Seq(SCC!Header) /\ Len(batches) \in Nat /\ Len(batches) = lastCreatedAssertionID
  BY ZenonT(30) DEF CoreInv, TypeOK, SCC!TypeOK, BatchPerAssertion
<1>7. /\ Len(batches') = n
      /\ batches'[n] = b
      /\ \A k \in 1 .. Len(batches) : batches'[k] = batches[k]
  <2>1. /\ Len(batches') = Len(batches) + 1
        /\ batches'[Len(batches) + 1] = b
        /\ \A k \in 1 .. Len(batches) : batches'[k] = batches[k]
    BY <1>5, <1>6, SMTT(30)
  <2> QED BY <1>6, <2>1, Zenon
<1>8. \A k \in 1 .. n : batches'[k].timestamp = assertions'[k].proposalTime
  <2> SUFFICES ASSUME NEW k \in 1 .. n
               PROVE  batches'[k].timestamp = assertions'[k].proposalTime
    BY Zenon
  <2>1. CASE k = n
    BY <1>4, <1>5, <1>7, <2>1, Zenon
  <2>2. CASE k # n
    <3>1. k \in 1 .. Len(batches) /\ k \in AssertionIDs \ {n}
      BY <1>4, <1>6, <2>2, RollupConstants DEF AssertionIDs
    <3> QED BY <1>4, <1>7, <3>1, Zenon DEF BatchPerAssertion
  <2> QED BY <2>1, <2>2, Zenon
<1> QED BY <1>4, <1>7, <1>8, Zenon DEF BatchPerAssertion

\* rejectLatestCreatedAssertionWithBatch keeps batches and assertions paired.
LEMMA PairsReject ==
    ASSUME CoreInv, BatchPerAssertion, Reject
    PROVE  BatchPerAssertion'
<1> USE IDs
<1>1. PICK i \in 1 .. Len(batches) : rejectLatestCreatedAssertionWithBatch(batches[i])
  BY SMTT(30) DEF Reject
<1> DEFINE last == lastCreatedAssertionID
<1>2. lastCreatedAssertionID' = last - 1 /\ last \in Nat /\ last \in AssertionIDs
  BY <1>1, SMTT(30) DEF rejectLatestCreatedAssertionWithBatch, CoreInv, TypeOK
<1>3. \A id \in AssertionIDs \ {last} :
          assertions'[id].proposalTime = assertions[id].proposalTime
  BY <1>1, <1>2, DeleteShape, Zenon DEF rejectLatestCreatedAssertionWithBatch, CoreInv, TypeOK,
     MapType, SameShape
<1>4. Len(batches) = last /\ Len(batches') = last - 1
      /\ \A k \in 1 .. last - 1 : batches'[k] = batches[k]
  BY <1>1, RejectRemovesOne, SMTT(30) DEF BatchPerAssertion
<1>5. \A k \in 1 .. last - 1 : k \in AssertionIDs \ {last} /\ k \in 1 .. Len(batches)
  BY <1>2, <1>4, RollupConstants DEF AssertionIDs
<1> QED BY <1>2, <1>3, <1>4, <1>5, Zenon DEF BatchPerAssertion

\* As long as every operator submits assertions together with batches, the i-th
\* batch is the i-th assertion's, also after rejections and whatever happens to
\* the whitelist.
THEOREM RollupLockstep ==
    ASSUME PlainCreators = {}
    PROVE  Spec => []BatchPerAssertion
<1>1. Init => CoreInv /\ BatchPerAssertion
  <2>1. Init => BatchPerAssertion
    <3>1. Init => batches = << >> /\ lastCreatedAssertionID = 0
      BY Zenon DEF Init, SCC!Init
    <3> QED BY <3>1 DEF BatchPerAssertion
  <2> QED BY <2>1, CoreInit, Zenon
<1>2. CoreInv /\ BatchPerAssertion /\ [Next]_vars => (CoreInv /\ BatchPerAssertion)'
  <2> SUFFICES ASSUME CoreInv, BatchPerAssertion, [Next]_vars
               PROVE  CoreInv' /\ BatchPerAssertion'
    BY Zenon
  <2>1. BatchPerAssertion'
    BY PairsSame, PairsCreate, PairsReject, Zenon DEF Next
  <2> QED BY <2>1, CoreNext, Zenon
<1> QED BY <1>1, <1>2, PTL DEF Spec
=============================================================================
