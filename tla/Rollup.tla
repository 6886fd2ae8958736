------------------------------- MODULE Rollup -------------------------------
(***************************************************************************)
(* The L1 Rollup contract (packages/contracts/contracts/L1/fraud-proof/    *)
(* Rollup.sol): stakers and their operators, assertions about the L2       *)
(* state, and their confirmation and rejection.  It composes               *)
(*   - AssertionMap, the store of assertions, and                          *)
(*   - StateCommitmentChain, to which the Rollup contract appends, and     *)
(*     from which it deletes, a batch together with an assertion.          *)
(*                                                                         *)
(* An action is one transaction: a contract call runs alone and either     *)
(* does all of what it does or reverts.  block.number and block.timestamp  *)
(* both are the clock "now".  The contract relates the roots in a batch to  *)
(* neither the hash nor the inbox size of the assertion made with it, so   *)
(* all batches have the same root here.                                    *)
(*                                                                         *)
(* challengeAssertion, confirmFirstUnresolvedAssertion and                 *)
(* rejectFirstUnresolvedAssertion can never get past their first guards    *)
(* (DisputesClosed below), so what only they write (challenge contexts,    *)
(* currentChallenge, zombies, withdrawableFunds) is left out of the state, *)
(* and with it completeChallenge, withdraw and removeOldZombies, which do  *)
(* nothing without it.                                                     *)
(***************************************************************************)
EXTENDS AssertionMap, FiniteSets, FiniteSetsExt, Sequences

CONSTANTS
    Operators,              \* addresses that act for stakers
    NoAddr,                 \* address(0)
    BVM_Rolluper,           \* the operator that submits state batches
    PlainCreators,          \* operators that call createAssertion by itself
    Delistable,             \* stakers the owner may take off the whitelist
    InitialVMHash,          \* state hash of the genesis assertion
    RollupAddress,          \* the Rollup contract, as the SCC sees it
    FraudProofWindow,       \* FRAUD_PROOF_WINDOW of the SCC
    baseStakeAmount,
    minimumAssertionPeriod,
    MaxAssertions,          \* bound: largest assertion identifier
    MaxInboxSize,           \* bound: largest inbox size
    MaxBalance,             \* bound: tokens held by the contract
    MaxStakings,            \* bound: numStakers of an assertion
    MaxBatchSize,           \* bound: state roots in one batch
    MaxElements,            \* bound: transactions in the CTC
    MaxTime                 \* bound: last block

ASSUME RollupConstants ==
    /\ NoAddr \notin Stakers \cup Operators
    /\ BVM_Rolluper \in Operators
    /\ PlainCreators \subseteq Operators
    /\ Delistable \subseteq Stakers
    /\ IsFiniteSet(Stakers)
    /\ InitialVMHash \in VMHashes
    /\ FraudProofWindow \in Nat
    /\ baseStakeAmount \in Nat
    /\ minimumAssertionPeriod \in Nat
    /\ MaxAssertions \in Nat /\ MaxInboxSize \in Nat /\ MaxBalance \in Nat
    /\ MaxStakings \in Nat /\ MaxBatchSize \in Nat /\ MaxElements \in Nat
    /\ MaxTime \in Nat

VARIABLES
    assertions, assertionStates,        \* the AssertionMap
    lastResolvedAssertionID, lastConfirmedAssertionID, lastCreatedAssertionID,
    stakers,                            \* staker address -> Staker record
    registers,                          \* operator -> its staker
    numStakers,
    stakerslist,                        \* the staker whitelist, as a set
    balance,                            \* stake tokens the contract holds
    batches, totalElements, lastSequencerTimestamp, FRAUD_PROOF_WINDOW,
    ctcTotal, now                       \* the StateCommitmentChain

SCC == INSTANCE StateCommitmentChain
           WITH Senders <- {RollupAddress},
                BVM_Proposer <- RollupAddress,
                BVM_FraudVerifier <- RollupAddress,
                Roots <- {NoHash},
                Windows <- {FraudProofWindow},
                SEQUENCER_PUBLISH_WINDOW <- 0

ids == <<lastResolvedAssertionID, lastConfirmedAssertionID, lastCreatedAssertionID>>
staking == <<stakers, registers, numStakers, balance>>
mapVars == <<assertions, assertionStates>>
sccState == <<batches, totalElements, lastSequencerTimestamp, FRAUD_PROOF_WINDOW,
              ctcTotal, now>>
vars == <<mapVars, ids, staking, stakerslist, sccState>>

AssertionIDs == 0 .. MaxAssertions

Staker == [isStaked : BOOLEAN, amountStaked : Nat, assertionID : AssertionIDs,
           operator : Operators \cup {NoAddr}]

NoStaker == [isStaked |-> FALSE, amountStaked |-> 0, assertionID |-> 0,
             operator |-> NoAddr]

isStaked(s) == stakers[s].isStaked

\* operatorOnly
isOperator(op) == registers[op] # NoAddr

-----------------------------------------------------------------------------
\* initialize: the genesis assertion is its own parent.
Genesis == NewAssertion(InitialVMHash, 0, 0, now, now)

Init ==
    /\ SCC!Init
    /\ assertions = [id \in AssertionIDs |-> IF id = 0 THEN Genesis ELSE NoAssertion]
    /\ assertionStates =
           [id \in AssertionIDs |->
               [stakers |-> {},
                childStateHashes |-> IF id = 0 THEN {InitialVMHash} ELSE {}]]
    /\ lastResolvedAssertionID = 0
    /\ lastConfirmedAssertionID = 0
    /\ lastCreatedAssertionID = 0
    /\ stakers = [s \in Stakers |-> NoStaker]
    /\ registers = [op \in Operators |-> NoAddr]
    /\ numStakers = 0
    /\ stakerslist = Stakers
    /\ balance = 0

\* stake by a staker that has a stake: more of it, for the same operator.
stakeMore(s, stakeAmount, operator) ==
    /\ s \in stakerslist
    /\ isStaked(s)
    /\ stakers[s].operator = operator
    /\ balance + stakeAmount <= MaxBalance
    /\ stakers' = [stakers EXCEPT ![s].amountStaked = @ + stakeAmount]
    /\ balance' = balance + stakeAmount
    /\ UNCHANGED <<mapVars, ids, registers, numStakers, stakerslist, sccState>>

\* Slip: an operator may be taken twice.
isFree_Always(operator) == TRUE

isFree(operator) == registers[operator] = NoAddr

\* stake by an address that has none: it joins at the last confirmed assertion.
stakeNew(s, stakeAmount, operator) ==
    /\ s \in stakerslist
    /\ ~isStaked(s)
    /\ isFree(operator)
    /\ stakeAmount >= baseStakeAmount
    /\ balance + stakeAmount <= MaxBalance
    /\ assertions[lastConfirmedAssertionID].numStakers < MaxStakings
    /\ stakers' = [stakers EXCEPT ![s] =
                      [isStaked |-> TRUE, amountStaked |-> stakeAmount,
                       assertionID |-> lastConfirmedAssertionID,
                       operator |-> operator]]
    /\ registers' = [registers EXCEPT ![operator] = s]
    /\ numStakers' = numStakers + 1
    /\ balance' = balance + stakeAmount
    /\ assertions' = AfterStake(assertions, lastConfirmedAssertionID)
    /\ assertionStates' = StatesAfterStake(assertionStates, lastConfirmedAssertionID, s)
    /\ UNCHANGED <<ids, stakerslist, sccState>>

mayTakeOut(s) ==
    /\ isStaked(s)
    /\ stakers[s].assertionID <= lastConfirmedAssertionID

\* Slip: the base stake may go too.
excessStake_All(s) == stakers[s].amountStaked

excessStake(s) == stakers[s].amountStaked - baseStakeAmount

unstake(s, stakeAmount) ==
    /\ mayTakeOut(s)
    /\ stakeAmount <= excessStake(s)
    /\ stakers' = [stakers EXCEPT ![s].amountStaked = @ - stakeAmount]
    /\ balance' = balance - stakeAmount
    /\ UNCHANGED <<mapVars, ids, registers, numStakers, stakerslist, sccState>>

\* removeStake, by the owner, with deleteStaker.
removeStake(s) ==
    /\ mayTakeOut(s)
    /\ numStakers' = numStakers - 1
    /\ stakers' = [stakers EXCEPT ![s] = NoStaker]
    /\ registers' = [registers EXCEPT ![stakers[s].operator] = NoAddr]
    /\ balance' = balance - stakers[s].amountStaked
    /\ UNCHANGED <<mapVars, ids, stakerslist, sccState>>

advanceStake(op, assertionID) ==
    /\ isOperator(op)
    /\ LET s == registers[op] IN
       /\ assertionID > stakers[s].assertionID
       /\ assertionID <= lastCreatedAssertionID
       /\ stakers[s].assertionID = assertions[assertionID].parent
       /\ assertions[assertionID].numStakers < MaxStakings
       /\ stakers' = [stakers EXCEPT ![s].assertionID = assertionID]
       /\ assertions' = AfterStake(assertions, assertionID)
       /\ assertionStates' = StatesAfterStake(assertionStates, assertionID, s)
    /\ UNCHANGED <<ids, registers, numStakers, balance, stakerslist, sccState>>

\* Slip: an assertion need not add a transaction.
advancesInbox_Empty(parentID, inboxSize) == inboxSize >= assertions[parentID].inboxSize

advancesInbox(parentID, inboxSize) == inboxSize > assertions[parentID].inboxSize

\* Slip: the confirmation is left to confirmFirstUnresolvedAssertion.
confirmInstantly_Later == UNCHANGED <<lastResolvedAssertionID, lastConfirmedAssertionID>>

confirmInstantly ==
    /\ lastResolvedAssertionID' = lastResolvedAssertionID + 1
    /\ lastConfirmedAssertionID' = lastResolvedAssertionID + 1

\* The body of createAssertion: the new assertion is a child of the one its
\* operator's staker stands on, the staker moves to it, and it is confirmed in
\* the same transaction.
createAssertion(op, vmHash, inboxSize) ==
    /\ isOperator(op)
    /\ lastCreatedAssertionID < MaxAssertions
    /\ LET s == registers[op]
           parentID == stakers[s].assertionID
           newID == lastCreatedAssertionID + 1
       IN  /\ now - assertions[parentID].proposalTime >= minimumAssertionPeriod
           /\ advancesInbox(parentID, inboxSize)
           /\ MayCreateAssertion(assertions, assertionStates, vmHash, inboxSize, parentID)
           /\ assertions' = AfterStake(AfterCreate(assertions, newID, vmHash, inboxSize,
                                           parentID, now + FRAUD_PROOF_WINDOW, now),
                                       newID)
           /\ assertionStates' =
                  StatesAfterStake(StatesAfterCreate(assertionStates, vmHash, parentID),
                                   newID, s)
           /\ stakers' = [stakers EXCEPT ![s].assertionID = newID]
           /\ lastCreatedAssertionID' = newID
    /\ confirmInstantly
    /\ UNCHANGED <<registers, numStakers, balance, stakerslist>>

\* createAssertion called by itself, as the fraud-proof validator does.
createAssertionAlone(op, vmHash, inboxSize) ==
    /\ op \in PlainCreators
    /\ createAssertion(op, vmHash, inboxSize)
    /\ UNCHANGED sccState

\* Slip: the failure of the call to the SCC is ignored.
appendBatch_Unchecked(size, start) ==
    \/ SCC!appendStateBatch(RollupAddress, NoHash, size, start)
    \/ UNCHANGED <<batches, totalElements, lastSequencerTimestamp, FRAUD_PROOF_WINDOW>>

\* The call of the SCC, required to succeed.
appendBatch(size, start) == SCC!appendStateBatch(RollupAddress, NoHash, size, start)

\* createAssertionWithStateBatch: the SCC sees the Rollup contract as sender.
createAssertionWithStateBatch(op, vmHash, inboxSize, size, shouldStartAtElement) ==
    /\ op = BVM_Rolluper
    /\ createAssertion(op, vmHash, inboxSize)
    /\ appendBatch(size, shouldStartAtElement)
    /\ UNCHANGED <<ctcTotal, now>>

deleteBatch(h) == SCC!deleteStateBatch(RollupAddress, h)

\* Slip: the stakers stay on the rejected assertion.
FallBack_None(lastID) == stakers

\* The loop over the whitelist that takes stakers back to lastID.
FallBack(lastID) ==
    [s \in Stakers |->
        IF s \in stakerslist /\ stakers[s].assertionID > lastID
        THEN [stakers[s] EXCEPT !.assertionID = lastID]
        ELSE stakers[s]]

\* rejectLatestCreatedAssertionWithBatch, by the owner: the last batch and the
\* last assertion go, and whitelisted stakers above it fall back.
rejectLatestCreatedAssertionWithBatch(batchHeader) ==
    /\ SCC!getTotalBatches - batchHeader.batchIndex = 1
    /\ deleteBatch(batchHeader)
    /\ lastCreatedAssertionID >= lastResolvedAssertionID
    /\ assertions' = AfterDeleteForBatch(assertions, lastCreatedAssertionID)
    /\ assertionStates' =
           StatesAfterDeleteForBatch(assertions, assertionStates, lastCreatedAssertionID)
    /\ lastCreatedAssertionID' = lastCreatedAssertionID - 1
    /\ lastResolvedAssertionID' = lastResolvedAssertionID - 1
    /\ lastConfirmedAssertionID' = lastConfirmedAssertionID - 1
    /\ stakers' = FallBack(lastCreatedAssertionID')
    /\ UNCHANGED <<registers, numStakers, balance, stakerslist, ctcTotal, now>>

removeFromStakerWhitelist(s) ==
    /\ s \in Delistable \cap stakerslist
    /\ stakerslist' = stakerslist \ {s}
    /\ UNCHANGED <<mapVars, ids, staking, sccState>>

addToStakerWhitelist(s) ==
    /\ s \notin stakerslist
    /\ stakerslist' = stakerslist \cup {s}
    /\ UNCHANGED <<mapVars, ids, staking, sccState>>

\* The rest of L1: transactions enter the CTC and blocks are mined.
Environment ==
    /\ SCC!CtcGrows \/ SCC!MineBlock
    /\ UNCHANGED <<mapVars, ids, staking, stakerslist>>

Stake ==
    \E s \in Stakers, amount \in 0 .. MaxBalance, op \in Operators :
        stakeMore(s, amount, op) \/ stakeNew(s, amount, op)

TakeOut ==
    \E s \in Stakers : \/ \E amount \in 0 .. MaxBalance : unstake(s, amount)
                       \/ removeStake(s)

CreateAssertion ==
    \E op \in Operators, vmHash \in VMHashes, inboxSize \in 0 .. MaxInboxSize :
        \/ createAssertionAlone(op, vmHash, inboxSize)
        \/ \E size \in 1 .. MaxBatchSize, start \in 0 .. MaxElements :
               createAssertionWithStateBatch(op, vmHash, inboxSize, size, start)

Reject ==
    \E i \in 1 .. Len(batches) : rejectLatestCreatedAssertionWithBatch(batches[i])

Whitelist ==
    \E s \in Stakers : removeFromStakerWhitelist(s) \/ addToStakerWhitelist(s)

Next ==
    \/ Stake \/ TakeOut \/ CreateAssertion \/ Reject \/ Whitelist
    \/ \E op \in Operators, id \in AssertionIDs : advanceStake(op, id)
    \/ Environment

Spec == Init /\ [][Next]_vars

-----------------------------------------------------------------------------
(* Every stake, register and assertion field keeps its Solidity type: no    *)
(* subtraction of amounts or identifiers in Rollup.sol underflows.          *)
TypeOK ==
    /\ assertions \in [AssertionIDs -> Assertion(AssertionIDs)]
    /\ assertionStates \in [AssertionIDs -> AssertionState]
    /\ lastResolvedAssertionID \in AssertionIDs
    /\ lastConfirmedAssertionID \in AssertionIDs
    /\ lastCreatedAssertionID \in AssertionIDs
    /\ stakers \in [Stakers -> Staker]
    /\ registers \in [Operators -> Stakers \cup {NoAddr}]
    /\ numStakers \in Nat
    /\ stakerslist \subseteq Stakers
    /\ balance \in Int        \* never negative: Solvent
    /\ SCC!TypeOK

\* createAssertion confirms what it creates and rejectLatest... takes all three
\* counters back, so they never part and no assertion is ever unresolved.
InstantlyResolved ==
    /\ lastResolvedAssertionID = lastCreatedAssertionID
    /\ lastConfirmedAssertionID = lastCreatedAssertionID

\* The first guards of challengeAssertion, confirmFirstUnresolvedAssertion and
\* rejectFirstUnresolvedAssertion.
mayChallenge(defenderID, challengerID) ==
    /\ defenderID < challengerID
    /\ challengerID <= lastCreatedAssertionID
    /\ lastConfirmedAssertionID < defenderID

mayResolveFirstUnresolved == lastResolvedAssertionID < lastCreatedAssertionID

\* No dispute is ever open: these three calls always revert.
DisputesClosed ==
    /\ ~mayResolveFirstUnresolved
    /\ \A d, c \in AssertionIDs : ~mayChallenge(d, c)

Staked == {s \in Stakers : isStaked(s)}

\* registers and stakers are inverse to each other and numStakers counts the
\* staked addresses: stake and deleteStaker touch all three.
RegistersMatchStakers ==
    /\ \A s \in Stakers : isStaked(s) =>
           /\ stakers[s].operator \in Operators
           /\ registers[stakers[s].operator] = s
    /\ \A op \in Operators : registers[op] # NoAddr =>
           /\ isStaked(registers[op])
           /\ stakers[registers[op]].operator = op
    /\ numStakers = Cardinality(Staked)

\* What the records of the stakers st add up to.
AllStaked(st) == MapThenSumSet(LAMBDA s : st[s].amountStaked, Stakers)

\* The contract holds exactly the stakes, each at least the base stake: what
\* unstake and removeStake pay out is always there.
Solvent ==
    /\ balance = AllStaked(stakers)
    /\ \A s \in Stakers : stakers[s].amountStaked >=
                              IF isStaked(s) THEN baseStakeAmount ELSE 0

\* Every batch came with an assertion: rejectLatest... always finds an assertion
\* above the genesis to delete, whatever operators create in between, and its
\* counters never go below zero.
BatchesWithinAssertions == Len(batches) <= lastCreatedAssertionID

\* rejectLatest... takes every staker above the new last assertion back to it,
\* so no stake stands on a deleted assertion, where neither unstake nor
\* removeStake would return it.  This needs the whitelist to be stable: the loop
\* visits whitelisted stakers only.
StakesOnLiveAssertions ==
    \A s \in Stakers : stakers[s].assertionID <= lastCreatedAssertionID

\* Assertions form a tree rooted in the genesis in which every child came later
\* than, and goes beyond, its parent, although identifiers are used again after
\* a rejection and stakers stand on different branches.
AssertionsFormTree ==
    \A id \in 1 .. lastCreatedAssertionID :
        LET p == assertions[id].parent IN
        /\ p < id
        /\ assertions[id].inboxSize > assertions[p].inboxSize
        /\ assertions[id].proposalTime >= assertions[p].proposalTime

Children(id) == {c \in 0 .. lastCreatedAssertionID : assertions[c].parent = id}

\* assertionStates outlives the deletion of its assertion, yet the recorded
\* child hashes are always those of the children that exist, so a new assertion
\* under a used identifier starts with none; and siblings differ in their hash.
ChildHashesExact ==
    \A id \in AssertionIDs :
        /\ assertionStates[id].childStateHashes =
               {assertions[c].stateHash : c \in Children(id)}
        /\ \A c, d \in Children(id) :
               assertions[c].stateHash = assertions[d].stateHash => c = d

\* When every assertion is created with a state batch, the i-th batch is the
\* one of the i-th assertion, made in the same block.  Rejections take both back
\* together.
BatchPerAssertion ==
    /\ Len(batches) = lastCreatedAssertionID
    /\ \A i \in 1 .. Len(batches) : batches[i].timestamp = assertions[i].proposalTime
=============================================================================
