---------------------------- MODULE AssertionMap ----------------------------
(***************************************************************************)
(* The store of assertions that the Rollup contract owns                   *)
(* (packages/contracts/contracts/L1/fraud-proof/AssertionMap.sol).  Only   *)
(* the Rollup contract calls it, several times in one transaction, so its  *)
(* operations are functions from a value of the store to the next:         *)
(*   a    stands for the mapping "assertions",                             *)
(*   st   stands for the mapping "assertionStates".                        *)
(* A Solidity mapping is total: an identifier that was never written, or   *)
(* was deleted, holds the zero record.                                     *)
(***************************************************************************)
EXTENDS Integers

CONSTANTS
    Stakers,           \* addresses that stake
    VMHashes,          \* hashes of execution states
    NoHash             \* the zero hash

ASSUME NoHashIsNoVMHash == NoHash \notin VMHashes

Assertion(IDs) ==
    [stateHash : VMHashes \cup {NoHash}, inboxSize : Nat, parent : IDs,
     deadline : Nat, proposalTime : Nat, numStakers : Nat,
     childInboxSize : Nat]

AssertionState ==
    [stakers : SUBSET Stakers, childStateHashes : SUBSET VMHashes]

NoAssertion ==
    [stateHash |-> NoHash, inboxSize |-> 0, parent |-> 0, deadline |-> 0,
     proposalTime |-> 0, numStakers |-> 0, childInboxSize |-> 0]

NewAssertion(stateHash, inboxSize, parentID, deadline, blockNumber) ==
    [stateHash |-> stateHash, inboxSize |-> inboxSize, parent |-> parentID,
     deadline |-> deadline, proposalTime |-> blockNumber, numStakers |-> 0,
     childInboxSize |-> 0]

\* createAssertion does not revert.
MayCreateAssertion(a, st, stateHash, inboxSize, parentID) ==
    /\ a[parentID].childInboxSize \in {0, inboxSize}
    /\ stateHash \notin st[parentID].childStateHashes

\* createAssertion on "assertions": the parent is written first, then the
\* record of assertionID is overwritten.
AfterCreate(a, assertionID, stateHash, inboxSize, parentID, deadline, blockNumber) ==
    [a EXCEPT ![parentID].childInboxSize = inboxSize,
              ![assertionID] = NewAssertion(stateHash, inboxSize, parentID,
                                            deadline, blockNumber)]

\* createAssertion on "assertionStates".
StatesAfterCreate(st, stateHash, parentID) ==
    [st EXCEPT ![parentID].childStateHashes = @ \cup {stateHash}]

AfterStake(a, assertionID) ==
    [a EXCEPT ![assertionID].numStakers = @ + 1]

StatesAfterStake(st, assertionID, staker) ==
    [st EXCEPT ![assertionID].stakers = @ \cup {staker}]

\* deleteAssertionForBatch: the record goes and the parent forgets its
\* children's inbox size and this child's hash; assertionStates[assertionID]
\* stays.
AfterDeleteForBatch(a, assertionID) ==
    [a EXCEPT ![assertionID] = NoAssertion,
              ![a[assertionID].parent].childInboxSize = 0]

\* Slip: the hash of the deleted child is not released.
StatesAfterDeleteForBatch_Keep(a, st, assertionID) == st

StatesAfterDeleteForBatch(a, st, assertionID) ==
    [st EXCEPT ![a[assertionID].parent].childStateHashes =
                   @ \ {a[assertionID].stateHash}]
=============================================================================
