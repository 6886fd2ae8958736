---------------------------- MODULE CrossDomain ----------------------------
(***************************************************************************)
(* The two cross domain messengers with the standard bridges on top of     *)
(* them: L1CrossDomainMessenger.sol and L1StandardBridge.sol on L1,        *)
(* L2CrossDomainMessenger.sol, BVM_L2ToL1MessagePasser.sol and             *)
(* L2StandardBridge.sol on L2.  They meet in the queue of the              *)
(* CanonicalTransactionChain, by which L1 calls L2, and in the state roots *)
(* of the StateCommitmentChain, by which L1 learns what L2 sent.           *)
(*                                                                         *)
(* A message is its calldata; the maps by hash are sets of messages.       *)
(* Every transfer is of one unit.  An action is a call that does not       *)
(* revert; a relay whose inner call fails changes nothing but the record   *)
(* of attempts, which nothing reads, and is left to stuttering on L1.      *)
(***************************************************************************)
EXTENDS Integers, Sequences, FiniteSets, TLC

CONSTANTS
    Senders, BVM_Proposer, BVM_FraudVerifier,   \* of the StateCommitmentChain
    Windows, SEQUENCER_PUBLISH_WINDOW, MaxBatchSize, MaxElements, MaxTime,
    MaxMessages,        \* bound on the messages sent by users on either side
    MaxExtras           \* bound on messages sent to L2 again, wrong state roots and
                        \* calls of the owner of the L1 messenger, together

ASSUME CrossDomainConstants ==
    /\ BVM_Proposer \in Senders /\ BVM_FraudVerifier \in Senders
    /\ Windows \subseteq Nat
    /\ SEQUENCER_PUBLISH_WINDOW \in Nat
    /\ MaxElements \in Nat
    /\ MaxBatchSize \in Nat \ {0}
    /\ MaxTime \in Nat \ {0}

VARIABLES
    batches, totalElements, lastSequencerTimestamp, FRAUD_PROOF_WINDOW, ctcTotal, now,
    queue,              \* the messages in the CTC's queue
    received1,          \* successfulMessages on L1
    blocked, paused,    \* blockedMessages
    locked,             \* what the L1 bridge holds, by L1 token
    deposits,           \* by pair of tokens
    executed,           \* queue elements L2 has executed
    states,             \* L2: sentMessages of the message passer, after each transaction
    messageNonce,       \* of the L2 messenger
    received2,          \* successfulMessages on L2
    supply,             \* of the L2 tokens
    messages, extras    \* so far

scc == <<batches, totalElements, lastSequencerTimestamp, FRAUD_PROOF_WINDOW>>
onL1 == <<queue, received1, blocked, paused, locked, deposits>>
onL2 == <<executed, states, messageNonce, received2, supply, ctcTotal>>
counters == <<messages, extras>>
vars == <<scc, now, onL1, onL2, counters>>

-----------------------------------------------------------------------------
\* The tokens: the two predeployed ones, one made for its L1 token, and one
\* that is no bridge token.

Pairs == {<<"ETH", "BVM_ETH">>, <<"MNT", "BVM_MANTLE">>, <<"T", "T2">>, <<"T", "Other">>}
L1Tokens == {p[1] : p \in Pairs}
L2Tokens == {"BVM_ETH", "BVM_MANTLE", "T2"}
l1Token(t) == CHOOSE l \in L1Tokens : <<l, t>> \in Pairs

\* External: supportsInterface and l1Token of the L2 token.
matches(p) == p[2] \in L2Tokens /\ l1Token(p[2]) = p[1]

\* A message to the other bridge about one unit of a pair.  Its sender is
\* the bridge, or somebody who calls the messenger directly.
Message(sender, p, nonce) == [sender |-> sender, pair |-> p, nonce |-> nonce]

\* onlyFromCrossDomainAccount, in a call by the messenger.
fromBridge(m) == m.sender = "bridge"

sent == IF states = << >> THEN {} ELSE states[Len(states)]

\* The wrong roots a proposer might commit to hold a withdrawal nobody made.
Forged == {Message("bridge", <<"ETH", "BVM_ETH">>, MaxElements)}

Messages == [sender : {"bridge", "user"}, pair : Pairs, nonce : Nat]

\* What may be passed to relayMessage.
AnyMessage == sent \cup Forged \cup {queue[i] : i \in DOMAIN queue}

SCC == INSTANCE StateCommitmentChain WITH Roots <- SUBSET Messages

Init ==
    /\ SCC!Init
    /\ queue = << >> /\ received1 = {} /\ blocked = {} /\ paused = FALSE
    /\ locked = [t \in L1Tokens |-> 0]
    /\ deposits = [p \in Pairs |-> 0]
    /\ executed = 0 /\ states = << >> /\ messageNonce = 0 /\ received2 = {}
    /\ supply = [t \in L2Tokens |-> 0]
    /\ messages = 0 /\ extras = 0

-----------------------------------------------------------------------------
\* L1.

\* sendMessage: the nonce is the length of the queue.
L1sendMessage(sender, p) == queue' = Append(queue, Message(sender, p, Len(queue)))

counted ==
    /\ messages < MaxMessages
    /\ messages' = messages + 1
    /\ UNCHANGED extras

extra ==
    /\ extras < MaxExtras
    /\ extras' = extras + 1
    /\ UNCHANGED messages

\* depositETH, depositERC20 and their variants: MNT goes with its own L2
\* token, any other token with whatever the caller names.
deposit(p) ==
    /\ counted
    /\ L1sendMessage("bridge", p)
    /\ locked' = [locked EXCEPT ![p[1]] = @ + 1]
    /\ deposits' = IF p[1] = "ETH" THEN deposits ELSE [deposits EXCEPT ![p] = @ + 1]
    /\ UNCHANGED <<scc, now, received1, blocked, paused, onL2>>

userSendsOnL1(p) ==
    /\ counted
    /\ L1sendMessage("user", p)
    /\ UNCHANGED <<scc, now, received1, blocked, paused, locked, deposits, onL2>>

\* replayMessage: the message at a queue index that is its own nonce.
replayMessage ==
    /\ extra
    /\ \E i \in DOMAIN queue :
         /\ queue[i].nonce = i - 1
         /\ queue' = Append(queue, queue[i])
    /\ UNCHANGED <<scc, now, received1, blocked, paused, locked, deposits, onL2>>

\* finalizeETHWithdrawal.
payETH ==
    /\ locked["ETH"] > 0
    /\ locked' = [locked EXCEPT !["ETH"] = @ - 1]
    /\ UNCHANGED deposits

\* finalizeERC20Withdrawal, for MNT through finalizeMantleWithdrawal.
payERC20(p) ==
    /\ deposits[p] > 0 /\ locked[p[1]] > 0
    /\ deposits' = [deposits EXCEPT ![p] = @ - 1]
    /\ locked' = [locked EXCEPT ![p[1]] = @ - 1]

committed(i) ==
    /\ SCC!isValidBatchHeader(batches[i])
    /\ ~SCC!insideFraudProofWindow(batches[i])

\* _verifyXDomainMessage: the message is in a state root that is committed
\* and outside the fraud proof window.
provable(m) ==
    \E i \in DOMAIN batches : committed(i) /\ m \in batches[i].batchRoot

\* relayMessage on L1, with an inner call that succeeds.
L1relayMessage(m) ==
    /\ ~paused
    /\ provable(m)
    /\ m \notin received1
    /\ m \notin blocked
    /\ fromBridge(m)
    /\ IF m.pair[1] = "ETH" THEN payETH ELSE payERC20(m.pair)
    /\ received1' = received1 \cup {m}
    /\ UNCHANGED <<scc, now, queue, blocked, paused, onL2, counters>>

ownerCall ==
    /\ extra
    /\ \/ paused' = ~paused /\ UNCHANGED blocked
       \/ \E m \in sent : blocked' = blocked \cup {m} /\ UNCHANGED paused
       \/ \E m \in blocked : blocked' = blocked \ {m} /\ UNCHANGED paused
    /\ UNCHANGED <<scc, now, queue, received1, locked, deposits, onL2>>

-----------------------------------------------------------------------------
\* L2.  Each action is a transaction, with a state root of its own.

\* sendMessage and passMessageToL1.
L2sendMessage(sender, p) ==
    /\ states' = Append(states, sent \cup {Message(sender, p, messageNonce)})
    /\ messageNonce' = messageNonce + 1

nothingSent == states' = Append(states, sent) /\ UNCHANGED messageNonce

room == ctcTotal < MaxElements /\ ctcTotal' = ctcTotal + 1

\* withdraw and withdrawTo burn the token of a holder.
withdraw(t) ==
    /\ room /\ counted
    /\ supply[t] > 0
    /\ supply' = [supply EXCEPT ![t] = @ - 1]
    /\ L2sendMessage("bridge", <<l1Token(t), t>>)
    /\ UNCHANGED <<scc, now, onL1, executed, received2>>

userSendsOnL2(p) ==
    /\ room /\ counted
    /\ L2sendMessage("user", p)
    /\ UNCHANGED <<scc, now, onL1, executed, received2, supply>>

\* finalizeDeposit mints, or sends the deposit back.
finalizeDeposit(p) ==
    \/ /\ matches(p)
       /\ supply' = [supply EXCEPT ![p[2]] = @ + 1]
       /\ nothingSent
    \/ /\ ~matches(p)
       /\ L2sendMessage("bridge", p)
       /\ UNCHANGED supply

\* Slip: no look at what was received.
fresh2_Any(m) == TRUE

fresh2(m) == m \notin received2

\* The next queue element is executed.  relayMessage reverts for a message
\* that was received, and goes on when the inner call fails: when the message
\* is not the bridge's or runs out of gas.
L2relayMessage ==
    /\ room
    /\ executed < Len(queue)
    /\ executed' = executed + 1
    /\ LET m == queue[executed + 1]
       IN  \/ /\ fresh2(m) /\ fromBridge(m)
              /\ finalizeDeposit(m.pair)
              /\ received2' = received2 \cup {m}
           \/ nothingSent /\ UNCHANGED <<supply, received2>>
    /\ UNCHANGED <<scc, now, onL1, counters>>

-----------------------------------------------------------------------------
\* The StateCommitmentChain: the proposer commits the state after the next
\* transaction, or a wrong one.

append(root) ==
    /\ SCC!appendStateBatch(BVM_Proposer, root, 1, totalElements)
    /\ UNCHANGED <<now, onL1, onL2>>

proposes ==
    /\ totalElements < ctcTotal
    /\ append(states[totalElements + 1])
    /\ UNCHANGED counters

proposesWrong ==
    /\ totalElements < ctcTotal
    /\ extra
    /\ append(states[totalElements + 1] \cup Forged)

deletes ==
    /\ \E i \in DOMAIN batches : SCC!deleteStateBatch(BVM_FraudVerifier, batches[i])
    /\ UNCHANGED <<now, onL1, onL2, counters>>

mineBlock ==
    /\ SCC!MineBlock
    /\ UNCHANGED <<onL1, onL2, counters>>

Next ==
    \/ \E p \in Pairs : deposit(p) \/ userSendsOnL1(p) \/ userSendsOnL2(p)
    \/ \E t \in L2Tokens : withdraw(t)
    \/ \E m \in AnyMessage : L1relayMessage(m)
    \/ replayMessage \/ ownerCall \/ L2relayMessage
    \/ proposes \/ proposesWrong \/ deletes \/ mineBlock

Spec == Init /\ [][Next]_vars

-----------------------------------------------------------------------------
(* What L1 relayed stays proven: every message relayMessage let through is   *)
(* in a state root that is still committed and can no longer be deleted.     *)
RelayedStayCommitted ==
    \A m \in received1 :
        \E i \in DOMAIN batches : committed(i) /\ m \in batches[i].batchRoot

(* No committed state root that is final holds a message that L2 did not     *)
(* send: the duty of the verifiers.                                          *)
NoWrongRootFinal ==
    \A i \in DOMAIN batches :
        ~SCC!insideFraudProofWindow(batches[i]) => batches[i].batchRoot \subseteq sent

(* So relayMessage only lets through what L2 sent, as long as the wrong      *)
(* roots are deleted within the window.                                      *)
RelayedWereSent == NoWrongRootFinal => received1 \subseteq sent

(* The contract of the composition is the one whose properties are proved on *)
(* their own: every step is one of the StateCommitmentChain or leaves it.    *)
SccRefined == SCC!Spec

\* The deposits on their way to L2, the withdrawals on their way to L1.
toL2(p) == {m \in {queue[i] : i \in DOMAIN queue} : fromBridge(m) /\ m.pair = p} \ received2
toL1(p) == {m \in sent : fromBridge(m) /\ m.pair = p} \ received1

backed(p) ==
    (IF matches(p) THEN supply[p[2]] ELSE 0) + Cardinality(toL2(p)) + Cardinality(toL1(p))

(* The bridges neither lose nor make money: for each pair of tokens the L1   *)
(* bridge holds what exists on L2, what is on its way there and what is on   *)
(* its way back, in every order of deposits, replays, failed and repeated    *)
(* relays, bounced deposits, deleted batches and relays, as long as no wrong *)
(* root becomes final.                                                       *)
BridgeBacked ==
    NoWrongRootFinal =>
        /\ received1 \subseteq sent
        /\ locked["ETH"] = backed(<<"ETH", "BVM_ETH">>)
        /\ \A p \in Pairs : p[1] # "ETH" => deposits[p] = backed(p)
        /\ locked["MNT"] = deposits[<<"MNT", "BVM_MANTLE">>]
        /\ locked["T"] = deposits[<<"T", "T2">>] + deposits[<<"T", "Other">>]
=============================================================================
