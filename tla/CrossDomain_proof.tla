------------------------- MODULE CrossDomain_proof -------------------------
(***************************************************************************)
(* What L1 relays is committed for good, for every number of messages,     *)
(* state roots and windows; and the StateCommitmentChain within the        *)
(* composition behaves as its own specification says.                      *)
(***************************************************************************)
EXTENDS CrossDomain, FiniteSetTheorems, TLAPS

Header == [batchIndex : Nat, batchRoot : SUBSET Messages, batchSize : Nat,
           prevTotalElements : Nat, timestamp : Nat, sender : Senders]

\* The types.
TypeInv ==
    /\ batches \in Seq(Header)
    /\ totalElements \in Nat /\ lastSequencerTimestamp \in Nat
    /\ FRAUD_PROOF_WINDOW \in Nat
    /\ ctcTotal \in 0 .. MaxElements
    /\ now \in 1 .. MaxTime
    /\ queue \in Seq(Messages)
    /\ states \in Seq(SUBSET Messages)
    /\ Len(states) = ctcTotal
    /\ messageNonce \in Nat /\ executed \in Nat

\* Every batch holds the state after one transaction, in order, and none is
\* older than the one before it.
BatchInv ==
    /\ totalElements = Len(batches)
    /\ totalElements <= ctcTotal
    /\ \A i \in 1 .. Len(batches) :
         /\ batches[i].batchIndex = i - 1
         /\ batches[i].batchSize = 1
         /\ batches[i].prevTotalElements = i - 1
         /\ batches[i].timestamp \in 1 .. now
    /\ \A i, j \in 1 .. Len(batches) : i <= j => batches[i].timestamp <= batches[j].timestamp

IInv == TypeInv /\ BatchInv /\ RelayedStayCommitted

-----------------------------------------------------------------------------
(* The actions leave the contract alone, let time pass, append a batch or    *)
(* delete batches: what the invariants on the batches need of a step.        *)
Appends ==
    \E root \in SUBSET Messages :
        /\ SCC!appendStateBatch(BVM_Proposer, root, 1, totalElements)
        /\ UNCHANGED <<ctcTotal, now, received1, queue, states, messageNonce, executed>>

Deletes ==
    \E i \in DOMAIN batches :
        /\ SCC!deleteStateBatch(BVM_FraudVerifier, batches[i])
        /\ UNCHANGED <<ctcTotal, now, received1, queue, states, messageNonce, executed>>

Mines ==
    /\ now < MaxTime /\ now' = now + 1
    /\ UNCHANGED <<scc, ctcTotal, received1, queue, states, messageNonce, executed>>

Relays ==
    /\ \E m \in AnyMessage : provable(m) /\ received1' = received1 \cup {m}
    /\ UNCHANGED <<scc, ctcTotal, now, queue, states, messageNonce, executed>>

Enqueues ==
    /\ queue' \in Seq(Messages)
    /\ UNCHANGED <<scc, ctcTotal, now, received1, states, messageNonce, executed>>

Executes ==
    /\ ctcTotal < MaxElements /\ ctcTotal' = ctcTotal + 1
    /\ \E s \in SUBSET Messages : states' = Append(states, s)
    /\ messageNonce' \in Nat /\ executed' \in Nat
    /\ UNCHANGED <<scc, now, received1, queue>>

Idles == UNCHANGED <<scc, ctcTotal, now, received1, queue, states, messageNonce, executed>>

Kinds == Appends \/ Deletes \/ Mines \/ Relays \/ Enqueues \/ Executes \/ Idles

LEMMA MessageType ==
    ASSUME NEW s \in {"bridge", "user"}, NEW p \in Pairs, NEW n \in Nat
    PROVE  Message(s, p, n) \in Messages
BY Zenon DEF Message, Messages

LEMMA ForgedType == Forged \subseteq Messages
<1>1. <<"ETH", "BVM_ETH">> \in Pairs
  BY Zenon DEF Pairs
<1>2. QED
  BY <1>1, MessageType, CrossDomainConstants, Zenon DEF Forged

LEMMA SentType ==
    ASSUME TypeInv
    PROVE  sent \in SUBSET Messages
<1>1. CASE states = << >>
  BY <1>1, Zenon DEF sent
<1>2. CASE states # << >>
  BY <1>2 DEF sent, TypeInv
<1>3. QED
  BY <1>1, <1>2, Zenon

LEMMA WithdrawPair ==
    ASSUME NEW t \in L2Tokens
    PROVE  <<l1Token(t), t>> \in Pairs
<1>1. \E l \in L1Tokens : <<l, t>> \in Pairs
  BY Zenon DEF L2Tokens, L1Tokens, Pairs
<1>2. QED
  BY <1>1, Zenon DEF l1Token

(* Every L2 message has its type.                                            *)
LEMMA L2SendType ==
    ASSUME TypeInv, NEW s \in {"bridge", "user"}, NEW p \in Pairs, L2sendMessage(s, p)
    PROVE  /\ \E r \in SUBSET Messages : states' = Append(states, r)
           /\ messageNonce' \in Nat
<1>1. Message(s, p, messageNonce) \in Messages
  BY MessageType, Zenon DEF TypeInv
<1>2. sent \cup {Message(s, p, messageNonce)} \in SUBSET Messages
  BY <1>1, SentType, Zenon
<1>3. /\ states' = Append(states, sent \cup {Message(s, p, messageNonce)})
      /\ messageNonce' = messageNonce + 1
  BY Zenon DEF L2sendMessage
<1>4. messageNonce' \in Nat
  BY <1>3 DEF TypeInv
<1>5. QED
  BY <1>2, <1>3, <1>4, Zenon

LEMMA NothingSentType ==
    ASSUME TypeInv, nothingSent
    PROVE  /\ \E r \in SUBSET Messages : states' = Append(states, r)
           /\ messageNonce' \in Nat
BY SentType, Zenon DEF nothingSent, TypeInv

(* Each action is of one of the kinds.                                       *)
LEMMA StepKinds ==
    ASSUME TypeInv, BatchInv, [Next]_vars
    PROVE  Kinds
<1>1. ASSUME NEW p \in Pairs, deposit(p) \/ userSendsOnL1(p)
      PROVE  Enqueues
  <2>1. PICK s \in {"bridge", "user"} : L1sendMessage(s, p)
    BY <1>1, Zenon DEF deposit, userSendsOnL1
  <2>2. Message(s, p, Len(queue)) \in Messages
    BY MessageType DEF TypeInv
  <2>3. queue' \in Seq(Messages)
    BY <2>1, <2>2 DEF L1sendMessage, TypeInv
  <2>4. QED
    BY <1>1, <2>3, Zenon DEF Enqueues, deposit, userSendsOnL1, onL2
<1>2. ASSUME NEW p \in Pairs, userSendsOnL2(p)
      PROVE  Executes
  <2>1. L2sendMessage("user", p)
    BY <1>2, Zenon DEF userSendsOnL2
  <2>2. QED
    BY <1>2, <2>1, L2SendType, Zenon DEF Executes, userSendsOnL2, room, onL1, TypeInv
<1>3. ASSUME NEW t \in L2Tokens, withdraw(t)
      PROVE  Executes
  <2>1. L2sendMessage("bridge", <<l1Token(t), t>>)
    BY <1>3, Zenon DEF withdraw
  <2>2. QED
    BY <1>3, <2>1, L2SendType, WithdrawPair, Zenon DEF Executes, withdraw, room, onL1, TypeInv
<1>4. ASSUME NEW m \in AnyMessage, L1relayMessage(m)
      PROVE  Relays
  BY <1>4, Zenon DEF L1relayMessage, Relays, onL2
<1>5. CASE replayMessage
  <2>1. queue' \in Seq(Messages)
    BY <1>5 DEF replayMessage, TypeInv
  <2>2. QED
    BY <1>5, <2>1, Zenon DEF replayMessage, Enqueues, Kinds, onL2
<1>6. CASE ownerCall
  BY <1>6, Zenon DEF ownerCall, Idles, Kinds, onL2
<1>7. CASE L2relayMessage
  <2>1. queue[executed + 1].pair \in Pairs \/ nothingSent
    <3>1. executed + 1 \in 1 .. Len(queue)
      BY <1>7 DEF L2relayMessage, TypeInv
    <3>2. queue[executed + 1] \in Messages
      BY <3>1 DEF TypeInv
    <3>3. QED
      BY <3>2, Zenon DEF Messages
  <2>2. /\ \E r \in SUBSET Messages : states' = Append(states, r)
        /\ messageNonce' \in Nat
    BY <1>7, <2>1, L2SendType, NothingSentType, Zenon DEF L2relayMessage, finalizeDeposit
  <2>3. QED
    BY <1>7, <2>2 DEF L2relayMessage, room, Executes, Kinds, onL1, TypeInv
<1>8. CASE proposes \/ proposesWrong
  <2>1. states[totalElements + 1] \in SUBSET Messages
    BY <1>8 DEF proposes, proposesWrong, TypeInv, BatchInv
  <2>2. PICK root \in SUBSET Messages : append(root)
    BY <1>8, <2>1, ForgedType, Zenon DEF proposes, proposesWrong
  <2>3. QED
    BY <2>2, Zenon DEF append, Appends, Kinds, onL1, onL2
<1>9. CASE deletes
  BY <1>9, Zenon DEF deletes, Deletes, Kinds, onL1, onL2
<1>10. CASE mineBlock
  BY <1>10, Zenon DEF mineBlock, SCC!MineBlock, SCC!sccVars, Mines, Kinds, onL1, onL2, scc
<1>11. CASE UNCHANGED vars
  BY <1>11, Zenon DEF vars, onL1, onL2, Idles, Kinds
<1>12. QED
  BY <1>1, <1>2, <1>3, <1>4, <1>5, <1>6, <1>7, <1>8, <1>9, <1>10, <1>11, Zenon DEF Next, Kinds

-----------------------------------------------------------------------------
LEMMA InitInv == Init => IInv
<1>1. SUFFICES ASSUME Init PROVE IInv
  BY Zenon
<1>2. TypeInv
  BY <1>1, CrossDomainConstants DEF Init, SCC!Init, TypeInv
<1>3. BatchInv
  BY <1>1 DEF Init, SCC!Init, BatchInv
<1>4. RelayedStayCommitted
  BY <1>1, Zenon DEF Init, RelayedStayCommitted
<1>5. QED
  BY <1>2, <1>3, <1>4, Zenon DEF IInv

LEMMA Timestamps ==
    ASSUME TypeInv, BatchInv
    PROVE  /\ DOMAIN batches = 1 .. Len(batches)
           /\ \A i \in 1 .. Len(batches) : batches[i].timestamp \in Nat
<1>1. now \in Nat
  BY DEF TypeInv
<1>2. \A i \in 1 .. Len(batches) : batches[i].timestamp \in Nat
  BY <1>1 DEF BatchInv
<1>3. QED
  BY <1>2 DEF TypeInv

(* The header appendStateBatch adds.                                         *)
LEMMA AppendedHeader ==
    ASSUME TypeInv, BatchInv, NEW root \in SUBSET Messages,
           SCC!appendStateBatch(BVM_Proposer, root, 1, totalElements)
    PROVE  \E h \in Header :
             /\ batches' = Append(batches, h)
             /\ h.batchIndex = Len(batches) /\ h.batchSize = 1
             /\ h.prevTotalElements = Len(batches) /\ h.timestamp = now
             /\ h.batchRoot = root
<1> DEFINE h == [batchIndex |-> Len(batches), batchRoot |-> root, batchSize |-> 1,
                 prevTotalElements |-> totalElements, timestamp |-> now,
                 sender |-> BVM_Proposer]
<1>1. batches' = Append(batches, h)
  BY Zenon DEF SCC!appendStateBatch, SCC!NewHeader, SCC!getTotalBatches
<1>2. h \in Header
  BY CrossDomainConstants DEF Header, TypeInv
<1>3. QED
  BY <1>1, <1>2, Zenon DEF BatchInv

LEMMA AppendsInv ==
    ASSUME IInv, Appends
    PROVE  IInv'
<1> USE DEF IInv
<1>1. PICK root \in SUBSET Messages :
        /\ SCC!appendStateBatch(BVM_Proposer, root, 1, totalElements)
        /\ UNCHANGED <<ctcTotal, now, received1, queue, states, messageNonce, executed>>
  BY Zenon DEF Appends
<1>2. PICK h \in Header :
        /\ batches' = Append(batches, h)
        /\ h.batchIndex = Len(batches) /\ h.batchSize = 1
        /\ h.prevTotalElements = Len(batches) /\ h.timestamp = now
        /\ h.batchRoot = root
  BY <1>1, AppendedHeader, Zenon
<1>3. /\ totalElements' = totalElements + 1
      /\ totalElements + 1 <= ctcTotal
      /\ lastSequencerTimestamp' \in Nat
      /\ FRAUD_PROOF_WINDOW' = FRAUD_PROOF_WINDOW
  BY <1>1 DEF SCC!appendStateBatch, SCC!fitsCtc, TypeInv
<1>4. batches' \in Seq(Header)
  BY <1>2 DEF TypeInv
<1>5. TypeInv'
  BY <1>1, <1>3, <1>4 DEF TypeInv
<1>6. /\ Len(batches') = Len(batches) + 1
      /\ \A i \in 1 .. Len(batches) : batches'[i] = batches[i]
      /\ batches'[Len(batches) + 1] = h
  BY <1>2 DEF TypeInv
<1>7. BatchInv'
  <2>1. totalElements' = Len(batches') /\ totalElements' <= ctcTotal'
    BY <1>1, <1>3, <1>6, Zenon DEF BatchInv, TypeInv
  <2>2. ASSUME NEW i \in 1 .. Len(batches')
        PROVE  /\ batches'[i].batchIndex = i - 1
               /\ batches'[i].batchSize = 1
               /\ batches'[i].prevTotalElements = i - 1
               /\ batches'[i].timestamp \in 1 .. now'
    <3>1. CASE i \in 1 .. Len(batches)
      BY <1>1, <1>6, <3>1, Zenon DEF BatchInv
    <3>2. CASE i = Len(batches) + 1
      BY <1>1, <1>2, <1>6, <3>2 DEF TypeInv
    <3>3. QED
      BY <1>6, <3>1, <3>2 DEF TypeInv
  <2>3. ASSUME NEW i \in 1 .. Len(batches'), NEW j \in 1 .. Len(batches'), i <= j
        PROVE  batches'[i].timestamp <= batches'[j].timestamp
    <3>1. CASE j \in 1 .. Len(batches)
      <4>1. i \in 1 .. Len(batches)
        BY <2>3, <3>1 DEF TypeInv
      <4>2. QED
        BY <1>6, <2>3, <3>1, <4>1, Zenon DEF BatchInv
    <3>2. CASE j = Len(batches) + 1
      <4>1. batches'[j].timestamp = now'
        BY <1>1, <1>2, <1>6, <3>2, Zenon
      <4>2. QED
        BY <2>2, <4>1
    <3>3. QED
      BY <1>6, <3>1, <3>2 DEF TypeInv
  <2>4. QED
    BY <2>1, <2>2, <2>3, Zenon DEF BatchInv
<1>8. RelayedStayCommitted'
  <2>1. SUFFICES ASSUME NEW m \in received1
                 PROVE  \E i \in DOMAIN batches' : committed(i)' /\ m \in batches'[i].batchRoot
    BY <1>1, Zenon DEF RelayedStayCommitted
  <2>2. PICK i \in DOMAIN batches : committed(i) /\ m \in batches[i].batchRoot
    BY Zenon DEF RelayedStayCommitted
  <2>3. i \in 1 .. Len(batches) /\ i \in DOMAIN batches' /\ batches'[i] = batches[i]
    BY <1>4, <1>6 DEF TypeInv
  <2>4. committed(i)'
    BY <1>1, <1>3, <1>6, <2>2, <2>3
       DEF committed, SCC!isValidBatchHeader, SCC!getTotalBatches,
           SCC!insideFraudProofWindow, TypeInv, BatchInv
  <2>5. QED
    BY <2>2, <2>3, <2>4, Zenon
<1>9. QED
  BY <1>5, <1>7, <1>8, Zenon

(* deleteStateBatch keeps what is outside the window: the batch it names is  *)
(* inside, and the later ones are not older.                                 *)
LEMMA DeletesInv ==
    ASSUME IInv, Deletes
    PROVE  IInv'
<1> USE DEF IInv
<1>1. PICK k \in DOMAIN batches :
        /\ SCC!deleteStateBatch(BVM_FraudVerifier, batches[k])
        /\ UNCHANGED <<ctcTotal, now, received1, queue, states, messageNonce, executed>>
  BY Zenon DEF Deletes
<1>2. k \in 1 .. Len(batches) /\ batches[k].batchIndex = k - 1
      /\ batches[k].prevTotalElements = k - 1
  BY DEF TypeInv, BatchInv
<1>3. /\ batches' = SubSeq(batches, 1, k - 1)
      /\ totalElements' = k - 1
      /\ lastSequencerTimestamp' = 0
      /\ FRAUD_PROOF_WINDOW' = FRAUD_PROOF_WINDOW
      /\ batches[k].timestamp + FRAUD_PROOF_WINDOW > now
  BY <1>1, <1>2, Zenon DEF SCC!deleteStateBatch, SCC!totalBefore, SCC!mayDelete,
                    SCC!insideFraudProofWindow
<1>4. /\ batches' \in Seq(Header)
      /\ Len(batches') = k - 1
      /\ \A i \in 1 .. k - 1 : batches'[i] = batches[i]
  BY <1>2, <1>3 DEF TypeInv
<1>5. TypeInv'
  BY <1>1, <1>2, <1>3, <1>4 DEF TypeInv
<1>6. \A i \in 1 .. k - 1 : i \in 1 .. Len(batches)
  BY <1>2 DEF TypeInv
<1>7. BatchInv'
  <2>1. totalElements' = Len(batches') /\ totalElements' <= ctcTotal'
    BY <1>1, <1>2, <1>3, <1>4 DEF BatchInv, TypeInv
  <2>2. \A i \in 1 .. Len(batches') :
          /\ batches'[i].batchIndex = i - 1
          /\ batches'[i].batchSize = 1
          /\ batches'[i].prevTotalElements = i - 1
          /\ batches'[i].timestamp \in 1 .. now'
    BY <1>1, <1>4, <1>6, Zenon DEF BatchInv
  <2>3. \A i, j \in 1 .. Len(batches') :
          i <= j => batches'[i].timestamp <= batches'[j].timestamp
    BY <1>4, <1>6, Zenon DEF BatchInv
  <2>4. QED
    BY <2>1, <2>2, <2>3, Zenon DEF BatchInv
<1>8. RelayedStayCommitted'
  <2>1. SUFFICES ASSUME NEW m \in received1
                 PROVE  \E i \in DOMAIN batches' : committed(i)' /\ m \in batches'[i].batchRoot
    BY <1>1, Zenon DEF RelayedStayCommitted
  <2>2. PICK i \in DOMAIN batches : committed(i) /\ m \in batches[i].batchRoot
    BY Zenon DEF RelayedStayCommitted
  <2>3. i \in 1 .. Len(batches)
    BY DEF TypeInv
  <2>4. batches[i].timestamp + FRAUD_PROOF_WINDOW <= now
    <3>1. batches[i].timestamp \in Nat
      BY <2>3, Timestamps, Zenon
    <3>2. QED
      BY <2>2, <3>1 DEF committed, SCC!insideFraudProofWindow, TypeInv
  <2>5. i <= k - 1
    <3>1. /\ batches[i].timestamp \in Nat /\ batches[k].timestamp \in Nat
          /\ k <= i => batches[k].timestamp <= batches[i].timestamp
      BY <1>2, <2>3, Timestamps, Zenon DEF BatchInv
    <3>2. QED
      BY <1>2, <1>3, <2>3, <2>4, <3>1 DEF TypeInv
  <2>6. i \in DOMAIN batches' /\ batches'[i] = batches[i] /\ i \in 1 .. k - 1
    BY <1>4, <2>3, <2>5 DEF TypeInv
  <2>7. committed(i)'
    <3>1. batches[i].batchIndex = i - 1
      BY <2>3, Zenon DEF BatchInv
    <3>2. SCC!isValidBatchHeader(batches[i])'
      BY <1>4, <2>6, <3>1 DEF SCC!isValidBatchHeader, SCC!getTotalBatches
    <3>3. ~SCC!insideFraudProofWindow(batches[i])'
      BY <1>1, <1>3, <2>2, <2>6, Zenon DEF committed, SCC!insideFraudProofWindow
    <3>4. QED
      BY <3>2, <3>3, Zenon DEF committed
  <2>8. QED
    BY <2>2, <2>6, <2>7, Zenon
<1>9. QED
  BY <1>5, <1>7, <1>8, Zenon

(* Time only moves batches out of the window.                                *)
LEMMA MinesInv ==
    ASSUME IInv, Mines
    PROVE  IInv'
<1> USE DEF IInv
<1>1. /\ now' = now + 1 /\ now' \in 1 .. MaxTime
      /\ UNCHANGED <<batches, totalElements, lastSequencerTimestamp, FRAUD_PROOF_WINDOW,
                     ctcTotal, received1, queue, states, messageNonce, executed>>
  BY CrossDomainConstants DEF Mines, scc, TypeInv
<1>2. TypeInv'
  BY <1>1, Zenon DEF TypeInv
<1>3. BatchInv'
  <2>1. \A i \in 1 .. Len(batches) : batches[i].timestamp \in 1 .. now'
    BY <1>1 DEF BatchInv, TypeInv
  <2>2. QED
    BY <1>1, <2>1, Zenon DEF BatchInv
<1>4. RelayedStayCommitted'
  <2>1. \A i \in DOMAIN batches : batches[i].timestamp \in Nat
    BY Timestamps, Zenon
  <2>2. \A i \in DOMAIN batches : committed(i) => committed(i)'
    BY <1>1, <2>1 DEF committed, SCC!isValidBatchHeader, SCC!getTotalBatches,
                      SCC!insideFraudProofWindow, TypeInv
  <2>3. QED
    BY <1>1, <2>2, Zenon DEF RelayedStayCommitted
<1>5. QED
  BY <1>2, <1>3, <1>4, Zenon

(* The other steps leave the batches and the time alone.                     *)
LEMMA OthersInv ==
    ASSUME IInv, Relays \/ Enqueues \/ Executes \/ Idles
    PROVE  IInv'
<1> USE DEF IInv
<1>1. UNCHANGED <<batches, totalElements, lastSequencerTimestamp, FRAUD_PROOF_WINDOW, now>>
  BY Zenon DEF Relays, Enqueues, Executes, Idles, scc
<1>2. TypeInv'
  <2>1. CASE Executes
    BY <1>1, <2>1, CrossDomainConstants DEF Executes, TypeInv
  <2>2. CASE Relays \/ Enqueues \/ Idles
    BY <1>1, <2>2, Zenon DEF Relays, Enqueues, Idles, TypeInv
  <2>3. QED
    BY <2>1, <2>2, Zenon
<1>3. ctcTotal' \in Nat /\ ctcTotal <= ctcTotal'
  BY DEF Relays, Enqueues, Executes, Idles, TypeInv
<1>4. BatchInv'
  <2>1. totalElements' <= ctcTotal'
    BY <1>1, <1>3 DEF BatchInv, TypeInv
  <2>2. QED
    BY <1>1, <2>1, Zenon DEF BatchInv
<1>5. \A i \in DOMAIN batches : committed(i) => committed(i)'
  BY <1>1, Zenon DEF committed, SCC!isValidBatchHeader, SCC!getTotalBatches,
              SCC!insideFraudProofWindow
<1>6. \A m \in received1' : m \in received1 \/ provable(m)
  BY Zenon DEF Relays, Enqueues, Executes, Idles
<1>7. RelayedStayCommitted'
  BY <1>1, <1>5, <1>6, Zenon DEF RelayedStayCommitted, provable
<1>8. QED
  BY <1>2, <1>4, <1>7, Zenon

LEMMA StepInv ==
    ASSUME IInv, [Next]_vars
    PROVE  IInv'
<1>1. Kinds
  BY StepKinds, Zenon DEF IInv
<1>2. QED
  BY <1>1, AppendsInv, DeletesInv, MinesInv, OthersInv, Zenon DEF Kinds

(* Every message relayMessage lets through on L1 is in a state root that is  *)
(* committed and can never be deleted any more.                              *)
THEOREM RelaysCommitted == Spec => []RelayedStayCommitted
<1>1. Init => IInv
  BY InitInv, Zenon
<1>2. IInv /\ [Next]_vars => IInv'
  BY StepInv, Zenon
<1>3. IInv => RelayedStayCommitted
  BY Zenon DEF IInv
<1>4. QED
  BY <1>1, <1>2, <1>3, PTL DEF Spec

(* While no wrong state root becomes final, relayMessage only lets through   *)
(* what L2 sent.                                                             *)
THEOREM RelaysSent == Spec => []RelayedWereSent
<1>1. RelayedStayCommitted => RelayedWereSent
  BY Zenon DEF RelayedStayCommitted, RelayedWereSent, NoWrongRootFinal, committed
<1>2. QED
  BY <1>1, RelaysCommitted, PTL

(* The StateCommitmentChain of the composition implements its own            *)
(* specification, so that what is proved of it holds here.                   *)
THEOREM RefinesScc == Spec => SccRefined
<1>1. Init => SCC!Init
  BY Zenon DEF Init
<1>2. ASSUME IInv, [Next]_vars
      PROVE  [SCC!Next]_(SCC!vars)
  <2> USE DEF IInv
  <2>1. Kinds
    BY <1>2, StepKinds, Zenon
  <2>2. CASE Appends
    <3>1. PICK root \in SUBSET Messages :
            /\ SCC!appendStateBatch(BVM_Proposer, root, 1, totalElements)
            /\ UNCHANGED <<ctcTotal, now>>
      BY <2>2, Zenon DEF Appends
    <3>2. 1 \in 1 .. MaxBatchSize /\ totalElements \in 0 .. MaxElements
      BY <1>2, CrossDomainConstants DEF TypeInv, BatchInv
    <3>3. SCC!AppendStateBatch
      BY <3>1, <3>2, CrossDomainConstants, Zenon DEF SCC!AppendStateBatch
    <3>4. QED
      BY <3>3, Zenon DEF SCC!Next
  <2>3. CASE Deletes
    <3>1. PICK k \in DOMAIN batches :
            /\ SCC!deleteStateBatch(BVM_FraudVerifier, batches[k])
            /\ UNCHANGED <<ctcTotal, now>>
      BY <2>3, Zenon DEF Deletes
    <3>2. batches[k] \in SCC!AnyHeader
      <4>1. k \in 1 .. Len(batches) /\ batches[k] \in Header
        BY <1>2 DEF TypeInv
      <4>2. /\ batches[k].batchIndex \in 0 .. MaxElements
            /\ batches[k].batchSize \in 1 .. MaxBatchSize
            /\ batches[k].prevTotalElements \in 0 .. MaxElements
            /\ batches[k].timestamp \in 1 .. MaxTime
        BY <1>2, <4>1, CrossDomainConstants DEF TypeInv, BatchInv
      <4>3. QED
        BY <4>1, <4>2, Zenon DEF Header, SCC!AnyHeader
    <3>3. SCC!DeleteStateBatch
      BY <3>1, <3>2, CrossDomainConstants, Zenon DEF SCC!DeleteStateBatch
    <3>4. QED
      BY <3>3, Zenon DEF SCC!Next
  <2>4. CASE Mines
    BY <2>4, Zenon DEF Mines, scc, SCC!sccVars, SCC!MineBlock, SCC!Next
  <2>5. CASE Executes
    BY <2>5, Zenon DEF Executes, scc, SCC!sccVars, SCC!CtcGrows, SCC!Next
  <2>6. CASE Relays \/ Enqueues \/ Idles
    BY <2>6, Zenon DEF Relays, Enqueues, Idles, scc, SCC!sccVars, SCC!vars
  <2>7. QED
    BY <2>1, <2>2, <2>3, <2>4, <2>5, <2>6, Zenon DEF Kinds
<1>3. IInv /\ [Next]_vars => IInv'
  BY StepInv, Zenon
<1>4. QED
  BY <1>1, <1>2, <1>3, InitInv, PTL DEF Spec, SccRefined, SCC!Spec
-----------------------------------------------------------------------------
(* The money.                                                                *)

Queued == {queue[i] : i \in DOMAIN queue}

MoneyTypes ==
    /\ locked \in [L1Tokens -> Int] /\ deposits \in [Pairs -> Int]
    /\ supply \in [L2Tokens -> Int]

\* A message L1 sends is new, and what L2 received had been sent.
QueueInv ==
    /\ IsFiniteSet(Queued)
    /\ \A i \in DOMAIN queue : queue[i].nonce < i
    /\ received2 \subseteq Queued

\* A message L2 sends is new, and stays in the state.
SentInv ==
    /\ IsFiniteSet(sent)
    /\ \A m \in sent : m.nonce < messageNonce
    /\ messageNonce <= ctcTotal
    /\ \A i, j \in 1 .. Len(states) : i <= j => states[i] \subseteq states[j]

\* The roots hold nothing but what was sent and the forged messages.
RootsInv == \A i \in DOMAIN batches : batches[i].batchRoot \subseteq sent \cup Forged

LedgerInv == MoneyTypes /\ QueueInv /\ SentInv /\ RootsInv

\* What the L1 bridge holds for a pair of tokens.
held(p) == IF p[1] = "ETH" THEN locked["ETH"] ELSE deposits[p]

\* BridgeBacked without its premise.
Backed ==
    /\ received1 \subseteq sent
    /\ \A p \in Pairs : held(p) = backed(p)
    /\ locked["MNT"] = deposits[<<"MNT", "BVM_MANTLE">>]
    /\ locked["T"] = deposits[<<"T", "T2">>] + deposits[<<"T", "Other">>]

MoneyInv == LedgerInv /\ (NoWrongRootFinal => Backed)
MoneyIInv == IInv /\ MoneyInv

-----------------------------------------------------------------------------
(* Tokens and messages.                                                      *)

LEMMA PairFacts ==
    /\ \A p, q \in Pairs : p[1] = q[1] /\ p[2] = q[2] => p = q
    /\ \A p \in Pairs : p[1] \in L1Tokens
    /\ \A p \in Pairs : p[1] = "ETH" <=> p = <<"ETH", "BVM_ETH">>
    /\ \A p \in Pairs : p[1] = "MNT" <=> p = <<"MNT", "BVM_MANTLE">>
    /\ \A p \in Pairs : p[1] = "T" <=> p \in {<<"T", "T2">>, <<"T", "Other">>}
    /\ <<"T", "T2">> # <<"T", "Other">>
    /\ {"ETH", "MNT", "T"} \subseteq L1Tokens
    /\ {<<"ETH", "BVM_ETH">>, <<"MNT", "BVM_MANTLE">>, <<"T", "T2">>, <<"T", "Other">>} = Pairs
BY DEF Pairs, L1Tokens

LEMMA BackedIsBridgeBacked == BridgeBacked <=> (NoWrongRootFinal => Backed)
<1>1. (\A p \in Pairs : held(p) = backed(p))
        <=> /\ locked["ETH"] = backed(<<"ETH", "BVM_ETH">>)
            /\ \A p \in Pairs : p[1] # "ETH" => deposits[p] = backed(p)
  BY PairFacts, Zenon DEF held
<1>2. QED
  BY <1>1, Zenon DEF BridgeBacked, Backed

LEMMA MatchUnique ==
    ASSUME NEW p \in Pairs, NEW q \in Pairs, matches(p), matches(q), p[2] = q[2]
    PROVE  p = q
BY PairFacts, Zenon DEF matches

LEMMA SentUnchanged ==
    ASSUME UNCHANGED states
    PROVE  sent' = sent
BY Zenon DEF sent

LEMMA SentAppended ==
    ASSUME TypeInv, NEW s \in SUBSET Messages, states' = Append(states, s)
    PROVE  sent' = s
<1>1. Len(states') = Len(states) + 1 /\ states'[Len(states) + 1] = s /\ Len(states) \in Nat
  BY DEF TypeInv
<1>2. states' # << >>
  BY <1>1
<1>3. QED
  BY <1>1, <1>2, Zenon DEF sent

LEMMA MessageFields ==
    ASSUME NEW s, NEW p, NEW n
    PROVE  /\ Message(s, p, n).sender = s
           /\ Message(s, p, n).pair = p
           /\ Message(s, p, n).nonce = n
BY Zenon DEF Message

(* A message L2 sends is a new one.                                          *)
LEMMA SendsOnL2 ==
    ASSUME TypeInv, SentInv, NEW s \in {"bridge", "user"}, NEW p \in Pairs,
           L2sendMessage(s, p)
    PROVE  /\ Message(s, p, messageNonce) \notin sent
           /\ sent' = sent \cup {Message(s, p, messageNonce)}
           /\ sent' \in SUBSET Messages
           /\ states' = Append(states, sent')
           /\ IsFiniteSet(sent')
           /\ \A m \in sent' : m.nonce < messageNonce'
           /\ messageNonce' = messageNonce + 1
<1> DEFINE new == Message(s, p, messageNonce)
<1>1. new.nonce = messageNonce /\ messageNonce \in Nat
  BY MessageFields DEF TypeInv
<1>2. new \notin sent
  BY <1>1 DEF SentInv
<1>3. new \in Messages
  BY MessageType, Zenon DEF TypeInv
<1>4. sent \cup {new} \in SUBSET Messages
  BY <1>3, SentType, Zenon
<1>5. states' = Append(states, sent \cup {new}) /\ messageNonce' = messageNonce + 1
  BY Zenon DEF L2sendMessage
<1>6. sent' = sent \cup {new}
  BY <1>4, <1>5, SentAppended, Zenon
<1>7. IsFiniteSet(sent \cup {new})
  BY FS_AddElement, Zenon DEF SentInv
<1>8. \A m \in sent : m.nonce \in Nat /\ m.nonce < messageNonce
  BY SentType, Zenon DEF SentInv, Messages
<1>9. \A m \in sent \cup {new} : m.nonce < messageNonce + 1
  BY <1>1, <1>8
<1>10. QED
  BY <1>2, <1>4, <1>5, <1>6, <1>7, <1>9, Zenon

LEMMA SendsNothing ==
    ASSUME TypeInv, SentInv, nothingSent
    PROVE  /\ sent' = sent /\ messageNonce' = messageNonce
           /\ states' = Append(states, sent')
<1>1. states' = Append(states, sent) /\ messageNonce' = messageNonce
  BY Zenon DEF nothingSent
<1>2. sent' = sent
  BY <1>1, SentType, SentAppended, Zenon
<1>3. QED
  BY <1>1, <1>2, Zenon

(* The states only grow.                                                     *)
LEMMA StatesGrow ==
    ASSUME TypeInv, SentInv, NEW s \in SUBSET Messages, states' = Append(states, s),
           sent \subseteq s
    PROVE  \A i, j \in 1 .. Len(states') : i <= j => states'[i] \subseteq states'[j]
<1>1. /\ Len(states) \in Nat /\ Len(states') = Len(states) + 1
      /\ states'[Len(states) + 1] = s
      /\ \A i \in 1 .. Len(states) : states'[i] = states[i]
  BY DEF TypeInv
<1>2. \A i \in 1 .. Len(states) : states[i] \subseteq s
  <2>1. SUFFICES ASSUME NEW i \in 1 .. Len(states) PROVE states[i] \subseteq s
    BY Zenon
  <2>2. states # << >> /\ Len(states) \in 1 .. Len(states) /\ i <= Len(states)
    BY <1>1
  <2>3. sent = states[Len(states)]
    BY <2>2, Zenon DEF sent
  <2>4. states[i] \subseteq states[Len(states)]
    BY <2>2, Zenon DEF SentInv
  <2>5. QED
    BY <2>3, <2>4, Zenon
<1>3. SUFFICES ASSUME NEW i \in 1 .. Len(states'), NEW j \in 1 .. Len(states'), i <= j
               PROVE  states'[i] \subseteq states'[j]
  BY Zenon
<1>4. CASE j \in 1 .. Len(states)
  <2>1. i \in 1 .. Len(states)
    BY <1>1, <1>3, <1>4
  <2>2. QED
    BY <1>1, <1>3, <1>4, <2>1, Zenon DEF SentInv
<1>5. CASE j = Len(states) + 1
  <2>1. i \in 1 .. Len(states) \/ i = Len(states) + 1
    BY <1>1
  <2>2. QED
    BY <1>1, <1>2, <1>5, <2>1, Zenon
<1>6. QED
  BY <1>1, <1>4, <1>5

(* A state that is committed holds only what L2 has sent by now.             *)
LEMMA StateInSent ==
    ASSUME TypeInv, SentInv, NEW i \in 1 .. Len(states)
    PROVE  states[i] \subseteq sent
<1>1. states # << >> /\ Len(states) \in 1 .. Len(states) /\ i <= Len(states)
  BY DEF TypeInv
<1>2. sent = states[Len(states)]
  BY <1>1, Zenon DEF sent
<1>3. QED
  BY <1>1, <1>2, Zenon DEF SentInv

LEMMA QueueNonces ==
    ASSUME TypeInv, QueueInv, NEW i \in 1 .. Len(queue)
    PROVE  queue[i].nonce \in Nat /\ queue[i].nonce < i
<1>1. queue[i] \in Messages /\ i \in DOMAIN queue
  BY DEF TypeInv
<1>2. queue[i].nonce \in Nat
  BY <1>1, Zenon DEF Messages
<1>3. QED
  BY <1>1, <1>2, Zenon DEF QueueInv

(* A message L1 sends is a new one, one it sends again is not.               *)
LEMMA SendsOnL1 ==
    ASSUME TypeInv, QueueInv, NEW s \in {"bridge", "user"}, NEW p \in Pairs,
           L1sendMessage(s, p)
    PROVE  /\ Message(s, p, Len(queue)) \notin Queued
           /\ Queued' = Queued \cup {Message(s, p, Len(queue))}
           /\ IsFiniteSet(Queued')
           /\ \A i \in DOMAIN queue' : queue'[i].nonce < i
<1> DEFINE new == Message(s, p, Len(queue))
<1>1. new.nonce = Len(queue) /\ Len(queue) \in Nat /\ DOMAIN queue = 1 .. Len(queue)
  BY MessageFields DEF TypeInv
<1>2. new \notin Queued
  <2>1. \A i \in 1 .. Len(queue) : queue[i].nonce < i /\ queue[i].nonce \in Nat
    BY QueueNonces, Zenon
  <2>2. \A i \in 1 .. Len(queue) : queue[i].nonce # Len(queue)
    BY <1>1, <2>1
  <2>3. QED
    BY <1>1, <2>2, Zenon DEF Queued
<1>3. queue' = Append(queue, new)
  BY Zenon DEF L1sendMessage
<1>4. new \in Messages
  BY <1>1, MessageType, Zenon
<1>5. /\ DOMAIN queue' = 1 .. Len(queue) + 1
      /\ queue'[Len(queue) + 1] = new
      /\ \A i \in 1 .. Len(queue) : queue'[i] = queue[i]
  BY <1>3, <1>4 DEF TypeInv
<1>6. Queued' = Queued \cup {new}
  BY <1>1, <1>5 DEF Queued
<1>7. IsFiniteSet(Queued')
  BY <1>6, FS_AddElement, Zenon DEF QueueInv
<1>8. \A i \in DOMAIN queue' : queue'[i].nonce < i
  <2>1. \A i \in DOMAIN queue' : i \in 1 .. Len(queue) \/ i = Len(queue) + 1
    BY <1>1, <1>5
  <2>2. QED
    BY <1>1, <1>5, <2>1 DEF QueueInv
<1>9. QED
  BY <1>2, <1>6, <1>7, <1>8, Zenon

LEMMA Replays ==
    ASSUME TypeInv, QueueInv, replayMessage
    PROVE  /\ Queued' = Queued
           /\ \A i \in DOMAIN queue' : queue'[i].nonce < i
<1>1. PICK k \in DOMAIN queue : queue' = Append(queue, queue[k])
  BY Zenon DEF replayMessage
<1>2. k \in 1 .. Len(queue) /\ DOMAIN queue = 1 .. Len(queue) /\ Len(queue) \in Nat
  BY DEF TypeInv
<1>3. queue[k].nonce < k /\ queue[k].nonce \in Nat
  BY <1>2, QueueNonces, Zenon
<1>4. /\ DOMAIN queue' = 1 .. Len(queue) + 1
      /\ queue'[Len(queue) + 1] = queue[k]
      /\ \A i \in 1 .. Len(queue) : queue'[i] = queue[i]
  BY <1>1, <1>2 DEF TypeInv
<1>5. \A i \in DOMAIN queue' : i \in 1 .. Len(queue) \/ i = Len(queue) + 1
  BY <1>2, <1>4
<1>6. Queued' = Queued
  BY <1>2, <1>4, <1>5 DEF Queued
<1>7. \A i \in DOMAIN queue' : queue'[i].nonce < i
  BY <1>2, <1>3, <1>4, <1>5 DEF QueueInv
<1>8. QED
  BY <1>6, <1>7, Zenon

-----------------------------------------------------------------------------
(* What every step keeps.                                                    *)

LEMMA RelayedPair ==
    ASSUME TypeInv, NEW m \in AnyMessage
    PROVE  m \in Messages /\ m.pair \in Pairs
<1>1. m \in Messages
  BY SentType, ForgedType DEF AnyMessage, TypeInv
<1>2. QED
  BY <1>1, Zenon DEF Messages

(* The next queue element.                                                   *)
LEMMA NextElement ==
    ASSUME TypeInv, L2relayMessage
    PROVE  /\ queue[executed + 1] \in Queued
           /\ queue[executed + 1] \in Messages
           /\ queue[executed + 1].pair \in Pairs
<1>1. executed + 1 \in 1 .. Len(queue)
  BY DEF L2relayMessage, TypeInv
<1>2. executed + 1 \in DOMAIN queue /\ queue[executed + 1] \in Messages
  BY <1>1 DEF TypeInv
<1>3. QED
  BY <1>2, Zenon DEF Queued, Messages

LEMMA MoneyTypesStep ==
    ASSUME TypeInv, MoneyTypes, [Next]_vars
    PROVE  MoneyTypes'
<1>1. ASSUME NEW p \in Pairs, deposit(p)
      PROVE  MoneyTypes'
  BY <1>1, PairFacts DEF deposit, MoneyTypes, onL2
<1>2. ASSUME NEW m \in AnyMessage, L1relayMessage(m)
      PROVE  MoneyTypes'
  <2>1. m.pair \in Pairs /\ m.pair[1] \in L1Tokens /\ "ETH" \in L1Tokens
    BY RelayedPair, PairFacts, Zenon
  <2>2. UNCHANGED supply
    BY <1>2, Zenon DEF L1relayMessage, onL2
  <2>3. CASE payETH
    BY <2>1, <2>2, <2>3 DEF payETH, MoneyTypes
  <2>4. CASE payERC20(m.pair)
    BY <2>1, <2>2, <2>4 DEF payERC20, MoneyTypes
  <2>5. QED
    BY <1>2, <2>3, <2>4, Zenon DEF L1relayMessage
<1>3. ASSUME NEW t \in L2Tokens, withdraw(t)
      PROVE  MoneyTypes'
  BY <1>3 DEF withdraw, MoneyTypes, onL1
<1>4. CASE L2relayMessage
  <2>1. UNCHANGED <<locked, deposits>>
    BY <1>4, Zenon DEF L2relayMessage, onL1
  <2>2. CASE UNCHANGED supply
    BY <2>1, <2>2, Zenon DEF MoneyTypes
  <2>3. CASE /\ matches(queue[executed + 1].pair)
             /\ supply' = [supply EXCEPT ![queue[executed + 1].pair[2]] = @ + 1]
    BY <2>1, <2>3 DEF MoneyTypes, matches
  <2>4. QED
    BY <1>4, <2>2, <2>3, Zenon DEF L2relayMessage, finalizeDeposit
<1>5. ASSUME NEW p \in Pairs, userSendsOnL1(p) \/ userSendsOnL2(p)
      PROVE  MoneyTypes'
  BY <1>5, Zenon DEF userSendsOnL1, userSendsOnL2, onL1, onL2, MoneyTypes
<1>6. CASE replayMessage \/ ownerCall
  BY <1>6, Zenon DEF replayMessage, ownerCall, onL2, MoneyTypes
<1>7. CASE proposes \/ proposesWrong \/ deletes \/ mineBlock
  BY <1>7, Zenon DEF proposes, proposesWrong, append, deletes, mineBlock, onL1, onL2, MoneyTypes
<1>8. CASE UNCHANGED vars
  BY <1>8, Zenon DEF vars, onL1, onL2, MoneyTypes
<1>9. QED
  BY <1>1, <1>2, <1>3, <1>4, <1>5, <1>6, <1>7, <1>8, Zenon DEF Next

LEMMA QueueStep ==
    ASSUME TypeInv, QueueInv, [Next]_vars
    PROVE  QueueInv'
<1>1. ASSUME NEW p \in Pairs, deposit(p) \/ userSendsOnL1(p)
      PROVE  QueueInv'
  <2>1. PICK s \in {"bridge", "user"} : L1sendMessage(s, p)
    BY <1>1, Zenon DEF deposit, userSendsOnL1
  <2>2. UNCHANGED received2
    BY <1>1, Zenon DEF deposit, userSendsOnL1, onL2
  <2>3. QED
    BY <2>1, <2>2, SendsOnL1, Zenon DEF QueueInv
<1>2. CASE replayMessage
  <2>1. UNCHANGED received2
    BY <1>2, Zenon DEF replayMessage, onL2
  <2>2. QED
    BY <1>2, <2>1, Replays, Zenon DEF QueueInv
<1>3. CASE L2relayMessage
  <2>1. UNCHANGED queue
    BY <1>3, Zenon DEF L2relayMessage, onL1
  <2>2. received2' \subseteq received2 \cup {queue[executed + 1]}
    BY <1>3, Zenon DEF L2relayMessage
  <2>3. Queued' = Queued
    BY <2>1, Zenon DEF Queued
  <2>4. QED
    BY <1>3, <2>1, <2>2, <2>3, NextElement, Zenon DEF QueueInv
<1>4. CASE UNCHANGED <<queue, received2>>
  <2>1. Queued' = Queued
    BY <1>4, Zenon DEF Queued
  <2>2. QED
    BY <1>4, <2>1, Zenon DEF QueueInv
<1>5. ASSUME NEW m \in AnyMessage, L1relayMessage(m)
      PROVE  UNCHANGED <<queue, received2>>
  BY <1>5, Zenon DEF L1relayMessage, onL2
<1>6. ASSUME NEW p \in Pairs, userSendsOnL2(p)
      PROVE  UNCHANGED <<queue, received2>>
  BY <1>6, Zenon DEF userSendsOnL2, onL1
<1>7. ASSUME NEW t \in L2Tokens, withdraw(t)
      PROVE  UNCHANGED <<queue, received2>>
  BY <1>7, Zenon DEF withdraw, onL1
<1>8. ASSUME ownerCall \/ proposes \/ proposesWrong \/ deletes \/ mineBlock \/ UNCHANGED vars
      PROVE  UNCHANGED <<queue, received2>>
  BY <1>8, Zenon DEF ownerCall, proposes, proposesWrong, append, deletes, mineBlock, vars, onL1, onL2
<1>9. QED
  BY <1>1, <1>2, <1>3, <1>4, <1>5, <1>6, <1>7, <1>8, Zenon DEF Next

(* What a step does to the messages L2 sent: nothing, or one more.           *)
LEMMA SentGrows ==
    ASSUME TypeInv, SentInv, [Next]_vars
    PROVE  /\ SentInv'
           /\ sent \subseteq sent'
<1>1. ASSUME NEW s \in {"bridge", "user"}, NEW p \in Pairs, L2sendMessage(s, p), room
      PROVE  SentInv' /\ sent \subseteq sent'
  <2>1. /\ sent' = sent \cup {Message(s, p, messageNonce)}
        /\ sent' \in SUBSET Messages
        /\ states' = Append(states, sent')
        /\ IsFiniteSet(sent')
        /\ \A m \in sent' : m.nonce < messageNonce'
        /\ messageNonce' = messageNonce + 1
    BY <1>1, SendsOnL2, Zenon
  <2>2. \A i, j \in 1 .. Len(states') : i <= j => states'[i] \subseteq states'[j]
    BY <2>1, StatesGrow, Zenon
  <2>3. messageNonce' <= ctcTotal'
    BY <1>1, <2>1 DEF room, SentInv, TypeInv
  <2>4. QED
    BY <2>1, <2>2, <2>3, Zenon DEF SentInv
<1>2. ASSUME nothingSent, room
      PROVE  SentInv' /\ sent \subseteq sent'
  <2>1. sent' = sent /\ messageNonce' = messageNonce /\ states' = Append(states, sent')
    BY <1>2, SendsNothing, Zenon
  <2>2. \A i, j \in 1 .. Len(states') : i <= j => states'[i] \subseteq states'[j]
    BY <2>1, StatesGrow, SentType, Zenon
  <2>3. messageNonce' <= ctcTotal'
    BY <1>2, <2>1 DEF room, SentInv, TypeInv
  <2>4. QED
    BY <2>1, <2>2, <2>3, Zenon DEF SentInv
<1>3. CASE UNCHANGED <<states, messageNonce, ctcTotal>>
  <2>1. sent' = sent
    BY <1>3, SentUnchanged, Zenon
  <2>2. QED
    BY <1>3, <2>1, Zenon DEF SentInv
<1>4. ASSUME NEW p \in Pairs, userSendsOnL2(p)
      PROVE  SentInv' /\ sent \subseteq sent'
  BY <1>1, <1>4, Zenon DEF userSendsOnL2
<1>5. ASSUME NEW t \in L2Tokens, withdraw(t)
      PROVE  SentInv' /\ sent \subseteq sent'
  BY <1>1, <1>5, WithdrawPair, Zenon DEF withdraw
<1>6. CASE L2relayMessage
  <2>1. room /\ (nothingSent \/ L2sendMessage("bridge", queue[executed + 1].pair))
    BY <1>6, Zenon DEF L2relayMessage, finalizeDeposit
  <2>2. QED
    BY <1>1, <1>2, <1>6, <2>1, NextElement, Zenon
<1>7. ASSUME NEW p \in Pairs, deposit(p) \/ userSendsOnL1(p)
      PROVE  UNCHANGED <<states, messageNonce, ctcTotal>>
  BY <1>7, Zenon DEF deposit, userSendsOnL1, onL2
<1>8. ASSUME NEW m \in AnyMessage, L1relayMessage(m)
      PROVE  UNCHANGED <<states, messageNonce, ctcTotal>>
  BY <1>8, Zenon DEF L1relayMessage, onL2
<1>9. ASSUME \/ replayMessage \/ ownerCall \/ proposes \/ proposesWrong \/ deletes
             \/ mineBlock \/ UNCHANGED vars
      PROVE  UNCHANGED <<states, messageNonce, ctcTotal>>
  BY <1>9, Zenon DEF replayMessage, ownerCall, proposes, proposesWrong, append, deletes, mineBlock,
              vars, onL2
<1>10. QED
  BY <1>3, <1>4, <1>5, <1>6, <1>7, <1>8, <1>9, Zenon DEF Next

LEMMA RootsStep ==
    ASSUME IInv, SentInv, RootsInv, [Next]_vars
    PROVE  RootsInv'
<1> USE DEF IInv
<1>1. sent \subseteq sent'
  BY SentGrows, Zenon
<1>2. CASE proposes \/ proposesWrong
  <2>1. totalElements + 1 \in 1 .. Len(states)
    BY <1>2 DEF proposes, proposesWrong, TypeInv
  <2>2. states[totalElements + 1] \in SUBSET Messages /\ states[totalElements + 1] \subseteq sent
    BY <2>1, StateInSent DEF TypeInv
  <2>3. PICK root \in SUBSET Messages : append(root) /\ root \subseteq sent \cup Forged
    BY <1>2, <2>2, ForgedType, Zenon DEF proposes, proposesWrong
  <2>4. PICK h \in Header : batches' = Append(batches, h) /\ h.batchRoot = root
    BY <2>3, AppendedHeader, Zenon DEF append
  <2>5. \A i \in DOMAIN batches' : batches'[i] = h \/ (i \in DOMAIN batches /\ batches'[i] = batches[i])
    BY <2>4 DEF TypeInv
  <2>6. QED
    BY <1>1, <2>3, <2>4, <2>5, Zenon DEF RootsInv
<1>3. CASE deletes
  <2>1. PICK k \in DOMAIN batches : SCC!deleteStateBatch(BVM_FraudVerifier, batches[k])
    BY <1>3, Zenon DEF deletes
  <2>2. k \in 1 .. Len(batches) /\ batches[k].batchIndex = k - 1
    BY DEF TypeInv, BatchInv
  <2>3. batches' = SubSeq(batches, 1, k - 1)
    BY <2>1, <2>2, Zenon DEF SCC!deleteStateBatch
  <2>4. \A i \in DOMAIN batches' : i \in DOMAIN batches /\ batches'[i] = batches[i]
    BY <2>2, <2>3 DEF TypeInv
  <2>5. QED
    BY <1>1, <2>4, Zenon DEF RootsInv
<1>4. CASE UNCHANGED batches
  BY <1>1, <1>4, Zenon DEF RootsInv
<1>5. ASSUME NEW p \in Pairs, deposit(p) \/ userSendsOnL1(p) \/ userSendsOnL2(p)
      PROVE  UNCHANGED batches
  BY <1>5, Zenon DEF deposit, userSendsOnL1, userSendsOnL2, scc
<1>6. ASSUME NEW t \in L2Tokens, withdraw(t)
      PROVE  UNCHANGED batches
  BY <1>6, Zenon DEF withdraw, scc
<1>7. ASSUME NEW m \in AnyMessage, L1relayMessage(m)
      PROVE  UNCHANGED batches
  BY <1>7, Zenon DEF L1relayMessage, scc
<1>8. ASSUME replayMessage \/ ownerCall \/ L2relayMessage \/ mineBlock \/ UNCHANGED vars
      PROVE  UNCHANGED batches
  BY <1>8, Zenon DEF replayMessage, ownerCall, L2relayMessage, mineBlock, SCC!MineBlock, SCC!sccVars,
              vars, scc
<1>9. QED
  BY <1>2, <1>3, <1>4, <1>5, <1>6, <1>7, <1>8, Zenon DEF Next

(* A batch that is final stays, and stays final.                             *)
LEMMA FinalKept ==
    ASSUME IInv, [Next]_vars, NEW i \in DOMAIN batches,
           ~SCC!insideFraudProofWindow(batches[i])
    PROVE  /\ i \in DOMAIN batches' /\ batches'[i] = batches[i]
           /\ (~SCC!insideFraudProofWindow(batches[i]))'
<1> USE DEF IInv
<1>1. i \in 1 .. Len(batches) /\ batches[i].timestamp \in Nat
  BY Timestamps, Zenon
<1>2. batches[i].timestamp + FRAUD_PROOF_WINDOW <= now
  BY <1>1 DEF SCC!insideFraudProofWindow, TypeInv
<1>3. FRAUD_PROOF_WINDOW' = FRAUD_PROOF_WINDOW /\ now' \in Nat /\ now <= now'
  <2>1. Kinds
    BY StepKinds, Zenon
  <2>2. QED
    BY <2>1 DEF Kinds, Appends, Deletes, Mines, Relays, Enqueues, Executes, Idles, scc, TypeInv,
                SCC!appendStateBatch, SCC!deleteStateBatch
<1>4. i \in DOMAIN batches' /\ batches'[i] = batches[i]
  <2>1. CASE Appends
    <3>1. PICK root \in SUBSET Messages :
            SCC!appendStateBatch(BVM_Proposer, root, 1, totalElements)
      BY <2>1, Zenon DEF Appends
    <3>2. PICK h \in Header : batches' = Append(batches, h)
      BY <3>1, AppendedHeader, Zenon
    <3>3. QED
      BY <1>1, <3>2 DEF TypeInv
  <2>2. CASE Deletes
    <3>1. PICK k \in DOMAIN batches : SCC!deleteStateBatch(BVM_FraudVerifier, batches[k])
      BY <2>2, Zenon DEF Deletes
    <3>2. k \in 1 .. Len(batches) /\ batches[k].batchIndex = k - 1
      BY DEF TypeInv, BatchInv
    <3>3. /\ batches' = SubSeq(batches, 1, k - 1)
          /\ batches[k].timestamp + FRAUD_PROOF_WINDOW > now
      BY <3>1, <3>2, Zenon DEF SCC!deleteStateBatch, SCC!mayDelete, SCC!insideFraudProofWindow
    <3>4. /\ batches[k].timestamp \in Nat
          /\ k <= i => batches[k].timestamp <= batches[i].timestamp
      BY <1>1, <3>2, Timestamps, Zenon DEF BatchInv
    <3>5. i <= k - 1
      <4>1. FRAUD_PROOF_WINDOW \in Nat /\ now \in Nat /\ batches[i].timestamp \in Nat
        BY <1>1, Timestamps DEF TypeInv, BatchInv
      <4>2. ~(k <= i)
        BY <1>2, <3>3, <3>4, <4>1, SMTT(30)
      <4>3. QED
        BY <1>1, <3>2, <4>2
    <3>6. QED
      BY <1>1, <3>2, <3>3, <3>5 DEF TypeInv
  <2>3. CASE Mines \/ Relays \/ Enqueues \/ Executes \/ Idles
    BY <2>3, Zenon DEF Mines, Relays, Enqueues, Executes, Idles, scc
  <2>4. QED
    BY <2>1, <2>2, <2>3, StepKinds, Zenon DEF Kinds
<1>5. QED
  BY <1>1, <1>2, <1>3, <1>4 DEF SCC!insideFraudProofWindow, TypeInv

LEMMA ForgedNonce == \A m \in Forged : m.nonce = MaxElements
BY MessageFields DEF Forged

(* A wrong root that is final is wrong for ever.                             *)
LEMMA PremiseStable ==
    ASSUME IInv, LedgerInv, [Next]_vars, NoWrongRootFinal'
    PROVE  NoWrongRootFinal
<1> USE DEF LedgerInv
<1>1. SUFFICES ASSUME NEW i \in DOMAIN batches, ~SCC!insideFraudProofWindow(batches[i]),
                      NEW m \in batches[i].batchRoot, m \notin sent
               PROVE  FALSE
  BY Zenon DEF NoWrongRootFinal
<1>2. m \in Forged
  BY <1>1, Zenon DEF RootsInv
<1>3. m \in sent'
  BY <1>1, FinalKept, Zenon DEF NoWrongRootFinal
<1>4. TypeInv' /\ SentInv'
  BY StepInv, SentGrows, Zenon DEF IInv
<1>5. m.nonce < messageNonce' /\ messageNonce' <= ctcTotal'
  BY <1>3, <1>4, Zenon DEF SentInv
<1>6. m.nonce = MaxElements /\ messageNonce' \in Nat /\ ctcTotal' \in 0 .. MaxElements
  BY <1>2, <1>4, ForgedNonce, Zenon DEF TypeInv
<1>7. QED
  BY <1>5, <1>6, CrossDomainConstants

-----------------------------------------------------------------------------
(* The balance, action by action.                                            *)

minted(p) == IF matches(p) THEN supply[p[2]] ELSE 0

LEMMA OnTheWay ==
    ASSUME LedgerInv, NEW p \in Pairs
    PROVE  /\ toL2(p) = {m \in Queued : fromBridge(m) /\ m.pair = p} \ received2
           /\ IsFiniteSet(toL2(p)) /\ Cardinality(toL2(p)) \in Nat
           /\ IsFiniteSet(toL1(p)) /\ Cardinality(toL1(p)) \in Nat
           /\ minted(p) \in Int
           /\ backed(p) = minted(p) + Cardinality(toL2(p)) + Cardinality(toL1(p))
<1>1. toL2(p) = {m \in Queued : fromBridge(m) /\ m.pair = p} \ received2
  BY Zenon DEF toL2, Queued
<1>2. toL2(p) \in SUBSET Queued /\ toL1(p) \in SUBSET sent
  BY <1>1, Zenon DEF toL1
<1>3. IsFiniteSet(toL2(p)) /\ IsFiniteSet(toL1(p))
  BY <1>2, FS_Subset, Zenon DEF LedgerInv, QueueInv, SentInv
<1>4. Cardinality(toL2(p)) \in Nat /\ Cardinality(toL1(p)) \in Nat
  BY <1>3, FS_CardinalityType, Zenon
<1>5. minted(p) \in Int
  BY DEF minted, matches, LedgerInv, MoneyTypes
<1>6. QED
  BY <1>1, <1>3, <1>4, <1>5, Zenon DEF backed, minted

(* One deposit: locked on L1 and on its way.                                 *)
LEMMA DepositBacked ==
    ASSUME IInv, LedgerInv, Backed, NEW p \in Pairs, deposit(p)
    PROVE  Backed'
<1> USE DEF IInv
<1> DEFINE new == Message("bridge", p, Len(queue))
<1>1. /\ L1sendMessage("bridge", p)
      /\ UNCHANGED <<received1, received2, states, supply>>
      /\ locked' = [locked EXCEPT ![p[1]] = @ + 1]
      /\ deposits' = IF p[1] = "ETH" THEN deposits ELSE [deposits EXCEPT ![p] = @ + 1]
  BY Zenon DEF deposit, onL2
<1>2. sent' = sent
  BY <1>1, SentUnchanged, Zenon
<1>3. new \notin Queued /\ Queued' = Queued \cup {new}
  BY <1>1, SendsOnL1, Zenon DEF LedgerInv
<1>4. new \notin received2
  BY <1>3, Zenon DEF LedgerInv, QueueInv
<1>5. fromBridge(new) /\ new.pair = p
  BY MessageFields DEF fromBridge
<1>6. ASSUME NEW q \in Pairs
      PROVE  /\ backed(q)' = backed(q) + (IF q = p THEN 1 ELSE 0)
             /\ held(q)' = held(q) + (IF q = p THEN 1 ELSE 0)
  <2>1. toL1(q)' = toL1(q) /\ minted(q)' = minted(q)
    BY <1>1, <1>2, Zenon DEF toL1, minted, fromBridge, matches
  <2>2. toL2(q)' = {m \in Queued' : fromBridge(m) /\ m.pair = q} \ received2
    BY <1>1, Zenon DEF toL2, Queued, fromBridge
  <2>3. CASE q = p
    <3>1. toL2(q)' = toL2(q) \cup {new} /\ new \notin toL2(q)
      BY <1>3, <1>4, <1>5, <2>2, <2>3, OnTheWay, SMTT(30)
    <3>2. Cardinality(toL2(q)') = Cardinality(toL2(q)) + 1
      BY <3>1, FS_AddElement, OnTheWay, Zenon
    <3>3. backed(q)' = minted(q)' + Cardinality(toL2(q)') + Cardinality(toL1(q)')
      BY Zenon DEF backed, minted
    <3>4. backed(q)' = backed(q) + 1
      BY <2>1, <3>2, <3>3, OnTheWay, SMTT(30)
    <3>5. held(q)' = held(q) + 1
      BY <1>1, <2>3, PairFacts, Zenon DEF held, LedgerInv, MoneyTypes
    <3>6. QED
      BY <2>3, <3>4, <3>5, Zenon
  <2>4. CASE q # p
    <3>1. toL2(q)' = toL2(q)
      BY <1>3, <1>5, <2>2, <2>4, OnTheWay, SMTT(30)
    <3>2. backed(q)' = minted(q)' + Cardinality(toL2(q)') + Cardinality(toL1(q)')
      BY Zenon DEF backed, minted
    <3>3. backed(q)' = backed(q) /\ backed(q) \in Int
      BY <2>1, <3>1, <3>2, OnTheWay, SMTT(30)
    <3>4. held(q)' = held(q) /\ held(q) \in Int
      BY <1>1, <2>4, PairFacts DEF held, LedgerInv, MoneyTypes
    <3>5. QED
      BY <2>4, <3>3, <3>4
  <2>5. QED
    BY <2>3, <2>4, Zenon
<1>7. /\ locked'["MNT"] = deposits'[<<"MNT", "BVM_MANTLE">>]
      /\ locked'["T"] = deposits'[<<"T", "T2">>] + deposits'[<<"T", "Other">>]
  BY <1>1, PairFacts DEF Backed, LedgerInv, MoneyTypes
<1>8. \A q \in Pairs : held(q)' = backed(q)'
  BY <1>6, Zenon DEF Backed
<1>9. QED
  BY <1>1, <1>2, <1>7, <1>8, Zenon DEF Backed

(* Without an element a finite set has one fewer, if it was there.          *)
LEMMA Removed ==
    ASSUME NEW S, IsFiniteSet(S), NEW x, NEW P \in BOOLEAN, x \in S <=> P
    PROVE  Cardinality(S \ {x}) = Cardinality(S) - (IF P THEN 1 ELSE 0)
<1>1. Cardinality(S) \in Nat
  BY FS_CardinalityType, Zenon
<1>2. CASE x \in S
  BY <1>2, FS_RemoveElement, Zenon
<1>3. CASE x \notin S
  <2>1. S \ {x} = S
    BY <1>3, Zenon
  <2>2. QED
    BY <1>1, <1>3, <2>1
<1>4. QED
  BY <1>2, <1>3, Zenon

(* One withdrawal paid out on L1: it is no longer on its way.                *)
LEMMA RelayBacked ==
    ASSUME IInv, LedgerInv, NoWrongRootFinal, Backed, NEW m \in AnyMessage, L1relayMessage(m)
    PROVE  Backed'
<1> USE DEF IInv
<1>1. /\ provable(m) /\ m \notin received1 /\ fromBridge(m)
      /\ received1' = received1 \cup {m}
      /\ UNCHANGED <<queue, received2, states, supply>>
      /\ IF m.pair[1] = "ETH" THEN payETH ELSE payERC20(m.pair)
  BY Zenon DEF L1relayMessage, onL2
<1>2. sent' = sent
  BY <1>1, SentUnchanged, Zenon
<1>3. m.pair \in Pairs
  BY RelayedPair, Zenon
<1>4. m \in sent
  BY <1>1, Zenon DEF provable, committed, NoWrongRootFinal
<1>5. ASSUME NEW q \in Pairs
      PROVE  /\ backed(q)' = backed(q) - (IF q = m.pair THEN 1 ELSE 0)
             /\ held(q)' = held(q) - (IF q = m.pair THEN 1 ELSE 0)
  <2>1. toL2(q)' = toL2(q) /\ minted(q)' = minted(q)
    BY <1>1, Zenon DEF toL2, minted, fromBridge, matches
  <2>2. toL1(q)' = toL1(q) \ {m}
    BY <1>1, <1>2, Zenon DEF toL1, fromBridge
  <2>3. m \in toL1(q) <=> q = m.pair
    BY <1>1, <1>4, Zenon DEF toL1
  <2>4. Cardinality(toL1(q)') = Cardinality(toL1(q)) - (IF q = m.pair THEN 1 ELSE 0)
    BY <2>2, <2>3, OnTheWay, Removed, Zenon
  <2>5. backed(q)' = minted(q)' + Cardinality(toL2(q)') + Cardinality(toL1(q)')
    BY Zenon DEF backed, minted
  <2>6. backed(q)' = backed(q) - (IF q = m.pair THEN 1 ELSE 0)
    BY <2>1, <2>4, <2>5, OnTheWay, SMTT(30)
  <2>7. CASE m.pair[1] = "ETH"
    <3>1. locked' = [locked EXCEPT !["ETH"] = @ - 1] /\ UNCHANGED deposits
      BY <1>1, <2>7, Zenon DEF payETH
    <3>2. held(q)' = held(q) - (IF q = m.pair THEN 1 ELSE 0)
      BY <1>3, <2>7, <3>1, PairFacts DEF held, LedgerInv, MoneyTypes
    <3>3. QED
      BY <2>6, <3>2, Zenon
  <2>8. CASE m.pair[1] # "ETH"
    <3>1. /\ locked' = [locked EXCEPT ![m.pair[1]] = @ - 1]
          /\ deposits' = [deposits EXCEPT ![m.pair] = @ - 1]
      BY <1>1, <2>8, Zenon DEF payERC20
    <3>2. held(q)' = held(q) - (IF q = m.pair THEN 1 ELSE 0)
      BY <1>3, <2>8, <3>1, PairFacts DEF held, LedgerInv, MoneyTypes
    <3>3. QED
      BY <2>6, <3>2, Zenon
  <2>9. QED
    BY <2>7, <2>8, Zenon
<1>6. /\ locked'["MNT"] = deposits'[<<"MNT", "BVM_MANTLE">>]
      /\ locked'["T"] = deposits'[<<"T", "T2">>] + deposits'[<<"T", "Other">>]
  <2>1. CASE m.pair[1] = "ETH"
    BY <1>1, <2>1, PairFacts, Zenon DEF payETH, Backed, LedgerInv, MoneyTypes
  <2>2. CASE m.pair[1] # "ETH"
    <3>1. /\ locked' = [locked EXCEPT ![m.pair[1]] = @ - 1]
          /\ deposits' = [deposits EXCEPT ![m.pair] = @ - 1]
      BY <1>1, <2>2, Zenon DEF payERC20
    <3>2. QED
      BY <1>3, <2>2, <3>1, PairFacts DEF Backed, LedgerInv, MoneyTypes
  <2>3. QED
    BY <2>1, <2>2, Zenon
<1>7. \A q \in Pairs : held(q)' = backed(q)'
  BY <1>5, Zenon DEF Backed
<1>8. received1' \subseteq sent'
  BY <1>1, <1>2, <1>4, Zenon DEF Backed
<1>9. QED
  BY <1>6, <1>7, <1>8, Zenon DEF Backed

(* A message the L2 bridge sends joins what is on its way to L1.             *)
LEMMA BridgeSends ==
    ASSUME IInv, LedgerInv, Backed, NEW p \in Pairs, L2sendMessage("bridge", p),
           UNCHANGED received1, NEW q \in Pairs
    PROVE  Cardinality(toL1(q)') = Cardinality(toL1(q)) + (IF q = p THEN 1 ELSE 0)
<1> USE DEF IInv
<1> DEFINE new == Message("bridge", p, messageNonce)
<1>1. new \notin sent /\ sent' = sent \cup {new}
  BY SendsOnL2, Zenon DEF LedgerInv
<1>2. new \notin received1 /\ fromBridge(new) /\ new.pair = p
  BY <1>1, MessageFields DEF Backed, fromBridge
<1>3. CASE q = p
  <2>1. toL1(q)' = toL1(q) \cup {new} /\ new \notin toL1(q)
    BY <1>1, <1>2, <1>3, Zenon DEF toL1, fromBridge
  <2>2. QED
    BY <1>3, <2>1, FS_AddElement, OnTheWay, Zenon
<1>4. CASE q # p
  <2>1. toL1(q)' = toL1(q)
    BY <1>1, <1>2, <1>4, Zenon DEF toL1, fromBridge
  <2>2. QED
    BY <1>4, <2>1, OnTheWay, SMTT(30)
<1>5. QED
  BY <1>3, <1>4, Zenon

(* One withdrawal on L2: burnt there, and on its way.                        *)
LEMMA WithdrawBacked ==
    ASSUME IInv, LedgerInv, Backed, NEW t \in L2Tokens, withdraw(t)
    PROVE  Backed'
<1> USE DEF IInv
<1> DEFINE p == <<l1Token(t), t>>
<1>1. /\ supply' = [supply EXCEPT ![t] = @ - 1]
      /\ L2sendMessage("bridge", p)
      /\ UNCHANGED <<queue, received1, received2, locked, deposits>>
  BY Zenon DEF withdraw, onL1
<1>2. p \in Pairs /\ matches(p) /\ p[2] = t
  BY WithdrawPair, Zenon DEF matches
<1>3. ASSUME NEW q \in Pairs
      PROVE  backed(q)' = backed(q) /\ held(q)' = held(q)
  <2>1. Cardinality(toL1(q)') = Cardinality(toL1(q)) + (IF q = p THEN 1 ELSE 0)
    BY <1>1, <1>2, BridgeSends, Zenon
  <2>2. toL2(q)' = toL2(q)
    BY <1>1, Zenon DEF toL2, fromBridge
  <2>3. minted(q)' = minted(q) - (IF q = p THEN 1 ELSE 0)
    <3>1. CASE q = p
      BY <1>1, <1>2, <3>1, Zenon DEF minted, matches, LedgerInv, MoneyTypes
    <3>2. CASE q # p
      <4>1. matches(q) => q[2] # t
        BY <1>2, <3>2, MatchUnique, Zenon
      <4>2. minted(q)' = minted(q)
        BY <1>1, <4>1, Zenon DEF minted, matches, LedgerInv, MoneyTypes
      <4>3. QED
        BY <3>2, <4>2, OnTheWay, SMTT(30)
    <3>3. QED
      BY <3>1, <3>2, Zenon
  <2>4. backed(q)' = minted(q)' + Cardinality(toL2(q)') + Cardinality(toL1(q)')
    BY Zenon DEF backed, minted
  <2>5. backed(q)' = backed(q)
    <3>1. /\ Cardinality(toL2(q)) \in Nat /\ Cardinality(toL1(q)) \in Nat /\ minted(q) \in Int
          /\ backed(q) = minted(q) + Cardinality(toL2(q)) + Cardinality(toL1(q))
      BY OnTheWay, Zenon
    <3>2. QED
      BY <2>1, <2>2, <2>3, <2>4, <3>1, SMTT(30)
  <2>6. QED
    BY <1>1, <2>5, Zenon DEF held
<1>4. sent \subseteq sent'
  BY <1>1, <1>2, SendsOnL2, Zenon DEF LedgerInv
<1>5. QED
  BY <1>1, <1>3, <1>4, Zenon DEF Backed

(* One queue element on L2: minted, sent back, or left.                      *)
LEMMA FinalizeBacked ==
    ASSUME IInv, LedgerInv, Backed, L2relayMessage
    PROVE  Backed'
<1> USE DEF IInv
<1> DEFINE m == queue[executed + 1]
<1>1. UNCHANGED <<queue, received1, locked, deposits>>
  BY Zenon DEF L2relayMessage, onL1
<1>2. m \in Queued /\ m.pair \in Pairs
  BY NextElement, Zenon
<1>3. \A q \in Pairs : held(q)' = held(q)
  BY <1>1, Zenon DEF held
<1>4. ASSUME fresh2(m), fromBridge(m), finalizeDeposit(m.pair), received2' = received2 \cup {m}
      PROVE  sent \subseteq sent' /\ \A q \in Pairs : backed(q)' = backed(q)
  <2>1. ASSUME NEW q \in Pairs
        PROVE  Cardinality(toL2(q)') = Cardinality(toL2(q)) - (IF q = m.pair THEN 1 ELSE 0)
    <3>1. toL2(q)' = toL2(q) \ {m}
      BY <1>1, <1>4, Zenon DEF toL2, fromBridge
    <3>2. m \in toL2(q) <=> q = m.pair
      BY <1>2, <1>4, OnTheWay, SMTT(30) DEF fresh2
    <3>3. IsFiniteSet(toL2(q))
      BY OnTheWay, Zenon
    <3>4. HIDE DEF m
    <3>5. Cardinality(toL2(q) \ {m}) = Cardinality(toL2(q)) - (IF q = m.pair THEN 1 ELSE 0)
      BY <3>2, <3>3, Removed, Zenon
    <3>6. QED
      BY <3>1, <3>5, Zenon
  <2>2. \A q \in Pairs : backed(q)' = minted(q)' + Cardinality(toL2(q)') + Cardinality(toL1(q)')
    BY Zenon DEF backed, minted
  <2>3. CASE /\ matches(m.pair) /\ nothingSent
             /\ supply' = [supply EXCEPT ![m.pair[2]] = @ + 1]
    <3>1. sent' = sent
      BY <2>3, SendsNothing, Zenon DEF LedgerInv
    <3>2. ASSUME NEW q \in Pairs
          PROVE  backed(q)' = backed(q)
      <4>1. toL1(q)' = toL1(q)
        BY <1>1, <3>1, Zenon DEF toL1, fromBridge
      <4>2. minted(q)' = minted(q) + (IF q = m.pair THEN 1 ELSE 0)
        <5>1. CASE q = m.pair
          BY <2>3, <5>1, Zenon DEF minted, matches, LedgerInv, MoneyTypes
        <5>2. CASE q # m.pair
          <6>1. matches(q) => q[2] # m.pair[2]
            BY <1>2, <2>3, <5>2, MatchUnique, Zenon
          <6>2. minted(q)' = minted(q)
            BY <2>3, <6>1, Zenon DEF minted, matches, LedgerInv, MoneyTypes
          <6>3. QED
            BY <5>2, <6>2, OnTheWay, SMTT(30)
        <5>3. QED
          BY <5>1, <5>2, Zenon
      <4>3. QED
        <5>1. /\ Cardinality(toL2(q)) \in Nat /\ Cardinality(toL1(q)) \in Nat /\ minted(q) \in Int
              /\ backed(q) = minted(q) + Cardinality(toL2(q)) + Cardinality(toL1(q))
          BY OnTheWay, Zenon
        <5>2. /\ Cardinality(toL2(q)') = Cardinality(toL2(q)) - (IF q = m.pair THEN 1 ELSE 0)
              /\ backed(q)' = minted(q)' + Cardinality(toL2(q)') + Cardinality(toL1(q)')
          BY <2>1, <2>2, Zenon
        <5> HIDE DEF m
        <5>3. QED
          BY <4>1, <4>2, <5>1, <5>2, SMTT(30)
    <3>3. QED
      BY <3>1, <3>2, Zenon
  <2>4. CASE ~matches(m.pair) /\ L2sendMessage("bridge", m.pair) /\ UNCHANGED supply
    <3>1. sent \subseteq sent'
      BY <1>2, <2>4, SendsOnL2, Zenon DEF LedgerInv
    <3>2. ASSUME NEW q \in Pairs
          PROVE  backed(q)' = backed(q)
      <4>1. Cardinality(toL1(q)') = Cardinality(toL1(q)) + (IF q = m.pair THEN 1 ELSE 0)
        BY <1>1, <1>2, <2>4, BridgeSends, Zenon
      <4>2. minted(q)' = minted(q)
        BY <2>4, Zenon DEF minted, matches
      <4>3. QED
        <5>1. /\ Cardinality(toL2(q)) \in Nat /\ Cardinality(toL1(q)) \in Nat /\ minted(q) \in Int
              /\ backed(q) = minted(q) + Cardinality(toL2(q)) + Cardinality(toL1(q))
          BY OnTheWay, Zenon
        <5>2. /\ Cardinality(toL2(q)') = Cardinality(toL2(q)) - (IF q = m.pair THEN 1 ELSE 0)
              /\ backed(q)' = minted(q)' + Cardinality(toL2(q)') + Cardinality(toL1(q)')
          BY <2>1, <2>2, Zenon
        <5> HIDE DEF m
        <5>3. QED
          BY <4>1, <4>2, <5>1, <5>2, SMTT(30)
    <3>3. QED
      BY <3>1, <3>2, Zenon
  <2>5. QED
    BY <1>4, <2>3, <2>4, Zenon DEF finalizeDeposit
<1>5. ASSUME nothingSent, UNCHANGED <<supply, received2>>
      PROVE  sent \subseteq sent' /\ \A q \in Pairs : backed(q)' = backed(q)
  <2>1. sent' = sent
    BY <1>5, SendsNothing, Zenon DEF LedgerInv
  <2>2. \A q \in Pairs : toL2(q)' = toL2(q) /\ toL1(q)' = toL1(q)
    BY <1>1, <1>5, <2>1, Zenon DEF toL1, toL2, fromBridge
  <2>3. QED
    BY <1>5, <2>1, <2>2, Zenon DEF backed, matches
<1>6. sent \subseteq sent' /\ \A q \in Pairs : backed(q)' = backed(q)
  BY <1>4, <1>5, Zenon DEF L2relayMessage
<1>7. QED
  BY <1>1, <1>3, <1>6, Zenon DEF Backed

(* The other steps move no money.                                            *)
LEMMA OthersBacked ==
    ASSUME IInv, LedgerInv, Backed,
           UNCHANGED <<received1, received2, locked, deposits, supply>>,
           \A q \in Pairs : toL2(q)' = toL2(q) /\ toL1(q)' = toL1(q),
           sent \subseteq sent'
    PROVE  Backed'
<1>1. \A q \in Pairs : held(q)' = held(q) /\ backed(q)' = backed(q)
  BY Zenon DEF held, backed, matches
<1>2. QED
  BY <1>1, Zenon DEF Backed

LEMMA UserBacked ==
    ASSUME IInv, LedgerInv, Backed, NEW p \in Pairs, userSendsOnL1(p) \/ userSendsOnL2(p)
    PROVE  Backed'
<1> USE DEF IInv
<1>1. CASE userSendsOnL1(p)
  <2>1. /\ L1sendMessage("user", p)
        /\ UNCHANGED <<received1, received2, locked, deposits, supply, states>>
    BY <1>1, Zenon DEF userSendsOnL1, onL2
  <2>2. sent' = sent
    BY <2>1, SentUnchanged, Zenon
  <2>3. Queued' = Queued \cup {Message("user", p, Len(queue))}
    BY <2>1, SendsOnL1, Zenon DEF LedgerInv
  <2>4. ~fromBridge(Message("user", p, Len(queue)))
    BY MessageFields DEF fromBridge
  <2>5. ASSUME NEW q \in Pairs
        PROVE  toL2(q)' = toL2(q) /\ toL1(q)' = toL1(q)
    <3>1. toL2(q)' = {m \in Queued' : fromBridge(m) /\ m.pair = q} \ received2
      BY <2>1, Zenon DEF toL2, Queued, fromBridge
    <3>2. toL2(q)' = toL2(q)
      BY <2>3, <2>4, <3>1, OnTheWay, SMTT(30)
    <3>3. QED
      BY <2>1, <2>2, <3>2, Zenon DEF toL1, fromBridge
  <2>6. QED
    BY <2>1, <2>2, <2>5, OthersBacked, Zenon
<1>2. CASE userSendsOnL2(p)
  <2>1. /\ L2sendMessage("user", p)
        /\ UNCHANGED <<received1, received2, locked, deposits, supply, queue>>
    BY <1>2, Zenon DEF userSendsOnL2, onL1
  <2>2. sent' = sent \cup {Message("user", p, messageNonce)}
    BY <2>1, SendsOnL2, Zenon DEF LedgerInv
  <2>3. ~fromBridge(Message("user", p, messageNonce))
    BY MessageFields DEF fromBridge
  <2>4. ASSUME NEW q \in Pairs
        PROVE  toL2(q)' = toL2(q) /\ toL1(q)' = toL1(q)
    BY <2>1, <2>2, <2>3, Zenon DEF toL1, toL2, fromBridge
  <2>5. QED
    BY <2>1, <2>2, <2>4, OthersBacked, Zenon
<1>3. QED
  BY <1>1, <1>2, Zenon

LEMMA QuietBacked ==
    ASSUME IInv, LedgerInv, Backed,
           \/ replayMessage \/ ownerCall \/ proposes \/ proposesWrong \/ deletes
           \/ mineBlock \/ UNCHANGED vars
    PROVE  Backed'
<1> USE DEF IInv
<1>1. UNCHANGED <<received1, received2, locked, deposits, supply, states>>
  BY Zenon DEF replayMessage, ownerCall, proposes, proposesWrong, append, deletes, mineBlock, vars,
         onL1, onL2
<1>2. sent' = sent
  BY <1>1, SentUnchanged, Zenon
<1>3. Queued' = Queued
  <2>1. CASE replayMessage
    BY <2>1, Replays, Zenon DEF LedgerInv
  <2>2. CASE \/ ownerCall \/ proposes \/ proposesWrong \/ deletes \/ mineBlock
             \/ UNCHANGED vars
    BY <2>2, Zenon DEF ownerCall, proposes, proposesWrong, append, deletes, mineBlock, vars, onL1, Queued
  <2>3. QED
    BY <2>1, <2>2, Zenon
<1>4. ASSUME NEW q \in Pairs
      PROVE  toL2(q)' = toL2(q) /\ toL1(q)' = toL1(q)
  <2>1. toL2(q)' = {m \in Queued' : fromBridge(m) /\ m.pair = q} \ received2
    BY <1>1, Zenon DEF toL2, Queued, fromBridge
  <2>2. toL2(q)' = toL2(q)
    BY <1>3, <2>1, OnTheWay, SMTT(30)
  <2>3. QED
    BY <1>1, <1>2, <2>2, Zenon DEF toL1, fromBridge
<1>5. QED
  BY <1>1, <1>2, <1>4, OthersBacked, Zenon

LEMMA MoneyInit == Init => MoneyIInv
<1>1. SUFFICES ASSUME Init PROVE MoneyIInv
  BY Zenon
<1>2. queue = << >> /\ states = << >> /\ received1 = {} /\ received2 = {} /\ batches = << >>
      /\ messageNonce = 0 /\ ctcTotal \in Nat
  BY <1>1, InitInv, Zenon DEF Init, SCC!Init, IInv, TypeInv
<1>3. Queued = {} /\ sent = {}
  BY <1>2 DEF Queued, sent
<1>4. MoneyTypes
  BY <1>1 DEF Init, MoneyTypes
<1>5. LedgerInv
  BY <1>2, <1>3, <1>4, FS_EmptySet DEF LedgerInv, QueueInv, SentInv, RootsInv
<1>6. ASSUME NEW q \in Pairs
      PROVE  held(q) = 0 /\ backed(q) = 0
  <2>1. toL2(q) = {} /\ toL1(q) = {}
    BY <1>2, <1>3, <1>5, OnTheWay, SMTT(30) DEF toL1
  <2>2. Cardinality(toL2(q)) = 0 /\ Cardinality(toL1(q)) = 0
    BY <2>1, FS_EmptySet, Zenon
  <2>3. minted(q) = 0
    BY <1>1, Zenon DEF Init, minted, matches
  <2>4. held(q) = 0
    BY <1>1, PairFacts, Zenon DEF Init, held
  <2>5. QED
    BY <1>5, <2>2, <2>3, <2>4, OnTheWay, SMTT(30)
<1>7. Backed
  <2>1. /\ locked["MNT"] = 0 /\ locked["T"] = 0
        /\ deposits[<<"MNT", "BVM_MANTLE">>] = 0
        /\ deposits[<<"T", "T2">>] = 0 /\ deposits[<<"T", "Other">>] = 0
    BY <1>1, PairFacts, Zenon DEF Init
  <2>2. QED
    BY <1>2, <1>6, <2>1 DEF Backed
<1>8. QED
  BY <1>1, <1>5, <1>7, InitInv, Zenon DEF MoneyIInv, MoneyInv

LEMMA MoneyStep ==
    ASSUME MoneyIInv, [Next]_vars
    PROVE  MoneyIInv'
<1>1. IInv /\ LedgerInv
  BY Zenon DEF MoneyIInv, MoneyInv
<1>2. IInv'
  BY <1>1, StepInv, Zenon
<1>3. LedgerInv'
  BY <1>1, MoneyTypesStep, QueueStep, SentGrows, RootsStep, Zenon DEF LedgerInv, IInv
<1>4. ASSUME NoWrongRootFinal'
      PROVE  Backed'
  <2>1. NoWrongRootFinal /\ Backed
    BY <1>1, <1>4, PremiseStable, Zenon DEF MoneyIInv, MoneyInv
  <2>2. QED
    BY <1>1, <2>1, DepositBacked, RelayBacked, WithdrawBacked, FinalizeBacked, UserBacked,
       QuietBacked, Zenon DEF Next
<1>5. QED
  BY <1>2, <1>3, <1>4, Zenon DEF MoneyIInv, MoneyInv

(* The bridges neither lose nor make money, for every number of messages,    *)
(* replays and batches, while no wrong state root becomes final.             *)
THEOREM BridgeSolvent == Spec => []BridgeBacked
<1>1. Init => MoneyIInv
  BY MoneyInit, Zenon
<1>2. MoneyIInv /\ [Next]_vars => MoneyIInv'
  BY MoneyStep, Zenon
<1>3. MoneyIInv => BridgeBacked
  BY BackedIsBridgeBacked, Zenon DEF MoneyIInv, MoneyInv
<1>4. QED
  BY <1>1, <1>2, <1>3, PTL DEF Spec
=============================================================================
