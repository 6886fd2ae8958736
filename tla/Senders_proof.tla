--------------------------- MODULE Senders_proof ---------------------------
(***************************************************************************)
(* Proofs about those who send transactions to the L1 contracts.  How a    *)
(* sender learns that its transaction was mined: TxMgr.tla, for any number *)
(* of publications, confirmations, RPC failures and reorganisations of L1. *)
(* Who may send to the rollup contract: the list of Whitelist.tla is a set *)
(* of addresses, for any addresses and batches.                            *)
(***************************************************************************)
EXTENDS TxMgr, Whitelist, SequenceTheorems, WellFoundedInduction, TLAPS

(* A publication known to be mined at the height a goroutine has read.      *)
MinedAsRead(s) == minedTx = s /\ txHeight[s] = minedAt
DeepEnough == tip >= minedAt + NumConfirmations - 1

(* Until L1 reorganises, what a goroutine has read about the chain stays    *)
(* true, and a nonce-too-low error is evidence of a spent nonce at every    *)
(* point it passes through: the error, the count, the decision, the         *)
(* cancellation.                                                            *)
ChainInv ==
    /\ \A s \in Slots :
         /\ pc[s] \in {"tooLow", "abort"} => minedTx # NoTx
         /\ pc[s] = "height" => MinedAsRead(s)
         /\ pc[s] = "report" => minedTx = s /\ DeepEnough
    /\ nonceTooLowCount > 0 => minedTx # NoTx
    /\ receiptChan # NoTx => minedTx = receiptChan /\ DeepEnough
    /\ receipt # NoTx => minedTx = receipt /\ DeepEnough
    /\ cause = "nonce" => minedTx # NoTx

(* The inductive invariant.  A mined transaction has a height, whatever L1  *)
(* does.                                                                    *)
TxMgrInv ==
    /\ TypeOK
    /\ minedTx # NoTx => minedAt > 0
    /\ reorgs = 0 => ChainInv

-----------------------------------------------------------------------------
(* Send starts in the invariant. *)
LEMMA TxMgrInitInv == Init => TxMgrInv
<1> SUFFICES ASSUME Init PROVE TxMgrInv
  BY Zenon
<1>1. PICK s0 \in Slots : pc = [t \in Slots |-> IF t = s0 THEN "price" ELSE "free"]
  BY Zenon DEF Init
<1>2. pc \in [Slots -> {"price", "free"}]
  BY <1>1, Zenon
<1>3. TypeOK
  BY <1>2, Zenon DEF Init, TypeOK, Labels
<1> QED
  BY <1>2, <1>3 DEF Init, TxMgrInv, ChainInv

(* A goroutine's step keeps the invariant. *)
LEMMA GoroutineInv ==
  ASSUME TxMgrInv, NEW s \in Slots, Goroutine(s)
  PROVE  TxMgrInv'
<1> USE TxMgrConstants
<1>0. TypeOK /\ (minedTx # NoTx => minedAt > 0) /\ (reorgs = 0 => ChainInv)
  BY Zenon DEF TxMgrInv
<1>t. /\ pc \in [Slots -> Labels] /\ txHeight \in [Slots -> Nat]
      /\ minedAt \in Nat /\ tip \in Nat /\ nonceTooLowCount \in Nat
      /\ rpcErrors \in Nat
  BY <1>0, Zenon DEF TypeOK
<1>1. CASE updateGasPrice(s)
  <2>1. /\ pc' \in [Slots -> Labels]
        /\ pc'[s] \in {"send", "free"}
        /\ \A t \in Slots : t # s => pc'[t] = pc[t]
    BY <1>1, <1>t, Zenon DEF updateGasPrice, goto, Labels
  <2>2. canceled' \in BOOLEAN /\ cause' \in {"none", "price", "nonce", "done"}
    BY <1>0, <1>1, Zenon DEF updateGasPrice, cancel, ctx, TypeOK
  <2>3. cause' = "nonce" => cause = "nonce"
    BY <1>1, Zenon DEF updateGasPrice, cancel, ctx
  <2>4. rpcErrors' \in Nat
    BY <1>t, <1>1 DEF updateGasPrice, rpcFails
  <2>5. TypeOK'
    BY <1>0, <1>1, <2>1, <2>2, <2>4, Zenon DEF updateGasPrice, TypeOK, mainState, sendState, l1
  <2> QED
    BY <1>1, <2>1, <2>3, <2>5, Zenon DEF updateGasPrice, TxMgrInv, ChainInv,
       MinedAsRead, DeepEnough, mainState, sendState, l1
<1>2. CASE sendTx(s)
  <2>1. /\ pc' \in [Slots -> Labels]
        /\ pc'[s] \in {"free", "receipt", "otherError", "tooLow"}
        /\ pc'[s] = "tooLow" => minedTx # NoTx
        /\ \A t \in Slots : t # s => pc'[t] = pc[t]
    BY <1>2, <1>t, Zenon DEF sendTx, goto, Labels
  <2>2. rpcErrors' \in Nat
    BY <1>t, <1>2 DEF sendTx, rpcFails
  <2>3. mempool' \subseteq Slots \cup {Foreign}
    BY <1>0, <1>2, Zenon DEF sendTx, TypeOK
  <2>5. TypeOK'
    BY <1>0, <1>2, <2>1, <2>2, <2>3, Zenon DEF sendTx, TypeOK, mainState, sendState, ctx
  <2> QED
    BY <1>2, <2>1, <2>5, Zenon DEF sendTx, TxMgrInv, ChainInv,
       MinedAsRead, DeepEnough, mainState, sendState, ctx
<1>3. CASE ProcessSendError(s)
  <2>1. /\ pc' \in [Slots -> Labels] /\ pc'[s] = "check"
        /\ \A t \in Slots : t # s => pc'[t] = pc[t]
    BY <1>3, <1>t, Zenon DEF ProcessSendError, goto, Labels
  <2>2. nonceTooLowCount' \in Nat /\ (reorgs = 0 /\ nonceTooLowCount' > 0 => minedTx # NoTx)
    BY <1>0, <1>3, <1>t DEF ProcessSendError, counts, ChainInv
  <2>5. TypeOK'
    BY <1>0, <1>3, <2>1, <2>2, Zenon DEF ProcessSendError, TypeOK, mainState, l1, ctx
  <2> QED
    BY <1>3, <2>1, <2>2, <2>5, Zenon DEF ProcessSendError, TxMgrInv, ChainInv,
       MinedAsRead, DeepEnough, mainState, l1, ctx
<1>4. CASE checkAbort(s)
  <2>1. /\ pc' \in [Slots -> Labels] /\ pc'[s] \in {"abort", "free"}
        /\ \A t \in Slots : t # s => pc'[t] = pc[t]
        /\ pc'[s] = "abort" => ShouldAbortImmediately
    BY <1>4, <1>t, Zenon DEF checkAbort, goto, Labels
  <2>2. reorgs = 0 /\ pc'[s] = "abort" => minedTx # NoTx
    BY <1>0, <2>1, <1>t DEF ShouldAbortImmediately, ChainInv
  <2>5. TypeOK'
    BY <1>0, <1>4, <2>1, Zenon DEF checkAbort, TypeOK, mainState, sendState, l1, ctx
  <2> QED
    BY <1>4, <2>1, <2>2, <2>5, Zenon DEF checkAbort, TxMgrInv, ChainInv,
       MinedAsRead, DeepEnough, mainState, sendState, l1, ctx
<1>5. CASE abort(s)
  <2>1. /\ pc' \in [Slots -> Labels] /\ pc'[s] = "free"
        /\ \A t \in Slots : t # s => pc'[t] = pc[t]
    BY <1>5, <1>t, Zenon DEF abort, goto, Labels
  <2>2. reorgs = 0 => minedTx # NoTx
    BY <1>0, <1>5, Zenon DEF abort, ChainInv
  <2>3. canceled' \in BOOLEAN /\ cause' \in {"none", "price", "nonce", "done"}
    BY <1>0, <1>5, Zenon DEF abort, cancel, TypeOK
  <2>5. TypeOK'
    BY <1>0, <1>5, <2>1, <2>3, Zenon DEF abort, TypeOK, mainState, sendState, l1
  <2> QED
    BY <1>5, <2>1, <2>2, <2>5, Zenon DEF abort, TxMgrInv, ChainInv,
       MinedAsRead, DeepEnough, mainState, sendState, l1
<1>6. CASE queryReceipt(s)
  <2>1. /\ pc' \in [Slots -> Labels] /\ pc'[s] \in {"height", "ticker"}
        /\ \A t \in Slots : t # s => pc'[t] = pc[t]
    BY <1>6, <1>t, Zenon DEF queryReceipt, goto, Labels
  <2>2. /\ txHeight' \in [Slots -> Nat]
        /\ \A t \in Slots : t # s => txHeight'[t] = txHeight[t]
        /\ pc'[s] = "height" => minedTx = s /\ txHeight'[s] = minedAt
    BY <1>6, <1>t, Zenon DEF queryReceipt, goto
  <2>3. minedTxs' \subseteq Slots
    BY <1>0, <1>6, Zenon DEF queryReceipt, TypeOK, sendState
  <2>4. nonceTooLowCount' \in Nat /\ nonceTooLowCount' <= nonceTooLowCount
    BY <1>t, <1>6 DEF queryReceipt, countAfterNotMined, sendState
  <2>5. rpcErrors' \in Nat
    BY <1>t, <1>6 DEF queryReceipt, rpcFails
  <2>6. TypeOK'
    BY <1>0, <1>6, <2>1, <2>2, <2>3, <2>4, <2>5, Zenon DEF queryReceipt, TypeOK, mainState, l1, ctx
  <2>7. reorgs = 0 /\ nonceTooLowCount' > 0 => minedTx # NoTx
    BY <1>0, <2>4, <1>t DEF ChainInv
  <2> QED
    BY <1>6, <2>1, <2>2, <2>6, <2>7, Zenon DEF queryReceipt, TxMgrInv, ChainInv,
       MinedAsRead, DeepEnough, mainState, l1, ctx
<1>7. CASE queryHeight(s)
  <2>1. /\ pc' \in [Slots -> Labels] /\ pc'[s] \in {"report", "ticker"}
        /\ \A t \in Slots : t # s => pc'[t] = pc[t]
        /\ pc'[s] = "report" => confirmed(s)
    BY <1>7, <1>t, Zenon DEF queryHeight, goto, Labels
  <2>2. reorgs = 0 => minedTx = s /\ txHeight[s] = minedAt
    BY <1>0, <1>7, Zenon DEF queryHeight, ChainInv, MinedAsRead
  <2>3. reorgs = 0 /\ pc'[s] = "report" => DeepEnough
    BY <2>1, <2>2, <1>t DEF confirmed, DeepEnough
  <2>4. rpcErrors' \in Nat
    BY <1>t, <1>7 DEF queryHeight, rpcFails
  <2>5. /\ txHeight' \in [Slots -> Nat]
        /\ \A t \in Slots : t # s => txHeight'[t] = txHeight[t]
    BY <1>7, <1>t, Zenon DEF queryHeight
  <2>6. TypeOK'
    BY <1>0, <1>7, <2>1, <2>4, <2>5, Zenon DEF queryHeight, TypeOK, mainState, sendState, l1, ctx
  <2> QED
    BY <1>0, <1>7, <2>1, <2>2, <2>3, <2>5, <2>6, Zenon DEF queryHeight, TxMgrInv, ChainInv,
       MinedAsRead, DeepEnough, mainState, sendState, l1, ctx
<1>8. CASE nextQuery(s)
  <2>1. /\ pc' \in [Slots -> Labels] /\ pc'[s] \in {"free", "receipt"}
        /\ \A t \in Slots : t # s => pc'[t] = pc[t]
    BY <1>8, <1>t, Zenon DEF nextQuery, goto, afterTicker, Labels
  <2>5. TypeOK'
    BY <1>0, <1>8, <2>1, Zenon DEF nextQuery, TypeOK, mainState, sendState, l1, ctx
  <2> QED
    BY <1>8, <2>1, <2>5, Zenon DEF nextQuery, TxMgrInv, ChainInv,
       MinedAsRead, DeepEnough, mainState, sendState, l1, ctx
<1>9. CASE reportReceipt(s)
  <2>1. /\ pc' \in [Slots -> Labels] /\ pc'[s] = "free"
        /\ \A t \in Slots : t # s => pc'[t] = pc[t]
    BY <1>9, <1>t, Zenon DEF reportReceipt, goto, Labels
  <2>2. reorgs = 0 => minedTx = s /\ DeepEnough
    BY <1>0, <1>9, Zenon DEF reportReceipt, ChainInv, MinedAsRead
  <2>3. receiptChan' \in Slots \cup {NoTx}
    BY <1>0, <1>9, Zenon DEF reportReceipt, TypeOK
  <2>4. reorgs = 0 /\ receiptChan' # NoTx => minedTx = receiptChan'
    BY <1>0, <1>9, <2>2, Zenon DEF reportReceipt, ChainInv
  <2>5. TypeOK'
    BY <1>0, <1>9, <2>1, <2>3, Zenon DEF reportReceipt, TypeOK, sendState, l1, ctx
  <2> QED
    BY <1>9, <2>1, <2>2, <2>4, <2>5, Zenon DEF reportReceipt, TxMgrInv, ChainInv,
       MinedAsRead, DeepEnough, sendState, l1, ctx
<1> QED
  BY <1>1, <1>2, <1>3, <1>4, <1>5, <1>6, <1>7, <1>8, <1>9, Zenon DEF Goroutine

(* So does a step of the main loop or of the L1 chain.  A reorganisation    *)
(* leaves only the types to keep.                                           *)
LEMMA MainAndChainInv ==
  ASSUME TxMgrInv,
         \/ \E s \in Slots : resubmit(s)
         \/ takeReceipt \/ takeDone \/ return
         \/ mineTx \/ mineOther \/ reorg
  PROVE  TxMgrInv'
<1> USE TxMgrConstants
<1>0. TypeOK /\ (minedTx # NoTx => minedAt > 0) /\ (reorgs = 0 => ChainInv)
  BY Zenon DEF TxMgrInv
<1>t. /\ pc \in [Slots -> Labels] /\ minedAt \in Nat /\ tip \in Nat
  BY <1>0, Zenon DEF TypeOK
<1>1. ASSUME NEW s \in Slots, resubmit(s) PROVE TxMgrInv'
  <2>1. /\ pc' \in [Slots -> Labels] /\ pc'[s] = "price"
        /\ \A t \in Slots : t # s => pc'[t] = pc[t]
    BY <1>1, <1>t, Zenon DEF resubmit, goto, Labels
  <2>5. TypeOK'
    BY <1>0, <1>1, <2>1, Zenon DEF resubmit, TypeOK, mainState, sendState, l1, ctx
  <2> QED
    BY <1>1, <2>1, <2>5, Zenon DEF resubmit, TxMgrInv, ChainInv,
       MinedAsRead, DeepEnough, mainState, sendState, l1, ctx
<1>2. CASE takeReceipt
  <2>1. /\ receipt' \in Slots /\ receiptChan' = NoTx
        /\ reorgs = 0 => minedTx = receipt' /\ DeepEnough
    BY <1>0, <1>2, Zenon DEF takeReceipt, ChainInv, TypeOK
  <2>2. canceled' \in BOOLEAN /\ cause' \in {"none", "price", "nonce", "done"}
    BY <1>0, <1>2, Zenon DEF takeReceipt, cancel, TypeOK
  <2>3. cause' = "nonce" => cause = "nonce"
    BY <1>2, Zenon DEF takeReceipt, cancel
  <2>5. TypeOK'
    BY <1>0, <1>2, <2>1, <2>2, Zenon DEF takeReceipt, TypeOK, sendState, l1
  <2> QED
    BY <1>2, <2>1, <2>3, <2>5, Zenon DEF takeReceipt, TxMgrInv, ChainInv,
       MinedAsRead, DeepEnough, sendState, l1
<1>3. CASE takeDone \/ return
  <2>1. TypeOK'
    BY <1>0, <1>3, Zenon DEF takeDone, return, TypeOK, sendState, l1, ctx
  <2> QED
    BY <1>3, <2>1, Zenon DEF takeDone, return, TxMgrInv, ChainInv,
       MinedAsRead, DeepEnough, sendState, l1, ctx
<1>4. CASE mineTx
  <2>1. /\ minedTx = NoTx /\ minedTx' \in Slots \cup {Foreign} /\ minedTx' # NoTx
        /\ minedAt' \in Nat /\ minedAt' > 0 /\ tip' \in Nat
    BY <1>0, <1>t, <1>4 DEF mineTx, TypeOK
  <2>2. TypeOK'
    BY <1>0, <1>4, <2>1, Zenon DEF mineTx, TypeOK, mainState, sendState, ctx
  <2>3. reorgs = 0 => \A s \in Slots : pc[s] \notin {"height", "report"}
    BY <1>0, <2>1, Zenon DEF ChainInv, MinedAsRead
  <2>4. reorgs = 0 => receiptChan = NoTx /\ receipt = NoTx
    BY <1>0, <2>1, Zenon DEF ChainInv, TypeOK
  <2> QED
    BY <1>4, <2>1, <2>2, <2>3, <2>4, Zenon DEF mineTx, TxMgrInv, ChainInv,
       mainState, sendState, ctx
<1>5. CASE mineOther
  <2>1. TypeOK'
    BY <1>0, <1>t, <1>5 DEF mineOther, TypeOK, mainState, sendState, ctx
  <2>2. DeepEnough => DeepEnough'
    BY <1>t, <1>5 DEF mineOther, DeepEnough
  <2> QED
    BY <1>0, <1>5, <2>1, <2>2, Zenon DEF mineOther, TxMgrInv, ChainInv,
       MinedAsRead, mainState, sendState, ctx
<1>6. CASE reorg
  <2>1. minedTx' = NoTx /\ minedAt' \in Nat /\ reorgs' \in Nat /\ reorgs' # 0
    BY <1>0, <1>6 DEF reorg, TypeOK
  <2>2. tip' \in Nat
    BY <1>0, <1>t, <1>6 DEF reorg
  <2>3. TypeOK'
    BY <1>0, <1>6, <2>1, <2>2, Zenon DEF reorg, TypeOK, mainState, sendState, ctx
  <2> QED BY <2>1, <2>3, Zenon DEF TxMgrInv
<1> QED BY <1>1, <1>2, <1>3, <1>4, <1>5, <1>6, Zenon

(* However the goroutines, the RPC failures and L1 interleave, a receipt    *)
(* that Send returns is confirmed and an aborted nonce is spent, unless L1  *)
(* has reorganised meanwhile.                                               *)
THEOREM TxMgrSafety == Spec => [](TypeOK /\ ReceiptConfirmed /\ AbortMeansSpent)
<1>1. TxMgrInv /\ [Next]_vars => TxMgrInv'
  <2> SUFFICES ASSUME TxMgrInv, [Next]_vars PROVE TxMgrInv'
    BY Zenon
  <2>1. CASE UNCHANGED vars
    BY <2>1 DEF vars, TxMgrInv, ChainInv, TypeOK, MinedAsRead, DeepEnough,
       mainState, sendState, l1, ctx
  <2> QED BY <2>1, GoroutineInv, MainAndChainInv, Zenon DEF Next
<1>2. TxMgrInv => TypeOK /\ ReceiptConfirmed /\ AbortMeansSpent
  <2> SUFFICES ASSUME TxMgrInv PROVE TypeOK /\ ReceiptConfirmed /\ AbortMeansSpent
    BY Zenon
  <2>1. reorgs \in Nat
    BY Zenon DEF TxMgrInv, TypeOK
  <2> QED BY <2>1 DEF TxMgrInv, ChainInv, ReceiptConfirmed, AbortMeansSpent, DeepEnough
<1> QED BY <1>1, <1>2, TxMgrInitInv, PTL DEF Spec

(* So a Send that gives up on errors of nonces too low does so only when the *)
(* nonce is spent, until L1 reorganises.                                     *)
COROLLARY TxMgrAborts == Spec => []AbortMeansSpent
<1> QED BY TxMgrSafety, PTL

-----------------------------------------------------------------------------
(* The array and the map of WhiteList.sol implement a set of addresses: one *)
(* round of each loop, the loops over a batch of any length, and the        *)
(* refinement of AbstractWhitelist.                                         *)

\* The addresses the modifier lets through.
Listed(list, index) == {a \in Addresses : listedIn(list, index, a)}

(* Pushing an address that is not on the list adds it and nobody else.      *)
THEOREM PushOneAdds ==
  ASSUME NEW list \in Seq(Addresses), NEW index \in [Addresses -> Nat],
         matches(list, index), NEW a \in Addresses, ~listedIn(list, index, a)
  PROVE  LET r == pushOne(list, index, a)
         IN /\ r.list \in Seq(Addresses) /\ r.index \in [Addresses -> Nat]
            /\ matches(r.list, r.index)
            /\ Listed(r.list, r.index) = Listed(list, index) \cup {a}
<1> DEFINE l == Append(list, a)
           x == [index EXCEPT ![a] = Len(list)]
<1>1. pushOne(list, index, a) = [list |-> l, index |-> x]
  BY Zenon DEF pushOne
<1>2. /\ l \in Seq(Addresses) /\ Len(l) = Len(list) + 1 /\ Len(list) \in Nat
      /\ \A i \in 1 .. Len(list) : l[i] = list[i]
      /\ l[Len(list) + 1] = a
  OBVIOUS
<1>3. /\ x \in [Addresses -> Nat]
      /\ x[a] = Len(list)
      /\ \A b \in Addresses : b # a => x[b] = index[b]
  OBVIOUS
<1>4. \A i \in 1 .. Len(list) : list[i] \in Addresses /\ index[list[i]] = i - 1
  BY DEF matches
<1>5. \A i \in 1 .. Len(list) : list[i] # a
  <2> SUFFICES ASSUME NEW i \in 1 .. Len(list), list[i] = a PROVE FALSE
    BY Zenon
  <2>1. index[a] = i - 1
    BY <1>4, Zenon
  <2> QED BY <2>1, <1>2 DEF listedIn
<1> HIDE DEF l, x
<1>6. matches(l, x)
  <2> SUFFICES ASSUME NEW i \in 1 .. Len(l) PROVE x[l[i]] = i - 1
    BY Zenon DEF matches
  <2>1. CASE i = Len(list) + 1
    BY <2>1, <1>2, <1>3
  <2>2. CASE i \in 1 .. Len(list)
    BY <2>2, <1>2, <1>3, <1>4, <1>5, Zenon
  <2> QED BY <2>1, <2>2, <1>2
<1>7. ASSUME NEW b \in Addresses
      PROVE listedIn(l, x, b) <=> listedIn(list, index, b) \/ b = a
  <2>1. CASE b = a
    BY <2>1, <1>2, <1>3 DEF listedIn
  <2>2. CASE b # a
    <3>1. x[b] = index[b] /\ index[b] \in Nat
      BY <2>2, <1>3, Zenon
    <3>2. CASE index[b] < Len(list)
      <4>0. index[b] + 1 \in 1 .. Len(list)
        BY <3>1, <3>2, <1>2
      <4>1. l[index[b] + 1] = list[index[b] + 1]
        BY <4>0, <1>2, Zenon
      <4> QED BY <2>2, <3>1, <3>2, <4>1, <1>2 DEF listedIn
    <3>3. CASE ~(index[b] < Len(list))
      <4>1. CASE index[b] < Len(l)
        <5>1. index[b] = Len(list)
          BY <3>1, <3>3, <4>1, <1>2
        <5> QED BY <2>2, <3>1, <3>3, <5>1, <1>2, Zenon DEF listedIn
      <4>2. CASE ~(index[b] < Len(l))
        BY <2>2, <3>1, <3>3, <4>2, Zenon DEF listedIn
      <4> QED BY <4>1, <4>2, Zenon
    <3> QED BY <3>2, <3>3, Zenon
  <2> QED BY <2>1, <2>2, Zenon
<1>8. Listed(l, x) = Listed(list, index) \cup {a}
  BY <1>7, Zenon DEF Listed
<1> QED BY <1>1, <1>2, <1>3, <1>6, <1>8

(* Removing an address that is on the list removes it and nobody else,      *)
(* although the last address changes places, and also when it is the last.  *)
THEOREM RemoveOneRemoves ==
  ASSUME NEW list \in Seq(Addresses), NEW index \in [Addresses -> Nat],
         matches(list, index), NEW a \in Addresses, listedIn(list, index, a)
  PROVE  LET r == removeOne(list, index, a)
         IN /\ mayRemoveOne(list, index, a)
            /\ r.list \in Seq(Addresses) /\ r.index \in [Addresses -> Nat]
            /\ matches(r.list, r.index)
            /\ Listed(r.list, r.index) = Listed(list, index) \ {a}
<1> DEFINE n == Len(list)
           k == index[a] + 1
           z == list[n]
           swapped == [list EXCEPT ![k] = z]
           l == SubSeq(swapped, 1, n - 1)
           moved == [index EXCEPT ![z] = index[a]]
           x == [moved EXCEPT ![a] = 0]
<1>1. removeOne(list, index, a) = [list |-> l, index |-> x]
  BY Zenon DEF removeOne
<1>2. n \in Nat /\ k \in 1 .. n /\ list[k] = a /\ index[a] = k - 1
  BY DEF listedIn
<1>3. mayRemoveOne(list, index, a)
  BY DEF listedIn, mayRemoveOne
<1>4. z \in Addresses /\ n \in 1 .. n
  BY <1>2
<1>5. swapped \in Seq(Addresses) /\ Len(swapped) = n
  BY <1>2, <1>4
<1>6. \A i \in 1 .. n : swapped[i] = IF i = k THEN z ELSE list[i]
  BY <1>2
<1>7. l \in Seq(Addresses) /\ Len(l) = n - 1
  BY <1>2, <1>5, SubSeqProperties
<1>8. \A i \in 1 .. n - 1 : l[i] = swapped[i]
  BY <1>2, <1>5, SubSeqProperties
<1>9. \A i \in 1 .. n - 1 : l[i] = IF i = k THEN z ELSE list[i]
  BY <1>2, <1>6, <1>8
<1>10. \A i \in 1 .. n : list[i] \in Addresses /\ index[list[i]] = i - 1
  BY DEF matches
<1>11. index[z] = n - 1
  BY <1>4, <1>10, Zenon
<1>12. \A i \in 1 .. n : list[i] = a => i = k
  BY <1>2, <1>10
<1>13. /\ x \in [Addresses -> Nat] /\ x[a] = 0
       /\ z # a => x[z] = k - 1
       /\ \A b \in Addresses : b # a /\ b # z => x[b] = index[b]
  BY <1>2, <1>4, Zenon
<1>14. z = a <=> k = n
  BY <1>2, <1>4, <1>12, Zenon
<1> HIDE DEF n, k, z, swapped, l, moved, x
<1>15. matches(l, x)
  <2> SUFFICES ASSUME NEW i \in 1 .. n - 1 PROVE x[l[i]] = i - 1
    BY <1>7, Zenon DEF matches
  <2>1. CASE i = k
    <3>1. z # a
      BY <2>1, <1>2, <1>14
    <3> QED BY <2>1, <3>1, <1>9, <1>13, Zenon
  <2>2. CASE i # k
    <3>1. i \in 1 .. n /\ i # n
      BY <1>2
    <3>2. l[i] = list[i] /\ list[i] \in Addresses /\ index[list[i]] = i - 1
      BY <2>2, <3>1, <1>9, <1>10, Zenon
    <3>3. list[i] # a
      BY <2>2, <3>1, <1>12, Zenon
    <3>4. list[i] # z
      BY <3>1, <3>2, <1>2, <1>11
    <3> QED BY <3>2, <3>3, <3>4, <1>13, Zenon
  <2> QED BY <2>1, <2>2, Zenon
<1>16. ~listedIn(l, x, a)
  <2> SUFFICES ASSUME n - 1 > 0, l[1] = a PROVE FALSE
    BY <1>7, <1>13 DEF listedIn
  <2>1. 1 \in 1 .. n - 1 /\ 1 \in 1 .. n
    BY <1>2
  <2>2. CASE k = 1
    <3>1. z = a
      BY <2>1, <2>2, <1>9, Zenon
    <3> QED BY <2>1, <2>2, <3>1, <1>2, <1>14
  <2>3. CASE k # 1
    <3>1. list[1] = a
      BY <2>1, <2>3, <1>9, Zenon
    <3> QED BY <2>1, <2>3, <3>1, <1>12, Zenon
  <2> QED BY <2>2, <2>3, Zenon
<1>17. ASSUME NEW b \in Addresses, b # a
       PROVE listedIn(l, x, b) <=> listedIn(list, index, b)
  <2>1. CASE b = z
    <3>1. k # n /\ x[z] = k - 1
      BY <2>1, <1>17, <1>13, <1>14, Zenon
    <3>2. k \in 1 .. n - 1
      BY <3>1, <1>2
    <3>3. l[k] = z /\ x[z] + 1 = k /\ x[z] < n - 1
      BY <3>1, <3>2, <1>2, <1>9
    <3>4. listedIn(l, x, z)
      BY <3>3, <1>7, Zenon DEF listedIn
    <3>5. index[z] < n /\ list[index[z] + 1] = z
      BY <1>2, <1>11 DEF z
    <3>6. listedIn(list, index, z)
      BY <3>5, Zenon DEF listedIn, n
    <3> QED BY <2>1, <3>4, <3>6, Zenon
  <2>2. CASE b # z
    <3>1. x[b] = index[b] /\ index[b] \in Nat
      BY <2>2, <1>17, <1>13, Zenon
    <3>2. CASE index[b] + 1 \in 1 .. n - 1
      <4>1. CASE index[b] + 1 = k
        <5>1. l[index[b] + 1] = z /\ list[index[b] + 1] = a
          BY <3>2, <4>1, <1>2, <1>9, Zenon
        <5>2. ~listedIn(l, x, b)
          BY <5>1, <3>1, <2>2, Zenon DEF listedIn
        <5>3. ~listedIn(list, index, b)
          BY <5>1, <1>17, Zenon DEF listedIn
        <5> QED BY <5>2, <5>3, Zenon
      <4>2. CASE index[b] + 1 # k
        <5>1. l[index[b] + 1] = list[index[b] + 1]
          BY <3>2, <4>2, <1>9, Zenon
        <5>0. index[b] < n - 1 /\ index[b] < n
          BY <3>1, <3>2, <1>2
        <5>2. index[b] < Len(l) /\ index[b] < Len(list)
          BY <5>0, <1>7, Zenon DEF n
        <5> QED BY <5>1, <5>2, <3>1, Zenon DEF listedIn
      <4> QED BY <4>1, <4>2, Zenon
    <3>3. CASE index[b] + 1 = n
      <4>1. ~listedIn(l, x, b)
        BY <3>1, <3>3, <1>2, <1>7 DEF listedIn
      <4>2. list[index[b] + 1] = z
        BY <3>3, Zenon DEF z
      <4> QED BY <4>1, <4>2, <2>2, Zenon DEF listedIn
    <3>4. CASE index[b] + 1 > n
      <4>1. ~listedIn(l, x, b)
        BY <3>1, <3>4, <1>2, <1>7 DEF listedIn
      <4>2. ~listedIn(list, index, b)
        BY <3>1, <3>4, <1>2 DEF listedIn, n
      <4> QED BY <4>1, <4>2, Zenon
    <3> QED BY <3>1, <3>2, <3>3, <3>4, <1>2
  <2> QED BY <2>1, <2>2, Zenon
<1>18. Listed(l, x) = Listed(list, index) \ {a}
  BY <1>16, <1>17, Zenon DEF Listed
<1> QED BY <1>1, <1>3, <1>7, <1>13, <1>15, <1>18

-----------------------------------------------------------------------------
(* Induction over the natural numbers, for a set instead of a predicate.    *)
LEMMA NatSetInduction ==
  ASSUME NEW T, 0 \in T, \A n \in Nat : n \in T => n + 1 \in T
  PROVE  \A n \in Nat : n \in T
<1> DEFINE C == {n \in Nat : n \notin T}
<1> SUFFICES ASSUME C # {} PROVE FALSE
  BY Zenon
<1>1. \E n \in C : \A m \in C : <<m, n>> \notin OpToRel(<, Nat)
  <2>1. C \subseteq Nat
    BY Zenon
  <2> QED BY <2>1, NatLessThanWellFounded, WFMin, Zenon
<1>2. PICK n \in C : \A m \in C : <<m, n>> \notin OpToRel(<, Nat)
  BY <1>1, Zenon
<1>3. n \in Nat /\ n \notin T /\ n # 0
  BY Zenon
<1>4. n - 1 \in Nat /\ n - 1 < n /\ (n - 1) + 1 = n
  BY <1>3
<1>5. <<n - 1, n>> \in OpToRel(<, Nat)
  BY <1>3, <1>4 DEF OpToRel
<1>6. n - 1 \in T
  BY <1>2, <1>4, <1>5, Zenon
<1> QED BY <1>3, <1>4, <1>6, Zenon

(* Max, of which the fold over a batch takes the place to handle last.      *)
LEMMA MaxIsLast ==
  ASSUME NEW n \in Nat, NEW s \in SUBSET (1 .. n + 1), n + 1 \in s
  PROVE  Max(s) = n + 1
<1>1. \E x \in s : \A y \in s : x >= y
  OBVIOUS
<1>2. Max(s) \in s /\ \A y \in s : Max(s) >= y
  BY <1>1, Zenon DEF Max
<1>3. Max(s) \in 1 .. n + 1 /\ Max(s) >= n + 1
  BY <1>2, Zenon
<1> DEFINE m == Max(s)
<1>4. m \in 1 .. n + 1 /\ m >= n + 1
  BY <1>3, Zenon
<1> HIDE DEF m
<1>5. m = n + 1
  BY <1>4
<1> QED BY <1>5, Zenon DEF m

-----------------------------------------------------------------------------
\* One round of the loop of op, as the two folds have it.
round(op, st, a) ==
    IF op = "add" THEN pushOne(st.list, st.index, a) ELSE removeRound(st, a)

\* after[s]: what the rounds for the places s of the batch make of base.
loops(after, op, base, batch, n) ==
    after = [s \in SUBSET (1 .. n) |->
               IF s = {} THEN base
               ELSE round(op, after[s \ {Max(s)}], batch[Max(s)])]

(* The recursive function by which a fold is defined exists.                *)
LEMMA LoopExists ==
  ASSUME NEW op, NEW base, NEW batch
  PROVE  \A n \in Nat : \E after : loops(after, op, base, batch, n)
<1> DEFINE T == {n \in Nat : \E after : loops(after, op, base, batch, n)}
<1>1. 0 \in T
  <2> DEFINE f == [s \in SUBSET (1 .. 0) |-> base]
  <2>1. \A s \in SUBSET (1 .. 0) : s = {}
    OBVIOUS
  <2>2. f = [s \in SUBSET (1 .. 0) |->
               IF s = {} THEN base
               ELSE round(op, f[s \ {Max(s)}], batch[Max(s)])]
    BY <2>1, Zenon
  <2>3. loops(f, op, base, batch, 0)
    BY <2>2, Zenon DEF loops
  <2> QED BY <2>3
<1>2. ASSUME NEW n \in Nat, n \in T PROVE n + 1 \in T
  <2>1. PICK f : loops(f, op, base, batch, n)
    BY <1>2, Zenon
  <2> DEFINE last(s) == round(op, f[s \ {n + 1}], batch[n + 1])
             g == [s \in SUBSET (1 .. n + 1) |-> IF n + 1 \in s THEN last(s) ELSE f[s]]
  <2>2. ASSUME NEW s \in SUBSET (1 .. n + 1)
        PROVE  g[s] = IF s = {} THEN base
                      ELSE round(op, g[s \ {Max(s)}], batch[Max(s)])
    <3>1. CASE n + 1 \in s
      <4>1. Max(s) = n + 1 /\ s # {}
        BY <3>1, MaxIsLast, Zenon
      <4>2. s \ {n + 1} \in SUBSET (1 .. n + 1) /\ n + 1 \notin s \ {n + 1}
        BY Zenon
      <4>3. g[s \ {n + 1}] = f[s \ {n + 1}]
        BY <4>2, Zenon
      <4>4. g[s] = last(s)
        BY <3>1, Zenon
      <4> QED BY <4>1, <4>3, <4>4, Zenon
    <3>2. CASE n + 1 \notin s
      <4>1. s \in SUBSET (1 .. n)
        BY <3>2
      <4>2. /\ s \ {Max(s)} \in SUBSET (1 .. n + 1)
            /\ n + 1 \notin s \ {Max(s)}
        BY <3>2, Zenon
      <4>3. g[s \ {Max(s)}] = f[s \ {Max(s)}] /\ g[s] = f[s]
        BY <3>2, <4>2, Zenon
      <4>4. f[s] = IF s = {} THEN base
                   ELSE round(op, f[s \ {Max(s)}], batch[Max(s)])
        BY <2>1, <4>1, Zenon DEF loops
      <4> QED BY <4>3, <4>4, Zenon
    <3> QED BY <3>1, <3>2, Zenon
  <2>3. g = [s \in SUBSET (1 .. n + 1) |->
               IF s = {} THEN base
               ELSE round(op, g[s \ {Max(s)}], batch[Max(s)])]
    <3> DEFINE h == [s \in SUBSET (1 .. n + 1) |->
                       IF s = {} THEN base
                       ELSE round(op, g[s \ {Max(s)}], batch[Max(s)])]
    <3>1. \A s \in SUBSET (1 .. n + 1) : g[s] = h[s]
      BY <2>2, Zenon
    <3>2. g = [s \in SUBSET (1 .. n + 1) |-> g[s]]
      BY Zenon
    <3>3. h = [s \in SUBSET (1 .. n + 1) |-> h[s]]
      BY Zenon
    <3> HIDE DEF g, h
    <3>4. g = h
      BY <3>1, <3>2, <3>3, Zenon
    <3> QED BY <3>4, Zenon DEF h
  <2>4. loops(g, op, base, batch, n + 1)
    BY <2>3, Zenon DEF loops
  <2> HIDE DEF g
  <2> QED BY <2>4
<1> HIDE DEF T
<1>3. \A n \in Nat : n \in T
  BY <1>1, <1>2, NatSetInduction, Zenon
<1> QED BY <1>3, Zenon DEF T

\* after[1 .. k]: what the first k rounds make of base.
rounds(after, op, base, batch, n) ==
    /\ after[1 .. 0] = base
    /\ \A k \in 0 .. n - 1 : after[1 .. k + 1] = round(op, after[1 .. k], batch[k + 1])

(* The rounds in their order: the loop starts with base, and handles the    *)
(* address at place k + 1 after those at 1 to k.                            *)
LEMMA LoopRounds ==
  ASSUME NEW after, NEW op, NEW base, NEW batch, NEW n \in Nat,
         loops(after, op, base, batch, n)
  PROVE  rounds(after, op, base, batch, n)
<1>1. after[1 .. 0] = base
  <2>1. 1 .. 0 = {} /\ {} \in SUBSET (1 .. n)
    OBVIOUS
  <2> QED BY <2>1, Zenon DEF loops
<1>2. ASSUME NEW k \in 0 .. n - 1
      PROVE  after[1 .. k + 1] = round(op, after[1 .. k], batch[k + 1])
  <2> DEFINE s == 1 .. k + 1
  <2>1. k \in Nat /\ s \in SUBSET (1 .. n) /\ s \in SUBSET (1 .. k + 1)
        /\ k + 1 \in s /\ s \ {k + 1} = 1 .. k
    OBVIOUS
  <2>2. Max(s) = k + 1 /\ s # {}
    BY <2>1, MaxIsLast, Zenon
  <2>3. after[s] = round(op, after[s \ {Max(s)}], batch[Max(s)])
    BY <2>1, <2>2, Zenon DEF loops
  <2> QED BY <2>1, <2>2, <2>3, Zenon
<1> QED BY <1>1, <1>2, Zenon DEF rounds

(* The two loops as the actions have them.                                  *)
LEMMA AddLoop ==
  ASSUME NEW base, NEW batch, NEW n \in Nat, DOMAIN batch = 1 .. n
  PROVE  \E after : /\ loops(after, "add", base, batch, n)
                    /\ pushAll(base, batch) = after[1 .. n]
<1> DEFINE by(after) ==
      after = [s \in SUBSET (1 .. n) |->
                 IF s = {} THEN base
                 ELSE LET x == Max(s)
                      IN pushOne(after[s \ {x}].list, after[s \ {x}].index, batch[x])]
<1>1. \A after : by(after) <=> loops(after, "add", base, batch, n)
  BY Zenon DEF loops, round
<1>2. \E after : by(after)
  BY <1>1, LoopExists, Zenon
<1>3. \E after : by(after) /\ pushAll(base, batch) = after[1 .. n]
  BY <1>2, Zenon DEF pushAll, FoldLeft, MapThenFoldSet
<1> QED BY <1>1, <1>3, Zenon

(* The same for the loop that removes.                                      *)
LEMMA RemoveLoop ==
  ASSUME NEW base, NEW batch, NEW n \in Nat, DOMAIN batch = 1 .. n
  PROVE  \E after : /\ loops(after, "remove", base, batch, n)
                    /\ removeAll(base, batch) = after[1 .. n]
<1> DEFINE by(after) ==
      after = [s \in SUBSET (1 .. n) |->
                 IF s = {} THEN base
                 ELSE LET x == Max(s) IN removeRound(after[s \ {x}], batch[x])]
<1>1. \A after : by(after) <=> loops(after, "remove", base, batch, n)
  BY Zenon DEF loops, round
<1>2. \E after : by(after)
  BY <1>1, LoopExists, Zenon
<1>3. \E after : by(after) /\ removeAll(base, batch) = after[1 .. n]
  BY <1>2, Zenon DEF removeAll, FoldLeft, MapThenFoldSet
<1> QED BY <1>1, <1>3, Zenon

-----------------------------------------------------------------------------
\* What a call keeps: the types, and the array and the map are inverse.
wellFormed(st) ==
    /\ st.list \in Seq(Addresses)
    /\ st.index \in [Addresses -> Nat]
    /\ matches(st.list, st.index)

listedBy(st) == Listed(st.list, st.index)

(* One round of each loop, in these words.                                  *)
LEMMA RoundAdds ==
  ASSUME NEW st, wellFormed(st), NEW a \in Addresses, a \notin listedBy(st)
  PROVE  /\ wellFormed(round("add", st, a))
         /\ listedBy(round("add", st, a)) = listedBy(st) \cup {a}
<1> DEFINE r == pushOne(st.list, st.index, a)
<1>1. /\ st.list \in Seq(Addresses) /\ st.index \in [Addresses -> Nat]
      /\ matches(st.list, st.index) /\ ~listedIn(st.list, st.index, a)
  BY Zenon DEF wellFormed, listedBy, Listed
<1>2. /\ r.list \in Seq(Addresses) /\ r.index \in [Addresses -> Nat]
      /\ matches(r.list, r.index)
      /\ Listed(r.list, r.index) = Listed(st.list, st.index) \cup {a}
  BY <1>1, PushOneAdds
<1>3. round("add", st, a) = r
  BY Zenon DEF round
<1> HIDE DEF r
<1> QED BY <1>2, <1>3, Zenon DEF wellFormed, listedBy

LEMMA RoundRemoves ==
  ASSUME NEW st, wellFormed(st), st.ok = TRUE, NEW a \in Addresses, a \in listedBy(st)
  PROVE  /\ round("remove", st, a).ok = TRUE
         /\ wellFormed(round("remove", st, a))
         /\ listedBy(round("remove", st, a)) = listedBy(st) \ {a}
<1> DEFINE r == removeOne(st.list, st.index, a)
           after == [list |-> r.list, index |-> r.index, ok |-> TRUE]
<1>1. /\ st.list \in Seq(Addresses) /\ st.index \in [Addresses -> Nat]
      /\ matches(st.list, st.index) /\ listedIn(st.list, st.index, a)
  BY Zenon DEF wellFormed, listedBy, Listed
<1>2. /\ mayRemoveOne(st.list, st.index, a)
      /\ r.list \in Seq(Addresses) /\ r.index \in [Addresses -> Nat]
      /\ matches(r.list, r.index)
      /\ Listed(r.list, r.index) = Listed(st.list, st.index) \ {a}
  BY <1>1, RemoveOneRemoves
<1>3. round("remove", st, a) = after
  BY <1>2, Zenon DEF round, removeRound
<1> HIDE DEF r
<1>4. after.list = r.list /\ after.index = r.index /\ after.ok = TRUE
  BY Zenon
<1> HIDE DEF after
<1> QED BY <1>2, <1>3, <1>4, Zenon DEF wellFormed, listedBy

(* A loop that adds addresses which are not on the list, none twice, adds   *)
(* exactly these.                                                           *)
LEMMA AddAll ==
  ASSUME NEW base, wellFormed(base), NEW n \in Nat, NEW batch \in [1 .. n -> Addresses],
         Range(batch) \cap listedBy(base) = {}, IsInjective(batch)
  PROVE  /\ wellFormed(pushAll(base, batch))
         /\ listedBy(pushAll(base, batch)) = listedBy(base) \cup Range(batch)
<1>1. PICK after : /\ loops(after, "add", base, batch, n)
                   /\ pushAll(base, batch) = after[1 .. n]
  BY AddLoop, Zenon
<1>2. /\ after[1 .. 0] = base
      /\ \A k \in 0 .. n - 1 : after[1 .. k + 1] = round("add", after[1 .. k], batch[k + 1])
  <2>1. rounds(after, "add", base, batch, n)
    BY <1>1, LoopRounds, Zenon
  <2> QED BY <2>1, Zenon DEF rounds
<1> DEFINE named(k) == {batch[i] : i \in 1 .. k}
           good(k) == /\ wellFormed(after[1 .. k])
                      /\ listedBy(after[1 .. k]) = listedBy(base) \cup named(k)
           T == {k \in Nat : k <= n => good(k)}
<1>3. 0 \in T
  <2>1. named(0) = {}
    OBVIOUS
  <2> QED BY <1>2, <2>1, Zenon
<1>4. ASSUME NEW k \in Nat, k \in T PROVE k + 1 \in T
  <2>0. k + 1 \in Nat
    OBVIOUS
  <2> SUFFICES ASSUME k + 1 <= n PROVE good(k + 1)
    BY <2>0, Zenon
  <2> DEFINE st == after[1 .. k]
             a == batch[k + 1]
  <2>1. k <= n /\ k \in 0 .. n - 1 /\ k + 1 \in 1 .. n
    OBVIOUS
  <2>2. good(k)
    BY <1>4, <2>1, Zenon
  <2>3. a \in Addresses /\ a \in Range(batch)
    BY <2>1, Zenon DEF Range
  <2>4. a \notin named(k)
    <3> SUFFICES ASSUME NEW i \in 1 .. k, batch[i] = a PROVE FALSE
      BY Zenon
    <3>1. i \in 1 .. n /\ i # k + 1
      BY <2>1
    <3> QED BY <2>1, <3>1, Zenon DEF IsInjective
  <2>5. a \notin listedBy(st)
    BY <2>2, <2>3, <2>4, Zenon
  <2>6. after[1 .. k + 1] = round("add", st, a)
    BY <1>2, <2>1, Zenon
  <2>8. named(k + 1) = named(k) \cup {a}
    <3>1. 1 .. k + 1 = (1 .. k) \cup {k + 1}
      OBVIOUS
    <3> QED BY <3>1, Zenon
  <2>9. wellFormed(st) /\ listedBy(st) = listedBy(base) \cup named(k)
    BY <2>2, Zenon
  <2> HIDE DEF named, st, a
  <2>10. /\ wellFormed(round("add", st, a))
         /\ listedBy(round("add", st, a)) = listedBy(st) \cup {a}
    BY <2>3, <2>5, <2>9, RoundAdds
  <2> QED BY <2>6, <2>8, <2>9, <2>10, Zenon
<1> HIDE DEF T
<1>5. n \in T
  BY <1>3, <1>4, NatSetInduction, Zenon
<1>6. good(n)
  BY <1>5 DEF T
<1>7. named(n) = Range(batch)
  BY Zenon DEF Range
<1> QED BY <1>1, <1>6, <1>7, Zenon

(* A loop that removes addresses which are on the list, none twice, does    *)
(* not revert and removes exactly these.                                    *)
LEMMA RemoveAll ==
  ASSUME NEW base, wellFormed(base), base.ok = TRUE,
         NEW n \in Nat, NEW batch \in [1 .. n -> Addresses],
         Range(batch) \subseteq listedBy(base), IsInjective(batch)
  PROVE  /\ removeAll(base, batch).ok = TRUE
         /\ wellFormed(removeAll(base, batch))
         /\ listedBy(removeAll(base, batch)) = listedBy(base) \ Range(batch)
<1>1. PICK after : /\ loops(after, "remove", base, batch, n)
                   /\ removeAll(base, batch) = after[1 .. n]
  BY RemoveLoop, Zenon
<1>2. /\ after[1 .. 0] = base
      /\ \A k \in 0 .. n - 1 :
             after[1 .. k + 1] = round("remove", after[1 .. k], batch[k + 1])
  <2>1. rounds(after, "remove", base, batch, n)
    BY <1>1, LoopRounds, Zenon
  <2> QED BY <2>1, Zenon DEF rounds
<1> DEFINE named(k) == {batch[i] : i \in 1 .. k}
           good(k) == /\ after[1 .. k].ok = TRUE
                      /\ wellFormed(after[1 .. k])
                      /\ listedBy(after[1 .. k]) = listedBy(base) \ named(k)
           T == {k \in Nat : k <= n => good(k)}
<1>3. 0 \in T
  <2>1. named(0) = {}
    OBVIOUS
  <2> QED BY <1>2, <2>1, Zenon
<1>4. ASSUME NEW k \in Nat, k \in T PROVE k + 1 \in T
  <2>0. k + 1 \in Nat
    OBVIOUS
  <2> SUFFICES ASSUME k + 1 <= n PROVE good(k + 1)
    BY <2>0, Zenon
  <2> DEFINE st == after[1 .. k]
             a == batch[k + 1]
  <2>1. k <= n /\ k \in 0 .. n - 1 /\ k + 1 \in 1 .. n
    OBVIOUS
  <2>2. good(k)
    BY <1>4, <2>1, Zenon
  <2>3. a \in Addresses /\ a \in Range(batch)
    BY <2>1, Zenon DEF Range
  <2>4. a \notin named(k)
    <3> SUFFICES ASSUME NEW i \in 1 .. k, batch[i] = a PROVE FALSE
      BY Zenon
    <3>1. i \in 1 .. n /\ i # k + 1
      BY <2>1
    <3> QED BY <2>1, <3>1, Zenon DEF IsInjective
  <2>5. a \in listedBy(st)
    BY <2>2, <2>3, <2>4, Zenon
  <2>6. after[1 .. k + 1] = round("remove", st, a)
    BY <1>2, <2>1, Zenon
  <2>8. named(k + 1) = named(k) \cup {a}
    <3>1. 1 .. k + 1 = (1 .. k) \cup {k + 1}
      OBVIOUS
    <3> QED BY <3>1, Zenon
  <2>9. wellFormed(st) /\ st.ok = TRUE /\ listedBy(st) = listedBy(base) \ named(k)
    BY <2>2, Zenon
  <2> HIDE DEF named, st, a
  <2>10. /\ round("remove", st, a).ok = TRUE
         /\ wellFormed(round("remove", st, a))
         /\ listedBy(round("remove", st, a)) = listedBy(st) \ {a}
    BY <2>3, <2>5, <2>9, RoundRemoves
  <2> QED BY <2>6, <2>8, <2>9, <2>10, Zenon
<1> HIDE DEF T
<1>5. n \in T
  BY <1>3, <1>4, NatSetInduction, Zenon
<1>6. good(n)
  BY <1>5 DEF T
<1>7. named(n) = Range(batch)
  BY Zenon DEF Range
<1> QED BY <1>1, <1>6, <1>7, Zenon

-----------------------------------------------------------------------------
(* The inductive invariant.                                                 *)
WhitelistInv ==
    /\ stakerslist \in Seq(Addresses)
    /\ stakerWhitelist \in [Addresses -> Nat]
    /\ matches(stakerslist, stakerWhitelist)

(* While the owner adds only addresses that are not listed and removes only *)
(* listed ones, the array with the map is a set, for batches of any length: *)
(* the modifier lets exactly those addresses through that calls have added  *)
(* and not removed.                                                         *)
THEOREM WhitelistIsASet ==
  ASSUME OwnerChecks
  PROVE  WhitelistSpec => IsASet
<1>1. WhitelistInit => WhitelistInv /\ Abstract!Init
  <2> SUFFICES ASSUME WhitelistInit PROVE WhitelistInv /\ members = {}
    BY Zenon DEF WhitelistInit, Abstract!Init
  <2>1. /\ stakerslist \in Seq(Addresses) /\ Len(stakerslist) = 0
        /\ stakerWhitelist \in [Addresses -> Nat]
    BY DEF WhitelistInit
  <2> QED BY <2>1 DEF WhitelistInv, matches, members, listedIn
<1>2. ASSUME WhitelistInv, [WhitelistNext]_whitelistVars
      PROVE  WhitelistInv' /\ [Abstract!Next]_<<members, ownerCall>>
  <2>1. members = Listed(stakerslist, stakerWhitelist)
    BY Zenon DEF members, Listed
  <2>2. members' = Listed(stakerslist', stakerWhitelist')
    BY Zenon DEF members, Listed
  <2>3. CASE UNCHANGED whitelistVars
    BY <1>2, <2>1, <2>2, <2>3, Zenon DEF whitelistVars, WhitelistInv
  <2>4. ASSUME NEW batch \in Batches, addToStakerWhitelist(batch)
        PROVE  WhitelistInv' /\ Abstract!Add
    <3> DEFINE base == [list |-> stakerslist, index |-> stakerWhitelist]
               end == pushAll(base, batch)
    <3>1. PICK n \in 1 .. MaxBatch : batch \in [1 .. n -> Addresses]
      BY Zenon DEF Batches
    <3>2. n \in Nat
      BY WhitelistConstants
    <3>3. wellFormed(base) /\ listedBy(base) = members
      BY <1>2, <2>1, Zenon DEF WhitelistInv, wellFormed, listedBy
    <3>4. Range(batch) \cap members = {} /\ IsInjective(batch)
      BY <2>4, Zenon DEF addToStakerWhitelist
    <3>5. stakerslist' = end.list /\ stakerWhitelist' = end.index
      BY <2>4, Zenon DEF addToStakerWhitelist
    <3>6. ownerCall'.op = "add" /\ ownerCall'.named = Range(batch)
      BY <2>4, Zenon DEF addToStakerWhitelist
    <3> HIDE DEF base
    <3>7. wellFormed(end) /\ listedBy(end) = listedBy(base) \cup Range(batch)
      BY <3>1, <3>2, <3>3, <3>4, AddAll, Zenon
    <3> HIDE DEF end
    <3>8. members' = members \cup ownerCall'.named
      BY <2>2, <3>3, <3>5, <3>6, <3>7, Zenon DEF listedBy
    <3> QED BY <3>5, <3>6, <3>7, <3>8, Zenon DEF wellFormed, WhitelistInv, Abstract!Add
  <2>5. ASSUME NEW batch \in Batches, removeFromStakerWhitelist(batch)
        PROVE  WhitelistInv' /\ Abstract!Remove
    <3> DEFINE base == [list |-> stakerslist, index |-> stakerWhitelist, ok |-> TRUE]
               end == removeAll(base, batch)
    <3>1. PICK n \in 1 .. MaxBatch : batch \in [1 .. n -> Addresses]
      BY Zenon DEF Batches
    <3>2. n \in Nat
      BY WhitelistConstants
    <3>3. wellFormed(base) /\ listedBy(base) = members /\ base.ok = TRUE
      BY <1>2, <2>1, Zenon DEF WhitelistInv, wellFormed, listedBy
    <3>4. Range(batch) \subseteq members /\ IsInjective(batch)
      BY <2>5, Zenon DEF removeFromStakerWhitelist
    <3>5. stakerslist' = end.list /\ stakerWhitelist' = end.index
      BY <2>5, Zenon DEF removeFromStakerWhitelist
    <3>6. ownerCall'.op = "remove" /\ ownerCall'.named = Range(batch)
      BY <2>5, Zenon DEF removeFromStakerWhitelist
    <3> HIDE DEF base
    <3>7. wellFormed(end) /\ listedBy(end) = listedBy(base) \ Range(batch)
      BY <3>1, <3>2, <3>3, <3>4, RemoveAll, Zenon
    <3> HIDE DEF end
    <3>8. members' = members \ ownerCall'.named
      BY <2>2, <3>3, <3>5, <3>6, <3>7, Zenon DEF listedBy
    <3> QED BY <3>5, <3>6, <3>7, <3>8, Zenon DEF wellFormed, WhitelistInv, Abstract!Remove
  <2> QED BY <1>2, <2>3, <2>4, <2>5, Zenon DEF WhitelistNext, Abstract!Next
<1> QED BY <1>1, <1>2, PTL DEF WhitelistSpec, IsASet, Abstract!Spec
=============================================================================
