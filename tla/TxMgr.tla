------------------------------- MODULE TxMgr -------------------------------
(***************************************************************************)
(* bss-core/txmgr: one call of SimpleTxManager.Send, which publishes a     *)
(* transaction again and again with a higher gas price until one of the    *)
(* publications confirms.  The batch submitter, the batcher and the gas    *)
(* oracle all send through it.                                             *)
(*                                                                         *)
(* All publications use one nonce, so at most one of them is mined.  Each  *)
(* has a goroutine (a slot here) that sends it and waits for its receipt;  *)
(* the goroutines share a SendState under a lock and hand a receipt to the *)
(* main loop through a channel of capacity one.  Every RPC and every       *)
(* locked section is a step of its own.                                    *)
(***************************************************************************)
EXTENDS Integers, FiniteSets

CONSTANTS
    Slots,                      \* publications, each with its transaction hash
    Underpriced,                \* those among them that L1 refuses, as when the
                                \* price was not raised enough to replace another
    Foreign,                    \* a transaction of the same nonce sent by an
                                \* earlier incarnation of the service
    NoTx,
    NumConfirmations,
    SafeAbortNonceTooLowCount,
    MaxHeight,                  \* bound on the L1 chain
    MaxReorgs,                  \* bound on the reorganisations of L1
    MaxRpcErrors                \* bound on the RPC calls that fail

ASSUME TxMgrConstants ==
    /\ Underpriced \subseteq Slots
    /\ Foreign \notin Slots
    /\ NoTx \notin Slots \cup {Foreign}
    /\ NumConfirmations \in Nat \ {0}
    /\ SafeAbortNonceTooLowCount \in Nat \ {0}
    /\ MaxHeight \in Nat /\ MaxReorgs \in Nat /\ MaxRpcErrors \in Nat

VARIABLES
    main,               \* "loop", "exit" (deferred cancel and wait), "returned"
    receipt,            \* what Send returns: a slot, or NoTx with an error
    canceled,           \* ctxc is done
    cause,              \* who canceled it first
    receiptChan,        \* the buffered receipt, or NoTx
    pc,                 \* where each goroutine is; "free" when there is none
    txHeight,           \* the block number of the receipt a goroutine has just read
    minedTxs, nonceTooLowCount,     \* SendState
    mempool,            \* L1: transactions that may be mined
    minedTx, minedAt,   \* L1: the transaction of our nonce in the chain, its height
    tip,                \* L1: the height of the chain
    reorgs, rpcErrors   \* so far

sendState == <<minedTxs, nonceTooLowCount>>
l1 == <<mempool, minedTx, minedAt, tip, reorgs>>
mainState == <<main, receipt, receiptChan>>
ctx == <<canceled, cause>>
vars == <<mainState, ctx, pc, txHeight, sendState, l1, rpcErrors>>

Init ==
    /\ main = "loop" /\ receipt = NoTx /\ receiptChan = NoTx
    /\ canceled = FALSE /\ cause = "none"
    /\ \E s \in Slots : pc = [t \in Slots |-> IF t = s THEN "price" ELSE "free"]
    /\ txHeight = [s \in Slots |-> 0]
    /\ minedTxs = {} /\ nonceTooLowCount = 0
    /\ mempool \in {{}, {Foreign}}
    /\ minedTx = NoTx /\ minedAt = 0 /\ tip = 0
    /\ reorgs = 0 /\ rpcErrors = 0

-----------------------------------------------------------------------------
\* SendState.

\* Slips: an error of any kind counts, not only a nonce too low; none counts.
counts_Any(err) == TRUE
counts_Never(err) == FALSE

counts(err) == err = "tooLow"

IsWaitingForConfirmation == minedTxs # {}

ShouldAbortImmediately ==
    /\ minedTxs = {}
    /\ nonceTooLowCount >= SafeAbortNonceTooLowCount

\* Losing the last mined transaction to a reorganisation resets the count.
countAfterNotMined(s) ==
    IF s \in minedTxs /\ minedTxs \ {s} = {} THEN 0 ELSE nonceTooLowCount

-----------------------------------------------------------------------------
\* sendTxAsync, one goroutine.

goto(s, l) == pc' = [pc EXCEPT ![s] = l]
cancel(why) ==
    /\ canceled' = TRUE
    /\ cause' = IF canceled THEN cause ELSE why

\* A failing call, of which there are boundedly many.
rpcFails ==
    /\ rpcErrors < MaxRpcErrors
    /\ rpcErrors' = rpcErrors + 1

\* updateGasPrice: it succeeds; or it fails for the moment; or it fails in a
\* way that gives up the whole Send.
updateGasPrice(s) ==
    /\ pc[s] = "price"
    /\ \/ ~canceled /\ goto(s, "send") /\ UNCHANGED <<ctx, rpcErrors>>
       \/ canceled /\ goto(s, "free") /\ UNCHANGED <<ctx, rpcErrors>>
       \/ rpcFails /\ goto(s, "free") /\ UNCHANGED ctx
       \/ rpcFails /\ goto(s, "free") /\ cancel("price")
    /\ UNCHANGED <<mainState, txHeight, sendState, l1>>

\* sendTx.  An error other than a nonce too low may hide that the
\* transaction did reach the mempool.
sendTx(s) ==
    /\ pc[s] = "send"
    /\ \/ /\ canceled
          /\ goto(s, "free")
          /\ UNCHANGED <<mempool, rpcErrors>>
       \/ /\ ~canceled /\ minedTx = NoTx /\ s \in Underpriced
          /\ goto(s, "otherError")
          /\ UNCHANGED <<mempool, rpcErrors>>
       \/ /\ ~canceled /\ minedTx = NoTx /\ s \notin Underpriced
          /\ goto(s, "receipt")
          /\ mempool' = mempool \cup {s}
          /\ UNCHANGED rpcErrors
       \/ /\ ~canceled /\ minedTx # NoTx
          /\ goto(s, "tooLow")
          /\ UNCHANGED <<mempool, rpcErrors>>
       \/ /\ ~canceled /\ rpcFails
          /\ goto(s, "otherError")
          /\ mempool' \in {mempool, IF minedTx = NoTx THEN mempool \cup ({s} \ Underpriced) ELSE mempool}
    /\ UNCHANGED <<mainState, ctx, txHeight, sendState, minedTx, minedAt, tip, reorgs>>

ProcessSendError(s) ==
    /\ pc[s] \in {"tooLow", "otherError"}
    /\ nonceTooLowCount' =
           IF counts(pc[s]) THEN nonceTooLowCount + 1 ELSE nonceTooLowCount
    /\ goto(s, "check")
    /\ UNCHANGED <<mainState, ctx, txHeight, minedTxs, l1, rpcErrors>>

\* The decision is taken under the lock, the cancellation after it.
checkAbort(s) ==
    /\ pc[s] = "check"
    /\ goto(s, IF ShouldAbortImmediately THEN "abort" ELSE "free")
    /\ UNCHANGED <<mainState, ctx, txHeight, sendState, l1, rpcErrors>>

abort(s) ==
    /\ pc[s] = "abort"
    /\ cancel("nonce")
    /\ goto(s, "free")
    /\ UNCHANGED <<mainState, txHeight, sendState, l1, rpcErrors>>

\* waitMined: the receipt is read, then the height of the chain, in two calls.
queryReceipt(s) ==
    /\ pc[s] = "receipt"
    /\ \/ /\ minedTx = s
          /\ minedTxs' = minedTxs \cup {s}
          /\ txHeight' = [txHeight EXCEPT ![s] = minedAt]
          /\ goto(s, "height")
          /\ UNCHANGED <<nonceTooLowCount, rpcErrors>>
       \/ /\ minedTx # s
          /\ minedTxs' = minedTxs \ {s}
          /\ nonceTooLowCount' = countAfterNotMined(s)
          /\ goto(s, "ticker")
          /\ UNCHANGED <<txHeight, rpcErrors>>
       \/ /\ rpcFails
          /\ goto(s, "ticker")
          /\ UNCHANGED <<txHeight, sendState>>
    /\ UNCHANGED <<mainState, ctx, l1>>

\* Slip: one confirmation too few.
confirmed_Early(s) == txHeight[s] + NumConfirmations <= tip + 2

confirmed(s) == txHeight[s] + NumConfirmations <= tip + 1

queryHeight(s) ==
    /\ pc[s] = "height"
    /\ \/ /\ goto(s, IF confirmed(s) THEN "report" ELSE "ticker")
          /\ UNCHANGED rpcErrors
       \/ /\ rpcFails
          /\ goto(s, "ticker")
    /\ txHeight' = [txHeight EXCEPT ![s] = 0]
    /\ UNCHANGED <<mainState, ctx, sendState, l1>>

\* The select of waitMined.  With both branches ready the ticker's may run
\* first, but a query under a canceled context fails and comes back here.
\* Slip: a goroutine that waits does not notice the cancellation.
afterTicker_Deaf == "receipt"

afterTicker == IF canceled THEN "free" ELSE "receipt"

nextQuery(s) ==
    /\ pc[s] = "ticker"
    /\ goto(s, afterTicker)
    /\ UNCHANGED <<mainState, ctx, txHeight, sendState, l1, rpcErrors>>

\* The non-blocking send into receiptChan.
reportReceipt(s) ==
    /\ pc[s] = "report"
    /\ receiptChan' = IF receiptChan = NoTx THEN s ELSE receiptChan
    /\ goto(s, "free")
    /\ UNCHANGED <<main, receipt, ctx, txHeight, sendState, l1, rpcErrors>>

Goroutine(s) ==
    \/ updateGasPrice(s) \/ sendTx(s) \/ ProcessSendError(s) \/ checkAbort(s)
    \/ abort(s) \/ queryReceipt(s) \/ queryHeight(s) \/ nextQuery(s)
    \/ reportReceipt(s)

-----------------------------------------------------------------------------
\* The main loop of Send.

resubmit(s) ==
    /\ main = "loop"
    /\ ~IsWaitingForConfirmation
    /\ pc[s] = "free"
    /\ goto(s, "price")
    /\ UNCHANGED <<mainState, ctx, txHeight, sendState, l1, rpcErrors>>

takeReceipt ==
    /\ main = "loop"
    /\ receiptChan # NoTx
    /\ receipt' = receiptChan
    /\ receiptChan' = NoTx
    /\ main' = "exit"
    /\ cancel("done")
    /\ UNCHANGED <<pc, txHeight, sendState, l1, rpcErrors>>

takeDone ==
    /\ main = "loop"
    /\ canceled
    /\ main' = "exit"
    /\ UNCHANGED <<receipt, receiptChan, ctx, pc, txHeight, sendState, l1, rpcErrors>>

\* The deferred wg.Wait.
return ==
    /\ main = "exit"
    /\ \A s \in Slots : pc[s] = "free"
    /\ main' = "returned"
    /\ UNCHANGED <<receipt, receiptChan, ctx, pc, txHeight, sendState, l1, rpcErrors>>

-----------------------------------------------------------------------------
\* External: the L1 chain.

mineTx ==
    /\ minedTx = NoTx
    /\ tip + NumConfirmations <= MaxHeight
    /\ \E t \in mempool : minedTx' = t
    /\ minedAt' = tip + 1
    /\ tip' = tip + 1
    /\ UNCHANGED <<mainState, ctx, pc, txHeight, sendState, mempool, reorgs, rpcErrors>>

mineOther ==
    /\ tip < MaxHeight
    /\ tip' = tip + 1
    /\ UNCHANGED <<mainState, ctx, pc, txHeight, sendState, mempool, minedTx,
                   minedAt, reorgs, rpcErrors>>

\* A block with our transaction is replaced by one without it.
reorg ==
    /\ reorgs < MaxReorgs
    /\ minedTx # NoTx
    /\ minedTx' = NoTx /\ minedAt' = 0
    /\ tip' \in {minedAt - 1, tip}
    /\ reorgs' = reorgs + 1
    /\ UNCHANGED <<mainState, ctx, pc, txHeight, sendState, mempool, rpcErrors>>

Next ==
    \/ \E s \in Slots : Goroutine(s) \/ resubmit(s)
    \/ takeReceipt \/ takeDone \/ return
    \/ mineTx \/ mineOther \/ reorg

\* Goroutines and the main loop are scheduled, the resubmission ticker keeps
\* firing, and L1 keeps producing blocks.  Nothing is assumed of the mempool.
Spec ==
    /\ Init /\ [][Next]_vars
    /\ \A s \in Slots : WF_vars(Goroutine(s))
    /\ WF_vars(\E s \in Slots : resubmit(s))
    /\ WF_vars(takeReceipt \/ takeDone \/ return)
    /\ WF_vars(mineOther)

-----------------------------------------------------------------------------
Labels == {"free", "price", "send", "tooLow", "otherError", "check", "abort",
           "receipt", "height", "ticker", "report"}

(* Send and its goroutines stay at known places and the counters of the     *)
(* SendState stay naturals: TxMined and TxNotMined never unbalance them.    *)
TypeOK ==
    /\ main \in {"loop", "exit", "returned"}
    /\ receipt \in Slots \cup {NoTx}
    /\ canceled \in BOOLEAN
    /\ cause \in {"none", "price", "nonce", "done"}
    /\ receiptChan \in Slots \cup {NoTx}
    /\ pc \in [Slots -> Labels]
    /\ txHeight \in [Slots -> Nat]
    /\ minedTxs \subseteq Slots
    /\ nonceTooLowCount \in Nat
    /\ mempool \subseteq Slots \cup {Foreign}
    /\ minedTx \in Slots \cup {Foreign, NoTx}
    /\ minedAt \in Nat /\ tip \in Nat /\ reorgs \in Nat /\ rpcErrors \in Nat

(* A receipt that Send returns is for a publication that is in the chain    *)
(* with NumConfirmations blocks on top of and including its own, as long as *)
(* L1 does not reorganise, however the goroutines and the chain interleave. *)
ReceiptConfirmed ==
    reorgs = 0 /\ receipt # NoTx => /\ minedTx = receipt
                                   /\ tip >= minedAt + NumConfirmations - 1

(* Send gives a nonce up only when it is spent: an abort is evidence that   *)
(* some transaction of this nonce is in the chain, ours or a stranger's,    *)
(* or was until L1 reorganised.                                             *)
AbortMeansSpent == cause = "nonce" => minedTx # NoTx \/ reorgs > 0

(* Send ends once the nonce is spent for good: with a receipt, or with an   *)
(* error because the publication that was mined is not one it waits for.    *)
ReturnsOnceSpent == <>[](minedTx # NoTx) => <>[](main = "returned")

(* A Send that is canceled, for whatever cause, ends: no goroutine, channel *)
(* or wait group holds it up.                                               *)
CanceledReturns == <>[]canceled => <>[](main = "returned")
=============================================================================
