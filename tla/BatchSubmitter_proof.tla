------------------------ MODULE BatchSubmitter_proof ------------------------
(***************************************************************************)
(* Proofs about the batch submitter and the CanonicalTransactionChain.     *)
(* First the round trip of a batch: what parseEvent unfolds from the       *)
(* contexts that GenSequencerBatchParams wrote is what is published of the *)
(* blocks.  Then the inductive invariant: every batch, every transaction   *)
(* in the mempool and everything a reorganisation may bring back is a      *)
(* stretch of the L2 chain at the place where it belongs.                  *)
(***************************************************************************)
EXTENDS BatchSubmitter, FiniteSetTheorems, WellFoundedInduction, TLAPS

-----------------------------------------------------------------------------
(* Loops.  A fold over a sequence is a chain of steps, one for each element *)
(* in turn; the loops of this model are the five folds of foldStep.         *)

(* A set of numbers with 0 that is closed under successor holds them all.   *)
LEMMA NatSetInduction ==
  ASSUME NEW T, 0 \in T, \A n \in Nat : n \in T => n + 1 \in T
  PROVE  \A n \in Nat : n \in T
<1> DEFINE C == {n \in Nat : n \notin T}
<1> SUFFICES ASSUME C # {} PROVE FALSE
  BY Zenon
<1>1. \E n \in C : \A m \in C : <<m, n>> \notin OpToRel(<, Nat)
  <2>1. C \subseteq Nat
    BY Zenon
  <2> QED BY <2>1, NatLessThanWellFounded, WFMin, Zenon
<1>2. PICK n \in C : \A m \in C : <<m, n>> \notin OpToRel(<, Nat)
  BY <1>1, Zenon
<1>3. n \in Nat /\ n \notin T /\ n # 0
  BY Zenon
<1>4. n - 1 \in Nat /\ n - 1 < n /\ (n - 1) + 1 = n
  BY <1>3
<1>5. <<n - 1, n>> \in OpToRel(<, Nat)
  BY <1>3, <1>4 DEF OpToRel
<1>6. n - 1 \in T
  BY <1>2, <1>4, <1>5, Zenon
<1> QED BY <1>3, <1>4, <1>6, Zenon

\* The same for the numbers up to n.
LEMMA UpToInduction ==
  ASSUME NEW n \in Nat, NEW T, 0 \in T, \A k \in 0 .. n - 1 : k \in T => k + 1 \in T
  PROVE  \A k \in 0 .. n : k \in T
<1> DEFINE U == {k \in Nat : k <= n => k \in T}
<1>1. 0 \in U
  BY Zenon
<1>2. ASSUME NEW k \in Nat, k \in U PROVE k + 1 \in U
  <2> SUFFICES ASSUME k + 1 <= n PROVE k + 1 \in T
    OBVIOUS
  <2>1. k \in 0 .. n - 1 /\ k <= n
    OBVIOUS
  <2>2. k \in T
    BY <1>2, <2>1, Zenon
  <2> QED BY <2>1, <2>2, Zenon
<1> HIDE DEF U
<1>3. \A k \in Nat : k \in U
  BY <1>1, <1>2, NatSetInduction, Zenon
<1>4. ASSUME NEW k \in 0 .. n PROVE k \in Nat /\ k <= n
  BY <1>4
<1> QED BY <1>3, <1>4, Zenon DEF U

(* Max, of which a fold takes the place to handle last.                     *)
LEMMA MaxIsLast ==
  ASSUME NEW n \in Nat, NEW s \in SUBSET (1 .. n + 1), n + 1 \in s
  PROVE  Max(s) = n + 1
<1>1. \E x \in s : \A y \in s : x >= y
  OBVIOUS
<1>2. Max(s) \in s /\ \A y \in s : Max(s) >= y
  BY <1>1, Zenon DEF Max
<1> DEFINE m == Max(s)
<1>3. m \in 1 .. n + 1 /\ m >= n + 1
  BY <1>2, Zenon
<1> HIDE DEF m
<1>4. m = n + 1
  BY <1>3
<1> QED BY <1>4, Zenon DEF m

\* One step of each loop: grouping blocks, unfolding contexts, adding up the two
\* counts of the contexts, reading batch after batch.
foldStep(op, acc, x) ==
    IF op = "group" THEN groupStep(acc, x)
    ELSE IF op = "unfold" THEN unfoldContext(acc, x)
    ELSE IF op = "sequenced" THEN acc + x.numSequenced
    ELSE IF op = "queued" THEN acc + x.numQueued
    ELSE acc \o parseEvent(x.startingQueueIndex, x.contexts)

\* after[s]: what the steps for the places s of the sequence make of base.
folds(after, op, base, seq, n) ==
    after = [s \in SUBSET (1 .. n) |->
               IF s = {} THEN base
               ELSE foldStep(op, after[s \ {Max(s)}], seq[Max(s)])]

\* r[k]: what the first k steps make of base.
runs(r, op, base, seq, n) ==
    /\ r[0] = base
    /\ \A k \in 0 .. n - 1 : r[k + 1] = foldStep(op, r[k], seq[k + 1])

(* The recursive function by which a fold is defined exists.                *)
LEMMA FoldExists ==
  ASSUME NEW op, NEW base, NEW seq
  PROVE  \A n \in Nat : \E after : folds(after, op, base, seq, n)
<1> DEFINE T == {n \in Nat : \E after : folds(after, op, base, seq, n)}
<1>1. 0 \in T
  <2> DEFINE f == [s \in SUBSET (1 .. 0) |-> base]
  <2>1. \A s \in SUBSET (1 .. 0) : s = {}
    OBVIOUS
  <2>2. f = [s \in SUBSET (1 .. 0) |->
               IF s = {} THEN base
               ELSE foldStep(op, f[s \ {Max(s)}], seq[Max(s)])]
    BY <2>1, Zenon
  <2>3. folds(f, op, base, seq, 0)
    BY <2>2, Zenon DEF folds
  <2> QED BY <2>3
<1>2. ASSUME NEW n \in Nat, n \in T PROVE n + 1 \in T
  <2>1. PICK f : folds(f, op, base, seq, n)
    BY <1>2, Zenon
  <2> DEFINE last(s) == foldStep(op, f[s \ {n + 1}], seq[n + 1])
             g == [s \in SUBSET (1 .. n + 1) |-> IF n + 1 \in s THEN last(s) ELSE f[s]]
  <2>2. ASSUME NEW s \in SUBSET (1 .. n + 1)
        PROVE  g[s] = IF s = {} THEN base
                      ELSE foldStep(op, g[s \ {Max(s)}], seq[Max(s)])
    <3>1. CASE n + 1 \in s
      <4>1. Max(s) = n + 1 /\ s # {}
        BY <3>1, MaxIsLast, Zenon
      <4>2. s \ {n + 1} \in SUBSET (1 .. n + 1) /\ n + 1 \notin s \ {n + 1}
        BY Zenon
      <4>3. g[s \ {n + 1}] = f[s \ {n + 1}]
        BY <4>2, Zenon
      <4>4. g[s] = last(s)
        BY <3>1, Zenon
      <4> QED BY <4>1, <4>3, <4>4, Zenon
    <3>2. CASE n + 1 \notin s
      <4>1. s \in SUBSET (1 .. n)
        BY <3>2
      <4>2. /\ s \ {Max(s)} \in SUBSET (1 .. n + 1)
            /\ n + 1 \notin s \ {Max(s)}
        BY <3>2, Zenon
      <4>3. g[s \ {Max(s)}] = f[s \ {Max(s)}] /\ g[s] = f[s]
        BY <3>2, <4>2, Zenon
      <4>4. f[s] = IF s = {} THEN base
                   ELSE foldStep(op, f[s \ {Max(s)}], seq[Max(s)])
        BY <2>1, <4>1, Zenon DEF folds
      <4> QED BY <4>3, <4>4, Zenon
    <3> QED BY <3>1, <3>2, Zenon
  <2>3. g = [s \in SUBSET (1 .. n + 1) |->
               IF s = {} THEN base
               ELSE foldStep(op, g[s \ {Max(s)}], seq[Max(s)])]
    <3> DEFINE h == [s \in SUBSET (1 .. n + 1) |->
                       IF s = {} THEN base
                       ELSE foldStep(op, g[s \ {Max(s)}], seq[Max(s)])]
    <3>1. \A s \in SUBSET (1 .. n + 1) : g[s] = h[s]
      BY <2>2, Zenon
    <3>2. g = [s \in SUBSET (1 .. n + 1) |-> g[s]]
      BY Zenon
    <3>3. h = [s \in SUBSET (1 .. n + 1) |-> h[s]]
      BY Zenon
    <3> HIDE DEF g, h
    <3>4. g = h
      BY <3>1, <3>2, <3>3, Zenon
    <3> QED BY <3>4, Zenon DEF h
  <2>4. folds(g, op, base, seq, n + 1)
    BY <2>3, Zenon DEF folds
  <2> HIDE DEF g
  <2> QED BY <2>4
<1> HIDE DEF T
<1>3. \A n \in Nat : n \in T
  BY <1>1, <1>2, NatSetInduction, Zenon
<1> QED BY <1>3, Zenon DEF T

(* Its values on the initial segments are the steps in their order.         *)
LEMMA FoldSteps ==
  ASSUME NEW after, NEW op, NEW base, NEW seq, NEW n \in Nat,
         folds(after, op, base, seq, n)
  PROVE  /\ after[1 .. 0] = base
         /\ \A k \in 0 .. n - 1 :
                after[1 .. k + 1] = foldStep(op, after[1 .. k], seq[k + 1])
<1>1. after[1 .. 0] = base
  <2>1. 1 .. 0 = {} /\ {} \in SUBSET (1 .. n)
    OBVIOUS
  <2> QED BY <2>1, Zenon DEF folds
<1>2. ASSUME NEW k \in 0 .. n - 1
      PROVE  after[1 .. k + 1] = foldStep(op, after[1 .. k], seq[k + 1])
  <2> DEFINE s == 1 .. k + 1
  <2>1. k \in Nat /\ s \in SUBSET (1 .. n) /\ s \in SUBSET (1 .. k + 1)
        /\ k + 1 \in s /\ s \ {k + 1} = 1 .. k
    OBVIOUS
  <2>2. Max(s) = k + 1 /\ s # {}
    BY <2>1, MaxIsLast, Zenon
  <2>3. after[s] = foldStep(op, after[s \ {Max(s)}], seq[Max(s)])
    BY <2>1, <2>2, Zenon DEF folds
  <2> QED BY <2>1, <2>2, <2>3, Zenon
<1> QED BY <1>1, <1>2, Zenon

(* So a fold ends where any run of the same steps ends.                     *)
LEMMA FoldIsRun ==
  ASSUME NEW after, NEW op, NEW base, NEW seq, NEW n \in Nat,
         folds(after, op, base, seq, n), NEW r, runs(r, op, base, seq, n)
  PROVE  after[1 .. n] = r[n]
<1> DEFINE T == {k \in 0 .. n : after[1 .. k] = r[k]}
<1>1. /\ after[1 .. 0] = base
      /\ \A k \in 0 .. n - 1 :
             after[1 .. k + 1] = foldStep(op, after[1 .. k], seq[k + 1])
  BY FoldSteps, SMTT(30)
<1>2. 0 \in T
  <2>1. 0 \in 0 .. n
    OBVIOUS
  <2> QED BY <1>1, <2>1, Zenon DEF runs
<1>3. ASSUME NEW k \in 0 .. n - 1, k \in T PROVE k + 1 \in T
  <2>1. k + 1 \in 0 .. n
    OBVIOUS
  <2>2. after[1 .. k + 1] = r[k + 1]
    BY <1>1, <1>3, Zenon DEF runs
  <2> QED BY <2>1, <2>2, Zenon
<1> HIDE DEF T
<1>4. \A k \in 0 .. n : k \in T
  BY <1>2, <1>3, UpToInduction, Zenon
<1>5. n \in 0 .. n
  OBVIOUS
<1> QED BY <1>4, <1>5, Zenon DEF T

-----------------------------------------------------------------------------
(* The five loops.                                                          *)

(* The grouping of a batch is what a run of groupStep ends with.            *)
LEMMA GroupLoop ==
  ASSUME NEW batch, NEW n \in Nat, DOMAIN batch = 1 .. n
  PROVE  \E r : runs(r, "group", Grouping, batch, n) /\ groupAll(batch) = r[n]
<1> DEFINE by(after) ==
      after = [s \in SUBSET (1 .. n) |->
                 IF s = {} THEN Grouping
                 ELSE LET x == Max(s) IN groupStep(after[s \ {x}], batch[x])]
<1>1. \A after : by(after) <=> folds(after, "group", Grouping, batch, n)
  BY Zenon DEF folds, foldStep
<1>2. \E after : by(after)
  BY <1>1, FoldExists, Zenon
<1>3. PICK after : by(after) /\ groupAll(batch) = after[1 .. n]
  BY <1>2, Zenon DEF groupAll, FoldLeft, MapThenFoldSet
<1>4. folds(after, "group", Grouping, batch, n)
  BY <1>1, <1>3, Zenon
<1> DEFINE r == [k \in 0 .. n |-> after[1 .. k]]
<1>5. /\ after[1 .. 0] = Grouping
      /\ \A k \in 0 .. n - 1 :
             after[1 .. k + 1] = foldStep("group", after[1 .. k], batch[k + 1])
  BY <1>4, FoldSteps, SMTT(30)
<1>6. /\ 0 \in 0 .. n /\ n \in 0 .. n
      /\ \A k \in 0 .. n - 1 : k \in 0 .. n /\ k + 1 \in 0 .. n
  OBVIOUS
<1>7. runs(r, "group", Grouping, batch, n)
  BY <1>5, <1>6, Zenon DEF runs
<1>8. r[n] = after[1 .. n]
  BY <1>6, Zenon
<1> HIDE DEF r
<1> QED BY <1>3, <1>7, <1>8, Zenon

(* parseEvent ends with what a run of unfoldContext ends with.              *)
LEMMA ParseLoop ==
  ASSUME NEW from, NEW contexts, NEW m \in Nat, DOMAIN contexts = 1 .. m,
         NEW r, runs(r, "unfold", [start |-> from, txs |-> << >>], contexts, m)
  PROVE  parseEvent(from, contexts) = r[m].txs
<1> DEFINE base == [start |-> from, txs |-> << >>]
<1> HIDE DEF base
<1> DEFINE by(after) ==
      after = [s \in SUBSET (1 .. m) |->
                 IF s = {} THEN base
                 ELSE LET x == Max(s) IN unfoldContext(after[s \ {x}], contexts[x])]
<1>1. \A after : by(after) <=> folds(after, "unfold", base, contexts, m)
  BY Zenon DEF folds, foldStep
<1>2. \E after : by(after)
  BY <1>1, FoldExists, Zenon
<1>3. PICK after : by(after) /\ parseEvent(from, contexts) = after[1 .. m].txs
  BY <1>2, Zenon DEF parseEvent, FoldLeft, MapThenFoldSet, base
<1>4. folds(after, "unfold", base, contexts, m) /\ runs(r, "unfold", base, contexts, m)
  BY <1>1, <1>3, Zenon DEF base
<1>5. after[1 .. m] = r[m]
  BY <1>4, FoldIsRun, SMTT(30)
<1> QED BY <1>3, <1>5, Zenon

-----------------------------------------------------------------------------
(* Sequences by their elements.                                             *)

(* A function on 1 .. n is a sequence of length n.                          *)
LEMMA SeqForm ==
  ASSUME NEW n \in Nat, NEW q, q = [i \in 1 .. n |-> q[i]]
  PROVE  q \in Seq({q[i] : i \in 1 .. n}) /\ Len(q) = n /\ DOMAIN q = 1 .. n
<1> DEFINE S == {q[i] : i \in 1 .. n}
<1>1. q \in [1 .. n -> S]
  BY Zenon
<1> HIDE DEF S
<1>2. q \in Seq(S)
  BY <1>1
<1>3. DOMAIN q = 1 .. n /\ Len(q) = n
  BY <1>1, <1>2
<1> QED BY <1>2, <1>3, Zenon DEF S

(* What Append puts where.                                                  *)
LEMMA AppendForm ==
  ASSUME NEW n \in Nat, NEW q, q = [i \in 1 .. n |-> q[i]], NEW x
  PROVE  Append(q, x) = [i \in 1 .. n + 1 |-> IF i = n + 1 THEN x ELSE q[i]]
<1> DEFINE S == {q[i] : i \in 1 .. n} \cup {x}
           a == Append(q, x)
           f == [i \in 1 .. n + 1 |-> IF i = n + 1 THEN x ELSE q[i]]
<1>1. q \in Seq({q[i] : i \in 1 .. n}) /\ Len(q) = n
  BY SeqForm, Zenon
<1>2. q \in Seq(S)
  <2> DEFINE R == {q[i] : i \in 1 .. n}
  <2>1. R \subseteq S
    BY Zenon
  <2> HIDE DEF R, S
  <2>2. q \in Seq(R)
    BY <1>1, Zenon DEF R
  <2> QED BY <2>1, <2>2
<1>3. x \in S
  BY Zenon
<1> HIDE DEF S
<1>4. /\ a \in Seq(S) /\ Len(a) = n + 1 /\ DOMAIN a = 1 .. n + 1
      /\ \A i \in 1 .. n : a[i] = q[i]
      /\ a[n + 1] = x
  BY <1>1, <1>2, <1>3
<1>5. a = [i \in 1 .. n + 1 |-> a[i]]
  BY <1>4
<1>6. \A i \in 1 .. n + 1 : i = n + 1 \/ i \in 1 .. n
  OBVIOUS
<1>7. \A i \in 1 .. n + 1 : a[i] = f[i]
  BY <1>4, <1>6, Zenon
<1>8. f = [i \in 1 .. n + 1 |-> f[i]]
  BY Zenon
<1> HIDE DEF a, f
<1>9. a = f
  BY <1>5, <1>7, <1>8, Zenon
<1> QED BY <1>9, Zenon DEF a, f

(* What a concatenation has where.                                          *)
LEMMA ConcatForm ==
  ASSUME NEW m \in Nat, NEW n \in Nat,
         NEW p, p = [i \in 1 .. m |-> p[i]], NEW q, q = [i \in 1 .. n |-> q[i]]
  PROVE  p \o q = [i \in 1 .. m + n |-> IF i <= m THEN p[i] ELSE q[i - m]]
<1> DEFINE P == {p[i] : i \in 1 .. m}
           Q == {q[i] : i \in 1 .. n}
           c == p \o q
           f == [i \in 1 .. m + n |-> IF i <= m THEN p[i] ELSE q[i - m]]
<1>1. p \in Seq(P) /\ Len(p) = m
  BY SeqForm, Zenon
<1>2. q \in Seq(Q) /\ Len(q) = n
  BY SeqForm, Zenon
<1> HIDE DEF P, Q
<1>3. p \in Seq(P \cup Q) /\ q \in Seq(P \cup Q)
  BY <1>1, <1>2
<1>4. /\ c \in Seq(P \cup Q) /\ Len(c) = m + n /\ DOMAIN c = 1 .. m + n
      /\ \A i \in 1 .. m + n : c[i] = IF i <= m THEN p[i] ELSE q[i - m]
  BY <1>1, <1>2, <1>3
<1>5. c = [i \in 1 .. m + n |-> c[i]]
  BY <1>4
<1>6. \A i \in 1 .. m + n : c[i] = f[i]
  BY <1>4, Zenon
<1>7. f = [i \in 1 .. m + n |-> f[i]]
  BY Zenon
<1> HIDE DEF c, f
<1>8. c = f
  BY <1>5, <1>6, <1>7, Zenon
<1> QED BY <1>8, Zenon DEF c, f

-----------------------------------------------------------------------------
(* How GenSequencerBatchParams groups the blocks of a batch.                *)

\* c[k] is the index of the next queue transaction after the first k blocks:
\* the queue transactions among them are numbered without a gap.
numbered(els, c, n) ==
    /\ c \in [0 .. n -> Nat]
    /\ \A k \in 0 .. n - 1 :
         IF IsSequencerTx(els[k + 1]) THEN c[k + 1] = c[k]
         ELSE els[k + 1].queueIndex = c[k] /\ c[k + 1] = c[k] + 1

\* The group of the blocks after place a up to place b: sequencer transactions up
\* to place s, queue transactions from there on.
piece(els, c, g, a, s, b) ==
    /\ g = [sequenced |-> [j \in 1 .. s - a |-> els[a + j]],
            queued |-> [j \in 1 .. b - s |-> els[s + j]]]
    /\ \A j \in a + 1 .. s :
         IsSequencerTx(els[j]) /\ els[j].blockNumber = els[a + 1].blockNumber
    /\ \A j \in s + 1 .. b : ~IsSequencerTx(els[j])
    /\ \A j \in a + 1 .. b : els[j].timestamp = els[a + 1].timestamp
    /\ c[s] = c[a]
    /\ \A j \in s .. b : c[j] = c[s] + (j - s)

\* The groups cover the first k blocks: group i those after place e[i - 1] up to
\* place e[i].
covers(els, c, groups, k, m, e, s) ==
    /\ groups = [i \in 1 .. m |-> groups[i]]
    /\ e \in [0 .. m -> Nat] /\ s \in [1 .. m -> Nat]
    /\ e[0] = 0 /\ e[m] = k
    /\ \A i \in 1 .. m : /\ e[i - 1] <= s[i] /\ s[i] <= e[i] /\ e[i - 1] < e[i]
                         /\ piece(els, c, groups[i], e[i - 1], s[i], e[i])

grouped(els, c, g, k) ==
    /\ \E m \in Nat : \E e, s : (m = 0 <=> k = 0) /\ covers(els, c, g.groups, k, m, e, s)
    /\ k > 0 => g.last[1] = els[k]

\* The group that a block opens.
opened(el) == addTo([sequenced |-> << >>, queued |-> << >>], el)

(* A group of one block.                                                    *)
LEMMA NewPiece ==
  ASSUME NEW n \in Nat, NEW els, NEW c, numbered(els, c, n), NEW k \in 0 .. n - 1
  PROVE  \E t \in {k, k + 1} : piece(els, c, opened(els[k + 1]), k, t, k + 1)
<1> DEFINE el == els[k + 1]
<1>1. k \in Nat /\ c[k] \in Nat
  BY DEF numbered
<1>2. Append(<< >>, el) = <<el>>
  OBVIOUS
<1>3. <<el>> = [j \in 1 .. 1 |-> els[k + j]]
  <2> DEFINE f == [j \in 1 .. 1 |-> els[k + j]]
  <2>1. \A j \in 1 .. 1 : j = 1
    OBVIOUS
  <2>2. f = [j \in 1 .. 1 |-> el]
    BY <2>1, Zenon
  <2>3. \A x : <<x>> = [j \in 1 .. 1 |-> x]
    OBVIOUS
  <2> HIDE DEF el
  <2> QED BY <2>2, <2>3, Zenon
<1>4. CASE IsSequencerTx(el)
  <2>1. opened(el) = [sequenced |-> <<el>>, queued |-> << >>]
    BY <1>2, <1>4, Zenon DEF opened, addTo
  <2>2. (k + 1) - k = 1 /\ (k + 1) - (k + 1) = 0
    BY <1>1
  <2>3. << >> = [j \in 1 .. 0 |-> els[(k + 1) + j]]
    OBVIOUS
  <2>4. opened(el) = [sequenced |-> [j \in 1 .. (k + 1) - k |-> els[k + j]],
                      queued |-> [j \in 1 .. (k + 1) - (k + 1) |-> els[(k + 1) + j]]]
    BY <1>3, <2>1, <2>2, <2>3, Zenon
  <2>5. /\ \A j \in k + 1 .. k + 1 : j = k + 1
        /\ \A j \in (k + 1) + 1 .. k + 1 : FALSE
    BY <1>1
  <2>6. c[k + 1] = c[k]
    BY <1>4, Zenon DEF numbered
  <2>7. \A j \in k + 1 .. k + 1 : c[j] = c[k + 1] + (j - (k + 1))
    BY <1>1, <2>6
  <2>8. piece(els, c, opened(el), k, k + 1, k + 1)
    BY <1>4, <2>4, <2>5, <2>6, <2>7, Zenon DEF piece
  <2> QED BY <2>8, Zenon
<1>5. CASE ~IsSequencerTx(el)
  <2>1. opened(el) = [sequenced |-> << >>, queued |-> <<el>>]
    BY <1>2, <1>5, Zenon DEF opened, addTo
  <2>2. (k + 1) - k = 1 /\ k - k = 0
    BY <1>1
  <2>3. << >> = [j \in 1 .. 0 |-> els[k + j]]
    OBVIOUS
  <2>4. opened(el) = [sequenced |-> [j \in 1 .. k - k |-> els[k + j]],
                      queued |-> [j \in 1 .. (k + 1) - k |-> els[k + j]]]
    BY <1>3, <2>1, <2>2, <2>3, Zenon
  <2>5. /\ \A j \in k + 1 .. k + 1 : j = k + 1
        /\ \A j \in k + 1 .. k : FALSE
    BY <1>1
  <2>6. c[k + 1] = c[k] + 1
    BY <1>5, Zenon DEF numbered
  <2>7. \A j \in k .. k + 1 : c[j] = c[k] + (j - k)
    <3>1. \A j \in k .. k + 1 : j = k \/ j = k + 1
      BY <1>1
    <3>2. c[k] = c[k] + (k - k) /\ c[k] + 1 = c[k] + ((k + 1) - k)
      BY <1>1
    <3> QED BY <2>6, <3>1, <3>2, Zenon
  <2>8. piece(els, c, opened(el), k, k, k + 1)
    BY <1>5, <2>4, <2>5, <2>7, Zenon DEF piece
  <2> QED BY <2>8, Zenon
<1> QED BY <1>4, <1>5, Zenon

(* A group that takes one more block.                                       *)
LEMMA LongerPiece ==
  ASSUME NEW n \in Nat, NEW els, NEW c, numbered(els, c, n), NEW k \in 0 .. n - 1,
         NEW g, NEW a \in Nat, NEW s \in Nat, a <= s, s <= k, a < k,
         piece(els, c, g, a, s, k),
         els[k + 1].timestamp = els[k].timestamp,
         IsSequencerTx(els[k + 1]) =>
             IsSequencerTx(els[k]) /\ els[k + 1].blockNumber = els[k].blockNumber
  PROVE  \E t \in {s, k + 1} : piece(els, c, addTo(g, els[k + 1]), a, t, k + 1)
<1> DEFINE el == els[k + 1]
           first == [j \in 1 .. s - a |-> els[a + j]]
           rest == [j \in 1 .. k - s |-> els[s + j]]
<1>1. k \in Nat /\ s - a \in Nat /\ k - s \in Nat /\ c[k] \in Nat /\ c[s] \in Nat
  <2>1. c \in [0 .. n -> Nat]
    BY Zenon DEF numbered
  <2> QED BY <2>1
<1>2. g = [sequenced |-> first, queued |-> rest]
  BY Zenon DEF piece
<1>3. first = [j \in 1 .. s - a |-> first[j]] /\ rest = [j \in 1 .. k - s |-> rest[j]]
  BY Zenon
<1>4. el.timestamp = els[a + 1].timestamp
  <2>1. k \in a + 1 .. k
    BY <1>1
  <2> QED BY <2>1, Zenon DEF piece
<1>5. CASE IsSequencerTx(el)
  <2>1. s = k
    <3> SUFFICES ASSUME s # k PROVE FALSE
      BY Zenon
    <3>1. k \in s + 1 .. k
      BY <1>1
    <3> QED BY <1>5, <3>1, Zenon DEF piece
  <2>2. k \in a + 1 .. s
    BY <1>1, <2>1
  <2>3. el.blockNumber = els[a + 1].blockNumber
    BY <1>5, <2>2, Zenon DEF piece
  <2>4. Append(first, el) = [j \in 1 .. (s - a) + 1 |-> IF j = (s - a) + 1 THEN el ELSE first[j]]
    <3> HIDE DEF first, rest, el
    <3> QED BY <1>1, <1>3, AppendForm, SMTT(30)
  <2>5. Append(first, el) = [j \in 1 .. (k + 1) - a |-> els[a + j]]
    <3>1. (k + 1) - a = (s - a) + 1 /\ a + ((s - a) + 1) = k + 1
      BY <1>1, <2>1
    <3>2. \A j \in 1 .. (s - a) + 1 : j = (s - a) + 1 \/ j \in 1 .. s - a
      BY <1>1
    <3>3. \A j \in 1 .. (s - a) + 1 :
            (IF j = (s - a) + 1 THEN el ELSE first[j]) = els[a + j]
      BY <3>1, <3>2, Zenon
    <3> HIDE DEF el, first
    <3> QED BY <2>4, <3>1, <3>3, Zenon
  <2>6. rest = [j \in 1 .. (k + 1) - (k + 1) |-> els[(k + 1) + j]]
    <3>1. 1 .. k - s = {} /\ 1 .. (k + 1) - (k + 1) = {}
      BY <1>1, <2>1
    <3> QED BY <3>1, Zenon
  <2>7. addTo(g, el) = [sequenced |-> Append(first, el), queued |-> rest]
    <3> HIDE DEF first, rest, el
    <3> QED BY <1>2, <1>5, Zenon DEF addTo
  <2>8. addTo(g, el) = [sequenced |-> [j \in 1 .. (k + 1) - a |-> els[a + j]],
                        queued |-> [j \in 1 .. (k + 1) - (k + 1) |-> els[(k + 1) + j]]]
    BY <2>5, <2>6, <2>7, Zenon
  <2>9. /\ \A j \in a + 1 .. k + 1 : j = k + 1 \/ j \in a + 1 .. s
        /\ \A j \in a + 1 .. k + 1 : j = k + 1 \/ j \in a + 1 .. k
        /\ \A j \in (k + 1) + 1 .. k + 1 : FALSE
    BY <1>1, <2>1
  <2>10. c[k + 1] = c[a]
    BY <1>5, <2>1, Zenon DEF numbered, piece
  <2>11. \A j \in k + 1 .. k + 1 : c[j] = c[k + 1] + (j - (k + 1))
    <3>1. c[k + 1] \in Nat
      BY DEF numbered
    <3> QED BY <1>1, <3>1
  <2>12. \A j \in a + 1 .. k + 1 :
           IsSequencerTx(els[j]) /\ els[j].blockNumber = els[a + 1].blockNumber
    BY <1>5, <2>3, <2>9, Zenon DEF piece
  <2>13. \A j \in a + 1 .. k + 1 : els[j].timestamp = els[a + 1].timestamp
    BY <1>4, <2>9, Zenon DEF piece
  <2> HIDE DEF el
  <2>14. piece(els, c, addTo(g, el), a, k + 1, k + 1)
    BY <2>8, <2>9, <2>10, <2>11, <2>12, <2>13, Zenon DEF piece
  <2> QED BY <2>14, Zenon DEF el
<1>6. CASE ~IsSequencerTx(el)
  <2>1. Append(rest, el) = [j \in 1 .. (k - s) + 1 |-> IF j = (k - s) + 1 THEN el ELSE rest[j]]
    <3> HIDE DEF first, rest, el
    <3> QED BY <1>1, <1>3, AppendForm, SMTT(30)
  <2>2. Append(rest, el) = [j \in 1 .. (k + 1) - s |-> els[s + j]]
    <3>1. (k + 1) - s = (k - s) + 1 /\ s + ((k - s) + 1) = k + 1
      BY <1>1
    <3>2. \A j \in 1 .. (k - s) + 1 : j = (k - s) + 1 \/ j \in 1 .. k - s
      BY <1>1
    <3>3. \A j \in 1 .. (k - s) + 1 :
            (IF j = (k - s) + 1 THEN el ELSE rest[j]) = els[s + j]
      BY <3>1, <3>2, Zenon
    <3> HIDE DEF el, rest
    <3> QED BY <2>1, <3>1, <3>3, Zenon
  <2>3. addTo(g, el) = [sequenced |-> first, queued |-> Append(rest, el)]
    <3> HIDE DEF first, rest, el
    <3> QED BY <1>2, <1>6, Zenon DEF addTo
  <2>4. addTo(g, el) = [sequenced |-> [j \in 1 .. s - a |-> els[a + j]],
                        queued |-> [j \in 1 .. (k + 1) - s |-> els[s + j]]]
    BY <2>2, <2>3, Zenon
  <2>5. /\ \A j \in s + 1 .. k + 1 : j = k + 1 \/ j \in s + 1 .. k
        /\ \A j \in a + 1 .. k + 1 : j = k + 1 \/ j \in a + 1 .. k
        /\ \A j \in s .. k + 1 : j = k + 1 \/ j \in s .. k
    BY <1>1
  <2>6. c[k + 1] = c[s] + ((k + 1) - s)
    <3>1. c[k + 1] = c[k] + 1
      BY <1>6, Zenon DEF numbered
    <3>2. k \in s .. k
      BY <1>1
    <3>3. c[k] = c[s] + (k - s)
      BY <3>2, Zenon DEF piece
    <3> QED BY <1>1, <3>1, <3>3
  <2>7. \A j \in s .. k + 1 : c[j] = c[s] + (j - s)
    BY <2>5, <2>6, Zenon DEF piece
  <2>8. \A j \in s + 1 .. k + 1 : ~IsSequencerTx(els[j])
    BY <1>6, <2>5, Zenon DEF piece
  <2>9. \A j \in a + 1 .. k + 1 : els[j].timestamp = els[a + 1].timestamp
    BY <1>4, <2>5, Zenon DEF piece
  <2>10. \A j \in a + 1 .. s :
           IsSequencerTx(els[j]) /\ els[j].blockNumber = els[a + 1].blockNumber
    BY Zenon DEF piece
  <2>11. c[s] = c[a]
    BY Zenon DEF piece
  <2> HIDE DEF el
  <2>12. piece(els, c, addTo(g, el), a, s, k + 1)
    BY <2>4, <2>7, <2>8, <2>9, <2>10, <2>11, Zenon DEF piece
  <2> QED BY <2>12, Zenon DEF el
<1> QED BY <1>5, <1>6, Zenon

(* The loop takes one more block: the groups so far stay, but for the last  *)
(* one when it takes the block.                                             *)
LEMMA GroupNew ==
  ASSUME NEW n \in Nat, NEW els, NEW c, numbered(els, c, n), NEW k \in 0 .. n - 1,
         NEW g, grouped(els, c, g, k), needsNewGroup(g, els[k + 1])
  PROVE  grouped(els, c, groupStep(g, els[k + 1]), k + 1)
<1> DEFINE el == els[k + 1]
           none == [sequenced |-> << >>, queued |-> << >>]
           open == Append(g.groups, none)
           after == groupStep(g, el)
<1>0. PICK m \in Nat : \E e, s : covers(els, c, g.groups, k, m, e, s)
  BY Zenon DEF grouped
<1>1. PICK e, s : covers(els, c, g.groups, k, m, e, s)
  BY <1>0, Zenon
<1>2. g.groups = [i \in 1 .. m |-> g.groups[i]]
  BY <1>1, Zenon DEF covers
<1>3. open = [i \in 1 .. m + 1 |-> IF i = m + 1 THEN none ELSE g.groups[i]]
  <2> HIDE DEF none
  <2> QED BY <1>2, AppendForm, SMTT(30)
<1>4. open = [i \in 1 .. m + 1 |-> open[i]] /\ m + 1 \in Nat
  <2>1. m + 1 \in Nat
    OBVIOUS
  <2> QED BY <1>3, <2>1, Zenon
<1>5. Len(open) = m + 1
  <2> HIDE DEF open
  <2> QED BY <1>4, SeqForm, SMTT(30)
<1>6. /\ after.groups = [open EXCEPT ![m + 1] = addTo(@, el)]
      /\ after.last = <<el>>
  <2>1. after = [groups |-> [open EXCEPT ![Len(open)] = addTo(@, el)], last |-> <<el>>]
    BY Zenon DEF groupStep
  <2> HIDE DEF after, open
  <2> QED BY <1>5, <2>1, Zenon
<1>7. PICK t \in {k, k + 1} : piece(els, c, opened(el), k, t, k + 1)
  BY NewPiece, Zenon
<1> DEFINE groups == [i \in 1 .. m + 1 |-> IF i = m + 1 THEN opened(el) ELSE g.groups[i]]
           e2 == [i \in 0 .. m + 1 |-> IF i = m + 1 THEN k + 1 ELSE e[i]]
           s2 == [i \in 1 .. m + 1 |-> IF i = m + 1 THEN t ELSE s[i]]
<1>8. after.groups = groups
  <2>1. m + 1 \in 1 .. m + 1
    OBVIOUS
  <2>2. open[m + 1] = none
    BY <1>3, <2>1, Zenon
  <2> HIDE DEF open, el, none, after
  <2>3. [open EXCEPT ![m + 1] = addTo(@, el)]
          = [i \in 1 .. m + 1 |-> IF i = m + 1 THEN addTo(none, el) ELSE open[i]]
    BY <1>4, <2>2, Zenon
  <2>4. \A i \in 1 .. m + 1 : i # m + 1 => open[i] = g.groups[i]
    BY <1>3, Zenon
  <2>5. opened(el) = addTo(none, el)
    BY Zenon DEF opened, none
  <2> QED BY <1>6, <2>3, <2>4, <2>5, Zenon
<1>9. covers(els, c, groups, k + 1, m + 1, e2, s2)
  <2>1. /\ e \in [0 .. m -> Nat] /\ s \in [1 .. m -> Nat] /\ e[0] = 0 /\ e[m] = k
        /\ \A i \in 1 .. m :
             /\ e[i - 1] <= s[i] /\ s[i] <= e[i] /\ e[i - 1] < e[i]
             /\ piece(els, c, g.groups[i], e[i - 1], s[i], e[i])
    BY <1>1, Zenon DEF covers
  <2>2. /\ \A i \in 0 .. m + 1 : i = m + 1 \/ i \in 0 .. m
        /\ \A i \in 1 .. m + 1 : i = m + 1 \/ i \in 1 .. m
        /\ k + 1 \in Nat /\ k \in Nat /\ t \in Nat /\ k <= t /\ t <= k + 1 /\ k < k + 1
        /\ 0 \in 0 .. m + 1 /\ m + 1 \in 0 .. m + 1 /\ m + 1 \in 1 .. m + 1
        /\ 0 # m + 1 /\ (m + 1) - 1 = m /\ m \in 0 .. m + 1 /\ m # m + 1
    OBVIOUS
  <2>3. e2 \in [0 .. m + 1 -> Nat] /\ s2 \in [1 .. m + 1 -> Nat]
    BY <2>1, <2>2, Zenon
  <2>4. e2[0] = 0 /\ e2[m + 1] = k + 1 /\ e2[m] = k /\ s2[m + 1] = t
    BY <2>1, <2>2, Zenon
  <2>5. groups[m + 1] = opened(el)
    BY <2>2, Zenon
  <2>6. ASSUME NEW i \in 1 .. m
        PROVE  /\ e2[i - 1] = e[i - 1] /\ e2[i] = e[i] /\ s2[i] = s[i]
               /\ groups[i] = g.groups[i]
    <3>1. /\ i - 1 \in 0 .. m + 1 /\ i \in 0 .. m + 1 /\ i \in 1 .. m + 1
          /\ i # m + 1 /\ i - 1 # m + 1
      OBVIOUS
    <3> QED BY <3>1, Zenon
  <2>7. groups = [i \in 1 .. m + 1 |-> groups[i]]
    BY Zenon
  <2> HIDE DEF groups, e2, s2, el
  <2>8. ASSUME NEW i \in 1 .. m + 1
        PROVE  /\ e2[i - 1] <= s2[i] /\ s2[i] <= e2[i] /\ e2[i - 1] < e2[i]
               /\ piece(els, c, groups[i], e2[i - 1], s2[i], e2[i])
    <3>1. CASE i = m + 1
      BY <1>7, <2>2, <2>4, <2>5, <3>1, Zenon
    <3>2. CASE i \in 1 .. m
      BY <2>1, <2>6, <3>2, Zenon
    <3> QED BY <2>2, <3>1, <3>2, Zenon
  <2> QED BY <2>3, <2>4, <2>7, <2>8, Zenon DEF covers
<1>10. m + 1 # 0 /\ k + 1 # 0 /\ m + 1 \in Nat
  OBVIOUS
<1>11. <<el>>[1] = el
  OBVIOUS
<1> HIDE DEF e2, s2, groups, after
<1>12. covers(els, c, after.groups, k + 1, m + 1, e2, s2)
  BY <1>8, <1>9, Zenon
<1>13. after.last[1] = els[k + 1]
  BY <1>6, <1>11, Zenon
<1>14. grouped(els, c, after, k + 1)
  BY <1>10, <1>12, <1>13, Zenon DEF grouped
<1> QED BY <1>14, Zenon DEF after

\* The block joins the last group.
LEMMA GroupSame ==
  ASSUME NEW n \in Nat, NEW els, NEW c, numbered(els, c, n), NEW k \in 0 .. n - 1,
         NEW g, grouped(els, c, g, k), ~needsNewGroup(g, els[k + 1])
  PROVE  grouped(els, c, groupStep(g, els[k + 1]), k + 1)
<1> DEFINE el == els[k + 1]
           after == groupStep(g, el)
<1>0. PICK m \in Nat : \E e, s : (m = 0 <=> k = 0) /\ covers(els, c, g.groups, k, m, e, s)
  BY Zenon DEF grouped
<1>1. PICK e, s : (m = 0 <=> k = 0) /\ covers(els, c, g.groups, k, m, e, s)
  BY <1>0, Zenon
<1>2. g.groups = [i \in 1 .. m |-> g.groups[i]]
  BY <1>1, Zenon DEF covers
<1>3. Len(g.groups) = m
  BY <1>2, SeqForm, SMTT(30)
<1>4. m # 0
  <2> SUFFICES ASSUME m = 0 PROVE FALSE
    BY Zenon
  <2>1. g.groups = [i \in 1 .. 0 |-> g.groups[i]]
    BY <1>2, Zenon
  <2>2. \A f : [i \in 1 .. 0 |-> f[i]] = << >>
    OBVIOUS
  <2>3. g.groups = << >>
    BY <2>1, <2>2, Zenon
  <2> QED BY <2>3, Zenon DEF needsNewGroup
<1>5. k \in Nat /\ k > 0 /\ k # 0 /\ m \in 1 .. m /\ m - 1 \in 0 .. m
  BY <1>1, <1>4
<1>6. g.last[1] = els[k]
  BY <1>5, Zenon DEF grouped
<1>7. /\ el.timestamp = els[k].timestamp
      /\ IsSequencerTx(el) => IsSequencerTx(els[k]) /\ el.blockNumber = els[k].blockNumber
  BY <1>6, Zenon DEF needsNewGroup
<1> DEFINE old == g.groups[m]
           a == e[m - 1]
           b == s[m]
<1>8. /\ a \in Nat /\ b \in Nat /\ a <= b /\ b <= k /\ a < k
      /\ piece(els, c, old, a, b, k)
  BY <1>1, <1>5, Zenon DEF covers
<1>9. PICK t \in {b, k + 1} : piece(els, c, addTo(old, el), a, t, k + 1)
  <2> HIDE DEF a, b, old
  <2> QED BY <1>7, <1>8, LongerPiece, SMTT(30)
<1>10. /\ after.groups = [g.groups EXCEPT ![m] = addTo(@, el)]
       /\ after.last = <<el>>
  <2>1. after = [groups |-> [g.groups EXCEPT ![Len(g.groups)] = addTo(@, el)],
                 last |-> <<el>>]
    BY Zenon DEF groupStep
  <2> HIDE DEF after
  <2> QED BY <1>3, <2>1, Zenon
<1> DEFINE groups == [i \in 1 .. m |-> IF i = m THEN addTo(old, el) ELSE g.groups[i]]
           e2 == [i \in 0 .. m |-> IF i = m THEN k + 1 ELSE e[i]]
           s2 == [i \in 1 .. m |-> IF i = m THEN t ELSE s[i]]
<1>11. after.groups = groups
  <2> HIDE DEF el, after
  <2> QED BY <1>2, <1>10, Zenon
<1>12. covers(els, c, groups, k + 1, m, e2, s2)
  <2>1. /\ e \in [0 .. m -> Nat] /\ s \in [1 .. m -> Nat] /\ e[0] = 0 /\ e[m] = k
        /\ \A i \in 1 .. m :
             /\ e[i - 1] <= s[i] /\ s[i] <= e[i] /\ e[i - 1] < e[i]
             /\ piece(els, c, g.groups[i], e[i - 1], s[i], e[i])
    BY <1>1, Zenon DEF covers
  <2> HIDE DEF a, b, old, el
  <2>2. /\ k + 1 \in Nat /\ t \in Nat /\ a <= t /\ t <= k + 1 /\ a < k + 1
        /\ m \in 0 .. m /\ m \in 1 .. m /\ 0 \in 0 .. m /\ m - 1 \in 0 .. m
        /\ 0 # m /\ m - 1 # m
    BY <1>5, <1>8
  <2>3. e2 \in [0 .. m -> Nat] /\ s2 \in [1 .. m -> Nat]
    BY <2>1, <2>2, Zenon
  <2>4. e2[0] = 0 /\ e2[m] = k + 1 /\ e2[m - 1] = a /\ s2[m] = t
    BY <2>1, <2>2, Zenon DEF a
  <2>5. groups[m] = addTo(old, el)
    BY <2>2, Zenon
  <2>6. ASSUME NEW i \in 1 .. m, i # m
        PROVE  /\ e2[i - 1] = e[i - 1] /\ e2[i] = e[i] /\ s2[i] = s[i]
               /\ groups[i] = g.groups[i]
    <3>1. i - 1 \in 0 .. m /\ i \in 0 .. m /\ i - 1 # m
      OBVIOUS
    <3> QED BY <2>6, <3>1, Zenon
  <2>7. groups = [i \in 1 .. m |-> groups[i]]
    BY Zenon
  <2> HIDE DEF groups, e2, s2
  <2>8. ASSUME NEW i \in 1 .. m
        PROVE  /\ e2[i - 1] <= s2[i] /\ s2[i] <= e2[i] /\ e2[i - 1] < e2[i]
               /\ piece(els, c, groups[i], e2[i - 1], s2[i], e2[i])
    <3>1. CASE i = m
      BY <1>9, <2>2, <2>4, <2>5, <3>1, Zenon
    <3>2. CASE i # m
      BY <2>1, <2>6, <3>2, Zenon
    <3> QED BY <3>1, <3>2, Zenon
  <2> QED BY <2>3, <2>4, <2>7, <2>8, Zenon DEF covers
<1>13. k + 1 # 0
  BY <1>5
<1>14. <<el>>[1] = el
  OBVIOUS
<1> HIDE DEF e2, s2, groups, after
<1>15. covers(els, c, after.groups, k + 1, m, e2, s2)
  BY <1>11, <1>12, Zenon
<1>16. after.last[1] = els[k + 1]
  BY <1>10, <1>14, Zenon
<1>17. grouped(els, c, after, k + 1)
  BY <1>4, <1>13, <1>15, <1>16, Zenon DEF grouped
<1> QED BY <1>17, Zenon DEF after

(* The grouping of a batch covers its blocks.                               *)
LEMMA GroupsCover ==
  ASSUME NEW n \in Nat, NEW els, DOMAIN els = 1 .. n, NEW c, numbered(els, c, n)
  PROVE  \E m \in Nat : \E e, s : covers(els, c, groupAll(els).groups, n, m, e, s)
<1>1. PICK r : runs(r, "group", Grouping, els, n) /\ groupAll(els) = r[n]
  BY GroupLoop, Zenon
<1> DEFINE T == {k \in 0 .. n : grouped(els, c, r[k], k)}
<1>2. 0 \in T
  <2>1. r[0] = Grouping /\ 0 \in 0 .. n
    BY <1>1, SMT DEF runs
  <2> DEFINE e == [i \in 0 .. 0 |-> 0]
             s == [i \in 1 .. 0 |-> 0]
  <2>2. Grouping.groups = [i \in 1 .. 0 |-> Grouping.groups[i]]
    BY DEF Grouping
  <2>3. /\ e \in [0 .. 0 -> Nat] /\ s \in [1 .. 0 -> Nat] /\ e[0] = 0
        /\ \A i \in 1 .. 0 : FALSE
    OBVIOUS
  <2>4. covers(els, c, Grouping.groups, 0, 0, e, s)
    BY <2>2, <2>3, Zenon DEF covers
  <2>5. ~(0 > 0) /\ 0 \in Nat
    OBVIOUS
  <2> HIDE DEF e, s
  <2>6. grouped(els, c, Grouping, 0)
    BY <2>4, <2>5, Zenon DEF grouped
  <2> QED BY <2>1, <2>6, Zenon
<1>3. ASSUME NEW k \in 0 .. n - 1, k \in T PROVE k + 1 \in T
  <2>1. r[k + 1] = groupStep(r[k], els[k + 1])
    BY <1>1, Zenon DEF runs, foldStep
  <2>2. grouped(els, c, r[k], k)
    BY <1>3, Zenon
  <2>3. grouped(els, c, groupStep(r[k], els[k + 1]), k + 1)
    BY <2>2, GroupNew, GroupSame, SMTT(30)
  <2>4. k + 1 \in 0 .. n
    OBVIOUS
  <2> QED BY <2>1, <2>3, <2>4, Zenon
<1> HIDE DEF T
<1>4. \A k \in 0 .. n : k \in T
  BY <1>2, <1>3, UpToInduction, Zenon
<1>5. n \in 0 .. n
  OBVIOUS
<1>6. grouped(els, c, r[n], n)
  BY <1>4, <1>5, Zenon DEF T
<1> QED BY <1>1, <1>6, Zenon DEF grouped

-----------------------------------------------------------------------------
(* How parseEvent unfolds the groups again.                                 *)

\* A block has its three fields and no others.
Block(el) == el = [queueIndex |-> el.queueIndex, timestamp |-> el.timestamp,
                   blockNumber |-> el.blockNumber]

\* What a reader knows of the first k blocks.
known(els, k) == [i \in 1 .. k |-> published(els[i])]

(* The context of a group counts its blocks and carries what they share.    *)
LEMMA PieceContext ==
  ASSUME NEW els, NEW c, NEW g, NEW a \in Nat, NEW s \in Nat, NEW b \in Nat,
         a <= s, s <= b, a < b, piece(els, c, g, a, s, b)
  PROVE  contextOf(g) = [numSequenced |-> s - a, numQueued |-> b - s,
                         timestamp |-> els[a + 1].timestamp,
                         blockNumber |-> els[a + 1].blockNumber]
<1> DEFINE first == [j \in 1 .. s - a |-> els[a + j]]
           rest == [j \in 1 .. b - s |-> els[s + j]]
<1>1. s - a \in Nat /\ b - s \in Nat
  OBVIOUS
<1>2. g.sequenced = first /\ g.queued = rest
  <2>1. g = [sequenced |-> first, queued |-> rest]
    BY Zenon DEF piece
  <2> HIDE DEF first, rest
  <2> QED BY <2>1, Zenon
<1>3. first = [j \in 1 .. s - a |-> first[j]] /\ rest = [j \in 1 .. b - s |-> rest[j]]
  BY Zenon
<1>4. CASE s - a = 0
  <2>1. s = a /\ 1 \in 1 .. b - s
    BY <1>4
  <2>2. rest[1] = els[a + 1]
    BY <2>1, Zenon
  <2> HIDE DEF first, rest
  <2>3. Len(first) = s - a /\ Len(rest) = b - s
    BY <1>1, <1>3, SeqForm, SMTT(30)
  <2>4. first = << >>
    <3>1. first = [j \in 1 .. 0 |-> first[j]]
      BY <1>3, <1>4, Zenon
    <3>2. \A f : [j \in 1 .. 0 |-> f[j]] = << >>
      OBVIOUS
    <3> QED BY <3>1, <3>2, Zenon
  <2> QED BY <1>2, <2>2, <2>3, <2>4, Zenon DEF contextOf
<1>5. CASE s - a # 0
  <2>1. 1 \in 1 .. s - a
    BY <1>1, <1>5
  <2>2. first[1] = els[a + 1]
    BY <2>1, Zenon
  <2> HIDE DEF first, rest
  <2>3. Len(first) = s - a /\ Len(rest) = b - s
    BY <1>1, <1>3, SeqForm, SMTT(30)
  <2>4. first # << >>
    <3> SUFFICES ASSUME first = << >> PROVE FALSE
      BY Zenon
    <3>1. Len(<< >>) = 0
      OBVIOUS
    <3> QED BY <1>5, <2>3, <3>1, Zenon
  <2> QED BY <1>2, <2>2, <2>3, <2>4, Zenon DEF contextOf
<1> QED BY <1>4, <1>5, Zenon

(* What is published of a block is the block, but for the number of a queue *)
(* transaction's.                                                           *)
LEMMA PublishedForm ==
  ASSUME NEW el, Block(el)
  PROVE  published(el) = [queueIndex |-> el.queueIndex, timestamp |-> el.timestamp,
                          blockNumber |-> IF IsSequencerTx(el) THEN el.blockNumber ELSE 0]
<1> DEFINE q == el.queueIndex
           t == el.timestamp
           b == el.blockNumber
<1>1. el = [queueIndex |-> q, timestamp |-> t, blockNumber |-> b]
  BY Zenon DEF Block
<1>2. CASE IsSequencerTx(el)
  BY <1>1, <1>2, Zenon DEF published
<1>3. CASE ~IsSequencerTx(el)
  <2>1. published(el) = [el EXCEPT !.blockNumber = 0]
    BY <1>3, Zenon DEF published
  <2> HIDE DEF q, t, b
  <2>2. [el EXCEPT !.blockNumber = 0] = [queueIndex |-> q, timestamp |-> t, blockNumber |-> 0]
    BY <1>1
  <2> QED BY <1>3, <2>1, <2>2, Zenon DEF q, t
<1> QED BY <1>2, <1>3, Zenon

(* The queue transactions among the first k blocks are as many as the index *)
(* has moved on.                                                            *)
LEMMA KnownQueued ==
  ASSUME NEW n \in Nat, NEW els, NEW c, numbered(els, c, n),
         \A i \in 1 .. n : Block(els[i])
  PROVE  \A k \in 0 .. n : queuedIn(known(els, k)) = c[k] - c[0]
<1> DEFINE Q(k) == {i \in 1 .. k : ~IsSequencerTx(els[i])}
           T == {k \in 0 .. n : IsFiniteSet(Q(k)) /\ Cardinality(Q(k)) = c[k] - c[0]}
<1>1. c \in [0 .. n -> Nat] /\ 0 \in 0 .. n
  BY SMT DEF numbered
<1>2. 0 \in T
  <2>1. Q(0) = {}
    OBVIOUS
  <2>2. c[0] - c[0] = 0
    BY <1>1
  <2> HIDE DEF Q
  <2> QED BY <1>1, <2>1, <2>2, FS_EmptySet, Zenon
<1>3. ASSUME NEW k \in 0 .. n - 1, k \in T PROVE k + 1 \in T
  <2>1. /\ k \in 0 .. n /\ k + 1 \in 0 .. n /\ c[k] \in Nat /\ c[0] \in Nat
        /\ \A i \in 1 .. k + 1 : i = k + 1 \/ i \in 1 .. k
        /\ \A i \in 1 .. k : i \in 1 .. k + 1
        /\ k + 1 \in 1 .. k + 1 /\ k + 1 \notin 1 .. k
    BY <1>1
  <2>2. IsFiniteSet(Q(k)) /\ Cardinality(Q(k)) = c[k] - c[0]
    BY <1>3, Zenon
  <2>3. CASE IsSequencerTx(els[k + 1])
    <3>1. Q(k + 1) = Q(k)
      BY <2>1, <2>3, Zenon
    <3>2. c[k + 1] = c[k]
      BY <2>3, Zenon DEF numbered
    <3> HIDE DEF Q
    <3> QED BY <2>1, <2>2, <3>1, <3>2, Zenon
  <2>4. CASE ~IsSequencerTx(els[k + 1])
    <3>1. Q(k + 1) = Q(k) \cup {k + 1} /\ k + 1 \notin Q(k)
      BY <2>1, <2>4, Zenon
    <3>2. c[k + 1] = c[k] + 1
      BY <2>4, Zenon DEF numbered
    <3> HIDE DEF Q
    <3>3. IsFiniteSet(Q(k + 1)) /\ Cardinality(Q(k + 1)) = Cardinality(Q(k)) + 1
      <4>1. /\ IsFiniteSet(Q(k) \cup {k + 1})
            /\ Cardinality(Q(k) \cup {k + 1})
                 = IF k + 1 \in Q(k) THEN Cardinality(Q(k)) ELSE Cardinality(Q(k)) + 1
        BY <2>2, FS_AddElement, Zenon
      <4> QED BY <3>1, <4>1, Zenon
    <3>4. (c[k] - c[0]) + 1 = (c[k] + 1) - c[0]
      BY <2>1
    <3> QED BY <2>1, <2>2, <3>2, <3>3, <3>4, Zenon
  <2> QED BY <2>3, <2>4, Zenon
<1> HIDE DEF T
<1>4. \A k \in 0 .. n : k \in T
  BY <1>2, <1>3, UpToInduction, Zenon
<1>5. ASSUME NEW k \in 0 .. n PROVE queuedIn(known(els, k)) = c[k] - c[0]
  <2> DEFINE p == known(els, k)
  <2>1. DOMAIN p = 1 .. k /\ \A i \in 1 .. k : p[i] = published(els[i])
    BY Zenon DEF known
  <2>2. ASSUME NEW i \in 1 .. k PROVE IsSequencerTx(p[i]) <=> IsSequencerTx(els[i])
    <3>1. i \in 1 .. n
      OBVIOUS
    <3>2. published(els[i]).queueIndex = els[i].queueIndex
      <4>1. Block(els[i])
        BY <3>1, Zenon
      <4>2. published(els[i]) = [queueIndex |-> els[i].queueIndex,
                timestamp |-> els[i].timestamp,
                blockNumber |-> IF IsSequencerTx(els[i]) THEN els[i].blockNumber ELSE 0]
        BY <4>1, PublishedForm, Zenon
      <4> QED BY <4>2
    <3> QED BY <2>1, <3>2, Zenon DEF IsSequencerTx
  <2> HIDE DEF p
  <2>3. {i \in DOMAIN p : ~IsSequencerTx(p[i])} = Q(k)
    BY <2>1, <2>2, Zenon
  <2>4. queuedIn(p) = Cardinality(Q(k))
    BY <2>3, Zenon DEF queuedIn
  <2> QED BY <1>4, <2>4, Zenon DEF p, T
<1> QED BY <1>5, Zenon

(* Unfolding the context of a group gives what is published of its blocks.  *)
LEMMA UnfoldPiece ==
  ASSUME NEW n \in Nat, NEW els, NEW c, numbered(els, c, n),
         \A i \in 1 .. n : Block(els[i]),
         NEW g, NEW a \in Nat, NEW s \in Nat, NEW b \in Nat,
         a <= s, s <= b, a < b, b <= n, piece(els, c, g, a, s, b)
  PROVE  unfoldContext([start |-> c[0], txs |-> known(els, a)], contextOf(g))
           = [start |-> c[0], txs |-> known(els, b)]
<1> DEFINE ts == els[a + 1].timestamp
           bn == els[a + 1].blockNumber
           first == [j \in 1 .. s - a |-> [queueIndex |-> NotQueued, timestamp |-> ts,
                                           blockNumber |-> bn]]
           rest == [j \in 1 .. b - s |-> [queueIndex |-> c[0] + (c[a] - c[0]) + j - 1,
                                          timestamp |-> ts, blockNumber |-> 0]]
           txs == known(els, a)
<1>1. /\ c \in [0 .. n -> Nat] /\ a \in 0 .. n /\ s \in 0 .. n /\ b \in 0 .. n
      /\ 0 \in 0 .. n /\ s - a \in Nat /\ b - s \in Nat
  <2>1. c \in [0 .. n -> Nat]
    BY Zenon DEF numbered
  <2> QED BY <2>1
<1>2. queuedIn(txs) = c[a] - c[0]
  BY <1>1, KnownQueued, SMTT(30)
<1>3. /\ contextOf(g).numSequenced = s - a /\ contextOf(g).numQueued = b - s
      /\ contextOf(g).timestamp = ts /\ contextOf(g).blockNumber = bn
  <2>1. contextOf(g) = [numSequenced |-> s - a, numQueued |-> b - s,
                        timestamp |-> ts, blockNumber |-> bn]
    BY PieceContext, SMTT(30)
  <2> HIDE DEF ts, bn
  <2> QED BY <2>1
<1>4. unfoldContext([start |-> c[0], txs |-> txs], contextOf(g))
        = [start |-> c[0], txs |-> (txs \o first) \o rest]
  <2> DEFINE acc == [start |-> c[0], txs |-> txs]
  <2> HIDE DEF ts, bn, txs
  <2>1. acc.start = c[0] /\ acc.txs = txs
    BY Zenon
  <2>2. unfoldContext(acc, contextOf(g)) = [acc EXCEPT !.txs = (txs \o first) \o rest]
    <3> HIDE DEF acc
    <3> QED BY <1>2, <1>3, <2>1, Zenon DEF unfoldContext
  <2>3. \A x : [acc EXCEPT !.txs = x] = [start |-> c[0], txs |-> x]
    OBVIOUS
  <2> QED BY <2>2, <2>3, Zenon
<1>5. txs = [i \in 1 .. a |-> txs[i]]
  BY Zenon DEF known
<1>6. first = [j \in 1 .. s - a |-> first[j]] /\ rest = [j \in 1 .. b - s |-> rest[j]]
  BY Zenon
<1> DEFINE part == txs \o first
<1>7. part = [i \in 1 .. s |-> IF i <= a THEN txs[i] ELSE first[i - a]]
  <2> HIDE DEF first, txs
  <2>1. part = [i \in 1 .. a + (s - a) |-> IF i <= a THEN txs[i] ELSE first[i - a]]
    BY <1>1, <1>5, <1>6, ConcatForm, SMTT(30)
  <2>2. a + (s - a) = s
    OBVIOUS
  <2> QED BY <2>1, <2>2, Zenon
<1>8. part \o rest = [i \in 1 .. b |-> IF i <= s THEN part[i] ELSE rest[i - s]]
  <2>1. part = [i \in 1 .. s |-> part[i]]
    BY <1>7, Zenon
  <2> HIDE DEF part, rest
  <2>2. part \o rest = [i \in 1 .. s + (b - s) |-> IF i <= s THEN part[i] ELSE rest[i - s]]
    BY <1>1, <1>6, <2>1, ConcatForm, SMTT(30)
  <2>3. s + (b - s) = b
    OBVIOUS
  <2> QED BY <2>2, <2>3, Zenon
<1>9. ASSUME NEW i \in 1 .. b
      PROVE  (IF i <= s THEN part[i] ELSE rest[i - s]) = published(els[i])
  <2>1. i \in 1 .. n /\ i \in Nat
    BY <1>1
  <2>2. Block(els[i])
    BY <2>1, Zenon
  <2>3. published(els[i]) = [queueIndex |-> els[i].queueIndex, timestamp |-> els[i].timestamp,
            blockNumber |-> IF IsSequencerTx(els[i]) THEN els[i].blockNumber ELSE 0]
    BY <2>2, PublishedForm, Zenon
  <2>4. CASE i <= a
    <3>1. i <= s /\ i \in 1 .. s /\ i \in 1 .. a
      BY <2>1, <2>4
    <3>2. part[i] = txs[i]
      <4> HIDE DEF part, first, txs
      <4> QED BY <1>7, <2>4, <3>1, Zenon
    <3>3. txs[i] = published(els[i])
      BY <3>1, Zenon DEF known
    <3> HIDE DEF part, rest, txs
    <3> QED BY <3>1, <3>2, <3>3, Zenon
  <2>5. CASE ~(i <= a) /\ i <= s
    <3>1. i \in 1 .. s /\ i - a \in 1 .. s - a /\ i \in a + 1 .. s /\ i \in a + 1 .. b
      BY <2>1, <2>5
    <3>2. part[i] = first[i - a]
      <4> HIDE DEF part, first, txs
      <4> QED BY <1>7, <2>5, <3>1, Zenon
    <3>3. first[i - a] = [queueIndex |-> NotQueued, timestamp |-> ts, blockNumber |-> bn]
      <4> HIDE DEF ts, bn
      <4> QED BY <3>1, Zenon
    <3>4. els[i].timestamp = ts /\ els[i].blockNumber = bn /\ IsSequencerTx(els[i])
      BY <3>1, Zenon DEF piece
    <3>5. els[i].queueIndex = NotQueued
      BY <3>4, Zenon DEF IsSequencerTx
    <3> HIDE DEF part, rest, txs, first, ts, bn
    <3> QED BY <2>3, <2>5, <3>2, <3>3, <3>4, <3>5, Zenon
  <2>6. CASE ~(i <= s)
    <3>1. /\ i - s \in 1 .. b - s /\ i \in s + 1 .. b /\ i \in a + 1 .. b
          /\ i - 1 \in s .. b /\ i - 1 \in 0 .. n - 1 /\ (i - 1) + 1 = i
      BY <1>1, <2>1, <2>6
    <3>2. rest[i - s] = [queueIndex |-> c[0] + (c[a] - c[0]) + (i - s) - 1,
                         timestamp |-> ts, blockNumber |-> 0]
      <4> HIDE DEF ts
      <4> QED BY <3>1, Zenon
    <3>3. els[i].timestamp = ts /\ ~IsSequencerTx(els[i])
      BY <3>1, Zenon DEF piece
    <3>4. els[i].queueIndex = c[i - 1]
      BY <3>1, <3>3, Zenon DEF numbered
    <3>5. c[i - 1] = c[s] + ((i - 1) - s) /\ c[s] = c[a]
      BY <3>1, Zenon DEF piece
    <3>6. c[i - 1] = c[0] + (c[a] - c[0]) + (i - s) - 1
      <4>1. c[a] \in Nat /\ c[0] \in Nat
        BY <1>1, Zenon
      <4>2. c[i - 1] = c[a] + ((i - 1) - s)
        BY <3>5, Zenon
      <4> QED BY <2>1, <4>1, <4>2
    <3> HIDE DEF part, rest, txs, first, ts, bn
    <3> QED BY <2>3, <2>6, <3>2, <3>3, <3>4, <3>6, Zenon
  <2> QED BY <2>4, <2>5, <2>6, Zenon
<1> HIDE DEF part, rest
<1>10. part \o rest = known(els, b)
  BY <1>8, <1>9, Zenon DEF known
<1> QED BY <1>4, <1>10, Zenon DEF part

(* The groups end inside the batch.                                         *)
LEMMA CoverBound ==
  ASSUME NEW els, NEW c, NEW groups, NEW n \in Nat, NEW m \in Nat, NEW e, NEW s,
         covers(els, c, groups, n, m, e, s)
  PROVE  \A i \in 0 .. m : e[i] <= n
<1>1. /\ e \in [0 .. m -> Nat] /\ e[m] = n
      /\ \A i \in 1 .. m : e[i - 1] < e[i]
  BY Zenon DEF covers
<1> DEFINE T == {d \in 0 .. m : e[m - d] <= n}
<1>2. 0 \in T
  <2>1. m - 0 = m /\ 0 \in 0 .. m /\ n <= n
    OBVIOUS
  <2> QED BY <1>1, <2>1, Zenon
<1>3. ASSUME NEW d \in 0 .. m - 1, d \in T PROVE d + 1 \in T
  <2>1. /\ m - d \in 1 .. m /\ (m - d) - 1 = m - (d + 1) /\ d + 1 \in 0 .. m
        /\ m - d \in 0 .. m /\ m - (d + 1) \in 0 .. m
    OBVIOUS
  <2>2. e[m - (d + 1)] < e[m - d] /\ e[m - d] <= n
    BY <1>1, <1>3, <2>1, Zenon
  <2>3. e[m - (d + 1)] \in Nat /\ e[m - d] \in Nat
    BY <1>1, <2>1, Zenon
  <2>4. e[m - (d + 1)] <= n
    BY <2>2, <2>3
  <2> QED BY <2>1, <2>4, Zenon
<1> HIDE DEF T
<1>4. \A d \in 0 .. m : d \in T
  BY <1>2, <1>3, UpToInduction, Zenon
<1>5. ASSUME NEW i \in 0 .. m PROVE m - i \in 0 .. m /\ m - (m - i) = i
  OBVIOUS
<1> QED BY <1>4, <1>5, Zenon DEF T

\* The contexts are those of groups that cover the batch.
coveredBy(els, c, n, contexts) ==
    \E m \in Nat : \E e, s, groups :
        /\ covers(els, c, groups, n, m, e, s)
        /\ contexts = [i \in 1 .. m |-> contextOf(groups[i])]

(* The contexts of GenSequencerBatchParams cover the batch.                 *)
LEMMA BatchContexts ==
  ASSUME NEW n \in Nat, NEW els, els = [i \in 1 .. n |-> els[i]],
         NEW c, numbered(els, c, n), NEW from
  PROVE  coveredBy(els, c, n, GenSequencerBatchParams(from, els).contexts)
<1> DEFINE groups == groupAll(els).groups
           contexts == GenSequencerBatchParams(from, els).contexts
<1>1. DOMAIN els = 1 .. n
  BY Zenon
<1>0. PICK m \in Nat : \E e, s : covers(els, c, groups, n, m, e, s)
  BY <1>1, GroupsCover, Zenon
<1>2. PICK e, s : covers(els, c, groups, n, m, e, s)
  BY <1>0, Zenon
<1>3. groups = [i \in 1 .. m |-> groups[i]]
  BY <1>2, Zenon DEF covers
<1>4. Len(groups) = m
  <2> HIDE DEF groups
  <2> QED BY <1>3, SeqForm, Zenon
<1>5. contexts = [i \in 1 .. m |-> contextOf(groups[i])]
  BY <1>4, Zenon DEF GenSequencerBatchParams, contextsOf
<1> HIDE DEF groups, contexts
<1>6. coveredBy(els, c, n, contexts)
  BY <1>2, <1>5, ZenonT(30) DEF coveredBy
<1> QED BY <1>6, Zenon DEF contexts

(* What the submitter writes the reader reads back: for every batch of      *)
(* blocks whose queue transactions follow each other in the queue,          *)
(* parseEvent finds in the contexts of GenSequencerBatchParams what is      *)
(* published of the blocks, block by block.                                 *)
THEOREM BatchRoundTrip ==
  ASSUME NEW n \in Nat, NEW els, els = [i \in 1 .. n |-> els[i]],
         \A i \in 1 .. n : Block(els[i]), NEW c, numbered(els, c, n), NEW from
  PROVE  parseEvent(c[0], GenSequencerBatchParams(from, els).contexts) = publishedAll(els)
<1> DEFINE contexts == GenSequencerBatchParams(from, els).contexts
           base == [start |-> c[0], txs |-> << >>]
<1>1. Len(els) = n
  BY SeqForm, Zenon
<1>cover. coveredBy(els, c, n, contexts)
  BY BatchContexts, Zenon
<1>0. PICK m \in Nat : \E e, s, groups :
        /\ covers(els, c, groups, n, m, e, s)
        /\ contexts = [i \in 1 .. m |-> contextOf(groups[i])]
  BY <1>cover, Zenon DEF coveredBy
<1>2. PICK e, s, groups :
        /\ covers(els, c, groups, n, m, e, s)
        /\ contexts = [i \in 1 .. m |-> contextOf(groups[i])]
  BY <1>0, Zenon
<1>3. contexts = [i \in 1 .. m |-> contextOf(groups[i])]
  BY <1>2, Zenon
<1> HIDE DEF contexts
<1> DEFINE r == [i \in 0 .. m |-> [start |-> c[0], txs |-> known(els, e[i])]]
<1>4. /\ e \in [0 .. m -> Nat] /\ s \in [1 .. m -> Nat] /\ e[0] = 0 /\ e[m] = n
      /\ \A i \in 1 .. m :
           /\ e[i - 1] <= s[i] /\ s[i] <= e[i] /\ e[i - 1] < e[i]
           /\ piece(els, c, groups[i], e[i - 1], s[i], e[i])
  BY <1>2, Zenon DEF covers
<1>5. \A i \in 0 .. m : e[i] <= n
  BY <1>2, CoverBound, Zenon
<1>6. runs(r, "unfold", base, contexts, m)
  <2>1. 0 \in 0 .. m
    OBVIOUS
  <2>2. r[0] = base
    <3>1. known(els, 0) = << >>
      <4>1. \A f : [j \in 1 .. 0 |-> published(f[j])] = << >>
        OBVIOUS
      <4> QED BY <4>1, Zenon DEF known
    <3> QED BY <1>4, <2>1, <3>1, Zenon
  <2>3. ASSUME NEW k \in 0 .. m - 1
        PROVE  r[k + 1] = foldStep("unfold", r[k], contexts[k + 1])
    <3>1. k \in 0 .. m /\ k + 1 \in 0 .. m /\ k + 1 \in 1 .. m /\ (k + 1) - 1 = k
      OBVIOUS
    <3> DEFINE a == e[k]
               b == e[k + 1]
               t == s[k + 1]
               g == groups[k + 1]
    <3>2. /\ a \in Nat /\ b \in Nat /\ t \in Nat /\ a <= t /\ t <= b /\ a < b /\ b <= n
          /\ piece(els, c, g, a, t, b)
      <4>1. e[(k + 1) - 1] = a
        BY <3>1, Zenon
      <4> QED BY <1>4, <1>5, <3>1, <4>1, Zenon
    <3>3. contexts[k + 1] = contextOf(g)
      BY <1>3, <3>1, Zenon
    <3>4. /\ r[k] = [start |-> c[0], txs |-> known(els, a)]
          /\ r[k + 1] = [start |-> c[0], txs |-> known(els, b)]
      BY <3>1, Zenon
    <3> HIDE DEF a, b, t, g, r
    <3>5. unfoldContext([start |-> c[0], txs |-> known(els, a)], contextOf(g))
            = [start |-> c[0], txs |-> known(els, b)]
      BY <3>2, UnfoldPiece, SMTT(30)
    <3> QED BY <3>3, <3>4, <3>5, Zenon DEF foldStep
  <2> HIDE DEF r, base
  <2> QED BY <2>2, <2>3, Zenon DEF runs
<1>7. r[m].txs = known(els, n)
  <2>1. m \in 0 .. m
    OBVIOUS
  <2> QED BY <1>4, <2>1, Zenon
<1>8. known(els, n) = publishedAll(els)
  BY <1>1, Zenon DEF known, publishedAll
<1>9. DOMAIN contexts = 1 .. m
  BY <1>3, Zenon
<1> HIDE DEF r
<1>10. parseEvent(c[0], contexts) = r[m].txs
  BY <1>6, <1>9, ParseLoop, SMTT(30)
<1> QED BY <1>7, <1>8, <1>10, Zenon DEF contexts

(* numSequencerTransactions ends with what a run of its sum ends with.      *)
LEMMA SequencedLoop ==
  ASSUME NEW p, NEW m \in Nat, DOMAIN p.contexts = 1 .. m,
         NEW r, runs(r, "sequenced", 0, p.contexts, m)
  PROVE  numSequencerTransactions(p) = r[m]
<1> DEFINE by(after) ==
      after = [s \in SUBSET (1 .. m) |->
                 IF s = {} THEN 0
                 ELSE LET x == Max(s) IN after[s \ {x}] + p.contexts[x].numSequenced]
<1>1. \A after : by(after) <=> folds(after, "sequenced", 0, p.contexts, m)
  BY Zenon DEF folds, foldStep
<1>2. \E after : by(after)
  BY <1>1, FoldExists, Zenon
<1>3. PICK after : by(after) /\ numSequencerTransactions(p) = after[1 .. m]
  BY <1>2, Zenon DEF numSequencerTransactions, FoldLeft, MapThenFoldSet
<1>4. folds(after, "sequenced", 0, p.contexts, m)
  BY <1>1, <1>3, Zenon
<1>5. after[1 .. m] = r[m]
  BY <1>4, FoldIsRun, SMTT(30)
<1> QED BY <1>3, <1>5, Zenon

(* The same for the queue index that a batch leads to.                      *)
LEMMA QueuedLoop ==
  ASSUME NEW p, NEW m \in Nat, DOMAIN p.contexts = 1 .. m,
         NEW r, runs(r, "queued", _nextQueueIndex, p.contexts, m)
  PROVE  queueAfter(p) = r[m]
<1> DEFINE by(after) ==
      after = [s \in SUBSET (1 .. m) |->
                 IF s = {} THEN _nextQueueIndex
                 ELSE LET x == Max(s) IN after[s \ {x}] + p.contexts[x].numQueued]
<1>1. \A after : by(after) <=> folds(after, "queued", _nextQueueIndex, p.contexts, m)
  BY Zenon DEF folds, foldStep
<1>2. \E after : by(after)
  BY <1>1, FoldExists, Zenon
<1>3. PICK after : by(after) /\ queueAfter(p) = after[1 .. m]
  BY <1>2, Zenon DEF queueAfter, FoldLeft, MapThenFoldSet
<1>4. folds(after, "queued", _nextQueueIndex, p.contexts, m)
  BY <1>1, <1>3, Zenon
<1>5. after[1 .. m] = r[m]
  BY <1>4, FoldIsRun, SMTT(30)
<1> QED BY <1>3, <1>5, Zenon

(* The chain of batches as a reader takes it ends with what a run over the  *)
(* batches ends with.                                                       *)
LEMMA ChainLoop ==
  ASSUME NEW m \in Nat, DOMAIN batches = 1 .. m,
         NEW r, runs(r, "chain", << >>, batches, m)
  PROVE  canonical = r[m]
<1> DEFINE by(after) ==
      after = [s \in SUBSET (1 .. m) |->
                 IF s = {} THEN << >>
                 ELSE LET x == Max(s)
                      IN after[s \ {x}]
                           \o parseEvent(batches[x].startingQueueIndex, batches[x].contexts)]
<1>1. \A after : by(after) <=> folds(after, "chain", << >>, batches, m)
  BY Zenon DEF folds, foldStep
<1>2. \E after : by(after)
  BY <1>1, FoldExists, Zenon
<1>3. PICK after : by(after) /\ canonical = after[1 .. m]
  BY <1>2, Zenon DEF canonical, FoldLeft, MapThenFoldSet
<1>4. folds(after, "chain", << >>, batches, m)
  BY <1>1, <1>3, Zenon
<1>5. after[1 .. m] = r[m]
  BY <1>4, FoldIsRun, SMTT(30)
<1> QED BY <1>3, <1>5, Zenon

(* The counts of a batch: as many sequencer transactions as the contract    *)
(* adds up, and as many queue transactions as the index moves on.           *)
LEMMA BatchCounts ==
  ASSUME NEW n \in Nat, NEW els, els = [i \in 1 .. n |-> els[i]],
         NEW c, numbered(els, c, n), NEW from, _nextQueueIndex \in Nat
  PROVE  LET p == GenSequencerBatchParams(from, els)
         IN /\ numSequencerTransactions(p) = n - (c[n] - c[0])
            /\ queueAfter(p) = _nextQueueIndex + (c[n] - c[0])
<1> DEFINE p == GenSequencerBatchParams(from, els)
<1>1. coveredBy(els, c, n, p.contexts)
  BY BatchContexts, Zenon
<1>2. PICK m \in Nat : \E e, s, groups :
        /\ covers(els, c, groups, n, m, e, s)
        /\ p.contexts = [i \in 1 .. m |-> contextOf(groups[i])]
  BY <1>1, Zenon DEF coveredBy
<1>3. PICK e, s, groups :
        /\ covers(els, c, groups, n, m, e, s)
        /\ p.contexts = [i \in 1 .. m |-> contextOf(groups[i])]
  BY <1>2, Zenon
<1> HIDE DEF p
<1>4. /\ e \in [0 .. m -> Nat] /\ s \in [1 .. m -> Nat] /\ e[0] = 0 /\ e[m] = n
      /\ \A i \in 1 .. m :
           /\ e[i - 1] <= s[i] /\ s[i] <= e[i] /\ e[i - 1] < e[i]
           /\ piece(els, c, groups[i], e[i - 1], s[i], e[i])
  BY <1>3, Zenon DEF covers
<1>5. \A i \in 0 .. m : e[i] <= n
  BY <1>3, CoverBound, Zenon
<1>6. c \in [0 .. n -> Nat] /\ 0 \in 0 .. n /\ 0 \in 0 .. m /\ m \in 0 .. m
  BY SMT DEF numbered
<1>7. \A i \in 0 .. m : e[i] \in Nat /\ c[e[i]] \in Nat
  <2> SUFFICES ASSUME NEW i \in 0 .. m PROVE e[i] \in Nat /\ c[e[i]] \in Nat
    BY Zenon
  <2>1. e[i] \in Nat /\ e[i] <= n
    BY <1>4, <1>5, Zenon
  <2>2. e[i] \in 0 .. n
    BY <2>1
  <2> QED BY <1>6, <2>1, <2>2, Zenon
<1> DEFINE u == [i \in 0 .. m |-> e[i] - (c[e[i]] - c[0])]
           v == [i \in 0 .. m |-> _nextQueueIndex + (c[e[i]] - c[0])]
<1>8. ASSUME NEW k \in 0 .. m - 1
      PROVE  /\ u[k + 1] = u[k] + p.contexts[k + 1].numSequenced
             /\ v[k + 1] = v[k] + p.contexts[k + 1].numQueued
  <2>1. k \in 0 .. m /\ k + 1 \in 0 .. m /\ k + 1 \in 1 .. m /\ (k + 1) - 1 = k
    OBVIOUS
  <2> DEFINE a == e[k]
             b == e[k + 1]
             t == s[k + 1]
             g == groups[k + 1]
  <2>2. /\ a \in Nat /\ b \in Nat /\ t \in Nat /\ a <= t /\ t <= b /\ a < b
        /\ piece(els, c, g, a, t, b)
    <3>1. e[(k + 1) - 1] = a
      BY <2>1, Zenon
    <3> QED BY <1>4, <2>1, <3>1, Zenon
  <2>3. p.contexts[k + 1] = contextOf(g)
    BY <1>3, <2>1, Zenon
  <2>4. /\ u[k] = a - (c[a] - c[0]) /\ u[k + 1] = b - (c[b] - c[0])
        /\ v[k] = _nextQueueIndex + (c[a] - c[0])
        /\ v[k + 1] = _nextQueueIndex + (c[b] - c[0])
    BY <2>1, Zenon
  <2>5. c[a] \in Nat /\ c[b] \in Nat /\ c[0] \in Nat
    BY <1>6, <1>7, <2>1, Zenon
  <2> HIDE DEF a, b, t, g, u, v
  <2>6. contextOf(g).numSequenced = t - a /\ contextOf(g).numQueued = b - t
    <3>1. contextOf(g) = [numSequenced |-> t - a, numQueued |-> b - t,
                          timestamp |-> els[a + 1].timestamp,
                          blockNumber |-> els[a + 1].blockNumber]
      BY <2>2, PieceContext, SMTT(30)
    <3> QED BY <3>1
  <2>7. c[b] = c[a] + (b - t)
    <3>1. b \in t .. b
      BY <2>2
    <3> QED BY <2>2, <3>1, Zenon DEF piece
  <2>8. /\ b - ((c[a] + (b - t)) - c[0]) = (a - (c[a] - c[0])) + (t - a)
        /\ _nextQueueIndex + ((c[a] + (b - t)) - c[0])
             = (_nextQueueIndex + (c[a] - c[0])) + (b - t)
    <3> DEFINE w == c[a]
               o == c[0]
    <3>1. a \in Nat /\ b \in Nat /\ t \in Nat /\ w \in Nat /\ o \in Nat
      BY <2>2, <2>5, Zenon
    <3> HIDE DEF w, o
    <3>2. /\ b - ((w + (b - t)) - o) = (a - (w - o)) + (t - a)
          /\ _nextQueueIndex + ((w + (b - t)) - o) = (_nextQueueIndex + (w - o)) + (b - t)
      BY <3>1
    <3> QED BY <3>2, Zenon DEF w, o
  <2> QED BY <2>3, <2>4, <2>6, <2>7, <2>8, Zenon
<1>9. u[0] = 0 /\ v[0] = _nextQueueIndex
  <2>1. 0 - (c[0] - c[0]) = 0 /\ _nextQueueIndex + (c[0] - c[0]) = _nextQueueIndex
    BY <1>6
  <2> QED BY <1>4, <1>6, <2>1, Zenon
<1>10. u[m] = n - (c[n] - c[0]) /\ v[m] = _nextQueueIndex + (c[n] - c[0])
  BY <1>4, <1>6, Zenon
<1>11. DOMAIN p.contexts = 1 .. m
  BY <1>3, Zenon
<1> HIDE DEF u, v
<1>12. runs(u, "sequenced", 0, p.contexts, m)
  BY <1>8, <1>9, Zenon DEF runs, foldStep
<1>13. runs(v, "queued", _nextQueueIndex, p.contexts, m)
  BY <1>8, <1>9, Zenon DEF runs, foldStep
<1>14. numSequencerTransactions(p) = u[m]
  BY <1>11, <1>12, SequencedLoop, Zenon
<1>15. queueAfter(p) = v[m]
  BY <1>11, <1>13, QueuedLoop, Zenon
<1> QED BY <1>10, <1>14, <1>15, Zenon DEF p

-----------------------------------------------------------------------------
(* The L2 chain and what the submitter takes from it.                       *)

L2Block == [queueIndex : Nat \cup {NotQueued}, timestamp : Timestamps,
            blockNumber : BlockNumbers]

\* The index of the next queue transaction after the first k blocks.
nextIndex(L) ==
    [k \in 0 .. Len(L) |-> Cardinality({i \in 1 .. k : ~IsSequencerTx(L[i])})]

\* The sequencer takes the queue transactions in the order of the queue.
L2Chain(L) ==
    /\ L \in Seq(L2Block)
    /\ \A k \in 0 .. Len(L) - 1 :
         ~IsSequencerTx(L[k + 1]) => L[k + 1].queueIndex = nextIndex(L)[k]

\* The blocks after place a up to place b.
slice(L, a, b) == [j \in 1 .. b - a |-> L[a + j]]

(* The index moves on by one at each queue transaction.                     *)
LEMMA IndexSteps ==
  ASSUME NEW L, Len(L) \in Nat
  PROVE  /\ nextIndex(L) \in [0 .. Len(L) -> Nat] /\ nextIndex(L)[0] = 0
         /\ \A k \in 0 .. Len(L) - 1 :
              nextIndex(L)[k + 1] = IF IsSequencerTx(L[k + 1]) THEN nextIndex(L)[k]
                                    ELSE nextIndex(L)[k] + 1
<1> DEFINE n == Len(L)
           Q(k) == {i \in 1 .. k : ~IsSequencerTx(L[i])}
<1>1. ASSUME NEW k \in 0 .. n PROVE IsFiniteSet(Q(k)) /\ Cardinality(Q(k)) \in Nat
  <2>1. k \in Int
    OBVIOUS
  <2>2. IsFiniteSet(1 .. k)
    BY <2>1, FS_Interval, SMT
  <2>3. Q(k) \subseteq 1 .. k
    BY Zenon
  <2> HIDE DEF Q
  <2>4. IsFiniteSet(Q(k))
    BY <2>2, <2>3, FS_Subset, Zenon
  <2> QED BY <2>4, FS_CardinalityType, Zenon
<1>2. \A k \in 0 .. n : nextIndex(L)[k] = Cardinality(Q(k))
  BY Zenon DEF nextIndex
<1>3. nextIndex(L) \in [0 .. n -> Nat]
  BY <1>1, Zenon DEF nextIndex
<1>4. nextIndex(L)[0] = 0
  <2>1. 0 \in 0 .. n /\ Q(0) = {}
    OBVIOUS
  <2> HIDE DEF Q
  <2> QED BY <1>2, <2>1, FS_EmptySet, Zenon
<1>5. ASSUME NEW k \in 0 .. n - 1
      PROVE  nextIndex(L)[k + 1] = IF IsSequencerTx(L[k + 1]) THEN nextIndex(L)[k]
                                   ELSE nextIndex(L)[k] + 1
  <2>1. /\ k \in 0 .. n /\ k + 1 \in 0 .. n
        /\ \A i \in 1 .. k + 1 : i = k + 1 \/ i \in 1 .. k
        /\ \A i \in 1 .. k : i \in 1 .. k + 1
        /\ k + 1 \in 1 .. k + 1 /\ k + 1 \notin 1 .. k
    OBVIOUS
  <2>2. CASE IsSequencerTx(L[k + 1])
    <3>1. Q(k + 1) = Q(k)
      BY <2>1, <2>2, Zenon
    <3> HIDE DEF Q
    <3> QED BY <1>2, <2>1, <2>2, <3>1, Zenon
  <2>3. CASE ~IsSequencerTx(L[k + 1])
    <3>1. Q(k + 1) = Q(k) \cup {k + 1} /\ k + 1 \notin Q(k)
      BY <2>1, <2>3, Zenon
    <3> HIDE DEF Q
    <3>2. Cardinality(Q(k) \cup {k + 1})
            = IF k + 1 \in Q(k) THEN Cardinality(Q(k)) ELSE Cardinality(Q(k)) + 1
      BY <1>1, <2>1, FS_AddElement, Zenon
    <3> QED BY <1>2, <2>1, <2>3, <3>1, <3>2, Zenon
  <2> QED BY <2>2, <2>3, Zenon
<1> HIDE DEF Q
<1> QED BY <1>3, <1>4, <1>5, Zenon

(* The blocks of any stretch of the chain are numbered.                     *)
LEMMA SliceNumbered ==
  ASSUME NEW L, L2Chain(L), NEW a \in Nat, NEW b \in Nat, a <= b, b <= Len(L)
  PROVE  LET c == [j \in 0 .. b - a |-> nextIndex(L)[a + j]]
         IN /\ numbered(slice(L, a, b), c, b - a)
            /\ c[0] = nextIndex(L)[a] /\ c[b - a] = nextIndex(L)[b]
            /\ \A i \in 1 .. b - a : Block(slice(L, a, b)[i])
<1> DEFINE n == b - a
           els == slice(L, a, b)
           c == [j \in 0 .. n |-> nextIndex(L)[a + j]]
<1>1. L \in Seq(L2Block) /\ Len(L) \in Nat /\ n \in Nat /\ a \in 0 .. Len(L)
  BY DEF L2Chain
<1>2. /\ nextIndex(L) \in [0 .. Len(L) -> Nat]
      /\ \A k \in 0 .. Len(L) - 1 :
           nextIndex(L)[k + 1] = IF IsSequencerTx(L[k + 1]) THEN nextIndex(L)[k]
                                 ELSE nextIndex(L)[k] + 1
  BY <1>1, IndexSteps, Zenon
<1>3. /\ \A j \in 0 .. n : a + j \in 0 .. Len(L)
      /\ 0 \in 0 .. n /\ n \in 0 .. n /\ a + 0 = a /\ a + n = b
  BY <1>1
<1>4. c \in [0 .. n -> Nat] /\ c[0] = nextIndex(L)[a] /\ c[n] = nextIndex(L)[b]
  BY <1>2, <1>3, Zenon
<1>5. ASSUME NEW k \in 0 .. n - 1
      PROVE  IF IsSequencerTx(els[k + 1]) THEN c[k + 1] = c[k]
             ELSE els[k + 1].queueIndex = c[k] /\ c[k + 1] = c[k] + 1
  <2>1. /\ k \in 0 .. n /\ k + 1 \in 0 .. n /\ k + 1 \in 1 .. n
        /\ a + k \in 0 .. Len(L) - 1 /\ a + (k + 1) = (a + k) + 1
    BY <1>1
  <2>2. /\ els[k + 1] = L[(a + k) + 1]
        /\ c[k] = nextIndex(L)[a + k] /\ c[k + 1] = nextIndex(L)[(a + k) + 1]
    BY <2>1, Zenon DEF slice
  <2>3. ~IsSequencerTx(L[(a + k) + 1]) => L[(a + k) + 1].queueIndex = nextIndex(L)[a + k]
    BY <2>1, Zenon DEF L2Chain
  <2>4. nextIndex(L)[(a + k) + 1] = IF IsSequencerTx(L[(a + k) + 1]) THEN nextIndex(L)[a + k]
                                    ELSE nextIndex(L)[a + k] + 1
    BY <1>2, <2>1, Zenon
  <2> HIDE DEF els, c
  <2> QED BY <2>2, <2>3, <2>4, Zenon
<1>6. ASSUME NEW i \in 1 .. n PROVE Block(els[i])
  <2>1. a + i \in 1 .. Len(L) /\ els[i] = L[a + i]
    BY <1>1 DEF slice
  <2>2. L[a + i] \in L2Block
    BY <1>1, <2>1
  <2>3. \A x \in L2Block : Block(x)
    BY DEF L2Block, Block
  <2> QED BY <2>1, <2>2, <2>3, Zenon
<1> HIDE DEF c, els, n
<1>7. numbered(els, c, n)
  BY <1>4, <1>5, Zenon DEF numbered
<1> QED BY <1>4, <1>6, <1>7, Zenon DEF c, els, n

(* A batch written from a stretch of the chain: what the contract adds up,  *)
(* and what a reader finds who starts at the index of its first block.      *)
LEMMA WrittenSlice ==
  ASSUME NEW L, L2Chain(L), NEW a \in Nat, NEW b \in Nat, a <= b, b <= Len(L),
         _nextQueueIndex \in Nat
  PROVE  LET p == GenSequencerBatchParams(a, slice(L, a, b))
             moved == nextIndex(L)[b] - nextIndex(L)[a]
         IN /\ p.shouldStartAtElement = a /\ p.totalElementsToAppend = b - a
            /\ numSequencerTransactions(p) = (b - a) - moved
            /\ queueAfter(p) = _nextQueueIndex + moved
            /\ parseEvent(nextIndex(L)[a], p.contexts)
                 = [j \in 1 .. b - a |-> published(L[a + j])]
<1> DEFINE n == b - a
           els == slice(L, a, b)
           c == [j \in 0 .. n |-> nextIndex(L)[a + j]]
           p == GenSequencerBatchParams(a, els)
<1>1. n \in Nat
  OBVIOUS
<1>2. /\ numbered(els, c, n) /\ c[0] = nextIndex(L)[a] /\ c[n] = nextIndex(L)[b]
      /\ \A i \in 1 .. n : Block(els[i])
  BY SliceNumbered, Zenon
<1>3. els = [i \in 1 .. n |-> els[i]] /\ \A i \in 1 .. n : els[i] = L[a + i]
  BY Zenon DEF slice
<1>4. Len(els) = n
  <2> HIDE DEF els, n
  <2> QED BY <1>1, <1>3, SeqForm, Zenon
<1> HIDE DEF els, n, c
<1>5. p.shouldStartAtElement = a /\ p.totalElementsToAppend = n
  BY <1>4, Zenon DEF GenSequencerBatchParams
<1>6. numSequencerTransactions(p) = n - (c[n] - c[0])
      /\ queueAfter(p) = _nextQueueIndex + (c[n] - c[0])
  BY <1>1, <1>2, <1>3, BatchCounts, SMTT(30)
<1>7. parseEvent(c[0], p.contexts) = publishedAll(els)
  BY <1>1, <1>2, <1>3, BatchRoundTrip, Zenon
<1>8. publishedAll(els) = [j \in 1 .. n |-> published(L[a + j])]
  BY <1>3, <1>4, Zenon DEF publishedAll
<1> HIDE DEF p
<1> QED BY <1>2, <1>5, <1>6, <1>7, <1>8, Zenon DEF p, els, n

-----------------------------------------------------------------------------
(* The inductive invariant.                                                 *)

\* Where the first i batches end.
endOf(bs, i) == IF i = 0 THEN 0 ELSE bs[i].prevTotalElements + bs[i].batchSize

\* A batch holds the stretch of the L2 chain that its header names, and a reader
\* who starts at its queue index finds it there.
BatchOf(L, b) ==
    /\ b.prevTotalElements \in Nat /\ b.batchSize \in Nat
    /\ b.prevTotalElements + b.batchSize <= Len(L)
    /\ b.startingQueueIndex = nextIndex(L)[b.prevTotalElements]
    /\ parseEvent(b.startingQueueIndex, b.contexts)
         = [j \in 1 .. b.batchSize |-> published(L[b.prevTotalElements + j])]

\* The batches follow each other, and the three totals are those of their end.
ChainOf(L, bs, total, meta, own) ==
    /\ Len(bs) \in Nat /\ bs = [i \in 1 .. Len(bs) |-> bs[i]]
    /\ \A i \in 1 .. Len(bs) :
         BatchOf(L, bs[i]) /\ bs[i].prevTotalElements = endOf(bs, i - 1)
    /\ total = endOf(bs, Len(bs))
    /\ meta = nextIndex(L)[total] /\ own = nextIndex(L)[total]

\* A transaction of the wallet is empty, or appends some stretch of the L2 chain,
\* at the place where the stretch belongs.
CallOf(L, call) ==
    \/ call = << >>
    \/ \E b \in 0 .. Len(L) : \E a \in 0 .. b :
         call = <<GenSequencerBatchParams(a, slice(L, a, b))>>

CallsOf(L, pool) == \A t \in pool : CallOf(L, t.call)

\* What the round has read names a stretch of the L2 chain, however stale.
RoundInv ==
    /\ daConfirmed \in 0 .. Len(l2) + 1
    /\ pc \in {"start", "range", "craft"} => start \in Nat \ {0}
    /\ pc \in {"range", "craft"} => end \in start .. Len(l2) + 1

\* What the last transaction replaced was such a chain too.
UndoInv ==
    undo # << >> =>
        /\ ChainOf(l2, undo[1].batches, undo[1].total, undo[1].inMeta, undo[1].inContract)
        /\ CallsOf(l2, undo[1].mempool)

SubmitterInv ==
    /\ L2Chain(l2)
    /\ ChainOf(l2, batches, totalElements, nextQueueIndex, _nextQueueIndex)
    /\ CallsOf(l2, mempool)
    /\ UndoInv
    /\ RoundInv

-----------------------------------------------------------------------------
(* What a growing L2 chain keeps.                                           *)

longer(L, M) ==
    /\ Len(L) \in Nat /\ Len(M) \in Nat /\ Len(L) <= Len(M)
    /\ \A i \in 1 .. Len(L) : M[i] = L[i]

(* The indexes and the stretches of the old chain are those of the new one. *)
LEMMA LongerSame ==
  ASSUME NEW L, NEW M, longer(L, M)
  PROVE  /\ \A k \in 0 .. Len(L) : nextIndex(M)[k] = nextIndex(L)[k]
         /\ \A b \in 0 .. Len(L) : \A a \in 0 .. b : slice(M, a, b) = slice(L, a, b)
<1>1. ASSUME NEW k \in 0 .. Len(L) PROVE nextIndex(M)[k] = nextIndex(L)[k]
  <2>1. k \in 0 .. Len(M) /\ \A i \in 1 .. k : i \in 1 .. Len(L)
    BY DEF longer
  <2>2. {i \in 1 .. k : ~IsSequencerTx(M[i])} = {i \in 1 .. k : ~IsSequencerTx(L[i])}
    BY <2>1, Zenon DEF longer
  <2> QED BY <2>1, <2>2, Zenon DEF nextIndex
<1>2. ASSUME NEW b \in 0 .. Len(L), NEW a \in 0 .. b PROVE slice(M, a, b) = slice(L, a, b)
  <2>1. \A j \in 1 .. b - a : a + j \in 1 .. Len(L)
    BY DEF longer
  <2> QED BY <2>1, Zenon DEF slice, longer
<1> QED BY <1>1, <1>2, Zenon

(* So the batches and the pending transactions stay right.                  *)
LEMMA LongerBatch ==
  ASSUME NEW L, NEW M, longer(L, M), NEW b, BatchOf(L, b)
  PROVE  BatchOf(M, b)
<1> DEFINE q == b.prevTotalElements
           n == b.batchSize
<1>1. q \in Nat /\ n \in Nat /\ q + n <= Len(L) /\ Len(L) \in Nat /\ Len(M) \in Nat
      /\ Len(L) <= Len(M)
  BY Zenon DEF BatchOf, longer
<1> HIDE DEF q, n
<1>2. q \in 0 .. Len(L) /\ q + n <= Len(M) /\ \A j \in 1 .. n : q + j \in 1 .. Len(L)
  BY <1>1
<1>3. nextIndex(M)[q] = nextIndex(L)[q]
  BY <1>2, LongerSame, Zenon
<1>4. [j \in 1 .. n |-> published(M[q + j])] = [j \in 1 .. n |-> published(L[q + j])]
  BY <1>2, Zenon DEF longer
<1> QED BY <1>1, <1>2, <1>3, <1>4, Zenon DEF BatchOf, q, n

(* The end of a chain of batches is inside the L2 chain.                    *)
LEMMA ChainEnd ==
  ASSUME NEW L, Len(L) \in Nat, NEW bs, NEW total, NEW meta, NEW own,
         ChainOf(L, bs, total, meta, own)
  PROVE  /\ \A i \in 0 .. Len(bs) : endOf(bs, i) \in 0 .. Len(L)
         /\ total \in 0 .. Len(L) /\ own \in Nat
<1>1. ASSUME NEW i \in 0 .. Len(bs) PROVE endOf(bs, i) \in 0 .. Len(L)
  <2>1. CASE i = 0
    BY <2>1 DEF endOf
  <2>2. CASE i # 0
    <3>1. i \in 1 .. Len(bs)
      BY <2>2 DEF ChainOf
    <3> DEFINE q == bs[i].prevTotalElements
               n == bs[i].batchSize
    <3>2. q \in Nat /\ n \in Nat /\ q + n <= Len(L)
      BY <3>1, Zenon DEF ChainOf, BatchOf
    <3>3. endOf(bs, i) = q + n
      BY <2>2, Zenon DEF endOf
    <3> HIDE DEF q, n
    <3>4. q + n \in 0 .. Len(L)
      BY <3>2
    <3> QED BY <3>3, <3>4, Zenon
  <2> QED BY <2>1, <2>2, Zenon
<1>2. Len(bs) \in 0 .. Len(bs)
  BY DEF ChainOf
<1>3. total \in 0 .. Len(L)
  BY <1>1, <1>2, Zenon DEF ChainOf
<1>4. nextIndex(L) \in [0 .. Len(L) -> Nat]
  BY IndexSteps, Zenon
<1>5. own \in Nat
  BY <1>3, <1>4, Zenon DEF ChainOf
<1> QED BY <1>1, <1>3, <1>5, Zenon

(* The chain of batches belongs to the longer chain too.                    *)
LEMMA LongerChain ==
  ASSUME NEW L, NEW M, longer(L, M), NEW bs, NEW total, NEW meta, NEW own,
         ChainOf(L, bs, total, meta, own)
  PROVE  ChainOf(M, bs, total, meta, own)
<1>1. Len(L) \in Nat
  BY Zenon DEF longer
<1>2. total \in 0 .. Len(L)
  BY <1>1, ChainEnd, Zenon
<1>3. nextIndex(M)[total] = nextIndex(L)[total]
  BY <1>2, LongerSame, Zenon
<1>4. \A i \in 1 .. Len(bs) : BatchOf(M, bs[i])
  BY LongerBatch, Zenon DEF ChainOf
<1> QED BY <1>3, <1>4, Zenon DEF ChainOf

(* And so do the pending transactions.                                      *)
LEMMA LongerCalls ==
  ASSUME NEW L, NEW M, longer(L, M), NEW pool, CallsOf(L, pool)
  PROVE  CallsOf(M, pool)
<1> SUFFICES ASSUME NEW t \in pool, t.call # << >> PROVE CallOf(M, t.call)
  BY Zenon DEF CallsOf, CallOf
<1>1. PICK b \in 0 .. Len(L) : \E a \in 0 .. b :
        t.call = <<GenSequencerBatchParams(a, slice(L, a, b))>>
  BY Zenon DEF CallsOf, CallOf
<1>2. PICK a \in 0 .. b : t.call = <<GenSequencerBatchParams(a, slice(L, a, b))>>
  BY <1>1, Zenon
<1>3. slice(M, a, b) = slice(L, a, b)
  BY LongerSame, Zenon
<1>4. b \in 0 .. Len(M)
  BY DEF longer
<1> QED BY <1>2, <1>3, <1>4, Zenon DEF CallOf

-----------------------------------------------------------------------------
(* The chain of batches: one more, and fewer again.                         *)

(* What SubSeq takes from where.                                            *)
LEMMA SubSeqForm ==
  ASSUME NEW n \in Nat, NEW q, q = [i \in 1 .. n |-> q[i]],
         NEW a \in 1 .. n + 1, NEW b \in a - 1 .. n
  PROVE  SubSeq(q, a, b) = [j \in 1 .. b - (a - 1) |-> q[(a - 1) + j]]
<1> DEFINE S == {q[i] : i \in 1 .. n}
           s == SubSeq(q, a, b)
           f == [j \in 1 .. b - (a - 1) |-> q[(a - 1) + j]]
<1>1. q \in Seq(S) /\ Len(q) = n
  BY SeqForm, Zenon
<1> HIDE DEF S
<1>2. s \in Seq(S) /\ DOMAIN s = 1 .. b - (a - 1)
      /\ \A j \in 1 .. b - (a - 1) : s[j] = q[(a - 1) + j]
  <2>1. s \in Seq(S) /\ Len(s) = b - (a - 1)
    BY <1>1
  <2>2. \A j \in 1 .. Len(s) : s[j] = q[(a + j) - 1]
    BY <1>1
  <2> HIDE DEF s
  <2>3. DOMAIN s = 1 .. Len(s)
    BY <2>1
  <2>4. \A j \in 1 .. b - (a - 1) : (a + j) - 1 = (a - 1) + j
    OBVIOUS
  <2> QED BY <2>1, <2>2, <2>3, <2>4, Zenon
<1>3. s = [j \in 1 .. b - (a - 1) |-> s[j]]
  BY <1>2
<1> HIDE DEF s
<1> QED BY <1>2, <1>3, Zenon DEF s

(* appendSequencerBatch keeps the chain of batches a chain, whichever call  *)
(* of the wallet it accepts.                                                *)
LEMMA AppendBatch ==
  ASSUME NEW L, L2Chain(L),
         ChainOf(L, batches, totalElements, nextQueueIndex, _nextQueueIndex),
         NEW p, CallOf(L, <<p>>), accepts(p), appendSequencerBatch(p)
  PROVE  ChainOf(L, batches', totalElements', nextQueueIndex', _nextQueueIndex')
<1> DEFINE n == Len(batches)
           own == _nextQueueIndex
<1>1. Len(L) \in Nat /\ n \in Nat
  BY DEF L2Chain, ChainOf
<1>2. totalElements \in 0 .. Len(L) /\ own \in Nat
  BY <1>1, ChainEnd, Zenon
<1>3. PICK b \in 0 .. Len(L) : \E a \in 0 .. b :
        <<p>> = <<GenSequencerBatchParams(a, slice(L, a, b))>>
  <2>1. <<p>> # << >>
    OBVIOUS
  <2> QED BY <2>1, Zenon DEF CallOf
<1>4. PICK a \in 0 .. b : <<p>> = <<GenSequencerBatchParams(a, slice(L, a, b))>>
  BY <1>3, Zenon
<1>5. p = GenSequencerBatchParams(a, slice(L, a, b))
  <2> DEFINE g == GenSequencerBatchParams(a, slice(L, a, b))
  <2>1. <<p>> = <<g>>
    BY <1>4, Zenon
  <2> HIDE DEF g
  <2>2. p = g
    BY <2>1
  <2> QED BY <2>2, Zenon DEF g
<1> DEFINE moved == nextIndex(L)[b] - nextIndex(L)[a]
           size == p.totalElementsToAppend
           added == numQueuedTransactions(p)
<1>6. a \in Nat /\ b \in Nat /\ a <= b /\ b <= Len(L) /\ a \in 0 .. Len(L)
  BY <1>1
<1>7. /\ p.shouldStartAtElement = a /\ size = b - a
      /\ numSequencerTransactions(p) = (b - a) - moved
      /\ queueAfter(p) = own + moved
      /\ parseEvent(nextIndex(L)[a], p.contexts) = [j \in 1 .. b - a |-> published(L[a + j])]
  <2> DEFINE g == GenSequencerBatchParams(a, slice(L, a, b))
  <2>1. /\ g.shouldStartAtElement = a /\ g.totalElementsToAppend = b - a
        /\ numSequencerTransactions(g) = (b - a) - moved
        /\ queueAfter(g) = _nextQueueIndex + moved
        /\ parseEvent(nextIndex(L)[a], g.contexts) = [j \in 1 .. b - a |-> published(L[a + j])]
    BY <1>2, <1>6, WrittenSlice, SMTT(30)
  <2>2. p = g
    BY <1>5, Zenon
  <2> HIDE DEF g
  <2> QED BY <2>1, <2>2, Zenon
<1>8. totalElements = a /\ own = nextIndex(L)[a] /\ nextQueueIndex = nextIndex(L)[a]
  BY <1>7, Zenon DEF accepts, ChainOf
<1>9. nextIndex(L)[a] \in Nat /\ nextIndex(L)[b] \in Nat
  <2>1. nextIndex(L) \in [0 .. Len(L) -> Nat]
    BY <1>1, IndexSteps, Zenon
  <2> QED BY <1>6, <2>1, Zenon
<1>10. added = moved /\ queueAfter(p) - added = nextIndex(L)[a]
       /\ nextQueueIndex + added = nextIndex(L)[b] /\ queueAfter(p) = nextIndex(L)[b]
       /\ totalElements + size = b
  <2>1. added = size - numSequencerTransactions(p)
    BY Zenon DEF numQueuedTransactions
  <2> HIDE DEF added, size, own
  <2> QED BY <1>6, <1>7, <1>8, <1>9, <2>1
<1> DEFINE new == [prevTotalElements |-> totalElements, batchSize |-> size,
                   startingQueueIndex |-> queueAfter(p) - added, numQueued |-> added,
                   contexts |-> p.contexts]
           bs == batches'
<1>11. bs = Append(batches, new)
  BY Zenon DEF appendSequencerBatch
<1>12. batches = [i \in 1 .. n |-> batches[i]]
  BY Zenon DEF ChainOf
<1>13. /\ new.prevTotalElements = a /\ new.batchSize = b - a
       /\ new.startingQueueIndex = nextIndex(L)[a] /\ new.contexts = p.contexts
  <2> HIDE DEF added, size
  <2> QED BY <1>7, <1>8, <1>10, Zenon
<1> HIDE DEF new, bs, n
<1>14. bs = [i \in 1 .. n + 1 |-> IF i = n + 1 THEN new ELSE batches[i]]
  BY <1>1, <1>11, <1>12, AppendForm, SMTT(30)
<1>15. /\ n + 1 \in Nat /\ n + 1 \in 1 .. n + 1 /\ n + 1 # 0 /\ (n + 1) - 1 = n
       /\ \A i \in 1 .. n : i \in 1 .. n + 1 /\ i # n + 1 /\ i # 0
       /\ \A i \in 0 .. n : i = 0 \/ i \in 1 .. n
       /\ \A i \in 1 .. n : i - 1 \in 0 .. n
       /\ \A i \in 1 .. n + 1 : i = n + 1 \/ i \in 1 .. n
       /\ n \in 0 .. n
  BY <1>1 DEF n
<1>16. bs[n + 1] = new /\ \A i \in 1 .. n : bs[i] = batches[i]
  BY <1>14, <1>15, Zenon
<1>17. Len(bs) = n + 1 /\ bs = [i \in 1 .. n + 1 |-> bs[i]]
  <2>1. bs = [i \in 1 .. n + 1 |-> bs[i]]
    BY <1>14, Zenon
  <2> QED BY <1>15, <2>1, SeqForm, Zenon
<1>18. \A i \in 0 .. n : endOf(bs, i) = endOf(batches, i)
  BY <1>15, <1>16, Zenon DEF endOf
<1>19. a + (b - a) = b /\ b - a \in Nat
  BY <1>6
<1>20. endOf(bs, n + 1) = b
  BY <1>13, <1>15, <1>16, <1>19, Zenon DEF endOf
<1>21. BatchOf(L, new)
  BY <1>6, <1>7, <1>13, <1>19, Zenon DEF BatchOf
<1>22. ASSUME NEW i \in 1 .. n + 1
       PROVE  BatchOf(L, bs[i]) /\ bs[i].prevTotalElements = endOf(bs, i - 1)
  <2>1. CASE i = n + 1
    <3>1. totalElements = endOf(batches, n)
      BY Zenon DEF ChainOf, n
    <3> QED BY <1>8, <1>13, <1>15, <1>16, <1>18, <1>21, <2>1, <3>1, Zenon
  <2>2. CASE i \in 1 .. n
    <3>1. BatchOf(L, batches[i]) /\ batches[i].prevTotalElements = endOf(batches, i - 1)
      BY <2>2, Zenon DEF ChainOf, n
    <3> QED BY <1>15, <1>16, <1>18, <2>2, <3>1, Zenon
  <2> QED BY <1>15, <2>1, <2>2, Zenon
<1>23. totalElements' = b /\ nextQueueIndex' = nextIndex(L)[b] /\ _nextQueueIndex' = nextIndex(L)[b]
  BY <1>10, Zenon DEF appendSequencerBatch
<1>24. ChainOf(L, bs, b, nextIndex(L)[b], nextIndex(L)[b])
  BY <1>15, <1>17, <1>20, <1>22, Zenon DEF ChainOf
<1> QED BY <1>23, <1>24, Zenon DEF bs

(* The chain up to some batch is a chain, and the header of the next batch  *)
(* has its totals.                                                          *)
LEMMA CutBatches ==
  ASSUME NEW L, NEW bs, NEW total, NEW meta, NEW own, ChainOf(L, bs, total, meta, own),
         NEW i \in 0 .. Len(bs) - 1
  PROVE  LET cut == bs[i + 1]
         IN ChainOf(L, SubSeq(bs, 1, i), cut.prevTotalElements, cut.startingQueueIndex,
                    cut.startingQueueIndex)
<1> DEFINE n == Len(bs)
           ks == SubSeq(bs, 1, i)
           cut == bs[i + 1]
<1>1. n \in Nat /\ bs = [j \in 1 .. n |-> bs[j]]
  BY Zenon DEF ChainOf
<1>2. /\ 1 \in 1 .. n + 1 /\ i \in 1 - 1 .. n /\ i - (1 - 1) = i /\ i \in Nat
      /\ \A j \in 1 .. i : (1 - 1) + j = j /\ j \in 1 .. n /\ j # 0 /\ j - 1 \in 0 .. i
      /\ \A j \in 0 .. i : j = 0 \/ j \in 1 .. i
      /\ i + 1 \in 1 .. n /\ (i + 1) - 1 = i /\ i \in 0 .. i
  BY <1>1
<1>3. ks = [j \in 1 .. i |-> bs[j]]
  <2>1. ks = [j \in 1 .. i - (1 - 1) |-> bs[(1 - 1) + j]]
    <3> HIDE DEF n
    <3> QED BY <1>1, <1>2, SubSeqForm, SMTT(30)
  <2> HIDE DEF ks
  <2> QED BY <1>2, <2>1, Zenon
<1> HIDE DEF ks
<1>4. ks = [j \in 1 .. i |-> ks[j]] /\ \A j \in 1 .. i : ks[j] = bs[j]
  BY <1>3, Zenon
<1>5. Len(ks) = i
  BY <1>2, <1>4, SeqForm, Zenon
<1>6. \A j \in 0 .. i : endOf(ks, j) = endOf(bs, j)
  BY <1>2, <1>4, Zenon DEF endOf
<1>7. \A j \in 1 .. i : BatchOf(L, ks[j]) /\ ks[j].prevTotalElements = endOf(ks, j - 1)
  BY <1>2, <1>4, <1>6, Zenon DEF ChainOf, n
<1>8. BatchOf(L, cut) /\ cut.prevTotalElements = endOf(bs, i)
  BY <1>2, Zenon DEF ChainOf, n
<1>9. cut.startingQueueIndex = nextIndex(L)[cut.prevTotalElements]
      /\ cut.prevTotalElements = endOf(ks, i)
  BY <1>2, <1>6, <1>8, Zenon DEF BatchOf
<1> HIDE DEF cut
<1>10. ChainOf(L, ks, cut.prevTotalElements, cut.startingQueueIndex, cut.startingQueueIndex)
  BY <1>2, <1>4, <1>5, <1>7, <1>9, Zenon DEF ChainOf
<1> QED BY <1>10, Zenon DEF ks, cut

-----------------------------------------------------------------------------
(* What a reader makes of the chain of batches.                             *)

(* The batches, one after the other, unfold into the L2 chain up to where   *)
(* they end.                                                                *)
LEMMA CanonicalKnown ==
  ASSUME NEW L, Len(L) \in Nat,
         ChainOf(L, batches, totalElements, nextQueueIndex, _nextQueueIndex)
  PROVE  canonical = known(L, totalElements)
<1> DEFINE n == Len(batches)
           r == [i \in 0 .. n |-> known(L, endOf(batches, i))]
<1>1. n \in Nat /\ batches = [i \in 1 .. n |-> batches[i]]
  BY Zenon DEF ChainOf
<1>2. \A i \in 0 .. n : endOf(batches, i) \in 0 .. Len(L)
  BY ChainEnd, Zenon
<1>3. totalElements = endOf(batches, n)
  BY Zenon DEF ChainOf
<1>4. ASSUME NEW k \in 0 .. n - 1 PROVE r[k + 1] = foldStep("chain", r[k], batches[k + 1])
  <2> DEFINE b == batches[k + 1]
             m == endOf(batches, k)
             s == b.batchSize
             txs == parseEvent(b.startingQueueIndex, b.contexts)
  <2>1. k \in 0 .. n /\ k + 1 \in 0 .. n /\ k + 1 \in 1 .. n /\ k + 1 # 0 /\ (k + 1) - 1 = k
    BY <1>1
  <2>2. BatchOf(L, b) /\ b.prevTotalElements = m
    BY <2>1, Zenon DEF ChainOf
  <2>3. s \in Nat /\ txs = [j \in 1 .. s |-> published(L[m + j])]
    BY <2>2, Zenon DEF BatchOf
  <2>4. endOf(batches, k + 1) = m + s
    BY <2>1, <2>2, Zenon DEF endOf
  <2>5. m \in Nat
    <3>1. m \in 0 .. Len(L)
      BY <1>2, <2>1, Zenon
    <3> HIDE DEF m
    <3> QED BY <3>1
  <2>6. r[k + 1] = known(L, m + s) /\ r[k] = known(L, m)
    BY <2>1, <2>4, Zenon
  <2>7. foldStep("chain", r[k], b) = r[k] \o txs
    BY DEF foldStep
  <2> HIDE DEF r, m, s, txs, b
  <2> DEFINE p == known(L, m)
  <2>8. p = [i \in 1 .. m |-> p[i]] /\ \A i \in 1 .. m : p[i] = published(L[i])
    BY Zenon DEF known
  <2>9. txs = [i \in 1 .. s |-> txs[i]] /\ \A i \in 1 .. s : txs[i] = published(L[m + i])
    BY <2>3, Zenon
  <2> HIDE DEF p
  <2>10. p \o txs = [i \in 1 .. m + s |-> IF i <= m THEN p[i] ELSE txs[i - m]]
    BY <2>3, <2>5, <2>8, <2>9, ConcatForm, SMTT(30)
  <2>11. ASSUME NEW i \in 1 .. m + s
         PROVE  (IF i <= m THEN p[i] ELSE txs[i - m]) = published(L[i])
    <3>1. CASE i <= m
      <4>1. i \in 1 .. m
        BY <2>3, <2>5, <3>1
      <4> QED BY <2>8, <3>1, <4>1, Zenon
    <3>2. CASE ~(i <= m)
      <4>1. i - m \in 1 .. s /\ m + (i - m) = i
        BY <2>3, <2>5, <3>2
      <4> QED BY <2>9, <3>2, <4>1, Zenon
    <3> QED BY <3>1, <3>2, Zenon
  <2>12. p \o txs = known(L, m + s)
    BY <2>10, <2>11, Zenon DEF known
  <2> QED BY <2>6, <2>7, <2>12, Zenon DEF p, b
<1>5. r[0] = << >> /\ r[n] = known(L, totalElements)
  <2>1. 0 \in 0 .. n /\ n \in 0 .. n
    BY <1>1
  <2>2. r[0] = [i \in 1 .. 0 |-> published(L[i])]
    BY <2>1, Zenon DEF known, endOf
  <2>3. [i \in 1 .. 0 |-> published(L[i])] = << >>
    OBVIOUS
  <2> QED BY <1>3, <2>1, <2>2, <2>3, Zenon
<1> HIDE DEF r, n
<1>6. runs(r, "chain", << >>, batches, n)
  BY <1>4, <1>5, Zenon DEF runs
<1>7. DOMAIN batches = 1 .. n
  BY <1>1, SeqForm, Zenon
<1>8. canonical = r[n]
  BY <1>1, <1>6, <1>7, ChainLoop, Zenon
<1> QED BY <1>5, <1>8, Zenon

(* The whole L2 chain is numbered by its indexes.                           *)
LEMMA ChainNumbered ==
  ASSUME NEW L, L2Chain(L)
  PROVE  /\ Len(L) \in Nat /\ L = [i \in 1 .. Len(L) |-> L[i]]
         /\ numbered(L, nextIndex(L), Len(L)) /\ nextIndex(L)[0] = 0
         /\ \A i \in 1 .. Len(L) : Block(L[i])
<1>1. L \in Seq(L2Block)
  BY Zenon DEF L2Chain
<1>2. Len(L) \in Nat /\ L = [i \in 1 .. Len(L) |-> L[i]]
  BY <1>1
<1>3. /\ nextIndex(L) \in [0 .. Len(L) -> Nat] /\ nextIndex(L)[0] = 0
      /\ \A k \in 0 .. Len(L) - 1 :
           nextIndex(L)[k + 1] = IF IsSequencerTx(L[k + 1]) THEN nextIndex(L)[k]
                                 ELSE nextIndex(L)[k] + 1
  BY <1>2, IndexSteps, Zenon
<1>4. numbered(L, nextIndex(L), Len(L))
  BY <1>3, Zenon DEF numbered, L2Chain
<1>5. \A i \in 1 .. Len(L) : L[i] \in L2Block
  BY <1>1
<1>6. \A x \in L2Block : Block(x)
  BY DEF L2Block, Block
<1> QED BY <1>2, <1>3, <1>4, <1>5, <1>6, Zenon

(* So the invariant says what the runs check.                               *)
LEMMA InvSays ==
  ASSUME SubmitterInv
  PROVE  CanonicalIsPrefix /\ QueueIndexesAgree
<1> DEFINE n == Len(l2)
           k == totalElements
<1>1. /\ n \in Nat /\ l2 = [i \in 1 .. n |-> l2[i]]
      /\ numbered(l2, nextIndex(l2), n) /\ nextIndex(l2)[0] = 0
      /\ \A i \in 1 .. n : Block(l2[i])
  BY ChainNumbered, Zenon DEF SubmitterInv
<1>2. k \in 0 .. n /\ _nextQueueIndex \in Nat
  BY <1>1, ChainEnd, Zenon DEF SubmitterInv
<1>3. canonical = known(l2, k)
  BY <1>1, CanonicalKnown, Zenon DEF SubmitterInv
<1>4. nextQueueIndex = nextIndex(l2)[k] /\ _nextQueueIndex = nextIndex(l2)[k]
  BY Zenon DEF SubmitterInv, ChainOf
<1> HIDE DEF n, k
<1>5. k \in Nat /\ k <= n /\ 1 \in 1 .. n + 1 /\ k \in 1 - 1 .. n /\ k - (1 - 1) = k
      /\ \A j \in 1 .. k : (1 - 1) + j = j
  BY <1>1, <1>2
<1>6. queuedIn(canonical) = nextIndex(l2)[k]
  <2>1. queuedIn(known(l2, k)) = nextIndex(l2)[k] - nextIndex(l2)[0]
    BY <1>1, <1>2, KnownQueued, SMTT(30)
  <2>2. nextIndex(l2)[k] - 0 = nextIndex(l2)[k]
    BY <1>2, <1>4
  <2> QED BY <1>1, <1>3, <2>1, <2>2, Zenon
<1>7. SubSeq(l2, 1, k) = [j \in 1 .. k |-> l2[j]]
  <2>1. SubSeq(l2, 1, k) = [j \in 1 .. k - (1 - 1) |-> l2[(1 - 1) + j]]
    BY <1>1, <1>5, SubSeqForm, SMTT(30)
  <2> QED BY <1>5, <2>1, Zenon
<1>8. Len(canonical) = k
  <2>1. canonical = [i \in 1 .. k |-> canonical[i]]
    BY <1>3, Zenon DEF known
  <2> QED BY <1>5, <2>1, SeqForm, Zenon
<1>9. canonical = publishedAll(SubSeq(l2, 1, k))
  <2> DEFINE s == SubSeq(l2, 1, k)
  <2>1. s = [j \in 1 .. k |-> s[j]] /\ \A j \in 1 .. k : s[j] = l2[j]
    BY <1>7, Zenon
  <2> HIDE DEF s
  <2>2. Len(s) = k
    BY <1>5, <2>1, SeqForm, Zenon
  <2>3. publishedAll(s) = known(l2, k)
    BY <2>1, <2>2, Zenon DEF publishedAll, known
  <2> QED BY <1>3, <2>3, Zenon DEF s
<1>10. CanonicalIsPrefix
  BY <1>5, <1>8, <1>9, Zenon DEF CanonicalIsPrefix, k, n
<1>11. QueueIndexesAgree
  BY <1>4, <1>6, Zenon DEF QueueIndexesAgree
<1> QED BY <1>10, <1>11, Zenon

-----------------------------------------------------------------------------
(* The steps.                                                               *)

\* What the invariant says of L1 reads these variables only.
onL1 == <<batches, totalElements, nextQueueIndex, _nextQueueIndex, mempool, undo>>

(* A step of the service that leaves L1 and the L2 chain alone.             *)
LEMMA QuietStep ==
  ASSUME SubmitterInv, UNCHANGED <<onL1, l2>>, RoundInv'
  PROVE  SubmitterInv'
<1>1. /\ batches' = batches /\ totalElements' = totalElements
      /\ nextQueueIndex' = nextQueueIndex /\ _nextQueueIndex' = _nextQueueIndex
      /\ mempool' = mempool /\ undo' = undo /\ l2' = l2
  BY Zenon DEF onL1
<1> QED BY <1>1, Zenon DEF SubmitterInv, UndoInv

(* A round that ends has nothing to remember.                               *)
LEMMA RoundEnds ==
  ASSUME RoundInv, l2' = l2, daConfirmed' = daConfirmed,
         pc' \notin {"start", "range", "craft"}
  PROVE  RoundInv'
BY Zenon DEF RoundInv

(* The range that the service reads lies in the L2 chain, whatever is       *)
(* confirmed of it.                                                         *)
LEMMA ReadEndRound ==
  ASSUME SubmitterInv, readEnd
  PROVE  RoundInv'
<1> DEFINE n == Len(l2)
           upTo == IF n < DaUpgradeBlock THEN n + 1 ELSE daConfirmed
           to == rangeEnd(start, upTo)
<1>1. n \in Nat /\ daConfirmed \in 0 .. n + 1 /\ start \in Nat \ {0}
  BY ChainNumbered, Zenon DEF SubmitterInv, RoundInv, readEnd
<1>2. l2' = l2 /\ daConfirmed' = daConfirmed
  BY Zenon DEF readEnd, l2Vars
<1>3. CASE pc' = "idle"
  <2>1. pc' \notin {"start", "range", "craft"}
    BY <1>3
  <2> QED BY <1>2, <2>1, RoundEnds, Zenon DEF SubmitterInv
<1>4. CASE pc' # "idle"
  <2>1. to # start /\ end' = to /\ pc' = "range" /\ start' = start
    BY <1>4, Zenon DEF readEnd, endRound
  <2>2. upTo \in 0 .. n + 1
    <3> HIDE DEF n
    <3> QED BY <1>1
  <2> HIDE DEF n, upTo
  <2>3. to \in start .. n + 1
    BY <1>1, <2>1, <2>2, SubmitterConstants DEF rangeEnd
  <2> HIDE DEF to
  <2> QED BY <1>1, <1>2, <2>1, <2>3, Zenon DEF RoundInv, n
<1> QED BY <1>3, <1>4, Zenon

(* The event loop, up to the call that is sent.                             *)
LEMMA ServiceStep ==
  ASSUME SubmitterInv, BlockOffset = 1,
         readStart \/ readEnd \/ readNonce \/ sent \/ sendFails \/ restart
  PROVE  SubmitterInv'
<1>1. UNCHANGED <<onL1, l2>> /\ daConfirmed' = daConfirmed
  BY Zenon DEF readStart, readEnd, readNonce, sent, sendFails, restart, onL1, ctcVars, l2Vars, l1
<1>2. CASE readStart
  <2>1. totalElements \in Nat
    <3>1. Len(l2) \in Nat
      BY ChainNumbered, Zenon DEF SubmitterInv
    <3>2. totalElements \in 0 .. Len(l2)
      BY <3>1, ChainEnd, Zenon DEF SubmitterInv
    <3> QED BY <3>1, <3>2
  <2>2. start' \in Nat \ {0} /\ pc' = "start" /\ pc' \notin {"range", "craft"}
    BY <1>2, <2>1 DEF readStart
  <2>3. RoundInv'
    BY <1>1, <2>2, Zenon DEF RoundInv, SubmitterInv
  <2> QED BY <1>1, <2>3, QuietStep, Zenon
<1>3. CASE readEnd
  BY <1>1, <1>3, ReadEndRound, QuietStep, Zenon
<1>4. CASE readNonce
  <2>1. RoundInv'
    BY <1>1, <1>4, Zenon DEF readNonce, RoundInv, SubmitterInv
  <2> QED BY <1>1, <2>1, QuietStep, Zenon
<1>5. CASE sent \/ sendFails \/ restart
  <2>1. pc' = "idle" \/ pc' = "clear"
    BY <1>5, Zenon DEF sent, sendFails, restart, endRound
  <2>2. pc' \notin {"start", "range", "craft"}
    BY <2>1
  <2>3. RoundInv'
    BY <1>1, <2>2, RoundEnds, Zenon DEF SubmitterInv
  <2> QED BY <1>1, <2>3, QuietStep, Zenon
<1> QED BY <1>2, <1>3, <1>4, <1>5, Zenon

(* The crafted call appends a stretch of the L2 chain where it belongs.     *)
LEMMA CraftedCall ==
  ASSUME SubmitterInv, BlockOffset = 1, pc = "craft"
  PROVE  CallOf(l2, <<craft(start, end)>>)
<1> DEFINE n == Len(l2)
           a == start - 1
           b == end - 1
<1>1. n \in Nat /\ l2 = [i \in 1 .. n |-> l2[i]]
  BY ChainNumbered, Zenon DEF SubmitterInv
<1>2. start \in Nat \ {0} /\ end \in start .. n + 1
  BY Zenon DEF SubmitterInv, RoundInv
<1> HIDE DEF n
<1>3. start \in 1 .. n + 1 /\ b \in start - 1 .. n /\ b \in 0 .. n /\ a \in 0 .. b
  BY <1>1, <1>2
<1> HIDE DEF b
<1>4. SubSeq(l2, start, b) = [j \in 1 .. b - (start - 1) |-> l2[(start - 1) + j]]
  BY <1>1, <1>3, SubSeqForm, SMTT(30)
<1>5. craft(start, end) = GenSequencerBatchParams(a, slice(l2, a, b))
  BY <1>4, Zenon DEF craft, slice, b
<1> HIDE DEF a
<1> QED BY <1>3, <1>5, Zenon DEF CallOf, n

(* The transactions the service puts into the mempool.                      *)
LEMMA SendStep ==
  ASSUME SubmitterInv, BlockOffset = 1, send \/ ClearPendingTx
  PROVE  SubmitterInv'
<1>1. /\ batches' = batches /\ totalElements' = totalElements
      /\ nextQueueIndex' = nextQueueIndex /\ _nextQueueIndex' = _nextQueueIndex
      /\ undo' = undo /\ l2' = l2 /\ daConfirmed' = daConfirmed
  BY Zenon DEF send, ClearPendingTx, ctcVars, l2Vars
<1>2. pc' \in {"wait", "idle", "waitClear"}
  BY Zenon DEF send, ClearPendingTx, endRound
<1>3. pc' \notin {"start", "range", "craft"}
  BY <1>2
<1>4. RoundInv'
  BY <1>1, <1>3, RoundEnds, Zenon DEF SubmitterInv
<1>5. CASE mempool' = mempool
  BY <1>1, <1>4, <1>5, Zenon DEF SubmitterInv, UndoInv
<1>6. ASSUME NEW t, mempool' = mempool \cup {t}, CallOf(l2, t.call) PROVE SubmitterInv'
  <2>1. CallsOf(l2, mempool')
    BY <1>6, Zenon DEF CallsOf, SubmitterInv
  <2> QED BY <1>1, <1>4, <2>1, Zenon DEF SubmitterInv, UndoInv
<1>7. CASE send /\ mempool' # mempool
  <2> DEFINE t == [nonce |-> nonce, call |-> <<craft(start, end)>>]
  <2>1. mempool' = mempool \cup {t} /\ pc = "craft"
    BY <1>7, Zenon DEF send
  <2>2. t.call = <<craft(start, end)>>
    BY Zenon
  <2>3. CallOf(l2, t.call)
    BY <2>1, <2>2, CraftedCall, Zenon
  <2> HIDE DEF t
  <2> QED BY <1>6, <2>1, <2>3, Zenon
<1>8. CASE ClearPendingTx
  <2> DEFINE t == [nonce |-> spent, call |-> << >>]
  <2>1. mempool' = mempool \cup {t}
    BY <1>8, Zenon DEF ClearPendingTx
  <2>2. CallOf(l2, t.call)
    BY Zenon DEF CallOf
  <2> HIDE DEF t
  <2> QED BY <1>6, <2>1, <2>2, Zenon
<1> QED BY <1>5, <1>7, <1>8, Zenon

(* A new block makes the chain longer and takes the next queue transaction, *)
(* if it takes one.                                                         *)
LEMMA NewBlockChain ==
  ASSUME SubmitterInv, newBlock
  PROVE  longer(l2, l2') /\ L2Chain(l2')
<1> DEFINE n == Len(l2)
           K == l2'
<1>1. PICK ts \in Timestamps, bn \in BlockNumbers, q \in {NotQueued, queuedIn(l2)} :
        K = Append(l2, [queueIndex |-> q, timestamp |-> ts, blockNumber |-> bn])
  BY Zenon DEF newBlock
<1> DEFINE x == [queueIndex |-> q, timestamp |-> ts, blockNumber |-> bn]
<1>2. l2 \in Seq(L2Block) /\ n \in Nat /\ l2 = [i \in 1 .. n |-> l2[i]]
  BY ChainNumbered, Zenon DEF SubmitterInv, L2Chain
<1>3. queuedIn(l2) = nextIndex(l2)[n] /\ nextIndex(l2)[n] \in Nat
  <2>1. DOMAIN l2 = 1 .. n /\ n \in 0 .. n
    BY <1>2
  <2>2. nextIndex(l2) \in [0 .. n -> Nat]
    BY <1>2, IndexSteps, Zenon
  <2> QED BY <2>1, <2>2, Zenon DEF queuedIn, nextIndex
<1>4. x \in L2Block /\ x.queueIndex = q
  <2>1. q \in Nat \cup {NotQueued}
    BY <1>3, Zenon
  <2> QED BY <2>1 DEF L2Block
<1>5. K = Append(l2, x)
  BY <1>1, Zenon
<1> HIDE DEF x, n, K
<1>6. /\ K \in Seq(L2Block) /\ Len(K) = n + 1 /\ K[n + 1] = x
      /\ \A i \in 1 .. n : K[i] = l2[i]
  BY <1>2, <1>4, <1>5 DEF n
<1>7. longer(l2, K)
  <2>1. n + 1 \in Nat /\ n <= n + 1
    BY <1>2
  <2> QED BY <1>2, <1>6, <2>1, Zenon DEF longer, n
<1>8. \A k \in 0 .. n : nextIndex(K)[k] = nextIndex(l2)[k]
  BY <1>7, LongerSame, Zenon DEF n
<1>9. ASSUME NEW k \in 0 .. Len(K) - 1, ~IsSequencerTx(K[k + 1])
      PROVE  K[k + 1].queueIndex = nextIndex(K)[k]
  <2>1. k \in 0 .. n /\ (k = n \/ (k \in 0 .. n - 1 /\ k + 1 \in 1 .. n))
    BY <1>2, <1>6
  <2>2. CASE k = n
    <3>1. q # NotQueued
      BY <1>4, <1>6, <1>9, <2>2, Zenon DEF IsSequencerTx
    <3> QED BY <1>3, <1>4, <1>6, <1>8, <2>1, <2>2, <3>1, Zenon
  <2>3. CASE k \in 0 .. n - 1 /\ k + 1 \in 1 .. n
    <3>1. ~IsSequencerTx(l2[k + 1]) => l2[k + 1].queueIndex = nextIndex(l2)[k]
      BY <2>3, Zenon DEF SubmitterInv, L2Chain, n
    <3> QED BY <1>6, <1>8, <1>9, <2>1, <2>3, <3>1, Zenon
  <2> QED BY <2>1, <2>2, <2>3, Zenon
<1>10. L2Chain(K)
  BY <1>6, <1>9, Zenon DEF L2Chain
<1> QED BY <1>7, <1>10, Zenon DEF K

(* So a new block keeps the invariant.                                      *)
LEMMA NewBlockStep ==
  ASSUME SubmitterInv, newBlock
  PROVE  SubmitterInv'
<1>1. longer(l2, l2') /\ L2Chain(l2')
  BY NewBlockChain, Zenon
<1>2. /\ batches' = batches /\ totalElements' = totalElements
      /\ nextQueueIndex' = nextQueueIndex /\ _nextQueueIndex' = _nextQueueIndex
      /\ undo' = undo /\ mempool' = mempool /\ daConfirmed' = daConfirmed
      /\ pc' = pc /\ start' = start /\ end' = end
  BY Zenon DEF newBlock, ctcVars, l1, service
<1>3. ChainOf(l2', batches, totalElements, nextQueueIndex, _nextQueueIndex)
  BY <1>1, LongerChain, Zenon DEF SubmitterInv
<1>4. CallsOf(l2', mempool)
  BY <1>1, LongerCalls, Zenon DEF SubmitterInv
<1>5. undo # << >> =>
        /\ ChainOf(l2', undo[1].batches, undo[1].total, undo[1].inMeta, undo[1].inContract)
        /\ CallsOf(l2', undo[1].mempool)
  BY <1>1, LongerChain, LongerCalls, Zenon DEF SubmitterInv, UndoInv
<1>6. /\ \A i \in 0 .. Len(l2) + 1 : i \in 0 .. Len(l2') + 1
      /\ \A s \in Nat \ {0} : \A i \in s .. Len(l2) + 1 : i \in s .. Len(l2') + 1
  <2> DEFINE n == Len(l2)
             m == Len(l2')
  <2>1. n \in Nat /\ m \in Nat /\ n <= m
    BY <1>1, Zenon DEF longer
  <2> HIDE DEF n, m
  <2>2. /\ \A i \in 0 .. n + 1 : i \in 0 .. m + 1
        /\ \A s \in Nat \ {0} : \A i \in s .. n + 1 : i \in s .. m + 1
    BY <2>1
  <2> QED BY <2>2, Zenon DEF n, m
<1>7. RoundInv'
  <2>1. daConfirmed \in 0 .. Len(l2') + 1
    BY <1>6, Zenon DEF SubmitterInv, RoundInv
  <2>2. pc \in {"start", "range", "craft"} => start \in Nat \ {0}
    BY Zenon DEF SubmitterInv, RoundInv
  <2>3. pc \in {"range", "craft"} => pc \in {"start", "range", "craft"}
    BY Zenon
  <2>4. pc \in {"range", "craft"} => end \in start .. Len(l2') + 1
    BY <1>6, <2>2, <2>3, Zenon DEF SubmitterInv, RoundInv
  <2> QED BY <1>2, <2>1, <2>2, <2>4, Zenon DEF RoundInv
<1> QED BY <1>1, <1>2, <1>3, <1>4, <1>5, <1>7, Zenon DEF SubmitterInv, UndoInv

(* Data availability confirms blocks of the chain.                          *)
LEMMA ConfirmDaStep ==
  ASSUME SubmitterInv, confirmDa
  PROVE  SubmitterInv'
<1>1. UNCHANGED <<onL1, l2>> /\ daConfirmed' = Len(l2) + 1
      /\ pc' = pc /\ start' = start /\ end' = end
  BY Zenon DEF confirmDa, onL1, ctcVars, l1, service
<1>2. Len(l2) + 1 \in 0 .. Len(l2) + 1
  <2>1. Len(l2) \in Nat
    BY ChainNumbered, Zenon DEF SubmitterInv
  <2> QED BY <2>1
<1>3. RoundInv'
  BY <1>1, <1>2, Zenon DEF SubmitterInv, RoundInv
<1> QED BY <1>1, <1>3, QuietStep, Zenon

(* A mined transaction appends its batch or changes nothing, and what it    *)
(* replaced is kept for a reorganisation.                                   *)
LEMMA MineStep ==
  ASSUME SubmitterInv, mine
  PROVE  SubmitterInv'
<1> DEFINE u == [mempool |-> {t \in mempool : t.nonce = spent}, batches |-> batches,
                 total |-> totalElements, inMeta |-> nextQueueIndex,
                 inContract |-> _nextQueueIndex]
<1>1. /\ mempool' = {t \in mempool : t.nonce > spent} /\ undo' = <<u>>
      /\ l2' = l2 /\ daConfirmed' = daConfirmed
      /\ pc' = pc /\ start' = start /\ end' = end
  BY Zenon DEF mine, l2Vars, service
<1>2. /\ L2Chain(l2) /\ CallsOf(l2, mempool)
      /\ ChainOf(l2, batches, totalElements, nextQueueIndex, _nextQueueIndex)
  BY Zenon DEF SubmitterInv
<1>3. PICK t \in mempool : IF t.call # << >> /\ accepts(t.call[1])
                           THEN appendSequencerBatch(t.call[1]) ELSE UNCHANGED ctcVars
  BY Zenon DEF mine
<1>4. ChainOf(l2, batches', totalElements', nextQueueIndex', _nextQueueIndex')
  <2>1. CASE t.call # << >> /\ accepts(t.call[1])
    <3> DEFINE p == t.call[1]
    <3>1. PICK g : t.call = <<g>>
      BY <1>2, <2>1, Zenon DEF CallsOf, CallOf
    <3>2. t.call = <<p>>
      BY <3>1
    <3>3. CallOf(l2, t.call)
      BY <1>2, Zenon DEF CallsOf
    <3>4. accepts(p) /\ appendSequencerBatch(p)
      BY <1>3, <2>1, Zenon
    <3> HIDE DEF p
    <3>5. CallOf(l2, <<p>>)
      BY <3>2, <3>3, Zenon
    <3> QED BY <1>2, <3>4, <3>5, AppendBatch, Zenon
  <2>2. CASE ~(t.call # << >> /\ accepts(t.call[1]))
    <3>1. UNCHANGED ctcVars
      BY <1>3, <2>2, Zenon
    <3> QED BY <1>2, <3>1, Zenon DEF ctcVars
  <2> QED BY <2>1, <2>2, Zenon
<1>5. CallsOf(l2, mempool')
  BY <1>1, <1>2, Zenon DEF CallsOf
<1>6. CallsOf(l2, u.mempool) /\ ChainOf(l2, u.batches, u.total, u.inMeta, u.inContract)
  BY <1>2, Zenon DEF CallsOf
<1> HIDE DEF u
<1>7. undo'[1] = u
  BY <1>1
<1>8. UndoInv'
  BY <1>1, <1>6, <1>7, Zenon DEF UndoInv
<1>9. RoundInv'
  BY <1>1, Zenon DEF SubmitterInv, RoundInv
<1> QED BY <1>1, <1>2, <1>4, <1>5, <1>8, <1>9, Zenon DEF SubmitterInv

(* A reorganisation brings back what was before the last transaction.       *)
LEMMA ReorgStep ==
  ASSUME SubmitterInv, reorg
  PROVE  SubmitterInv'
<1>1. /\ batches' = undo[1].batches /\ totalElements' = undo[1].total
      /\ nextQueueIndex' = undo[1].inMeta /\ _nextQueueIndex' = undo[1].inContract
      /\ mempool' = mempool \cup undo[1].mempool /\ undo # << >> /\ undo' = << >>
      /\ l2' = l2 /\ daConfirmed' = daConfirmed
      /\ pc' = pc /\ start' = start /\ end' = end
  BY Zenon DEF reorg, l2Vars, service
<1>2. /\ ChainOf(l2, undo[1].batches, undo[1].total, undo[1].inMeta, undo[1].inContract)
      /\ CallsOf(l2, undo[1].mempool) /\ CallsOf(l2, mempool) /\ L2Chain(l2)
  BY <1>1, Zenon DEF SubmitterInv, UndoInv
<1>3. CallsOf(l2, mempool')
  BY <1>1, <1>2, Zenon DEF CallsOf
<1>4. RoundInv'
  BY <1>1, Zenon DEF SubmitterInv, RoundInv
<1>5. UndoInv'
  BY <1>1, Zenon DEF UndoInv
<1> QED BY <1>1, <1>2, <1>3, <1>4, <1>5, Zenon DEF SubmitterInv

(* A reset to the totals before some batch leaves the chain up to it.       *)
LEMMA ResetStep ==
  ASSUME SubmitterInv, ResetForms \subseteq {"totals"}, reset, undo' = << >>,
         UNCHANGED <<l2Vars, service, mempool>>
  PROVE  SubmitterInv'
<1>1. PICK i \in 0 .. Len(batches) - 1, form \in ResetForms :
        resetIndex(i, resetArguments(form, i))
  BY Zenon DEF reset
<1> DEFINE cut == batches[i + 1]
           p == cut.prevTotalElements
           q == cut.startingQueueIndex
           t == [totalElement |-> p, batchSize |-> 0, nextqIndex |-> q,
                 numQueuedTransactions |-> 0]
<1>2. resetArguments(form, i) = t
  BY Zenon DEF resetArguments
<1>3. t.totalElement = p /\ t.batchSize = 0 /\ t.nextqIndex = q /\ t.numQueuedTransactions = 0
  BY Zenon
<1> HIDE DEF t
<1>4. /\ batches' = SubSeq(batches, 1, i) /\ totalElements' = p + 0
      /\ nextQueueIndex' = q + 0 /\ _nextQueueIndex' = q
  BY <1>1, <1>2, <1>3, Zenon DEF resetIndex
<1>5. ChainOf(l2, SubSeq(batches, 1, i), p, q, q)
  BY CutBatches, Zenon DEF SubmitterInv
<1>6. Len(l2) \in Nat
  BY ChainNumbered, Zenon DEF SubmitterInv
<1>7. p \in 0 .. Len(l2) /\ q \in Nat
  <2> HIDE DEF p, q
  <2> QED BY <1>5, <1>6, ChainEnd, Zenon
<1>8. p + 0 = p /\ q + 0 = q
  <2> HIDE DEF p, q
  <2> QED BY <1>6, <1>7
<1>9. ChainOf(l2, batches', totalElements', nextQueueIndex', _nextQueueIndex')
  BY <1>4, <1>5, <1>8, Zenon
<1>10. /\ l2' = l2 /\ daConfirmed' = daConfirmed /\ mempool' = mempool
       /\ pc' = pc /\ start' = start /\ end' = end
  BY Zenon DEF l2Vars, service
<1>11. RoundInv'
  BY <1>10, Zenon DEF SubmitterInv, RoundInv
<1>12. UndoInv'
  BY Zenon DEF UndoInv
<1> QED BY <1>9, <1>10, <1>11, <1>12, Zenon DEF SubmitterInv

(* Before the first batch.                                                  *)
LEMMA SubmitterStart ==
  ASSUME Init
  PROVE  SubmitterInv
<1>1. /\ batches = << >> /\ totalElements = 0 /\ nextQueueIndex = 0 /\ _nextQueueIndex = 0
      /\ l2 = << >> /\ daConfirmed = 0 /\ pc = "idle" /\ mempool = {} /\ undo = << >>
  BY Zenon DEF Init, CtcInit
<1>2. /\ Len(l2) = 0 /\ l2 \in Seq(L2Block) /\ Len(l2) \in Nat /\ 0 .. Len(l2) - 1 = {}
      /\ Len(batches) = 0 /\ 1 .. 0 = {} /\ 0 \in Nat /\ batches = [i \in 1 .. 0 |-> batches[i]]
      /\ 0 \in 0 .. Len(l2) + 1 /\ pc \notin {"start", "range", "craft"}
      /\ pc \notin {"range", "craft"}
  BY <1>1
<1>3. L2Chain(l2)
  BY <1>2, Zenon DEF L2Chain
<1>4. nextIndex(l2)[0] = 0
  BY <1>2, IndexSteps, Zenon
<1>5. ChainOf(l2, batches, totalElements, nextQueueIndex, _nextQueueIndex)
  BY <1>1, <1>2, <1>4, Zenon DEF ChainOf, endOf
<1>6. CallsOf(l2, mempool) /\ UndoInv
  BY <1>1, Zenon DEF CallsOf, UndoInv
<1>7. RoundInv
  BY <1>1, <1>2, Zenon DEF RoundInv
<1> QED BY <1>3, <1>5, <1>6, <1>7, Zenon DEF SubmitterInv

(* Every step keeps the invariant.                                          *)
LEMMA SubmitterStep ==
  ASSUME SubmitterInv, BlockOffset = 1, ResetForms \subseteq {"totals"}, [Next]_vars
  PROVE  SubmitterInv'
<1>1. CASE UNCHANGED vars
  <2>1. /\ UNCHANGED <<onL1, l2>> /\ daConfirmed' = daConfirmed
        /\ pc' = pc /\ start' = start /\ end' = end
    BY <1>1, Zenon DEF vars, onL1, ctcVars, l2Vars, service, l1
  <2>2. RoundInv'
    BY <2>1, Zenon DEF SubmitterInv, RoundInv
  <2> QED BY <2>1, <2>2, QuietStep, Zenon
<1>2. CASE readStart \/ readEnd \/ readNonce \/ sent \/ sendFails \/ restart
  BY <1>2, ServiceStep, Zenon
<1>3. CASE send \/ ClearPendingTx
  BY <1>3, SendStep, Zenon
<1>4. CASE mine
  BY <1>4, MineStep, Zenon
<1>5. CASE reorg
  BY <1>5, ReorgStep, Zenon
<1>6. CASE newBlock
  BY <1>6, NewBlockStep, Zenon
<1>7. CASE confirmDa
  BY <1>7, ConfirmDaStep, Zenon
<1>8. CASE enqueue /\ UNCHANGED <<l2Vars, service, l1, faults>>
  <2>1. /\ UNCHANGED <<onL1, l2>> /\ daConfirmed' = daConfirmed
        /\ pc' = pc /\ start' = start /\ end' = end
    BY <1>8, Zenon DEF enqueue, onL1, l2Vars, service, l1
  <2>2. RoundInv'
    BY <2>1, Zenon DEF SubmitterInv, RoundInv
  <2> QED BY <2>1, <2>2, QuietStep, Zenon
<1>9. CASE reset /\ undo' = << >> /\ UNCHANGED <<l2Vars, service, mempool, spent, reorgs, faults>>
  <2>1. reset /\ undo' = << >> /\ UNCHANGED <<l2Vars, service, mempool>>
    BY <1>9, Zenon
  <2> QED BY <2>1, ResetStep, Zenon
<1> QED BY <1>1, <1>2, <1>3, <1>4, <1>5, <1>6, <1>7, <1>8, <1>9, Zenon DEF Next, Service

(* The invariant holds throughout.                                          *)
LEMMA SubmitterAlways ==
  ASSUME BlockOffset = 1, ResetForms \subseteq {"totals"}
  PROVE  Spec => []SubmitterInv
<1>1. Init => SubmitterInv
  BY SubmitterStart, Zenon
<1>2. SubmitterInv /\ [Next]_vars => SubmitterInv'
  BY SubmitterStep, Zenon
<1> QED BY <1>1, <1>2, PTL DEF Spec

(* The chain of batches on L1 is the beginning of the sequencer's chain:    *)
(* every block once, in order, each queue transaction in its own place.  It *)
(* holds for L2 chains, queues and batches of any length and any number of  *)
(* crashes, failed sends, late and reorganised transactions, provided block *)
(* 1 is the first element of the chain (BlockOffset) and the owner resets   *)
(* the contract to the totals before a batch.                               *)
THEOREM SubmitterCanonical ==
  ASSUME BlockOffset = 1, ResetForms \subseteq {"totals"}
  PROVE  Spec => []CanonicalIsPrefix
<1>1. SubmitterInv => CanonicalIsPrefix
  BY InvSays, Zenon
<1>2. Spec => []SubmitterInv
  BY SubmitterAlways, Zenon
<1> QED BY <1>1, <1>2, PTL

(* Under the same two conditions both copies of the queue index that        *)
(* CanonicalTransactionChain keeps say which queue element is the first one *)
(* that is not in a batch.                                                  *)
THEOREM SubmitterQueueIndexes ==
  ASSUME BlockOffset = 1, ResetForms \subseteq {"totals"}
  PROVE  Spec => []QueueIndexesAgree
<1>1. SubmitterInv => QueueIndexesAgree
  BY InvSays, Zenon
<1>2. Spec => []SubmitterInv
  BY SubmitterAlways, Zenon
<1> QED BY <1>1, <1>2, PTL
=============================================================================
