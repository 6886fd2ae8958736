--------------------------- MODULE Challenge_proof ---------------------------
(***************************************************************************)
(* Proofs about one dispute: the clocks of Challenge.tla for every time    *)
(* limit and every play, and the segment that the two services dispute in  *)
(* BisectionGame.tla.                                                      *)
(***************************************************************************)
EXTENDS BisectionGame, TLAPS

(* The inductive invariant: the clocks add up, time does not run backwards, *)
(* and while no number of steps is announced only a timeout can have named  *)
(* a winner.                                                                *)
ChallengeInv ==
    /\ TypeOK
    /\ ClocksAddUp
    /\ lastMoveBlockTime <= now
    /\ OnlyTimeoutBeforeLength

-----------------------------------------------------------------------------
(* The state `initialize' leaves satisfies the invariant. *)
LEMMA ChallengeInitInv == Init => ChallengeInv
<1> SUFFICES ASSUME Init PROVE ChallengeInv
  BY Zenon
<1>1. TypeOK
  BY ChallengeConstants, Zenon
  DEF Init, TypeOK, Players, Bisection, Segment, NoSegment, NoResult
<1>2. ClocksAddUp
  BY ChallengeConstants DEF Init, ClocksAddUp, Players
<1>3. lastMoveBlockTime <= now /\ OnlyTimeoutBeforeLength
  BY DEF Init, OnlyTimeoutBeforeLength
<1> QED BY <1>1, <1>2, <1>3, Zenon DEF ChallengeInv

(* A player that moves in time is charged what it used, keeps a clock of at *)
(* least zero, and hands over the turn.                                     *)
LEMMA PassTurnClocks ==
  ASSUME ChallengeInv, ~Expired, passTurn, now' = now
  PROVE  /\ turn' \in Players
         /\ timeLeft' \in [Players -> Nat]
         /\ lastMoveBlockTime' \in Nat
         /\ lastMoveBlockTime' <= now'
         /\ ClocksAddUp'
<1> USE ChallengeConstants DEF Players
<1>1. /\ turn \in Players /\ timeLeft \in [Players -> Nat] /\ now \in Nat
      /\ lastMoveBlockTime \in Nat /\ lastMoveBlockTime <= now
  BY Zenon DEF ChallengeInv, TypeOK
<1>2. now - lastMoveBlockTime \in Nat /\ timeLeft[turn] \in Nat
  BY <1>1
<1>3. now - lastMoveBlockTime <= timeLeft[turn]
  BY <1>1, <1>2 DEF Expired
<1>4. timeLeft[turn] - (now - lastMoveBlockTime) \in Nat
  BY <1>1, <1>2, <1>3
<1>5. timeLeft' = [timeLeft EXCEPT ![turn] = timeLeft[turn] - (now - lastMoveBlockTime)]
  BY Zenon DEF passTurn
<1>6. timeLeft' \in [Players -> Nat]
  BY <1>1, <1>4, <1>5, Zenon
<1>7. turn' \in Players
  BY Zenon DEF passTurn, other
<1>8. lastMoveBlockTime' = now
  BY Zenon DEF passTurn
<1>9. timeLeft[Defender] + timeLeft[Challenger] + lastMoveBlockTime = 2 * TimeLimit
  BY Zenon DEF ChallengeInv, ClocksAddUp
<1>10. timeLeft'[Defender] + timeLeft'[Challenger] + lastMoveBlockTime' = 2 * TimeLimit
  <2>1. CASE turn = Defender
    BY <1>1, <1>5, <1>8, <1>9, <2>1
  <2>2. CASE turn = Challenger
    BY <1>1, <1>5, <1>8, <1>9, <2>2
  <2> QED BY <1>1, <2>1, <2>2, Zenon
<1> QED BY <1>1, <1>6, <1>7, <1>8, <1>10 DEF ClocksAddUp

(* Each call of the contract, and the passing of time, keeps the invariant. *)
LEMMA ChallengeStepInv == ChallengeInv /\ [Next]_vars => ChallengeInv'
<1> SUFFICES ASSUME ChallengeInv, [Next]_vars PROVE ChallengeInv'
  BY Zenon
<1> USE ChallengeConstants
<1>1. TypeOK /\ ClocksAddUp /\ lastMoveBlockTime <= now /\ OnlyTimeoutBeforeLength
  BY Zenon DEF ChallengeInv
<1>2. ASSUME NEW p \in Players, Move(p) PROVE ChallengeInv'
  <2>1. ASSUME NEW h \in Hashes, NEW n \in 1 .. MaxSteps,
               initializeChallengeLength(p, h, n)
        PROVE ChallengeInv'
    <3>1. ~Expired /\ passTurn /\ now' = now
      BY <2>1, Zenon DEF initializeChallengeLength, onlyOnTurn
    <3>2. bisectionHash' \in Segment /\ bisectionHash' # NoSegment
      BY <2>1 DEF initializeChallengeLength, Segment, NoSegment
    <3>3. currentBisected' \in Bisection
      BY <2>1, Zenon DEF initializeChallengeLength, Bisection
    <3>4. TypeOK'
      BY <1>1, <2>1, <3>1, <3>2, <3>3, PassTurnClocks, Zenon
      DEF TypeOK, initializeChallengeLength
    <3>5. OnlyTimeoutBeforeLength'
      BY <3>2, Zenon DEF OnlyTimeoutBeforeLength
    <3> QED BY <3>1, <3>4, <3>5, PassTurnClocks, Zenon DEF ChallengeInv
  <2>2. ASSUME NEW b \in [start : Hashes, mid : Hashes, end : Hashes],
               NEW s \in Segment, NEW prev \in Segment,
               bisectExecution(p, b, s, prev)
        PROVE ChallengeInv'
    <3>1. ~Expired /\ passTurn /\ now' = now
      BY <2>2, Zenon DEF bisectExecution, onlyOnTurn
    <3>2. bisectionHash' \in Segment /\ bisectionHash' # NoSegment
      BY <2>2 DEF bisectExecution, Segment, NoSegment
    <3>3. prevBisection' \in Bisection /\ currentBisected' \in Bisection
      BY <2>2, Zenon DEF bisectExecution, Bisection
    <3>4. TypeOK'
      BY <1>1, <2>2, <3>1, <3>2, <3>3, PassTurnClocks, Zenon DEF TypeOK, bisectExecution
    <3>5. OnlyTimeoutBeforeLength'
      BY <3>2, Zenon DEF OnlyTimeoutBeforeLength
    <3> QED BY <3>1, <3>4, <3>5, PassTurnClocks, Zenon DEF ChallengeInv
  <2>3. ASSUME NEW h \in Hashes, NEW i \in 0 .. 3, NEW prev \in Segment,
               verifyOneStepProof(p, h, i, prev)
        PROVE ChallengeInv'
    <3>1. ~Expired /\ passTurn /\ now' = now
      BY <2>3, Zenon DEF verifyOneStepProof, onlyOnTurn
    <3>2. bisectionHash' # NoSegment
      BY <2>3 DEF verifyOneStepProof, matchesCommitment, NoSegment
    <3>3. winner' \in Players
      BY <1>1, <2>3, Zenon DEF verifyOneStepProof, TypeOK, Players, other
    <3>4. TypeOK'
      BY <1>1, <2>3, <3>1, <3>3, PassTurnClocks, Zenon DEF TypeOK, verifyOneStepProof
    <3>5. OnlyTimeoutBeforeLength'
      BY <3>2, Zenon DEF OnlyTimeoutBeforeLength
    <3> QED BY <3>1, <3>4, <3>5, PassTurnClocks, Zenon DEF ChallengeInv
  <2> QED BY <1>2, <2>1, <2>2, <2>3, Zenon DEF Move
<1>3. CASE setRollback
  BY <1>1, <1>3, Zenon DEF ChallengeInv, TypeOK, ClocksAddUp, OnlyTimeoutBeforeLength,
                    Expired, setRollback
<1>4. CASE timeout
  <2>1. Expired'
    BY <1>4, Zenon DEF timeout, mayTimeout, Expired
  <2>2. winner' \in Players
    BY <1>1, <1>4, Zenon DEF timeout, TypeOK, Players, other
  <2>3. TypeOK'
    BY <1>1, <1>4, <2>2, Zenon DEF timeout, TypeOK
  <2> QED
    BY <1>1, <1>4, <2>1, <2>3, Zenon
    DEF ChallengeInv, ClocksAddUp, OnlyTimeoutBeforeLength, timeout
<1>5. ASSUME NEW p \in Players, NEW c \in BOOLEAN, completeChallenge(p, c)
      PROVE ChallengeInv'
  <2>1. winner # NoOne
    BY <1>5, Zenon DEF completeChallenge
  <2>2. /\ winner' \in Players
        /\ result' \in [winner : Players \cup {NoOne}, loser : Players \cup {NoOne}]
    BY <1>5, Zenon DEF completeChallenge, Players, other
  <2>3. TypeOK'
    BY <1>1, <1>5, <2>2, Zenon DEF completeChallenge, TypeOK
  <2>4. OnlyTimeoutBeforeLength'
    BY <1>1, <1>5, <2>1, Zenon DEF completeChallenge, OnlyTimeoutBeforeLength, Expired
  <2> QED
    BY <1>1, <1>5, <2>3, <2>4, Zenon DEF ChallengeInv, ClocksAddUp, completeChallenge
<1>6. CASE Tick
  <2>1. TypeOK' /\ ClocksAddUp' /\ lastMoveBlockTime' <= now'
    BY <1>1, <1>6 DEF Tick, TypeOK, ClocksAddUp
  <2>2. timeLeft[turn] \in Nat /\ now \in Nat /\ lastMoveBlockTime \in Nat
    BY <1>1, Zenon DEF TypeOK
  <2>3. Expired => Expired'
    BY <1>6, <2>2 DEF Tick, Expired
  <2> QED
    BY <1>1, <1>6, <2>1, <2>3, Zenon DEF Tick, ChallengeInv, OnlyTimeoutBeforeLength
<1>7. CASE UNCHANGED vars
  BY <1>1, <1>7, Zenon DEF vars, ChallengeInv, TypeOK, ClocksAddUp,
                    OnlyTimeoutBeforeLength, Expired
<1> QED BY <1>2, <1>3, <1>4, <1>5, <1>6, <1>7, Zenon DEF Next

(* The clocks of Challenge.sol are sound for every time limit: they always  *)
(* hold what has not been played, a dispute cannot outlive both allowances, *)
(* and before the number of steps is known only a timeout names a winner.   *)
THEOREM ChallengeSafety ==
  Spec => [](TypeOK /\ ClocksAddUp /\ OverAfterBothAllowances /\ OnlyTimeoutBeforeLength)
<1>1. ChallengeInv => OverAfterBothAllowances
  <2> SUFFICES ASSUME ChallengeInv, now > 2 * TimeLimit PROVE Expired
    BY Zenon DEF OverAfterBothAllowances
  <2>1. /\ timeLeft[Defender] \in Nat /\ timeLeft[Challenger] \in Nat
        /\ lastMoveBlockTime \in Nat /\ now \in Nat /\ turn \in {Defender, Challenger}
    BY Zenon DEF ChallengeInv, TypeOK, Players
  <2>2. timeLeft[Defender] + timeLeft[Challenger] + lastMoveBlockTime = 2 * TimeLimit
    BY Zenon DEF ChallengeInv, ClocksAddUp
  <2>3. TimeLimit \in Nat
    BY ChallengeConstants, Zenon
  <2>4. now - lastMoveBlockTime > timeLeft[Defender]
    BY <2>1, <2>2, <2>3
  <2>5. now - lastMoveBlockTime > timeLeft[Challenger]
    BY <2>1, <2>2, <2>3
  <2> QED BY <2>1, <2>4, <2>5, Zenon DEF Expired
<1>2. ChallengeInv => TypeOK /\ ClocksAddUp /\ OnlyTimeoutBeforeLength
  BY Zenon DEF ChallengeInv
<1> QED BY <1>1, <1>2, ChallengeInitInv, ChallengeStepInv, PTL DEF Spec

(* Running out of time is final, for every time limit and every play: no    *)
(* move is taken after it, and a winner named after it is the opponent or   *)
(* a defender that reports itself.                                          *)
THEOREM ChallengeExpiry == Spec => ExpiryIsFinal
<1> DEFINE Final ==
      Expired =>
        /\ Expired'
        /\ UNCHANGED <<turn, bisectionHash, prevBisection, timeLeft>>
        /\ winner' # winner => winner' = other(turn) \/ result' # result
<1>1. ChallengeInv /\ [Next]_vars => [Final]_vars
  <2> SUFFICES ASSUME ChallengeInv, Next, Expired
               PROVE  /\ Expired'
                      /\ UNCHANGED <<turn, bisectionHash, prevBisection, timeLeft>>
                      /\ winner' # winner => winner' = other(turn) \/ result' # result
    BY Zenon
  <2>1. timeLeft[turn] \in Nat /\ now \in Nat /\ lastMoveBlockTime \in Nat
    BY Zenon DEF ChallengeInv, TypeOK
  <2>2. ASSUME NEW p \in Players, Move(p) PROVE FALSE
    BY <2>2, Zenon DEF Move, initializeChallengeLength, bisectExecution,
                verifyOneStepProof, onlyOnTurn
  <2>3. CASE setRollback
    BY <2>3, Zenon DEF setRollback, Expired
  <2>4. CASE timeout
    BY <2>4, Zenon DEF timeout, Expired
  <2>5. ASSUME NEW p \in Players, NEW c \in BOOLEAN, completeChallenge(p, c)
        PROVE  /\ Expired'
               /\ UNCHANGED <<turn, bisectionHash, prevBisection, timeLeft>>
               /\ result' # result
    <3>1. result = NoResult
      BY <2>5, Zenon DEF completeChallenge
    <3>2. result'.winner \in Players
      BY <2>5, Zenon DEF completeChallenge, Players
    <3>3. result' # result
      BY <3>1, <3>2, ChallengeConstants DEF NoResult, Players
    <3> QED BY <2>5, <3>3, Zenon DEF completeChallenge, Expired
  <2>6. CASE Tick
    BY <2>1, <2>6 DEF Tick, Expired
  <2> QED BY <2>2, <2>3, <2>4, <2>5, <2>6, Zenon DEF Next
<1>2. Spec => []ChallengeInv
  BY ChallengeInitInv, ChallengeStepInv, PTL DEF Spec
<1> QED BY <1>1, <1>2, PTL DEF Spec, ExpiryIsFinal
-----------------------------------------------------------------------------
(* The game the two services play over the contract (BisectionGame), for   *)
(* traces, channels, mempools and numbers of restarts of any size.         *)

Offsets == [start : Nat, length : Nat]
Claims == (Nat \X (Players \cup {NoOne})) \cup {ZeroHash}
Claimed == [start : Claims, mid : Claims, end : Claims]

Events == [kind : {"bisected"}, segment : Offsets, time : Nat,
           start : Claims, mid : Claims, end : Claims]
          \cup {[kind |-> "completed"]}

Calls == [kind : {"init"}, mid : Claims, segment : Offsets]
         \cup [kind : {"bisect"}, segment : Offsets, prev : Offsets, bisection : Claimed]
         \cup [kind : {"osp"}, index : 0 .. 2, step : Nat, prev : Offsets]

(* What a service can still do with an event: one of an earlier bisection   *)
(* names a longer segment than the contract, and one of the current         *)
(* bisection has its middle state.                                          *)
liveEvent(ev) ==
    ev.kind = "bisected" =>
        \/ ev.segment.length = 0
        \/ /\ Committed
           /\ ev.segment.length >= bisectionHash.length
           /\ ev.segment = bisectionHash => ev.mid = currentBisected.mid

(* What the contract can still do with a transaction of p: a bisection      *)
(* refers to an earlier, longer segment, and reverts, or is the answer of p *)
(* to the current bisection.                                                *)
answers(p, call) ==
    LET prev == call.prev
        mid == MidState(p, prev.start, prev.length)
        agree == mid = currentBisected.mid
    IN  /\ call.segment = nextSegment(agree, prev)
        /\ call.bisection.start = IF agree THEN mid ELSE states(p, prev.start)
        /\ call.bisection.mid = MidState(p, call.segment.start, call.segment.length)

liveCall(p, call) ==
    /\ call.kind = "init" =>
           /\ p = Defender
           /\ call.mid = MidState(p, 0, steps[p])
           /\ call.segment = Seg(0, steps[p])
    /\ call.kind = "bisect" =>
           /\ Committed
           /\ call.prev.length >= 3
           /\ call.prev.length >= bisectionHash.length
           /\ call.prev = bisectionHash => answers(p, call)
    /\ call.kind = "osp" => call.prev.length < 3

LiveEvents == {ev \in Events : liveEvent(ev)}
LiveCalls(p) == {call \in Calls : liveCall(p, call)}

(* The segment in dispute begins in the common part of the two traces, with *)
(* the state both have there, and as long as it is bisected its middle      *)
(* state is the one of the player that moved last.                          *)
Agreed ==
    Committed =>
        /\ bisectionHash.length > 0
        /\ bisectionHash.start < firstBad
        /\ bisectionHash.start + bisectionHash.length <= steps[Defender]
        /\ currentBisected.start = <<bisectionHash.start, NoOne>>
        /\ bisectionHash.length >= 3 =>
               currentBisected.mid =
                   MidState(other(turn), bisectionHash.start, bisectionHash.length)

Dispute ==
    /\ steps \in [Players -> Nat]
    /\ firstBad \in Nat \ {0}
    /\ \A p \in Players : firstBad <= steps[p]

(* The inductive invariant of the game. *)
GameInv ==
    /\ Dispute
    /\ turn \in Players
    /\ bisectionHash \in Offsets
    /\ currentBisected \in Claimed
    /\ lastMoveBlockTime \in Nat /\ now \in Nat
    /\ Agreed
    /\ inbox \in [Players -> Seq(LiveEvents)]
    /\ pool \in [Players -> Seq(Calls)]
    /\ \A p \in Players : pool[p] \in Seq(LiveCalls(p))

(* A sequence over a set is one over a larger set. *)
LEMMA SeqGrows ==
  ASSUME NEW S, NEW T, S \subseteq T
  PROVE  Seq(S) \subseteq Seq(T)
<1> SUFFICES ASSUME NEW s \in Seq(S) PROVE s \in Seq(T)
  BY Zenon
<1>1. Len(s) \in Nat /\ s \in [1 .. Len(s) -> T]
  BY SMTT(30)
<1> QED BY <1>1, SMTT(30)

(* The two halves of a segment. *)
LEMMA Halves ==
  ASSUME NEW l \in Nat
  PROVE  /\ MidLen(l) \in Nat /\ MidLenWithMod(l) \in Nat
         /\ MidLen(l) + MidLenWithMod(l) = l
         /\ l >= 3 => MidLen(l) > 0 /\ MidLen(l) < l
  BY DEF MidLen, MidLenWithMod

(* A state hash of a player is the hash of a state. *)
LEMMA StatesAreClaims ==
  ASSUME Dispute, NEW p \in Players, NEW i \in Nat
  PROVE  states(p, i) \in Claims /\ states(p, i) \in Nat \X (Players \cup {NoOne})
<1>1. (IF i = steps[p] THEN MaxSteps ELSE i) \in Nat
  BY ChallengeConstants
<1> QED BY <1>1, Zenon DEF states, Claims

(* Before the first bad step both players have the same state ... *)
LEMMA CommonStates ==
  ASSUME Dispute, NEW p \in Players, NEW i \in Nat, i < firstBad
  PROVE  states(p, i) = <<i, NoOne>>
<1>1. i # steps[p]
  BY DEF Dispute
<1> QED BY <1>1, Zenon DEF states

(* ... and a state both have is before it. *)
LEMMA AgreedStates ==
  ASSUME Dispute, NEW p \in Players, NEW q \in Players, p # q,
         NEW i \in Nat, states(p, i) = states(q, i)
  PROVE  i < firstBad
<1>1. NoOne \notin Players
  BY ChallengeConstants, Zenon DEF Players
<1>2. (IF i < firstBad THEN NoOne ELSE p) = (IF i < firstBad THEN NoOne ELSE q)
  BY DEF states
<1> QED BY <1>1, <1>2, Zenon

(* The middle state of a segment is a state. *)
LEMMA MidIsClaim ==
  ASSUME Dispute, NEW p \in Players, NEW s \in Nat, NEW l \in Nat
  PROVE  MidState(p, s, l) \in Claims
<1>1. s + MidLenWithMod(l) \in Nat
  BY Halves
<1> QED BY <1>1, StatesAreClaims, Zenon DEF MidState

(* What is live depends on the contract's bisection and the traces only. *)
LEMMA LiveSame ==
  ASSUME UNCHANGED <<bisectionHash, currentBisected, steps, firstBad>>
  PROVE  /\ LiveEvents' = LiveEvents
         /\ \A p \in Players : LiveCalls(p)' = LiveCalls(p)
<1>1. LiveEvents' = LiveEvents
  BY Zenon DEF LiveEvents, liveEvent, Committed
<1>2. ASSUME NEW p \in Players PROVE LiveCalls(p)' = LiveCalls(p)
  <2>1. \A i : states(p, i)' = states(p, i)
    BY Zenon DEF states
  <2>2. \A s, l : MidState(p, s, l)' = MidState(p, s, l)
    BY <2>1, Zenon DEF MidState
  <2>3. ASSUME NEW call PROVE answers(p, call)' <=> answers(p, call)
    <3>1. /\ MidState(p, call.prev.start, call.prev.length)' =
                MidState(p, call.prev.start, call.prev.length)
          /\ MidState(p, call.segment.start, call.segment.length)' =
                MidState(p, call.segment.start, call.segment.length)
          /\ states(p, call.prev.start)' = states(p, call.prev.start)
      BY <2>1, <2>2, Zenon
    <3> QED BY <3>1, Zenon DEF answers
  <2>4. \A call : liveCall(p, call)' <=> liveCall(p, call)
    BY <2>2, <2>3, Zenon DEF liveCall, Committed
  <2> QED BY <2>4, Zenon DEF LiveCalls
<1> QED BY <1>1, <1>2, Zenon

(* Steps that leave the bisection and the turn alone keep the invariant if  *)
(* what they add to the channels and the mempool is live.                   *)
LEMMA GameQuiet ==
  ASSUME GameInv, UNCHANGED <<turn, bisectionHash, currentBisected, steps, firstBad>>,
         lastMoveBlockTime' \in Nat, now' \in Nat,
         inbox' \in [Players -> Seq(LiveEvents)],
         pool' \in [Players -> Seq(Calls)],
         \A p \in Players : pool'[p] \in Seq(LiveCalls(p))
  PROVE  GameInv'
<1>1. Agreed'
  BY Zenon DEF GameInv, Agreed, Committed, MidState, states
<1>2. Dispute'
  BY Zenon DEF GameInv, Dispute
<1> QED BY <1>1, <1>2, LiveSame, Zenon DEF GameInv

(* The parts of the invariant that the services read. *)
LEMMA Reading ==
  ASSUME GameInv
  PROVE  /\ inbox \in [Players -> Seq(LiveEvents)]
         /\ pool \in [Players -> Seq(Calls)]
         /\ \A p \in Players : pool[p] \in Seq(LiveCalls(p))
         /\ lastMoveBlockTime \in Nat /\ now \in Nat
         /\ Dispute
  BY Zenon DEF GameInv

(* A half of a segment is a segment. *)
LEMMA NextIsOffsets ==
  ASSUME NEW agree \in BOOLEAN, NEW seg \in Offsets
  PROVE  nextSegment(agree, seg) \in Offsets
<1>1. seg.start \in Nat /\ seg.length \in Nat
  BY Zenon DEF Offsets
<1>2. MidLen(seg.length) \in Nat /\ MidLenWithMod(seg.length) \in Nat
  BY <1>1, Halves, Zenon
<1>3. seg.start + MidLenWithMod(seg.length) \in Nat
  BY <1>1, <1>2
<1> QED BY <1>1, <1>2, <1>3, Zenon DEF nextSegment, Seg, Offsets

(* The event of the current bisection is live. *)
LEMMA CurrentEventLive ==
  ASSUME bisectionHash \in Offsets, currentBisected \in Claimed,
         lastMoveBlockTime \in Nat
  PROVE  bisectedEvent \in LiveEvents
<1>1. bisectedEvent \in Events
  BY Zenon DEF bisectedEvent, Events, Claimed
<1>2. bisectionHash.length \in Nat
  BY Zenon DEF Offsets
<1>3. Committed \/ bisectionHash.length = 0
  BY DEF Committed, NoSegment
<1> QED BY <1>1, <1>2, <1>3 DEF bisectedEvent, LiveEvents, liveEvent

(* ... also after a step. *)
LEMMA NextEventLive ==
  ASSUME bisectionHash' \in Offsets, currentBisected' \in Claimed,
         lastMoveBlockTime' \in Nat
  PROVE  bisectedEvent' \in LiveEvents'
<1>1. bisectedEvent' \in Events
  BY Zenon DEF bisectedEvent, Events, Claimed
<1>2. bisectionHash'.length \in Nat
  BY Zenon DEF Offsets
<1>3. Committed' \/ bisectionHash'.length = 0
  BY DEF Committed, NoSegment
<1> QED BY <1>1, <1>2, <1>3 DEF bisectedEvent, LiveEvents, liveEvent

(* So is the end of the dispute. *)
LEMMA CompletedLive == completedEvent \in LiveEvents
  BY DEF completedEvent, LiveEvents, liveEvent, Events

(* Events reach the services that listen. *)
LEMMA EmitLive ==
  ASSUME NEW S, inbox \in [Players -> Seq(S)], NEW ev \in S, emit(ev)
  PROVE  inbox' \in [Players -> Seq(S)]
<1>1. \A p \in Players : Append(inbox[p], ev) \in Seq(S)
  BY SMTT(30)
<1> QED BY <1>1, Zenon DEF emit

(* Taking the oldest event or transaction. *)
LEMMA TakeFirst ==
  ASSUME NEW S, NEW s \in Seq(S), s # << >>
  PROVE  Head(s) \in S /\ Tail(s) \in Seq(S)
  BY SMTT(30)

(* Sending a transaction that is live. *)
LEMMA AddCall ==
  ASSUME GameInv, NEW p \in Players, NEW call \in LiveCalls(p),
         pool' = [pool EXCEPT ![p] = Append(@, call)]
  PROVE  /\ pool' \in [Players -> Seq(Calls)]
         /\ \A q \in Players : pool'[q] \in Seq(LiveCalls(q))
<1>1. call \in Calls
  BY Zenon DEF LiveCalls
<1>2. Append(pool[p], call) \in Seq(Calls) /\ Append(pool[p], call) \in Seq(LiveCalls(p))
  BY <1>1, Reading, SMTT(30)
<1> QED BY <1>2, Reading, Zenon

(* challengeLoop subscribing keeps the invariant. *)
LEMMA GameEnter ==
  ASSUME GameInv, NEW p \in Players, enterChallenge(p)
  PROVE  GameInv'
<1> USE Reading
<1>1. UNCHANGED <<turn, bisectionHash, currentBisected, steps, firstBad,
                  lastMoveBlockTime, now>>
  BY Zenon DEF enterChallenge, vars, dispute
<1>2. inbox' \in [Players -> Seq(LiveEvents)]
  <2>1. bisectedEvent \in LiveEvents
    BY CurrentEventLive, Zenon DEF GameInv
  <2>2. <<bisectedEvent>> \in Seq(LiveEvents)
    BY <2>1
  <2> QED BY <2>2, Zenon DEF enterChallenge
<1> DEFINE call == [kind |-> "init", mid |-> MidState(p, 0, steps[p]),
                    segment |-> Seg(0, steps[p])]
<1>3. \/ pool' = pool
      \/ p = Defender /\ pool' = [pool EXCEPT ![p] = Append(@, call)]
  BY Zenon DEF enterChallenge
<1>4. p = Defender => call \in LiveCalls(p)
  <2>1. steps[p] \in Nat
    BY Zenon DEF Dispute
  <2>2. call \in Calls
    BY <2>1, MidIsClaim DEF Calls, Seg, Offsets
  <2> QED BY <2>2 DEF LiveCalls, liveCall
<1> HIDE DEF call
<1>5. pool' \in [Players -> Seq(Calls)] /\ \A q \in Players : pool'[q] \in Seq(LiveCalls(q))
  BY <1>3, <1>4, AddCall, Zenon
<1> QED BY <1>1, <1>2, <1>5, GameQuiet, Zenon

(* What RespondBisection answers to a live event is live. *)
LEMMA BisectLive ==
  ASSUME GameInv, NEW p \in Players, NEW ev \in LiveEvents,
         ev.kind = "bisected", ev.segment.length >= 3
  PROVE  bisectCall(p, ev) \in LiveCalls(p)
<1> DEFINE seg == ev.segment
           mid == MidState(p, seg.start, seg.length)
           agree == mid = ev.mid
           new == nextSegment(agree, seg)
           call == bisectCall(p, ev)
<1>1. seg \in Offsets
  BY DEF LiveEvents, Events
<1>2. seg.start \in Nat /\ seg.length \in Nat
  BY <1>1, Zenon DEF Offsets
<1>3. new.start \in Nat /\ new.length \in Nat /\ new \in Offsets
  BY <1>1, NextIsOffsets, Zenon DEF Offsets
<1>4. /\ mid \in Claims /\ states(p, seg.start) \in Claims
      /\ states(p, seg.start + seg.length) \in Claims
      /\ MidState(p, new.start, new.length) \in Claims
  <2>1. seg.start + seg.length \in Nat
    BY <1>2
  <2> HIDE DEF seg, new
  <2> QED BY <1>2, <1>3, <2>1, Reading, MidIsClaim, StatesAreClaims, Zenon
<1>5. call = [kind |-> "bisect", segment |-> new, prev |-> seg,
              bisection |->
                  [start |-> IF agree THEN mid ELSE states(p, seg.start),
                   mid   |-> MidState(p, new.start, new.length),
                   end   |-> IF agree THEN states(p, seg.start + seg.length) ELSE mid]]
  BY Zenon DEF bisectCall
<1>6. Committed /\ seg.length >= bisectionHash.length
      /\ (seg = bisectionHash => ev.mid = currentBisected.mid)
  <2>1. liveEvent(ev)
    BY Zenon DEF LiveEvents
  <2> QED BY <1>2, <2>1 DEF liveEvent
<1> HIDE DEF call, mid, new, seg
<1>7. call \in Calls
  BY <1>1, <1>3, <1>4, <1>5 DEF Calls, Claimed
<1>8. call.prev = bisectionHash => answers(p, call)
  <2> SUFFICES ASSUME seg = bisectionHash PROVE answers(p, call)
    BY <1>5, Zenon
  <2>1. ev.mid = currentBisected.mid
    BY <1>6, Zenon
  <2>2. call.prev = seg /\ call.segment = new
        /\ call.bisection.start = (IF agree THEN mid ELSE states(p, seg.start))
        /\ call.bisection.mid = MidState(p, new.start, new.length)
    BY <1>5, Zenon
  <2>3. new = nextSegment(mid = currentBisected.mid, seg)
    BY <2>1, Zenon DEF new
  <2>4. mid = MidState(p, seg.start, seg.length)
    BY Zenon DEF mid
  <2> QED BY <2>1, <2>2, <2>3, <2>4, Zenon DEF answers
<1>9. liveCall(p, call)
  <2>1. call.kind = "bisect" /\ call.prev = seg
    BY <1>5, Zenon
  <2>2. seg.length >= 3
    BY Zenon DEF seg
  <2> QED BY <1>6, <1>8, <2>1, <2>2, SMTT(30) DEF liveCall
<1> QED BY <1>7, <1>9, Zenon DEF LiveCalls, call

(* A one-step proof is of a segment that is not bisected any more. *)
LEMMA OneStepLive ==
  ASSUME GameInv, NEW p \in Players, NEW ev \in LiveEvents,
         ev.kind = "bisected", ev.segment.length < 3
  PROVE  oneStepCall(p, ev) \in LiveCalls(p) \cup {NoCall}
<1> DEFINE seg == ev.segment
           at == <<seg.start, seg.start + MidLenWithMod(seg.length),
                   seg.start + seg.length>>
           theirs == <<ev.start, ev.mid, ev.end>>
           differ == {i \in 1 .. 3 : states(p, at[i]) # theirs[i]}
           first == CHOOSE i \in differ : \A j \in differ : i <= j
           call == [kind |-> "osp", index |-> first - 1, step |-> at[first], prev |-> seg]
<1>1. oneStepCall(p, ev) = IF differ = {} THEN NoCall ELSE call
  BY Zenon DEF oneStepCall
<1>2. seg \in Offsets
  BY DEF LiveEvents, Events
<1>3. seg.start \in Nat /\ seg.length \in Nat
  BY <1>2, Zenon DEF Offsets
<1>4. at[1] \in Nat /\ at[2] \in Nat /\ at[3] \in Nat
  <2>1. MidLenWithMod(seg.length) \in Nat
    BY <1>3, Halves, Zenon
  <2> HIDE DEF seg
  <2> QED BY <1>3, <2>1
<1>5. differ \subseteq 1 .. 3
  BY Zenon
<1> HIDE DEF differ, at, theirs, seg
<1>6. ASSUME differ # {} PROVE first \in 1 .. 3
  <2>1. \E i \in differ : \A j \in differ : i <= j
    <3>1. CASE 1 \in differ
      BY <1>5, <3>1
    <3>2. CASE 1 \notin differ /\ 2 \in differ
      BY <1>5, <3>2
    <3>3. CASE 1 \notin differ /\ 2 \notin differ
      <4>1. \A j \in differ : j = 3
        BY <1>5, <3>3
      <4> QED BY <1>6, <4>1
    <3> QED BY <3>1, <3>2, <3>3, Zenon
  <2>2. first \in differ
    BY <2>1, Zenon
  <2> QED BY <1>5, <2>2, Zenon
<1> HIDE DEF first
<1>7. ASSUME differ # {} PROVE call \in LiveCalls(p)
  <2>1. first - 1 \in 0 .. 2 /\ at[first] \in Nat
    BY <1>4, <1>6, <1>7
  <2>2. call \in Calls
    BY <1>2, <2>1 DEF Calls
  <2>3. call.kind = "osp" /\ call.prev.length < 3
    BY Zenon DEF seg
  <2>4. liveCall(p, call)
    BY <2>3, SMTT(30) DEF liveCall
  <2> QED BY <2>2, <2>4, Zenon DEF LiveCalls
<1> QED BY <1>1, <1>7, Zenon

(* The handler of a bisection keeps the invariant: whatever was the event   *)
(* and whenever it came, what it sends is live.                             *)
LEMMA GameBisected ==
  ASSUME GameInv, NEW p \in Players, onBisected(p)
  PROVE  GameInv'
<1> DEFINE ev == Head(inbox[p])
           call == RespondBisection(p, ev)
<1>1. UNCHANGED <<turn, bisectionHash, currentBisected, steps, firstBad,
                  lastMoveBlockTime, now>>
  BY Zenon DEF onBisected, vars, dispute
<1>2. /\ inbox[p] # << >> /\ ev.kind = "bisected"
      /\ inbox' = [inbox EXCEPT ![p] = Tail(@)]
      /\ \/ pool' = pool
         \/ call.kind # "none" /\ pool' = [pool EXCEPT ![p] = Append(@, call)]
  BY Zenon DEF onBisected
<1>3. ev \in LiveEvents /\ Tail(inbox[p]) \in Seq(LiveEvents)
  BY <1>2, Reading, TakeFirst, Zenon
<1>4. inbox' \in [Players -> Seq(LiveEvents)]
  BY <1>2, <1>3, Reading, Zenon
<1> HIDE DEF ev
<1>5. call \in LiveCalls(p) \cup {NoCall}
  <2>1. ev.segment.length \in Nat
    BY <1>2, <1>3 DEF LiveEvents, Events, Offsets
  <2>2. CASE ev.segment.length >= 3
    BY <1>2, <1>3, <2>2, BisectLive, Zenon DEF RespondBisection
  <2>3. CASE ~(ev.segment.length >= 3)
    <3>1. ev.segment.length < 3
      BY <2>1, <2>3
    <3> QED BY <1>2, <1>3, <2>3, <3>1, OneStepLive, Zenon DEF RespondBisection
  <2> QED BY <2>2, <2>3, Zenon
<1> HIDE DEF call
<1>6. pool' \in [Players -> Seq(Calls)] /\ \A q \in Players : pool'[q] \in Seq(LiveCalls(q))
  <2>1. CASE pool' = pool
    BY <2>1, Reading, Zenon
  <2>2. CASE call.kind # "none" /\ pool' = [pool EXCEPT ![p] = Append(@, call)]
    <3>1. call \in LiveCalls(p)
      <4>1. NoCall.kind = "none"
        BY DEF NoCall
      <4> QED BY <1>5, <2>2, <4>1, Zenon
    <3> QED BY <2>2, <3>1, AddCall, Zenon
  <2> QED BY <1>2, <2>1, <2>2, Zenon
<1> QED BY <1>1, <1>4, <1>6, Reading, GameQuiet, Zenon

(* The handler of the end, a timeout, a restart and the clock keep the      *)
(* invariant: none of them touches the bisection.                           *)
LEMMA GameRest ==
  ASSUME GameInv,
         \/ \E p \in Players : onCompleted(p) \/ callTimeout(p) \/ restart(p)
         \/ GameTick
         \/ UNCHANGED gameVars
  PROVE  GameInv'
<1>1. ASSUME NEW p \in Players, onCompleted(p) PROVE GameInv'
  <2>1. /\ UNCHANGED <<turn, bisectionHash, currentBisected, steps, firstBad,
                       lastMoveBlockTime, now, pool>>
        /\ inbox[p] # << >>
        /\ inbox' = [inbox EXCEPT ![p] = Tail(@)]
    BY <1>1, Zenon DEF onCompleted, completeChallenge, vars, dispute
  <2>2. Tail(inbox[p]) \in Seq(LiveEvents)
    BY <2>1, Reading, TakeFirst, Zenon
  <2>3. inbox' \in [Players -> Seq(LiveEvents)]
    BY <2>1, <2>2, Reading, Zenon
  <2> QED BY <2>1, <2>3, Reading, GameQuiet, Zenon
<1>2. ASSUME NEW p \in Players, callTimeout(p) PROVE GameInv'
  <2>1. /\ UNCHANGED <<turn, bisectionHash, currentBisected, steps, firstBad,
                       lastMoveBlockTime, now, pool>>
        /\ emit(completedEvent)
    BY <1>2, Zenon DEF callTimeout, timeout, dispute
  <2>2. inbox' \in [Players -> Seq(LiveEvents)]
    BY <2>1, Reading, CompletedLive, EmitLive, Zenon
  <2> QED BY <2>1, <2>2, Reading, GameQuiet, Zenon
<1>3. ASSUME NEW p \in Players, restart(p) PROVE GameInv'
  <2>1. /\ UNCHANGED <<turn, bisectionHash, currentBisected, steps, firstBad,
                       lastMoveBlockTime, now, pool>>
        /\ inbox' = [inbox EXCEPT ![p] = << >>]
    BY <1>3, Zenon DEF restart, vars, dispute
  <2>2. << >> \in Seq(LiveEvents)
    OBVIOUS
  <2>3. inbox' \in [Players -> Seq(LiveEvents)]
    BY <2>1, <2>2, Reading, Zenon
  <2> QED BY <2>1, <2>3, Reading, GameQuiet, Zenon
<1>4. CASE GameTick
  <2>1. /\ UNCHANGED <<turn, bisectionHash, currentBisected, steps, firstBad,
                       lastMoveBlockTime, inbox, pool>>
        /\ now' = now + 1
    BY <1>4, Zenon DEF GameTick, Tick, dispute, services
  <2>2. now' \in Nat
    BY <2>1, Reading
  <2> QED BY <2>1, <2>2, Reading, GameQuiet, Zenon
<1>5. CASE UNCHANGED gameVars
  <2>1. UNCHANGED <<turn, bisectionHash, currentBisected, steps, firstBad,
                    lastMoveBlockTime, now, inbox, pool>>
    BY <1>5, Zenon DEF gameVars, vars, dispute, services
  <2> QED BY <2>1, Reading, GameQuiet, Zenon
<1> QED BY <1>1, <1>2, <1>3, <1>4, <1>5, Zenon

(* A new, shorter segment leaves what is live live: all of it refers to     *)
(* longer segments.                                                         *)
LEMMA LiveShrinks ==
  ASSUME bisectionHash \in Offsets, bisectionHash' \in Offsets,
         UNCHANGED <<steps, firstBad>>, Committed',
         Committed => bisectionHash'.length < bisectionHash.length
  PROVE  /\ LiveEvents \subseteq LiveEvents'
         /\ \A p \in Players : LiveCalls(p) \subseteq LiveCalls(p)'
<1>0. bisectionHash.length \in Nat /\ bisectionHash'.length \in Nat
  BY Zenon DEF Offsets
<1>1. ASSUME NEW ev \in LiveEvents PROVE ev \in LiveEvents'
  <2>1. ev \in Events /\ liveEvent(ev)
    BY Zenon DEF LiveEvents
  <2>2. CASE ev.kind = "bisected" /\ ev.segment.length # 0
    <3>1. ev.segment.length \in Nat
      BY <2>1, <2>2 DEF Events, Offsets
    <3>2. Committed /\ ev.segment.length >= bisectionHash.length
      BY <2>1, <2>2, Zenon DEF liveEvent
    <3>3. ev.segment.length > bisectionHash'.length
      BY <1>0, <3>1, <3>2
    <3>4. ev.segment # bisectionHash' /\ ev.segment.length >= bisectionHash'.length
      BY <1>0, <3>1, <3>3
    <3>5. liveEvent(ev)'
      BY <3>4, Zenon DEF liveEvent
    <3> QED BY <2>1, <3>5, Zenon DEF LiveEvents
  <2>3. CASE ~(ev.kind = "bisected" /\ ev.segment.length # 0)
    BY <2>1, <2>3, Zenon DEF LiveEvents, liveEvent
  <2> QED BY <2>2, <2>3, Zenon
<1>2. ASSUME NEW p \in Players, NEW call \in LiveCalls(p) PROVE call \in LiveCalls(p)'
  <2>1. call \in Calls /\ liveCall(p, call)
    BY Zenon DEF LiveCalls
  <2>2. \A s, l : MidState(p, s, l)' = MidState(p, s, l)
    BY Zenon DEF MidState, states
  <2>3. call.kind = "bisect" =>
            /\ call.prev.length >= 3
            /\ call.prev.length >= bisectionHash'.length
            /\ call.prev # bisectionHash'
    <3> SUFFICES ASSUME call.kind = "bisect"
                 PROVE  /\ call.prev.length >= 3
                        /\ call.prev.length >= bisectionHash'.length
                        /\ call.prev # bisectionHash'
      BY Zenon
    <3>1. call.prev.length \in Nat
      BY <2>1 DEF Calls, Offsets
    <3>2. Committed /\ call.prev.length >= 3 /\ call.prev.length >= bisectionHash.length
      BY <2>1, Zenon DEF liveCall
    <3> QED BY <1>0, <3>1, <3>2
  <2>4. liveCall(p, call)'
    BY <2>1, <2>2, <2>3, Zenon DEF liveCall
  <2> QED BY <2>1, <2>4, Zenon DEF LiveCalls
<1> QED BY <1>1, <1>2, Zenon

(* What a mined transaction leaves satisfies the invariant if the contract  *)
(* is left in agreement, and what was live, and the event, are live.        *)
LEMMA GameMoved ==
  ASSUME GameInv, NEW p \in Players, pool[p] # << >>,
         pool' = [pool EXCEPT ![p] = Tail(@)],
         UNCHANGED <<steps, firstBad>>,
         turn' \in Players, bisectionHash' \in Offsets, currentBisected' \in Claimed,
         lastMoveBlockTime' \in Nat, now' \in Nat, Agreed',
         LiveEvents \subseteq LiveEvents',
         \A q \in Players : LiveCalls(q) \subseteq LiveCalls(q)',
         NEW ev \in LiveEvents', emit(ev)
  PROVE  GameInv'
<1>1. Dispute'
  BY Reading, Zenon DEF Dispute
<1>2. inbox' \in [Players -> Seq(LiveEvents')]
  <2>1. inbox \in [Players -> Seq(LiveEvents')]
    BY Reading, SeqGrows, Zenon
  <2> QED BY <2>1, EmitLive, Zenon
<1>3. Tail(pool[p]) \in Seq(Calls) /\ Tail(pool[p]) \in Seq(LiveCalls(p))
  BY Reading, TakeFirst, Zenon
<1>4. pool' \in [Players -> Seq(Calls)]
  BY <1>3, Reading, Zenon
<1>5. \A q \in Players : pool'[q] \in Seq(LiveCalls(q))
  BY <1>3, Reading, Zenon
<1>6. \A q \in Players : pool'[q] \in Seq(LiveCalls(q)')
  BY <1>5, SeqGrows, Zenon
<1> QED BY <1>1, <1>2, <1>4, <1>6, Zenon DEF GameInv

(* The oldest transaction is live. *)
LEMMA FirstCall ==
  ASSUME GameInv, NEW p \in Players, pool[p] # << >>
  PROVE  Head(pool[p]) \in Calls /\ liveCall(p, Head(pool[p]))
<1>1. Head(pool[p]) \in LiveCalls(p)
  BY Reading, TakeFirst, Zenon
<1> QED BY <1>1, Zenon DEF LiveCalls

(* The turn goes back and forth. *)
LEMMA OtherPlayer ==
  ASSUME NEW p \in Players
  PROVE  /\ other(p) \in Players /\ other(p) # p
         /\ other(other(p)) = p
  BY ChallengeConstants, Zenon DEF Players, other

(* The defender announcing the number of its steps keeps the invariant. *)
LEMMA GameMineInit ==
  ASSUME GameInv, NEW p \in Players, pool[p] # << >>,
         pool' = [pool EXCEPT ![p] = Tail(@)],
         UNCHANGED <<steps, firstBad>>,
         NEW call, call = Head(pool[p]), call.kind = "init",
         initializeChallengeLength(p, call.mid, call.segment.length),
         emit(bisectedEvent')
  PROVE  GameInv'
<1>1. /\ p = Defender /\ call.mid = MidState(p, 0, steps[p])
      /\ call.segment = Seg(0, steps[p])
  BY FirstCall, Zenon DEF liveCall
<1>2. Dispute /\ steps[p] \in Nat /\ turn \in Players /\ now \in Nat
      /\ bisectionHash \in Offsets
  BY Zenon DEF GameInv, Dispute
<1>3. /\ turn = p /\ bisectionHash = NoSegment /\ steps[p] > 0
      /\ bisectionHash' = [start |-> 0, length |-> steps[p]]
      /\ currentBisected' = [start |-> <<0, NoOne>>, mid |-> call.mid,
                             end |-> <<MaxSteps, Defender>>]
      /\ turn' = other(p) /\ lastMoveBlockTime' = now /\ now' = now
  <2>1. call.segment.length = steps[p]
    BY <1>1 DEF Seg
  <2>2. StartStateHash = <<0, NoOne>> /\ EndStateHash = <<MaxSteps, Defender>>
    BY GameConstants, Zenon
  <2> QED BY <2>1, <2>2 DEF initializeChallengeLength, onlyOnTurn, passTurn
<1>4. bisectionHash' \in Offsets
  BY <1>2, <1>3 DEF Offsets
<1>5. currentBisected' \in Claimed
  <2>1. call.mid \in Claims
    BY <1>1, <1>2, MidIsClaim
  <2>2. <<0, NoOne>> \in Claims /\ <<MaxSteps, Defender>> \in Claims
    BY ChallengeConstants DEF Claims, Players
  <2> QED BY <1>3, <2>1, <2>2, Zenon DEF Claimed
<1>6. turn' \in Players /\ other(turn') = p
  BY <1>3, OtherPlayer, Zenon
<1>7. /\ bisectionHash'.start = 0 /\ bisectionHash'.length = steps[p]
      /\ currentBisected'.start = <<0, NoOne>> /\ currentBisected'.mid = call.mid
  BY <1>3, Zenon
<1>8. Committed'
  BY <1>2, <1>3 DEF Committed, NoSegment
<1>9. Agreed'
  <2>1. 0 < firstBad /\ 0 + steps[Defender] <= steps[Defender]
    BY <1>1, <1>2 DEF Dispute
  <2>2. MidState(p, 0, steps[p])' = MidState(p, 0, steps[p])
    BY Zenon DEF MidState, states
  <2> QED BY <1>1, <1>3, <1>6, <1>7, <2>1, <2>2, Zenon DEF Agreed
<1>10. ~Committed
  BY <1>3, Zenon DEF Committed
<1>11. /\ LiveEvents \subseteq LiveEvents'
       /\ \A q \in Players : LiveCalls(q) \subseteq LiveCalls(q)'
  BY <1>2, <1>4, <1>8, <1>10, LiveShrinks, Zenon
<1>12. lastMoveBlockTime' \in Nat /\ now' \in Nat
  BY <1>2, <1>3, Zenon
<1>13. bisectedEvent' \in LiveEvents'
  BY <1>4, <1>5, <1>12, NextEventLive, Zenon
<1> QED BY <1>4, <1>5, <1>6, <1>9, <1>11, <1>12, <1>13, GameMoved, Zenon

(* A bisection that is accepted halves the segment, and starts it where the *)
(* two traces agree.                                                        *)
LEMMA GameMineBisect ==
  ASSUME GameInv, NEW p \in Players, pool[p] # << >>,
         pool' = [pool EXCEPT ![p] = Tail(@)],
         UNCHANGED <<steps, firstBad>>,
         NEW call, call = Head(pool[p]), call.kind = "bisect",
         bisectExecution(p, call.bisection, call.segment, call.prev),
         emit(bisectedEvent')
  PROVE  GameInv'
<1> DEFINE s == bisectionHash.start
           l == bisectionHash.length
           m == s + MidLenWithMod(l)
           mid == MidState(p, s, l)
           agree == mid = currentBisected.mid
           new == call.segment
<1>1. /\ turn = p /\ call.prev = bisectionHash /\ Committed
      /\ bisectionHash' = call.segment /\ currentBisected' = call.bisection
      /\ turn' = other(p) /\ lastMoveBlockTime' = now /\ now' = now
  BY Zenon DEF bisectExecution, matchesCommitment, onlyOnTurn, passTurn,
               Committed
<1>2. call \in Calls /\ liveCall(p, call)
  BY FirstCall, Zenon
<1>3. call.segment \in Offsets /\ call.bisection \in Claimed
  BY <1>2 DEF Calls
<1>4. /\ l >= 3
      /\ new = nextSegment(agree, bisectionHash)
      /\ currentBisected'.start = IF agree THEN mid ELSE states(p, s)
      /\ currentBisected'.mid = MidState(p, new.start, new.length)
  BY <1>1, <1>2, Zenon DEF liveCall, answers
<1>5. /\ Dispute /\ now \in Nat /\ bisectionHash \in Offsets
      /\ s \in Nat /\ l \in Nat
  BY Zenon DEF GameInv, Offsets
<1>6. /\ s < firstBad /\ s + l <= steps[Defender]
      /\ currentBisected.mid = MidState(other(p), s, l)
  BY <1>1, <1>4, Zenon DEF GameInv, Agreed
<1>7. /\ MidLen(l) \in Nat /\ MidLenWithMod(l) \in Nat
      /\ MidLen(l) + MidLenWithMod(l) = l
      /\ MidLen(l) > 0 /\ MidLen(l) < l
  BY <1>4, <1>5, Halves, Zenon
<1>8. /\ new.length = MidLen(l)
      /\ new.start = IF agree THEN m ELSE s
  <2>1. new = [start |-> IF agree THEN m ELSE s, length |-> MidLen(l)]
    BY <1>4, Zenon DEF nextSegment, Seg
  <2> HIDE DEF new, agree, m, s, l
  <2> QED BY <2>1, Zenon
<1>9. states(p, s) = <<s, NoOne>>
  BY <1>5, <1>6, CommonStates, Zenon
<1>10. ASSUME agree PROVE m < firstBad /\ mid = <<m, NoOne>>
  <2>1. m \in Nat
    BY <1>5, <1>7
  <2>2. states(p, m) = states(other(p), m) /\ mid = states(p, m)
    BY <1>6, <1>10, Zenon DEF MidState
  <2> HIDE DEF m, mid
  <2>3. m < firstBad
    BY <1>5, <2>1, <2>2, OtherPlayer, AgreedStates, Zenon
  <2> QED BY <1>5, <2>1, <2>2, <2>3, CommonStates, Zenon
<1>11. /\ new.start < firstBad
       /\ currentBisected'.start = <<new.start, NoOne>>
  BY <1>4, <1>6, <1>8, <1>9, <1>10, Zenon
<1>12. new.start + new.length <= steps[Defender]
  <2>1. steps[Defender] \in Nat
    BY <1>5, Zenon DEF Dispute, Players
  <2>2. m + MidLen(l) = s + l /\ s + MidLen(l) <= s + l
    BY <1>5, <1>7
  <2>3. s + MidLen(l) <= steps[Defender]
    BY <1>5, <1>6, <1>7, <2>1, <2>2
  <2> HIDE DEF m, agree, s, l
  <2> QED BY <1>6, <1>8, <2>2, <2>3, Zenon
<1>13. turn' \in Players /\ other(turn') = p
  BY <1>1, OtherPlayer, Zenon
<1>14. MidState(p, new.start, new.length)' = MidState(p, new.start, new.length)
  BY Zenon DEF MidState, states
<1>15. Agreed'
  BY <1>1, <1>4, <1>7, <1>8, <1>11, <1>12, <1>13, <1>14, Zenon DEF Agreed
<1>16. Committed'
  <2>1. bisectionHash'.length > 0
    BY <1>1, <1>7, <1>8, Zenon
  <2> QED BY <2>1 DEF Committed, NoSegment
<1>17. bisectionHash'.length < bisectionHash.length
  BY <1>1, <1>7, <1>8, Zenon
<1>18. bisectionHash' \in Offsets /\ currentBisected' \in Claimed
  BY <1>1, <1>3, Zenon
<1>19. /\ LiveEvents \subseteq LiveEvents'
       /\ \A q \in Players : LiveCalls(q) \subseteq LiveCalls(q)'
  BY <1>5, <1>16, <1>17, <1>18, LiveShrinks, Zenon
<1>20. lastMoveBlockTime' \in Nat /\ now' \in Nat
  BY <1>1, <1>5, Zenon
<1>21. bisectedEvent' \in LiveEvents'
  BY <1>18, <1>20, NextEventLive, Zenon
<1> QED BY <1>13, <1>15, <1>18, <1>19, <1>20, <1>21, GameMoved, Zenon

(* A one-step proof passes the turn, of a segment that is not bisected any  *)
(* more.                                                                    *)
LEMMA GameMineProof ==
  ASSUME GameInv, NEW p \in Players, pool[p] # << >>,
         pool' = [pool EXCEPT ![p] = Tail(@)],
         UNCHANGED <<steps, firstBad>>,
         NEW call, call = Head(pool[p]), call.kind = "osp", NEW h,
         verifyOneStepProof(p, h, call.index, call.prev),
         emit(completedEvent)
  PROVE  GameInv'
<1>1. /\ turn = p /\ call.prev = bisectionHash
      /\ UNCHANGED <<bisectionHash, currentBisected>>
      /\ turn' = other(p) /\ lastMoveBlockTime' = now /\ now' = now
  BY Zenon DEF verifyOneStepProof, matchesCommitment, onlyOnTurn, passTurn
<1>2. call.prev.length < 3
  BY FirstCall, Zenon DEF liveCall
<1>3. bisectionHash \in Offsets /\ currentBisected \in Claimed /\ now \in Nat /\ Agreed
  BY Zenon DEF GameInv
<1>4. ~(bisectionHash'.length >= 3)
  BY <1>1, <1>2, <1>3 DEF Offsets
<1>5. Agreed'
  BY <1>1, <1>3, <1>4, Zenon DEF Agreed, Committed
<1>6. turn' \in Players
  BY <1>1, OtherPlayer, Zenon
<1>7. LiveEvents' = LiveEvents /\ \A q \in Players : LiveCalls(q)' = LiveCalls(q)
  BY <1>1, LiveSame, Zenon
<1>8. completedEvent \in LiveEvents'
  BY <1>7, CompletedLive, Zenon
<1>9. /\ bisectionHash' \in Offsets /\ currentBisected' \in Claimed
      /\ lastMoveBlockTime' \in Nat /\ now' \in Nat
  BY <1>1, <1>3, Zenon
<1>10. /\ LiveEvents \subseteq LiveEvents'
       /\ \A q \in Players : LiveCalls(q) \subseteq LiveCalls(q)'
  BY <1>7, Zenon
<1> QED BY <1>5, <1>6, <1>8, <1>9, <1>10, GameMoved, Zenon

(* A transaction that is mined keeps the invariant, accepted or reverted. *)
LEMMA GameMine ==
  ASSUME GameInv, NEW p \in Players, mine(p)
  PROVE  GameInv'
<1> DEFINE call == Head(pool[p])
<1>1. /\ pool[p] # << >> /\ pool' = [pool EXCEPT ![p] = Tail(@)]
      /\ UNCHANGED <<steps, firstBad>>
  BY Zenon DEF mine, dispute
<1>2. CASE /\ accepted(p, call)
           /\ IF call.kind = "osp" THEN emit(completedEvent) ELSE emit(bisectedEvent')
  <2> HIDE DEF call
  <2>1. CASE /\ call.kind = "init"
             /\ initializeChallengeLength(p, call.mid, call.segment.length)
    <3>1. emit(bisectedEvent')
      BY <1>2, <2>1, Zenon
    <3> QED BY <1>1, <2>1, <3>1, GameMineInit, Zenon DEF call
  <2>2. CASE /\ call.kind = "bisect"
             /\ bisectExecution(p, call.bisection, call.segment, call.prev)
    <3>1. emit(bisectedEvent')
      BY <1>2, <2>2, Zenon
    <3> QED BY <1>1, <2>2, <3>1, GameMineBisect, Zenon DEF call
  <2>3. CASE /\ call.kind = "osp"
             /\ verifyOneStepProof(p, provenNext(p, call), call.index, call.prev)
    <3>1. emit(completedEvent)
      BY <1>2, <2>3, Zenon
    <3> QED BY <1>1, <2>3, <3>1, GameMineProof, Zenon DEF call
  <2> QED BY <1>2, <2>1, <2>2, <2>3, Zenon DEF accepted
<1>3. CASE UNCHANGED <<vars, inbox>>
  <2>1. UNCHANGED <<turn, bisectionHash, currentBisected, lastMoveBlockTime, now, inbox>>
    BY <1>3, Zenon DEF vars
  <2>2. Tail(pool[p]) \in Seq(Calls) /\ Tail(pool[p]) \in Seq(LiveCalls(p))
    BY <1>1, Reading, TakeFirst, Zenon
  <2>3. /\ pool' \in [Players -> Seq(Calls)]
        /\ \A q \in Players : pool'[q] \in Seq(LiveCalls(q))
    BY <1>1, <2>2, Reading, Zenon
  <2> QED BY <1>1, <2>1, <2>3, Reading, GameQuiet, Zenon
<1> QED BY <1>2, <1>3, Zenon DEF mine

(* The dispute begins in the invariant. *)
LEMMA GameInitInv ==
  ASSUME GameInit
  PROVE  GameInv
<1>1. Dispute
  <2>1. Lengths \subseteq Nat /\ 1 .. MaxSteps \subseteq Nat \ {0}
    BY GameConstants, ChallengeConstants
  <2>2. /\ steps \in [Players -> Lengths] /\ firstBad \in 1 .. MaxSteps
        /\ \A p \in Players : firstBad <= steps[p]
    BY Zenon DEF GameInit
  <2> QED BY <2>1, <2>2, Zenon DEF Dispute
<1>2. /\ turn = Defender /\ bisectionHash = NoSegment
      /\ currentBisected = [start |-> ZeroHash, mid |-> ZeroHash, end |-> ZeroHash]
      /\ lastMoveBlockTime = 0 /\ now = 0
      /\ inbox = [p \in Players |-> << >>] /\ pool = [p \in Players |-> << >>]
  BY Zenon DEF GameInit, Init
<1>3. turn \in Players /\ currentBisected \in Claimed
  BY <1>2, Zenon DEF Players, Claimed, Claims
<1>4. bisectionHash \in Offsets /\ lastMoveBlockTime \in Nat /\ now \in Nat
  BY <1>2 DEF Offsets, NoSegment
<1>5. Agreed
  BY <1>2, Zenon DEF Agreed, Committed
<1>6. /\ inbox \in [Players -> Seq(LiveEvents)] /\ pool \in [Players -> Seq(Calls)]
      /\ \A p \in Players : pool[p] \in Seq(LiveCalls(p))
  <2>1. \A S : << >> \in Seq(S)
    OBVIOUS
  <2> QED BY <1>2, <2>1, Zenon
<1> QED BY <1>1, <1>3, <1>4, <1>5, <1>6, Zenon DEF GameInv

(* For traces of any lengths that part at any step, whatever is lost, late, *)
(* handled twice or restarted: the segment in dispute starts with the state *)
(* that both services computed at the offset the contract committed to, and *)
(* stays inside the defender's trace.  The contract checks neither: it is   *)
(* the halving, by which every commitment is to a shorter segment than the  *)
(* ones before, that makes a late answer revert.                            *)
THEOREM GameStartAgreed == GameSpec => [](StartAgreed /\ SegmentInsideTrace)
<1>1. GameInit => GameInv
  BY GameInitInv, Zenon
<1>2. GameInv /\ [GameNext]_gameVars => GameInv'
  BY GameEnter, GameBisected, GameMine, GameRest, Zenon DEF GameNext, Service
<1>3. GameInv => StartAgreed /\ SegmentInsideTrace
  <2> SUFFICES ASSUME GameInv, Committed
               PROVE  /\ \A p \in Players :
                             currentBisected.start = states(p, bisectionHash.start)
                      /\ bisectionHash.start + bisectionHash.length <= steps[Defender]
    BY Zenon DEF StartAgreed, SegmentInsideTrace
  <2>1. Dispute /\ Agreed /\ bisectionHash.start \in Nat
    BY Zenon DEF GameInv, Offsets
  <2> QED BY <2>1, CommonStates, Zenon DEF Agreed
<1> QED BY <1>1, <1>2, <1>3, PTL DEF GameSpec

(* So the offsets RespondBisection indexes its states with exist in the     *)
(* trace the defender announced, through any rounding of odd lengths.       *)
COROLLARY GameInsideTrace == GameSpec => []SegmentInsideTrace
<1> QED BY GameStartAgreed, PTL
=============================================================================
