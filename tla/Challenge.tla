----------------------------- MODULE Challenge -----------------------------
(***************************************************************************)
(* fraud-proof/challenge/Challenge.sol: one interactive dispute between    *)
(* the defender of an assertion and its challenger.  The defender          *)
(* announces the number of steps, the two bisect in turns, and a one-step  *)
(* proof or a timeout names a winner, which the defender then reports to   *)
(* the rollup contract.                                                    *)
(*                                                                         *)
(* The specification starts after `initialize', which Rollup.sol calls in  *)
(* the transaction that creates the contract; time is counted from there.  *)
(* A call that reverts changes nothing and is not a step.                  *)
(***************************************************************************)
EXTENDS Integers

CONSTANTS
    Defender, Challenger,           \* the two players
    NoOne,                          \* address(0)
    Hashes,                         \* state hashes
    ZeroHash,                       \* bytes32(0)
    StartStateHash, EndStateHash,   \* of the assertion in dispute
    TimeLimit,                      \* what each player has to think: 150 s
    MaxStart, MaxSteps,             \* bounds on segment starts and lengths
    MaxTime                         \* bound on the clock

ASSUME ChallengeConstants ==
    /\ Defender # Challenger
    /\ NoOne \notin {Defender, Challenger}
    /\ ZeroHash \notin Hashes
    /\ {StartStateHash, EndStateHash} \subseteq Hashes
    /\ TimeLimit \in Nat
    /\ MaxStart \in Nat
    /\ MaxSteps \in Nat \ {0}
    /\ MaxTime \in Nat

VARIABLES
    turn,               \* whose move it is
    bisectionHash,      \* commitment to the segment: [start, length], or NoSegment
    prevBisection,      \* the three hashes of the last bisection
    currentBisected,    \* the last Bisected event, kept for players that restart
    lastMoveBlockTime,
    timeLeft,           \* defenderTimeLeft and challengerTimeLeft
    winner,
    rollback,
    result,             \* the outcome the rollup contract has accepted
    now                 \* block.timestamp

vars == <<turn, bisectionHash, prevBisection, currentBisected,
          lastMoveBlockTime, timeLeft, winner, rollback, result, now>>

Players == {Defender, Challenger}
Bisection == [start : Hashes \cup {ZeroHash}, mid : Hashes \cup {ZeroHash},
              end : Hashes \cup {ZeroHash}]
Segment == [start : 0 .. MaxStart, length : 1 .. MaxSteps]
NoSegment == [start |-> 0, length |-> 0]
NoResult == [winner |-> NoOne, loser |-> NoOne]

other(p) == IF p = Defender THEN Challenger ELSE Defender

-----------------------------------------------------------------------------
\* The state that `initialize' leaves.
Init ==
    /\ turn = Defender
    /\ bisectionHash = NoSegment
    /\ prevBisection = [start |-> StartStateHash, mid |-> ZeroHash,
                        end |-> EndStateHash]
    /\ currentBisected = [start |-> ZeroHash, mid |-> ZeroHash, end |-> ZeroHash]
    /\ lastMoveBlockTime = 0
    /\ timeLeft = [p \in Players |-> TimeLimit]
    /\ winner = NoOne
    /\ rollback = FALSE
    /\ result = NoResult
    /\ now = 0

\* The player to move has used up its time.
Expired == now - lastMoveBlockTime > timeLeft[turn]

\* Modifier onlyOnTurn, before the body of the function ...
\* Slip: the deadline is not enforced.
onlyOnTurn_NoDeadline(sender) == sender = turn

onlyOnTurn(sender) ==
    /\ sender = turn
    /\ ~Expired

\* ... and after it: the mover is charged for its time.
\* Slip: the challenger's time is not charged.
passTurn_Free ==
    /\ timeLeft' = [timeLeft EXCEPT ![Defender] =
                        IF turn = Defender THEN @ - (now - lastMoveBlockTime) ELSE @]
    /\ turn' = other(turn)
    /\ lastMoveBlockTime' = now

passTurn ==
    /\ timeLeft' = [timeLeft EXCEPT ![turn] = @ - (now - lastMoveBlockTime)]
    /\ turn' = other(turn)
    /\ lastMoveBlockTime' = now

initializeChallengeLength(sender, checkStateHash, numSteps) ==
    /\ onlyOnTurn(sender)
    /\ bisectionHash = NoSegment
    /\ numSteps > 0
    /\ bisectionHash' = [start |-> 0, length |-> numSteps]
    /\ currentBisected' = [start |-> StartStateHash, mid |-> checkStateHash,
                           end |-> EndStateHash]
    /\ passTurn
    /\ UNCHANGED <<prevBisection, winner, rollback, result, now>>

\* The caller must name the segment committed to.  An uninitialised
\* commitment is 0, which is the hash of no segment.
matchesCommitment(prev) ==
    /\ prev.length > 0
    /\ prev = bisectionHash

bisectExecution(sender, bisection, segment, prev) ==
    /\ onlyOnTurn(sender)
    /\ bisectionHash # NoSegment
    /\ matchesCommitment(prev)
    /\ prevBisection.mid # ZeroHash =>
           bisection.start \in {prevBisection.start, prevBisection.mid}
    /\ bisection.end # prevBisection.end
    /\ segment.length > 0
    /\ prevBisection' = bisection
    /\ bisectionHash' = segment
    /\ currentBisected' = bisection
    /\ passTurn
    /\ UNCHANGED <<winner, rollback, result, now>>

\* The hash prevBisection[index]; index 0 makes `index - 1' underflow, and
\* an index above 2 is out of bounds: both revert.
bisectionAt(index) ==
    CASE index = 0 -> prevBisection.start
      [] index = 1 -> prevBisection.mid
      [] index = 2 -> prevBisection.end

\* nextStateHash is what the verifier returns for prevBisection[index - 1];
\* when the verifier reverts there is no step.
verifyOneStepProof(sender, nextStateHash, index, prev) ==
    /\ onlyOnTurn(sender)
    /\ matchesCommitment(prev)
    /\ prev.length \div 2 <= 1
    /\ index \in 1 .. 2
    /\ winner' = IF nextStateHash = bisectionAt(index) THEN turn ELSE other(turn)
    /\ passTurn
    /\ UNCHANGED <<bisectionHash, prevBisection, currentBisected, rollback,
                   result, now>>

setRollback ==
    /\ ~rollback
    /\ rollback' = TRUE
    /\ UNCHANGED <<turn, bisectionHash, prevBisection, currentBisected,
                   lastMoveBlockTime, timeLeft, winner, result, now>>

\* Slip: like a move, a timeout is only taken after initialisation.
mayTimeout_Initialized == Expired /\ bisectionHash # NoSegment

mayTimeout == Expired

\* Anyone may call it, any number of times.
timeout ==
    /\ mayTimeout
    /\ winner' = other(turn)
    /\ UNCHANGED <<turn, bisectionHash, prevBisection, currentBisected,
                   lastMoveBlockTime, timeLeft, rollback, result, now>>

\* The defender's verdict.  If it does not concede a challenger's win it
\* reports itself as the winner.  The receiver frees both players when it
\* accepts an outcome, and accepts no second one.  The receiver is given at
\* creation and is external here; completeChallenge of the present Rollup.sol
\* is operatorOnly and would revert for a challenge contract.
completeChallenge(sender, concede) ==
    /\ sender = Defender
    /\ winner # NoOne
    /\ result = NoResult
    /\ LET w == IF winner = Challenger /\ concede THEN Challenger ELSE Defender
       IN  /\ winner' = w
           /\ result' = [winner |-> w, loser |-> other(w)]
    /\ UNCHANGED <<turn, bisectionHash, prevBisection, currentBisected,
                   lastMoveBlockTime, timeLeft, rollback, now>>

\* Time passes between blocks.
Tick ==
    /\ now < MaxTime
    /\ now' = now + 1
    /\ UNCHANGED <<turn, bisectionHash, prevBisection, currentBisected,
                   lastMoveBlockTime, timeLeft, winner, rollback, result>>

Move(p) ==
    \/ \E h \in Hashes, n \in 1 .. MaxSteps : initializeChallengeLength(p, h, n)
    \/ \E b \in [start : Hashes, mid : Hashes, end : Hashes],
          s \in Segment, prev \in Segment : bisectExecution(p, b, s, prev)
    \/ \E h \in Hashes, i \in 0 .. 3, prev \in Segment : verifyOneStepProof(p, h, i, prev)

Next ==
    \/ \E p \in Players : Move(p)
    \/ setRollback
    \/ timeout
    \/ \E p \in Players, concede \in BOOLEAN : completeChallenge(p, concede)
    \/ Tick

\* Blocks keep coming, and both services call timeout() on every new header
\* once the opponent's time is over.
Spec == Init /\ [][Next]_vars /\ WF_vars(Tick) /\ WF_vars(timeout)

-----------------------------------------------------------------------------
(* The clocks never underflow and the turn and the winner are one of the    *)
(* two players, as the unsigned integers of Challenge.sol require.          *)
TypeOK ==
    /\ turn \in Players
    /\ bisectionHash \in Segment \cup {NoSegment}
    /\ prevBisection \in Bisection
    /\ currentBisected \in Bisection
    /\ lastMoveBlockTime \in Nat
    /\ timeLeft \in [Players -> Nat]
    /\ winner \in Players \cup {NoOne}
    /\ rollback \in BOOLEAN
    /\ result \in [winner : Players \cup {NoOne}, loser : Players \cup {NoOne}]
    /\ now \in Nat

(* The two clocks together hold exactly the time that has not been played:  *)
(* every second between two moves is charged to one player, once.           *)
ClocksAddUp ==
    timeLeft[Defender] + timeLeft[Challenger] + lastMoveBlockTime = 2 * TimeLimit

(* A dispute cannot be dragged out: once both allowances have gone by since *)
(* it was created, the player to move is out of time, whoever it is and     *)
(* however the moves were spaced.                                           *)
OverAfterBothAllowances == now > 2 * TimeLimit => Expired

(* Before the number of steps is known only a timeout can name a winner:    *)
(* verifyOneStepProof has no postInitialization guard, and relies on the    *)
(* zero commitment matching no segment.                                     *)
OnlyTimeoutBeforeLength ==
    bisectionHash = NoSegment /\ winner # NoOne => Expired

(* Running out of time is final: the turn does not pass and the bisection   *)
(* does not change any more, and a winner named from then on is the         *)
(* opponent, or the defender reporting itself in completeChallenge.         *)
ExpiryIsFinal ==
    [][Expired =>
        /\ Expired'
        /\ UNCHANGED <<turn, bisectionHash, prevBisection, timeLeft>>
        /\ winner' # winner => winner' = other(turn) \/ result' # result]_vars

(* Every dispute ends: a winner is named eventually, even if neither player *)
(* makes another move.                                                      *)
EventuallyWinner == <>(winner # NoOne)
=============================================================================
