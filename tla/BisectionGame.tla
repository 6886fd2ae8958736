--------------------------- MODULE BisectionGame ---------------------------
(***************************************************************************)
(* A dispute played by the two fraud-proof services: the sequencer         *)
(* (defender) and the validator (challenger) each hold the states they     *)
(* generated for the disputed blocks, listen to the events of Challenge.sol*)
(* and answer with RespondBisection (fraud-proof/rollup/services).         *)
(*                                                                         *)
(* The vars, its constants and its variables are those of the module   *)
(* Challenge.  Around it are the services' event channels, their           *)
(* transactions waiting to be mined, crashes and restarts.  The two traces *)
(* agree before step firstBad and differ from there on; `honest' holds the *)
(* one the EVM really produces.                                            *)
(***************************************************************************)
EXTENDS Challenge, Sequences

CONSTANTS Lengths,      \* the lengths of traces considered
          MaxEvents,    \* bound on the events waiting in a channel
          MaxCrashes    \* bound on the restarts of the services

\* A state hash is the step and the player that alone believes in it, or NoOne
\* when both traces have it.  The last state of a trace is numbered MaxSteps.
ASSUME GameConstants ==
    /\ Lengths \subseteq 1 .. MaxSteps
    /\ Hashes = (0 .. MaxSteps) \X (Players \cup {NoOne})
    /\ StartStateHash = <<0, NoOne>>
    /\ EndStateHash = <<MaxSteps, Defender>>

VARIABLES steps, firstBad, honest,  \* the disputed execution; never change
          listening,    \* the service is subscribed: inChallenge of challengeLoop
          done,         \* the service saw the dispute completed
          inbox,        \* bisectedCh and challengeCompletedCh, oldest first
          deadline,     \* opponentTimeout; 0 when not set
          pool,         \* transactions sent and not mined, in nonce order
          crashes       \* restarts so far

dispute == <<steps, firstBad, honest>>
services == <<listening, done, inbox, deadline, pool, crashes>>
gameVars == <<vars, dispute, services>>

\* What GenerateStates computed at p's node: states[0 .. steps[p]].
states(p, i) ==
    <<IF i = steps[p] THEN MaxSteps ELSE i, IF i < firstBad THEN NoOne ELSE p>>

-----------------------------------------------------------------------------
\* RespondBisection and its helpers.

MidLen(segLen) == segLen \div 2
MidLenWithMod(segLen) == (segLen \div 2) + (segLen % 2)
MidState(p, segStart, segLen) == states(p, segStart + MidLenWithMod(segLen))

NoCall == [kind |-> "none"]
Seg(start, length) == [start |-> start, length |-> length]

\* Slips: the second half starts before the middle; its length is rounded up.
nextSegment_Early(agreeOnMid, seg) ==
    Seg(IF agreeOnMid THEN seg.start + MidLen(seg.length) ELSE seg.start,
        MidLen(seg.length))
nextSegment_Ceil(agreeOnMid, seg) ==
    Seg(IF agreeOnMid THEN seg.start + MidLenWithMod(seg.length) ELSE seg.start,
        IF agreeOnMid THEN MidLenWithMod(seg.length) ELSE MidLen(seg.length))

\* The half to go on with: the first when the middles differ.
nextSegment(agreeOnMid, seg) ==
    Seg(IF agreeOnMid THEN seg.start + MidLenWithMod(seg.length) ELSE seg.start,
        MidLen(seg.length))

bisectCall(p, ev) ==
    LET seg == ev.segment
        mid == MidState(p, seg.start, seg.length)
        agree == mid = ev.mid
        new == nextSegment(agree, seg)
    IN [kind |-> "bisect", segment |-> new, prev |-> seg,
        bisection |->
            [start |-> IF agree THEN mid ELSE states(p, seg.start),
             mid   |-> MidState(p, new.start, new.length),
             end   |-> IF agree THEN states(p, seg.start + seg.length) ELSE mid]]

\* The step to prove: the first of start, middle and end that differs.
oneStepCall(p, ev) ==
    LET seg == ev.segment
        at == <<seg.start, seg.start + MidLenWithMod(seg.length),
                seg.start + seg.length>>
        theirs == <<ev.start, ev.mid, ev.end>>
        differ == {i \in 1 .. 3 : states(p, at[i]) # theirs[i]}
        first == CHOOSE i \in differ : \A j \in differ : i <= j
    IN IF differ = {} THEN NoCall
       ELSE [kind |-> "osp", index |-> first - 1, step |-> at[first], prev |-> seg]

RespondBisection(p, ev) ==
    IF ev.segment.start + ev.segment.length > steps[p] \/ ev.segment.length = 0
    THEN NoCall
    ELSE IF ev.segment.length >= 3 THEN bisectCall(p, ev) ELSE oneStepCall(p, ev)

-----------------------------------------------------------------------------
\* External: the sub-verifiers execute one EVM step from the state proved,
\* which must hash to the claimed one; GenerateProof has no step to prove
\* after the last state.
proofMatches(p, call) ==
    /\ call.step < steps[p]
    /\ call.index \in 1 .. 2
    /\ states(p, call.step) = bisectionAt(call.index - 1)
provenNext(p, call) ==
    states(IF call.step < firstBad THEN honest ELSE p, call.step + 1)

\* One transaction of p, as the contract would execute it.
accepted(p, call) ==
    \/ /\ call.kind = "init"
       /\ initializeChallengeLength(p, call.mid, call.segment.length)
    \/ /\ call.kind = "bisect"
       /\ bisectExecution(p, call.bisection, call.segment, call.prev)
    \/ /\ call.kind = "osp"
       /\ proofMatches(p, call)
       /\ verifyOneStepProof(p, provenNext(p, call), call.index, call.prev)

\* A require or a sub-verifier fails.
reverts(p, call) == ~ENABLED accepted(p, call)

\* The events of the step, as the watchers receive them.
bisectedEvent ==
    [kind |-> "bisected", segment |-> bisectionHash, time |-> lastMoveBlockTime,
     start |-> currentBisected.start, mid |-> currentBisected.mid,
     end |-> currentBisected.end]
completedEvent == [kind |-> "completed"]

emit(ev) ==
    inbox' = [p \in Players |-> IF listening[p] THEN Append(inbox[p], ev) ELSE inbox[p]]
roomForEvents == \A p \in Players : Len(inbox[p]) < MaxEvents

-----------------------------------------------------------------------------
GameInit ==
    /\ Init
    /\ steps \in [Players -> Lengths]
    /\ firstBad \in 1 .. MaxSteps
    /\ \A p \in Players : firstBad <= steps[p]
    /\ honest \in Players
    /\ listening = [p \in Players |-> FALSE]
    /\ done = [p \in Players |-> FALSE]
    /\ inbox = [p \in Players |-> <<>>]
    /\ deadline = [p \in Players |-> 0]
    /\ pool = [p \in Players |-> <<>>]
    /\ crashes = [p \in Players |-> 0]

\* challengeLoop, not yet in the dispute: subscribe, generate the states, and
\* (defender) announce their number, or (after a restart, and the defender
\* whenever the length is already known) take the current bisection from the
\* contract instead of from the event log.
catchUp(p) == IF p = Defender THEN bisectionHash # NoSegment ELSE crashes[p] > 0

enterChallenge(p) ==
    /\ ~listening[p] /\ ~done[p]
    /\ result = NoResult
    /\ listening' = [listening EXCEPT ![p] = TRUE]
    /\ inbox' = IF catchUp(p) THEN [inbox EXCEPT ![p] = <<bisectedEvent>>] ELSE inbox
    /\ pool' = IF p = Defender /\ bisectionHash = NoSegment
               THEN [pool EXCEPT ![p] = Append(@,
                        [kind |-> "init", mid |-> MidState(p, 0, steps[p]),
                         segment |-> Seg(0, steps[p])])]
               ELSE pool
    /\ UNCHANGED <<vars, dispute, done, deadline, crashes>>

\* `case ev := <-bisectedCh'.  Whose turn it is is asked of the contract now,
\* not taken from the event.  Sending may fail; nothing is retried.
\* Slip: the opponent's deadline is not noted.
noteDeadline_Never(p, ev) == deadline

\* The sequencer adds the seconds left to the time of the event, the validator
\* to its block number; number and time of a block are one clock here.
noteDeadline(p, ev) == [deadline EXCEPT ![p] = ev.time + timeLeft[turn]]

onBisected(p) ==
    /\ listening[p] /\ inbox[p] # <<>>
    /\ LET ev == Head(inbox[p])
           call == RespondBisection(p, ev)
       IN /\ ev.kind = "bisected"
          /\ IF turn = p
             THEN /\ deadline' = deadline
                  /\ pool' \in {pool} \cup
                        (IF call.kind = "none" THEN {}
                         ELSE {[pool EXCEPT ![p] = Append(@, call)]})
             ELSE /\ deadline' = noteDeadline(p, ev)
                  /\ pool' = pool
    /\ inbox' = [inbox EXCEPT ![p] = Tail(@)]
    /\ UNCHANGED <<vars, dispute, listening, done, crashes>>

\* `case ev := <-challengeCompletedCh': the validator leaves; the sequencer
\* reports the outcome, and stays if that call fails.
onCompleted(p) ==
    /\ listening[p] /\ inbox[p] # <<>>
    /\ Head(inbox[p]).kind = "completed"
    /\ \/ /\ p = Challenger
          /\ done' = [done EXCEPT ![p] = TRUE]
          /\ listening' = [listening EXCEPT ![p] = FALSE]
          /\ UNCHANGED vars
       \/ /\ p = Defender
          /\ \E concede \in BOOLEAN : completeChallenge(p, concede)
          /\ done' = [done EXCEPT ![p] = TRUE]
          /\ listening' = [listening EXCEPT ![p] = FALSE]
       \/ /\ p = Defender
          /\ UNCHANGED <<vars, done, listening>>
    /\ inbox' = [inbox EXCEPT ![p] = Tail(@)]
    /\ UNCHANGED <<dispute, deadline, pool, crashes>>

\* `case header := <-headCh'.
callTimeout(p) ==
    /\ listening[p]
    /\ deadline[p] # 0
    /\ now > deadline[p]
    /\ roomForEvents
    /\ timeout
    /\ emit(completedEvent)
    /\ UNCHANGED <<dispute, listening, done, deadline, pool, crashes>>

\* The oldest transaction of p is mined: it takes effect or reverts.
mine(p) ==
    /\ pool[p] # <<>>
    /\ roomForEvents
    /\ LET call == Head(pool[p])
       IN \/ /\ accepted(p, call)
             /\ IF call.kind = "osp" THEN emit(completedEvent) ELSE emit(bisectedEvent')
          \/ /\ reverts(p, call)
             /\ UNCHANGED <<vars, inbox>>
    /\ pool' = [pool EXCEPT ![p] = Tail(@)]
    /\ UNCHANGED <<dispute, listening, done, deadline, crashes>>

restart(p) ==
    /\ crashes[Defender] + crashes[Challenger] < MaxCrashes
    /\ ~done[p]
    /\ crashes' = [crashes EXCEPT ![p] = @ + 1]
    /\ listening' = [listening EXCEPT ![p] = FALSE]
    /\ inbox' = [inbox EXCEPT ![p] = <<>>]
    /\ deadline' = [deadline EXCEPT ![p] = 0]
    /\ UNCHANGED <<vars, dispute, done, pool>>

GameTick ==
    /\ Tick
    /\ UNCHANGED <<dispute, services>>

Service(p) ==
    \/ enterChallenge(p)
    \/ onBisected(p)
    \/ onCompleted(p)
    \/ mine(p)

GameNext ==
    \/ \E p \in Players : Service(p) \/ callTimeout(p) \/ restart(p)
    \/ GameTick

\* The loops of the services run, L1 mines what is sent, and time passes.
GameSpec ==
    /\ GameInit /\ [][GameNext]_gameVars
    /\ \A p \in Players : WF_gameVars(Service(p) \/ callTimeout(p))
    /\ WF_gameVars(GameTick)

-----------------------------------------------------------------------------
Committed == bisectionHash # NoSegment

(* What RespondBisection relies on and IChallenge.sol promises: the first   *)
(* state of the segment in dispute is agreed upon, and it is the state at   *)
(* the offset committed to, although events are handled late, twice after   *)
(* a restart, or by a service whose turn has come again in the meantime.    *)
StartAgreed ==
    Committed => \A p \in Players : currentBisected.start = states(p, bisectionHash.start)

(* The segment stays inside the execution the defender announced.           *)
SegmentInsideTrace ==
    Committed => bisectionHash.start + bisectionHash.length <= steps[Defender]

(* Once the defender has announced the length, the dispute is decided:      *)
(* whatever is lost, late or restarted, somebody proves a step or times the *)
(* other out.                                                               *)
Decided == Committed ~> winner # NoOne

(* The comment in bisectExecution asks for a disagreed upon end state.  The *)
(* first half of an odd segment ends one step before the middle state it is *)
(* submitted with, and both players may agree there.                        *)
EndDisputed ==
    Committed =>
        LET end == bisectionHash.start + bisectionHash.length
        IN end <= steps[Challenger] => states(Defender, end) # states(Challenger, end)
=============================================================================
