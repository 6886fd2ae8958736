----------------------------- MODULE Whitelist -----------------------------
(***************************************************************************)
(* fraud-proof/WhiteList.sol: a whitelist kept as an array of addresses    *)
(* and a map from each address to its place in the array.  Removing an     *)
(* address moves the last one into its place.  The staker and the operator *)
(* list are two copies of the same code; this is one of them.              *)
(***************************************************************************)
EXTENDS Integers, Sequences, Functions, Loops

CONSTANTS Addresses,
          OwnerChecks,      \* the owner adds only addresses that are not on
                            \* the list, removes only those that are, and
                            \* names none twice
          MaxBatch,         \* bound on the addresses of one call
          MaxLength         \* bound on the list

ASSUME WhitelistConstants == OwnerChecks \in BOOLEAN /\ MaxBatch \in Nat

VARIABLES stakerslist,      \* the array; its place i is element i + 1
          stakerWhitelist,  \* the map; 0 where it was never set
          ownerCall         \* the last call: [op, named]

whitelistVars == <<stakerslist, stakerWhitelist, ownerCall>>

\* The test of the modifier stakerWhitelistOnly; an index past the end of
\* the array makes it revert.
listedIn(list, index, a) ==
    /\ index[a] < Len(list)
    /\ list[index[a] + 1] = a

members == {a \in Addresses : listedIn(stakerslist, stakerWhitelist, a)}

WhitelistInit ==
    /\ stakerslist = <<>>
    /\ stakerWhitelist = [a \in Addresses |-> 0]
    /\ ownerCall = [op |-> "none", named |-> {}]

Batches == UNION {[1 .. n -> Addresses] : n \in 1 .. MaxBatch}

\* One round of the loop of addToStakerWhitelist.
pushOne(list, index, a) ==
    [list |-> Append(list, a), index |-> [index EXCEPT ![a] = Len(list)]]

\* One round of the loop of removeFromStakerWhitelist.  The round reverts
\* when the array is empty, or shorter than the index found.
mayRemoveOne(list, index, a) == list # <<>> /\ index[a] < Len(list)

\* Slip: the map still points where the moved address was.
removeOne_KeepIndex(list, index, a) ==
    LET last == list[Len(list)]
        swapped == [list EXCEPT ![index[a] + 1] = last]
    IN [list |-> SubSeq(swapped, 1, Len(list) - 1), index |-> [index EXCEPT ![a] = 0]]

removeOne(list, index, a) ==
    LET last == list[Len(list)]
        swapped == [list EXCEPT ![index[a] + 1] = last]
        moved == [index EXCEPT ![last] = index[a]]
    IN [list |-> SubSeq(swapped, 1, Len(list) - 1), index |-> [moved EXCEPT ![a] = 0]]

\* In a loop: a round that reverts takes the whole call with it.
removeRound(st, a) ==
    IF st.ok /\ mayRemoveOne(st.list, st.index, a)
    THEN LET r == removeOne(st.list, st.index, a)
         IN [list |-> r.list, index |-> r.index, ok |-> TRUE]
    ELSE [st EXCEPT !.ok = FALSE]

\* The two loops.
pushAll(st, batch) == FoldLeft(LAMBDA s, a : pushOne(s.list, s.index, a), st, batch)
removeAll(st, batch) == FoldLeft(removeRound, st, batch)

addToStakerWhitelist(batch) ==
    /\ Len(stakerslist) + Len(batch) <= MaxLength
    /\ OwnerChecks => /\ Range(batch) \cap members = {}
                      /\ IsInjective(batch)
    /\ LET after == pushAll([list |-> stakerslist, index |-> stakerWhitelist], batch)
       IN /\ stakerslist' = after.list
          /\ stakerWhitelist' = after.index
    /\ ownerCall' = [op |-> "add", named |-> Range(batch)]

removeFromStakerWhitelist(batch) ==
    /\ OwnerChecks => /\ Range(batch) \subseteq members
                      /\ IsInjective(batch)
    /\ LET after == removeAll([list |-> stakerslist, index |-> stakerWhitelist,
                               ok |-> TRUE], batch)
       IN /\ after.ok
          /\ stakerslist' = after.list
          /\ stakerWhitelist' = after.index
    /\ ownerCall' = [op |-> "remove", named |-> Range(batch)]

WhitelistNext ==
    \E batch \in Batches :
        addToStakerWhitelist(batch) \/ removeFromStakerWhitelist(batch)

WhitelistSpec == WhitelistInit /\ [][WhitelistNext]_whitelistVars

-----------------------------------------------------------------------------
(* The array and the map are inverse to each other: every address of the    *)
(* array is found through the map, so none is listed twice and swapping the *)
(* last one into a hole loses nobody.                                       *)
matches(list, index) == \A i \in 1 .. Len(list) : index[list[i]] = i - 1

(* The array with the map is a set: each call adds or removes exactly the   *)
(* addresses it names.                                                      *)
Abstract == INSTANCE AbstractWhitelist
IsASet == Abstract!Spec
=============================================================================
