------------------------- MODULE AbstractWhitelist -------------------------
(***************************************************************************)
(* What the two whitelists of the rollup contract promise: a set of        *)
(* addresses to which the owner adds, and from which it removes, exactly   *)
(* the addresses named in the call.                                        *)
(***************************************************************************)
CONSTANT Addresses

VARIABLES members,      \* the addresses the modifier lets through
          ownerCall     \* the last call: [op, named]

Init ==
    /\ members = {}
    /\ ownerCall = [op |-> "none", named |-> {}]

Add ==
    /\ ownerCall'.op = "add"
    /\ members' = members \cup ownerCall'.named

Remove ==
    /\ ownerCall'.op = "remove"
    /\ members' = members \ ownerCall'.named

Next == Add \/ Remove

Spec == Init /\ [][Next]_<<members, ownerCall>>
=============================================================================
