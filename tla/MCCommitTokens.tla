--------------------------- MODULE MCCommitTokens ---------------------------
(* Three tokens, two operations of one mutation each, and three principals: *)
(* two actors of one council and one of another.                           *)
EXTENDS CommitTokens, TLC

CONSTANTS t1, t2, t3, tomPrice, portHedland, alice, bob, contact, note

TwoOperations == {"update_owner_contact", "add_property_note"}
TwoMutations ==
    {[operation |-> "update_owner_contact", payload |-> contact],
     [operation |-> "add_property_note", payload |-> note]}
ThreePrincipals ==
    {[tenantId |-> tomPrice, actorId |-> alice],
     [tenantId |-> tomPrice, actorId |-> bob],
     [tenantId |-> portHedland, actorId |-> alice]}
TokenSymmetry == Permutations({t1, t2, t3})
=============================================================================
