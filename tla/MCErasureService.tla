------------------------- MODULE MCErasureService -------------------------
(* Two platform administrators, one of them a retry of the other, an officer
   of one council, a request under a legal hold and one import.  The subject is
   known to one council or to two, in the bundled data also to a third that is
   no tenant of the database. *)
EXTENDS ErasureService, TLC

CONSTANTS r1, r2, r3, r4, TomPrice, Ashburton, Newman

Alphabetical(S) == IF Ashburton \in S THEN Ashburton ELSE IF Newman \in S THEN Newman ELSE TomPrice

Bundled(councils) == [bundled |-> councils, rows |-> councils \cap Tenants]
SharedOrNot == {Bundled({TomPrice}), Bundled({Ashburton, TomPrice}),
                Bundled({Newman, TomPrice})}

Platform == [role |-> "platform_admin", tenantId |-> TomPrice, legalHold |-> FALSE]
Council == [role |-> "council_admin", tenantId |-> TomPrice, legalHold |-> FALSE]

ASSUME BundledAsSeeded == SeedsAgree

MCSession == (r1 :> Platform) @@ (r2 :> Platform) @@ (r3 :> Council)
               @@ (r4 :> [Platform EXCEPT !.legalHold = TRUE])
=============================================================================
