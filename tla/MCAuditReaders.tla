--------------------------- MODULE MCAuditReaders ---------------------------
(***************************************************************************)
(* The readers of integrity records: the two of audit chains over one      *)
(* HashChain, and the check of evidence packs.  A deployment has the one   *)
(* chain or the other: with RA_USE_DB the trail is in Postgres and the     *)
(* route verifies it (and answers 501 without); without, it is in the ring *)
(* buffer and the tool verifies that.  Receipts have a row or a ring entry *)
(* likewise.  They share wired and nothing else, so a behaviour exercises  *)
(* one of them.                                                            *)
(*                                                                         *)
(* Of receipts there are two tasks, an officer and an admin whose home is  *)
(* another council, two references of one tenant, and two generations; a   *)
(* check without the database sees the newest entry of the tenant only.    *)
(***************************************************************************)
EXTENDS AuditVerify, InMemoryAudit, PdfReceipts, TLC

CONSTANTS t1, t2, officer, admin, TPS, PH, pack, notice, content, forged

MCHomeOf == officer :> TPS @@ admin :> PH
MCTenantOf == pack :> TPS @@ notice :> TPS

VARIABLE reader     \* "trail", of audit rows, or "receipts"

Init ==
    /\ reader \in {"trail", "receipts"}
    /\ RouteInit
    /\ MemoryInit
    /\ ReceiptsInit

Next ==
    /\ \/ /\ reader = "trail" /\ wired /\ RouteNext
          /\ UNCHANGED <<memoryVars, receiptsVars>>
       \/ /\ reader = "trail" /\ ~wired /\ MemoryNext
          /\ UNCHANGED <<routeVars, receiptsVars>>
       \/ /\ reader = "receipts" /\ ReceiptsNext
          /\ UNCHANGED <<routeVars, memoryVars>>
    /\ UNCHANGED reader

Spec == Init /\ [][Next]_<<reader, routeVars, memoryVars, receiptsVars>>
=============================================================================
