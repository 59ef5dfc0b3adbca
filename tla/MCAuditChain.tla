---------------------------- MODULE MCAuditChain ----------------------------
(***************************************************************************)
(* Two mutations of one owner and an event compete for the chain of tenant *)
(* t1; a fourth call mutates a property of tenant t2.  The advisory keys   *)
(* of the tenants collide (MCCollidingKeys).  Tenant t1 starts with a      *)
(* legacy row.                                                             *)
(***************************************************************************)
EXTENDS AuditChain, TLC

CONSTANTS c1, c2, c3, c4, t1, t2, owner, property, k1, l1

MCTenantOf == (owner :> t1) @@ (property :> t2)
MCOp == (c1 :> "withAudit") @@ (c2 :> "withAudit")
          @@ (c3 :> "recordAuditEvent") @@ (c4 :> "withAudit")
MCTarget == (c1 :> owner) @@ (c2 :> owner) @@ (c3 :> owner) @@ (c4 :> property)
MCCollidingKeys == (t1 :> k1) @@ (t2 :> k1)
MCLegacy == (t1 :> {l1}) @@ (t2 :> {})

=============================================================================
