----------------------------- MODULE AuditHash -----------------------------
(***************************************************************************)
(* The hash values of the audit chain (packages/audit-core/src/index.ts).  *)
(*                                                                         *)
(* SHA-256 is abstracted to what the chain relies on: a hash determines    *)
(* its input, and the three families of values - a tenant's genesis seed,  *)
(* the hash of a row over its predecessor, and the plain text stamped on   *)
(* rows that pre-date the chain - never collide.  A hash is therefore the  *)
(* record of what was hashed, so that two hashes are equal exactly when    *)
(* their inputs are, and recomputing one really compares the inputs.       *)
(***************************************************************************)

\* Stamped as prev_hash on legacy rows; plain text, never 64 hex digits.
PRE_CHAIN_SENTINEL == [kind |-> "sentinel"]

\* Stamped as row_hash on the legacy row id: the sentinel followed by its UUID.
LegacyRowHash(id) == [kind |-> "legacy", id |-> id]

\* Seed of a tenant's chain: the prev_hash of its first row.
GenesisHash(tenantId) == [kind |-> "genesis", tenantId |-> tenantId]

\* Hash of a row body over the hash of the row it extends.
ComputeRowHash(prevHash, body) ==
    [kind |-> "row", prevHash |-> prevHash, body |-> body]

=============================================================================
