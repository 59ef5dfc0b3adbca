---------------------------- MODULE AuditLedger ----------------------------
(***************************************************************************)
(* What the audited write path promises (packages/db/src/audit.ts, lines   *)
(* 1-33): each call takes effect at one instant, at most once, and in that *)
(* instant its mutation and its audit row appear together, the row linked  *)
(* to the very last row of the tenant's ledger.  A call that fails leaves  *)
(* neither.  Nothing is ever removed or rewritten.                         *)
(*                                                                         *)
(* This module has no transactions, locks or queries; AuditChain shows     *)
(* that the code's interleaved transactions implement it.                  *)
(***************************************************************************)
EXTENDS AuditHash, Naturals, Sequences

CONSTANTS
    Calls,      \* the invocations of withAudit and recordAuditEvent
    Tenants,
    Targets,    \* the audited business rows (owner, property, ...)
    TenantOf,   \* the tenant each target belongs to
    Op,         \* what each call invokes: "withAudit" or "recordAuditEvent"
    Target,     \* the target each call names
    None        \* no call: the value a target was seeded with

VARIABLES
    data,       \* the committed value of each target: the call that wrote it
    ledger      \* per tenant, its audit rows, oldest first

ledgerVars == <<data, ledger>>

\* The hash the next row of tenant t has to extend.
Tip(t) == IF ledger[t] = << >> THEN GenesisHash(t)
          ELSE ledger[t][Len(ledger[t])].rowHash

Recorded(c) == \E t \in Tenants : \E i \in 1 .. Len(ledger[t]) :
                  ledger[t][i].body.id = c

LedgerInit == /\ data = [x \in Targets |-> None]
              /\ ledger = [t \in Tenants |-> << >>]

\* The one step of a call: apply the mutation (an event has none) and append
\* its row.  The before snapshot is left open: the code does not pin it.
Record(c) ==
    LET x == Target[c]
        t == TenantOf[x]
        after == IF Op[c] = "withAudit" THEN c ELSE None
    IN  /\ ~Recorded(c)
        /\ \E before \in Calls \cup {None} :
             LET body == [id |-> c, tenantId |-> t, target |-> x,
                          before |-> before, after |-> after]
             IN  ledger' = [ledger EXCEPT ![t] = Append(@,
                              [body |-> body, prevHash |-> Tip(t),
                               rowHash |-> ComputeRowHash(Tip(t), body)])]
        /\ data' = IF Op[c] = "withAudit" THEN [data EXCEPT ![x] = c] ELSE data

LedgerNext == \E c \in Calls : Record(c)

LedgerSpec == LedgerInit /\ [][LedgerNext]_ledgerVars

=============================================================================
