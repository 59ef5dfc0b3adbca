----------------------------- MODULE AuditChain -----------------------------
(***************************************************************************)
(* The audited write path over Postgres (packages/db/src/audit.ts and      *)
(* withTenant in packages/db/src/client.ts): concurrent transactions that  *)
(* mutate a business row and extend the tenant's hash chain by one row.    *)
(*                                                                         *)
(* Postgres runs at READ COMMITTED: every statement sees what is committed *)
(* when it starts plus the writes of its own transaction; an UPDATE takes  *)
(* a row lock held to the end of the transaction; the advisory lock of     *)
(* lockTenantChain is released by COMMIT or ROLLBACK.  Each action below   *)
(* is one statement of one transaction.                                    *)
(*                                                                         *)
(* Data is abstracted: the value a call writes is named by the call, the   *)
(* row id (a fresh UUID) too, and the attribution fields and timestamp of  *)
(* a row are left out (no statement of the writer reads them).             *)
(***************************************************************************)
EXTENDS AuditHash, Naturals, Sequences, FiniteSets

CONSTANTS
    Calls,      \* the invocations of withAudit and recordAuditEvent
    Tenants,
    Targets,    \* the audited business rows (owner, property, ...)
    TenantOf,   \* the tenant each target belongs to
    Op,         \* what each call invokes: "withAudit" or "recordAuditEvent"
    Target,     \* the target each call names
    LockKeys,   \* the int32 values of hashtext
    LockKey,    \* hashtext of each tenant id; two tenants may collide
    Legacy,     \* per tenant, the ids of the rows stamped by migration 0002
    None        \* no call: a free lock, a seeded value, a null snapshot

ASSUME ChainAssumption ==
    /\ None \notin Calls
    /\ TenantOf \in [Targets -> Tenants]
    /\ Op \in [Calls -> {"withAudit", "recordAuditEvent"}]
    /\ Target \in [Calls -> Targets]
    /\ LockKey \in [Tenants -> LockKeys]

VARIABLES
    pc,         \* per call, the last statement its transaction completed
    before,     \* per call, the snapshot read before the mutation
    after,      \* per call, the snapshot read after the mutation
    prevHash,   \* per call, the chain head it will extend
    rowLock,    \* per target, the transaction holding its row lock
    chainLock,  \* per advisory-lock key, the transaction holding it
    data,       \* per target, its committed value
    auditLog    \* per tenant, the committed chained rows.  They are listed in
                \* the order of their commits, which no statement can observe

vars == <<pc, before, after, prevHash, rowLock, chainLock, data, auditLog>>

TenantOfCall(c) == TenantOf[Target[c]]
Key(c) == LockKey[TenantOfCall(c)]

Stages == {"idle", "begun", "sawBefore", "wrote", "sawAfter", "locked",
           "sawHead", "inserted", "committed", "aborted"}
Ended == {"committed", "aborted"}
Active(c) == pc[c] \notin {"idle"} \cup Ended

Init ==
    /\ pc = [c \in Calls |-> "idle"]
    /\ before = [c \in Calls |-> None]
    /\ after = [c \in Calls |-> None]
    /\ prevHash = [c \in Calls |-> None]
    /\ rowLock = [x \in Targets |-> None]
    /\ chainLock = [k \in LockKeys |-> None]
    /\ data = [x \in Targets |-> None]
    /\ auditLog = [t \in Tenants |-> << >>]

-----------------------------------------------------------------------------
\* withTenant: BEGIN and set the tenant GUC.
Begin(c) ==
    /\ pc[c] = "idle"
    /\ pc' = [pc EXCEPT ![c] = "begun"]
    /\ UNCHANGED <<before, after, prevHash, rowLock, chainLock, data, auditLog>>

\* What a statement of c's transaction sees in target x.
Visible(c, x) == IF rowLock[x] = c THEN c ELSE data[x]

\* target.read(tx) ahead of the mutation.  No lock is held yet.
ReadBefore(c) ==
    /\ pc[c] = "begun" /\ Op[c] = "withAudit"
    /\ before' = [before EXCEPT ![c] = Visible(c, Target[c])]
    /\ pc' = [pc EXCEPT ![c] = "sawBefore"]
    /\ UNCHANGED <<after, prevHash, rowLock, chainLock, data, auditLog>>

\* fn(tx): an UPDATE of the target, which waits for the row lock.
RunFn(c) ==
    /\ pc[c] = "sawBefore"
    /\ rowLock[Target[c]] = None
    /\ rowLock' = [rowLock EXCEPT ![Target[c]] = c]
    /\ pc' = [pc EXCEPT ![c] = "wrote"]
    /\ UNCHANGED <<before, after, prevHash, chainLock, data, auditLog>>

\* The first snapshot reused as the second one.
ReadAfterCached(c) ==
    /\ pc[c] = "wrote"
    /\ after' = [after EXCEPT ![c] = before[c]]
    /\ pc' = [pc EXCEPT ![c] = "sawAfter"]
    /\ UNCHANGED <<before, prevHash, rowLock, chainLock, data, auditLog>>

\* target.read(tx) once more, after the mutation.
ReadAfter(c) ==
    /\ pc[c] = "wrote"
    /\ after' = [after EXCEPT ![c] = Visible(c, Target[c])]
    /\ pc' = [pc EXCEPT ![c] = "sawAfter"]
    /\ UNCHANGED <<before, prevHash, rowLock, chainLock, data, auditLog>>

\* A call is ready to extend the chain: an event straight away, a mutation
\* once both snapshots are taken.
ReadyToLock(c) == pc[c] = IF Op[c] = "withAudit" THEN "sawAfter" ELSE "begun"

\* A writer that forgets to wait for the advisory lock.
LockTenantChainNoWait(c) ==
    /\ ReadyToLock(c)
    /\ chainLock' = [chainLock EXCEPT ![Key(c)] = c]
    /\ pc' = [pc EXCEPT ![c] = "locked"]
    /\ UNCHANGED <<before, after, prevHash, rowLock, data, auditLog>>

\* lockTenantChain: pg_advisory_xact_lock waits until the key is free.
LockTenantChain(c) ==
    /\ ReadyToLock(c)
    /\ chainLock[Key(c)] = None
    /\ chainLock' = [chainLock EXCEPT ![Key(c)] = c]
    /\ pc' = [pc EXCEPT ![c] = "locked"]
    /\ UNCHANGED <<before, after, prevHash, rowLock, data, auditLog>>

\* A row stamped by the backfill of migration 0002.
LegacyRow(t, id) ==
    [body |-> [id |-> id, tenantId |-> t],
     prevHash |-> PRE_CHAIN_SENTINEL, rowHash |-> LegacyRowHash(id)]

Items(s) == {s[i] : i \in 1 .. Len(s)}

\* The rows of tenant t a committed read finds in audit_log.
ChainedRows(t) == Items(auditLog[t])
RowsOf(t) == ChainedRows(t) \cup {LegacyRow(t, id) : id \in Legacy[t]}

\* The head query without its prev_hash <> sentinel filter.
HeadsWithLegacy(t) ==
    {a \in RowsOf(t) : ~ \E b \in RowsOf(t) : b.prevHash = a.rowHash}

\* The rows readChainHead selects: chained rows no row of the tenant extends.
Heads(t) ==
    {a \in RowsOf(t) :
        /\ a.prevHash # PRE_CHAIN_SENTINEL
        /\ ~ \E b \in RowsOf(t) : b.prevHash = a.rowHash}

\* readChainHead under LIMIT 1, falling back to the tenant's genesis hash.
ReadChainHead(c) ==
    /\ pc[c] = "locked"
    /\ LET t == TenantOfCall(c) IN
         \/ /\ Heads(t) = {}
            /\ prevHash' = [prevHash EXCEPT ![c] = GenesisHash(t)]
         \/ \E a \in Heads(t) : prevHash' = [prevHash EXCEPT ![c] = a.rowHash]
    /\ pc' = [pc EXCEPT ![c] = "sawHead"]
    /\ UNCHANGED <<before, after, rowLock, chainLock, data, auditLog>>

\* buildChainBody and chainHash: the row c inserts.
BuildChainBody(c) ==
    [id |-> c, tenantId |-> TenantOfCall(c), target |-> Target[c],
     before |-> before[c], after |-> after[c]]

AuditRow(c) ==
    [body |-> BuildChainBody(c), prevHash |-> prevHash[c],
     rowHash |-> ComputeRowHash(prevHash[c], BuildChainBody(c))]

\* A writer whose statements release the advisory lock before COMMIT.
InsertRowAndUnlock(c) ==
    /\ pc[c] = "sawHead"
    /\ pc' = [pc EXCEPT ![c] = "inserted"]
    /\ chainLock' = [chainLock EXCEPT ![Key(c)] = None]
    /\ UNCHANGED <<before, after, prevHash, rowLock, data, auditLog>>

\* assertNotSentinel and the INSERT, visible to others only after COMMIT.
InsertRow(c) ==
    /\ pc[c] = "sawHead"
    /\ prevHash[c] # PRE_CHAIN_SENTINEL
    /\ pc' = [pc EXCEPT ![c] = "inserted"]
    /\ UNCHANGED <<before, after, prevHash, rowLock, chainLock, data, auditLog>>

\* The end of a transaction gives back every lock it holds.
ReleaseLocks(c) ==
    /\ rowLock' = [x \in Targets |-> IF rowLock[x] = c THEN None ELSE rowLock[x]]
    /\ chainLock' = [k \in LockKeys |->
                        IF chainLock[k] = c THEN None ELSE chainLock[k]]

\* COMMIT: the mutation and the audit row become visible together.
Commit(c) ==
    /\ pc[c] = "inserted"
    /\ pc' = [pc EXCEPT ![c] = "committed"]
    /\ data' = [x \in Targets |-> IF rowLock[x] = c THEN c ELSE data[x]]
    /\ auditLog' = [auditLog EXCEPT ![TenantOfCall(c)] = Append(@, AuditRow(c))]
    /\ ReleaseLocks(c)
    /\ UNCHANGED <<before, after, prevHash>>

\* A rollback that leaves the transaction's locks behind.
RollbackKeepingLocks(c) ==
    /\ Active(c)
    /\ pc' = [pc EXCEPT ![c] = "aborted"]
    /\ UNCHANGED <<before, after, prevHash, rowLock, chainLock, data, auditLog>>

\* ROLLBACK: fn or a statement throws, statement_timeout or the
\* idle-in-transaction timeout fires, or the process or its connection dies.
Rollback(c) ==
    /\ Active(c)
    /\ pc' = [pc EXCEPT ![c] = "aborted"]
    /\ ReleaseLocks(c)
    /\ UNCHANGED <<before, after, prevHash, data, auditLog>>

\* The statements of a call that is under way.
Proceed(c) == \/ ReadBefore(c) \/ RunFn(c) \/ ReadAfter(c)
              \/ LockTenantChain(c) \/ ReadChainHead(c) \/ InsertRow(c)
              \/ Commit(c)

Next == \E c \in Calls : Begin(c) \/ Proceed(c) \/ Rollback(c)

Spec == Init /\ [][Next]_vars

\* A transaction that can run its next statement eventually does: the handler
\* awaits each statement in turn and Postgres serves lock queues in order.
\* Nothing obliges a request to arrive or a transaction to fail.
Fairness == \A c \in Calls : WF_vars(Proceed(c))
FairSpec == Spec /\ Fairness

-----------------------------------------------------------------------------
Values == Calls \cup {None}
Bodies == [id : Calls, tenantId : Tenants, target : Targets,
           before : Values, after : Values]

\* Every variable holds the kind of value the code gives it, and every
\* committed row carries the hash of its own body over its prev_hash.
TypeOK ==
    /\ pc \in [Calls -> Stages]
    /\ before \in [Calls -> Values]
    /\ after \in [Calls -> Values]
    /\ DOMAIN prevHash = Calls
    /\ rowLock \in [Targets -> Values]
    /\ chainLock \in [LockKeys -> Values]
    /\ data \in [Targets -> Values]
    /\ DOMAIN auditLog = Tenants
    /\ \A t \in Tenants :
         /\ auditLog[t] \in Seq(ChainedRows(t))
         /\ \A i \in 1 .. Len(auditLog[t]) :
              LET r == auditLog[t][i] IN
              /\ r.body \in Bodies
              /\ r.rowHash = ComputeRowHash(r.prevHash, r.body)

\* The hash a writer of tenant t has to extend.
Tip(t) == IF auditLog[t] = << >> THEN GenesisHash(t)
          ELSE auditLog[t][Len(auditLog[t])].rowHash

\* The chain never forks: whatever the interleaving of writers, rollbacks and
\* lock collisions, each committed row extends exactly the row committed just
\* before it in its tenant, and the first one extends genesis (audit.ts 208-217).
ChainLinear ==
    \A t \in Tenants : \A i \in 1 .. Len(auditLog[t]) :
        auditLog[t][i].prevHash = IF i = 1 THEN GenesisHash(t)
                                  ELSE auditLog[t][i - 1].rowHash

\* The NOT EXISTS query identifies the tail: as soon as a tenant has chained
\* rows, exactly its last committed row is unreferenced, so LIMIT 1 never
\* chooses and legacy rows never mask the tail (audit.ts 202-219).
HeadIsTail ==
    \A t \in Tenants :
        Heads(t) = IF auditLog[t] = << >> THEN {}
                   ELSE {auditLog[t][Len(auditLog[t])]}

\* The mutation rows of target x, by position in its tenant's log.
MutationsOf(x) ==
    {i \in 1 .. Len(auditLog[TenantOf[x]]) :
        LET b == auditLog[TenantOf[x]][i].body IN
        b.target = x /\ Op[b.id] = "withAudit"}

\* The audit trail accounts for the data: the after snapshot of the newest
\* audited mutation of a target is the committed value of that target, and a
\* target no row mentions still has the value it was seeded with.
TrailMatchesData ==
    \A x \in Targets :
        /\ MutationsOf(x) = {} => data[x] = None
        /\ \A i \in MutationsOf(x) :
             (\A j \in MutationsOf(x) : j <= i)
                => auditLog[TenantOf[x]][i].body.after = data[x]

\* Waiting on a row lock and then on the advisory lock never deadlocks: every
\* transaction that begins is eventually committed or rolled back.
CallsEnd == \A c \in Calls : pc[c] = "begun" ~> pc[c] \in Ended

\* The interleaved transactions implement the atomic ledger: mutation and row
\* appear in one instant, once per call, at the tip, and never go away.
Ledger == INSTANCE AuditLedger WITH data <- data, ledger <- auditLog
ImplementsLedger == Ledger!LedgerSpec

=============================================================================
