--------------------------- MODULE InMemoryAudit ---------------------------
(***************************************************************************)
(* The demo adapter's audit store: a ring buffer shared by all tenants     *)
(* (packages/adapter-demo/src/audit/inMemoryAuditStore.ts) and the         *)
(* verify_audit_chain tool over it (handlers/verifyAuditChain.ts).         *)
(*                                                                         *)
(* append is synchronous in a single-threaded process, so it is one step.  *)
(* Attribution, snapshots and timestamps are left out: the buffer's own    *)
(* order is the one the reads use.                                         *)
(***************************************************************************)
EXTENDS HashChain

CONSTANTS
    Councils,      \* the tenants
    MAX_ENTRIES,   \* capacity of the buffer (10 000 in the code)
    MaxAppends,    \* bound on the number of rows ever appended
    NoAnswer       \* the tool was not asked since the last append

VARIABLES
    buffer,            \* the rows held, oldest first
    byId,              \* the ids readById can find
    lastHashByTenant,  \* the Map of the hash the next row of a tenant extends
    appended,          \* per tenant, the number of rows ever appended
    result             \* the last answer of verify_audit_chain

memoryVars == <<buffer, byId, lastHashByTenant, appended, result>>

MemoryInit ==
    /\ buffer = << >> /\ byId = {}
    /\ lastHashByTenant = << >>
    /\ appended = [t \in Councils |-> 0]
    /\ result = NoAnswer

\* An eviction that takes the newest row instead of the oldest.
EvictNewest(rows) == IF Len(rows) > MAX_ENTRIES THEN Front(rows) ELSE rows

\* Over capacity, the oldest row goes, whichever tenant's it is.
Evict(rows) == IF Len(rows) > MAX_ENTRIES THEN Tail(rows) ELSE rows

Evicted(rows) == IF Len(rows) > MAX_ENTRIES THEN {Head(rows)} ELSE {}

Name(e) == <<e.body.tenantId, e.body.id>>

\* The places in the buffer of tenant t's rows.
Own(t) == {i \in DOMAIN buffer : buffer[i].body.tenantId = t}

\* A store that restarts a tenant's chain at genesis once its rows are gone.
PrevHashFromBuffer(t) ==
    IF Own(t) = {} THEN GenesisHash(t) ELSE buffer[Max(Own(t))].rowHash

\* The chain continues from the last row ever appended, evicted or not.
PrevHash(t) == IF t \in DOMAIN lastHashByTenant THEN lastHashByTenant[t]
               ELSE GenesisHash(t)

TotalAppended == FoldFunction(+, 0, appended)

\* append
AppendEntry(t) ==
    LET body == [id |-> appended[t], tenantId |-> t]
        entry == [body |-> body, prevHash |-> PrevHash(t),
                  rowHash |-> ComputeRowHash(PrevHash(t), body)]
        kept == Evict(Append(buffer, entry))
    IN  /\ TotalAppended < MaxAppends
        /\ buffer' = kept
        /\ byId' = (byId \cup {Name(entry)}) \ {Name(e) : e \in Evicted(Append(buffer, entry))}
        /\ lastHashByTenant' = [u \in DOMAIN lastHashByTenant \cup {t} |->
              IF u = t THEN entry.rowHash ELSE lastHashByTenant[u]]
        /\ appended' = [appended EXCEPT ![t] = @ + 1]
        /\ result' = NoAnswer

\* The last n of some places, at least one.
NewestOf(places, n) ==
    {i \in places : Cardinality({j \in places : j > i}) < Max({1, n})}

\* The tenants come in the order in which the buffer first mentions them, and
\* the rows of each as they were appended.
FirstOf(i) == Min(Own(buffer[i].body.tenantId))
Precedes(i, j) == \/ FirstOf(i) < FirstOf(j)
                  \/ FirstOf(i) = FirstOf(j) /\ i < j

\* The rows at some places, in that order.
Rank(places, i) == Cardinality({j \in places : Precedes(j, i)})
Listed(places) ==
    [k \in 1 .. Cardinality(places) |->
        buffer[CHOOSE i \in places : Rank(places, i) = k - 1]]

\* readChainOrdered: the tenant's newest limit rows, oldest first.
ReadChainOrdered(t, limit) == Listed(NewestOf(Own(t), limit))

\* readChainOrderedAllTenants: one such segment per tenant.
ReadChainOrderedAllTenants(limit) ==
    Listed(UNION {NewestOf(Own(t), limit) : t \in Councils})

\* verify_audit_chain, for one tenant or, for a service actor, for all.
VerifyTool ==
    /\ \E limit \in 1 .. MAX_ENTRIES :
         \/ \E t \in Councils :
              LET rows == ReadChainOrdered(t, limit) IN
              result' = [limit |-> limit, rows |-> rows, verdict |-> VerifyChain(rows)]
         \/ LET rows == ReadChainOrderedAllTenants(limit) IN
              result' = [limit |-> limit, rows |-> rows, verdict |-> VerifyChain(rows)]
    /\ UNCHANGED <<buffer, byId, lastHashByTenant, appended>>

MemoryNext == (\E t \in Councils : AppendEntry(t)) \/ VerifyTool

MemorySpec == MemoryInit /\ [][MemoryNext]_memoryVars

-----------------------------------------------------------------------------
(***************************************************************************)
(* However the tenants interleave and whatever is evicted, the surviving   *)
(* rows of a tenant are consecutive links of its chain, up to the hash its *)
(* next row will extend (inMemoryAuditStore.ts 30-37).                     *)
(***************************************************************************)
SurvivorsAreContiguous ==
    \A t \in Councils :
        /\ \A i, j \in Own(t) :
             (i < j /\ \A k \in Own(t) : k <= i \/ k >= j)
                => buffer[j].prevHash = buffer[i].rowHash
        /\ \A i \in Own(t) :
             (\A k \in Own(t) : k <= i)
                => t \in DOMAIN lastHashByTenant /\ buffer[i].rowHash = lastHashByTenant[t]

\* A tenant's first surviving row: where a cut of the chain shows.
StartsSegment(rows, i) ==
    \A j \in 1 .. i - 1 : rows[j].body.tenantId # rows[i].body.tenantId

(***************************************************************************)
(* Verification tells exactly what was cut.  It passes if every tenant's   *)
(* window starts at its genesis, and otherwise breaks at the first row of  *)
(* a window, so that the store never looks tampered with in the middle     *)
(* (verifyAuditChain.ts 11-12); and as a row evicted or beyond the limit   *)
(* shows, the rows of each tenant that verifies are all it ever appended.  *)
(***************************************************************************)
OnlyCutsBreak ==
    result # NoAnswer =>
        LET cut == {i \in DOMAIN result.rows :
                      /\ StartsSegment(result.rows, i)
                      /\ result.rows[i].prevHash # GenesisHash(result.rows[i].body.tenantId)}
        IN  /\ result.verdict.ok <=> cut = {}
            /\ ~result.verdict.ok => result.verdict.firstBreakIndex = Min(cut)
            /\ result.verdict.ok => \A r \in ToSet(result.rows) :
                 Cardinality({s \in ToSet(result.rows) : s.body.tenantId = r.body.tenantId})
                   = appended[r.body.tenantId]
=============================================================================
