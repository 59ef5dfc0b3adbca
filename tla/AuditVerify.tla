---------------------------- MODULE AuditVerify ----------------------------
(***************************************************************************)
(* GET /api/audit/verify-chain (apps/web/app/api/audit/verify-chain): one  *)
(* tenant's audit_log grows, may be tampered with behind the writer's      *)
(* back, and is fetched in windows, put in chain order and verified.       *)
(*                                                                         *)
(* The writer is the one AuditChain verifies, here at the grain of its     *)
(* commits: each row extends the tip, has a fresh id, random with respect  *)
(* to every other, and an occurredAt stamped under the advisory lock from  *)
(* the clock of one of the web servers.  Skew bounds how far behind that   *)
(* clock may be; ties on the millisecond are always possible.              *)
(***************************************************************************)
EXTENDS HashChain

CONSTANTS
    Ids,         \* the row ids there are, naturals in any order
    LegacyIds,   \* the ids of rows that pre-date the chain
    LastInstant, \* the clock stops there
    Skew,        \* how far a server's clock may lag
    Unasked      \* no request, no bound, no row

ASSUME RouteAssumption ==
    /\ Ids \subseteq Nat /\ IsFiniteSet(Ids)
    /\ LegacyIds \subseteq Nat /\ IsFiniteSet(LegacyIds)
    /\ LastInstant \in Nat /\ Skew \in Nat

VARIABLES
    clock,       \* the most advanced server clock
    tip,         \* the hash the next row extends
    auditRows,   \* the rows of audit_log
    tampered,    \* the row tampered with, if any, as the table now holds it
    deleted,     \* the row deleted, if any
    verdict      \* the last response, with the window it was asked for

routeVars == <<clock, tip, auditRows, tampered, deleted, verdict>>

Tenant == "tenant"
Genesis == GenesisHash(Tenant)

Body(id, time) == [id |-> id, tenantId |-> Tenant, occurredAt |-> time,
                   content |-> "written"]

RouteInit ==
    /\ clock = 0
    /\ tip = Genesis
    /\ auditRows = {[body |-> Body(id, 0), prevHash |-> PRE_CHAIN_SENTINEL,
                     rowHash |-> LegacyRowHash(id)] : id \in LegacyIds}
    /\ tampered = {} /\ deleted = {} /\ verdict = Unasked

ClockTicks == /\ clock < LastInstant
              /\ clock' = clock + 1
              /\ UNCHANGED <<tip, auditRows, tampered, deleted, verdict>>

Intact == tampered = {} /\ deleted = {}

UsedIds == {r.body.id : r \in auditRows \cup deleted}

\* withAudit or recordAuditEvent commits a row.
AppendRow ==
    /\ Intact
    /\ \E id \in Ids \ UsedIds, time \in 0 .. clock :
         LET row == [body |-> Body(id, time), prevHash |-> tip,
                     rowHash |-> ComputeRowHash(tip, Body(id, time))]
         IN  /\ time + Skew >= clock
             /\ auditRows' = auditRows \cup {row}
             /\ tip' = row.rowHash
    /\ UNCHANGED <<clock, tampered, deleted, verdict>>

Chained == {r \in auditRows : ~IsSentinel(r)}

\* Someone past the REVOKE rewrites the recorded content of a chained row.
Forged(r) == [r EXCEPT !.body.content = "forged"]
TamperBody ==
    /\ Intact
    /\ \E r \in Chained : /\ auditRows' = (auditRows \ {r}) \cup {Forged(r)}
                          /\ tampered' = {Forged(r)}
    /\ UNCHANGED <<clock, tip, deleted, verdict>>

\* Or deletes one.
DeleteRow ==
    /\ Intact
    /\ \E r \in Chained : auditRows' = auditRows \ {r} /\ deleted' = {r}
    /\ UNCHANGED <<clock, tip, tampered, verdict>>

-----------------------------------------------------------------------------
\* ORDER BY occurred_at, id LIMIT limit, with or without a since bound.
Fetch(since, limit) ==
    LET inWindow == {r \in auditRows : since = Unasked \/ r.body.occurredAt >= since}
        rows == Sorted(inWindow)
    IN  SubSeq(rows, 1, Min({limit, Len(rows)}))

\* The since bound snipped the chain off its genesis: the first chained row
\* does not extend it.
Truncated(ordered, since) ==
    LET real == {i \in DOMAIN ordered : ~IsSentinel(ordered[i])}
    IN  since # Unasked /\ real # {} /\ ordered[Min(real)].prevHash # Genesis

\* What the route answers: a break at the first row of a truncated window is
\* taken for the cut itself, any other break for tampering.
Respond(since, limit) ==
    LET ordered == OrderByChainLinkage(Fetch(since, limit), Genesis)
        chain == VerifyChain(ordered)
        truncated == Truncated(ordered, since)
    IN  [since |-> since, limit |-> limit, rows |-> ordered,
         truncated |-> truncated, brokenAt |-> chain.firstBreakIndex,
         latestTs |-> IF ordered = << >> THEN Unasked ELSE Last(ordered).body.occurredAt,
         ok |-> chain.ok \/ (truncated /\ chain.firstBreakIndex = 1)]

\* The handler, past its rate limit, session and permission checks.
VerifyRequest ==
    /\ \E since \in {Unasked} \cup (0 .. LastInstant), limit \in 1 .. Cardinality(Ids) :
         verdict' = Respond(since, limit)
    /\ UNCHANGED <<clock, tip, auditRows, tampered, deleted>>

\* A response describes the table only until the table changes.
Forget == /\ verdict # Unasked
          /\ verdict' = Unasked
          /\ UNCHANGED <<clock, tip, auditRows, tampered, deleted>>

Write == ClockTicks \/ AppendRow \/ TamperBody \/ DeleteRow
RouteNext == \/ verdict = Unasked /\ (Write \/ VerifyRequest)
             \/ Forget

RouteSpec == RouteInit /\ [][RouteNext]_routeVars

-----------------------------------------------------------------------------
Complete == verdict # Unasked /\ verdict.since = Unasked
            /\ verdict.limit >= Cardinality(auditRows)

\* The one chained row no other row extends.
IsTail(r) == ~ \E s \in auditRows : s.prevHash = r.rowHash

(***************************************************************************)
(* Rewriting a recorded row surfaces at that very row (audit.ts 24-26): the*)
(* scan of the whole table fails there and not at an earlier or a later    *)
(* one.  Deleting a row that another one extends never goes unnoticed by   *)
(* such a scan (audit-core 225-227); deleting the tail leaves no trace.    *)
(***************************************************************************)
TamperingShows ==
    Complete =>
        /\ \A r \in tampered : ~verdict.ok /\ verdict.rows[verdict.brokenAt] = r
        /\ \A r \in deleted : r.rowHash # tip => ~verdict.ok

\* The servers' clocks have not put two chained rows out of order.
StampedInOrder ==
    \A r, s \in Chained : s.prevHash = r.rowHash => r.body.occurredAt <= s.body.occurredAt

(***************************************************************************)
(* Nobody is alarmed by an intact table.  A scan of the whole of it passes,*)
(* however many rows share a millisecond and however the servers' clocks   *)
(* disagree, and its latestTs is the timestamp of the chain's tail (route  *)
(* 298-313, audit-core 207-218).  A since window passes as long as its     *)
(* rows were stamped in order and the limit does not cut it (315-329).     *)
(***************************************************************************)
IntactTablesAreClean ==
    verdict # Unasked /\ Intact /\ verdict.limit >= Cardinality(auditRows) =>
        /\ verdict.since = Unasked =>
             /\ verdict.ok /\ ~verdict.truncated
             /\ \A r \in Chained : IsTail(r) => verdict.latestTs = r.body.occurredAt
        /\ StampedInOrder => verdict.ok
=============================================================================
