----------------------------- MODULE HashChain -----------------------------
(***************************************************************************)
(* The pure functions every verifier of the audit chain shares:            *)
(* verifyChain and orderByChainLinkage of packages/audit-core.             *)
(*                                                                         *)
(* A row is [body, prevHash, rowHash]; its body has at least an id, a      *)
(* tenantId and an occurredAt, ids and instants being naturals.            *)
(***************************************************************************)
EXTENDS AuditHash, Naturals, FiniteSets, SequencesExt

IsSentinel(r) == r.prevHash = PRE_CHAIN_SENTINEL

\* expectedPrevByTenant when the walk reaches row i: the row hash of the last
\* chained row of the same tenant above it, or that tenant's genesis hash.
ExpectedPrev(rows, i) ==
    LET above == {j \in 1 .. i - 1 : /\ ~IsSentinel(rows[j])
                                     /\ rows[j].body.tenantId = rows[i].body.tenantId}
    IN  IF above = {} THEN GenesisHash(rows[i].body.tenantId)
        ELSE rows[Max(above)].rowHash

\* Row i fails the walk: wrong link, or a hash its body does not produce.
BreaksAt(rows, i) ==
    /\ ~IsSentinel(rows[i])
    /\ \/ rows[i].prevHash # ExpectedPrev(rows, i)
       \/ rows[i].rowHash # ComputeRowHash(ExpectedPrev(rows, i), rows[i].body)

\* A walk that trusts stored row hashes and checks the links alone.
VerifyLinksOnly(rows) ==
    LET breaks == {i \in DOMAIN rows : /\ ~IsSentinel(rows[i])
                                       /\ rows[i].prevHash # ExpectedPrev(rows, i)}
    IN  IF breaks = {} THEN [ok |-> TRUE, firstBreakIndex |-> 0]
        ELSE [ok |-> FALSE, firstBreakIndex |-> Min(breaks)]

\* The walk stops at its first break (indices count from 1 here, from 0 there).
VerifyChain(rows) ==
    LET breaks == {i \in DOMAIN rows : BreaksAt(rows, i)}
    IN  IF breaks = {} THEN [ok |-> TRUE, firstBreakIndex |-> 0]
        ELSE [ok |-> FALSE, firstBreakIndex |-> Min(breaks)]

-----------------------------------------------------------------------------
ByOccurredThenId(a, b) ==
    \/ a.body.occurredAt < b.body.occurredAt
    \/ a.body.occurredAt = b.body.occurredAt /\ a.body.id < b.body.id

\* The rows of a set in that order.
RankOf(rowSet, r) == Cardinality({s \in rowSet : ByOccurredThenId(s, r)})
Sorted(rowSet) ==
    [k \in 1 .. Cardinality(rowSet) |-> CHOOSE r \in rowSet : RankOf(rowSet, r) = k - 1]

\* The chained rows among those given, and the first that extends the hash h.
RealRows(rows) == {r \in ToSet(rows) : ~IsSentinel(r)}
Extends(rows, h) == {i \in DOMAIN rows : ~IsSentinel(rows[i]) /\ rows[i].prevHash = h}
ByPrev(rows, h) == rows[Min(Extends(rows, h))]

\* The walk's anchor: the genesis hash when some row extends it, otherwise the
\* prev_hash of the earliest row whose predecessor is not in the set.
Anchors(rows, genesis) ==
    IF Extends(rows, genesis) # {} THEN {genesis}
    ELSE LET produced == {r.rowHash : r \in RealRows(rows)}
             heads == Sorted({r \in RealRows(rows) : r.prevHash \notin produced})
         IN  IF heads = << >> THEN {} ELSE {Head(heads).prevHash}

\* Following prevHash -> rowHash from start, never using a row hash twice.
Walk(rows, start) ==
    LET steps[n \in 0 .. Len(rows)] ==
          IF n = 0 THEN << >>
          ELSE LET soFar == steps[n - 1]
                   cursor == IF soFar = << >> THEN start ELSE Last(soFar).rowHash
               IN  IF \/ Extends(rows, cursor) = {}
                      \/ \E r \in ToSet(soFar) : r.rowHash = ByPrev(rows, cursor).rowHash
                   THEN soFar
                   ELSE Append(soFar, ByPrev(rows, cursor))
    IN  steps[Len(rows)]

\* Ordering by wall clock alone, as the callers did before linkage was used.
OrderByTime(rows, genesis) ==
    Sorted({r \in ToSet(rows) : IsSentinel(r)}) \o Sorted(RealRows(rows))

\* One tenant's rows in chain order: legacy rows first, then the walk, then
\* whatever the walk did not reach, in (occurredAt, id) order.
OrderByChainLinkage(rows, genesis) ==
    LET ordered == IF Anchors(rows, genesis) = {} THEN << >>
                   ELSE Walk(rows, CHOOSE a \in Anchors(rows, genesis) : TRUE)
        used == {r.rowHash : r \in ToSet(ordered)}
    IN  Sorted({r \in ToSet(rows) : IsSentinel(r)})
          \o ordered
          \o Sorted({r \in RealRows(rows) : r.rowHash \notin used})

=============================================================================
