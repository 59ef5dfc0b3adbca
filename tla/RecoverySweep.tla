--------------------------- MODULE RecoverySweep ---------------------------
(***************************************************************************)
(* The recovery list of the web process, over the engine:                  *)
(*   lib/mismatchSql.ts                    the SQL pre-filter              *)
(*   lib/clients.ts                        the contexts and their caches   *)
(*   app/api/recovery/candidates/route.ts  the memoised sweep              *)
(* under apps/web.  Officers read their tenant's context, which is rebuilt *)
(* when its TTL is over, by several of them at once; a platform admin reads*)
(* the process-wide one, which has no TTL but is dropped and reread after  *)
(* a mutation.  The one-entry memo of the last sweep is shared, and keyed  *)
(* by the identity of the context.                                         *)
(*                                                                         *)
(* The roll and the register change under all this (RollChanges,           *)
(* RegisterChanges); the feeds are constants of a deployment.  What        *)
(* overlapping refreshes do to the process-wide context is in              *)
(* ErasureService.  Paging, filters and ETags of the route are left out.   *)
(***************************************************************************)
EXTENDS RecoveryEngine

CONSTANTS
    Officers,       \* of the council
    Council,
    RowsOf,         \* per assessment, the rows it may have on the roll
    Registers,      \* what may be on the tenement register
    Owners,         \* per owner id, its record
    Feeds,          \* the feeds a deployment may have
    Bundled,        \* the roll and register the process is shipped with
    TtlTicks,       \* PER_TENANT_CTX_TTL_MS
    MaxTime, MaxChanges, MaxContexts

ASSUME SweepAssumption ==
    /\ TtlTicks \in Nat \ {0}
    /\ "platform_admin" \notin Officers
    /\ MaxTime \in Nat /\ MaxChanges \in Nat /\ MaxContexts \in Nat

Assessments == DOMAIN RowsOf

\* A row of the roll, as far as money and tenements depend on it.
IsRow(p) ==
    /\ p.assessmentNumber \in Assessments
    /\ p.council \in DOMAIN RateTables /\ p.landUse \in LandUses
    /\ p.grv \in {Null} \cup Int /\ p.uv \in {Null} \cup Int
    /\ p.annualRates \in Int

TenementFields ==
    {"tenementId", "type", "status", "isProducing", "holder", "granted", "intersects"}

ASSUME DataAssumption ==
    /\ IsFiniteSet(Assessments)
    /\ \A an \in Assessments : \A p \in RowsOf[an] : IsRow(p)
    /\ IsFiniteSet(Bundled.properties) /\ \A p \in Bundled.properties : IsRow(p)
    /\ \A tenements \in Registers : \A t \in tenements : TenementFields \subseteq DOMAIN t
    /\ \A f \in Feeds : \A an \in Assessments : f.changes[an] \in Seq(ChangeEntries)

VARIABLES
    now,
    roll, register,    \* per assessment its row; the tenements on the register
    feeds,
    tenantCtx,         \* the cached context of the council, or Null
    building,          \* per officer: Null, what the pre-filter answered, or what was read
    globalCtx,         \* cachedContext
    refreshing,        \* whether a refresh of it is under way
    contexts,          \* how many contexts were built: their identities
    memo,              \* _lastCtx and _lastResult, or Null
    served,            \* the last list served, or Null
    changes            \* how often roll and register changed

rollVars == <<roll, register, feeds, changes>>
tenantVars == <<tenantCtx, building>>
globalVars == <<globalCtx, refreshing>>
listVars == <<memo, served>>
sweepVars == <<now, rollVars, tenantVars, globalVars, contexts, listVars>>

Rows == {roll[an] : an \in Assessments}

-----------------------------------------------------------------------------
(* Contexts. *)

ContextOf(properties, tenements) ==
    [properties |-> properties, tenements |-> tenements, owners |-> Owners, now |-> now,
     lag |-> feeds.lag, discrepancies |-> feeds.discrepancies, approved |-> feeds.approved,
     changes |-> feeds.changes, titles |-> feeds.titles, deceased |-> feeds.deceased]

\* A pre-filter that asks for an overlay on rural land, too.
FindCandidatesWithOverlay(properties, tenements) ==
    {p \in properties :
        \/ p.pensionerRebate
        \/ \E t \in Live(tenements) : p.assessmentNumber \in t.intersects}

\* findCandidateAssessmentsBySql: rural or vacant, rebate, live overlay.
FindCandidates(properties, tenements) ==
    {p \in properties :
        \/ RuralOrVacant(p)
        \/ p.pensionerRebate
        \/ \E t \in Live(tenements) : p.assessmentNumber \in t.intersects}

OwnRows == {p \in Rows : p.council = Council}
CandidateNumbers == {p.assessmentNumber : p \in FindCandidates(OwnRows, register)}

\* buildContextFromDbForTenant, once the pre-filter has answered: no candidate
\* or no answer loads every row; tenements come with the properties they meet.
TenantContext(candidates) ==
    LET properties == IF candidates \in {Null, {}} THEN OwnRows
                      ELSE {p \in OwnRows : p.assessmentNumber \in candidates}
        numbers == {p.assessmentNumber : p \in properties}
    IN  ContextOf(properties,
                  {[t EXCEPT !.intersects = @ \cap numbers] :
                      t \in {u \in register : u.intersects \cap numbers # {}}})

-----------------------------------------------------------------------------
SweepInit ==
    /\ now = 0
    /\ roll \in {r \in [Assessments -> UNION Range(RowsOf)] :
                    \A an \in Assessments : r[an] \in RowsOf[an]}
    /\ register \in Registers
    /\ feeds \in Feeds
    /\ tenantCtx = Null /\ building = [o \in Officers |-> Null]
    /\ globalCtx = Null /\ refreshing = FALSE
    /\ contexts = 0
    /\ memo = Null /\ served = Null
    /\ changes = 0

\* The memo, if it asked only whether there is one.
MemoHoldsAny(cached) == memo # Null

\* findMismatchesCached hits.
MemoHolds(cached) == memo # Null /\ memo.id = cached.id

\* The rest of the route: sweep, or repeat the last sweep, and answer.
Serve(who, cached) ==
    LET swept == IF MemoHolds(cached) THEN memo
                 ELSE [id |-> cached.id, ts |-> cached.ts, sweptAt |-> now,
                       result |-> FindMismatchesWithOvertax([cached.ctx EXCEPT !.now = now])]
    IN  /\ memo' = swept
        /\ served' = [by |-> who, at |-> now, sweep |-> swept]

\* What the caches hold: since when it is cached, and what was read when.
NewContext(read) == [id |-> contexts + 1, ts |-> now, readAt |-> read.at, ctx |-> read.ctx]
ReadNow(ctx) == [at |-> now, ctx |-> ctx]

-----------------------------------------------------------------------------
(* getEvaluationContextForTenant *)

Valid == tenantCtx # Null /\ now - tenantCtx.ts < TtlTicks

ListHit(o) ==
    /\ building[o] = Null /\ Valid
    /\ Serve(o, tenantCtx)
    /\ UNCHANGED <<now, rollVars, tenantVars, globalVars, contexts>>

\* A miss runs the pre-filter first.
ListMiss(o) ==
    /\ building[o] = Null /\ ~Valid
    /\ \E answer \in {CandidateNumbers, Null} :
          building' = [building EXCEPT ![o] = [candidates |-> answer]]
    /\ UNCHANGED <<now, rollVars, tenantCtx, globalVars, contexts, listVars>>

\* The rows of the candidates are read after that.
ListRead(o) ==
    /\ building[o] # Null /\ "candidates" \in DOMAIN building[o]
    /\ building' = [building EXCEPT ![o] = ReadNow(TenantContext(@.candidates))]
    /\ UNCHANGED <<now, rollVars, tenantCtx, globalVars, contexts, listVars>>

\* What was read is cached, over what another officer has cached meanwhile.
ListBuilt(o) ==
    /\ building[o] # Null /\ "ctx" \in DOMAIN building[o] /\ contexts < MaxContexts
    /\ contexts' = contexts + 1
    /\ tenantCtx' = NewContext(building[o])
    /\ building' = [building EXCEPT ![o] = Null]
    /\ Serve(o, tenantCtx')
    /\ UNCHANGED <<now, rollVars, globalVars>>

\* A database that fails answers the request with an error and caches nothing.
ListFails(o) ==
    /\ building[o] # Null
    /\ building' = [building EXCEPT ![o] = Null]
    /\ UNCHANGED <<now, rollVars, tenantCtx, globalVars, contexts, listVars>>

-----------------------------------------------------------------------------
(* The process-wide context. *)

\* getEvaluationContext: without one, that of the bundled data.
AdminList ==
    LET fresh == NewContext(ReadNow(ContextOf(Bundled.properties, Bundled.tenements)))
        cached == IF globalCtx = Null THEN fresh ELSE globalCtx
    IN  /\ globalCtx = Null => contexts < MaxContexts
        /\ contexts' = IF globalCtx = Null THEN contexts + 1 ELSE contexts
        /\ globalCtx' = cached
        /\ Serve("platform_admin", cached)
        /\ UNCHANGED <<now, rollVars, tenantVars, refreshing>>

\* invalidateEvaluationContext: drop it, and read all tenants' rows anew.
InvalidateEvaluationContext ==
    /\ ~refreshing
    /\ globalCtx' = Null
    /\ refreshing' = TRUE
    /\ UNCHANGED <<now, rollVars, tenantVars, contexts, listVars>>

\* A refresh that fails leaves what is cached by then.
RefreshEnds ==
    /\ refreshing
    /\ \/ /\ contexts < MaxContexts
          /\ globalCtx' = NewContext(ReadNow(ContextOf(Rows, register)))
          /\ contexts' = contexts + 1
       \/ UNCHANGED <<globalCtx, contexts>>
    /\ refreshing' = FALSE
    /\ UNCHANGED <<now, rollVars, tenantVars, listVars>>

-----------------------------------------------------------------------------
RollChanges ==
    /\ changes < MaxChanges
    /\ changes' = changes + 1
    /\ \E an \in Assessments : \E row \in RowsOf[an] \ {roll[an]} :
          roll' = [roll EXCEPT ![an] = row]
    /\ UNCHANGED <<now, register, feeds, tenantVars, globalVars, contexts, listVars>>

RegisterChanges ==
    /\ changes < MaxChanges
    /\ changes' = changes + 1
    /\ register' \in Registers \ {register}
    /\ UNCHANGED <<now, roll, feeds, tenantVars, globalVars, contexts, listVars>>

Tick ==
    /\ now < MaxTime
    /\ now' = now + 1
    /\ UNCHANGED <<rollVars, tenantVars, globalVars, contexts, listVars>>

SweepNext ==
    \/ Tick \/ RollChanges \/ RegisterChanges
    \/ AdminList \/ InvalidateEvaluationContext \/ RefreshEnds
    \/ \E o \in Officers : ListHit(o) \/ ListMiss(o) \/ ListRead(o) \/ ListBuilt(o) \/ ListFails(o)

SweepSpec == SweepInit /\ [][SweepNext]_sweepVars

-----------------------------------------------------------------------------
Listed == IF served = Null THEN {}
          ELSE served.sweep.result.candidates \cup served.sweep.result.overtaxedCandidates

(***************************************************************************)
(* However the reads of officers and of the admin alternate over the one   *)
(* memo, and whichever of two builds ends last: an officer's list is swept *)
(* from the context the officer's own tenant has cached, cached less than  *)
(* one TTL before the list is served, and swept since; and it has no row   *)
(* of another tenant on it.                                                *)
(***************************************************************************)
OfficersListsAreRecent ==
    (served # Null /\ served.by \in Officers) =>
        /\ served.sweep.id = tenantCtx.id
        /\ served.at - served.sweep.ts < TtlTicks
        /\ served.sweep.sweptAt \in served.sweep.ts .. served.at
        /\ \A c \in Listed : \E p \in tenantCtx.ctx.properties :
              p.assessmentNumber = c.assessmentNumber /\ p.council = Council

(***************************************************************************)
(* A case is no stronger than its distinct evidence: the score is the sum  *)
(* of the weights of the different signals that fired, of the tenement     *)
(* class only the heaviest, and at most 1, though an upstream feed may     *)
(* repeat an entry ("cannot double-count the composite").                  *)
(***************************************************************************)
DistinctEvidenceOnly ==
    \A c \in Listed :
        LET ids == ToSet(c.signals)
            class == ids \cap TenementClass
        IN  c.compositeScore =
              Min({100, SumFunction([id \in ids \ TenementClass |-> WeightOf(id)])
                        + (IF class = {} THEN 0 ELSE Max({WeightOf(id) : id \in class}))})

\* Of n uplifts that sum up to uplift: half a dollar each for what the rounding of
\* one took off it, year by year, and for that of its arrears.
AtMost(amount, uplift, years, n) ==
    2 * amount <= 2 * (years * uplift) + n * ((years + 1) * Dollar)

Within(amount, uplift, years) ==
    IF uplift > 0 THEN amount >= 0 /\ AtMost(amount, uplift, years, 1)
    ELSE amount <= 0 /\ AtMost(-amount, -uplift, years, 1)

(***************************************************************************)
(* Money: whatever dates, values and rates a change entry leads to, the    *)
(* arrears have the sign of their uplift or are zero, those of three years *)
(* are never above those of five, and they exceed as many times the uplift *)
(* by no more than the rounding of each figure to a dollar may add; so do  *)
(* the totals of the list, over which the roundings may add up.            *)
(***************************************************************************)
ArrearsWithinCeilings ==
    LET result == served.sweep.result
    IN  served # Null =>
        /\ \A c \in Listed :
             /\ Within(c.estArrears3y, c.estUplift, ConservativeYears)
             /\ c.statutory # Null =>
                  /\ Within(c.statutory, c.estUplift, StatutoryYears)
                  /\ IF c.estUplift > 0 THEN c.estArrears3y <= c.statutory
                     ELSE c.statutory <= c.estArrears3y
        /\ LET stats == RecoveryStats(result.candidates) IN
             /\ stats.totalArrears3yAud >= 0
             /\ AtMost(stats.totalArrears3yAud, stats.totalUpliftAud, ConservativeYears,
                       stats.total)

(***************************************************************************)
(* The pre-filter changes no verdict on what it lets through: a property   *)
(* it keeps fires the signals it would with every row loaded, the outlier  *)
(* among the rural peers included ("percentile-based signals are not       *)
(* skewed").  Only the owner's portfolio is counted over what was loaded.  *)
(***************************************************************************)
PrefilterKeepsVerdicts ==
    LET all == ContextOf(OwnRows, register)
        kept == TenantContext(CandidateNumbers)
        Fired(p, ctx) == ToSet(EvaluateSignals(p, ctx))
                            \ {"beh.owner_portfolio_tenement_majority"}
    IN  \A p \in kept.properties : Fired(p, kept) = Fired(p, all)

(***************************************************************************)
(* "False negatives (excluded when a signal would fire) are NOT"           *)
(* acceptable: every property on which a signal fires with every row       *)
(* loaded is let through by the pre-filter.                                *)
(***************************************************************************)
PrefilterLosesNothing ==
    LET all == ContextOf(OwnRows, register)
    IN  \A p \in all.properties :
            EvaluateSignals(p, all) # << >>
                => p \in TenantContext(CandidateNumbers).properties
=============================================================================
