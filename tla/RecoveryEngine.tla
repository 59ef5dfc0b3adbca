--------------------------- MODULE RecoveryEngine ---------------------------
(***************************************************************************)
(* The recovery engine (packages/recovery-engine/src: signals.ts,          *)
(* scoring.ts, upliftCalculator.ts, findMismatches.ts, stats.ts), as       *)
(* operators: which signals fire on a property, what they add up to, what  *)
(* the correct rates would be, and the two lists a sweep returns.          *)
(*                                                                         *)
(* Weights are in hundredths, values in dollars, amounts in units of which *)
(* Dollar make one, time in ticks of which Year make one: what rounding to *)
(* a dollar does to an amount, and to a fraction of a year, is modelled.   *)
(* Evidence texts, captions and the order of the lists are left out. Names *)
(* and addresses are equal or not: what normalising them equates is one    *)
(* value.  A property has one owner, the first of its ownerIds.            *)
(***************************************************************************)
EXTENDS Integers, SequencesExt

CONSTANTS
    RateTables,         \* per council, its table: category -> rate line or Null
    RecentlyGrantedWindow,
    ConservativeYears, StatutoryYears,
    Year, Day,          \* in ticks
    Dollar,             \* in units, the smallest part of an amount
    TargetStateScope,
    Null

LandUses == {"Residential", "Commercial", "Industrial", "Rural", "Vacant", "Mining",
             "MiningOther", "Pastoral"}

\* A rate line, and no line for a category a table does not carry.
RateLines == {Null} \cup [rateInDollar : Int, minimumPayment : Int, basis : {"GRV", "UV"}]

\* The heuristic's arrears are those of three years.
ASSUME EngineAssumption ==
    /\ Year \in Nat \ {0} /\ Dollar \in Nat \ {0}
    /\ ConservativeYears \in Nat /\ StatutoryYears \in Nat
    /\ 3 <= ConservativeYears /\ ConservativeYears <= StatutoryYears
    /\ \A council \in DOMAIN RateTables :
          RateTables[council] # Null => RateTables[council] \in [LandUses -> RateLines]

-----------------------------------------------------------------------------
(* signals.ts *)

TenementClass ==
    {"reg.tenement.producing.on_rural_or_vacant", "reg.gpl.producing.on_vacant",
     "reg.tenement.live_lease.on_rural_or_vacant", "reg.tenement.exploration_only.on_rural"}

WeightOf(id) ==
    CASE id \in {"reg.tenement.producing.on_rural_or_vacant", "reg.gpl.producing.on_vacant",
                 "mismatch.strata_parent_still_rated"} -> 55
      [] id \in {"reg.dmirs_ahead_of_landgate", "id.pensioner_deceased_continued_rebate",
                 "id.proprietor_deceased"} -> 50
      [] id \in {"reg.tenement.live_lease.on_rural_or_vacant",
                 "change.subdivision_detected"} -> 45
      [] id \in {"reg.tenement.recently_granted", "reg.address_mismatch_landgate",
                 "change.construction_completed", "mismatch.proprietor",
                 "mismatch.pin_landuse_diverges", "id.pensioner_eligibility_cancelled",
                 "id.pensioner_not_at_property"} -> 40
      [] id \in {"mismatch.ct_number_changed", "change.commercial_use_observed"} -> 35
      [] id \in {"reg.environmental_approval_active", "id.abn.cancelled_or_suspended",
                 "id.holder_ne_owner", "change.construction_approved",
                 "mismatch.pin_missing_from_record"} -> 30
      [] id \in {"mismatch.encumbrance_added", "id.cross_council_pin",
                 "id.pensioner_card_expired"} -> 25
      [] id \in {"reg.tenement.exploration_only.on_rural", "change.renovation_detected",
                 "id.industry_indicator_in_owner_name",
                 "beh.owner_portfolio_tenement_majority"} -> 20
      [] id \in {"spat.outlier.high_value_rural", "change.gru_revaluation_pending"} -> 15

-----------------------------------------------------------------------------
(* scoring.ts: evaluateSignals.                                            *)
(* A context ctx has properties, owners, tenements, now, and the feeds:    *)
(* lag and discrepancies (per assessment, severity hints), approved        *)
(* tenements, changes (per assessment, entries in the feed's order),       *)
(* titles (per assessment, the Landgate record of its VEN or Null) and     *)
(* deceased proprietors.                                                   *)

When(condition, id) == IF condition THEN {id} ELSE {}

TenementsAt(p, ctx) == {t \in ctx.tenements : p.assessmentNumber \in t.intersects}
Live(tenements) == {t \in tenements : t.status = "Live"}
RuralOrVacant(p) == p.landUse \in {"Rural", "Vacant"}

\* One tenement-class signal at most: the first branch that holds.
TenementClassHits(p, tenements) ==
    LET live == Live(tenements) IN
    IF ~RuralOrVacant(p) THEN {}
    ELSE IF \E t \in live : t.isProducing /\ t.type = "M"
         THEN {"reg.tenement.producing.on_rural_or_vacant"}
    ELSE IF p.landUse = "Vacant" /\ \E t \in live : t.isProducing /\ t.type = "G"
         THEN {"reg.gpl.producing.on_vacant"}
    ELSE IF \E t \in live : t.type = "M" THEN {"reg.tenement.live_lease.on_rural_or_vacant"}
    ELSE When(live # {} /\ \A t \in live : t.type \in {"E", "P"},
              "reg.tenement.exploration_only.on_rural")

RecentlyGranted(t, ctx) == ctx.now - t.granted \in 0 .. RecentlyGrantedWindow

\* Mentions of medium or high severity.
Worth(hints) == hints \cap {"high", "medium"} # {}

RegisterHits(p, ctx) ==
    LET tenements == TenementsAt(p, ctx) IN
    TenementClassHits(p, tenements)
    \cup When(RuralOrVacant(p) /\ \E t \in Live(tenements) : RecentlyGranted(t, ctx),
              "reg.tenement.recently_granted")
    \cup When(Worth(ctx.lag[p.assessmentNumber]), "reg.dmirs_ahead_of_landgate")
    \cup When(\E t \in tenements : t.tenementId \in ctx.approved,
              "reg.environmental_approval_active")
    \cup When(Worth(ctx.discrepancies[p.assessmentNumber]), "reg.address_mismatch_landgate")

\* ownerPortfolio: of the owner's properties in this context, how many a
\* tenement of any status intersects.
PortfolioMajority(p, ctx) ==
    LET held == {q \in ctx.properties : q.owner = p.owner}
        with == {q \in held : TenementsAt(q, ctx) # {}}
    IN  Cardinality(held) >= 3 /\ 2 * Cardinality(with) >= Cardinality(held)

\* suburbRuralValuationPercentile >= 0.85, with at least two peers.
HighValueRural(p, ctx) ==
    LET peers == {q \in ctx.properties : q.suburb = p.suburb /\ q.landUse = "Rural"} \ {p}
        lower == {q \in peers : q.valuation < p.valuation}
    IN  /\ p.landUse = "Rural" /\ Cardinality(peers) >= 2
        /\ 100 * Cardinality(lower) >= 85 * Cardinality(peers)

OwnerHits(p, ctx) ==
    LET owner == ctx.owners[p.owner] IN
    When(owner.abnStatus \notin {Null, "Active"}, "id.abn.cancelled_or_suspended")
    \cup When(\E t \in Live(TenementsAt(p, ctx)) : t.holder # owner.name, "id.holder_ne_owner")
    \cup When(RuralOrVacant(p) /\ owner.industryTerm, "id.industry_indicator_in_owner_name")
    \cup When(PortfolioMajority(p, ctx), "beh.owner_portfolio_tenement_majority")
    \cup When(HighValueRural(p, ctx), "spat.outlier.high_value_rural")

\* The seven title signals, when the VEN has a Landgate record.
TitleHits(p, ctx) ==
    LET title == ctx.titles[p.assessmentNumber]
        onRecord == IF p.proprietor # Null THEN p.proprietor ELSE ctx.owners[p.owner].name
    IN IF title = Null THEN {} ELSE
       When(onRecord # title.proprietor, "mismatch.proprietor")
       \cup When(p.ct # Null /\ p.ct # title.ct, "mismatch.ct_number_changed")
       \cup When(title.strataChildren # {}, "mismatch.strata_parent_still_rated")
       \cup When(~ title.encumbrances \subseteq p.encumbrances, "mismatch.encumbrance_added")
       \cup When(\E pin \in title.pins : pin.landuse # p.landUse,
                 "mismatch.pin_landuse_diverges")
       \cup When(Cardinality(p.pins) < Cardinality(title.pins),
                 "mismatch.pin_missing_from_record")
       \cup When(\E pin \in title.pins : pin.councilCode \notin {Null, p.council},
                 "id.cross_council_pin")

ConcessionHits(p, ctx) ==
    LET deceased == p.proprietor # Null /\ p.proprietor \in ctx.deceased
        c == p.concession
    IN (IF c = Null THEN {} ELSE
        When(c.wcStatus = "deceased" \/ deceased, "id.pensioner_deceased_continued_rebate")
        \cup When(c.wcStatus = "cancelled", "id.pensioner_eligibility_cancelled")
        \cup When(c.cardExpiry # Null /\ c.cardExpiry < ctx.now, "id.pensioner_card_expired")
        \cup When(c.livesElsewhere, "id.pensioner_not_at_property"))
       \cup When(deceased, "id.proprietor_deceased")

\* An entry of the change feed, its kind named by the signal it fires.
ChangeKinds == {"change.subdivision_detected", "change.construction_approved",
                "change.construction_completed", "change.renovation_detected",
                "change.gru_revaluation_pending", "change.commercial_use_observed"}
ChangeEntries == [kind : ChangeKinds, correctLandUse : {Null} \cup LandUses,
                  detectedAt : {Null} \cup Int]

\* A hit per entry of the feed.
ChangeHitsOfAll(entries) == [i \in DOMAIN entries |-> entries[i].kind]

\* One hit per kind, however often the feed repeats it.
ChangeHits(entries) ==
    FoldLeft(LAMBDA kinds, e : IF Contains(kinds, e.kind) THEN kinds
                               ELSE Append(kinds, e.kind), << >>, entries)

\* The hits that fire once, in an order that does not matter.
InSomeOrder(hits) == FoldSet(LAMBDA h, seq : Append(seq, h), << >>, hits)

EvaluateSignals(p, ctx) ==
    InSomeOrder(RegisterHits(p, ctx) \cup OwnerHits(p, ctx) \cup TitleHits(p, ctx)
                \cup ConcessionHits(p, ctx))
    \o ChangeHits(ctx.changes[p.assessmentNumber])

-----------------------------------------------------------------------------
(* scoring.ts: the composite. *)

\* The weights of the hits at some places, added up.
Total(hits, places) == SumFunction([i \in places |-> WeightOf(hits[i])])

\* computeComposite: the heaviest of the tenement class and all the others.
ComputeComposite(hits) ==
    LET class == {i \in DOMAIN hits : hits[i] \in TenementClass}
        best == IF class = {} THEN 0 ELSE Max({WeightOf(hits[i]) : i \in class})
    IN  Min({100, Total(hits, DOMAIN hits \ class) + best})

SeverityForScore(score) ==
    IF score >= 60 THEN "high" ELSE IF score >= 35 THEN "medium" ELSE "low"

\* Math.round, of an amount of n/d units: the nearest dollar, a half upwards.
Rounded(n, d) == Dollar * ((2 * n + d * Dollar) \div (2 * d * Dollar))

\* estimateUpliftHeuristic, without its arrears: 8x, 4x or 1.5x.
HeuristicRates(annualRates, severity) ==
    CASE severity = "high" -> Rounded(8 * annualRates, 1)
      [] severity = "medium" -> Rounded(4 * annualRates, 1)
      [] severity = "low" -> Rounded(3 * annualRates, 2)

-----------------------------------------------------------------------------
(* upliftCalculator.ts *)

ValueForBasis(p, basis) == IF basis = "GRV" THEN p.grv ELSE p.uv
ComputeAnnual(line, value) == Max({value * line.rateInDollar, line.minimumPayment})

\* Arrears that follow a detection date into the future.
YearsSinceUnfloored(changeAt, evaluated) == evaluated - changeAt

\* yearsSinceChange, in ticks.
YearsSince(changeAt, evaluated) == Max({0, evaluated - changeAt})

\* An absent value is Null, an unusable one (zero, negative) 0.
UsableValues(p) == p.grv # 0 /\ p.uv # 0
LineFor(p, category) == RateTables[p.council][category]
Computable(p, category) ==
    /\ LineFor(p, category) # Null
    /\ ValueForBasis(p, LineFor(p, category).basis) # Null
ChangeDateOk(changeAt, evaluated) == changeAt # Null /\ changeAt <= evaluated + Day

\* calculateUplift: Null where it answers with an error.  The amounts are in units
\* times ticks: a Year of them makes a unit.
CalculateUplift(p, correctLandUse, changeAt, evaluated) ==
    LET annual(category) ==
            ComputeAnnual(LineFor(p, category),
                          ValueForBasis(p, LineFor(p, category).basis))
        uplift == annual(correctLandUse) - annual(p.landUse)
        years == YearsSince(changeAt, evaluated)
    IN  IF ~UsableValues(p) \/ p.annualRates < 0 THEN Null
        ELSE IF correctLandUse = p.landUse
        THEN [annualUplift |-> 0, years |-> 0, conservative |-> 0, statutory |-> 0]
        ELSE IF /\ Computable(p, p.landUse) /\ Computable(p, correctLandUse)
                /\ ChangeDateOk(changeAt, evaluated)
        THEN [annualUplift |-> uplift, years |-> years,
              conservative |-> uplift * Min({years, ConservativeYears * Year}),
              statutory |-> uplift * Min({years, StatutoryYears * Year})]
        ELSE Null

-----------------------------------------------------------------------------
(* findMismatches.ts *)

\* pickChangeForUplift: the first entry that names a land use, or the first.
PickChange(entries) ==
    LET i == SelectInSeq(entries, LAMBDA e : e.correctLandUse # Null)
    IN  IF i # 0 THEN entries[i] ELSE entries[1]

\* The accurate figures, where a rate table and a hypothesis allow them.
AccurateUplift(p, ctx) ==
    LET entries == ctx.changes[p.assessmentNumber]
        chosen == PickChange(entries)
    IN  IF entries = << >> \/ RateTables[p.council] = Null THEN Null
        ELSE IF chosen.correctLandUse = Null THEN Null
        ELSE CalculateUplift(p, chosen.correctLandUse, chosen.detectedAt, ctx.now)

\* The candidate of a property: accurate figures, each rounded by itself, or the
\* heuristic's, of which only the new rates are.
CandidateOf(p, ctx) ==
    LET hits == EvaluateSignals(p, ctx)
        score == ComputeComposite(hits)
        severity == SeverityForScore(score)
        accurate == AccurateUplift(p, ctx)
        guess == HeuristicRates(p.annualRates, severity) - p.annualRates
    IN  [assessmentNumber |-> p.assessmentNumber, signals |-> hits,
         compositeScore |-> score, severity |-> severity,
         estUplift |-> IF accurate # Null THEN Rounded(accurate.annualUplift, 1) ELSE guess,
         estArrears3y |-> IF accurate # Null THEN Rounded(accurate.conservative, Year)
                          ELSE 3 * guess,
         statutory |-> IF accurate # Null THEN Rounded(accurate.statutory, Year) ELSE Null]

\* No uplift, no candidate; a negative one is for review, not for recovery.
Split(all) ==
    [candidates |-> {c \in all : c.estUplift > 0},
     overtaxedCandidates |-> {c \in all : c.estUplift < 0}]

FindMismatchesWithOvertax(ctx) ==
    Split({CandidateOf(p, ctx) :
             p \in {q \in ctx.properties : /\ q.state = TargetStateScope
                                           /\ EvaluateSignals(q, ctx) # << >>}})

-----------------------------------------------------------------------------
(* stats.ts *)

SumOf(set, field) == SumFunction([c \in set |-> c[field]])

RecoveryStats(candidates) ==
    [total |-> Cardinality(candidates),
     bySeverity |-> [s \in {"high", "medium", "low"} |->
                        Cardinality({c \in candidates : c.severity = s})],
     totalUpliftAud |-> SumOf(candidates, "estUplift"),
     totalArrears3yAud |-> SumOf(candidates, "estArrears3y")]
=============================================================================
