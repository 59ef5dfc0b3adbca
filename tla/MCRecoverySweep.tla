-------------------------- MODULE MCRecoverySweep --------------------------
(***************************************************************************)
(* One council with a miner who owns three properties, one row of another  *)
(* council, and feeds that repeat an entry, date one into the future, name *)
(* a cheaper category or the one already charged, and report a title that  *)
(* contradicts the roll.  A year is ten ticks, a dollar four units, so that*)
(* R1's uplift is no whole number of dollars.                              *)
(***************************************************************************)
EXTENDS RecoverySweep, TLC

CONSTANTS o1, o2, TPS, PH, miner, jane, MinerPtyLtd, Jane, Other,
          R1, R2, R3, V1, H1, X1, s1, ct1, ct2, lot1, lot2, ga

Row(an, owner, use, valuation, grv, uv, rates) ==
    [assessmentNumber |-> an, council |-> TPS, state |-> "WA", suburb |-> s1, owner |-> owner,
     landUse |-> use, valuation |-> valuation, grv |-> grv, uv |-> uv, annualRates |-> rates,
     pensionerRebate |-> FALSE, proprietor |-> Null, ct |-> Null, encumbrances |-> {},
     pins |-> {}, concession |-> Null]

r1 == Row(R1, miner, "Rural", 9, 13, 20, 40)
r2 == Row(R2, miner, "Rural", 3, Null, 5, 30)
r3 == Row(R3, jane, "Rural", 4, 8, 0, 30)
h1 == Row(H1, miner, "Residential", 4, 20, Null, 60)

MCRowsOf ==
    (R1 :> {r1})
    @@ (R2 :> {r2})
    @@ (R3 :> {[r3 EXCEPT !.proprietor = Jane, !.ct = ct1, !.pins = {lot1}]})
    @@ (V1 :> {Row(V1, jane, "Vacant", 2, Null, Null, 0)})
    @@ (H1 :> {h1, [h1 EXCEPT !.pensionerRebate = TRUE, !.proprietor = Jane,
                              !.concession = [wcStatus |-> "cancelled", cardExpiry |-> 1,
                                              livesElsewhere |-> TRUE]]})
    @@ (X1 :> {[Row(X1, jane, "Vacant", 5, 5, 5, 50) EXCEPT !.council = PH]})

m1 == [tenementId |-> "m1", type |-> "M", status |-> "Live", isProducing |-> TRUE,
       holder |-> Other, granted |-> -3, intersects |-> {R1, V1, X1}]
e1 == [tenementId |-> "e1", type |-> "E", status |-> "Live", isProducing |-> FALSE,
       holder |-> MinerPtyLtd, granted |-> 1, intersects |-> {R1, R2, H1}]
g1 == [tenementId |-> "g1", type |-> "G", status |-> "Live", isProducing |-> TRUE,
       holder |-> Other, granted |-> -1, intersects |-> {V1, H1}]
MCRegisters == {{m1, g1}, {m1, e1}}

\* A register on which no tenement meets the house.
MCRegistersOffTheHouse == {{m1}}

MCOwners ==
    (miner :> [name |-> MinerPtyLtd, abnStatus |-> "Cancelled", industryTerm |-> TRUE])
    @@ (jane :> [name |-> Jane, abnStatus |-> Null, industryTerm |-> FALSE])

Nothing(value) == [an \in DOMAIN MCRowsOf |-> value]
Entry(kind, use, at) == [kind |-> kind, correctLandUse |-> use, detectedAt |-> at]

NoFeeds == [lag |-> Nothing({}), discrepancies |-> Nothing({}), approved |-> {},
            changes |-> Nothing(<< >>), titles |-> Nothing(Null), deceased |-> {}]

\* A repeated entry; a cheaper category and a date one day into the future.
Changed ==
    [NoFeeds EXCEPT
        !.changes[R1] = <<Entry("change.construction_completed", Null, -5),
                          Entry("change.commercial_use_observed", "Commercial", -45),
                          Entry("change.commercial_use_observed", "Commercial", -95)>>,
        !.changes[R2] = <<Entry("change.renovation_detected", "Rural", -30)>>,
        !.changes[R3] = <<Entry("change.subdivision_detected", "Commercial", -10),
                          Entry("change.subdivision_detected", Null, 0)>>,
        !.changes[H1] = <<Entry("change.gru_revaluation_pending", "Vacant", 1)>>]

\* A date too far ahead, one that is not; a title that differs.
Contradicted ==
    [NoFeeds EXCEPT
        !.lag[R1] = {"low", "high"}, !.lag[R2] = {"low"},
        !.discrepancies[H1] = {"medium"}, !.approved = {"m1"}, !.deceased = {Jane},
        !.changes[R1] = <<Entry("change.construction_approved", "Commercial", 9)>>,
        !.changes[R2] = <<Entry("change.construction_completed", "MiningOther", -30)>>,
        !.titles[R3] = [proprietor |-> Other, ct |-> ct2, strataChildren |-> {lot1},
                        encumbrances |-> {ga},
                        pins |-> {[pin |-> lot1, landuse |-> "Rural", councilCode |-> PH],
                                  [pin |-> lot2, landuse |-> "Vacant", councilCode |-> Null]}]]

MCFeeds == {Changed, Contradicted}

MCBundled == [properties |-> {r1, h1},
              tenements |-> {m1}]

Line(rate, minimum, basis) == [rateInDollar |-> rate, minimumPayment |-> minimum, basis |-> basis]
MCRateTables ==
    (TPS :> ("Rural" :> Line(2, 30, "UV") @@ "Residential" :> Line(3, 20, "GRV")
             @@ "Vacant" :> Line(1, 20, "GRV") @@ "Commercial" :> Line(9, 50, "GRV")
             @@ "MiningOther" :> Line(6, 60, "UV") @@ [use \in LandUses |-> Null]))
    @@ (PH :> Null)

\* An admin's sweep does not depend on who else reads.
Symmetric == Permutations(Officers)
=============================================================================
