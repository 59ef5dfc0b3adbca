-------------------------- MODULE MCCouncilImports --------------------------
(***************************************************************************)
(* Two councils and an admin of one of them.  The rate file lists a code   *)
(* twice, a row without a year and one of another year; the title file     *)
(* splits a VEN of two PINs over rows that contradict each other and has   *)
(* one row without a VEN; the card file lists a card twice, a customer     *)
(* with and without a card, and a row the schema refuses.  The rows the    *)
(* short files are made of agree and contradict on each rule of merging.   *)
(***************************************************************************)
EXTENDS CouncilImports, TLC

CONSTANTS t1, t2, t3, TomPrice, PortHedland, officer, admin,
          fy25, fy26, grv, uv, v1, v2, a1, tom, ann, lot1, lot2, enc1, enc2, ct1, card, cust

Officer(c) == [tenantId |-> c, actorId |-> officer]
Admin == [tenantId |-> PortHedland, actorId |-> admin]
MCPrincipals == {Officer(TomPrice), Admin}
MCAdmins == {Admin}

RateRow(fy, code, rate) == [financialYear |-> fy, rateCode |-> code, rateInDollar |-> rate]
MCRateFiles ==
    {<<RateRow(None, grv, 1), RateRow(fy26, uv, 1), RateRow(fy25, grv, 2)>>,
     <<RateRow(None, uv, 3), RateRow(fy25, grv, None)>>}

TitleRow(ven, an, name, pin, area, ref, date, strata) ==
    [ven |-> ven, assessmentNumber |-> an, proprietorName |-> name, pin |-> pin,
     areaSqm |-> area, reference |-> ref, date |-> date, strataParent |-> strata]
MCTitleFiles ==
    {<<TitleRow(v1, a1, tom, lot2, 10, enc1, 1, None),
       TitleRow(None, a1, None, lot1, 20, None, None, None),
       TitleRow(v1, None, ann, lot1, 30, enc1, 2, ct1)>>}
MCTitleRows ==
    {TitleRow(v1, a1, tom, lot1, 10, None, None, None),
     TitleRow(v1, None, None, lot1, None, enc1, None, ct1),
     TitleRow(v1, None, ann, lot1, 20, None, None, None),
     TitleRow(v1, None, None, lot2, 20, enc1, 1, None),
     TitleRow(v1, None, tom, lot1, 10, enc2, 1, None),
     TitleRow(v1, None, None, None, None, enc1, 2, None),
     TitleRow(None, a1, tom, None, None, None, None, None),
     TitleRow(None, None, ann, lot1, 10, None, None, ct1),
     TitleRow(v2, None, tom, lot1, 20, enc1, 2, None)}

WcRow(customer, c, status) ==
    [customerId |-> customer, cardNumber |-> c, eligibilityStatus |-> status]
MCWcFiles ==
    {<<WcRow(cust, card, "active"), WcRow(cust, None, None), WcRow(cust, None, "active"),
       WcRow(cust, card, "cancelled")>>}

(***************************************************************************)
(* Tokens are interchangeable and no action reads uses, or of previews     *)
(* more than which tokens are fresh.                                       *)
(***************************************************************************)
Live == {tok \in Tokens : entries[tok] # None}
ImportsView ==
    <<now, Cardinality({tok \in Tokens : previews[tok] = None}),
      [e \in {entries[tok] : tok \in Live} |-> Cardinality({tok \in Live : entries[tok] = e})],
      mapVars, audit>>
=============================================================================
