--------------------------- MODULE MCPropertyRoll ---------------------------
(***************************************************************************)
(* Two councils with a property each.  A company owns in both, tom's name  *)
(* is in both rolls as two people.  The files rename an owner, list one    *)
(* number twice, bring a strata child, and carry the other council's       *)
(* number.                                                                 *)
(***************************************************************************)
EXTENDS PropertyRoll, TLC

CONSTANTS t1, t2, t3, t4, TomPrice, PortHedland, a1, a2, tom, acme, ct, officer

MCHome == a1 :> TomPrice @@ a2 :> PortHedland
Tom == [name |-> tom, abn |-> None]
TomPty == [name |-> tom, abn |-> acme]
MCPeople == {Tom, TomPty}
Row(an, who) == [assessmentNumber |-> an, who |-> who]

MCFiles == TomPrice :> {<<Row(a1, Tom), Row(<<a1, ct>>, TomPty)>>}
           @@ PortHedland :> {<<Row(a2, TomPty), Row(a2, Tom), Row(a1, Tom)>>}
MCChildCts == {<< >>, <<ct, ct>>}
Officers == {[tenantId |-> c, actorId |-> officer] : c \in {TomPrice, PortHedland}}
(***************************************************************************)
(* Tokens are interchangeable, no action reads uses, the audit, or of      *)
(* previews more than which tokens are fresh, and the invariants read no   *)
(* audit rows but those about the parents.                                 *)
(***************************************************************************)
Trail(parent) == SelectSeq(audit, LAMBDA row : row.action = "state.strata_conversion"
                                               /\ row.target = parent)
Fresh == {tok \in Tokens : previews[tok] = None}
Live == {tok \in Tokens : entries[tok] # None}
RollView ==
    <<now, Cardinality(Fresh),
      [e \in {entries[tok] : tok \in Live} |-> Cardinality({tok \in Live : entries[tok] = e})],
      properties, owners, lifecycles, [parent \in Parents |-> Trail(parent)]>>
=============================================================================
