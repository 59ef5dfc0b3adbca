----------------------------- MODULE MCTwoPhase -----------------------------
(***************************************************************************)
(* Sessions of two actors over a small DataStore.  One of two properties   *)
(* is on the roll at the start and has a note; the other has the number of *)
(* a strata child of it.  One file lists the first twice, one the other.   *)
(***************************************************************************)
EXTENDS TwoPhase, TLC

CONSTANTS t1, t2, tomPrice, alice, bob, n1, n2, a1, a2, note

OneSeeded == a1 :> << note >>
OneChild == a1 :> {a2} @@ a2 :> {}
TwoFiles == {<< a1, a1 >>, << a2 >>}

TwoPrincipals == {[tenantId |-> tomPrice, actorId |-> a] : a \in {alice, bob}}
SameKind == Permutations({alice, bob}) \cup Permutations(CouncilNames)

(***************************************************************************)
(* Tokens are interchangeable and no action reads uses, or of previews     *)
(* more than which tokens are fresh.                                       *)
(***************************************************************************)
Live == {tok \in Tokens : entries[tok] # None}
ToolsView ==
    <<now, Cardinality({tok \in Tokens : previews[tok] = None}),
      [e \in {entries[tok] : tok \in Live} |-> Cardinality({tok \in Live : entries[tok] = e})],
      dataVars>>
=============================================================================
