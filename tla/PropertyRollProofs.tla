------------------------- MODULE PropertyRollProofs -------------------------
(***************************************************************************)
(* Imports and strata conversions over any number of councils, properties, *)
(* files, officers and tokens: erasures survive imports, every property    *)
(* keeps a registered owner, imported rows land, conversions advance and   *)
(* are accounted for, and children are never duplicated.                   *)
(*                                                                         *)
(* What a fold computes is proved from its trace: the values it has on the *)
(* prefixes of its sequence.                                               *)
(***************************************************************************)
EXTENDS PropertyRoll, WellFoundedInduction, FiniteSetTheorems, TLAPS

StoreProofs == INSTANCE CommitTokensProofs WITH
            Mutations <- PendingMutations,
            Operations <- CommitOperations

-----------------------------------------------------------------------------
(* Owners *)

OwnersInv == owners \in [OwnerIds -> {None, "on record", "erased"}]
ErasedStay == \A id \in OwnerIds : owners[id] = "erased" => owners'[id] = "erased"

\* What each step may do to the owners: nothing, erase one, register some.
LEMMA OwnersStep ==
  ASSUME [Next]_vars
  PROVE  \/ UNCHANGED owners
         \/ \E id \in OwnerIds : owners' = [owners EXCEPT ![id] = "erased"]
         \/ \E new \in SUBSET OwnerIds :
               /\ \A id \in new : owners[id] = None
               /\ owners' = [id \in OwnerIds |->
                                IF id \in new THEN "on record" ELSE owners[id]]
<1>1. ASSUME NEW p \in Principals, NEW id \in OwnerIds, EraseOwner(p, id)
      PROVE  owners' = [owners EXCEPT ![id] = "erased"]
  BY <1>1 DEF EraseOwner
<1>2. ASSUME NEW p \in Principals, NEW c \in Councils,
             NEW strategy \in {"replace", "upsert"}, NEW tok \in Tokens,
             ImportConfirm(p, c, strategy, tok), owners' # owners
      PROVE  \E new \in SUBSET OwnerIds :
               /\ \A id \in new : owners[id] = None
               /\ owners' = [id \in OwnerIds |->
                                IF id \in new THEN "on record" ELSE owners[id]]
  <2> DEFINE new == NewOwners(c, entries[tok].mutation.rows) \cap OwnerIds
  <2>1. owners' = [id \in OwnerIds |-> IF id \in NewOwners(c, entries[tok].mutation.rows)
                                       THEN "on record" ELSE owners[id]]
    BY <1>2 DEF ImportConfirm, dataVars
  <2>2. owners' = [id \in OwnerIds |-> IF id \in new THEN "on record" ELSE owners[id]]
    BY <2>1
  <2>3. \A id \in new : owners[id] = None
    BY DEF NewOwners
  <2> QED
    BY <2>2, <2>3
<1>3. CASE owners' # owners
  <2>1. ASSUME NEW p \in Principals, NEW parent \in Parents, NEW toState \in ToStates
        PROVE  /\ \A childCts \in ChildCts : ~StrataPreview(p, parent, toState, childCts)
               /\ \A tok \in Tokens : ~StrataConfirm(p, parent, toState, tok)
    BY <1>3 DEF StrataPreview, StrataConfirm, IssueFor, dataVars
  <2>2. ASSUME NEW p \in Principals, NEW c \in Councils,
               NEW strategy \in {"replace", "upsert"}, NEW rows \in Files[c]
        PROVE  ~ImportPreview(p, c, strategy, rows)
    BY <1>3 DEF ImportPreview, IssueFor, dataVars
  <2>3. Next /\ ~Tick
    BY <1>3 DEF vars, dataVars, Tick
  <2>4. \/ \E p \in Principals, id \in OwnerIds : EraseOwner(p, id)
        \/ \E p \in Principals, c \in Councils, strategy \in {"replace", "upsert"},
              tok \in Tokens : ImportConfirm(p, c, strategy, tok)
    BY <2>1, <2>2, <2>3 DEF Next
  <2> QED
    BY <1>1, <1>2, <1>3, <2>4
<1> QED
  BY <1>3

(***************************************************************************)
(* No import and no conversion touches an erased owner, however old the    *)
(* preview it commits: rows only fill in owners that are not registered.   *)
(***************************************************************************)
THEOREM ErasureSurvivesImports == Spec => ImportsRespectErasure
<1>1. Init => OwnersInv
  BY DEF Init, OwnersInv
<1>2. ASSUME OwnersInv, [Next]_vars PROVE OwnersInv' /\ ErasedStay
  BY <1>2, OwnersStep, RollAssumption DEF OwnersInv, ErasedStay
<1>3. OwnersInv /\ [Next]_vars => OwnersInv'
  BY <1>2
<1>4. OwnersInv /\ [Next]_vars => [ErasedStay]_vars
  BY <1>2
<1> QED
  BY <1>1, <1>3, <1>4, PTL DEF Spec, ImportsRespectErasure, ErasedStay

-----------------------------------------------------------------------------
(* The store *)

LEMMA StoreAssumption ==
  /\ \A m \in PendingMutations : m.operation \in CommitOperations
  /\ TtlMs \in Nat \ {0}
  /\ MaxTime \in Nat
  /\ None \notin Store!Entry
  /\ None \notin Store!Preview
  BY RollAssumption DEF CommitOperations, PendingMutations,
     ImportMutations, StrataMutations

\* Every action of the tools is an action of the store, or leaves it alone.
LEMMA StepIsStoreStep ==
  ASSUME [Next]_vars PROVE [Store!Next]_(Store!vars)
<1> DEFINE StoreStep == [Store!Next]_(Store!vars)
<1>1. CASE Tick
  BY <1>1 DEF Tick, Store!Next
<1>2. ASSUME NEW p \in Principals, NEW id \in OwnerIds, EraseOwner(p, id)
      PROVE  StoreStep
  BY <1>2 DEF EraseOwner, storeVars, Store!vars
<1>3. ASSUME NEW p \in Principals, NEW m \in PendingMutations, IssueFor(p, m)
      PROVE  StoreStep
  BY <1>3 DEF IssueFor, Store!Next
<1>4. ASSUME NEW p \in Principals, NEW c \in Councils,
             NEW strategy \in {"replace", "upsert"}, NEW rows \in Files[c],
             ImportPreview(p, c, strategy, rows)
      PROVE  StoreStep
  <2>1. rows \in UNION Range(Files)
    BY RollAssumption DEF Range
  <2>2. [operation |-> "import_rating_roll", councilCode |-> c,
         mergeStrategy |-> strategy, rows |-> rows] \in PendingMutations
    BY <2>1 DEF PendingMutations, ImportMutations
  <2> QED
    BY <1>3, <1>4, <2>2 DEF ImportPreview
<1>5. ASSUME NEW p \in Principals, NEW parent \in Parents, NEW toState \in ToStates,
             NEW childCts \in ChildCts, StrataPreview(p, parent, toState, childCts)
      PROVE  StoreStep
  <2>1. [operation |-> "request_strata_conversion", parentAssessmentNumber |-> parent,
         toState |-> toState, childCts |-> childCts] \in PendingMutations
    BY DEF PendingMutations, StrataMutations
  <2> QED
    BY <1>3, <1>5, <2>1 DEF StrataPreview
<1>6. ASSUME NEW p \in Principals, NEW c \in Councils,
             NEW strategy \in {"replace", "upsert"}, NEW tok \in Tokens,
             ImportConfirm(p, c, strategy, tok)
      PROVE  StoreStep
  BY <1>6 DEF ImportConfirm, Store!Next, CommitOperations
<1>7. ASSUME NEW p \in Principals, NEW parent \in Parents, NEW toState \in ToStates,
             NEW tok \in Tokens, StrataConfirm(p, parent, toState, tok)
      PROVE  StoreStep
  BY <1>7 DEF StrataConfirm, Store!Next, CommitOperations
<1>8. CASE UNCHANGED vars
  BY <1>8 DEF vars, storeVars, Store!vars
<1> QED
  BY <1>1, <1>2, <1>4, <1>5, <1>6, <1>7, <1>8 DEF Next

LEMMA StoreInvariant == Spec => []StoreProofs!IInv
<1>1. Spec => StoreProofs!Spec
  <2>1. Init => StoreProofs!Init
    BY DEF Init, Store!Init, StoreProofs!Init
  <2>2. [Next]_vars => [StoreProofs!Next]_(StoreProofs!vars)
    BY StepIsStoreStep DEF Store!Next, Store!vars, StoreProofs!Next, StoreProofs!vars,
       Store!Tick, StoreProofs!Tick, Store!Issue, StoreProofs!Issue, Store!Consume,
       StoreProofs!Consume, Store!Gc, StoreProofs!Gc, Store!Verdict, StoreProofs!Verdict,
       Store!Remaining, StoreProofs!Remaining, Store!Without, StoreProofs!Without,
       Store!Expired, StoreProofs!Expired
  <2> QED
    BY <2>1, <2>2, PTL DEF Spec, StoreProofs!Spec
<1>2. StoreProofs!Spec => []StoreProofs!IInv
  BY StoreProofs!Inductive, StoreAssumption DEF StoreProofs!TokenAssumption,
     Store!Entry, Store!Preview, StoreProofs!Entry, StoreProofs!Preview
<1> QED
  BY <1>1, <1>2, PTL
-----------------------------------------------------------------------------
(* The conversions *)

LifecyclesInv == lifecycles \in [Parents -> StrataLifecycle \cup {None}]

LEMMA StateIsAState ==
  ASSUME LifecyclesInv, NEW parent \in Parents
  PROVE  LifecycleState(parent) \in DOMAIN STRATA_TRANSITIONS
  BY DEF LifecyclesInv, LifecycleState, StrataLifecycle, ToStates, STRATA_TRANSITIONS

\* The table of the handler only lets a conversion advance.
LEMMA TableAdvances ==
  ASSUME NEW from \in DOMAIN STRATA_TRANSITIONS, NEW to \in STRATA_TRANSITIONS[from]
  PROVE  Advances(from, to)
  BY DEF STRATA_TRANSITIONS, Advances, Stage

\* The titles a record keeps are well formed.
LEMMA RecordedTitles ==
  ASSUME NEW parent \in Parents, NEW toState, NEW cts \in Seq(Titles)
  PROVE  Recorded(parent, toState, cts)
           \in Seq([ct : Titles, childAssessmentNumber : AllNumbers \cup {None}])
<1>1. \A ct \in Titles : ChildAssessmentNumber(parent, ct) \in AllNumbers
  BY DEF AllNumbers
<1>2. DOMAIN cts = 1 .. Len(cts) /\ Len(cts) \in Nat /\ \A i \in 1 .. Len(cts) : cts[i] \in Titles
  OBVIOUS
<1> DEFINE Kid == [ct : Titles, childAssessmentNumber : AllNumbers \cup {None}]
           f(i) == [ct |-> cts[i], childAssessmentNumber |->
                      IF toState = "children_imported"
                      THEN ChildAssessmentNumber(parent, cts[i]) ELSE None]
<1>3. \A i \in 1 .. Len(cts) : f(i) \in Kid
  BY <1>1, <1>2
<1>4. Recorded(parent, toState, cts) = [i \in 1 .. Len(cts) |-> f(i)]
  BY <1>2 DEF Recorded
<1> HIDE DEF f, Kid
<1>5. [i \in 1 .. Len(cts) |-> f(i)] \in Seq(Kid)
  BY <1>2, <1>3
<1> QED
  BY <1>4, <1>5 DEF Kid

\* A confirm that commits files a well-formed record in the state asked for.
LEMMA ConfirmFilesARecord ==
  ASSUME LifecyclesInv, StoreProofs!IInv,
         NEW p \in Principals, NEW parent \in Parents, NEW toState \in ToStates,
         NEW tok \in Tokens, StrataConfirm(p, parent, toState, tok),
         ~ UNCHANGED dataVars
  PROVE  \E record \in StrataLifecycle :
           /\ record.state = toState
           /\ lifecycles' = [lifecycles EXCEPT ![parent] = record]
<1> DEFINE m == entries[tok].mutation
           before == lifecycles[parent]
           history == (IF before = None THEN << >> ELSE before.history) \o <<toState>>
           record == [state |-> toState, history |-> history,
                      childCts |-> Kept(parent, toState, m.childCts)]
<1>1. /\ Store!Verdict(tok, "request_strata_conversion", p) = "ok"
      /\ lifecycles' = [lifecycles EXCEPT ![parent] = record]
  BY DEF StrataConfirm, dataVars
<1>2. m \in StrataMutations
  <2>1. entries[tok] # None /\ m.operation = "request_strata_conversion"
    BY <1>1 DEF Store!Verdict
  <2>2. m \in PendingMutations
    BY <2>1 DEF StoreProofs!IInv, StoreProofs!TypeOK, StoreProofs!Entry
  <2> QED
    BY <2>1, <2>2 DEF PendingMutations, ImportMutations
<1>3. before \in StrataLifecycle \cup {None}
  BY DEF LifecyclesInv
<1>4. history \in Seq(ToStates)
  BY <1>3 DEF StrataLifecycle
<1>5. record.childCts \in Seq([ct : Titles, childAssessmentNumber : AllNumbers \cup {None}])
  <2>1. m.childCts \in Seq(Titles)
    BY <1>2, RollAssumption DEF StrataMutations
  <2>2. Recorded(parent, toState, m.childCts)
          \in Seq([ct : Titles, childAssessmentNumber : AllNumbers \cup {None}])
    BY <2>1, RecordedTitles
  <2> QED
    BY <1>3, <2>2 DEF Kept, StrataLifecycle
<1>6. record \in StrataLifecycle
  BY <1>4, <1>5 DEF StrataLifecycle
<1> QED
  BY <1>1, <1>6

OneStageOn ==
    \A parent \in Parents :
        lifecycles'[parent] # lifecycles[parent]
            => Advances(LifecycleState(parent), LifecycleState(parent)')

LEMMA ConversionStep ==
  ASSUME LifecyclesInv, StoreProofs!IInv, [Next]_vars
  PROVE  LifecyclesInv' /\ OneStageOn
<1>1. CASE UNCHANGED lifecycles
  BY <1>1 DEF LifecyclesInv, OneStageOn
<1>2. CASE lifecycles' # lifecycles
  <2>1. PICK p \in Principals, parent \in Parents, toState \in ToStates, tok \in Tokens :
          StrataConfirm(p, parent, toState, tok)
    <3>1. ASSUME NEW p \in Principals
          PROVE  /\ \A id \in OwnerIds : ~EraseOwner(p, id)
                 /\ \A c \in Councils, strategy \in {"replace", "upsert"} :
                      /\ \A rows \in Files[c] : ~ImportPreview(p, c, strategy, rows)
                      /\ \A tok \in Tokens : ~ImportConfirm(p, c, strategy, tok)
                 /\ \A parent \in Parents, toState \in ToStates, childCts \in ChildCts :
                      ~StrataPreview(p, parent, toState, childCts)
      BY <1>2 DEF EraseOwner, ImportPreview, ImportConfirm, StrataPreview, IssueFor, dataVars
    <3>2. Next /\ ~Tick
      BY <1>2 DEF vars, dataVars, Tick
    <3> QED
      BY <3>1, <3>2 DEF Next
  <2>2. PICK record \in StrataLifecycle :
          /\ record.state = toState
          /\ lifecycles' = [lifecycles EXCEPT ![parent] = record]
    BY <1>2, <2>1, ConfirmFilesARecord DEF dataVars
  <2>3. LifecyclesInv'
    BY <2>2 DEF LifecyclesInv
  <2>4. Advances(LifecycleState(parent), toState)
    BY <2>1, StateIsAState, TableAdvances DEF StrataConfirm, MayRequest
  <2>5. LifecycleState(parent)' = toState
    BY <2>2, RollAssumption DEF LifecyclesInv, LifecycleState
  <2>6. \A other \in Parents \ {parent} : lifecycles'[other] = lifecycles[other]
    BY <2>2 DEF LifecyclesInv
  <2> QED
    BY <2>3, <2>4, <2>5, <2>6 DEF OneStageOn
<1> QED
  BY <1>1, <1>2

(***************************************************************************)
(* However many previews and officers: a conversion moves one stage on at  *)
(* a time, and never leaves withdrawn or parent_superseded.                *)
(***************************************************************************)
THEOREM ConversionsAdvance == Spec => [][OneStageOn]_vars
<1>1. Init => LifecyclesInv
  BY DEF Init, LifecyclesInv
<1>2. LifecyclesInv /\ StoreProofs!IInv /\ [Next]_vars => LifecyclesInv'
  BY ConversionStep
<1>3. LifecyclesInv /\ StoreProofs!IInv /\ [Next]_vars => [OneStageOn]_vars
  BY ConversionStep
<1> QED
  BY <1>1, <1>2, <1>3, StoreInvariant, PTL DEF Spec

-----------------------------------------------------------------------------
(* The trail of the conversions *)

\* Where a conversion stands is where its past ends.
PastEnds == \A parent \in Parents : Past(parent)[Len(Past(parent))] = LifecycleState(parent)

TrailInv ==
    /\ LifecyclesInv /\ PastEnds
    /\ \E S : audit \in Seq(S)
    /\ StrataTrailIsLegal

\* What the trail says of one parent.
LegalTrail(parent) ==
    /\ Len(Past(parent)) = Cardinality(StrataRows(parent)) + 1
    /\ \A i \in StrataRows(parent) :
          LET rank == Cardinality({j \in StrataRows(parent) : j <= i}) IN
          /\ audit[i].before = Past(parent)[rank]
          /\ audit[i].after = Past(parent)[rank + 1]
          /\ Advances(audit[i].before, audit[i].after)

LEMMA RowIsLast ==
  ASSUME NEW S, audit \in Seq(S), NEW row, audit' = Append(audit, row)
  PROVE  /\ \E T : audit' \in Seq(T)
         /\ Len(audit) \in Nat /\ audit'[Len(audit) + 1] = row
         /\ \A i \in 1 .. Len(audit) : audit'[i] = audit[i]
         /\ DOMAIN audit = 1 .. Len(audit) /\ DOMAIN audit' = 1 .. Len(audit) + 1
<1>1. audit \in Seq(S \cup {row}) /\ row \in S \cup {row}
  OBVIOUS
<1>2. audit' \in Seq(S \cup {row})
  BY <1>1
<1> QED
  BY <1>2

LEMMA StrataRowsAreFinite ==
  ASSUME NEW S, audit \in Seq(S), NEW parent
  PROVE  /\ StrataRows(parent) \subseteq 1 .. Len(audit)
         /\ \A T \in SUBSET StrataRows(parent) : IsFiniteSet(T) /\ Cardinality(T) \in Nat
<1>1. StrataRows(parent) \subseteq 1 .. Len(audit) /\ Len(audit) \in Nat
  BY DEF StrataRows
<1>2. IsFiniteSet(1 .. Len(audit))
  BY <1>1, FS_Interval
<1> QED
  BY <1>1, <1>2, FS_Subset, FS_CardinalityType

LEMMA PastIsASequence ==
  ASSUME LifecyclesInv, NEW parent \in Parents
  PROVE  /\ Past(parent) \in Seq(ToStates \cup {"parent_strata_detected"})
         /\ Len(Past(parent)) \in Nat \ {0}
<1>1. CASE lifecycles[parent] = None
  BY <1>1 DEF Past
<1>2. CASE lifecycles[parent] # None
  <2>1. lifecycles[parent].history \in Seq(ToStates)
    BY <1>2 DEF LifecyclesInv, StrataLifecycle
  <2> QED
    BY <1>2, <2>1 DEF Past
<1> QED
  BY <1>1, <1>2

\* A row about something else leaves a parent's trail as it was.
LEMMA OtherRowKeepsTrail ==
  ASSUME TrailInv, NEW row, NEW parent \in Parents,
         row.action # "state.strata_conversion" \/ row.target # parent,
         audit' = Append(audit, row), lifecycles'[parent] = lifecycles[parent]
  PROVE  LegalTrail(parent)'
<1>1. PICK S : audit \in Seq(S)
  BY DEF TrailInv
<1>2. /\ Len(audit) \in Nat /\ audit'[Len(audit) + 1] = row
      /\ \A i \in 1 .. Len(audit) : audit'[i] = audit[i]
      /\ DOMAIN audit = 1 .. Len(audit) /\ DOMAIN audit' = 1 .. Len(audit) + 1
  BY <1>1, RowIsLast
<1>3. StrataRows(parent)' = StrataRows(parent)
  BY <1>2 DEF StrataRows
<1>4. \A i \in StrataRows(parent) : audit'[i] = audit[i]
  BY <1>2 DEF StrataRows
<1>5. Past(parent)' = Past(parent)
  BY DEF Past
<1>6. LegalTrail(parent)
  BY DEF TrailInv, StrataTrailIsLegal, LegalTrail
<1> QED
  BY <1>3, <1>4, <1>5, <1>6 DEF LegalTrail

\* A stage and its row.
LEMMA StageKeepsTrail ==
  ASSUME TrailInv, NEW row, NEW parent \in Parents, NEW toState \in ToStates,
         row.action = "state.strata_conversion", row.target = parent,
         row.before = LifecycleState(parent), row.after = toState,
         Advances(LifecycleState(parent), toState),
         audit' = Append(audit, row), Past(parent)' = Append(Past(parent), toState)
  PROVE  LegalTrail(parent)'
<1> DEFINE n == Len(audit)
           R == StrataRows(parent)
           P == Past(parent)
<1>1. PICK S : audit \in Seq(S)
  BY DEF TrailInv
<1>2. /\ n \in Nat /\ audit'[n + 1] = row
      /\ \A i \in 1 .. n : audit'[i] = audit[i]
      /\ DOMAIN audit = 1 .. n /\ DOMAIN audit' = 1 .. n + 1
  BY <1>1, RowIsLast
<1>3. R' = R \cup {n + 1}
  BY <1>2 DEF StrataRows
<1>4. R \subseteq 1 .. n /\ \A T \in SUBSET R : IsFiniteSet(T) /\ Cardinality(T) \in Nat
  BY <1>1, StrataRowsAreFinite
<1>5. LegalTrail(parent) /\ P[Len(P)] = LifecycleState(parent)
  BY DEF TrailInv, PastEnds, StrataTrailIsLegal, LegalTrail
<1>6. P \in Seq(ToStates \cup {"parent_strata_detected"}) /\ Len(P) \in Nat \ {0}
  BY PastIsASequence DEF TrailInv
<1>7. /\ Len(P') = Len(P) + 1 /\ P'[Len(P) + 1] = toState
      /\ \A k \in 1 .. Len(P) : P'[k] = P[k]
  BY <1>6
<1>8. /\ Len(P) = Cardinality(R) + 1 /\ Cardinality(R) \in Nat
      /\ \A i \in R : LET rank == Cardinality({j \in R : j <= i}) IN
            /\ audit[i].before = P[rank] /\ audit[i].after = P[rank + 1]
            /\ Advances(audit[i].before, audit[i].after)
  BY <1>4, <1>5 DEF LegalTrail
<1>9. /\ P[Len(P)] = row.before /\ P'[Len(P) + 1] = row.after
      /\ Advances(row.before, row.after)
  BY <1>5, <1>7
<1> HIDE DEF R, P, n
<1>10. Cardinality(R') = Cardinality(R) + 1
  <2>1. n + 1 \notin R
    BY <1>2, <1>4
  <2> QED
    BY <2>1, <1>3, <1>4, FS_AddElement
<1>11. ASSUME NEW i \in R
       PROVE  LET rank == Cardinality({j \in R : j <= i}) IN
              rank \in 1 .. Cardinality(R)
  <2> DEFINE below == {j \in R : j <= i}
  <2>1. below \in SUBSET R /\ i \in below /\ IsFiniteSet(R)
    BY <1>2, <1>4
  <2>2. IsFiniteSet(below) /\ Cardinality(below) <= Cardinality(R) /\ Cardinality(below) \in Nat
    BY <2>1, <1>4, FS_Subset
  <2>3. Cardinality(below) # 0
    BY <2>1, <2>2, FS_EmptySet
  <2> QED
    BY <2>2, <2>3, <1>8
<1>12. ASSUME NEW i \in R'
       PROVE  LET rank == Cardinality({j \in R' : j <= i}) IN
              /\ audit'[i].before = P'[rank] /\ audit'[i].after = P'[rank + 1]
              /\ Advances(audit'[i].before, audit'[i].after)
  <2>1. CASE i \in R
    <3> DEFINE rank == Cardinality({j \in R : j <= i})
    <3>1. {j \in R' : j <= i} = {j \in R : j <= i} /\ audit'[i] = audit[i]
      BY <2>1, <1>2, <1>3, <1>4
    <3>2. rank \in 1 .. Cardinality(R)
      BY <2>1, <1>11
    <3>3. /\ audit[i].before = P[rank] /\ audit[i].after = P[rank + 1]
          /\ Advances(audit[i].before, audit[i].after)
      BY <2>1, <1>8
    <3> HIDE DEF rank
    <3>4. P'[rank] = P[rank] /\ P'[rank + 1] = P[rank + 1]
      BY <3>2, <1>7, <1>8
    <3>5. Cardinality({j \in R' : j <= i}) = rank
      BY <3>1 DEF rank
    <3> QED
      BY <3>1, <3>3, <3>4, <3>5
  <2>2. CASE i = n + 1
    <3>1. \A j \in R' : j <= i
      BY <2>2, <1>2, <1>3, <1>4
    <3>2. {j \in R' : j <= i} = R'
      BY <3>1
    <3>3. audit'[i] = row
      BY <2>2, <1>2
    <3>4. Cardinality({j \in R' : j <= i}) = Len(P)
      BY <3>2, <1>8, <1>10
    <3>5. P'[Len(P)] = row.before
      BY <1>7, <1>8, <1>9
    <3> QED
      BY <3>3, <3>4, <3>5, <1>9
  <2> QED
    BY <2>1, <2>2, <1>3
<1>13. Len(P') = Cardinality(R') + 1
  BY <1>7, <1>8, <1>10
<1> QED
  BY <1>12, <1>13 DEF R, P, LegalTrail

LEMMA StepKeepsTrail ==
  ASSUME TrailInv, StoreProofs!IInv, [Next]_vars
  PROVE  TrailInv'
<1> USE DEF dataVars
<1>0. LifecyclesInv' /\ OneStageOn
  BY ConversionStep DEF TrailInv
<1>1. CASE UNCHANGED <<lifecycles, audit>>
  <2>1. \A parent \in Parents :
           /\ StrataRows(parent)' = StrataRows(parent) /\ Past(parent)' = Past(parent)
           /\ LifecycleState(parent)' = LifecycleState(parent)
    BY <1>1 DEF StrataRows, Past, LifecycleState
  <2>2. StrataTrailIsLegal'
    BY <1>1, <2>1 DEF TrailInv, StrataTrailIsLegal, LegalTrail
  <2>3. PastEnds'
    BY <1>1, <2>1 DEF TrailInv, PastEnds
  <2> QED
    BY <1>0, <1>1, <2>2, <2>3 DEF TrailInv
<1>2. ASSUME NEW row, audit' = Append(audit, row), UNCHANGED lifecycles,
             row.action # "state.strata_conversion"
      PROVE  TrailInv'
  <2>1. \E T : audit' \in Seq(T)
    BY <1>2, RowIsLast DEF TrailInv
  <2>2. PastEnds'
    BY <1>2 DEF TrailInv, PastEnds, Past, LifecycleState
  <2>3. StrataTrailIsLegal'
    BY <1>2, OtherRowKeepsTrail DEF StrataTrailIsLegal, LegalTrail
  <2> QED
    BY <1>0, <2>1, <2>2, <2>3 DEF TrailInv
<1>3. ASSUME NEW p \in Principals, NEW id \in OwnerIds, EraseOwner(p, id)
      PROVE  TrailInv'
  BY <1>2, <1>3 DEF EraseOwner
<1>4. ASSUME NEW p \in Principals, NEW c \in Councils,
             NEW strategy \in {"replace", "upsert"}, NEW tok \in Tokens,
             ImportConfirm(p, c, strategy, tok)
      PROVE  TrailInv'
  BY <1>1, <1>2, <1>4 DEF ImportConfirm
<1>5. ASSUME NEW p \in Principals, NEW parent \in Parents, NEW toState \in ToStates,
             NEW tok \in Tokens, StrataConfirm(p, parent, toState, tok)
      PROVE  TrailInv'
  <2>1. CASE UNCHANGED dataVars
    BY <2>1, <1>1
  <2>2. CASE ~UNCHANGED dataVars
    <3> DEFINE m == entries[tok].mutation
               before == lifecycles[parent]
               past == IF before = None THEN << >> ELSE before.history
               record == [state |-> toState, history |-> past \o <<toState>>,
                          childCts |-> Kept(parent, toState, m.childCts)]
               row == [action |-> "state.strata_conversion", by |-> p, target |-> parent,
                       before |-> LifecycleState(parent), after |-> toState]
    <3>1. /\ lifecycles' = [lifecycles EXCEPT ![parent] = record]
          /\ audit' = Append(audit, row)
          /\ toState \in STRATA_TRANSITIONS[LifecycleState(parent)]
      BY <1>5, <2>2 DEF StrataConfirm, MayRequest
    <3>2. /\ lifecycles'[parent] = record
          /\ \A other \in Parents \ {parent} : lifecycles'[other] = lifecycles[other]
      BY <3>1 DEF TrailInv, LifecyclesInv
    <3>3. past \in Seq(ToStates)
      BY DEF TrailInv, LifecyclesInv, StrataLifecycle
    <3>4. record # None
      <4>1. PICK r \in StrataLifecycle : lifecycles' = [lifecycles EXCEPT ![parent] = r]
        BY <1>5, <2>2, ConfirmFilesARecord DEF TrailInv
      <4>2. lifecycles'[parent] = r
        BY <4>1 DEF TrailInv, LifecyclesInv
      <4> QED
        BY <4>2, <3>2, RollAssumption
    <3>5. /\ row.action = "state.strata_conversion" /\ row.target = parent
          /\ row.before = LifecycleState(parent) /\ row.after = toState
          /\ record.state = toState /\ record.history = past \o <<toState>>
      OBVIOUS
    <3>6. Past(parent) = <<"parent_strata_detected">> \o past
      BY DEF Past
    <3> HIDE DEF record, row, past
    <3>7. Past(parent)' = <<"parent_strata_detected">> \o (past \o <<toState>>)
      BY <3>2, <3>4, <3>5 DEF Past
    <3>8. Past(parent)' = Append(Past(parent), toState)
      BY <3>3, <3>6, <3>7
    <3>9. Advances(LifecycleState(parent), toState)
      BY <3>1, StateIsAState, TableAdvances DEF TrailInv
    <3>10. StrataTrailIsLegal'
      <4> SUFFICES ASSUME NEW x \in Parents
                   PROVE  LegalTrail(x)'
        BY DEF StrataTrailIsLegal, LegalTrail
      <4>1. CASE x = parent
        BY <4>1, <3>1, <3>5, <3>8, <3>9, StageKeepsTrail
      <4>2. CASE x # parent
        BY <4>2, <3>1, <3>2, <3>5, OtherRowKeepsTrail
      <4> QED
        BY <4>1, <4>2
    <3>11. PastEnds'
      <4> SUFFICES ASSUME NEW x \in Parents
                   PROVE  Past(x)'[Len(Past(x)')] = LifecycleState(x)'
        BY DEF PastEnds
      <4>1. CASE x = parent
        <5>1. LifecycleState(parent)' = toState
          BY <3>2, <3>4, <3>5 DEF LifecycleState
        <5>2. Past(parent) \in Seq(ToStates \cup {"parent_strata_detected"})
          BY PastIsASequence DEF TrailInv
        <5> QED
          BY <4>1, <5>1, <5>2, <3>8
      <4>2. CASE x # parent
        BY <4>2, <3>2 DEF TrailInv, PastEnds, Past, LifecycleState
      <4> QED
        BY <4>1, <4>2
    <3>12. \E T : audit' \in Seq(T)
      BY <3>1, RowIsLast DEF TrailInv
    <3> QED
      BY <1>0, <3>10, <3>11, <3>12 DEF TrailInv
  <2> QED
    BY <2>1, <2>2
<1>6. CASE UNCHANGED vars
  BY <1>1, <1>6 DEF vars
<1>7. ASSUME NEW p \in Principals, NEW m, IssueFor(p, m)
      PROVE  TrailInv'
  BY <1>1, <1>7 DEF IssueFor
<1> QED
  BY <1>1, <1>3, <1>4, <1>5, <1>6, <1>7 DEF Next, Tick, ImportPreview, StrataPreview

(***************************************************************************)
(* The audit rows of a conversion are its history, stage by stage, and     *)
(* each advances from where the one before it ended.                       *)
(***************************************************************************)
THEOREM ConversionsAreAccountedFor == Spec => []StrataTrailIsLegal
<1>1. ASSUME Init PROVE TrailInv
  <2>1. audit = << >> /\ \A parent \in Parents : lifecycles[parent] = None
    BY <1>1 DEF Init
  <2>2. ASSUME NEW parent \in Parents
        PROVE  /\ StrataRows(parent) = {} /\ Past(parent) = <<"parent_strata_detected">>
               /\ LifecycleState(parent) = "parent_strata_detected"
    <3>1. StrataRows(parent) = {}
      BY <2>1 DEF StrataRows
    <3>2. Past(parent) = <<"parent_strata_detected">> \o << >>
      BY <2>1 DEF Past
    <3>3. LifecycleState(parent) = "parent_strata_detected"
      BY <2>1 DEF LifecycleState
    <3> QED
      BY <3>1, <3>2, <3>3
  <2>3. StrataTrailIsLegal
    <3> SUFFICES ASSUME NEW parent \in Parents
                 PROVE  LegalTrail(parent)
      BY DEF StrataTrailIsLegal, LegalTrail
    <3>1. Cardinality(StrataRows(parent)) = 0
      BY <2>2, FS_EmptySet
    <3>2. Len(Past(parent)) = 1
      BY <2>2
    <3> QED
      BY <2>2, <3>1, <3>2 DEF LegalTrail
  <2>4. PastEnds
    BY <2>2 DEF PastEnds
  <2>5. LifecyclesInv
    BY <1>1 DEF Init, LifecyclesInv
  <2>6. \E T : audit \in Seq(T)
    <3>1. audit \in Seq({})
      BY <2>1
    <3> QED
      BY <3>1
  <2> QED
    BY <2>3, <2>4, <2>5, <2>6 DEF TrailInv
<1>2. TrailInv /\ StoreProofs!IInv /\ [Next]_vars => TrailInv'
  BY StepKeepsTrail
<1>3. TrailInv => StrataTrailIsLegal
  BY DEF TrailInv
<1> QED
  BY <1>1, <1>2, <1>3, StoreInvariant, PTL DEF Spec
-----------------------------------------------------------------------------
(* Folds *)

\* Induction over the naturals, over a set of numbers rather than a predicate.
LEMMA Counting ==
  ASSUME NEW G, 0 \in G, \A n \in Nat : n \in G => n + 1 \in G
  PROVE  Nat \subseteq G
<1> DEFINE B == Nat \ G
<1> SUFFICES ASSUME B # {} PROVE FALSE
  OBVIOUS
<1>1. IsWellFoundedOn(OpToRel(<, Nat), Nat)
  BY NatLessThanWellFounded
<1>2. B \subseteq Nat
  OBVIOUS
<1> HIDE DEF B
<1>3. PICK x \in B : \A y \in B : ~ (<<y, x>> \in OpToRel(<, Nat))
  <2> HIDE DEF OpToRel
  <2> QED
    BY <1>1, <1>2, WFMin
<1>4. x \in Nat /\ x # 0 /\ x \notin G
  BY DEF B
<1>5. x - 1 \in Nat /\ x - 1 < x
  BY <1>4
<1>6. x - 1 \notin B
  BY <1>3, <1>4, <1>5 DEF OpToRel
<1>7. x - 1 \in G
  BY <1>5, <1>6 DEF B
<1>8. (x - 1) + 1 \in G
  BY <1>5, <1>7
<1> QED
  BY <1>4, <1>8

\* What a recursion over the subsets of T picks, and does with what it picks.
Picks(T, pick) == \A s \in SUBSET T : s # {} => pick[s] \in s
Steps(T, X, step) == \A t \in T : \A x \in X : step[<<t, x>>] \in X
Recursion(T, base, pick, step, it) ==
    \A s \in SUBSET T :
        it[s] = IF s = {} THEN base ELSE step[<<pick[s], it[s \ {pick[s]}]>>]

\* A recursion that takes one element off a finite set at a time has a value.
LEMMA SetRecursion ==
  ASSUME NEW T, IsFiniteSet(T), NEW X, NEW base \in X,
         NEW pick, Picks(T, pick), NEW step, Steps(T, X, step)
  PROVE  \E it \in [SUBSET T -> X] : Recursion(T, base, pick, step, it)
<1> USE DEF Picks, Steps, Recursion
<1> DEFINE Upto(n) == {s \in SUBSET T : Cardinality(s) <= n}
           Good(it, n) == \A s \in Upto(n) :
              it[s] = IF s = {} THEN base ELSE step[<<pick[s], it[s \ {pick[s]}]>>]
           G == {n \in Nat : \E it \in [Upto(n) -> X] : Good(it, n)}
<1>1. \A s \in SUBSET T : /\ IsFiniteSet(s) /\ Cardinality(s) \in Nat
                          /\ Cardinality(s) <= Cardinality(T)
                          /\ Cardinality(s) = 0 <=> s = {}
  BY FS_Subset, FS_CardinalityType, FS_EmptySet
<1>2. \A s \in SUBSET T : s # {} => Cardinality(s \ {pick[s]}) = Cardinality(s) - 1
  BY <1>1, FS_RemoveElement
<1>3. 0 \in G
  <2> DEFINE z == [s \in Upto(0) |-> base]
  <2>1. \A s \in Upto(0) : s = {}
    BY <1>1
  <2>2. z \in [Upto(0) -> X] /\ Good(z, 0)
    BY <2>1
  <2> HIDE DEF z, Good, Upto
  <2> QED
    BY <2>2
<1>4. ASSUME NEW n \in Nat, n \in G
      PROVE  n + 1 \in G
  <2>1. PICK it \in [Upto(n) -> X] : Good(it, n)
    BY <1>4
  <2> DEFINE v(s) == IF Cardinality(s) <= n THEN it[s]
                     ELSE step[<<pick[s], it[s \ {pick[s]}]>>]
             nxt == [s \in Upto(n + 1) |-> v(s)]
  <2>2. \A s \in Upto(n + 1) : s # {} => s \ {pick[s]} \in Upto(n)
    BY <1>1, <1>2
  <2>3. \A s \in Upto(n + 1) : Cardinality(s) <= n => s \in Upto(n)
    OBVIOUS
  <2>4. \A s \in Upto(n) : s \in Upto(n + 1) /\ Cardinality(s) <= n
    BY <1>1
  <2>5. ASSUME NEW s \in Upto(n + 1)
        PROVE  v(s) \in X
    <3>1. CASE Cardinality(s) <= n
      BY <3>1, <2>3
    <3>2. CASE ~ (Cardinality(s) <= n)
      <4>1. s # {} /\ s \in SUBSET T
        BY <3>2, <1>1
      <4>2. it[s \ {pick[s]}] \in X /\ pick[s] \in T
        BY <4>1, <2>2
      <4> QED
        BY <3>2, <4>2
    <3> QED
      BY <3>1, <3>2
  <2>6. nxt \in [Upto(n + 1) -> X]
    BY <2>5
  <2>7. ASSUME NEW s \in Upto(n + 1)
        PROVE  nxt[s] = IF s = {} THEN base ELSE step[<<pick[s], nxt[s \ {pick[s]}]>>]
    <3>1. nxt[s] = v(s)
      OBVIOUS
    <3>2. CASE s = {}
      <4>1. s \in Upto(n)
        BY <3>2, <1>1
      <4>2. v(s) = it[s]
        BY <4>1, <2>4
      <4>3. it[s] = base
        BY <4>1, <3>2, <2>1
      <4> QED
        BY <3>1, <3>2, <4>2, <4>3
    <3>3. CASE s # {}
      <4> DEFINE r == s \ {pick[s]}
      <4>1. r \in Upto(n)
        BY <3>3, <2>2
      <4>2. r \in Upto(n + 1) /\ Cardinality(r) <= n
        BY <4>1, <2>4
      <4>3. nxt[r] = it[r]
        BY <4>2
      <4>4. v(s) = step[<<pick[s], it[r]>>]
        <5>1. CASE Cardinality(s) <= n
          BY <5>1, <3>3, <2>1, <2>3
        <5>2. CASE ~ (Cardinality(s) <= n)
          BY <5>2
        <5> QED
          BY <5>1, <5>2
      <4> QED
        BY <3>1, <3>3, <4>3, <4>4
    <3> QED
      BY <3>2, <3>3
  <2> HIDE DEF nxt, Upto
  <2>8. Good(nxt, n + 1)
    BY <2>7
  <2> HIDE DEF Good
  <2> QED
    BY <2>6, <2>8
<1> HIDE DEF G
<1>5. Cardinality(T) \in G
  BY <1>1, <1>3, <1>4, Counting, FS_CardinalityType
<1> USE DEF G
<1>6. PICK it \in [Upto(Cardinality(T)) -> X] : Good(it, Cardinality(T))
  BY <1>5
<1>7. Upto(Cardinality(T)) = SUBSET T
  BY <1>1
<1> QED
  BY <1>6, <1>7
\* The last place of a prefix, and of any places.
LEMMA MaxOfPrefix ==
  ASSUME NEW n \in Nat, n # 0
  PROVE  Max(1 .. n) = n
BY DEF Max

LEMMA MaxOfSubset ==
  ASSUME NEW n \in Nat, NEW s \in SUBSET (1 .. n), s # {}
  PROVE  Max(s) \in s
<1> DEFINE R == {n - x : x \in s}
<1>1. IsWellFoundedOn(OpToRel(<, Nat), Nat)
  BY NatLessThanWellFounded
<1>2. R \in SUBSET Nat /\ R # {}
  <2>1. \A x \in s : n - x \in Nat
    OBVIOUS
  <2> QED
    BY <2>1
<1> HIDE DEF R
<1>3. PICK m \in R : \A y \in R : ~ (<<y, m>> \in OpToRel(<, Nat))
  <2> HIDE DEF OpToRel
  <2> QED
    BY <1>1, <1>2, WFMin
<1> USE DEF R
<1>4. PICK x \in s : m = n - x
  BY <1>3
<1>5. \A y \in s : x >= y
  <2> SUFFICES ASSUME NEW y \in s PROVE x >= y
    OBVIOUS
  <2>1. n - y \in R /\ n - y \in Nat /\ m \in Nat
    BY <1>4
  <2>2. ~ (n - y < m)
    BY <1>3, <2>1 DEF OpToRel
  <2> QED
    BY <1>4, <2>1, <2>2
<1> QED
  BY <1>5 DEF Max

\* A fold that takes the last place off first, and its values on the prefixes.
Folds(n, base, step, it) ==
    \A s \in SUBSET (1 .. n) :
        it[s] = IF s = {} THEN base ELSE step[<<Max(s), it[s \ {Max(s)}]>>]

\* A fold over n places whose steps are given by a function has a value.
LEMMA FoldHasAValue ==
  ASSUME NEW X, NEW base \in X, NEW n \in Nat, NEW step, Steps(1 .. n, X, step)
  PROVE  \E it \in [SUBSET (1 .. n) -> X] : Folds(n, base, step, it)
<1> DEFINE pick == [s \in SUBSET (1 .. n) |-> Max(s)]
<1>1. IsFiniteSet(1 .. n)
  BY FS_Interval
<1>2. Picks(1 .. n, pick)
  BY MaxOfSubset DEF Picks
<1>3. \A s \in SUBSET (1 .. n) : pick[s] = Max(s)
  OBVIOUS
<1> HIDE DEF pick
<1>4. PICK it \in [SUBSET (1 .. n) -> X] : Recursion(1 .. n, base, pick, step, it)
  BY <1>1, <1>2, SetRecursion
<1>5. Folds(n, base, step, it)
  BY <1>3, <1>4 DEF Recursion, Folds
<1> QED
  BY <1>5

PartlyFolds(n, X, base, step, it) ==
    /\ it[{}] = base
    /\ \A s \in SUBSET (1 .. n) :
          s # {} /\ it[s \ {Max(s)}] \in X => it[s] = step[<<Max(s), it[s \ {Max(s)}]>>]
Traces(n, base, step, h) ==
    h[0] = base /\ \A i \in 1 .. n : h[i] = step[<<i, h[i - 1]>>]

LEMMA FoldTrace ==
  ASSUME NEW X, NEW base \in X, NEW n \in Nat,
         NEW step, Steps(1 .. n, X, step), NEW iter, PartlyFolds(n, X, base, step, iter)
  PROVE  \E h \in [0 .. n -> X] : Traces(n, base, step, h) /\ h[n] = iter[1 .. n]
<1> USE DEF Steps, PartlyFolds, Traces
<1> DEFINE h == [i \in 0 .. n |-> iter[1 .. i]]
<1>1. iter[1 .. 0] = base
  <2>1. 1 .. 0 = {}
    OBVIOUS
  <2> QED
    BY <2>1
<1>2. ASSUME NEW i \in 1 .. n, iter[1 .. i - 1] \in X
      PROVE  iter[1 .. i] = step[<<i, iter[1 .. i - 1]>>]
  <2>1. 1 .. i \in SUBSET (1 .. n)
    OBVIOUS
  <2>2. (1 .. i) \ {i} = 1 .. i - 1 /\ 1 .. i # {}
    OBVIOUS
  <2>3. Max(1 .. i) = i
    BY MaxOfPrefix
  <2> QED
    BY <1>2, <2>1, <2>2, <2>3
<1>3. \A i \in 0 .. n : iter[1 .. i] \in X
  <2> DEFINE G == {i \in Nat : i <= n => iter[1 .. i] \in X}
  <2>1. 0 \in G
    BY <1>1
  <2>2. ASSUME NEW i \in Nat, i \in G
        PROVE  i + 1 \in G
    <3>1. CASE i + 1 <= n
      <4>1. i <= n /\ i + 1 \in 1 .. n /\ (i + 1) - 1 = i
        BY <3>1
      <4>2. iter[1 .. i] \in X
        BY <2>2, <4>1
      <4>3. iter[1 .. i + 1] = step[<<i + 1, iter[1 .. i]>>]
        BY <4>1, <4>2, <1>2
      <4> QED
        BY <4>1, <4>2, <4>3
    <3> QED
      BY <3>1
  <2> HIDE DEF G
  <2>3. Nat \subseteq G
    BY <2>1, <2>2, Counting
  <2> QED
    BY <2>3 DEF G
<1>4. h \in [0 .. n -> X]
  BY <1>3
<1>5. \A i \in 1 .. n : i \in 0 .. n /\ i - 1 \in 0 .. n
  OBVIOUS
<1>6. h[0] = base /\ h[n] = iter[1 .. n]
  BY <1>1
<1>7. ASSUME NEW i \in 1 .. n
      PROVE  h[i] = step[<<i, h[i - 1]>>]
  BY <1>2, <1>3, <1>5
<1>8. Traces(n, base, step, h)
  BY <1>6, <1>7
<1> HIDE DEF h, Traces
<1> QED
  BY <1>4, <1>6, <1>8

\* The values SetAll goes through.
SetsStay(X, Y) == \A m \in X : \A r \in Y : MapSet(m, r) \in X
MapSetTrace(X, base, seq, h) ==
    /\ h \in [0 .. Len(seq) -> X]
    /\ h[0] = base /\ h[Len(seq)] = SetAll(base, seq)
    /\ \A i \in 1 .. Len(seq) : h[i] = MapSet(h[i - 1], seq[i])

LEMMA MapSetPartlyFolds ==
  ASSUME NEW X, NEW base \in X, NEW Y, NEW seq \in Seq(Y),
         SetsStay(X, Y)
  PROVE  \E step, iter :
           /\ \A i \in 1 .. Len(seq) : \A x \in X : step[<<i, x>>] = MapSet(x, seq[i])
           /\ Steps(1 .. Len(seq), X, step) /\ PartlyFolds(Len(seq), X, base, step, iter)
           /\ SetAll(base, seq) = iter[1 .. Len(seq)]
<1> DEFINE n == Len(seq)
           Eq(it) == it = [s \in SUBSET (1 .. n) |->
                             IF s = {} THEN base
                             ELSE MapSet(it[s \ {Max(s)}], seq[Max(s)])]
           iter == CHOOSE it : Eq(it)
           step == [tx \in (1 .. n) \X X |-> MapSet(tx[2], seq[tx[1]])]
<1>1. n \in Nat /\ DOMAIN seq = 1 .. n
  OBVIOUS
<1>2. SetAll(base, seq) = iter[1 .. n]
  BY <1>1, Zenon DEF SetAll, FoldLeft, MapThenFoldSet
<1>3. \A i \in 1 .. n : \A x \in X : /\ step[<<i, x>>] = MapSet(x, seq[i])
                                     /\ step[<<i, x>>] \in X
  BY <1>1 DEF SetsStay
<1>4. \A s \in SUBSET (1 .. n) : s # {} => Max(s) \in 1 .. n /\ s \ {Max(s)} \in SUBSET (1 .. n)
  BY <1>1, MaxOfSubset
<1> HIDE DEF step, n
<1>5. Steps(1 .. n, X, step)
  BY <1>3 DEF Steps
<1>6. PICK it \in [SUBSET (1 .. n) -> X] : Folds(n, base, step, it)
  BY <1>1, <1>5, FoldHasAValue
<1>7. \A s \in SUBSET (1 .. n) : it[s] = IF s = {} THEN base
                                         ELSE MapSet(it[s \ {Max(s)}], seq[Max(s)])
  BY <1>3, <1>4, <1>6 DEF Folds
<1>8. Eq(iter)
  <2>1. Eq(it)
    BY <1>7
  <2> HIDE DEF Eq
  <2> QED
    BY <2>1
<1> HIDE DEF iter
<1> DEFINE E(s) == IF s = {} THEN base ELSE MapSet(iter[s \ {Max(s)}], seq[Max(s)])
<1>9. \A s \in SUBSET (1 .. n) : iter[s] = E(s)
  <2>1. iter = [s \in SUBSET (1 .. n) |-> E(s)]
    BY <1>8
  <2> HIDE DEF E
  <2> QED
    BY <2>1
<1>10. iter[{}] = base
  BY <1>9
<1>11. PartlyFolds(n, X, base, step, iter)
  BY <1>3, <1>4, <1>9, <1>10 DEF PartlyFolds
<1> QED
  BY <1>2, <1>3, <1>11, <1>5 DEF n

LEMMA MapSetFold ==
  ASSUME NEW X, NEW base \in X, NEW Y, NEW seq \in Seq(Y),
         SetsStay(X, Y)
  PROVE  \E h : MapSetTrace(X, base, seq, h)
<1>1. PICK step, iter :
         /\ \A i \in 1 .. Len(seq) : \A x \in X : step[<<i, x>>] = MapSet(x, seq[i])
         /\ Steps(1 .. Len(seq), X, step) /\ PartlyFolds(Len(seq), X, base, step, iter)
         /\ SetAll(base, seq) = iter[1 .. Len(seq)]
  BY MapSetPartlyFolds
<1>2. PICK h \in [0 .. Len(seq) -> X] :
         Traces(Len(seq), base, step, h) /\ h[Len(seq)] = iter[1 .. Len(seq)]
  <2>1. Len(seq) \in Nat
    OBVIOUS
  <2> QED
    BY <1>1, <2>1, FoldTrace
<1>3. \A i \in 1 .. Len(seq) : h[i] = MapSet(h[i - 1], seq[i])
  <2>1. \A i \in 1 .. Len(seq) : i - 1 \in 0 .. Len(seq)
    OBVIOUS
  <2> QED
    BY <2>1, <1>1, <1>2 DEF Traces
<1> QED
  BY <1>1, <1>2, <1>3 DEF Traces, MapSetTrace

\* The values AddAll goes through.
AddsStay(X, Y) == \A m \in X : \A r \in Y : AddProperty(m, r) \in X
AddPropertyTrace(X, base, seq, h) ==
    /\ h \in [0 .. Len(seq) -> X]
    /\ h[0] = base /\ h[Len(seq)] = AddAll(base, seq)
    /\ \A i \in 1 .. Len(seq) : h[i] = AddProperty(h[i - 1], seq[i])

LEMMA AddPropertyPartlyFolds ==
  ASSUME NEW X, NEW base \in X, NEW Y, NEW seq \in Seq(Y),
         AddsStay(X, Y)
  PROVE  \E step, iter :
           /\ \A i \in 1 .. Len(seq) : \A x \in X : step[<<i, x>>] = AddProperty(x, seq[i])
           /\ Steps(1 .. Len(seq), X, step) /\ PartlyFolds(Len(seq), X, base, step, iter)
           /\ AddAll(base, seq) = iter[1 .. Len(seq)]
<1> DEFINE n == Len(seq)
           Eq(it) == it = [s \in SUBSET (1 .. n) |->
                             IF s = {} THEN base
                             ELSE AddProperty(it[s \ {Max(s)}], seq[Max(s)])]
           iter == CHOOSE it : Eq(it)
           step == [tx \in (1 .. n) \X X |-> AddProperty(tx[2], seq[tx[1]])]
<1>1. n \in Nat /\ DOMAIN seq = 1 .. n
  OBVIOUS
<1>2. AddAll(base, seq) = iter[1 .. n]
  BY <1>1, Zenon DEF AddAll, FoldLeft, MapThenFoldSet
<1>3. \A i \in 1 .. n : \A x \in X : /\ step[<<i, x>>] = AddProperty(x, seq[i])
                                     /\ step[<<i, x>>] \in X
  BY <1>1 DEF AddsStay
<1>4. \A s \in SUBSET (1 .. n) : s # {} => Max(s) \in 1 .. n /\ s \ {Max(s)} \in SUBSET (1 .. n)
  BY <1>1, MaxOfSubset
<1> HIDE DEF step, n
<1>5. Steps(1 .. n, X, step)
  BY <1>3 DEF Steps
<1>6. PICK it \in [SUBSET (1 .. n) -> X] : Folds(n, base, step, it)
  BY <1>1, <1>5, FoldHasAValue
<1>7. \A s \in SUBSET (1 .. n) : it[s] = IF s = {} THEN base
                                         ELSE AddProperty(it[s \ {Max(s)}], seq[Max(s)])
  BY <1>3, <1>4, <1>6 DEF Folds
<1>8. Eq(iter)
  <2>1. Eq(it)
    BY <1>7
  <2> HIDE DEF Eq
  <2> QED
    BY <2>1
<1> HIDE DEF iter
<1> DEFINE E(s) == IF s = {} THEN base ELSE AddProperty(iter[s \ {Max(s)}], seq[Max(s)])
<1>9. \A s \in SUBSET (1 .. n) : iter[s] = E(s)
  <2>1. iter = [s \in SUBSET (1 .. n) |-> E(s)]
    BY <1>8
  <2> HIDE DEF E
  <2> QED
    BY <2>1
<1>10. iter[{}] = base
  BY <1>9
<1>11. PartlyFolds(n, X, base, step, iter)
  BY <1>3, <1>4, <1>9, <1>10 DEF PartlyFolds
<1> QED
  BY <1>2, <1>3, <1>11, <1>5 DEF n

LEMMA AddPropertyFold ==
  ASSUME NEW X, NEW base \in X, NEW Y, NEW seq \in Seq(Y),
         AddsStay(X, Y)
  PROVE  \E h : AddPropertyTrace(X, base, seq, h)
<1>1. PICK step, iter :
         /\ \A i \in 1 .. Len(seq) : \A x \in X : step[<<i, x>>] = AddProperty(x, seq[i])
         /\ Steps(1 .. Len(seq), X, step) /\ PartlyFolds(Len(seq), X, base, step, iter)
         /\ AddAll(base, seq) = iter[1 .. Len(seq)]
  BY AddPropertyPartlyFolds
<1>2. PICK h \in [0 .. Len(seq) -> X] :
         Traces(Len(seq), base, step, h) /\ h[Len(seq)] = iter[1 .. Len(seq)]
  <2>1. Len(seq) \in Nat
    OBVIOUS
  <2> QED
    BY <1>1, <2>1, FoldTrace
<1>3. \A i \in 1 .. Len(seq) : h[i] = AddProperty(h[i - 1], seq[i])
  <2>1. \A i \in 1 .. Len(seq) : i - 1 \in 0 .. Len(seq)
    OBVIOUS
  <2> QED
    BY <2>1, <1>1, <1>2 DEF Traces
<1> QED
  BY <1>1, <1>2, <1>3 DEF Traces, AddPropertyTrace

KeepStays(c, X, Y) == \A m \in X : \A r \in Y : Keep(c, m, r) \in X

KeepTrace(c, X, base, seq, h) ==
    /\ h \in [0 .. Len(seq) -> X]
    /\ h[0] = base /\ h[Len(seq)] = KeepAll(c, base, seq)
    /\ \A i \in 1 .. Len(seq) : h[i] = Keep(c, h[i - 1], seq[i])

KeepUnrolls(c, X, base, seq, step, iter) ==
    /\ \A i \in 1 .. Len(seq) : \A x \in X : step[<<i, x>>] = Keep(c, x, seq[i])
    /\ Steps(1 .. Len(seq), X, step) /\ PartlyFolds(Len(seq), X, base, step, iter)
    /\ KeepAll(c, base, seq) = iter[1 .. Len(seq)]

\* The values KeepAll goes through.
LEMMA KeepPartlyFolds ==
  ASSUME NEW c, NEW X, NEW base \in X, NEW Y, NEW seq \in Seq(Y),
         KeepStays(c, X, Y)
  PROVE  \E step, iter : KeepUnrolls(c, X, base, seq, step, iter)
<1> DEFINE n == Len(seq)
           Eq(it) == it = [s \in SUBSET (1 .. n) |->
                             IF s = {} THEN base
                             ELSE Keep(c, it[s \ {Max(s)}], seq[Max(s)])]
           iter == CHOOSE it : Eq(it)
           step == [tx \in (1 .. n) \X X |-> Keep(c, tx[2], seq[tx[1]])]
<1>1. n \in Nat /\ DOMAIN seq = 1 .. n
  OBVIOUS
<1>2. KeepAll(c, base, seq) = iter[1 .. n]
  BY <1>1, Zenon DEF KeepAll, FoldLeft, MapThenFoldSet
<1>3. \A i \in 1 .. n : \A x \in X : /\ step[<<i, x>>] = Keep(c, x, seq[i])
                                     /\ step[<<i, x>>] \in X
  BY <1>1 DEF KeepStays
<1>4. \A s \in SUBSET (1 .. n) : s # {} => Max(s) \in 1 .. n /\ s \ {Max(s)} \in SUBSET (1 .. n)
  BY <1>1, MaxOfSubset
<1> HIDE DEF step, n
<1>5. Steps(1 .. n, X, step)
  BY <1>3 DEF Steps
<1>6. PICK it \in [SUBSET (1 .. n) -> X] : Folds(n, base, step, it)
  BY <1>1, <1>5, FoldHasAValue
<1>7. \A s \in SUBSET (1 .. n) : it[s] = IF s = {} THEN base
                                         ELSE Keep(c, it[s \ {Max(s)}], seq[Max(s)])
  BY <1>3, <1>4, <1>6 DEF Folds
<1>8. Eq(iter)
  <2>1. Eq(it)
    BY <1>7
  <2> HIDE DEF Eq
  <2> QED
    BY <2>1
<1> HIDE DEF iter
<1> DEFINE E(s) == IF s = {} THEN base ELSE Keep(c, iter[s \ {Max(s)}], seq[Max(s)])
<1>9. \A s \in SUBSET (1 .. n) : iter[s] = E(s)
  <2>1. iter = [s \in SUBSET (1 .. n) |-> E(s)]
    BY <1>8
  <2> HIDE DEF E
  <2> QED
    BY <2>1
<1>10. iter[{}] = base
  BY <1>9
<1>11. PartlyFolds(n, X, base, step, iter)
  BY <1>3, <1>4, <1>9, <1>10 DEF PartlyFolds
<1> QED
  BY <1>2, <1>3, <1>11, <1>5 DEF n, KeepUnrolls

LEMMA KeepFold ==
  ASSUME NEW c, NEW X, NEW base \in X, NEW Y, NEW seq \in Seq(Y),
         KeepStays(c, X, Y)
  PROVE  \E h : KeepTrace(c, X, base, seq, h)
<1>1. PICK step, iter : KeepUnrolls(c, X, base, seq, step, iter)
  BY KeepPartlyFolds
<1> USE DEF KeepUnrolls
<1>2. PICK h \in [0 .. Len(seq) -> X] :
         Traces(Len(seq), base, step, h) /\ h[Len(seq)] = iter[1 .. Len(seq)]
  <2>1. Len(seq) \in Nat
    OBVIOUS
  <2> QED
    BY <1>1, <2>1, FoldTrace
<1>3. \A i \in 1 .. Len(seq) : h[i] = Keep(c, h[i - 1], seq[i])
  <2>1. \A i \in 1 .. Len(seq) : i - 1 \in 0 .. Len(seq)
    OBVIOUS
  <2> QED
    BY <2>1, <1>1, <1>2 DEF Traces
<1> QED
  BY <1>1, <1>2, <1>3 DEF Traces, KeepTrace

\* Rolls stay rolls.
LEMMA SetStays ==
  ASSUME NEW R, NEW map \in Seq(R), NEW row \in R
  PROVE  MapSet(map, row) \in Seq(R)
<1> DEFINE f(i) == IF map[i].assessmentNumber = row.assessmentNumber THEN row ELSE map[i]
<1>1. Len(map) \in Nat /\ DOMAIN map = 1 .. Len(map) /\ \A i \in 1 .. Len(map) : map[i] \in R
  OBVIOUS
<1>2. \A i \in 1 .. Len(map) : f(i) \in R
  BY <1>1
<1>3. MapSet(map, row) = [i \in 1 .. Len(map) |-> f(i)] \/ MapSet(map, row) = Append(map, row)
  BY <1>1 DEF MapSet
<1> HIDE DEF f
<1>4. [i \in 1 .. Len(map) |-> f(i)] \in Seq(R)
  BY <1>1, <1>2
<1> QED
  BY <1>3, <1>4

LEMMA SetAllStays ==
  ASSUME NEW R, NEW map \in Seq(R), NEW rows \in Seq(R)
  PROVE  SetAll(map, rows) \in Seq(R)
<1>1. SetsStay(Seq(R), R)
  BY SetStays DEF SetsStay
<1>2. PICK h : MapSetTrace(Seq(R), map, rows, h)
  BY <1>1, MapSetFold
<1>3. Len(rows) \in 0 .. Len(rows)
  OBVIOUS
<1> QED
  BY <1>2, <1>3 DEF MapSetTrace

LEMMA AddAllStays ==
  ASSUME NEW R, NEW roll \in Seq(R), NEW rows \in Seq(R)
  PROVE  AddAll(roll, rows) \in Seq(R)
<1>1. AddsStay(Seq(R), R)
  BY DEF AddsStay, AddProperty
<1>2. PICK h : AddPropertyTrace(Seq(R), roll, rows, h)
  BY <1>1, AddPropertyFold
<1>3. Len(rows) \in 0 .. Len(rows)
  OBVIOUS
<1> QED
  BY <1>2, <1>3 DEF AddPropertyTrace

LEMMA KeepAllStays ==
  ASSUME NEW c, NEW R, NEW roll \in Seq(R)
  PROVE  KeepAll(c, << >>, roll) \in Seq(R)
<1>1. KeepStays(c, Seq(R), R)
  BY DEF KeepStays, Keep
<1> DEFINE base == << >>
<1>2. base \in Seq(R)
  OBVIOUS
<1> HIDE DEF base
<1>3. PICK h : KeepTrace(c, Seq(R), base, roll, h)
  BY <1>1, <1>2, KeepFold
<1>4. Len(roll) \in 0 .. Len(roll)
  OBVIOUS
<1>5. KeepAll(c, base, roll) \in Seq(R)
  BY <1>3, <1>4 DEF KeepTrace
<1> QED
  BY <1>5 DEF base

\* Setting a row puts it on the roll, and takes no row of another number off.
LEMMA SetPuts ==
  ASSUME NEW R, NEW map \in Seq(R), NEW row \in R
  PROVE  row \in ToSet(MapSet(map, row))
<1> USE DEF ToSet
<1>1. Len(map) \in Nat /\ DOMAIN map = 1 .. Len(map)
  OBVIOUS
<1>2. CASE \E k \in DOMAIN map : map[k].assessmentNumber = row.assessmentNumber
  <2>1. PICK k \in DOMAIN map : map[k].assessmentNumber = row.assessmentNumber
    BY <1>2
  <2>2. k \in DOMAIN MapSet(map, row) /\ MapSet(map, row)[k] = row
    BY <1>2, <2>1 DEF MapSet
  <2> QED
    BY <2>2
<1>3. CASE ~ \E k \in DOMAIN map : map[k].assessmentNumber = row.assessmentNumber
  <2>1. MapSet(map, row) = Append(map, row)
    BY <1>3 DEF MapSet
  <2>2. /\ Len(map) + 1 \in DOMAIN Append(map, row)
        /\ Append(map, row)[Len(map) + 1] = row
    BY <1>1
  <2> QED
    BY <2>1, <2>2
<1> QED
  BY <1>2, <1>3

LEMMA SetSpares ==
  ASSUME NEW R, NEW map \in Seq(R), NEW row \in R, NEW other,
         other.assessmentNumber # row.assessmentNumber,
         other \in ToSet(map)
  PROVE  other \in ToSet(MapSet(map, row))
<1> USE DEF ToSet
<1>1. Len(map) \in Nat /\ DOMAIN map = 1 .. Len(map)
  OBVIOUS
<1>2. PICK k \in DOMAIN map : map[k] = other
  OBVIOUS
<1>3. k \in DOMAIN MapSet(map, row) /\ MapSet(map, row)[k] = other
  <2>1. CASE \E i \in DOMAIN map : map[i].assessmentNumber = row.assessmentNumber
    BY <1>2, <2>1 DEF MapSet
  <2>2. CASE ~ \E i \in DOMAIN map : map[i].assessmentNumber = row.assessmentNumber
    <3>1. k \in DOMAIN Append(map, row) /\ Append(map, row)[k] = map[k]
      BY <1>1
    <3> QED
      BY <1>2, <2>2, <3>1 DEF MapSet
  <2> QED
    BY <2>1, <2>2
<1> QED
  BY <1>3

\* The last row of a number is on the roll that the rows are set on.
LEMMA LastRowIsSet ==
  ASSUME NEW R, NEW map \in Seq(R), NEW rows \in Seq(R), NEW i \in 1 .. Len(rows),
         \A j \in i + 1 .. Len(rows) : rows[j].assessmentNumber # rows[i].assessmentNumber
  PROVE  rows[i] \in ToSet(SetAll(map, rows))
<1>1. SetsStay(Seq(R), R)
  BY SetStays DEF SetsStay
<1>2. PICK h : MapSetTrace(Seq(R), map, rows, h)
  BY <1>1, MapSetFold
<1>3. ASSUME NEW j \in 1 .. Len(rows)
      PROVE  rows[j] \in R /\ h[j - 1] \in Seq(R)
  <2>1. rows[j] \in R /\ j - 1 \in 0 .. Len(rows)
    OBVIOUS
  <2>2. h \in [0 .. Len(rows) -> Seq(R)]
    BY <1>2 DEF MapSetTrace
  <2> QED
    BY <2>1, <2>2
<1> DEFINE Has(m) == rows[i] \in ToSet(m)
           G == {d \in Nat : i + d <= Len(rows) => Has(h[i + d])}
<1>4. 0 \in G
  <2>1. Has(MapSet(h[i - 1], rows[i]))
    <3>1. rows[i] \in R /\ h[i - 1] \in Seq(R)
      BY <1>3
    <3> QED
      BY <3>1, SetPuts
  <2>2. Has(h[i])
    BY <1>2, <2>1 DEF MapSetTrace
  <2> QED
    BY <2>2
<1>5. ASSUME NEW d \in Nat, d \in G
      PROVE  d + 1 \in G
  <2>1. CASE i + d + 1 <= Len(rows)
    <3> DEFINE j == i + d + 1
    <3>1. j \in 1 .. Len(rows) /\ j \in i + 1 .. Len(rows) /\ j - 1 = i + d /\ i + d <= Len(rows)
      BY <2>1
    <3>2. Has(h[j - 1])
      BY <1>5, <3>1
    <3> HIDE DEF j
    <3>3. Has(MapSet(h[j - 1], rows[j]))
      <4>1. rows[j] \in R /\ h[j - 1] \in Seq(R)
        BY <1>3, <3>1
      <4>2. rows[i].assessmentNumber # rows[j].assessmentNumber
        BY <3>1
      <4> QED
        BY <3>2, <4>1, <4>2, SetSpares
    <3>4. Has(h[j])
      BY <1>2, <3>1, <3>3 DEF MapSetTrace
    <3> QED
      BY <3>4 DEF j
  <2>2. CASE ~ (i + d + 1 <= Len(rows))
    BY <2>2
  <2> QED
    BY <2>1, <2>2
<1> HIDE DEF G
<1>6. Nat \subseteq G
  BY <1>4, <1>5, Counting
<1>7. Len(rows) - i \in Nat /\ i + (Len(rows) - i) = Len(rows) /\ Len(rows) - i \in G
  BY <1>6
<1>8. Has(h[Len(rows)])
  BY <1>7 DEF G
<1> QED
  BY <1>2, <1>8 DEF MapSetTrace

\* How many records of a number the rows added leave on the roll: as many as
\* there were, or one when there was none.
LEMMA RecordsAreCounted ==
  ASSUME NEW R, NEW roll \in Seq(R), NEW an
  PROVE  /\ Records(roll, an) \in Nat
         /\ Records(roll, an) = 0
              <=> \A i \in DOMAIN roll : roll[i].assessmentNumber # an
<1> DEFINE P == {i \in DOMAIN roll : roll[i].assessmentNumber = an}
<1>1. P \in SUBSET (1 .. Len(roll)) /\ IsFiniteSet(1 .. Len(roll))
  BY FS_Interval
<1>2. IsFiniteSet(P)
  BY <1>1, FS_Subset
<1>3. Cardinality(P) \in Nat /\ (Cardinality(P) = 0 <=> P = {})
  BY <1>2, FS_CardinalityType, FS_EmptySet
<1> QED
  BY <1>3 DEF Records

LEMMA AddRecords ==
  ASSUME NEW R, NEW roll \in Seq(R), NEW row \in R, NEW an
  PROVE  Records(AddProperty(roll, row), an) =
           IF row.assessmentNumber = an /\ Records(roll, an) = 0 THEN 1 ELSE Records(roll, an)
<1>1. CASE \E i \in DOMAIN roll : roll[i].assessmentNumber = row.assessmentNumber
  BY <1>1, RecordsAreCounted DEF AddProperty
<1>2. CASE \A i \in DOMAIN roll : roll[i].assessmentNumber # row.assessmentNumber
  <2> DEFINE n == Len(roll) + 1
             P == {i \in DOMAIN roll : roll[i].assessmentNumber = an}
             Q == {i \in DOMAIN Append(roll, row) : Append(roll, row)[i].assessmentNumber = an}
  <2>1. /\ DOMAIN roll = 1 .. Len(roll) /\ Len(roll) \in Nat
        /\ DOMAIN Append(roll, row) = 1 .. n
        /\ Append(roll, row)[n] = row
        /\ \A i \in 1 .. Len(roll) : Append(roll, row)[i] = roll[i]
    OBVIOUS
  <2>2. AddProperty(roll, row) = Append(roll, row)
    BY <1>2 DEF AddProperty
  <2>3. Records(roll, an) = Cardinality(P) /\ Records(AddProperty(roll, row), an) = Cardinality(Q)
    BY <2>2 DEF Records
  <2>4. \A i \in 1 .. n : i \in 1 .. Len(roll) \/ i = n
    BY <2>1
  <2>5. \A i \in 1 .. Len(roll) : i \in 1 .. n /\ i # n
    BY <2>1
  <2>6. n \in 1 .. n
    BY <2>1
  <2> HIDE DEF n
  <2>7. CASE row.assessmentNumber # an
    <3>1. Q = P
      BY <2>1, <2>4, <2>5, <2>6, <2>7
    <3> QED
      BY <2>3, <2>7, <3>1
  <2>8. CASE row.assessmentNumber = an
    <3>1. P = {}
      BY <1>2, <2>8
    <3>2. Q = {n}
      BY <1>2, <2>1, <2>4, <2>5, <2>6, <2>8
    <3> QED
      BY <2>3, <2>8, <3>1, <3>2, FS_EmptySet, FS_Singleton
  <2> QED
    BY <2>7, <2>8
<1> QED
  BY <1>1, <1>2

LEMMA AddedOnce ==
  ASSUME NEW R, NEW roll \in Seq(R), NEW rows \in Seq(R), NEW i \in 1 .. Len(rows),
         NEW an, rows[i].assessmentNumber = an
  PROVE  Records(AddAll(roll, rows), an) =
           IF Records(roll, an) = 0 THEN 1 ELSE Records(roll, an)
<1>1. AddsStay(Seq(R), R)
  BY DEF AddsStay, AddProperty
<1>2. PICK h : AddPropertyTrace(Seq(R), roll, rows, h)
  BY <1>1, AddPropertyFold
<1>3. ASSUME NEW j \in 1 .. Len(rows)
      PROVE  rows[j] \in R /\ h[j - 1] \in Seq(R)
  <2>1. rows[j] \in R /\ j - 1 \in 0 .. Len(rows)
    OBVIOUS
  <2>2. h \in [0 .. Len(rows) -> Seq(R)]
    BY <1>2 DEF AddPropertyTrace
  <2> QED
    BY <2>1, <2>2
<1> DEFINE one == IF Records(roll, an) = 0 THEN 1 ELSE Records(roll, an)
           At(j) == Records(h[j], an) \in {Records(roll, an), one}
                    /\ (j >= i => Records(h[j], an) = one)
           G == {j \in Nat : j <= Len(rows) => At(j)}
<1>4. 0 \in G
  BY <1>2 DEF AddPropertyTrace
<1>5. ASSUME NEW d \in Nat, d \in G
      PROVE  d + 1 \in G
  <2>1. CASE d + 1 <= Len(rows)
    <3>1. d + 1 \in 1 .. Len(rows) /\ (d + 1) - 1 = d /\ d <= Len(rows)
      BY <2>1
    <3>2. At(d)
      BY <1>5, <3>1
    <3>3. Records(h[d + 1], an) =
            IF rows[d + 1].assessmentNumber = an /\ Records(h[d], an) = 0
            THEN 1 ELSE Records(h[d], an)
      BY <1>2, <1>3, <3>1, AddRecords DEF AddPropertyTrace
    <3>4. d + 1 >= i => d >= i \/ d + 1 = i
      OBVIOUS
    <3> QED
      BY <3>2, <3>3, <3>4
  <2>2. CASE ~ (d + 1 <= Len(rows))
    BY <2>2
  <2> QED
    BY <2>1, <2>2
<1> HIDE DEF G
<1>6. Len(rows) \in G
  BY <1>4, <1>5, Counting
<1>7. At(Len(rows))
  BY <1>6 DEF G
<1> QED
  BY <1>2, <1>7 DEF AddPropertyTrace

-----------------------------------------------------------------------------
(* Owners and rows *)

LEMMA MinIsLeast ==
  ASSUME NEW S \in SUBSET Nat, S # {}
  PROVE  Min(S) \in S /\ \A y \in S : Min(S) <= y
<1>1. IsWellFoundedOn(OpToRel(<, Nat), Nat)
  BY NatLessThanWellFounded
<1>2. PICK x \in S : \A y \in S : ~ (<<y, x>> \in OpToRel(<, Nat))
  <2> HIDE DEF OpToRel
  <2> QED
    BY <1>1, WFMin
<1>3. ASSUME NEW y \in S
      PROVE  x <= y
  <2>1. ~ (y < x)
    BY <1>2 DEF OpToRel
  <2> QED
    BY <2>1
<1> QED
  BY <1>3 DEF Min

\* The first record of a number is on the roll.
LEMMA GetPropertyFinds ==
  ASSUME NEW R, properties \in Seq(R), NEW an \in Numbers
  PROVE  GetProperty(an) \in R
<1> DEFINE P == {i \in DOMAIN properties : properties[i].assessmentNumber = an}
<1>1. DOMAIN properties = 1 .. Len(properties) /\ Len(properties) \in Nat
  OBVIOUS
<1>2. P \in SUBSET Nat /\ P # {}
  BY <1>1 DEF Numbers
<1>3. Min(P) \in P /\ \A i \in P : Min(P) <= i
  BY <1>2, MinIsLeast
<1>4. \A j \in 1 .. Min(P) - 1 : properties[j].assessmentNumber # an
  <2> SUFFICES ASSUME NEW j \in 1 .. Min(P) - 1 PROVE j \notin P /\ j \in DOMAIN properties
    OBVIOUS
  <2> HIDE DEF P
  <2>1. Min(P) \in Nat /\ Min(P) <= Len(properties)
    BY <1>1, <1>3 DEF P
  <2> QED
    BY <1>1, <1>3, <2>1
<1>5. \E i \in DOMAIN properties :
         /\ properties[i].assessmentNumber = an
         /\ \A j \in 1 .. i - 1 : properties[j].assessmentNumber # an
  <2> DEFINE first == Min(P)
  <2>1. first \in P
    BY <1>3
  <2> HIDE DEF first
  <2>2. first \in DOMAIN properties /\ properties[first].assessmentNumber = an
    BY <2>1
  <2> USE DEF first
  <2> QED
    BY <1>4, <2>2
<1>6. PICK i \in DOMAIN properties : GetProperty(an) = properties[i]
  BY <1>5 DEF GetProperty
<1> QED
  BY <1>1, <1>6

TidyRows(rows) ==
    rows \in Seq({rows[i] : i \in DOMAIN rows}) /\ \A i \in DOMAIN rows : rows[i].who \in People

\* The properties that the rows of a file become.
Incoming(c, rows) ==
    {Property(rows[i].assessmentNumber, c, OwnerIdFor(c, rows[i].who)) : i \in DOMAIN rows}

LEMMA RowsBecomeProperties ==
  ASSUME NEW c, NEW rows, TidyRows(rows)
  PROVE  /\ DOMAIN rows = 1 .. Len(rows)
         /\ RowsToProperties(c, rows) \in Seq(Incoming(c, rows))
         /\ Len(RowsToProperties(c, rows)) = Len(rows)
         /\ \A i \in DOMAIN rows :
               RowsToProperties(c, rows)[i] =
                  Property(rows[i].assessmentNumber, c, OwnerIdFor(c, rows[i].who))
<1>1. DOMAIN rows = 1 .. Len(rows) /\ Len(rows) \in Nat
  BY DEF TidyRows
<1> DEFINE f(i) == Property(rows[i].assessmentNumber, c, OwnerIdFor(c, rows[i].who))
           S == {f(i) : i \in 1 .. Len(rows)}
<1>2. RowsToProperties(c, rows) = [i \in 1 .. Len(rows) |-> f(i)]
  BY <1>1 DEF RowsToProperties
<1>3. \A i \in 1 .. Len(rows) : f(i) \in S
  OBVIOUS
<1> HIDE DEF f
<1>4. /\ [i \in 1 .. Len(rows) |-> f(i)] \in Seq(S)
      /\ Len([i \in 1 .. Len(rows) |-> f(i)]) = Len(rows)
  BY <1>1, <1>3
<1>5. S = Incoming(c, rows)
  BY <1>1 DEF Incoming, f
<1> HIDE DEF S
<1>6. \A i \in DOMAIN rows : RowsToProperties(c, rows)[i] = f(i)
  BY <1>1, <1>2
<1> QED
  BY <1>1, <1>2, <1>4, <1>5, <1>6 DEF f

\* What an import of that mutation writes, and the use of its token.
Imports(c, strategy, m) ==
    /\ m.councilCode = c /\ TidyRows(m.rows)
    /\ \A u \in uses' \ uses : u.mutation = m
    /\ properties' = IF strategy = "replace" THEN Replaced(c, RowsToProperties(c, m.rows))
                     ELSE Upserted(RowsToProperties(c, m.rows))
    /\ owners' = [id \in OwnerIds |-> IF id \in NewOwners(c, m.rows)
                                      THEN "on record" ELSE owners[id]]

LEMMA ImportCommits ==
  ASSUME StoreProofs!IInv, NEW p \in Principals, NEW c \in Councils,
         NEW strategy \in {"replace", "upsert"}, NEW tok \in Tokens,
         ImportConfirm(p, c, strategy, tok), ~ UNCHANGED dataVars
  PROVE  \E m \in ImportMutations : Imports(c, strategy, m)
<1> DEFINE m == entries[tok].mutation
<1>1. /\ Store!Verdict(tok, "import_rating_roll", p) = "ok"
      /\ m.councilCode = c
      /\ Store!Consume(tok, "import_rating_roll", p)
      /\ properties' = IF strategy = "replace"
                       THEN Replaced(c, RowsToProperties(c, m.rows))
                       ELSE Upserted(RowsToProperties(c, m.rows))
      /\ owners' = [id \in OwnerIds |-> IF id \in NewOwners(c, m.rows)
                                        THEN "on record" ELSE owners[id]]
  BY DEF ImportConfirm, dataVars
<1>2. m \in ImportMutations
  <2>1. entries[tok] # None /\ m.operation = "import_rating_roll"
    BY <1>1 DEF Store!Verdict
  <2>2. m \in PendingMutations
    BY <2>1 DEF StoreProofs!IInv, StoreProofs!TypeOK, StoreProofs!Entry
  <2> QED
    BY <2>1, <2>2 DEF PendingMutations, StrataMutations
<1>3. TidyRows(m.rows)
  <2>1. PICK other \in Councils : m.rows \in Files[other]
    BY <1>2, RollAssumption DEF ImportMutations, Range
  <2> QED
    BY <2>1, RowsAssumption DEF TidyRows
<1>4. \A u \in uses' \ uses : u.mutation = m
  <2> DEFINE used == [token |-> tok, mutation |-> m, at |-> now, by |-> p]
  <2>1. uses' = uses \cup {used}
    BY <1>1 DEF Store!Consume
  <2>2. used.mutation = m
    OBVIOUS
  <2> HIDE DEF used, m
  <2> QED
    BY <2>1, <2>2
<1> QED
  BY <1>1, <1>2, <1>3, <1>4 DEF Imports

\* What a conversion that commits writes.
LEMMA StrataCommits ==
  ASSUME StoreProofs!IInv, NEW p \in Principals, NEW parent \in Parents,
         NEW toState \in ToStates, NEW tok \in Tokens,
         StrataConfirm(p, parent, toState, tok), ~ UNCHANGED dataVars
  PROVE  /\ entries[tok] # None
         /\ \A u \in uses' \ uses : u.mutation \in StrataMutations
         /\ entries[tok].mutation \in StrataMutations
         /\ entries[tok].mutation.toState = toState
         /\ properties' = IF toState = "children_imported"
                          THEN WithChildren(parent, entries[tok].mutation.childCts)
                          ELSE properties
<1> DEFINE m == entries[tok].mutation
<1>1. /\ Store!Verdict(tok, "request_strata_conversion", p) = "ok"
      /\ m.toState = toState
      /\ properties' = IF toState = "children_imported"
                       THEN WithChildren(parent, m.childCts) ELSE properties
  BY DEF StrataConfirm, dataVars
<1>2. entries[tok] # None /\ m.operation = "request_strata_conversion"
  BY <1>1 DEF Store!Verdict
<1>3. m \in PendingMutations
  BY <1>2 DEF StoreProofs!IInv, StoreProofs!TypeOK, StoreProofs!Entry
<1>4. m \in StrataMutations
  BY <1>2, <1>3 DEF PendingMutations, ImportMutations
<1>5. \A u \in uses' \ uses : u.mutation = m
  <2> DEFINE used == [token |-> tok, mutation |-> m, at |-> now, by |-> p]
  <2>1. uses' = uses \cup {used}
    BY <1>1 DEF StrataConfirm, Store!Consume
  <2>2. used.mutation = m
    OBVIOUS
  <2> HIDE DEF used, m
  <2> QED
    BY <2>1, <2>2
<1> QED
  BY <1>1, <1>2, <1>4, <1>5

RegisteredIn(R, owns) == \A r \in R : r.ownerId \in OwnerIds /\ owns[r.ownerId] # None
RollInv == OwnersInv /\ \E R : properties \in Seq(R) /\ RegisteredIn(R, owners)

\* No owner is ever struck off the register.
LEMMA OwnersAreKept ==
  ASSUME OwnersInv, [Next]_vars
  PROVE  OwnersInv' /\ \A id \in OwnerIds : owners[id] # None => owners'[id] # None
<1>1. CASE UNCHANGED owners
  BY <1>1 DEF OwnersInv
<1>2. ASSUME NEW id \in OwnerIds, owners' = [owners EXCEPT ![id] = "erased"]
      PROVE  OwnersInv' /\ \A x \in OwnerIds : owners[x] # None => owners'[x] # None
  BY <1>2, RollAssumption DEF OwnersInv
<1>3. ASSUME NEW new \in SUBSET OwnerIds,
             owners' = [id \in OwnerIds |-> IF id \in new THEN "on record" ELSE owners[id]]
      PROVE  OwnersInv' /\ \A x \in OwnerIds : owners[x] # None => owners'[x] # None
  BY <1>3, RollAssumption DEF OwnersInv
<1> QED
  BY <1>1, <1>2, <1>3, OwnersStep

LEMMA OwnersHaveIds ==
  ASSUME NEW c \in Councils, NEW who \in People
  PROVE  OwnerIdFor(c, who) \in OwnerIds
BY DEF OwnerIds

\* The owners that a file names are on the register once it is imported.
LEMMA ImportRegisters ==
  ASSUME NEW c \in Councils, NEW rows, TidyRows(rows),
         owners' = [id \in OwnerIds |-> IF id \in NewOwners(c, rows)
                                        THEN "on record" ELSE owners[id]],
         NEW i \in DOMAIN rows
  PROVE  /\ OwnerIdFor(c, rows[i].who) \in OwnerIds
         /\ owners'[OwnerIdFor(c, rows[i].who)] # None
<1> DEFINE id == OwnerIdFor(c, rows[i].who)
<1>1. id \in OwnerIds
  <2>1. rows[i].who \in People
    BY DEF TidyRows
  <2> QED
    BY <2>1, OwnersHaveIds
<1>2. id \in NewOwners(c, rows) \/ owners[id] # None
  BY DEF NewOwners
<1> HIDE DEF id
<1>3. owners'[id] # None
  BY <1>1, <1>2, RollAssumption
<1> QED
  BY <1>1, <1>3 DEF id

\* A roll whose new rows have registered owners.
LEMMA RollGrows ==
  ASSUME NEW R, NEW S, properties' \in Seq(R \cup S), OwnersInv', RegisteredIn(R, owners'),
         RegisteredIn(S, owners')
  PROVE  RollInv'
<1> DEFINE T == R \cup S
<1>1. RegisteredIn(T, owners')
  BY DEF RegisteredIn
<1> HIDE DEF T
<1>2. properties' \in Seq(T)
  BY DEF T
<1> QED
  BY <1>1, <1>2 DEF RollInv

LEMMA RollStep ==
  ASSUME RollInv, StoreProofs!IInv, [Next]_vars
  PROVE  RollInv'
<1>1. PICK R : properties \in Seq(R) /\ RegisteredIn(R, owners)
  BY DEF RollInv
<1>2. OwnersInv' /\ \A id \in OwnerIds : owners[id] # None => owners'[id] # None
  BY OwnersAreKept DEF RollInv
<1>3. RegisteredIn(R, owners')
  BY <1>1, <1>2 DEF RegisteredIn
<1>4. CASE UNCHANGED properties
  BY <1>1, <1>2, <1>3, <1>4 DEF RollInv
<1>5. ASSUME NEW p \in Principals, NEW c \in Councils,
             NEW strategy \in {"replace", "upsert"}, NEW tok \in Tokens,
             ImportConfirm(p, c, strategy, tok), ~ UNCHANGED properties
      PROVE  RollInv'
  <2>1. PICK m \in ImportMutations : Imports(c, strategy, m)
    BY <1>5, ImportCommits DEF dataVars
  <2> DEFINE rows == m.rows
             incoming == RowsToProperties(c, rows)
             S == Incoming(c, rows)
             T == R \cup S
  <2>2. TidyRows(rows)
    BY <2>1 DEF Imports
  <2>3. owners' = [id \in OwnerIds |-> IF id \in NewOwners(c, rows)
                                       THEN "on record" ELSE owners[id]]
    BY <2>1 DEF Imports
  <2>4. properties' = IF strategy = "replace" THEN Replaced(c, incoming) ELSE Upserted(incoming)
    BY <2>1 DEF Imports
  <2> HIDE DEF rows
  <2>5. incoming \in Seq(S)
    BY <2>2, RowsBecomeProperties
  <2>6. RegisteredIn(S, owners')
    <3>1. ASSUME NEW r \in S PROVE r.ownerId \in OwnerIds /\ owners'[r.ownerId] # None
      <4>1. PICK i \in DOMAIN rows :
               r = Property(rows[i].assessmentNumber, c, OwnerIdFor(c, rows[i].who))
        BY DEF Incoming
      <4>2. r.ownerId = OwnerIdFor(c, rows[i].who)
        BY <4>1 DEF Property
      <4> QED
        BY <2>2, <2>3, <4>2, ImportRegisters
    <3> QED
      BY <3>1 DEF RegisteredIn
  <2> HIDE DEF incoming, S
  <2>7. properties \in Seq(T) /\ incoming \in Seq(T) /\ << >> \in Seq(T)
    BY <1>1, <2>5
  <2> HIDE DEF T
  <2>8. properties' \in Seq(T)
    <3>1. CASE strategy = "replace"
      <4>1. KeepAll(c, << >>, properties) \in Seq(T)
        BY <2>7, KeepAllStays
      <4>2. properties' = KeepAll(c, << >>, properties) \o incoming
        BY <2>4, <3>1 DEF Replaced
      <4> QED
        BY <2>7, <4>1, <4>2
    <3>2. CASE strategy # "replace"
      <4>1. SetAll(<< >>, properties) \in Seq(T)
        BY <2>7, SetAllStays
      <4>2. SetAll(SetAll(<< >>, properties), incoming) \in Seq(T)
        BY <2>7, <4>1, SetAllStays
      <4>3. properties' = SetAll(SetAll(<< >>, properties), incoming)
        BY <2>4, <3>2 DEF Upserted
      <4> QED
        BY <4>2, <4>3
    <3> QED
      BY <3>1, <3>2
  <2> QED
    BY <1>2, <1>3, <2>6, <2>8, RollGrows DEF T
<1>6. ASSUME NEW p \in Principals, NEW parent \in Parents, NEW toState \in ToStates,
             NEW tok \in Tokens, StrataConfirm(p, parent, toState, tok),
             ~ UNCHANGED properties
      PROVE  RollInv'
  <2>1. PICK cts \in Seq(Titles) : properties' = WithChildren(parent, cts)
    <3>1. ~ UNCHANGED dataVars
      BY <1>6 DEF dataVars
    <3>2. PICK m \in StrataMutations : properties' = WithChildren(parent, m.childCts)
      BY <1>6, <3>1, StrataCommits
    <3> QED
      BY <3>2, RollAssumption DEF StrataMutations
  <2> DEFINE from == GetProperty(parent)
             kid(i) == Property(ChildAssessmentNumber(parent, cts[i]),
                                from.council, from.ownerId)
             S == {kid(i) : i \in 1 .. Len(cts)}
             T == R \cup S
  <2>2. from \in R
    BY <1>1, <1>6, GetPropertyFinds DEF StrataConfirm, MayRequest
  <2> HIDE DEF from
  <2>3. RegisteredIn(S, owners')
    <3>1. \A i \in 1 .. Len(cts) : kid(i).ownerId = from.ownerId
      BY DEF Property
    <3>2. \A r \in S : r.ownerId = from.ownerId
      BY <3>1
    <3>3. from.ownerId \in OwnerIds /\ owners'[from.ownerId] # None
      BY <1>3, <2>2 DEF RegisteredIn
    <3> HIDE DEF S
    <3> QED
      BY <3>2, <3>3 DEF RegisteredIn
  <2>4. properties \in Seq(T) /\ [i \in 1 .. Len(cts) |-> kid(i)] \in Seq(T)
    <3>1. \A i \in 1 .. Len(cts) : kid(i) \in T
      OBVIOUS
    <3> HIDE DEF kid
    <3> QED
      BY <1>1, <3>1
  <2> HIDE DEF T
  <2>5. AddAll(properties, [i \in 1 .. Len(cts) |-> kid(i)]) \in Seq(T)
    BY <2>4, AddAllStays
  <2>6. properties' = AddAll(properties, [i \in 1 .. Len(cts) |-> kid(i)])
    <3>1. DOMAIN cts = 1 .. Len(cts)
      OBVIOUS
    <3> QED
      BY <2>1, <3>1 DEF WithChildren, from
  <2>7. properties' \in Seq(T)
    BY <2>5, <2>6
  <2> HIDE DEF S
  <2> QED
    BY <1>2, <1>3, <2>3, <2>7, RollGrows DEF T
<1>7. ASSUME NEW p \in Principals, NEW id \in OwnerIds, EraseOwner(p, id)
      PROVE  UNCHANGED properties
  BY <1>7 DEF EraseOwner
<1>8. ASSUME NEW p \in Principals, NEW m, IssueFor(p, m)
      PROVE  UNCHANGED properties
  BY <1>8 DEF IssueFor, dataVars
<1>9. CASE UNCHANGED vars \/ Tick
  BY <1>4, <1>9 DEF vars, dataVars, Tick
<1> QED
  BY <1>4, <1>5, <1>6, <1>7, <1>8, <1>9 DEF Next, ImportPreview, StrataPreview

LEMMA RollInit ==
  ASSUME Init PROVE RollInv
<1> DEFINE f == [an \in Assessments |-> Property(an, HomeOf[an], SeedOwner)]
           S == {Property(an, HomeOf[an], SeedOwner) : an \in Assessments}
           n == Cardinality(S)
<1>1. IsFiniteSet(S)
  <2>1. f \in Surjection(Assessments, S)
    BY DEF Surjection
  <2> HIDE DEF f, S
  <2> QED
    BY <2>1, RowsAssumption, FS_Surjection
<1> HIDE DEF S
<1>2. n \in Nat /\ ExistsBijection(1 .. n, S)
  BY <1>1, FS_CardinalityType
<1>3. PICK g \in [1 .. n -> S] : IsInjective(g)
  BY <1>2, Zenon DEF ExistsBijection, Bijection, Injection, IsInjective
<1>4. SetToSeq(S) \in [1 .. n -> S]
  BY <1>3, Zenon DEF SetToSeq
<1>5. properties \in Seq(S)
  <2>1. properties = SetToSeq(S)
    BY DEF Init, S
  <2> QED
    BY <1>2, <1>4, <2>1
<1>6. RegisteredIn(S, owners)
  <2>1. \A r \in S : r.ownerId = SeedOwner
    BY DEF S, Property
  <2>2. SeedOwner \in OwnerIds /\ owners[SeedOwner] = "on record"
    <3>1. owners = [id \in OwnerIds |-> IF id = SeedOwner THEN "on record" ELSE None]
      BY DEF Init
    <3>2. SeedOwner \in OwnerIds
      BY DEF OwnerIds
    <3> QED
      BY <3>1, <3>2
  <2> QED
    BY <2>1, <2>2, RollAssumption DEF RegisteredIn
<1> QED
  BY <1>5, <1>6 DEF RollInv, Init, OwnersInv

(***************************************************************************)
(* Whatever is replaced, upserted or converted by whichever council, every *)
(* property on the roll has a registered owner.                            *)
(***************************************************************************)
THEOREM EveryPropertyHasAnOwner == Spec => []OwnersAreRegistered
<1>1. RollInv => OwnersAreRegistered
  BY DEF RollInv, RegisteredIn, OwnersAreRegistered
<1> QED
  BY <1>1, RollInit, RollStep, StoreInvariant, PTL DEF Spec

\* The last row of a number, wherever else that number is.
RowsLand ==
    \A m \in ImportsNow : \A i \in DOMAIN m.rows :
        (\A j \in i + 1 .. Len(m.rows) :
            m.rows[j].assessmentNumber # m.rows[i].assessmentNumber)
        => Property(m.rows[i].assessmentNumber, m.councilCode,
                    OwnerIdFor(m.councilCode, m.rows[i].who)) \in ToSet(properties')

LEMMA ImportedRowLands ==
  ASSUME RollInv, NEW c \in Councils, NEW strategy \in {"replace", "upsert"}, NEW m,
         Imports(c, strategy, m), NEW i \in DOMAIN m.rows,
         \A j \in i + 1 .. Len(m.rows) :
            m.rows[j].assessmentNumber # m.rows[i].assessmentNumber
  PROVE  Property(m.rows[i].assessmentNumber, c, OwnerIdFor(c, m.rows[i].who))
           \in ToSet(properties')
<1> DEFINE rows == m.rows
           incoming == RowsToProperties(c, rows)
           S == Incoming(c, rows)
<1>1. PICK R : properties \in Seq(R)
  BY DEF RollInv
<1> DEFINE T == R \cup S
<1>2. TidyRows(rows)
  BY DEF Imports
<1>3. properties' = IF strategy = "replace" THEN Replaced(c, incoming) ELSE Upserted(incoming)
  BY DEF Imports
<1>4. /\ i \in DOMAIN rows
      /\ \A j \in i + 1 .. Len(rows) : rows[j].assessmentNumber # rows[i].assessmentNumber
  OBVIOUS
<1> HIDE DEF rows
<1>5. /\ DOMAIN rows = 1 .. Len(rows)
      /\ incoming \in Seq(S) /\ Len(incoming) = Len(rows)
      /\ \A j \in DOMAIN rows : incoming[j] =
            Property(rows[j].assessmentNumber, c, OwnerIdFor(c, rows[j].who))
  BY <1>2, RowsBecomeProperties
<1> HIDE DEF incoming, S
<1>6. ASSUME NEW j \in DOMAIN rows
      PROVE  incoming[j].assessmentNumber = rows[j].assessmentNumber
  <2> DEFINE an == rows[j].assessmentNumber
             id == OwnerIdFor(c, rows[j].who)
  <2>1. incoming[j] = Property(an, c, id)
    BY <1>5
  <2> HIDE DEF an, id
  <2>2. incoming[j].assessmentNumber = an
    BY <2>1 DEF Property
  <2> QED
    BY <2>2 DEF an
<1>7. properties \in Seq(T) /\ incoming \in Seq(T) /\ << >> \in Seq(T)
  BY <1>1, <1>5
<1> HIDE DEF T
<1>8. i \in 1 .. Len(incoming)
  BY <1>4, <1>5
<1>9. incoming[i] \in ToSet(properties')
  <2>1. CASE strategy = "replace"
    <3> DEFINE kept == KeepAll(c, << >>, properties)
    <3>1. kept \in Seq(T)
      BY <1>7, KeepAllStays
    <3>2. properties' = kept \o incoming
      BY <1>3, <2>1 DEF Replaced
    <3> HIDE DEF kept
    <3>3. /\ Len(kept) + i \in DOMAIN (kept \o incoming)
          /\ (kept \o incoming)[Len(kept) + i] = incoming[i]
      BY <1>7, <1>8, <3>1
    <3> QED
      BY <3>2, <3>3 DEF ToSet
  <2>2. CASE strategy # "replace"
    <3> DEFINE map == SetAll(<< >>, properties)
    <3>1. map \in Seq(T)
      BY <1>7, SetAllStays
    <3>2. properties' = SetAll(map, incoming)
      BY <1>3, <2>2 DEF Upserted
    <3> HIDE DEF map
    <3>3. \A j \in i + 1 .. Len(incoming) :
             incoming[j].assessmentNumber # incoming[i].assessmentNumber
      <4> SUFFICES ASSUME NEW j \in i + 1 .. Len(incoming)
                   PROVE  incoming[j].assessmentNumber # incoming[i].assessmentNumber
        OBVIOUS
      <4>1. j \in DOMAIN rows /\ j \in i + 1 .. Len(rows)
        BY <1>5, <1>8
      <4> QED
        BY <1>4, <1>6, <4>1
    <3> QED
      BY <1>7, <1>8, <3>1, <3>2, <3>3, LastRowIsSet
  <2> QED
    BY <2>1, <2>2
<1> QED
  BY <1>4, <1>5, <1>9 DEF rows

LEMMA ImportsLand ==
  ASSUME RollInv, StoreProofs!IInv, [Next]_vars
  PROVE  RowsLand
<1> SUFFICES ASSUME NEW m \in ImportsNow, NEW i \in DOMAIN m.rows,
                    \A j \in i + 1 .. Len(m.rows) :
                       m.rows[j].assessmentNumber # m.rows[i].assessmentNumber
             PROVE  Property(m.rows[i].assessmentNumber, m.councilCode,
                             OwnerIdFor(m.councilCode, m.rows[i].who)) \in ToSet(properties')
  BY DEF RowsLand
<1>1. PICK u \in uses' \ uses :
         u.mutation = m /\ m.operation = "import_rating_roll" /\ audit' # audit
  BY DEF ImportsNow
<1>2. ASSUME NEW p \in Principals, NEW c \in Councils,
             NEW strategy \in {"replace", "upsert"}, NEW tok \in Tokens,
             ImportConfirm(p, c, strategy, tok)
      PROVE  Property(m.rows[i].assessmentNumber, m.councilCode,
                      OwnerIdFor(m.councilCode, m.rows[i].who)) \in ToSet(properties')
  <2>1. PICK other \in ImportMutations : Imports(c, strategy, other)
    BY <1>1, <1>2, ImportCommits DEF dataVars
  <2>2. m = other /\ m.councilCode = c
    BY <1>1, <2>1 DEF Imports
  <2> QED
    BY <2>1, <2>2, ImportedRowLands
<1>3. ASSUME NEW p \in Principals, NEW parent \in Parents, NEW toState \in ToStates,
             NEW tok \in Tokens, StrataConfirm(p, parent, toState, tok)
      PROVE  FALSE
  <2>1. ~ UNCHANGED dataVars
    BY <1>1 DEF dataVars
  <2>2. \A v \in uses' \ uses : v.mutation \in StrataMutations
    BY <1>3, <2>1, StrataCommits
  <2> QED
    BY <1>1, <2>2 DEF StrataMutations
<1>4. ~ UNCHANGED vars /\ ~ Tick
  BY <1>1 DEF vars, dataVars, Tick
<1>5. ASSUME NEW p \in Principals, NEW id \in OwnerIds
      PROVE  ~ EraseOwner(p, id)
  BY <1>1 DEF EraseOwner, storeVars
<1>6. ASSUME NEW p \in Principals, NEW k
      PROVE  ~ IssueFor(p, k)
  BY <1>1 DEF IssueFor, dataVars
<1> QED
  BY <1>2, <1>3, <1>4, <1>5, <1>6 DEF Next, ImportPreview, StrataPreview

(***************************************************************************)
(* A committed import lands, replace or upsert: the last row of its file   *)
(* for a number is on the roll, whatever was committed since its preview.  *)
(***************************************************************************)
THEOREM ImportsLandOnTheRoll == Spec => PreviewedRowsLand
<1>1. RollInv /\ StoreProofs!IInv /\ [Next]_vars => [RowsLand]_vars
  BY ImportsLand
<1>2. Spec => [][RowsLand]_vars
  BY <1>1, RollInit, RollStep, StoreInvariant, PTL DEF Spec
<1> QED
  BY <1>2 DEF RowsLand, PreviewedRowsLand

-----------------------------------------------------------------------------
(* Children *)

\* A live preview of an import of children has children.
TitlesAreGiven ==
    \A tok \in Tokens :
        (entries[tok] # None /\ entries[tok].mutation \in StrataMutations
         /\ entries[tok].mutation.toState = "children_imported")
        => entries[tok].mutation.childCts # << >>

\* Each token's entry after a step of the store: the one before, none, or a
\* preview.
LEMMA EntriesStep ==
  ASSUME StoreProofs!IInv, TitlesAreGiven, [Next]_vars
  PROVE  TitlesAreGiven'
<1>0. entries \in [Tokens -> Store!Entry \cup {None}]
  BY DEF StoreProofs!IInv, StoreProofs!TypeOK, StoreProofs!Entry, Store!Entry
<1>1. ASSUME \A tok \in Tokens : entries'[tok] \in {entries[tok], None}
      PROVE  TitlesAreGiven'
  BY <1>1 DEF TitlesAreGiven
<1>2. ASSUME NEW p \in Principals, NEW m, IssueFor(p, m),
             m \in StrataMutations /\ m.toState = "children_imported" => m.childCts # << >>
      PROVE  TitlesAreGiven'
  <2>1. PICK tok \in Tokens : Store!Issue(tok, m, p)
    BY <1>2 DEF IssueFor
  <2> DEFINE entry == [mutation |-> m, expiresAtMs |-> now + TtlMs, binding |-> p]
  <2>2. /\ entries'[tok] = entry
        /\ \A other \in Tokens \ {tok} : entries'[other] \in {entries[other], None}
    BY <2>1 DEF Store!Issue, Store!Gc
  <2>3. entry.mutation = m
    OBVIOUS
  <2> HIDE DEF entry
  <2> QED
    BY <1>2, <2>2, <2>3 DEF TitlesAreGiven
<1>3. ASSUME NEW p \in Principals, NEW tok \in Tokens, NEW operation,
             Store!Consume(tok, operation, p)
      PROVE  \A other \in Tokens : entries'[other] \in {entries[other], None}
  BY <1>0, <1>3 DEF Store!Consume, Store!Remaining, Store!Gc, Store!Without, Store!Verdict
<1>4. CASE UNCHANGED storeVars
  BY <1>1, <1>4 DEF storeVars
<1>5. ASSUME NEW p \in Principals, NEW id \in OwnerIds, EraseOwner(p, id)
      PROVE  TitlesAreGiven'
  BY <1>4, <1>5 DEF EraseOwner
<1>6. CASE UNCHANGED vars \/ Tick
  BY <1>1, <1>6 DEF vars, storeVars, Tick, Store!Tick
<1>7. ASSUME NEW p \in Principals, NEW c \in Councils,
             NEW strategy \in {"replace", "upsert"}, NEW tok \in Tokens,
             ImportConfirm(p, c, strategy, tok)
      PROVE  TitlesAreGiven'
  BY <1>1, <1>3, <1>7 DEF ImportConfirm
<1>8. ASSUME NEW p \in Principals, NEW parent \in Parents, NEW toState \in ToStates,
             NEW tok \in Tokens, StrataConfirm(p, parent, toState, tok)
      PROVE  TitlesAreGiven'
  BY <1>1, <1>3, <1>8 DEF StrataConfirm
<1>9. ASSUME NEW p \in Principals, NEW c \in Councils,
             NEW strategy \in {"replace", "upsert"}, NEW rows \in Files[c],
             ImportPreview(p, c, strategy, rows)
      PROVE  TitlesAreGiven'
  BY <1>2, <1>9 DEF ImportPreview, StrataMutations
<1>10. ASSUME NEW p \in Principals, NEW parent \in Parents, NEW toState \in ToStates,
              NEW childCts \in ChildCts, StrataPreview(p, parent, toState, childCts)
       PROVE  TitlesAreGiven'
  BY <1>2, <1>10 DEF StrataPreview
<1> QED
  BY <1>5, <1>6, <1>7, <1>8, <1>9, <1>10 DEF Next

\* Each imported child is on the roll as often as before, or once.
ChildrenOnce ==
    \A parent \in Parents :
        (lifecycles'[parent] # lifecycles[parent]
         /\ lifecycles'[parent].state = "children_imported")
        => \A i \in DOMAIN lifecycles'[parent].childCts :
              LET an == lifecycles'[parent].childCts[i].childAssessmentNumber
              IN  IF Records(properties, an) = 0 THEN Records(properties', an) = 1
                  ELSE Records(properties', an) = Records(properties, an)

LEMMA ChildrenAreAdded ==
  ASSUME NEW R, properties \in Seq(R), NEW parent \in Parents, parent \in Numbers,
         NEW cts \in Seq(Titles), NEW i \in DOMAIN cts, NEW an,
         an = ChildAssessmentNumber(parent, cts[i])
  PROVE  Records(WithChildren(parent, cts), an) =
           IF Records(properties, an) = 0 THEN 1 ELSE Records(properties, an)
<1> DEFINE from == GetProperty(parent)
           kid(j) == Property(ChildAssessmentNumber(parent, cts[j]),
                              from.council, from.ownerId)
           kids == [j \in 1 .. Len(cts) |-> kid(j)]
           T == R \cup {kid(j) : j \in 1 .. Len(cts)}
<1>1. DOMAIN cts = 1 .. Len(cts) /\ Len(cts) \in Nat
  OBVIOUS
<1>2. WithChildren(parent, cts) = AddAll(properties, kids)
  BY <1>1 DEF WithChildren
<1>3. kid(i).assessmentNumber = an
  BY DEF Property
<1>4. \A j \in 1 .. Len(cts) : kid(j) \in T
  OBVIOUS
<1> HIDE DEF kid
<1>5. properties \in Seq(T)
  OBVIOUS
<1> HIDE DEF T
<1>6. kids \in Seq(T) /\ Len(kids) = Len(cts) /\ kids[i] = kid(i)
  BY <1>1, <1>4
<1> HIDE DEF kids
<1>7. i \in 1 .. Len(kids)
  BY <1>1, <1>6
<1> QED
  BY <1>2, <1>3, <1>5, <1>6, <1>7, AddedOnce

LEMMA ConversionAddsChildren ==
  ASSUME RollInv, LifecyclesInv, TitlesAreGiven, StoreProofs!IInv, [Next]_vars
  PROVE  ChildrenOnce
<1> SUFFICES ASSUME NEW parent \in Parents, lifecycles'[parent] # lifecycles[parent],
                    lifecycles'[parent].state = "children_imported",
                    NEW i \in DOMAIN lifecycles'[parent].childCts, NEW an,
                    an = lifecycles'[parent].childCts[i].childAssessmentNumber
             PROVE  Records(properties', an) =
                      IF Records(properties, an) = 0 THEN 1 ELSE Records(properties, an)
  BY DEF ChildrenOnce
<1>1. PICK p \in Principals, other \in Parents, toState \in ToStates, tok \in Tokens :
        StrataConfirm(p, other, toState, tok)
  <2>1. ASSUME NEW p \in Principals
        PROVE  /\ \A id \in OwnerIds : ~EraseOwner(p, id)
               /\ \A c \in Councils, strategy \in {"replace", "upsert"} :
                    /\ \A rows \in Files[c] : ~ImportPreview(p, c, strategy, rows)
                    /\ \A tok \in Tokens : ~ImportConfirm(p, c, strategy, tok)
               /\ \A x \in Parents, toState \in ToStates, childCts \in ChildCts :
                    ~StrataPreview(p, x, toState, childCts)
    BY DEF EraseOwner, ImportPreview, ImportConfirm, StrataPreview, IssueFor, dataVars
  <2>2. Next /\ ~Tick
    BY DEF vars, dataVars, Tick
  <2> QED
    BY <2>1, <2>2 DEF Next
<1>2. ~ UNCHANGED dataVars
  BY DEF dataVars
<1> DEFINE m == entries[tok].mutation
<1>3. /\ entries[tok] # None /\ m \in StrataMutations /\ m.toState = toState
      /\ properties' = IF toState = "children_imported"
                       THEN WithChildren(other, m.childCts) ELSE properties
  BY <1>1, <1>2, StrataCommits
<1>4. PICK record : /\ record.state = toState
                    /\ record.childCts = Kept(other, toState, m.childCts)
                    /\ lifecycles' = [lifecycles EXCEPT ![other] = record]
  <2> DEFINE before == lifecycles[other]
             record == [state |-> toState,
                        history |-> (IF before = None THEN << >> ELSE before.history)
                                      \o <<toState>>,
                        childCts |-> Kept(other, toState, m.childCts)]
  <2>1. lifecycles' = [lifecycles EXCEPT ![other] = record]
    BY <1>1, <1>2 DEF StrataConfirm, dataVars
  <2> QED
    BY <2>1
<1>5. other = parent /\ lifecycles'[parent] = record
  BY <1>4 DEF LifecyclesInv
<1>6. toState = "children_imported"
  BY <1>4, <1>5
<1>7. m.childCts \in Seq(Titles) /\ m.childCts # << >>
  BY <1>3, <1>6, RollAssumption DEF TitlesAreGiven, StrataMutations
<1>8. record.childCts = Recorded(parent, toState, m.childCts)
  BY <1>4, <1>5, <1>7 DEF Kept
<1>9. i \in DOMAIN m.childCts /\ an = ChildAssessmentNumber(parent, m.childCts[i])
  BY <1>5, <1>6, <1>8 DEF Recorded
<1>10. PICK R : properties \in Seq(R)
  BY DEF RollInv
<1>11. parent \in Numbers
  BY <1>1, <1>5 DEF StrataConfirm, MayRequest
<1> HIDE DEF m
<1>12. Records(WithChildren(parent, m.childCts), an) =
         IF Records(properties, an) = 0 THEN 1 ELSE Records(properties, an)
  BY <1>7, <1>9, <1>10, <1>11, ChildrenAreAdded
<1> QED
  BY <1>3, <1>5, <1>6, <1>12

(***************************************************************************)
(* An import of children puts each of them on the roll, and none twice:    *)
(* not one listed twice, nor one that a roll file brought before.          *)
(***************************************************************************)
THEOREM ChildrenAreNeverDuplicated == Spec => ChildrenAreOnTheRollOnce
<1>1. Init => TitlesAreGiven /\ LifecyclesInv
  BY DEF Init, Store!Init, TitlesAreGiven, LifecyclesInv
<1>2. TitlesAreGiven /\ StoreProofs!IInv /\ [Next]_vars => TitlesAreGiven'
  BY EntriesStep
<1>3. LifecyclesInv /\ StoreProofs!IInv /\ [Next]_vars => LifecyclesInv'
  BY ConversionStep
<1>4. RollInv /\ LifecyclesInv /\ TitlesAreGiven /\ StoreProofs!IInv /\ [Next]_vars
        => [ChildrenOnce]_vars
  BY ConversionAddsChildren
<1>5. Spec => [][ChildrenOnce]_vars
  BY <1>1, <1>2, <1>3, <1>4, RollInit, RollStep, StoreInvariant, PTL DEF Spec
<1> QED
  BY <1>5 DEF ChildrenOnce, ChildrenAreOnTheRollOnce

=============================================================================
