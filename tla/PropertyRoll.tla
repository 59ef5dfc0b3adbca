---------------------------- MODULE PropertyRoll ----------------------------
(***************************************************************************)
(* The two tools that rewrite a council's roll of properties, and the      *)
(* erasure that runs beside them:                                          *)
(*   handlers/importRatingRoll.ts  import_rating_roll                      *)
(*   handlers/venCtConcession.ts   request_strata_conversion               *)
(*   inproc.ts                     eraseOwnerInproc                        *)
(* all under packages/adapter-demo/src.  Each call is one action, as in    *)
(* TwoPhase; calls of several officers interleave between a preview and    *)
(* its confirm.                                                            *)
(*                                                                         *)
(* A property is its number, its council and its owner: what the other     *)
(* columns hold is replaced with them.  Inputs the schemas or the up-front *)
(* checks refuse (an empty file, a withdrawal without a reason, an import  *)
(* of no children) are not enumerated.                                     *)
(***************************************************************************)
EXTENDS Naturals, SequencesExt

CONSTANTS
    Councils, Assessments,
    HomeOf,        \* the council whose prefix an assessment number carries
    People,        \* who a row may name: [name, abn], the abn possibly None
    Files,         \* per council, its roll files: sequences of [assessmentNumber, who]
    Parents,       \* the assessments somebody tries to convert
    SeedOwner,     \* the owner of every seeded property
    ChildCts,      \* the sequences of child titles a caller may supply
    Tokens, Principals, TtlMs, MaxTime,
    MaxPending,    \* no preview is made while so many tokens are live
    None

VARIABLES
    now, entries, previews, uses,   \* of the token store
    properties,    \* the roll, in order
    owners,        \* per owner id: None, "on record" or "erased"
    lifecycles,    \* per parent, its strata lifecycle or None
    audit

storeVars == <<now, entries, previews, uses>>
dataVars == <<properties, owners, lifecycles, audit>>
vars == <<storeVars, dataVars>>

ImportMutations ==
    [operation : {"import_rating_roll"}, councilCode : Councils,
     mergeStrategy : {"replace", "upsert"}, rows : UNION Range(Files)]
ToStates == {"strata_plan_uploaded", "children_previewed", "children_imported",
             "parent_superseded", "withdrawn"}
StrataMutations ==
    [operation : {"request_strata_conversion"}, parentAssessmentNumber : Parents,
     toState : ToStates, childCts : ChildCts]
PendingMutations == ImportMutations \cup StrataMutations
CommitOperations == {"import_rating_roll", "request_strata_conversion"}

Store == INSTANCE CommitTokens WITH
            Mutations <- PendingMutations,
            Operations <- CommitOperations

ChildAssessmentNumber(parent, ct) == <<parent, ct>>
Titles == UNION {ToSet(cts) : cts \in ChildCts}

\* The numbers a property may have: the seeded ones and those of children.
AllNumbers ==
    Assessments \cup {ChildAssessmentNumber(parent, ct) : parent \in Parents, ct \in Titles}

StrataLifecycle ==
    [state : ToStates, history : Seq(ToStates),
     childCts : Seq([ct : Titles, childAssessmentNumber : AllNumbers \cup {None}])]

ASSUME RollAssumption ==
    /\ HomeOf \in [Assessments -> Councils]
    /\ TtlMs \in Nat \ {0} /\ MaxTime \in Nat /\ MaxPending \in Nat
    /\ None \notin Store!Entry /\ None \notin Store!Preview
    /\ None \notin StrataLifecycle
    /\ None \notin {"on record", "erased"}
    /\ \A cts \in ChildCts : cts \in Seq(Titles)
    /\ Parents \subseteq Assessments
    /\ DOMAIN Files = Councils
    /\ \A c \in Councils : << >> \notin Files[c]

\* A file's rows name people, and the seeded roll is finite.
ASSUME RowsAssumption ==
    /\ \A c \in Councils : \A rows \in Files[c] :
          /\ rows \in Seq({rows[i] : i \in DOMAIN rows})
          /\ \A i \in DOMAIN rows : rows[i].who \in People
    /\ IsFiniteSet(Assessments)

-----------------------------------------------------------------------------
(* The roll. *)

OwnerIdFor(c, who) ==
    IF who.abn # None THEN <<"O-ABN", who.abn>> ELSE <<"O-GEN", c, who.name>>
OwnerIds == {SeedOwner} \cup {OwnerIdFor(c, who) : c \in Councils, who \in People}

Property(an, c, id) == [assessmentNumber |-> an, council |-> c, ownerId |-> id]
Numbers == {properties[i].assessmentNumber : i \in DOMAIN properties}

\* getProperty: the first record of that number.
GetProperty(an) ==
    properties[CHOOSE i \in DOMAIN properties :
                 /\ properties[i].assessmentNumber = an
                 /\ \A j \in 1 .. i - 1 : properties[j].assessmentNumber # an]

RowsToProperties(c, rows) ==
    [i \in DOMAIN rows |->
        Property(rows[i].assessmentNumber, c, OwnerIdFor(c, rows[i].who))]

\* addProperty: append, unless the number is there.
AddProperty(roll, row) ==
    IF \E i \in DOMAIN roll : roll[i].assessmentNumber = row.assessmentNumber
    THEN roll ELSE Append(roll, row)

AddAll(roll, rows) == FoldLeft(AddProperty, roll, rows)

\* Map.set, on the values of a Map in insertion order.
MapSet(map, row) ==
    IF \E i \in DOMAIN map : map[i].assessmentNumber = row.assessmentNumber
    THEN [i \in DOMAIN map |->
             IF map[i].assessmentNumber = row.assessmentNumber THEN row ELSE map[i]]
    ELSE Append(map, row)

SetAll(map, rows) == FoldLeft(MapSet, map, rows)

\* upsertProperties: keyed by number alone.
Upserted(incoming) == SetAll(SetAll(<< >>, properties), incoming)

OfCouncil(roll, c) == SelectSeq(roll, LAMBDA p : p.council = c)

\* A property of another council is kept.
Keep(c, kept, p) == IF p.council = c THEN kept ELSE Append(kept, p)

KeepAll(c, kept, roll) == FoldLeft(LAMBDA others, p : Keep(c, others, p), kept, roll)

\* replaceProperties.
Replaced(c, incoming) == KeepAll(c, << >>, properties) \o incoming

\* Owners written without asking whether they are there.
NewOwnersAlways(c, rows) == {OwnerIdFor(c, rows[i].who) : i \in DOMAIN rows}

\* Owners materialised for the first row of each person, ABN or not.
NewOwnersByName(c, rows) ==
    {OwnerIdFor(c, rows[i].who) : i \in
        {j \in DOMAIN rows : owners[OwnerIdFor(c, rows[j].who)] = None
                             /\ \A k \in 1 .. j - 1 : rows[k].who.name # rows[j].who.name}}

\* The owners a file names that are not registered yet.
NewOwners(c, rows) ==
    {id \in {OwnerIdFor(c, rows[i].who) : i \in DOMAIN rows} : owners[id] = None}

-----------------------------------------------------------------------------
Init ==
    /\ Store!Init
    /\ properties = SetToSeq({Property(an, HomeOf[an], SeedOwner) : an \in Assessments})
    /\ owners = [id \in OwnerIds |-> IF id = SeedOwner THEN "on record" ELSE None]
    /\ lifecycles = [parent \in Parents |-> None]
    /\ audit = << >>

\* issue, within the bound of the model.
IssueFor(p, m) ==
    /\ Cardinality({tok \in Tokens : entries[tok] # None}) < MaxPending
    /\ \E tok \in Tokens : Store!Issue(tok, m, p)
    /\ UNCHANGED dataVars

-----------------------------------------------------------------------------
(* import_rating_roll *)

\* councilWriteGuard of tool-tenant-scope.ts: officers import their own roll.
MayImport(p, c) == p.tenantId = c

ImportPreview(p, c, strategy, rows) ==
    /\ MayImport(p, c)
    /\ IssueFor(p, [operation |-> "import_rating_roll", councilCode |-> c,
                    mergeStrategy |-> strategy, rows |-> rows])

ImportConfirm(p, c, strategy, tok) ==
    LET m == entries[tok].mutation
        verdict == Store!Verdict(tok, "import_rating_roll", p)
        incoming == RowsToProperties(c, m.rows)
        roll == IF strategy = "replace" THEN Replaced(c, incoming) ELSE Upserted(incoming)
    IN /\ MayImport(p, c)
       /\ Store!Consume(tok, "import_rating_roll", p)
       /\ IF verdict = "ok" /\ m.councilCode = c /\ m.mergeStrategy = strategy
          THEN /\ properties' = roll
               /\ owners' = [id \in OwnerIds |->
                                IF id \in NewOwners(c, m.rows) THEN "on record" ELSE owners[id]]
               /\ audit' = Append(audit,
                    [action |-> "write.import_rating_roll", by |-> p, target |-> c,
                     before |-> Len(OfCouncil(properties, c)),
                     after |-> Len(OfCouncil(roll, c))])
               /\ UNCHANGED lifecycles
          ELSE UNCHANGED dataVars

-----------------------------------------------------------------------------
(* request_strata_conversion *)

\* A table that lets a conversion skip the preview of its children.
TransitionsWithSkip ==
    [parent_strata_detected |-> {"strata_plan_uploaded", "withdrawn"},
     strata_plan_uploaded   |-> {"children_previewed", "children_imported", "withdrawn"},
     children_previewed     |-> {"children_imported", "withdrawn"},
     children_imported      |-> {"parent_superseded", "withdrawn"},
     parent_superseded      |-> {},
     withdrawn              |-> {}]

STRATA_TRANSITIONS ==
    [parent_strata_detected |-> {"strata_plan_uploaded", "withdrawn"},
     strata_plan_uploaded   |-> {"children_previewed", "withdrawn"},
     children_previewed     |-> {"children_imported", "withdrawn"},
     children_imported      |-> {"parent_superseded", "withdrawn"},
     parent_superseded      |-> {},
     withdrawn              |-> {}]

LifecycleState(parent) ==
    IF lifecycles[parent] = None THEN "parent_strata_detected" ELSE lifecycles[parent].state

\* The up-front checks of every call, preview and confirm.
MayRequest(p, parent, toState) ==
    /\ p.tenantId = HomeOf[parent]
    /\ parent \in Numbers
    /\ toState \in STRATA_TRANSITIONS[LifecycleState(parent)]

StrataPreview(p, parent, toState, childCts) ==
    /\ MayRequest(p, parent, toState)
    /\ toState = "children_imported" => childCts # << >>
    /\ IssueFor(p, [operation |-> "request_strata_conversion",
                    parentAssessmentNumber |-> parent, toState |-> toState,
                    childCts |-> childCts])

\* One property record per child title, whatever is on the roll.
WithChildrenAgain(parent, childCts) ==
    properties \o [i \in DOMAIN childCts |->
        Property(ChildAssessmentNumber(parent, childCts[i]), GetProperty(parent).council,
                 GetProperty(parent).ownerId)]

\* A property record for each child title that has none.
WithChildren(parent, childCts) ==
    LET from == GetProperty(parent)
    IN  AddAll(properties,
               [i \in DOMAIN childCts |->
                  Property(ChildAssessmentNumber(parent, childCts[i]),
                           from.council, from.ownerId)])

\* What the lifecycle keeps of the titles it is given.
Recorded(parent, toState, childCts) ==
    [i \in DOMAIN childCts |->
        [ct |-> childCts[i],
         childAssessmentNumber |-> IF toState = "children_imported"
                                   THEN ChildAssessmentNumber(parent, childCts[i])
                                   ELSE None]]

\* A call without titles keeps those of the calls before.
Kept(parent, toState, childCts) ==
    IF childCts # << >> THEN Recorded(parent, toState, childCts)
    ELSE IF lifecycles[parent] = None THEN << >> ELSE lifecycles[parent].childCts

\* The confirm repeats the check of the transition once the token is spent;
\* no await lies between the two.
StrataConfirm(p, parent, toState, tok) ==
    LET m == entries[tok].mutation
        verdict == Store!Verdict(tok, "request_strata_conversion", p)
        before == lifecycles[parent]
    IN /\ MayRequest(p, parent, toState)
       /\ Store!Consume(tok, "request_strata_conversion", p)
       /\ IF verdict = "ok" /\ m.parentAssessmentNumber = parent /\ m.toState = toState
          THEN /\ properties' = IF toState = "children_imported"
                                THEN WithChildren(parent, m.childCts) ELSE properties
               /\ lifecycles' = [lifecycles EXCEPT ![parent] =
                    [state |-> toState,
                     history |-> (IF before = None THEN << >> ELSE before.history)
                                   \o <<toState>>,
                     childCts |-> Kept(parent, toState, m.childCts)]]
               /\ audit' = Append(audit,
                    [action |-> "state.strata_conversion", by |-> p, target |-> parent,
                     before |-> LifecycleState(parent), after |-> toState])
               /\ UNCHANGED owners
          ELSE UNCHANGED dataVars

-----------------------------------------------------------------------------
EraseOwner(p, id) ==
    /\ owners[id] = "on record"
    /\ owners' = [owners EXCEPT ![id] = "erased"]
    /\ audit' = Append(audit, [action |-> "erase_owner_pii", by |-> p, target |-> id])
    /\ UNCHANGED <<storeVars, properties, lifecycles>>

Tick == Store!Tick /\ UNCHANGED dataVars

Next ==
    \/ Tick
    \/ \E p \in Principals :
          \/ \E id \in OwnerIds : EraseOwner(p, id)
          \/ \E c \in Councils, strategy \in {"replace", "upsert"} :
                \/ \E rows \in Files[c] : ImportPreview(p, c, strategy, rows)
                \/ \E tok \in Tokens : ImportConfirm(p, c, strategy, tok)
          \/ \E parent \in Parents, toState \in ToStates :
                \/ \E childCts \in ChildCts : StrataPreview(p, parent, toState, childCts)
                \/ \E tok \in Tokens : StrataConfirm(p, parent, toState, tok)

Spec == Init /\ [][Next]_vars

-----------------------------------------------------------------------------
(***************************************************************************)
(* Rolls name the owners they were exported with, and one previewed before *)
(* an erasure may be committed after it: an import never puts an erased    *)
(* owner's details back ("Existing owner records are not overwritten").    *)
(***************************************************************************)
ImportsRespectErasure ==
    [][\A id \in OwnerIds : owners[id] = "erased" => owners'[id] = "erased"]_vars

(***************************************************************************)
(* Every property on the roll has a registered owner, whatever is replaced *)
(* or upserted by which council, and whoever shares an ABN.                *)
(***************************************************************************)
OwnersAreRegistered ==
    \A i \in DOMAIN properties : owners[properties[i].ownerId] # None

\* The import a step commits, if it commits one.
ImportsNow ==
    {u.mutation : u \in {v \in uses' \ uses :
        /\ v.mutation.operation = "import_rating_roll"
        /\ audit' # audit}}

(***************************************************************************)
(* A committed import lands: the last row its file has for an assessment   *)
(* number is on the roll, under the importing council and with the owner   *)
(* the row names, whatever other rolls were committed since the preview.   *)
(***************************************************************************)
PreviewedRowsLand ==
    [][\A m \in ImportsNow : \A i \in DOMAIN m.rows :
          (\A j \in i + 1 .. Len(m.rows) :
              m.rows[j].assessmentNumber # m.rows[i].assessmentNumber)
          => Property(m.rows[i].assessmentNumber, m.councilCode,
                      OwnerIdFor(m.councilCode, m.rows[i].who)) \in ToSet(properties')]_vars

Stage == [parent_strata_detected |-> 0, strata_plan_uploaded |-> 1,
          children_previewed |-> 2, children_imported |-> 3, parent_superseded |-> 4]

\* One stage on, or withdrawn before the parent is superseded.
Advances(from, to) ==
    /\ from # "withdrawn"
    /\ IF to = "withdrawn" THEN from # "parent_superseded" ELSE Stage[to] = Stage[from] + 1

\* The places in the trail of one parent's conversion.
StrataRows(parent) ==
    {i \in DOMAIN audit : audit[i].action = "state.strata_conversion"
                          /\ audit[i].target = parent}

\* The states a parent has been in, the first one too.
Past(parent) ==
    <<"parent_strata_detected">>
      \o (IF lifecycles[parent] = None THEN << >> ELSE lifecycles[parent].history)

(***************************************************************************)
(* However many previews of one parent are outstanding, its conversion     *)
(* goes through every stage once and in order, ends for good when it is    *)
(* withdrawn or the parent superseded ("Cannot skip states"), and its      *)
(* audit rows join up into just that history.                              *)
(***************************************************************************)
StrataTrailIsLegal ==
    \A parent \in Parents :
        /\ Len(Past(parent)) = Cardinality(StrataRows(parent)) + 1
        /\ \A i \in StrataRows(parent) :
              LET rank == Cardinality({j \in StrataRows(parent) : j <= i}) IN
              /\ audit[i].before = Past(parent)[rank]
              /\ audit[i].after = Past(parent)[rank + 1]
              /\ Advances(audit[i].before, audit[i].after)

Records(roll, an) == Cardinality({i \in DOMAIN roll : roll[i].assessmentNumber = an})

(***************************************************************************)
(* When children are imported each of them is on the roll, and none twice: *)
(* not one listed twice, nor one that a roll file brought before ("doesn't *)
(* duplicate child properties").                                           *)
(***************************************************************************)
ChildrenAreOnTheRollOnce ==
    [][\A parent \in Parents :
          (lifecycles'[parent] # lifecycles[parent]
           /\ lifecycles'[parent].state = "children_imported")
          => \A i \in DOMAIN lifecycles'[parent].childCts :
                LET an == lifecycles'[parent].childCts[i].childAssessmentNumber
                IN  IF Records(properties, an) = 0 THEN Records(properties', an) = 1
                    ELSE Records(properties', an) = Records(properties, an)]_vars

=============================================================================
