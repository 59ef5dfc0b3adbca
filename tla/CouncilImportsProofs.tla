------------------------ MODULE CouncilImportsProofs ------------------------
(***************************************************************************)
(* The imports of reference data, for any councils, years, files, officers *)
(* and outstanding previews: they drive the token store as CommitTokens    *)
(* says, none touches an entry outside the scope it was previewed for, the *)
(* audit rows account for every entry of the Maps, and the order of a      *)
(* title file's lines matters only between rows that contradict.           *)
(***************************************************************************)
EXTENDS CouncilImports, FiniteSetTheorems, WellFoundedInduction, TLAPS

StoreProofs == INSTANCE CommitTokensProofs WITH
            Mutations <- PendingMutations,
            Operations <- CommitOperations

LEMMA StoreAssumption ==
  /\ \A m \in PendingMutations : m.operation \in CommitOperations
  /\ TtlMs \in Nat \ {0}
  /\ MaxTime \in Nat
  /\ None \notin Store!Entry
  /\ None \notin Store!Preview
<1>1. \A m \in RateMutations : m.operation = "import_rate_schedule"
  BY DEF RateMutations
<1>2. \A m \in TitleMutations : m.operation = "import_landgate_title_data"
  BY DEF TitleMutations
<1>3. \A m \in WcMutations : m.operation = "import_wc_eligibility"
  BY DEF WcMutations
<1>4. \A m \in PendingMutations : m.operation \in CommitOperations
  BY <1>1, <1>2, <1>3 DEF PendingMutations, CommitOperations
<1> QED
  BY <1>4, ImportsAssumption

\* A mutation of an operation is what that operation's preview captures.
LEMMA MutationsByOperation ==
  ASSUME NEW m \in PendingMutations
  PROVE  /\ m.operation = "import_rate_schedule" => m \in RateMutations
         /\ m.operation = "import_landgate_title_data" => m \in TitleMutations
         /\ m.operation = "import_wc_eligibility" => m \in WcMutations
<1>1. \A r \in RateMutations : r.operation = "import_rate_schedule"
  BY DEF RateMutations
<1>2. \A t \in TitleMutations : t.operation = "import_landgate_title_data"
  BY DEF TitleMutations
<1>3. \A w \in WcMutations : w.operation = "import_wc_eligibility"
  BY DEF WcMutations
<1> QED
  BY <1>1, <1>2, <1>3 DEF PendingMutations

-----------------------------------------------------------------------------
(* The token store. *)

ClockInv == now \in 0 .. MaxTime

LEMMA StampsAreStamps ==
  ASSUME ClockInv, NEW supplied \in Supplied PROVE StampOf(supplied) \in Stamps
  BY DEF ClockInv, StampOf, Stamps

LEMMA IssueIsStoreStep ==
  ASSUME NEW p \in Principals, NEW m \in PendingMutations, IssueFor(p, m)
  PROVE  Store!Next /\ UNCHANGED now
  BY DEF IssueFor, Store!Next, Store!Issue

LEMMA StepIsStoreStep ==
  ASSUME ClockInv, [Next]_vars
  PROVE  ClockInv' /\ [Store!Next]_(Store!vars)
<1> DEFINE Good == ClockInv' /\ [Store!Next]_(Store!vars)
<1>1. CASE Tick
  BY <1>1, ImportsAssumption DEF Tick, Store!Next, Store!Tick, ClockInv
<1>2. ASSUME NEW p \in Principals, NEW c \in Councils, NEW fy \in Years,
             NEW strategy \in {"replace", "upsert"}, NEW file \in RateFiles,
             RatePreview(p, c, fy, strategy, file)
      PROVE  Good
  <2> DEFINE m == [operation |-> "import_rate_schedule", councilCode |-> c,
                   financialYear |-> fy, mergeStrategy |-> strategy,
                   rows |-> ParseRateSchedule(file, fy)]
  <2>1. m \in PendingMutations
    BY DEF PendingMutations, RateMutations
  <2>2. IssueFor(p, m)
    BY <1>2 DEF RatePreview
  <2> HIDE DEF m
  <2> QED
    BY <2>1, <2>2, IssueIsStoreStep DEF ClockInv
<1>3. ASSUME NEW p \in Principals, NEW c \in Councils, NEW supplied \in Supplied,
             NEW file \in TitleFiles, TitlePreview(p, c, supplied, file)
      PROVE  Good
  <2> DEFINE at == StampOf(supplied)
             m == [operation |-> "import_landgate_title_data", councilCode |-> c,
                   retrievedAt |-> at,
                   records |-> AggregateTitleRowsByVen(ParseLandgateTitle(file), c, at)]
  <2>1. at \in Stamps
    BY StampsAreStamps
  <2>2. IssueFor(p, m)
    BY <1>3 DEF TitlePreview
  <2> HIDE DEF at
  <2>3. m \in PendingMutations
    BY <2>1 DEF PendingMutations, TitleMutations
  <2> HIDE DEF m
  <2> QED
    BY <2>2, <2>3, IssueIsStoreStep DEF ClockInv
<1>4. ASSUME NEW p \in Principals, NEW c \in Councils, NEW supplied \in Supplied,
             NEW file \in WcFiles, WcPreview(p, c, supplied, file)
      PROVE  Good
  <2> DEFINE at == StampOf(supplied)
             m == [operation |-> "import_wc_eligibility", councilCode |-> c,
                   retrievedAt |-> at, rows |-> ParseWcEligibility(file)]
  <2>1. at \in Stamps
    BY StampsAreStamps
  <2>2. IssueFor(p, m)
    BY <1>4 DEF WcPreview
  <2> HIDE DEF at
  <2>3. m \in PendingMutations
    BY <2>1 DEF PendingMutations, WcMutations
  <2> HIDE DEF m
  <2> QED
    BY <2>2, <2>3, IssueIsStoreStep DEF ClockInv
<1>5. ASSUME NEW p \in Principals, NEW c \in Councils, NEW fy \in Years,
             NEW strategy \in {"replace", "upsert"}, NEW tok \in Tokens,
             RateConfirm(p, c, fy, strategy, tok)
      PROVE  Good
  BY <1>5 DEF RateConfirm, Store!Next, Store!Consume, CommitOperations, ClockInv
<1>6. ASSUME NEW p \in Principals, NEW c \in Councils, NEW tok \in Tokens,
             TitleConfirm(p, c, tok)
      PROVE  Good
  BY <1>6 DEF TitleConfirm, Store!Next, Store!Consume, CommitOperations, ClockInv
<1>7. ASSUME NEW p \in Principals, NEW c \in Councils, NEW tok \in Tokens,
             WcConfirm(p, c, tok)
      PROVE  Good
  BY <1>7 DEF WcConfirm, Store!Next, Store!Consume, CommitOperations, ClockInv
<1>8. CASE UNCHANGED vars
  BY <1>8 DEF vars, storeVars, Store!vars, ClockInv
<1> QED
  BY <1>1, <1>2, <1>3, <1>4, <1>5, <1>6, <1>7, <1>8 DEF Next

LEMMA StoreInvariant == Spec => []StoreProofs!IInv
<1>1. Spec => StoreProofs!Spec
  <2>1. Init => StoreProofs!Init /\ ClockInv
    BY ImportsAssumption DEF Init, Store!Init, StoreProofs!Init, ClockInv
  <2>2. ClockInv /\ [Next]_vars => ClockInv' /\ [StoreProofs!Next]_(StoreProofs!vars)
    BY StepIsStoreStep DEF Store!Next, Store!vars, StoreProofs!Next, StoreProofs!vars,
       Store!Tick, StoreProofs!Tick, Store!Issue, StoreProofs!Issue, Store!Consume,
       StoreProofs!Consume, Store!Gc, StoreProofs!Gc, Store!Verdict, StoreProofs!Verdict,
       Store!Remaining, StoreProofs!Remaining, Store!Without, StoreProofs!Without,
       Store!Expired, StoreProofs!Expired
  <2> QED
    BY <2>1, <2>2, PTL DEF Spec, StoreProofs!Spec
<1>2. StoreProofs!Spec => []StoreProofs!IInv
  BY StoreProofs!Inductive, StoreAssumption DEF StoreProofs!TokenAssumption,
     Store!Entry, Store!Preview, StoreProofs!Entry, StoreProofs!Preview
<1> QED
  BY <1>1, <1>2, PTL

-----------------------------------------------------------------------------
(* The scopes. *)

\* The trail is a sequence: a row more is another trail.
TrailInv == \E S : audit \in Seq(S)

LEMMA RecordIsNew ==
  ASSUME TrailInv, NEW row, audit' = Append(audit, row)
  PROVE  TrailInv' /\ audit' # audit
<1>1. PICK S : audit \in Seq(S)
  BY DEF TrailInv
<1>2. audit \in Seq(S \cup {row})
  BY <1>1
<1>3. audit' \in Seq(S \cup {row}) /\ Len(audit') = Len(audit) + 1
  BY <1>2
<1>4. Len(audit) \in Nat
  BY <1>1
<1> QED
  BY <1>3, <1>4 DEF TrailInv

\* An entry changes only if a row writes to its key.
LEMMA OnlyWrittenKeysChange ==
  ASSUME NEW map, NEW writes, NEW k \in DOMAIN map,
         \A i \in DOMAIN writes : writes[i].key # k
  PROVE  Upserted(map, writes)[k] = map[k]
  BY DEF Upserted

\* What a confirm that writes has spent: its caller's own preview.
LEMMA OkIsANewUse ==
  ASSUME StoreProofs!IInv, NEW p \in Principals, NEW tok \in Tokens,
         NEW operation \in CommitOperations,
         Store!Consume(tok, operation, p), Store!Verdict(tok, operation, p) = "ok"
  PROVE  /\ entries[tok].mutation \in PendingMutations
         /\ entries[tok].mutation.operation = operation
         /\ \E u \in uses' \ uses : /\ u.mutation = entries[tok].mutation
                                    /\ previews[u.token].by = p
<1> DEFINE m == entries[tok].mutation
           u == [token |-> tok, mutation |-> m, at |-> now, by |-> p]
<1>1. /\ entries[tok] # None /\ m.operation = operation
      /\ entries[tok].binding = p
  BY DEF Store!Verdict
<1>2. m \in PendingMutations
  BY <1>1 DEF StoreProofs!IInv, StoreProofs!TypeOK, StoreProofs!Entry
<1>3. uses' = uses \cup {u}
  BY DEF Store!Consume
<1>4. u \notin uses /\ previews[tok].by = p
  BY <1>1 DEF StoreProofs!IInv, StoreProofs!EntriesArePreviews, StoreProofs!Used
<1> QED
  BY <1>1, <1>2, <1>3, <1>4

MapsInv ==
    /\ DOMAIN rateSchedules = RateKeys
    /\ DOMAIN landgateRecords = TitleKeys
    /\ DOMAIN wcEligibility = WcKeys

\* What ImportsStayInTheirScope says of one step, Map by Map.
RatesInScope ==
    \A k \in Changed(rateSchedules, rateSchedules') : \E u \in CommitsNow :
        /\ u.mutation.operation = "import_rate_schedule"
        /\ k[1] = u.mutation.councilCode /\ k[2] = u.mutation.financialYear
        /\ MayImport(previews[u.token].by, k[1])
TitlesInScope ==
    \A k \in Changed(landgateRecords, landgateRecords') : \E u \in CommitsNow :
        /\ u.mutation.operation = "import_landgate_title_data"
        /\ k[1] = u.mutation.councilCode /\ MayImport(previews[u.token].by, k[1])
CardsInScope ==
    \A k \in Changed(wcEligibility, wcEligibility') : \E u \in CommitsNow :
        /\ u.mutation.operation = "import_wc_eligibility"
        /\ k[1] = u.mutation.councilCode /\ MayImport(previews[u.token].by, k[1])

InScope == RatesInScope /\ TitlesInScope /\ CardsInScope

LEMMA RatesStayInScope ==
  ASSUME StoreProofs!IInv, TrailInv, MapsInv, NEW p \in Principals, NEW c \in Councils,
         NEW fy \in Years, NEW strategy \in {"replace", "upsert"}, NEW tok \in Tokens,
         RateConfirm(p, c, fy, strategy, tok)
  PROVE  TrailInv' /\ MapsInv' /\ InScope
<1> DEFINE m == entries[tok].mutation
           writes == [i \in DOMAIN m.rows |->
                        [key |-> <<c, m.rows[i].financialYear, m.rows[i].rateCode>>,
                         value |-> m.rows[i].rateInDollar]]
           cleared == [k \in RateKeys |-> IF k \in YearKeys(c, fy) THEN None
                                          ELSE rateSchedules[k]]
<1>1. CASE UNCHANGED <<mapVars, audit>>
  BY <1>1 DEF mapVars, TrailInv, MapsInv, InScope, RatesInScope, TitlesInScope,
              CardsInScope, Changed
<1>2. CASE ~UNCHANGED <<mapVars, audit>>
  <2>1. /\ MayImport(p, c)
        /\ Store!Consume(tok, "import_rate_schedule", p)
        /\ Store!Verdict(tok, "import_rate_schedule", p) = "ok"
        /\ m.councilCode = c /\ m.financialYear = fy /\ m.mergeStrategy = strategy
        /\ UNCHANGED <<landgateRecords, wcEligibility>>
        /\ rateSchedules' = IF strategy = "replace" THEN Upserted(cleared, writes)
                            ELSE Upserted(rateSchedules, writes)
        /\ \E row : audit' = Append(audit, row)
    BY <1>2 DEF RateConfirm, Replaced, Record
  <2>2. PICK u \in uses' \ uses : u.mutation = m /\ previews[u.token].by = p
    BY <2>1, OkIsANewUse DEF CommitOperations
  <2>3. m \in RateMutations
    BY <2>1, OkIsANewUse, MutationsByOperation DEF CommitOperations
  <2>4. m.operation = "import_rate_schedule"
    BY <2>3 DEF RateMutations
  <2>5. TrailInv' /\ audit' # audit
    BY <2>1, RecordIsNew
  <2>6. u \in CommitsNow
    BY <2>2, <2>5 DEF CommitsNow
  <2>7. \A i \in DOMAIN m.rows : m.rows[i].financialYear = fy
    <3>1. PICK file \in RateFiles : m.rows = ParseRateSchedule(file, fy)
      BY <2>1, <2>3 DEF RateMutations
    <3> QED
      BY <3>1 DEF ParseRateSchedule
  <2>8. \A i \in DOMAIN writes : writes[i].key[1] = c /\ writes[i].key[2] = fy
    BY <2>7
  <2> HIDE DEF m, writes
  <2>9. ASSUME NEW k \in RateKeys, ~(k[1] = c /\ k[2] = fy)
        PROVE  rateSchedules'[k] = rateSchedules[k]
    <3>1. \A i \in DOMAIN writes : writes[i].key # k
      BY <2>8, <2>9
    <3>2. cleared[k] = rateSchedules[k] /\ k \in DOMAIN cleared
      BY <2>9 DEF YearKeys
    <3>3. k \in DOMAIN rateSchedules
      BY <2>9 DEF MapsInv
    <3> HIDE DEF cleared
    <3> QED
      BY <2>1, <3>1, <3>2, <3>3, OnlyWrittenKeysChange
  <2>10. MapsInv'
    BY <2>1 DEF MapsInv, Upserted
  <2>11. RatesInScope
    BY <2>1, <2>2, <2>4, <2>6, <2>9 DEF RatesInScope, Changed, MapsInv
  <2>12. TitlesInScope /\ CardsInScope
    BY <2>1 DEF TitlesInScope, CardsInScope, Changed
  <2> QED
    BY <2>5, <2>10, <2>11, <2>12 DEF InScope
<1> QED
  BY <1>1, <1>2

LEMMA RecordsAreOfCouncil ==
  ASSUME NEW rows, NEW c, NEW at
  PROVE  \A r \in ToSet(AggregateTitleRowsByVen(rows, c, at)) : r.councilCode = c
<1> DEFINE records == AggregateTitleRowsByVen(rows, c, at)
<1>1. ASSUME NEW i \in DOMAIN records PROVE records[i].councilCode = c
  <2>1. records[i] = RecordOf(rows, VenOf(rows[i]), c, at)
    BY DEF AggregateTitleRowsByVen
  <2> QED
    BY <2>1 DEF RecordOf
<1> HIDE DEF records
<1> QED
  BY <1>1 DEF ToSet, records

LEMMA TitlesStayInScope ==
  ASSUME StoreProofs!IInv, TrailInv, MapsInv, NEW p \in Principals, NEW c \in Councils,
         NEW tok \in Tokens, TitleConfirm(p, c, tok)
  PROVE  TrailInv' /\ MapsInv' /\ InScope
<1> DEFINE m == entries[tok].mutation
           RecordAt(k) == {r \in ToSet(m.records) : k = <<r.councilCode, r.ven>>}
<1>1. CASE UNCHANGED <<mapVars, audit>>
  BY <1>1 DEF mapVars, TrailInv, MapsInv, InScope, RatesInScope, TitlesInScope,
              CardsInScope, Changed
<1>2. CASE ~UNCHANGED <<mapVars, audit>>
  <2>1. /\ MayImport(p, c)
        /\ Store!Consume(tok, "import_landgate_title_data", p)
        /\ Store!Verdict(tok, "import_landgate_title_data", p) = "ok"
        /\ m.councilCode = c
        /\ UNCHANGED <<rateSchedules, wcEligibility>>
        /\ landgateRecords' =
              [k \in TitleKeys |-> IF RecordAt(k) = {} THEN landgateRecords[k]
                                   ELSE CHOOSE r \in RecordAt(k) : TRUE]
        /\ \E row : audit' = Append(audit, row)
    BY <1>2 DEF TitleConfirm, Record
  <2>2. PICK u \in uses' \ uses : u.mutation = m /\ previews[u.token].by = p
    BY <2>1, OkIsANewUse DEF CommitOperations
  <2>3. m \in TitleMutations
    BY <2>1, OkIsANewUse, MutationsByOperation DEF CommitOperations
  <2>4. m.operation = "import_landgate_title_data"
    BY <2>3 DEF TitleMutations
  <2>5. TrailInv' /\ audit' # audit
    BY <2>1, RecordIsNew
  <2>6. u \in CommitsNow
    BY <2>2, <2>5 DEF CommitsNow
  <2>7. \A r \in ToSet(m.records) : r.councilCode = c
    <3>1. PICK file \in TitleFiles, at \in Stamps :
             m.records = AggregateTitleRowsByVen(ParseLandgateTitle(file), c, at)
      BY <2>1, <2>3 DEF TitleMutations
    <3> QED
      BY <3>1, RecordsAreOfCouncil
  <2>8. ASSUME NEW k \in TitleKeys, k[1] # c
        PROVE  landgateRecords'[k] = landgateRecords[k]
    <3>1. RecordAt(k) = {}
      BY <2>7, <2>8
    <3> QED
      BY <2>1, <3>1
  <2> HIDE DEF m
  <2>9. MapsInv'
    BY <2>1 DEF MapsInv
  <2>10. TitlesInScope
    BY <2>1, <2>2, <2>4, <2>6, <2>8 DEF TitlesInScope, Changed, MapsInv
  <2>11. RatesInScope /\ CardsInScope
    BY <2>1 DEF RatesInScope, CardsInScope, Changed
  <2> QED
    BY <2>5, <2>9, <2>10, <2>11 DEF InScope
<1> QED
  BY <1>1, <1>2

LEMMA CardsStayInScope ==
  ASSUME StoreProofs!IInv, TrailInv, MapsInv, NEW p \in Principals, NEW c \in Councils,
         NEW tok \in Tokens, WcConfirm(p, c, tok)
  PROVE  TrailInv' /\ MapsInv' /\ InScope
<1> DEFINE m == entries[tok].mutation
           writes == [i \in DOMAIN m.rows |->
                        [key |-> WcKey(c, m.rows[i]),
                         value |-> WcRecord(m.rows[i], c, m.retrievedAt)]]
<1>1. CASE UNCHANGED <<mapVars, audit>>
  BY <1>1 DEF mapVars, TrailInv, MapsInv, InScope, RatesInScope, TitlesInScope,
              CardsInScope, Changed
<1>2. CASE ~UNCHANGED <<mapVars, audit>>
  <2>1. /\ MayImport(p, c)
        /\ Store!Consume(tok, "import_wc_eligibility", p)
        /\ Store!Verdict(tok, "import_wc_eligibility", p) = "ok"
        /\ m.councilCode = c
        /\ UNCHANGED <<rateSchedules, landgateRecords>>
        /\ wcEligibility' = Upserted(wcEligibility, writes)
        /\ \E row : audit' = Append(audit, row)
    BY <1>2 DEF WcConfirm, Record
  <2>2. PICK u \in uses' \ uses : u.mutation = m /\ previews[u.token].by = p
    BY <2>1, OkIsANewUse DEF CommitOperations
  <2>3. m.operation = "import_wc_eligibility"
    BY <2>1, OkIsANewUse DEF CommitOperations
  <2>4. TrailInv' /\ audit' # audit
    BY <2>1, RecordIsNew
  <2>5. u \in CommitsNow
    BY <2>2, <2>4 DEF CommitsNow
  <2>6. \A i \in DOMAIN writes : writes[i].key[1] = c
    BY DEF WcKey
  <2> HIDE DEF m, writes
  <2>7. ASSUME NEW k \in WcKeys, k[1] # c
        PROVE  wcEligibility'[k] = wcEligibility[k]
    <3>1. \A i \in DOMAIN writes : writes[i].key # k
      BY <2>6, <2>7
    <3>2. k \in DOMAIN wcEligibility
      BY <2>7 DEF MapsInv
    <3> QED
      BY <2>1, <3>1, <3>2, OnlyWrittenKeysChange
  <2>8. MapsInv'
    BY <2>1 DEF MapsInv, Upserted
  <2>9. CardsInScope
    BY <2>1, <2>2, <2>3, <2>5, <2>7 DEF CardsInScope, Changed, MapsInv
  <2>10. RatesInScope /\ TitlesInScope
    BY <2>1 DEF RatesInScope, TitlesInScope, Changed
  <2> QED
    BY <2>4, <2>8, <2>9, <2>10 DEF InScope
<1> QED
  BY <1>1, <1>2

\* Every step but a confirm leaves the imported Maps and the trail alone.
LEMMA OnlyConfirmsImport ==
  ASSUME [Next]_vars
  PROVE  \/ UNCHANGED <<mapVars, audit>>
         \/ \E p \in Principals, c \in Councils, fy \in Years,
               strategy \in {"replace", "upsert"}, tok \in Tokens :
                  RateConfirm(p, c, fy, strategy, tok)
         \/ \E p \in Principals, c \in Councils, tok \in Tokens :
                  TitleConfirm(p, c, tok) \/ WcConfirm(p, c, tok)
<1>1. CASE Tick \/ UNCHANGED vars
  BY <1>1 DEF Tick, vars
<1>2. ASSUME NEW p \in Principals, NEW c \in Councils, NEW fy \in Years,
             NEW strategy \in {"replace", "upsert"}, NEW file \in RateFiles,
             RatePreview(p, c, fy, strategy, file)
      PROVE  UNCHANGED <<mapVars, audit>>
  BY <1>2 DEF RatePreview, IssueFor
<1>3. ASSUME NEW p \in Principals, NEW c \in Councils, NEW supplied \in Supplied,
             NEW file \in TitleFiles, TitlePreview(p, c, supplied, file)
      PROVE  UNCHANGED <<mapVars, audit>>
  BY <1>3 DEF TitlePreview, IssueFor
<1>4. ASSUME NEW p \in Principals, NEW c \in Councils, NEW supplied \in Supplied,
             NEW file \in WcFiles, WcPreview(p, c, supplied, file)
      PROVE  UNCHANGED <<mapVars, audit>>
  BY <1>4 DEF WcPreview, IssueFor
<1> QED
  BY <1>1, <1>2, <1>3, <1>4 DEF Next

LEMMA StepStaysInScope ==
  ASSUME StoreProofs!IInv, TrailInv, MapsInv, [Next]_vars
  PROVE  TrailInv' /\ MapsInv' /\ InScope
<1>1. CASE UNCHANGED <<mapVars, audit>>
  BY <1>1 DEF mapVars, TrailInv, MapsInv, InScope, RatesInScope, TitlesInScope,
              CardsInScope, Changed
<1>2. ASSUME NEW p \in Principals, NEW c \in Councils, NEW fy \in Years,
             NEW strategy \in {"replace", "upsert"}, NEW tok \in Tokens,
             RateConfirm(p, c, fy, strategy, tok)
      PROVE  TrailInv' /\ MapsInv' /\ InScope
  BY <1>2, RatesStayInScope
<1>3. ASSUME NEW p \in Principals, NEW c \in Councils, NEW tok \in Tokens,
             TitleConfirm(p, c, tok) \/ WcConfirm(p, c, tok)
      PROVE  TrailInv' /\ MapsInv' /\ InScope
  BY <1>3, TitlesStayInScope, CardsStayInScope
<1> QED
  BY <1>1, <1>2, <1>3, OnlyConfirmsImport

(***************************************************************************)
(* No import touches an entry of another council, or a rate of another     *)
(* year, whatever its file lists and whichever previews are outstanding:   *)
(* each entry that a step changes is in the scope of a mutation that the   *)
(* step commits, and its previewer may write there.                        *)
(***************************************************************************)
THEOREM ImportsKeepTheirScope == Spec => ImportsStayInTheirScope
<1>1. Init => TrailInv /\ MapsInv
  <2>1. << >> \in Seq({})
    OBVIOUS
  <2> QED
    BY <2>1 DEF Init, TrailInv, MapsInv
<1>2. TrailInv /\ MapsInv /\ StoreProofs!IInv /\ [Next]_vars => TrailInv' /\ MapsInv'
  BY StepStaysInScope
<1>3. TrailInv /\ MapsInv /\ StoreProofs!IInv /\ [Next]_vars => [InScope]_vars
  BY StepStaysInScope
<1> QED
  BY <1>1, <1>2, <1>3, StoreInvariant, PTL
     DEF Spec, ImportsStayInTheirScope, InScope, RatesInScope, TitlesInScope, CardsInScope
-----------------------------------------------------------------------------
(* The first and the last of some lines. *)

LEMMA MinIsLeast ==
  ASSUME NEW S \in SUBSET Nat, S # {}
  PROVE  Min(S) \in S /\ \A y \in S : Min(S) <= y
<1>1. IsWellFoundedOn(OpToRel(<, Nat), Nat)
  BY NatLessThanWellFounded
<1>2. PICK x \in S : \A y \in S : ~ (<<y, x>> \in OpToRel(<, Nat))
  <2> HIDE DEF OpToRel
  <2> QED
    BY <1>1, WFMin
<1>3. ASSUME NEW y \in S
      PROVE  x <= y
  <2>1. ~ (y < x)
    BY <1>2 DEF OpToRel
  <2> QED
    BY <2>1
<1> QED
  BY <1>3 DEF Min

LEMMA MaxIsLargest ==
  ASSUME NEW n \in Nat, NEW s \in SUBSET (1 .. n), s # {}
  PROVE  Max(s) \in s /\ \A y \in s : Max(s) >= y
<1> DEFINE R == {n - x : x \in s}
<1>1. IsWellFoundedOn(OpToRel(<, Nat), Nat)
  BY NatLessThanWellFounded
<1>2. R \in SUBSET Nat /\ R # {}
  <2>1. \A x \in s : n - x \in Nat
    OBVIOUS
  <2> QED
    BY <2>1
<1> HIDE DEF R
<1>3. PICK m \in R : \A y \in R : ~ (<<y, m>> \in OpToRel(<, Nat))
  <2> HIDE DEF OpToRel
  <2> QED
    BY <1>1, <1>2, WFMin
<1> USE DEF R
<1>4. PICK x \in s : m = n - x
  BY <1>3
<1>5. \A y \in s : x >= y
  <2> SUFFICES ASSUME NEW y \in s PROVE x >= y
    OBVIOUS
  <2>1. n - y \in R /\ n - y \in Nat /\ m \in Nat
    BY <1>4
  <2>2. ~ (n - y < m)
    BY <1>3, <2>1 DEF OpToRel
  <2> QED
    BY <1>4, <2>1, <2>2
<1> QED
  BY <1>5 DEF Max

-----------------------------------------------------------------------------
(* The counts of the trail. *)

LEMMA AboutAreRows ==
  ASSUME NEW R, NEW trail \in Seq(R), NEW action, NEW scope
  PROVE  RowsAbout(trail, action, scope) \in SUBSET (1 .. Len(trail))
  BY DEF RowsAbout

\* A row that begins where its Map and scope stand leaves them joined up.
LEMMA RowJoinsUp ==
  ASSUME NEW R, NEW trail \in Seq(R), NEW action, NEW scope, NEW size, NEW row,
         JoinUp(trail, RowsAbout(trail, action, scope), size),
         row.action = action, row.scope = scope, row.before = size,
         row.after <= row.before + row.inserted - row.removed
  PROVE  /\ RowsAbout(Append(trail, row), action, scope)
               = RowsAbout(trail, action, scope) \cup {Len(trail) + 1}
         /\ JoinUp(Append(trail, row), RowsAbout(Append(trail, row), action, scope), row.after)
<1> DEFINE n == Len(trail) + 1
           longer == Append(trail, row)
           rows == RowsAbout(trail, action, scope)
<1>1. /\ n \in Nat /\ n # 0 /\ DOMAIN longer = 1 .. n /\ DOMAIN trail = 1 .. Len(trail)
      /\ longer[n] = row /\ \A i \in 1 .. Len(trail) : longer[i] = trail[i]
      /\ Len(trail) \in Nat
  OBVIOUS
<1> HIDE DEF longer
<1>2. RowsAbout(longer, action, scope) = rows \cup {n}
  <2>1. \A i \in 1 .. n : i = n \/ i \in 1 .. Len(trail)
    BY <1>1
  <2> QED
    BY <1>1, <2>1 DEF RowsAbout
<1>3. rows \in SUBSET (1 .. Len(trail))
  BY AboutAreRows
<1> HIDE DEF rows
<1>9. \A i \in rows : i \in Nat /\ i < n /\ i \in 1 .. n /\ i # n
  <2> SUFFICES ASSUME NEW i \in rows PROVE i \in Nat /\ i < n /\ i \in 1 .. n /\ i # n
    OBVIOUS
  <2>1. i \in 1 .. Len(trail)
    BY <1>3
  <2> QED
    BY <1>1, <2>1
<1>4. ASSUME NEW S \in SUBSET rows
      PROVE  After(longer, S) = After(trail, S)
  <2>1. S # {} => Max(S) \in 1 .. Len(trail)
    BY <1>1, <1>3, MaxIsLargest
  <2> QED
    BY <1>1, <2>1 DEF After
<1>5. ASSUME NEW i \in rows
      PROVE  /\ longer[i].before = After(longer, {j \in rows \cup {n} : j < i})
             /\ longer[i].after <= longer[i].before + longer[i].inserted - longer[i].removed
  <2>1. {j \in rows \cup {n} : j < i} = {j \in rows : j < i}
    BY <1>1, <1>3
  <2>2. After(longer, {j \in rows : j < i}) = After(trail, {j \in rows : j < i})
    BY <1>4
  <2>3. longer[i] = trail[i]
    BY <1>1, <1>3
  <2> QED
    BY <2>1, <2>2, <2>3 DEF JoinUp, rows
<1>6. longer[n].before = After(longer, {j \in rows \cup {n} : j < n})
  <2>1. {j \in rows \cup {n} : j < n} = rows
    <3> HIDE DEF n
    <3> QED
      BY <1>9, <1>1
  <2>2. After(longer, rows) = After(trail, rows)
    BY <1>4
  <2> QED
    BY <1>1, <2>1, <2>2 DEF JoinUp, rows
<1>7. row.after = After(longer, rows \cup {n})
  <2>1. rows \cup {n} \in SUBSET (1 .. n) /\ rows \cup {n} # {}
    BY <1>9, <1>1
  <2>2. Max(rows \cup {n}) \in rows \cup {n} /\ Max(rows \cup {n}) >= n
    <3>1. n \in Nat /\ n \in rows \cup {n}
      BY <1>1
    <3> HIDE DEF n, rows
    <3> QED
      BY <2>1, <3>1, MaxIsLargest
  <2>3. Max(rows \cup {n}) = n
    <3> HIDE DEF n
    <3> QED
      BY <1>1, <1>9, <2>2
  <2> QED
    BY <1>1, <2>1, <2>3 DEF After
<1>8. longer[n].after <= longer[n].before + longer[n].inserted - longer[n].removed
  BY <1>1
<1>10. JoinUp(longer, rows \cup {n}, row.after)
  <2> HIDE DEF longer, rows, n
  <2> QED
    BY <1>5, <1>6, <1>7, <1>8 DEF JoinUp
<1> QED
  BY <1>2, <1>10 DEF longer, rows, n

\* A row about anything else leaves them as they are.
LEMMA OtherRowJoinsUp ==
  ASSUME NEW R, NEW trail \in Seq(R), NEW action, NEW scope, NEW size, NEW row,
         JoinUp(trail, RowsAbout(trail, action, scope), size),
         ~(row.action = action /\ row.scope = scope)
  PROVE  /\ RowsAbout(Append(trail, row), action, scope) = RowsAbout(trail, action, scope)
         /\ JoinUp(Append(trail, row), RowsAbout(Append(trail, row), action, scope), size)
<1> DEFINE n == Len(trail) + 1
           longer == Append(trail, row)
           rows == RowsAbout(trail, action, scope)
<1>1. /\ n \in Nat /\ n # 0 /\ DOMAIN longer = 1 .. n /\ DOMAIN trail = 1 .. Len(trail)
      /\ longer[n] = row /\ \A i \in 1 .. Len(trail) : longer[i] = trail[i]
      /\ Len(trail) \in Nat
  OBVIOUS
<1> HIDE DEF longer
<1>2. RowsAbout(longer, action, scope) = rows
  <2>1. \A i \in 1 .. n : i = n \/ i \in 1 .. Len(trail)
    BY <1>1
  <2>2. \A i \in 1 .. Len(trail) : i \in 1 .. n
    BY <1>1
  <2> QED
    BY <1>1, <2>1, <2>2 DEF RowsAbout
<1>3. rows \in SUBSET (1 .. Len(trail))
  BY AboutAreRows
<1> HIDE DEF rows
<1>4. ASSUME NEW S \in SUBSET rows
      PROVE  After(longer, S) = After(trail, S)
  <2>1. S # {} => Max(S) \in 1 .. Len(trail)
    BY <1>1, <1>3, MaxIsLargest
  <2> QED
    BY <1>1, <2>1 DEF After
<1>5. ASSUME NEW i \in rows
      PROVE  /\ longer[i].before = After(longer, {j \in rows : j < i})
             /\ longer[i].after <= longer[i].before + longer[i].inserted - longer[i].removed
  <2>1. After(longer, {j \in rows : j < i}) = After(trail, {j \in rows : j < i})
    BY <1>4
  <2>2. longer[i] = trail[i]
    BY <1>1, <1>3
  <2> QED
    BY <2>1, <2>2 DEF JoinUp, rows
<1>6. size = After(longer, rows)
  BY <1>4 DEF JoinUp, rows
<1> QED
  BY <1>2, <1>5, <1>6 DEF JoinUp, longer, rows

\* What CountsJoinUp says of one Map and scope, and why its size is a number.
Accounted(trail, map, keys, action, scope) ==
    /\ IsFiniteSet(Held(map, keys))
    /\ JoinUp(trail, RowsAbout(trail, action, scope), Cardinality(Held(map, keys)))

LEMMA RowAccounts ==
  ASSUME NEW R, NEW trail \in Seq(R), NEW map, NEW new, NEW keys, NEW action, NEW scope,
         NEW row, Accounted(trail, map, keys, action, scope),
         row.action = action, row.scope = scope,
         row.before = Cardinality(Held(map, keys)),
         row.after = Cardinality(Held(new, keys)), IsFiniteSet(Held(new, keys)),
         row.after <= row.before + row.inserted - row.removed
  PROVE  Accounted(Append(trail, row), new, keys, action, scope)
  BY RowJoinsUp DEF Accounted

LEMMA OtherRowAccounts ==
  ASSUME NEW R, NEW trail \in Seq(R), NEW map, NEW new, NEW keys, NEW action, NEW scope,
         NEW row, Accounted(trail, map, keys, action, scope),
         ~(row.action = action /\ row.scope = scope),
         \A k \in keys : new[k] = map[k]
  PROVE  Accounted(Append(trail, row), new, keys, action, scope)
<1>1. Held(new, keys) = Held(map, keys)
  BY DEF Held
<1> QED
  BY <1>1, OtherRowJoinsUp DEF Accounted

\* Every row of the trail about a scope reports exactly what it inserted.
Exact(trail, action, scope) ==
    \A i \in RowsAbout(trail, action, scope) :
        trail[i].after = trail[i].before + trail[i].inserted

LEMMA RowIsExact ==
  ASSUME NEW R, NEW trail \in Seq(R), NEW action, NEW scope, NEW row,
         Exact(trail, action, scope),
         row.action = action /\ row.scope = scope => row.after = row.before + row.inserted
  PROVE  Exact(Append(trail, row), action, scope)
<1> DEFINE longer == Append(trail, row)
<1>1. /\ DOMAIN longer = 1 .. Len(trail) + 1 /\ DOMAIN trail = 1 .. Len(trail)
      /\ longer[Len(trail) + 1] = row /\ \A i \in 1 .. Len(trail) : longer[i] = trail[i]
      /\ Len(trail) \in Nat
  OBVIOUS
<1> HIDE DEF longer
<1>2. SUFFICES ASSUME NEW i \in RowsAbout(longer, action, scope)
               PROVE  longer[i].after = longer[i].before + longer[i].inserted
  BY DEF Exact, longer
<1>3. i \in 1 .. Len(trail) + 1 /\ longer[i].action = action /\ longer[i].scope = scope
  BY <1>1 DEF RowsAbout
<1>4. CASE i = Len(trail) + 1
  BY <1>1, <1>3, <1>4
<1>5. CASE i \in 1 .. Len(trail)
  BY <1>1, <1>3, <1>5 DEF Exact, RowsAbout
<1> QED
  BY <1>1, <1>3, <1>4, <1>5

\* And, of the rows about rates, every upsert.
ExactUpserts(trail, scope) ==
    \A i \in RowsAbout(trail, "write.import_rate_schedule", scope) :
        trail[i].mergeStrategy = "upsert" =>
            trail[i].after = trail[i].before + trail[i].inserted

LEMMA UpsertRowIsExact ==
  ASSUME NEW R, NEW trail \in Seq(R), NEW scope, NEW row, ExactUpserts(trail, scope),
         row.action = "write.import_rate_schedule" /\ row.mergeStrategy = "upsert"
            => row.after = row.before + row.inserted
  PROVE  ExactUpserts(Append(trail, row), scope)
<1> DEFINE longer == Append(trail, row)
<1>1. /\ DOMAIN longer = 1 .. Len(trail) + 1 /\ DOMAIN trail = 1 .. Len(trail)
      /\ longer[Len(trail) + 1] = row /\ \A i \in 1 .. Len(trail) : longer[i] = trail[i]
      /\ Len(trail) \in Nat
  OBVIOUS
<1> HIDE DEF longer
<1>2. SUFFICES ASSUME NEW i \in RowsAbout(longer, "write.import_rate_schedule", scope),
                      longer[i].mergeStrategy = "upsert"
               PROVE  longer[i].after = longer[i].before + longer[i].inserted
  BY DEF ExactUpserts, longer
<1>3. i \in 1 .. Len(trail) + 1 /\ longer[i].action = "write.import_rate_schedule"
      /\ longer[i].scope = scope
  BY <1>1 DEF RowsAbout
<1>4. CASE i = Len(trail) + 1
  BY <1>1, <1>2, <1>3, <1>4
<1>5. CASE i \in 1 .. Len(trail)
  BY <1>1, <1>2, <1>3, <1>5 DEF ExactUpserts, RowsAbout
<1> QED
  BY <1>1, <1>3, <1>4, <1>5

-----------------------------------------------------------------------------
(* How many entries a Map gains. *)

LEMMA ImageIsFinite ==
  ASSUME NEW S, IsFiniteSet(S), NEW f
  PROVE  /\ IsFiniteSet({f[x] : x \in S})
         /\ Cardinality({f[x] : x \in S}) <= Cardinality(S)
<1> DEFINE T == {f[x] : x \in S}
           g == [x \in S |-> f[x]]
<1>1. g \in [S -> T] /\ \A y \in T : \E x \in S : g[x] = y
  OBVIOUS
<1> HIDE DEF g, T
<1>2. g \in Surjection(S, T)
  BY <1>1 DEF Surjection
<1> QED
  BY <1>2, FS_Surjection DEF T

\* Writes come under line numbers.
Numbered(writes) == \E n \in Nat : DOMAIN writes \in SUBSET (1 .. n)

WrittenKeys(writes) == {w.key : w \in ToSet(writes)}

LEMMA WritesAreFinite ==
  ASSUME NEW writes, Numbered(writes)
  PROVE  /\ IsFiniteSet(DOMAIN writes)
         /\ IsFiniteSet(WrittenKeys(writes))
         /\ Cardinality(WrittenKeys(writes)) <= Cardinality(DOMAIN writes)
         /\ Cardinality(DOMAIN writes) \in Nat
<1>1. PICK n \in Nat : DOMAIN writes \in SUBSET (1 .. n)
  BY DEF Numbered
<1>2. IsFiniteSet(DOMAIN writes)
  <2>1. IsFiniteSet(1 .. n)
    BY FS_Interval
  <2> QED
    BY <1>1, <2>1, FS_Subset
<1> DEFINE f == [i \in DOMAIN writes |-> writes[i].key]
<1>3. WrittenKeys(writes) = {f[i] : i \in DOMAIN writes}
  BY DEF WrittenKeys, ToSet
<1> HIDE DEF f
<1> QED
  BY <1>2, <1>3, ImageIsFinite, FS_CardinalityType

\* The value a written key gets is one that a row writes to it.
LEMMA WrittenValue ==
  ASSUME NEW map, NEW writes, Numbered(writes), NEW k \in DOMAIN map
  PROVE  /\ k \notin WrittenKeys(writes) => Upserted(map, writes)[k] = map[k]
         /\ k \in WrittenKeys(writes) =>
               \E i \in DOMAIN writes : /\ writes[i].key = k
                                        /\ Upserted(map, writes)[k] = writes[i].value
<1> DEFINE at == {i \in DOMAIN writes : writes[i].key = k}
<1>1. PICK n \in Nat : DOMAIN writes \in SUBSET (1 .. n)
  BY DEF Numbered
<1>2. at = {} <=> k \notin WrittenKeys(writes)
  BY DEF WrittenKeys, ToSet
<1>3. Upserted(map, writes)[k] = IF at = {} THEN map[k] ELSE writes[Max(at)].value
  BY DEF Upserted
<1>4. at # {} => Max(at) \in at
  <2>1. at \in SUBSET (1 .. n)
    BY <1>1
  <2> HIDE DEF at
  <2> QED
    BY <1>1, <2>1, MaxIsLargest
<1> QED
  BY <1>2, <1>3, <1>4

LEMMA InsertedIsANumber ==
  ASSUME NEW map, NEW writes, Numbered(writes)
  PROVE  Inserted(map, writes) \in Nat
<1> DEFINE fresh == {k \in WrittenKeys(writes) : map[k] = None}
<1>1. fresh \in SUBSET WrittenKeys(writes)
  OBVIOUS
<1>2. Inserted(map, writes) = Cardinality(fresh)
  BY DEF Inserted, WrittenKeys
<1> HIDE DEF fresh
<1> QED
  BY <1>1, <1>2, WritesAreFinite, FS_Subset, FS_CardinalityType

\* An upsert adds at most the keys it found absent.
LEMMA UpsertCounts ==
  ASSUME NEW map, NEW writes, Numbered(writes), NEW keys \in SUBSET DOMAIN map,
         IsFiniteSet(Held(map, keys))
  PROVE  /\ IsFiniteSet(Held(Upserted(map, writes), keys))
         /\ Cardinality(Held(Upserted(map, writes), keys))
               <= Cardinality(Held(map, keys)) + Inserted(map, writes)
<1> DEFINE old == Held(map, keys)
           fresh == {k \in WrittenKeys(writes) : map[k] = None}
           new == Held(Upserted(map, writes), keys)
<1>1. IsFiniteSet(fresh) /\ Cardinality(fresh) \in Nat /\ Inserted(map, writes) = Cardinality(fresh)
  <2>1. fresh \in SUBSET WrittenKeys(writes)
    OBVIOUS
  <2>2. Inserted(map, writes) = Cardinality(fresh)
    BY DEF Inserted, WrittenKeys
  <2> HIDE DEF fresh
  <2> QED
    BY <2>1, <2>2, WritesAreFinite, FS_Subset, FS_CardinalityType
<1>2. new \in SUBSET (old \cup fresh)
  BY WrittenValue DEF Held
<1> HIDE DEF fresh, new
<1>3. /\ IsFiniteSet(old \cup fresh)
      /\ Cardinality(old \cup fresh) <= Cardinality(old) + Cardinality(fresh)
  <2>1. IsFiniteSet(old)
    OBVIOUS
  <2> HIDE DEF old
  <2>2. IsFiniteSet(old \cap fresh)
    BY <2>1, FS_Intersection
  <2>3. /\ Cardinality(old) \in Nat /\ Cardinality(fresh) \in Nat
        /\ Cardinality(old \cap fresh) \in Nat
    BY <1>1, <2>1, <2>2, FS_CardinalityType
  <2>4. /\ IsFiniteSet(old \cup fresh)
        /\ Cardinality(old \cup fresh)
              = Cardinality(old) + Cardinality(fresh) - Cardinality(old \cap fresh)
    BY <1>1, <2>1, FS_Union
  <2> QED
    BY <2>3, <2>4
<1>4. /\ IsFiniteSet(new) /\ Cardinality(new) <= Cardinality(old \cup fresh)
      /\ Cardinality(new) \in Nat /\ Cardinality(old) \in Nat
      /\ Cardinality(old \cup fresh) \in Nat
  BY <1>2, <1>3, FS_Subset, FS_CardinalityType
<1> HIDE DEF old
<1> QED
  BY <1>1, <1>3, <1>4 DEF old, new

\* It adds exactly those when all it writes is entries of these keys.
LEMMA UpsertCountsExactly ==
  ASSUME NEW map, NEW writes, Numbered(writes), NEW keys \in SUBSET DOMAIN map,
         IsFiniteSet(Held(map, keys)),
         WrittenKeys(writes) \in SUBSET keys, \A i \in DOMAIN writes : writes[i].value # None
  PROVE  /\ Cardinality(Held(Upserted(map, writes), keys))
               = Cardinality(Held(map, keys)) + Inserted(map, writes)
<1> DEFINE old == Held(map, keys)
           fresh == {k \in WrittenKeys(writes) : map[k] = None}
           new == Held(Upserted(map, writes), keys)
<1>1. IsFiniteSet(fresh) /\ Cardinality(fresh) \in Nat /\ Inserted(map, writes) = Cardinality(fresh)
  <2>1. fresh \in SUBSET WrittenKeys(writes)
    OBVIOUS
  <2>2. Inserted(map, writes) = Cardinality(fresh)
    BY DEF Inserted, WrittenKeys
  <2> HIDE DEF fresh
  <2> QED
    BY <2>1, <2>2, WritesAreFinite, FS_Subset, FS_CardinalityType
<1>2. new = old \cup fresh /\ old \cap fresh = {}
  <2>1. ASSUME NEW k \in keys
        PROVE  k \in new <=> k \in old \/ k \in fresh
    BY WrittenValue DEF Held
  <2> QED
    BY <2>1 DEF Held
<1> HIDE DEF fresh, new, old
<1>3. Cardinality(new) = Cardinality(old) + Cardinality(fresh)
  <2>1. IsFiniteSet(old) /\ Cardinality(old) \in Nat
    BY FS_CardinalityType DEF old
  <2>2. Cardinality(old \cup fresh)
          = Cardinality(old) + Cardinality(fresh) - Cardinality(old \cap fresh)
    BY <1>1, <2>1, FS_Union
  <2>3. Cardinality(old \cap fresh) = 0
    BY <1>2, FS_EmptySet
  <2> QED
    BY <1>1, <1>2, <2>1, <2>2, <2>3
<1> QED
  BY <1>1, <1>3 DEF old, new

\* Over cleared keys the Map holds at most an entry for each row.
LEMMA ReplaceCounts ==
  ASSUME NEW map, NEW writes, Numbered(writes), NEW keys \in SUBSET DOMAIN map,
         \A k \in keys : map[k] = None
  PROVE  /\ IsFiniteSet(Held(Upserted(map, writes), keys))
         /\ Cardinality(Held(Upserted(map, writes), keys)) <= Cardinality(DOMAIN writes)
         /\ Cardinality(DOMAIN writes) \in Nat
<1> DEFINE new == Held(Upserted(map, writes), keys)
<1>1. new \in SUBSET WrittenKeys(writes)
  BY WrittenValue DEF Held
<1> HIDE DEF new
<1>2. IsFiniteSet(new) /\ Cardinality(new) <= Cardinality(WrittenKeys(writes))
  BY <1>1, WritesAreFinite, FS_Subset
<1>3. Cardinality(new) \in Nat /\ Cardinality(WrittenKeys(writes)) \in Nat
  BY <1>2, WritesAreFinite, FS_CardinalityType
<1> QED
  BY <1>2, <1>3, WritesAreFinite DEF new

-----------------------------------------------------------------------------
(* Each import accounts for its entries. *)

RatesAccounted ==
    \A c \in Councils, fy \in Years :
        /\ Accounted(audit, rateSchedules, YearKeys(c, fy),
                     "write.import_rate_schedule", <<c, fy>>)
        /\ ExactUpserts(audit, <<c, fy>>)
TitlesAccounted ==
    \A c \in Councils :
        Accounted(audit, landgateRecords, CouncilKeys(TitleKeys, c),
                  "write.import_landgate_title_data", <<c>>)
CardsAccounted ==
    \A c \in Councils :
        /\ Accounted(audit, wcEligibility, CouncilKeys(WcKeys, c),
                     "write.import_wc_eligibility", <<c>>)
        /\ Exact(audit, "write.import_wc_eligibility", <<c>>)

CountsInv == RatesAccounted /\ TitlesAccounted /\ CardsAccounted

LEMMA LinesAreNumbered ==
  ASSUME NEW file, file \in Seq(ToSet(file)), NEW writes, DOMAIN writes \in SUBSET DOMAIN file
  PROVE  Numbered(writes)
<1>1. DOMAIN file = 1 .. Len(file) /\ Len(file) \in Nat
  OBVIOUS
<1> QED
  BY <1>1 DEF Numbered

LEMMA RatesAreParsed ==
  ASSUME NEW m \in RateMutations
  PROVE  \E file \in RateFiles : m.rows = ParseRateSchedule(file, m.financialYear)
  BY DEF RateMutations

LEMMA RateConfirmAccounts ==
  ASSUME StoreProofs!IInv, TrailInv, MapsInv, CountsInv, NEW p \in Principals,
         NEW c \in Councils, NEW fy \in Years, NEW strategy \in {"replace", "upsert"},
         NEW tok \in Tokens, RateConfirm(p, c, fy, strategy, tok),
         ~UNCHANGED <<mapVars, audit>>
  PROVE  CountsInv'
<1> DEFINE m == entries[tok].mutation
           writes == [i \in DOMAIN m.rows |->
                        [key |-> <<c, m.rows[i].financialYear, m.rows[i].rateCode>>,
                         value |-> m.rows[i].rateInDollar]]
           cleared == [k \in RateKeys |-> IF k \in YearKeys(c, fy) THEN None
                                          ELSE rateSchedules[k]]
           before == Cardinality(Held(rateSchedules, YearKeys(c, fy)))
           after == Cardinality(Held(rateSchedules', YearKeys(c, fy)))
           inserted == IF strategy = "replace" THEN Cardinality(DOMAIN m.rows)
                       ELSE Inserted(rateSchedules, writes)
           removed == IF strategy = "replace" THEN before ELSE 0
           row == [action |-> "write.import_rate_schedule", scope |-> <<c, fy>>,
                   mergeStrategy |-> strategy, before |-> before, after |-> after, inserted |-> inserted,
                   removed |-> removed]
<1>1. /\ Store!Consume(tok, "import_rate_schedule", p)
      /\ Store!Verdict(tok, "import_rate_schedule", p) = "ok"
      /\ m.councilCode = c /\ m.financialYear = fy /\ m.mergeStrategy = strategy
      /\ UNCHANGED <<landgateRecords, wcEligibility>>
      /\ rateSchedules' = IF strategy = "replace" THEN Upserted(cleared, writes)
                          ELSE Upserted(rateSchedules, writes)
      /\ audit' = Append(audit, row)
  BY DEF RateConfirm, Replaced, Record
<1>2. m \in RateMutations
  BY <1>1, OkIsANewUse, MutationsByOperation DEF CommitOperations
<1>3. PICK file \in RateFiles : m.rows = ParseRateSchedule(file, fy)
  BY <1>1, <1>2, RatesAreParsed
<1>4. \A i \in DOMAIN m.rows : m.rows[i].financialYear = fy
  BY <1>3 DEF ParseRateSchedule
<1>5. DOMAIN writes = DOMAIN m.rows /\ Numbered(writes)
  <2>1. DOMAIN m.rows \in SUBSET DOMAIN file
    BY <1>3 DEF ParseRateSchedule, ValidRates
  <2> QED
    BY <2>1, LinesAreNumbered, FilesAssumption
<1>6. \A i \in DOMAIN writes : writes[i].key[1] = c /\ writes[i].key[2] = fy
  BY <1>4
<1>18. ASSUME NEW i \in DOMAIN writes
       PROVE  writes[i].key \in YearKeys(c, fy) /\ writes[i].value # None
  <2>1. /\ i \in DOMAIN file /\ file[i].rateInDollar # None
        /\ m.rows[i] = [financialYear |-> fy, rateCode |-> file[i].rateCode,
                        rateInDollar |-> file[i].rateInDollar]
    BY <1>3 DEF ParseRateSchedule, ValidRates
  <2>2. file[i].rateCode \in RateCodes
    BY <2>1, FilesAssumption
  <2>3. writes[i] = [key |-> <<c, fy, file[i].rateCode>>, value |-> file[i].rateInDollar]
    BY <2>1
  <2> QED
    BY <2>1, <2>2, <2>3 DEF YearKeys, RateKeys
<1>19. WrittenKeys(writes) \in SUBSET YearKeys(c, fy)
  BY <1>18 DEF WrittenKeys, ToSet
<1>7. PICK R : audit \in Seq(R)
  BY DEF TrailInv
<1>8. /\ row.action = "write.import_rate_schedule" /\ row.scope = <<c, fy>>
      /\ row.mergeStrategy = strategy /\ row.before = before /\ row.after = after
      /\ row.inserted = inserted /\ row.removed = removed
  OBVIOUS
<1>9. DOMAIN rateSchedules = RateKeys /\ DOMAIN cleared = RateKeys
  BY DEF MapsInv
<1> HIDE DEF m, writes, row
<1>10. ASSUME NEW k \in RateKeys, ~(k[1] = c /\ k[2] = fy)
       PROVE  rateSchedules'[k] = rateSchedules[k]
  <2>1. \A i \in DOMAIN writes : writes[i].key # k
    BY <1>6, <1>10
  <2>2. cleared[k] = rateSchedules[k] /\ k \in DOMAIN cleared
    BY <1>10 DEF YearKeys
  <2>3. k \in DOMAIN rateSchedules
    BY <1>9, <1>10
  <2> HIDE DEF cleared
  <2> QED
    BY <1>1, <2>1, <2>2, <2>3, OnlyWrittenKeysChange
<1>11. YearKeys(c, fy) \in SUBSET RateKeys
  BY DEF YearKeys
<1>12. IsFiniteSet(Held(rateSchedules, YearKeys(c, fy))) /\ before \in Nat
  BY FS_CardinalityType DEF CountsInv, RatesAccounted, Accounted
<1>13. /\ IsFiniteSet(Held(rateSchedules', YearKeys(c, fy)))
       /\ after <= before + inserted - removed
  <2>1. CASE strategy = "replace"
    <3>1. \A k \in YearKeys(c, fy) : cleared[k] = None
      BY <1>11
    <3> HIDE DEF cleared
    <3>2. /\ IsFiniteSet(Held(Upserted(cleared, writes), YearKeys(c, fy)))
          /\ Cardinality(Held(Upserted(cleared, writes), YearKeys(c, fy)))
                <= Cardinality(DOMAIN writes)
          /\ Cardinality(DOMAIN writes) \in Nat
      BY <1>5, <1>9, <1>11, <3>1, ReplaceCounts
    <3>3. rateSchedules' = Upserted(cleared, writes)
      BY <1>1, <2>1
    <3>4. after \in Nat
      BY <3>2, <3>3, FS_CardinalityType
    <3>5. inserted = Cardinality(DOMAIN writes) /\ removed = before
      BY <1>5, <2>1
    <3>6. after <= Cardinality(DOMAIN writes)
      BY <3>2, <3>3
    <3> HIDE DEF after, before, inserted, removed
    <3> QED
      BY <1>12, <3>2, <3>3, <3>4, <3>5, <3>6
  <2>2. CASE strategy = "upsert"
    <3>1. /\ IsFiniteSet(Held(Upserted(rateSchedules, writes), YearKeys(c, fy)))
          /\ Cardinality(Held(Upserted(rateSchedules, writes), YearKeys(c, fy)))
                <= before + Inserted(rateSchedules, writes)
      BY <1>5, <1>9, <1>11, <1>12, UpsertCounts
    <3>2. rateSchedules' = Upserted(rateSchedules, writes)
      BY <1>1, <2>2
    <3>3. inserted = Inserted(rateSchedules, writes) /\ removed = 0
      BY <2>2
    <3>4. Inserted(rateSchedules, writes) \in Nat
      BY <1>5, InsertedIsANumber
    <3>5. after <= before + inserted
      BY <3>1, <3>2, <3>3
    <3> HIDE DEF after, before, inserted, removed
    <3> QED
      BY <1>12, <3>1, <3>2, <3>3, <3>4, <3>5
  <2> QED
    BY <2>1, <2>2
<1>17. strategy = "upsert" => after = before + inserted
  <2>1. SUFFICES ASSUME strategy = "upsert" PROVE after = before + inserted
    OBVIOUS
  <2>2. rateSchedules' = Upserted(rateSchedules, writes)
    BY <1>1, <2>1
  <2>3. Cardinality(Held(Upserted(rateSchedules, writes), YearKeys(c, fy)))
           = before + Inserted(rateSchedules, writes)
    BY <1>5, <1>9, <1>11, <1>12, <1>18, <1>19, UpsertCountsExactly
  <2> QED
    BY <2>1, <2>2, <2>3
<1>14. RatesAccounted'
  <2> SUFFICES ASSUME NEW c2 \in Councils, NEW fy2 \in Years
               PROVE  /\ Accounted(audit', rateSchedules', YearKeys(c2, fy2),
                                   "write.import_rate_schedule", <<c2, fy2>>)
                      /\ ExactUpserts(audit', <<c2, fy2>>)
    BY DEF RatesAccounted, YearKeys
  <2>1. /\ Accounted(audit, rateSchedules, YearKeys(c2, fy2),
                     "write.import_rate_schedule", <<c2, fy2>>)
        /\ ExactUpserts(audit, <<c2, fy2>>)
    BY DEF CountsInv, RatesAccounted
  <2> HIDE DEF inserted, removed, before, after
  <2>4. ExactUpserts(audit', <<c2, fy2>>)
    BY <1>1, <1>7, <1>8, <1>17, <2>1, UpsertRowIsExact
  <2>2. CASE c2 = c /\ fy2 = fy
    BY <1>1, <1>7, <1>8, <1>13, <2>1, <2>2, <2>4, RowAccounts DEF before, after
  <2>3. CASE ~(c2 = c /\ fy2 = fy)
    <3>1. \A k \in YearKeys(c2, fy2) : rateSchedules'[k] = rateSchedules[k]
      BY <1>10, <2>3 DEF YearKeys
    <3>2. row.scope # <<c2, fy2>>
      BY <1>8, <2>3
    <3> QED
      BY <1>1, <1>7, <2>1, <2>4, <3>1, <3>2, OtherRowAccounts
  <2> QED
    BY <2>2, <2>3
<1>15. TitlesAccounted'
  <2> SUFFICES ASSUME NEW c2 \in Councils
               PROVE  Accounted(audit', landgateRecords', CouncilKeys(TitleKeys, c2),
                                "write.import_landgate_title_data", <<c2>>)
    BY DEF TitlesAccounted, CouncilKeys
  <2>1. Accounted(audit, landgateRecords, CouncilKeys(TitleKeys, c2),
                  "write.import_landgate_title_data", <<c2>>)
    BY DEF CountsInv, TitlesAccounted
  <2>2. row.action # "write.import_landgate_title_data"
    BY <1>8
  <2> QED
    BY <1>1, <1>7, <2>1, <2>2, OtherRowAccounts
<1>16. CardsAccounted'
  <2> SUFFICES ASSUME NEW c2 \in Councils
               PROVE  /\ Accounted(audit', wcEligibility', CouncilKeys(WcKeys, c2),
                                   "write.import_wc_eligibility", <<c2>>)
                      /\ Exact(audit', "write.import_wc_eligibility", <<c2>>)
    BY DEF CardsAccounted, CouncilKeys
  <2>1. /\ Accounted(audit, wcEligibility, CouncilKeys(WcKeys, c2),
                     "write.import_wc_eligibility", <<c2>>)
        /\ Exact(audit, "write.import_wc_eligibility", <<c2>>)
    BY DEF CountsInv, CardsAccounted
  <2>2. row.action # "write.import_wc_eligibility"
    BY <1>8
  <2> QED
    BY <1>1, <1>7, <2>1, <2>2, OtherRowAccounts, RowIsExact
<1> QED
  BY <1>14, <1>15, <1>16 DEF CountsInv

LEMMA TitlesAreAggregated ==
  ASSUME NEW m \in TitleMutations
  PROVE  \E file \in TitleFiles, at \in Stamps :
             m.records = AggregateTitleRowsByVen(ParseLandgateTitle(file), m.councilCode, at)
  BY DEF TitleMutations

LEMMA RecordsAreFinite ==
  ASSUME NEW m \in TitleMutations
  PROVE  /\ IsFiniteSet(ToSet(m.records)) /\ IsFiniteSet(DOMAIN m.records)
         /\ Cardinality(ToSet(m.records)) <= Cardinality(DOMAIN m.records)
<1>1. PICK file \in TitleFiles, at \in Stamps :
         m.records = AggregateTitleRowsByVen(ParseLandgateTitle(file), m.councilCode, at)
  BY TitlesAreAggregated
<1>2. DOMAIN m.records \in SUBSET DOMAIN file
  BY <1>1 DEF AggregateTitleRowsByVen, ParseLandgateTitle
<1> DEFINE records == m.records
<1>3. ToSet(records) = {records[i] : i \in DOMAIN records}
  BY DEF ToSet
<1> HIDE DEF records
<1>4. Numbered(records)
  BY <1>2, LinesAreNumbered, FilesAssumption DEF records
<1>5. IsFiniteSet(DOMAIN records)
  BY <1>4, WritesAreFinite
<1>6. /\ IsFiniteSet({records[i] : i \in DOMAIN records})
      /\ Cardinality({records[i] : i \in DOMAIN records}) <= Cardinality(DOMAIN records)
  BY <1>5, ImageIsFinite
<1> QED
  BY <1>3, <1>5, <1>6 DEF records

\* A Map in which only keys of some records are written gains at most those.
LEMMA RecordsCount ==
  ASSUME NEW map, NEW new, NEW keys, NEW records, NEW f,
         IsFiniteSet(Held(map, keys)), IsFiniteSet(records),
         \A k \in keys : k \notin {f[r] : r \in records} => new[k] = map[k]
  PROVE  /\ IsFiniteSet(Held(new, keys))
         /\ Cardinality(Held(new, keys)) <= Cardinality(Held(map, keys)) + Cardinality(records)
<1> DEFINE old == Held(map, keys)
           written == {f[r] : r \in records}
<1>1. IsFiniteSet(old)
  OBVIOUS
<1>2. IsFiniteSet(written) /\ Cardinality(written) <= Cardinality(records)
  BY ImageIsFinite
<1>3. Held(new, keys) \in SUBSET (old \cup written)
  BY DEF Held
<1> HIDE DEF old, written
<1>4. IsFiniteSet(old \cap written)
  BY <1>1, FS_Intersection
<1>5. /\ IsFiniteSet(old \cup written)
      /\ Cardinality(old \cup written)
            = Cardinality(old) + Cardinality(written) - Cardinality(old \cap written)
  BY <1>1, <1>2, FS_Union
<1>6. /\ IsFiniteSet(Held(new, keys))
      /\ Cardinality(Held(new, keys)) <= Cardinality(old \cup written)
  BY <1>3, <1>5, FS_Subset
<1>7. /\ Cardinality(old) \in Nat /\ Cardinality(written) \in Nat
      /\ Cardinality(old \cap written) \in Nat /\ Cardinality(records) \in Nat
      /\ Cardinality(Held(new, keys)) \in Nat
  BY <1>1, <1>2, <1>4, <1>6, FS_CardinalityType
<1> QED
  BY <1>2, <1>5, <1>6, <1>7 DEF old

LEMMA TitleConfirmAccounts ==
  ASSUME StoreProofs!IInv, TrailInv, MapsInv, CountsInv, NEW p \in Principals,
         NEW c \in Councils, NEW tok \in Tokens, TitleConfirm(p, c, tok),
         ~UNCHANGED <<mapVars, audit>>
  PROVE  CountsInv'
<1> DEFINE m == entries[tok].mutation
           RecordAt(k) == {r \in ToSet(m.records) : k = <<r.councilCode, r.ven>>}
           before == Cardinality(Held(landgateRecords, CouncilKeys(TitleKeys, c)))
           after == Cardinality(Held(landgateRecords', CouncilKeys(TitleKeys, c)))
           row == [action |-> "write.import_landgate_title_data", scope |-> <<c>>,
                   before |-> before, after |-> after,
                   inserted |-> Cardinality(DOMAIN m.records), removed |-> 0]
<1>1. /\ Store!Consume(tok, "import_landgate_title_data", p)
      /\ Store!Verdict(tok, "import_landgate_title_data", p) = "ok"
      /\ m.councilCode = c
      /\ UNCHANGED <<rateSchedules, wcEligibility>>
      /\ landgateRecords' = [k \in TitleKeys |-> IF RecordAt(k) = {} THEN landgateRecords[k]
                                                 ELSE CHOOSE r \in RecordAt(k) : TRUE]
      /\ audit' = Append(audit, row)
  BY DEF TitleConfirm, Record
<1>2. m \in TitleMutations
  BY <1>1, OkIsANewUse, MutationsByOperation DEF CommitOperations
<1> DEFINE records == ToSet(m.records)
<1>3. /\ IsFiniteSet(records) /\ Cardinality(records) \in Nat
      /\ Cardinality(DOMAIN m.records) \in Nat
      /\ Cardinality(records) <= Cardinality(DOMAIN m.records)
  BY <1>2, RecordsAreFinite, FS_CardinalityType
<1>4. \A r \in records : r.councilCode = c
  <2>1. PICK file \in TitleFiles, at \in Stamps :
           m.records = AggregateTitleRowsByVen(ParseLandgateTitle(file), c, at)
    BY <1>1, <1>2, TitlesAreAggregated
  <2> QED
    BY <2>1, RecordsAreOfCouncil
<1>5. PICK R : audit \in Seq(R)
  BY DEF TrailInv
<1>6. /\ row.action = "write.import_landgate_title_data" /\ row.scope = <<c>>
      /\ row.before = before /\ row.after = after
      /\ row.inserted = Cardinality(DOMAIN m.records) /\ row.removed = 0
  OBVIOUS
<1> DEFINE f == [r \in records |-> <<c, r.ven>>]
<1>7. ASSUME NEW k \in TitleKeys, k \notin {f[r] : r \in records}
      PROVE  landgateRecords'[k] = landgateRecords[k]
  <2>1. RecordAt(k) = {}
    BY <1>4, <1>7
  <2> QED
    BY <1>1, <2>1
<1>8. ASSUME NEW k \in TitleKeys, k[1] # c
      PROVE  landgateRecords'[k] = landgateRecords[k]
  <2>1. \A r \in records : f[r] # k
    BY <1>8
  <2> HIDE DEF f
  <2> QED
    BY <1>7, <2>1
<1>16. audit' = Append(audit, row)
  BY <1>1
<1> HIDE DEF m, row, f, records
<1>9. IsFiniteSet(Held(landgateRecords, CouncilKeys(TitleKeys, c))) /\ before \in Nat
  BY FS_CardinalityType DEF CountsInv, TitlesAccounted, Accounted
<1>10. /\ IsFiniteSet(Held(landgateRecords', CouncilKeys(TitleKeys, c)))
       /\ after <= before + Cardinality(records)
  <2>1. \A k \in CouncilKeys(TitleKeys, c) :
           k \notin {f[r] : r \in records} => landgateRecords'[k] = landgateRecords[k]
    BY <1>7 DEF CouncilKeys
  <2> QED
    BY <1>3, <1>9, <2>1, RecordsCount
<1>11. after \in Nat
  BY <1>10, FS_CardinalityType
<1>12. row.after <= row.before + row.inserted - row.removed
  <2> HIDE DEF before, after
  <2> QED
    BY <1>3, <1>6, <1>9, <1>10, <1>11
<1>13. TitlesAccounted'
  <2> SUFFICES ASSUME NEW c2 \in Councils
               PROVE  Accounted(audit', landgateRecords', CouncilKeys(TitleKeys, c2),
                                "write.import_landgate_title_data", <<c2>>)
    BY DEF TitlesAccounted, CouncilKeys
  <2>1. Accounted(audit, landgateRecords, CouncilKeys(TitleKeys, c2),
                  "write.import_landgate_title_data", <<c2>>)
    BY DEF CountsInv, TitlesAccounted
  <2>2. CASE c2 = c
    BY <1>1, <1>5, <1>6, <1>10, <1>12, <2>1, <2>2, RowAccounts
  <2>3. CASE c2 # c
    <3>1. \A k \in CouncilKeys(TitleKeys, c2) : landgateRecords'[k] = landgateRecords[k]
      BY <1>8, <2>3 DEF CouncilKeys
    <3>2. row.scope # <<c2>>
      BY <1>6, <2>3
    <3> QED
      BY <1>5, <1>16, <2>1, <3>1, <3>2, OtherRowAccounts
  <2> QED
    BY <2>2, <2>3
<1>14. RatesAccounted'
  <2> SUFFICES ASSUME NEW c2 \in Councils, NEW fy2 \in Years
               PROVE  /\ Accounted(audit', rateSchedules', YearKeys(c2, fy2),
                                   "write.import_rate_schedule", <<c2, fy2>>)
                      /\ ExactUpserts(audit', <<c2, fy2>>)
    BY DEF RatesAccounted, YearKeys
  <2>1. /\ Accounted(audit, rateSchedules, YearKeys(c2, fy2),
                     "write.import_rate_schedule", <<c2, fy2>>)
        /\ ExactUpserts(audit, <<c2, fy2>>)
    BY DEF CountsInv, RatesAccounted
  <2>2. row.action # "write.import_rate_schedule"
    BY <1>6
  <2> QED
    BY <1>1, <1>5, <2>1, <2>2, OtherRowAccounts, UpsertRowIsExact
<1>15. CardsAccounted'
  <2> SUFFICES ASSUME NEW c2 \in Councils
               PROVE  /\ Accounted(audit', wcEligibility', CouncilKeys(WcKeys, c2),
                                   "write.import_wc_eligibility", <<c2>>)
                      /\ Exact(audit', "write.import_wc_eligibility", <<c2>>)
    BY DEF CardsAccounted, CouncilKeys
  <2>1. /\ Accounted(audit, wcEligibility, CouncilKeys(WcKeys, c2),
                     "write.import_wc_eligibility", <<c2>>)
        /\ Exact(audit, "write.import_wc_eligibility", <<c2>>)
    BY DEF CountsInv, CardsAccounted
  <2>2. row.action # "write.import_wc_eligibility"
    BY <1>6
  <2> QED
    BY <1>1, <1>5, <2>1, <2>2, OtherRowAccounts, RowIsExact
<1> QED
  BY <1>13, <1>14, <1>15 DEF CountsInv

LEMMA CardsAreParsed ==
  ASSUME NEW m \in WcMutations
  PROVE  /\ m.retrievedAt \in Stamps
         /\ \E file \in WcFiles : m.rows = ParseWcEligibility(file)
  BY DEF WcMutations

LEMMA CardConfirmAccounts ==
  ASSUME StoreProofs!IInv, TrailInv, MapsInv, CountsInv, NEW p \in Principals,
         NEW c \in Councils, NEW tok \in Tokens, WcConfirm(p, c, tok),
         ~UNCHANGED <<mapVars, audit>>
  PROVE  CountsInv'
<1> DEFINE m == entries[tok].mutation
           writes == [i \in DOMAIN m.rows |->
                        [key |-> WcKey(c, m.rows[i]),
                         value |-> WcRecord(m.rows[i], c, m.retrievedAt)]]
           keys == CouncilKeys(WcKeys, c)
           before == Cardinality(Held(wcEligibility, CouncilKeys(WcKeys, c)))
           after == Cardinality(Held(wcEligibility', CouncilKeys(WcKeys, c)))
           inserted == Inserted(wcEligibility, writes)
           row == [action |-> "write.import_wc_eligibility", scope |-> <<c>>,
                   before |-> before, after |-> after, inserted |-> inserted, removed |-> 0]
<1>1. /\ Store!Consume(tok, "import_wc_eligibility", p)
      /\ Store!Verdict(tok, "import_wc_eligibility", p) = "ok"
      /\ m.councilCode = c
      /\ UNCHANGED <<rateSchedules, landgateRecords>>
      /\ wcEligibility' = Upserted(wcEligibility, writes)
      /\ audit' = Append(audit, row)
  BY DEF WcConfirm, Record
<1>2. m \in WcMutations
  BY <1>1, OkIsANewUse, MutationsByOperation DEF CommitOperations
<1>3. m.retrievedAt \in Stamps /\ \E file \in WcFiles : m.rows = ParseWcEligibility(file)
  BY <1>2, CardsAreParsed
<1>4. PICK file \in WcFiles : m.rows = ParseWcEligibility(file)
  BY <1>3
<1>5. \A i \in DOMAIN m.rows : /\ i \in DOMAIN file /\ m.rows[i] = file[i]
                               /\ file[i].eligibilityStatus # None
  BY <1>4 DEF ParseWcEligibility
<1>6. Numbered(writes)
  <2>1. DOMAIN writes \in SUBSET DOMAIN file
    BY <1>5
  <2> QED
    BY <2>1, LinesAreNumbered, FilesAssumption
<1>7. \A i \in DOMAIN writes : writes[i].key[1] = c
  BY DEF WcKey
<1>8. ASSUME NEW i \in DOMAIN writes
      PROVE  writes[i].key \in keys /\ writes[i].value # None
  <2>1. /\ i \in DOMAIN file /\ m.rows[i] = file[i] /\ file[i].customerId # None
    BY <1>5, FilesAssumption
  <2>2. writes[i].value # None
    <3>1. writes[i].value = WcRecord(file[i], c, m.retrievedAt)
      BY <2>1
    <3>2. WcRecord(file[i], c, m.retrievedAt) # None
      BY <1>3, <2>1, FilesAssumption
    <3> QED
      BY <3>1, <3>2
  <2>3. ASSUME NEW field \in {"cardNumber", "customerId"}, file[i][field] # None
        PROVE  file[i][field] \in CellsOf(WcFiles, field)
    BY <2>1, <2>3 DEF CellsOf
  <2>4. writes[i].key = WcKey(c, file[i])
    BY <2>1
  <2>5. writes[i].key \in WcKeys
    BY <2>1, <2>3, <2>4 DEF WcKey, WcKeys, WcIds
  <2> QED
    BY <1>7, <2>2, <2>5 DEF CouncilKeys
<1>9. WrittenKeys(writes) \in SUBSET keys
  BY <1>8 DEF WrittenKeys, ToSet
<1>10. PICK R : audit \in Seq(R)
  BY DEF TrailInv
<1>11. /\ row.action = "write.import_wc_eligibility" /\ row.scope = <<c>>
       /\ row.before = before /\ row.after = after
       /\ row.inserted = inserted /\ row.removed = 0
  OBVIOUS
<1> HIDE DEF m, row, writes
<1>12. keys \in SUBSET DOMAIN wcEligibility
  BY DEF MapsInv, CouncilKeys
<1>13. IsFiniteSet(Held(wcEligibility, keys)) /\ before \in Nat
  BY FS_CardinalityType DEF CountsInv, CardsAccounted, Accounted
<1>14. after = before + inserted /\ IsFiniteSet(Held(wcEligibility', keys))
  <2> HIDE DEF keys
  <2>1. /\ IsFiniteSet(Held(Upserted(wcEligibility, writes), keys))
        /\ Cardinality(Held(Upserted(wcEligibility, writes), keys))
              = Cardinality(Held(wcEligibility, keys)) + Inserted(wcEligibility, writes)
    BY <1>6, <1>8, <1>9, <1>12, <1>13, UpsertCounts, UpsertCountsExactly
  <2> QED
    BY <1>1, <2>1 DEF keys
<1>15. /\ row.after <= row.before + row.inserted - row.removed
       /\ row.after = row.before + row.inserted
  <2>1. inserted \in Nat
    BY <1>6, InsertedIsANumber
  <2> HIDE DEF before, after, inserted
  <2> QED
    BY <1>11, <1>13, <1>14, <2>1
<1>16. ASSUME NEW k \in WcKeys, k[1] # c
       PROVE  wcEligibility'[k] = wcEligibility[k]
  <2>1. \A i \in DOMAIN writes : writes[i].key # k
    BY <1>7, <1>16
  <2>2. k \in DOMAIN wcEligibility
    BY <1>16 DEF MapsInv
  <2> QED
    BY <1>1, <2>1, <2>2, OnlyWrittenKeysChange
<1>17. CardsAccounted'
  <2> SUFFICES ASSUME NEW c2 \in Councils
               PROVE  /\ Accounted(audit', wcEligibility', CouncilKeys(WcKeys, c2),
                                   "write.import_wc_eligibility", <<c2>>)
                      /\ Exact(audit', "write.import_wc_eligibility", <<c2>>)
    BY DEF CardsAccounted, CouncilKeys
  <2>1. /\ Accounted(audit, wcEligibility, CouncilKeys(WcKeys, c2),
                     "write.import_wc_eligibility", <<c2>>)
        /\ Exact(audit, "write.import_wc_eligibility", <<c2>>)
    BY DEF CountsInv, CardsAccounted
  <2>2. Exact(audit', "write.import_wc_eligibility", <<c2>>)
    BY <1>1, <1>10, <1>15, <2>1, RowIsExact
  <2>3. CASE c2 = c
    BY <1>1, <1>10, <1>11, <1>14, <1>15, <2>1, <2>2, <2>3, RowAccounts
  <2>4. CASE c2 # c
    <3>1. \A k \in CouncilKeys(WcKeys, c2) : wcEligibility'[k] = wcEligibility[k]
      BY <1>16, <2>4 DEF CouncilKeys
    <3>2. row.scope # <<c2>>
      BY <1>11, <2>4
    <3>3. Accounted(audit', wcEligibility', CouncilKeys(WcKeys, c2),
                    "write.import_wc_eligibility", <<c2>>)
      BY <1>1, <1>10, <2>1, <3>1, <3>2, OtherRowAccounts
    <3> QED
      BY <2>2, <3>3
  <2> QED
    BY <2>3, <2>4
<1>18. RatesAccounted'
  <2> SUFFICES ASSUME NEW c2 \in Councils, NEW fy2 \in Years
               PROVE  /\ Accounted(audit', rateSchedules', YearKeys(c2, fy2),
                                   "write.import_rate_schedule", <<c2, fy2>>)
                      /\ ExactUpserts(audit', <<c2, fy2>>)
    BY DEF RatesAccounted, YearKeys
  <2>1. /\ Accounted(audit, rateSchedules, YearKeys(c2, fy2),
                     "write.import_rate_schedule", <<c2, fy2>>)
        /\ ExactUpserts(audit, <<c2, fy2>>)
    BY DEF CountsInv, RatesAccounted
  <2>2. row.action # "write.import_rate_schedule"
    BY <1>11
  <2> QED
    BY <1>1, <1>10, <2>1, <2>2, OtherRowAccounts, UpsertRowIsExact
<1>19. TitlesAccounted'
  <2> SUFFICES ASSUME NEW c2 \in Councils
               PROVE  Accounted(audit', landgateRecords', CouncilKeys(TitleKeys, c2),
                                "write.import_landgate_title_data", <<c2>>)
    BY DEF TitlesAccounted, CouncilKeys
  <2>1. Accounted(audit, landgateRecords, CouncilKeys(TitleKeys, c2),
                  "write.import_landgate_title_data", <<c2>>)
    BY DEF CountsInv, TitlesAccounted
  <2>2. row.action # "write.import_landgate_title_data"
    BY <1>11
  <2> QED
    BY <1>1, <1>10, <2>1, <2>2, OtherRowAccounts
<1> QED
  BY <1>17, <1>18, <1>19 DEF CountsInv

LEMMA CountsInit == Init => CountsInv
<1> SUFFICES ASSUME Init PROVE CountsInv
  OBVIOUS
<1>1. ASSUME NEW map, NEW keys, NEW action, NEW scope, \A k \in keys : map[k] = None
      PROVE  /\ Accounted(<< >>, map, keys, action, scope) /\ Exact(<< >>, action, scope)
             /\ ExactUpserts(<< >>, scope)
  <2>1. Held(map, keys) = {} /\ \A any : RowsAbout(<< >>, any, scope) = {}
    BY <1>1 DEF Held, RowsAbout
  <2>2. IsFiniteSet({}) /\ Cardinality({}) = 0
    BY FS_EmptySet
  <2> QED
    BY <2>1, <2>2 DEF Accounted, JoinUp, After, Exact, ExactUpserts
<1>2. audit = << >>
  BY DEF Init
<1>3. ASSUME NEW c \in Councils, NEW fy \in Years
      PROVE  \A k \in YearKeys(c, fy) : rateSchedules[k] = None
  BY DEF Init, YearKeys
<1>4. ASSUME NEW c \in Councils
      PROVE  /\ \A k \in CouncilKeys(TitleKeys, c) : landgateRecords[k] = None
             /\ \A k \in CouncilKeys(WcKeys, c) : wcEligibility[k] = None
  BY DEF Init, CouncilKeys
<1>5. RatesAccounted
  BY <1>1, <1>2, <1>3 DEF RatesAccounted
<1>6. TitlesAccounted /\ CardsAccounted
  BY <1>1, <1>2, <1>4 DEF TitlesAccounted, CardsAccounted
<1> QED
  BY <1>5, <1>6 DEF CountsInv

LEMMA StepAccounts ==
  ASSUME StoreProofs!IInv, TrailInv, MapsInv, CountsInv, [Next]_vars
  PROVE  CountsInv'
<1>1. CASE UNCHANGED <<mapVars, audit>>
  <2>1. RatesAccounted'
    BY <1>1 DEF mapVars, CountsInv, RatesAccounted, YearKeys
  <2>2. TitlesAccounted' /\ CardsAccounted'
    BY <1>1 DEF mapVars, CountsInv, TitlesAccounted, CardsAccounted, CouncilKeys
  <2> QED
    BY <2>1, <2>2 DEF CountsInv
<1>2. ASSUME NEW p \in Principals, NEW c \in Councils, NEW fy \in Years,
             NEW strategy \in {"replace", "upsert"}, NEW tok \in Tokens,
             RateConfirm(p, c, fy, strategy, tok)
      PROVE  CountsInv'
  BY <1>1, <1>2, RateConfirmAccounts
<1>3. ASSUME NEW p \in Principals, NEW c \in Councils, NEW tok \in Tokens,
             TitleConfirm(p, c, tok) \/ WcConfirm(p, c, tok)
      PROVE  CountsInv'
  BY <1>1, <1>3, TitleConfirmAccounts, CardConfirmAccounts
<1> QED
  BY <1>1, <1>2, <1>3, OnlyConfirmsImport

(***************************************************************************)
(* The import handlers' audit rows account for every entry of the three    *)
(* Maps, for any councils, years and files: each count before is the last  *)
(* count after, what a Map of a scope holds is what its last row says, and *)
(* an upsert of rates or cards adds exactly what it reports as inserted.   *)
(***************************************************************************)
THEOREM ImportsAreAccountedFor == Spec => []CountsJoinUp
<1>1. Init => TrailInv /\ MapsInv
  <2>1. << >> \in Seq({})
    OBVIOUS
  <2> QED
    BY <2>1 DEF Init, TrailInv, MapsInv
<1>2. TrailInv /\ MapsInv /\ StoreProofs!IInv /\ [Next]_vars => TrailInv' /\ MapsInv'
  BY StepStaysInScope
<1>3. CountsInv /\ TrailInv /\ MapsInv /\ StoreProofs!IInv /\ [Next]_vars => CountsInv'
  BY StepAccounts
<1>4. CountsInv => CountsJoinUp
  BY DEF CountsInv, RatesAccounted, TitlesAccounted, CardsAccounted, Accounted, Exact,
         ExactUpserts, CountsJoinUp
<1> QED
  BY <1>1, <1>2, <1>3, <1>4, CountsInit, StoreInvariant, PTL DEF Spec

-----------------------------------------------------------------------------
(* The order of a title file. *)

HeaderFields == {"assessmentNumber", "proprietorName", "strataParent"}

\* The rows of a VEN that have a cell, and those with a complete entry.
RowsWith(rows, ven, field) == {r \in ToSet(rows) : VenOf(r) = ven /\ r[field] # None}
EntryRows(rows, ven, key, cell) == RowsWith(rows, ven, key) \cap RowsWith(rows, ven, cell)

InAgreement(rows) == \A r, s \in ToSet(rows) : Agree(r, s)

\* The first and last of some lines are such lines.
LEMMA EndsAreLines ==
  ASSUME NEW rows, Numbered(rows), NEW lines \in SUBSET DOMAIN rows, lines # {}
  PROVE  Max(lines) \in lines /\ Min(lines) \in lines
<1>1. PICK n \in Nat : DOMAIN rows \in SUBSET (1 .. n)
  BY DEF Numbered
<1>2. lines \in SUBSET (1 .. n) /\ lines \in SUBSET Nat
  BY <1>1
<1> QED
  BY <1>1, <1>2, MaxIsLargest, MinIsLeast

\* A header cell is any that a row of the VEN has, since they agree.
LEMMA HeaderCells ==
  ASSUME NEW rows, Numbered(rows), InAgreement(rows), NEW ven, NEW field \in HeaderFields
  PROVE  /\ RowsWith(rows, ven, field) = {} =>
               LastCell(rows, ven, field) = None /\ FirstCell(rows, ven, field) = None
         /\ \A r \in RowsWith(rows, ven, field) :
               LastCell(rows, ven, field) = r[field] /\ FirstCell(rows, ven, field) = r[field]
<1> DEFINE lines == LinesWith(rows, ven, field)
<1>1. \A i \in lines : rows[i] \in RowsWith(rows, ven, field)
  BY DEF LinesWith, LinesOfVen, RowsWith, ToSet
<1>2. RowsWith(rows, ven, field) # {} => lines # {}
  BY DEF LinesWith, LinesOfVen, RowsWith, ToSet
<1>3. lines \in SUBSET DOMAIN rows
  BY DEF LinesWith, LinesOfVen
<1>4. \A r, s \in RowsWith(rows, ven, field) : r[field] = s[field]
  BY DEF RowsWith, InAgreement, Agree, HeaderFields
<1>5. /\ LastCell(rows, ven, field) = IF lines = {} THEN None ELSE rows[Max(lines)][field]
      /\ FirstCell(rows, ven, field) = IF lines = {} THEN None ELSE rows[Min(lines)][field]
  BY DEF LastCell, FirstCell
<1> HIDE DEF lines
<1>6. lines # {} => Max(lines) \in lines /\ Min(lines) \in lines
  BY <1>3, EndsAreLines
<1>7. lines # {} => RowsWith(rows, ven, field) # {}
  BY <1>1
<1> QED
  BY <1>1, <1>2, <1>4, <1>5, <1>6, <1>7

\* A VEN's entries come from its complete rows, one line for each key.
LEMMA LinesOfEntries ==
  ASSUME NEW rows, Numbered(rows), NEW ven, NEW key, NEW cell,
         \A r, s \in EntryRows(rows, ven, key, cell) : r[key] = s[key] => r[cell] = s[cell]
  PROVE  /\ \A i \in FirstLines(rows, ven, key, cell) :
               i \in DOMAIN rows /\ rows[i] \in EntryRows(rows, ven, key, cell)
         /\ \A r \in EntryRows(rows, ven, key, cell) :
               \E i \in FirstLines(rows, ven, key, cell) :
                   rows[i][key] = r[key] /\ rows[i][cell] = r[cell]
         /\ \A i, j \in FirstLines(rows, ven, key, cell) :
               rows[i][key] = rows[j][key] => i = j
<1> DEFINE complete == LinesWith(rows, ven, key) \cap LinesWith(rows, ven, cell)
<1>1. /\ \A i \in complete : i \in DOMAIN rows /\ rows[i] \in EntryRows(rows, ven, key, cell)
      /\ \A r \in EntryRows(rows, ven, key, cell) : \E i \in complete : rows[i] = r
  BY DEF LinesWith, LinesOfVen, EntryRows, RowsWith, ToSet
<1>2. FirstLines(rows, ven, key, cell) =
         {i \in complete : \A j \in complete : rows[j][key] = rows[i][key] => i <= j}
  BY DEF FirstLines
<1> HIDE DEF complete
<1>3. \A i \in complete : i \in Nat
  BY <1>1 DEF Numbered
<1>4. ASSUME NEW r \in EntryRows(rows, ven, key, cell)
      PROVE  \E i \in FirstLines(rows, ven, key, cell) :
                 rows[i][key] = r[key] /\ rows[i][cell] = r[cell]
  <2> DEFINE same == {i \in complete : rows[i][key] = r[key]}
             first == Min(same)
  <2>1. same \in SUBSET Nat /\ same # {}
    BY <1>1, <1>3
  <2>2. first \in same /\ \A j \in same : first <= j
    <3> HIDE DEF same
    <3> QED
      BY <2>1, MinIsLeast
  <2> HIDE DEF first
  <2>3. first \in complete /\ rows[first][key] = r[key]
    BY <2>2
  <2>4. first \in FirstLines(rows, ven, key, cell)
    BY <1>2, <2>2, <2>3
  <2>5. rows[first][cell] = r[cell]
    BY <1>1, <2>3
  <2> QED
    BY <2>3, <2>4, <2>5
<1>5. ASSUME NEW i \in FirstLines(rows, ven, key, cell),
             NEW j \in FirstLines(rows, ven, key, cell), rows[i][key] = rows[j][key]
      PROVE  i = j
  <2>1. i \in Nat /\ j \in Nat /\ i <= j /\ j <= i
    BY <1>2, <1>3, <1>5
  <2> QED
    BY <2>1
<1> QED
  BY <1>1, <1>2, <1>4, <1>5

\* An array without repetitions has as many entries as there are different ones.
LEMMA DifferentEntries ==
  ASSUME NEW array, Numbered(array),
         \A i, j \in DOMAIN array : array[i] = array[j] => i = j
  PROVE  Contents(array) = <<Cardinality(ToSet(array)), ToSet(array)>>
<1> DEFINE S == DOMAIN array
           T == ToSet(array)
           f == [i \in S |-> array[i]]
<1>1. IsFiniteSet(S)
  BY WritesAreFinite
<1>2. f \in [S -> T] /\ (\A y \in T : \E i \in S : f[i] = y)
      /\ \A i, j \in S : f[i] = f[j] => i = j
  BY DEF ToSet
<1> HIDE DEF f, S, T
<1>3. f \in Bijection(S, T)
  BY <1>2 DEF Bijection, Injection, IsInjective, Surjection
<1>4. Cardinality(S) = Cardinality(T)
  BY <1>1, <1>3, FS_Bijection DEF ExistsBijection
<1> QED
  BY <1>4 DEF Contents, S, T

PinsOf(S) == {[pin |-> r.pin, areaSquareMetres |-> r.areaSqm] : r \in S}
EncumbrancesOf(S) == {[reference |-> r.reference, date |-> r.date] : r \in S}

\* The contents of an array that has each of these entries once.
Once(S) == <<Cardinality(S), S>>

\* The arrays of a record, in any order of the lines.
LEMMA ArraysByRows ==
  ASSUME NEW rows, Numbered(rows), InAgreement(rows), NEW ven
  PROVE  /\ Contents(Pins(rows, ven)) = Once(PinsOf(EntryRows(rows, ven, "pin", "areaSqm")))
         /\ Contents(Encumbrances(rows, ven))
               = Once(EncumbrancesOf(EntryRows(rows, ven, "reference", "date")))
<1>1. Contents(Pins(rows, ven)) = Once(PinsOf(EntryRows(rows, ven, "pin", "areaSqm")))
  <2> DEFINE lines == FirstLines(rows, ven, "pin", "areaSqm")
             of == EntryRows(rows, ven, "pin", "areaSqm")
             array == Pins(rows, ven)
             all == {[pin |-> r.pin, areaSquareMetres |-> r.areaSqm] : r \in of}
  <2>1. \A r, s \in of : r.pin = s.pin => r.areaSqm = s.areaSqm
    BY DEF EntryRows, RowsWith, InAgreement, Agree
  <2>2. /\ \A i \in lines : i \in DOMAIN rows /\ rows[i] \in of
        /\ \A r \in of : \E i \in lines : rows[i].pin = r.pin /\ rows[i].areaSqm = r.areaSqm
        /\ \A i, j \in lines : rows[i].pin = rows[j].pin => i = j
    BY <2>1, LinesOfEntries
  <2> HIDE DEF lines, of
  <2>3. /\ DOMAIN array = lines
        /\ \A i \in lines : array[i] = [pin |-> rows[i].pin, areaSquareMetres |-> rows[i].areaSqm]
    BY DEF Pins, lines
  <2> HIDE DEF array
  <2>4. Numbered(array)
    BY <2>2, <2>3 DEF Numbered
  <2>5. \A i, j \in DOMAIN array : array[i] = array[j] => i = j
    BY <2>2, <2>3
  <2>6. ToSet(array) = all
    BY <2>2, <2>3 DEF ToSet
  <2>7. Contents(array) = <<Cardinality(ToSet(array)), ToSet(array)>>
    BY <2>4, <2>5, DifferentEntries
  <2> QED
    BY <2>6, <2>7 DEF array, of, Once, PinsOf
<1>2. Contents(Encumbrances(rows, ven))
         = Once(EncumbrancesOf(EntryRows(rows, ven, "reference", "date")))
  <2> DEFINE lines == FirstLines(rows, ven, "reference", "date")
             of == EntryRows(rows, ven, "reference", "date")
             array == Encumbrances(rows, ven)
             all == {[reference |-> r.reference, date |-> r.date] : r \in of}
  <2>1. \A r, s \in of : r.reference = s.reference => r.date = s.date
    BY DEF EntryRows, RowsWith, InAgreement, Agree
  <2>2. /\ \A i \in lines : i \in DOMAIN rows /\ rows[i] \in of
        /\ \A r \in of : \E i \in lines :
              rows[i].reference = r.reference /\ rows[i].date = r.date
        /\ \A i, j \in lines : rows[i].reference = rows[j].reference => i = j
    BY <2>1, LinesOfEntries
  <2> HIDE DEF lines, of
  <2>3. /\ DOMAIN array = lines
        /\ \A i \in lines : array[i] = [reference |-> rows[i].reference, date |-> rows[i].date]
    BY DEF Encumbrances, lines
  <2> HIDE DEF array
  <2>4. Numbered(array)
    BY <2>2, <2>3 DEF Numbered
  <2>5. \A i, j \in DOMAIN array : array[i] = array[j] => i = j
    BY <2>2, <2>3
  <2>6. ToSet(array) = all
    BY <2>2, <2>3 DEF ToSet
  <2>7. Contents(array) = <<Cardinality(ToSet(array)), ToSet(array)>>
    BY <2>4, <2>5, DifferentEntries
  <2> QED
    BY <2>6, <2>7 DEF array, of, Once, EncumbrancesOf
<1> QED
  BY <1>1, <1>2

\* What the aggregation yields, but for the order.
Unordered(rows, c, at) ==
    LET records == AggregateTitleRowsByVen(rows, c, at)
    IN  Contents([i \in DOMAIN records |-> RecordContents(records[i])])

RecordsOf(rows, c, at) ==
    {RecordContents(RecordOf(rows, VenOf(r), c, at)) : r \in ToSet(rows)}

LEMMA UnorderedByVen ==
  ASSUME NEW rows, Numbered(rows), NEW c, NEW at
  PROVE  Unordered(rows, c, at) = Once(RecordsOf(rows, c, at))
<1> DEFINE records == AggregateTitleRowsByVen(rows, c, at)
           array == [i \in DOMAIN records |-> RecordContents(records[i])]
           of(ven) == RecordContents(RecordOf(rows, ven, c, at))
           all == {of(VenOf(r)) : r \in ToSet(rows)}
           lines == {j \in DOMAIN rows :
                        \A k \in DOMAIN rows : VenOf(rows[k]) = VenOf(rows[j]) => j <= k}
<1>1. DOMAIN array = lines /\ \A i \in lines : array[i] = of(VenOf(rows[i]))
  BY DEF AggregateTitleRowsByVen
<1>2. \A ven : of(ven).ven = ven
  BY DEF RecordContents, RecordOf
<1>3. Unordered(rows, c, at) = Contents(array)
  BY DEF Unordered
<1> HIDE DEF array, of
<1>4. \A i \in DOMAIN rows : i \in Nat
  BY DEF Numbered
<1>5. Numbered(array)
  BY <1>1 DEF Numbered
<1>6. ASSUME NEW i \in DOMAIN array, NEW j \in DOMAIN array, array[i] = array[j]
      PROVE  i = j
  <2>1. VenOf(rows[i]) = VenOf(rows[j])
    BY <1>1, <1>2, <1>6
  <2>2. i <= j /\ j <= i /\ i \in Nat /\ j \in Nat
    BY <1>1, <1>4, <2>1
  <2> QED
    BY <2>2
<1>7. ASSUME NEW i \in DOMAIN rows
      PROVE  \E j \in lines : VenOf(rows[j]) = VenOf(rows[i])
  <2> DEFINE same == {j \in DOMAIN rows : VenOf(rows[j]) = VenOf(rows[i])}
             first == Min(same)
  <2>1. same \in SUBSET Nat /\ same # {}
    BY <1>4
  <2>2. first \in same /\ \A j \in same : first <= j
    <3> HIDE DEF same
    <3> QED
      BY <2>1, MinIsLeast
  <2> HIDE DEF first
  <2> QED
    BY <2>2
<1>8. ToSet(array) = all
  <2>1. \A i \in lines : array[i] \in all
    BY <1>1 DEF ToSet
  <2>2. ASSUME NEW i \in DOMAIN rows
        PROVE  \E j \in lines : array[j] = of(VenOf(rows[i]))
    BY <1>1, <1>7
  <2> QED
    BY <1>1, <2>1, <2>2 DEF ToSet
<1>9. Contents(array) = <<Cardinality(ToSet(array)), ToSet(array)>>
  BY <1>5, <1>6, DifferentEntries
<1> QED
  BY <1>3, <1>8, <1>9 DEF of, Once, RecordsOf

\* Rows in agreement are aggregated alike under any line numbers.
LEMMA NumbersDoNotMatter ==
  ASSUME NEW rows, NEW other, Numbered(rows), Numbered(other), InAgreement(rows),
         ToSet(other) = ToSet(rows), NEW c, NEW at
  PROVE  Unordered(other, c, at) = Unordered(rows, c, at)
<1>1. InAgreement(other)
  BY DEF InAgreement
<1>2. ASSUME NEW ven, NEW field \in HeaderFields
      PROVE  /\ LastCell(other, ven, field) = LastCell(rows, ven, field)
             /\ FirstCell(other, ven, field) = FirstCell(rows, ven, field)
  <2>1. RowsWith(other, ven, field) = RowsWith(rows, ven, field)
    BY DEF RowsWith
  <2>2. CASE RowsWith(rows, ven, field) = {}
    BY <1>1, <2>1, <2>2, HeaderCells
  <2>3. CASE RowsWith(rows, ven, field) # {}
    <3>1. PICK r : r \in RowsWith(rows, ven, field)
      BY <2>3
    <3>2. LastCell(rows, ven, field) = r[field] /\ FirstCell(rows, ven, field) = r[field]
      BY <3>1, HeaderCells
    <3>3. LastCell(other, ven, field) = r[field] /\ FirstCell(other, ven, field) = r[field]
      BY <1>1, <2>1, <3>1, HeaderCells
    <3> QED
      BY <3>2, <3>3
  <2> QED
    BY <2>2, <2>3
<1>3. ASSUME NEW ven
      PROVE  /\ Contents(Pins(other, ven)) = Contents(Pins(rows, ven))
             /\ Contents(Encumbrances(other, ven)) = Contents(Encumbrances(rows, ven))
  <2>1. \A key, cell : EntryRows(other, ven, key, cell) = EntryRows(rows, ven, key, cell)
    BY DEF EntryRows, RowsWith
  <2> QED
    BY <1>1, <2>1, ArraysByRows
<1>4. ASSUME NEW ven
      PROVE  /\ LastCell(other, ven, "assessmentNumber") = LastCell(rows, ven, "assessmentNumber")
             /\ LastCell(other, ven, "proprietorName") = LastCell(rows, ven, "proprietorName")
             /\ FirstCell(other, ven, "strataParent") = FirstCell(rows, ven, "strataParent")
  BY <1>2 DEF HeaderFields
<1>5. ASSUME NEW ven
      PROVE  RecordContents(RecordOf(other, ven, c, at)) = RecordContents(RecordOf(rows, ven, c, at))
  <2> DEFINE r == RecordOf(rows, ven, c, at)
             o == RecordOf(other, ven, c, at)
             contents(x, field) == IF field \in {"pins", "encumbrances"} THEN Contents(x[field])
                                   ELSE x[field]
  <2>1. DOMAIN o = DOMAIN r
    BY DEF RecordOf
  <2>2. ASSUME NEW field \in DOMAIN r
        PROVE  contents(o, field) = contents(r, field)
    <3>1. CASE field \in {"pins", "encumbrances"}
      BY <1>3, <3>1 DEF RecordOf
    <3>2. CASE field \notin {"pins", "encumbrances"}
      BY <1>4, <3>2 DEF RecordOf
    <3> QED
      BY <3>1, <3>2
  <2>3. /\ RecordContents(r) = [field \in DOMAIN r |-> contents(r, field)]
        /\ RecordContents(o) = [field \in DOMAIN o |-> contents(o, field)]
    BY DEF RecordContents
  <2> HIDE DEF contents
  <2> QED
    BY <2>1, <2>2, <2>3
<1>6. RecordsOf(other, c, at) = RecordsOf(rows, c, at)
  <2> DEFINE of(any, r) == RecordContents(RecordOf(any, VenOf(r), c, at))
  <2>1. \A r : of(other, r) = of(rows, r)
    BY <1>5
  <2>2. /\ RecordsOf(other, c, at) = {of(other, r) : r \in ToSet(other)}
        /\ RecordsOf(rows, c, at) = {of(rows, r) : r \in ToSet(rows)}
    BY DEF RecordsOf
  <2> HIDE DEF of
  <2> QED
    BY <2>1, <2>2
<1> QED
  BY <1>6, UnorderedByVen

\* The lines of a file may be put in any order.
LEMMA PermutedRows ==
  ASSUME NEW n \in Nat, NEW file, DOMAIN file = 1 .. n, Len(file) = n,
         NEW other \in Permuted(file)
  PROVE  DOMAIN other = 1 .. n /\ ToSet(other) = ToSet(file)
<1>1. PICK o \in [1 .. n -> 1 .. n] :
         /\ \A i, j \in 1 .. n : o[i] = o[j] => i = j
         /\ other = [i \in 1 .. n |-> file[o[i]]]
  BY DEF Permuted
<1>2. o \in Injection(1 .. n, 1 .. n)
  <2>1. o \in [1 .. n -> 1 .. n] /\ \A i, j \in 1 .. n : o[i] = o[j] => i = j
    BY <1>1
  <2> QED
    BY <2>1 DEF Injection, IsInjective
<1>3. IsFiniteSet(1 .. n)
  BY FS_Interval
<1>4. o \in Surjection(1 .. n, 1 .. n)
  BY <1>2, <1>3, FS_Injection
<1>5. \A j \in 1 .. n : \E i \in 1 .. n : o[i] = j
  BY <1>4 DEF Surjection
<1>6. \A i \in 1 .. n : other[i] = file[o[i]] /\ o[i] \in 1 .. n
  BY <1>1
<1>7. DOMAIN other = 1 .. n
  BY <1>1
<1> QED
  BY <1>5, <1>6, <1>7 DEF ToSet

(***************************************************************************)
(* The order of a title file's lines decides between rows of one VEN that  *)
(* contradict each other, and the order of the records and of the arrays   *)
(* in them, and nothing else: for any rows and any order of a file's lines *)
(* a preview captures the same records, with the same cells and the same   *)
(* PINs and encumbrances, each once.                                       *)
(***************************************************************************)
THEOREM AggregationIgnoresOrder == Spec => []OrderMattersOnlyBetweenConflicts
<1>1. ASSUME NEW c \in Councils, NEW file \in BoundedSeq(TitleRows, 3),
             \A i, j \in DOMAIN file : Agree(file[i], file[j]), NEW other \in Permuted(file)
      PROVE  Unordered(ParseLandgateTitle(other), c, now)
                = Unordered(ParseLandgateTitle(file), c, now)
  <2>1. PICK n \in Nat : file \in [1 .. n -> TitleRows]
    <3>1. file \in UNION {[1 .. m -> TitleRows] : m \in 0 .. 3}
      BY DEF BoundedSeq, SeqOf
    <3>2. \E m \in 0 .. 3 : file \in [1 .. m -> TitleRows]
      BY <3>1
    <3> QED
      BY <3>2
  <2>2. DOMAIN file = 1 .. n /\ Len(file) = n
    <3>1. file \in Seq(TitleRows)
      BY <2>1
    <3> QED
      BY <2>1, <3>1
  <2>3. DOMAIN other = 1 .. n /\ ToSet(other) = ToSet(file)
    BY <2>2, PermutedRows
  <2> DEFINE Kept(rows) == ParseLandgateTitle(rows)
  <2>4. ASSUME NEW rows, DOMAIN rows = 1 .. n
        PROVE  /\ Numbered(Kept(rows))
               /\ ToSet(Kept(rows)) = {r \in ToSet(rows) : r.ven # None \/ r.assessmentNumber # None}
    BY <2>4 DEF Numbered, ParseLandgateTitle, ToSet
  <2>5. InAgreement(Kept(file))
    <3>1. \A r, s \in ToSet(file) : Agree(r, s)
      BY <1>1 DEF ToSet
    <3> QED
      BY <2>2, <2>4, <3>1 DEF InAgreement
  <2>6. ToSet(Kept(other)) = ToSet(Kept(file))
    BY <2>2, <2>3, <2>4
  <2> HIDE DEF Kept
  <2>7. Unordered(Kept(other), c, now) = Unordered(Kept(file), c, now)
    BY <2>2, <2>3, <2>4, <2>5, <2>6, NumbersDoNotMatter
  <2> QED
    BY <2>7 DEF Kept
<1>2. OrderMattersOnlyBetweenConflicts
  BY <1>1 DEF OrderMattersOnlyBetweenConflicts, Unordered
<1> QED
  BY <1>2, PTL
=============================================================================
