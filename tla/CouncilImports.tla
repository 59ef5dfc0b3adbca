--------------------------- MODULE CouncilImports ---------------------------
(***************************************************************************)
(* The imports of reference data, one per source of a council:             *)
(*   import_rate_schedule        rate lines of a council and year          *)
(*   import_landgate_title_data  title records, one per VEN                *)
(*   import_wc_eligibility       Water Corp concession cards               *)
(* packages/adapter-demo/src/handlers/venCtConcession.ts and the Maps they *)
(* write, data/index.ts.  The file is parsed and aggregated by the preview *)
(* and what it yields is captured by the token; the confirm writes that.   *)
(*                                                                         *)
(* A row keeps the cells the outcome depends on: its key and one value of  *)
(* each rule by which cells are merged.  An absent cell is None.  Unknown  *)
(* councils and files without a required header are refused before any     *)
(* state is read, and not enumerated.                                      *)
(***************************************************************************)
EXTENDS Naturals, SequencesExt

CONSTANTS
    Councils, Years, RateCodes,
    RateFiles,     \* rows [financialYear, rateCode, rateInDollar]
    TitleFiles,    \* rows [ven, assessmentNumber, proprietorName, pin, areaSqm,
                   \*       reference, date, strataParent], the 6th and 7th of an encumbrance
    WcFiles,       \* rows [customerId, cardNumber, eligibilityStatus]
    TitleRows,     \* rows whose short files the aggregation is checked on
    Supplied,      \* the retrievedAt a caller may give, None for the clock's
    Admins,        \* who may write to any council
    Tokens, Principals, TtlMs, MaxTime,
    MaxPending,    \* no preview is made while so many tokens are live
    None

VARIABLES
    now, entries, previews, uses,   \* of the token store
    rateSchedules,   \* per <<council, year, code>>, its rate or None
    landgateRecords, \* per <<council, VEN>>, its record or None
    wcEligibility,   \* per <<council, card or customer>>, its row or None
    audit

storeVars == <<now, entries, previews, uses>>
mapVars == <<rateSchedules, landgateRecords, wcEligibility>>
vars == <<storeVars, mapVars, audit>>

-----------------------------------------------------------------------------
(* The parsers. *)

\* The lines the parser keeps, under their numbers: one without a year takes the
\* request's; a line of another year, or one the schema refuses, is an error of
\* the preview.
ValidRates(file, fy) ==
    {i \in DOMAIN file :
        file[i].rateInDollar # None /\ file[i].financialYear \in {None, fy}}

\* A parser that leaves a row the year it lists.
ParseRateScheduleAnyYear(file, fy) ==
    [i \in {j \in DOMAIN file : file[j].rateInDollar # None} |->
        [file[i] EXCEPT !.financialYear = IF @ = None THEN fy ELSE @]]

ParseRateSchedule(file, fy) ==
    [i \in ValidRates(file, fy) |->
        [financialYear |-> fy, rateCode |-> file[i].rateCode,
         rateInDollar |-> file[i].rateInDollar]]

\* A row that has only an assessment number is keyed by it.
VenOf(row) == IF row.ven # None THEN row.ven ELSE <<"AN", row.assessmentNumber>>

ParseLandgateTitle(file) ==
    [i \in {j \in DOMAIN file : file[j].ven # None \/ file[j].assessmentNumber # None} |->
        file[i]]

ParseWcEligibility(file) ==
    [i \in {j \in DOMAIN file : file[j].eligibilityStatus # None} |-> file[i]]

-----------------------------------------------------------------------------
(* aggregateTitleRowsByVen, over rows under their line numbers. *)

LinesOfVen(rows, ven) == {i \in DOMAIN rows : VenOf(rows[i]) = ven}
LinesWith(rows, ven, field) == {i \in LinesOfVen(rows, ven) : rows[i][field] # None}

\* A merge that lets the last row speak, whether or not it has the cell.
LastCellAlways(rows, ven, field) == rows[Max(LinesOfVen(rows, ven))][field]

\* Header cells: the last row that has one.
LastCell(rows, ven, field) ==
    IF LinesWith(rows, ven, field) = {} THEN None
    ELSE rows[Max(LinesWith(rows, ven, field))][field]

FirstCell(rows, ven, field) ==
    IF LinesWith(rows, ven, field) = {} THEN None
    ELSE rows[Min(LinesWith(rows, ven, field))][field]

\* An entry counts when all its cells are there; the first line of a key wins.
FirstLines(rows, ven, key, cell) ==
    LET complete == LinesWith(rows, ven, key) \cap LinesWith(rows, ven, cell)
    IN  {i \in complete : \A j \in complete : rows[j][key] = rows[i][key] => i <= j}

\* The arrays of a record keep the order of the lines: they too are under the
\* numbers of the lines they come from.
Pins(rows, ven) ==
    [i \in FirstLines(rows, ven, "pin", "areaSqm") |->
        [pin |-> rows[i].pin, areaSquareMetres |-> rows[i].areaSqm]]

Encumbrances(rows, ven) ==
    [i \in FirstLines(rows, ven, "reference", "date") |->
        [reference |-> rows[i].reference, date |-> rows[i].date]]

RecordOf(rows, ven, c, retrievedAt) ==
    [councilCode |-> c, ven |-> ven,
     assessmentNumber |-> LastCell(rows, ven, "assessmentNumber"),
     proprietorName |-> LastCell(rows, ven, "proprietorName"),
     pins |-> Pins(rows, ven), encumbrances |-> Encumbrances(rows, ven),
     strataParentCt |-> FirstCell(rows, ven, "strataParent"),
     retrievedAt |-> retrievedAt]

\* One record per VEN, in the order in which the VENs first come.
AggregateTitleRowsByVen(rows, c, retrievedAt) ==
    [i \in {j \in DOMAIN rows :
               \A k \in DOMAIN rows : VenOf(rows[k]) = VenOf(rows[j]) => j <= k} |->
        RecordOf(rows, VenOf(rows[i]), c, retrievedAt)]

-----------------------------------------------------------------------------
(* What the tokens capture. *)

Stamps == (0 .. MaxTime) \cup (Supplied \ {None})

RateMutations ==
    {[operation |-> "import_rate_schedule", councilCode |-> c, financialYear |-> fy,
      mergeStrategy |-> strategy, rows |-> ParseRateSchedule(file, fy)] :
     c \in Councils, fy \in Years, strategy \in {"replace", "upsert"}, file \in RateFiles}
TitleMutations ==
    {[operation |-> "import_landgate_title_data", councilCode |-> c, retrievedAt |-> at,
      records |-> AggregateTitleRowsByVen(ParseLandgateTitle(file), c, at)] :
     c \in Councils, at \in Stamps, file \in TitleFiles}
WcMutations ==
    [operation : {"import_wc_eligibility"}, councilCode : Councils, retrievedAt : Stamps,
     rows : {ParseWcEligibility(file) : file \in WcFiles}]

PendingMutations == RateMutations \cup TitleMutations \cup WcMutations
CommitOperations ==
    {"import_rate_schedule", "import_landgate_title_data", "import_wc_eligibility"}

Store == INSTANCE CommitTokens WITH
            Mutations <- PendingMutations,
            Operations <- CommitOperations

ASSUME ImportsAssumption ==
    /\ Admins \subseteq Principals
    /\ TtlMs \in Nat \ {0} /\ MaxTime \in Nat /\ MaxPending \in Nat
    /\ Supplied \ {None} \subseteq Nat
    /\ None \notin Store!Entry /\ None \notin Store!Preview

RateKeys == Councils \X Years \X RateCodes
CellsOf(files, field) ==
    {cell \in UNION {{file[i][field] : i \in DOMAIN file} : file \in files} : cell # None}
Vens == UNION {{VenOf(row) : row \in ToSet(ParseLandgateTitle(file))} : file \in TitleFiles}
TitleKeys == Councils \X Vens
WcIds == CellsOf(WcFiles, "cardNumber") \cup CellsOf(WcFiles, "customerId")
WcKeys == Councils \X WcIds

Init ==
    /\ Store!Init
    /\ rateSchedules = [k \in RateKeys |-> None]
    /\ landgateRecords = [k \in TitleKeys |-> None]
    /\ wcEligibility = [k \in WcKeys |-> None]
    /\ audit = << >>

-----------------------------------------------------------------------------
(* Writing to a Map, row after row: of the writes to a key the last stays. *)

Upserted(map, writes) ==
    [k \in DOMAIN map |->
        LET at == {i \in DOMAIN writes : writes[i].key = k}
        IN  IF at = {} THEN map[k] ELSE writes[Max(at)].value]

Held(map, keys) == {k \in keys : map[k] # None}

\* A count that takes each row for an entry of its own.
InsertedByRow(map, writes) ==
    Cardinality({i \in DOMAIN writes : map[writes[i].key] = None})

\* has(key) is asked row by row: a key listed twice is inserted, then updated.
Inserted(map, writes) ==
    Cardinality({k \in {w.key : w \in ToSet(writes)} : map[k] = None})

YearKeys(c, fy) == {k \in RateKeys : k[1] = c /\ k[2] = fy}
CouncilKeys(keys, c) == {k \in keys : k[1] = c}
-----------------------------------------------------------------------------
\* councilWriteGuard of tool-tenant-scope.ts.
MayImport(p, c) == p \in Admins \/ p.tenantId = c

\* issue, within the bound of the model.
IssueFor(p, m) ==
    /\ Cardinality({tok \in Tokens : entries[tok] # None}) < MaxPending
    /\ \E tok \in Tokens : Store!Issue(tok, m, p)
    /\ UNCHANGED <<mapVars, audit>>

StampOf(supplied) == IF supplied = None THEN now ELSE supplied

Record(row) == audit' = Append(audit, row)

(* import_rate_schedule *)

RatePreview(p, c, fy, strategy, file) ==
    /\ MayImport(p, c)
    /\ DOMAIN ParseRateSchedule(file, fy) # {}
    /\ IssueFor(p, [operation |-> "import_rate_schedule", councilCode |-> c,
                    financialYear |-> fy, mergeStrategy |-> strategy,
                    rows |-> ParseRateSchedule(file, fy)])

\* replaceRateScheduleForCouncilYear.
Replaced(c, fy, writes) ==
    Upserted([k \in RateKeys |-> IF k \in YearKeys(c, fy) THEN None ELSE rateSchedules[k]],
             writes)

\* The token is spent before the call's council, year and strategy are compared
\* with the preview's.
RateConfirm(p, c, fy, strategy, tok) ==
    LET m == entries[tok].mutation
        verdict == Store!Verdict(tok, "import_rate_schedule", p)
        writes == [i \in DOMAIN m.rows |->
                      [key |-> <<c, m.rows[i].financialYear, m.rows[i].rateCode>>,
                       value |-> m.rows[i].rateInDollar]]
        before == Cardinality(Held(rateSchedules, YearKeys(c, fy)))
    IN /\ MayImport(p, c)
       /\ Store!Consume(tok, "import_rate_schedule", p)
       /\ IF verdict = "ok" /\ m.councilCode = c /\ m.financialYear = fy
             /\ m.mergeStrategy = strategy
          THEN /\ rateSchedules' = IF strategy = "replace"
                                   THEN Replaced(c, fy, writes)
                                   ELSE Upserted(rateSchedules, writes)
               /\ Record([action |-> "write.import_rate_schedule", scope |-> <<c, fy>>,
                          mergeStrategy |-> strategy,
                          before |-> before,
                          after |-> Cardinality(Held(rateSchedules', YearKeys(c, fy))),
                          inserted |-> IF strategy = "replace" THEN Cardinality(DOMAIN m.rows)
                                       ELSE Inserted(rateSchedules, writes),
                          removed |-> IF strategy = "replace" THEN before ELSE 0])
               /\ UNCHANGED <<landgateRecords, wcEligibility>>
          ELSE UNCHANGED <<mapVars, audit>>

-----------------------------------------------------------------------------
(* import_landgate_title_data *)

TitlePreview(p, c, supplied, file) ==
    /\ MayImport(p, c)
    /\ DOMAIN ParseLandgateTitle(file) # {}
    /\ IssueFor(p, [operation |-> "import_landgate_title_data", councilCode |-> c,
                    retrievedAt |-> StampOf(supplied),
                    records |-> AggregateTitleRowsByVen(ParseLandgateTitle(file), c,
                                                        StampOf(supplied))])

TitleConfirm(p, c, tok) ==
    LET m == entries[tok].mutation
        verdict == Store!Verdict(tok, "import_landgate_title_data", p)
        RecordAt(k) == {r \in ToSet(m.records) : k = <<r.councilCode, r.ven>>}
    IN /\ MayImport(p, c)
       /\ Store!Consume(tok, "import_landgate_title_data", p)
       /\ IF verdict = "ok" /\ m.councilCode = c
          THEN /\ landgateRecords' =
                    [k \in TitleKeys |-> IF RecordAt(k) = {} THEN landgateRecords[k]
                                         ELSE CHOOSE r \in RecordAt(k) : TRUE]
               /\ Record([action |-> "write.import_landgate_title_data", scope |-> <<c>>,
                          before |-> Cardinality(
                                        Held(landgateRecords, CouncilKeys(TitleKeys, c))),
                          after |-> Cardinality(
                                        Held(landgateRecords', CouncilKeys(TitleKeys, c))),
                          inserted |-> Cardinality(DOMAIN m.records), removed |-> 0])
               /\ UNCHANGED <<rateSchedules, wcEligibility>>
          ELSE UNCHANGED <<mapVars, audit>>

-----------------------------------------------------------------------------
(* import_wc_eligibility *)

WcPreview(p, c, supplied, file) ==
    /\ MayImport(p, c)
    /\ DOMAIN ParseWcEligibility(file) # {}
    /\ IssueFor(p, [operation |-> "import_wc_eligibility", councilCode |-> c,
                    retrievedAt |-> StampOf(supplied), rows |-> ParseWcEligibility(file)])

WcRecord(row, c, retrievedAt) ==
    [councilCode |-> c, customerId |-> row.customerId, cardNumber |-> row.cardNumber,
     eligibilityStatus |-> row.eligibilityStatus, retrievedAt |-> retrievedAt]

WcKey(c, row) == <<c, IF row.cardNumber # None THEN row.cardNumber ELSE row.customerId>>

\* Files are sequences of rows.  RateCodes has every code they list, the schema
\* keeps no card row without a customer, and a card's record is not the mark of an
\* absent one.
ASSUME FilesAssumption ==
    /\ \A file \in RateFiles : file \in Seq(ToSet(file))
    /\ \A file \in TitleFiles : file \in Seq(ToSet(file))
    /\ \A file \in WcFiles : file \in Seq(ToSet(file))
    /\ \A file \in RateFiles : \A i \in DOMAIN file : file[i].rateCode \in RateCodes
    /\ \A file \in WcFiles : \A i \in DOMAIN file :
          file[i].eligibilityStatus # None => file[i].customerId # None
    /\ \A file \in WcFiles, c \in Councils, at \in Stamps : \A i \in DOMAIN file :
          WcRecord(file[i], c, at) # None

WcConfirm(p, c, tok) ==
    LET m == entries[tok].mutation
        verdict == Store!Verdict(tok, "import_wc_eligibility", p)
        writes == [i \in DOMAIN m.rows |->
                      [key |-> WcKey(c, m.rows[i]),
                       value |-> WcRecord(m.rows[i], c, m.retrievedAt)]]
    IN /\ MayImport(p, c)
       /\ Store!Consume(tok, "import_wc_eligibility", p)
       /\ IF verdict = "ok" /\ m.councilCode = c
          THEN /\ wcEligibility' = Upserted(wcEligibility, writes)
               /\ Record([action |-> "write.import_wc_eligibility", scope |-> <<c>>,
                          before |-> Cardinality(Held(wcEligibility, CouncilKeys(WcKeys, c))),
                          after |-> Cardinality(Held(wcEligibility', CouncilKeys(WcKeys, c))),
                          inserted |-> Inserted(wcEligibility, writes),
                          removed |-> 0])
               /\ UNCHANGED <<rateSchedules, landgateRecords>>
          ELSE UNCHANGED <<mapVars, audit>>

-----------------------------------------------------------------------------
Tick == Store!Tick /\ UNCHANGED <<mapVars, audit>>

Next ==
    \/ Tick
    \/ \E p \in Principals, c \in Councils :
          \/ \E fy \in Years, strategy \in {"replace", "upsert"} :
                \/ \E file \in RateFiles : RatePreview(p, c, fy, strategy, file)
                \/ \E tok \in Tokens : RateConfirm(p, c, fy, strategy, tok)
          \/ \E supplied \in Supplied, file \in TitleFiles : TitlePreview(p, c, supplied, file)
          \/ \E supplied \in Supplied, file \in WcFiles : WcPreview(p, c, supplied, file)
          \/ \E tok \in Tokens : TitleConfirm(p, c, tok) \/ WcConfirm(p, c, tok)

Spec == Init /\ [][Next]_vars

-----------------------------------------------------------------------------
\* The mutation a step commits, if it commits one, with who previewed it.
CommitsNow ==
    {u \in uses' \ uses : audit' # audit}

Changed(map, new) == {k \in DOMAIN map : new[k] # map[k]}

(***************************************************************************)
(* An import touches nothing but its own: a rate line changes only by a    *)
(* commit for its council and its year, a title or a card only by one for  *)
(* its council, each previewed by that council or an admin, whatever years *)
(* and keys the file lists.                                                *)
(***************************************************************************)
ImportsStayInTheirScope ==
    [][/\ \A k \in Changed(rateSchedules, rateSchedules') : \E u \in CommitsNow :
             /\ u.mutation.operation = "import_rate_schedule"
             /\ k[1] = u.mutation.councilCode /\ k[2] = u.mutation.financialYear
             /\ MayImport(previews[u.token].by, k[1])
       /\ \A k \in Changed(landgateRecords, landgateRecords') : \E u \in CommitsNow :
             /\ u.mutation.operation = "import_landgate_title_data"
             /\ k[1] = u.mutation.councilCode /\ MayImport(previews[u.token].by, k[1])
       /\ \A k \in Changed(wcEligibility, wcEligibility') : \E u \in CommitsNow :
             /\ u.mutation.operation = "import_wc_eligibility"
             /\ k[1] = u.mutation.councilCode /\ MayImport(previews[u.token].by, k[1])]_vars

RowsAbout(trail, action, scope) ==
    {i \in DOMAIN trail : trail[i].action = action /\ trail[i].scope = scope}

\* What the last of these rows leaves.
After(trail, rows) == IF rows = {} THEN 0 ELSE trail[Max(rows)].after

\* The audit rows of one Map and scope join up, and the last one is its size.
JoinUp(trail, rows, size) ==
    /\ \A i \in rows :
          /\ trail[i].before = After(trail, {j \in rows : j < i})
          /\ trail[i].after <= trail[i].before + trail[i].inserted - trail[i].removed
    /\ size = After(trail, rows)

(***************************************************************************)
(* The audit accounts for every entry: over all imports of a council (of a *)
(* council and year, for rates) each row's count before is the count after *)
(* of the row before it, the last one is what the Map holds, and none adds *)
(* more than it reports.  An upsert, of rates or of cards, adds exactly    *)
(* what it reports as inserted, a key listed twice counting once; a        *)
(* replace counts lines, and a title import the records it updates too.    *)
(***************************************************************************)
CountsJoinUp ==
    /\ \A c \in Councils, fy \in Years :
          LET rateRows == RowsAbout(audit, "write.import_rate_schedule", <<c, fy>>) IN
          /\ JoinUp(audit, rateRows, Cardinality(Held(rateSchedules, YearKeys(c, fy))))
          /\ \A i \in rateRows :
                audit[i].mergeStrategy = "upsert" =>
                    audit[i].after = audit[i].before + audit[i].inserted
    /\ \A c \in Councils :
          LET wcRows == RowsAbout(audit, "write.import_wc_eligibility", <<c>>) IN
          /\ JoinUp(audit, RowsAbout(audit, "write.import_landgate_title_data", <<c>>),
                    Cardinality(Held(landgateRecords, CouncilKeys(TitleKeys, c))))
          /\ JoinUp(audit, wcRows, Cardinality(Held(wcEligibility, CouncilKeys(WcKeys, c))))
          /\ \A i \in wcRows : audit[i].after = audit[i].before + audit[i].inserted

-----------------------------------------------------------------------------
\* Two rows of one VEN do not contradict each other.
Agree(r, s) ==
    VenOf(r) = VenOf(s) =>
        /\ \A field \in {"assessmentNumber", "proprietorName", "strataParent"} :
              r[field] = None \/ s[field] = None \/ r[field] = s[field]
        /\ (r.pin # None /\ r.pin = s.pin /\ r.areaSqm # None /\ s.areaSqm # None)
              => r.areaSqm = s.areaSqm
        /\ (r.reference # None /\ r.reference = s.reference /\ r.date # None /\ s.date # None)
              => r.date = s.date

Permuted(file) ==
    LET n == Len(file)
        orders == {o \in [1 .. n -> 1 .. n] : \A i, j \in 1 .. n : o[i] = o[j] => i = j}
    IN  {[i \in 1 .. n |-> file[o[i]]] : o \in orders}

\* An array but for the order of its entries.
Contents(array) == <<Cardinality(DOMAIN array), ToSet(array)>>

RecordContents(record) ==
    [field \in DOMAIN record |->
        IF field \in {"pins", "encumbrances"} THEN Contents(record[field]) ELSE record[field]]

(***************************************************************************)
(* What is left of "Order-independent." (venCtConcession.ts:611): whatever *)
(* title file whose rows of a VEN do not contradict each other, blank      *)
(* cells, incomplete entries and repeated rows included, any order of its  *)
(* lines yields the same records with the same header cells, PINs and      *)
(* encumbrances, each once.  Only the order of the records, and of the two *)
(* arrays in each, follows that of the lines.                              *)
(***************************************************************************)
OrderMattersOnlyBetweenConflicts ==
    (\A tok \in Tokens : previews[tok] = None) =>
        \A c \in Councils, file \in BoundedSeq(TitleRows, 3) :
            (\A i, j \in DOMAIN file : Agree(file[i], file[j])) =>
                LET Captured(rows) ==
                        LET records == AggregateTitleRowsByVen(ParseLandgateTitle(rows), c, now)
                        IN  Contents([i \in DOMAIN records |-> RecordContents(records[i])])
                IN  \A other \in Permuted(file) : Captured(other) = Captured(file)
=============================================================================
