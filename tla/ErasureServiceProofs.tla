------------------------ MODULE ErasureServiceProofs ------------------------
(***************************************************************************)
(* Proofs about what the web process does between its awaits.              *)
(*                                                                         *)
(* ErasureService, for any sets of tenants, requests, routes and imports,  *)
(* any number of restarts and any length of run.  What the footprint       *)
(* decides needs bundled data and rows that name the same tenants          *)
(* (SeedsAgree), and that "ok" means erased needs a database role that     *)
(* bypasses row-level security; that trail and answers are true needs      *)
(* neither.                                                                *)
(*                                                                         *)
(* RecoverySweep, for any officers, roll, register, feeds and lifetime of  *)
(* a context: ListInv says whose the cached contexts are, that no two have *)
(* one identity, and that the memo is of the context whose identity it     *)
(* has.  SoundInv says that every list is one the engine computes from     *)
(* rows, rate tables and feeds; what it says of such a list rests on       *)
(* lemmas about sums and about lists without repetitions.                  *)
(***************************************************************************)
EXTENDS ErasureService, RecoverySweep, FiniteSetTheorems, WellFoundedInduction, TLAPS

\* A request at a row stands before one that the subject has.
AtARow ==
    \A r \in Requests : pc[r] = "erase row" => rows[First(todo[r])] # None

\* Only the request that awaits a refresh has one under way.
RefreshIsAwaited ==
    \A r \in Requests : fills[r] # None => pc[r] = "refresh"

\* The rows are passed before the contexts are invalidated.
RowsComeFirst ==
    \A r \in Requests : pc[r] \in {"invalidate", "refresh", "ok"} => todo[r] = {}

Silent == {"idle", "forbidden", "not_found", "conflict"}

\* What a request tells of itself is what the trail says of it.
ToldAsTrailed ==
    \A r \in Requests :
        /\ \A t \in Councils : t \in affected[r] <=> [by |-> r, at |-> t] \in trail
        /\ (changed[r] = TRUE) <=> \E e \in trail : e.by = r
        /\ pc[r] \in Silent => ~ \E e \in trail : e.by = r

\* No row comes or goes.
RowsAreKept ==
    \A t \in Councils : rows[t] # None <=> t \in subject.rows

RequestInv == HasRowLeft /\ AtARow /\ RefreshIsAwaited /\ RowsComeFirst
TrailInv == TypeOK /\ RequestInv /\ ToldAsTrailed /\ RowsAreKept /\ TrailIsComplete

\* A set of tenants that is not empty has a first one.
LEMMA FirstIsLeft ==
  ASSUME NEW S \in SUBSET Councils, S # {}
  PROVE  First(S) \in S /\ First(S) \in Councils /\ First(S) # "store"
  BY ErasureAssumption

\* A step that leaves the trail and what was told of it lets nobody go silent.
LEMMA ToldFrame ==
  ASSUME ToldAsTrailed, UNCHANGED <<trail, affected, changed>>,
         \A q \in Requests : pc'[q] \in Silent => pc[q] \in Silent
  PROVE  ToldAsTrailed'
  BY DEF ToldAsTrailed

LEMMA RowsFrame ==
  ASSUME UNCHANGED <<subject, rows, trail>>, RowsAreKept, TrailIsComplete
  PROVE  RowsAreKept' /\ TrailIsComplete'
  BY DEF RowsAreKept, TrailIsComplete

LEMMA ContextType ==
  ASSUME TypeOK
  PROVE  Context \in SUBSET Councils
  BY ErasureAssumption DEF Context, TypeOK, CacheTypes, ProcessTypes

LEMMA InitTrailInv == Init => TrailInv
<1> SUFFICES ASSUME Init PROVE TrailInv
  OBVIOUS
<1> USE DEF Init
<1>1. subject.rows \subseteq Councils /\ subject.bundled \subseteq Councils
  BY ErasureAssumption
<1>2. ProcessTypes /\ DataTypes
  BY <1>1, ErasureAssumption DEF ProcessTypes, DataTypes, Seeded, Status
<1>3. RequestTypes /\ CacheTypes
  BY DEF RequestTypes, CacheTypes
<1>4. RequestInv
  BY DEF RequestInv, HasRowLeft, AtARow, RefreshIsAwaited, RowsComeFirst
<1>5. ToldAsTrailed
  BY DEF ToldAsTrailed
<1>6. RowsAreKept /\ TrailIsComplete
  BY <1>1, ErasureAssumption DEF RowsAreKept, TrailIsComplete, Status
<1> QED
  BY <1>2, <1>3, <1>4, <1>5, <1>6 DEF TrailInv, TypeOK, RequestInv

LEMMA StartTrailInv ==
  ASSUME TrailInv, NEW r \in Requests, Start(r)
  PROVE  TrailInv'
<1> USE DEF TrailInv, TypeOK
<1>1. Context \in SUBSET Councils /\ TargetTenants(r, Context) \in SUBSET Councils
  BY ContextType DEF TargetTenants
<1>2. UNCHANGED <<processVars, dataVars, affected, changed, fills>>
  BY DEF Start
<1>3. PICK to \in Silent \cup {"erase store"} : pc' = [pc EXCEPT ![r] = to]
  <2>1. Authorise(r, Context) \in {"ok", "forbidden", "not_found"}
    BY DEF Authorise
  <2> QED
    BY <2>1 DEF Start, Silent
<1>4. pc[r] = "idle" /\ todo' = [todo EXCEPT ![r] = TargetTenants(r, Context)]
  BY DEF Start
<1>5. ProcessTypes' /\ DataTypes'
  BY <1>2 DEF ProcessTypes, DataTypes, processVars, dataVars
<1>6. RequestTypes'
  BY <1>1, <1>2, <1>3, <1>4 DEF RequestTypes, Answers, Working, Silent
<1>7. CacheTypes'
  BY <1>1, <1>2 DEF CacheTypes, Start
<1>8. RequestInv'
  BY <1>2, <1>3, <1>4 DEF RequestInv, HasRowLeft, AtARow, RefreshIsAwaited, RowsComeFirst,
                          RequestTypes, Silent, dataVars
<1>9. ToldAsTrailed'
  BY <1>2, <1>3, <1>4, ToldFrame DEF Silent, RequestTypes, dataVars
<1> QED
  BY <1>2, <1>5, <1>6, <1>7, <1>8, <1>9, RowsFrame DEF processVars, dataVars, RequestInv

\* What the request does after a row, or after the store.
LEMMA NextTenantKeeps ==
  ASSUME TypeOK, NEW r \in Requests, NEW left \in SUBSET Councils, NextTenant(r, left),
         UNCHANGED fills, RequestInv, \A t \in Councils : rows[t] # None => rows'[t] # None,
         pc[r] \in {"erase store", "check row", "erase row"}
  PROVE  /\ pc' \in [Requests -> Answers \cup Working \cup {"idle", "lost"}]
         /\ todo' \in [Requests -> SUBSET Councils]
         /\ \A q \in Requests : pc'[q] \in Silent => pc[q] \in Silent
         /\ RequestInv'
<1> USE DEF NextTenant, TypeOK, RequestTypes, RequestInv
<1>1. pc' \in [Requests -> Answers \cup Working \cup {"idle", "lost"}]
  BY DEF Working
<1>2. todo' \in [Requests -> SUBSET Councils]
  OBVIOUS
<1>3. \A q \in Requests : pc'[q] \in Silent => pc[q] \in Silent
  BY DEF Silent
<1>4. HasRowLeft'
  BY DEF HasRowLeft
<1>5. ASSUME NEW q \in Requests, pc'[q] = "erase row"
      PROVE  rows'[First(todo'[q])] # None
  <2>1. q # r /\ pc[q] = "erase row" /\ todo'[q] = todo[q]
    BY <1>5
  <2>2. First(todo[q]) \in Councils
    BY <2>1, FirstIsLeft DEF HasRowLeft
  <2> QED
    BY <2>1, <2>2 DEF AtARow
<1>6. AtARow'
  BY <1>5 DEF AtARow
<1>7. RefreshIsAwaited' /\ RowsComeFirst'
  BY DEF RefreshIsAwaited, RowsComeFirst
<1> QED
  BY <1>1, <1>2, <1>3, <1>4, <1>6, <1>7

LEMMA EraseStoreTrailInv ==
  ASSUME TrailInv, NEW r \in Requests, EraseStore(r)
  PROVE  TrailInv'
<1> USE DEF TrailInv, TypeOK
<1>1. /\ pc[r] = "erase store" /\ NextTenant(r, todo[r]) /\ todo[r] \in SUBSET Councils
      /\ UNCHANGED <<processVars, rows, affected, cacheVars>>
  BY DEF EraseStore, RequestTypes
<1>2. /\ pc' \in [Requests -> Answers \cup Working \cup {"idle", "lost"}]
      /\ todo' \in [Requests -> SUBSET Councils]
      /\ \A q \in Requests : pc'[q] \in Silent => pc[q] \in Silent
      /\ RequestInv'
  BY <1>1, NextTenantKeeps DEF cacheVars
<1>3. ProcessTypes' /\ CacheTypes'
  BY <1>1 DEF ProcessTypes, CacheTypes, processVars, cacheVars
<1>4. CASE store # "pii"
  <2>1. UNCHANGED <<store, trail, changed>>
    BY <1>4 DEF EraseStore
  <2> QED
    BY <1>1, <1>2, <1>3, <2>1, ToldFrame, RowsFrame
       DEF DataTypes, RequestTypes, RequestInv, processVars
<1>5. CASE store = "pii"
  <2>1. /\ store' = "erased"
        /\ trail' = trail \cup {[by |-> r, at |-> "store"]}
        /\ changed' = [changed EXCEPT ![r] = TRUE]
    BY <1>5 DEF EraseStore
  <2>2. DataTypes' /\ RequestTypes'
    <3>1. [by |-> r, at |-> "store"] \in [by : Requests, at : Councils \cup {"store"}]
      OBVIOUS
    <3>2. DataTypes'
      BY <1>1, <2>1, <3>1 DEF DataTypes, Status
    <3>3. RequestTypes'
      BY <1>1, <1>2, <2>1 DEF RequestTypes
    <3> QED
      BY <3>2, <3>3
  <2>3. ToldAsTrailed'
    <3> SUFFICES ASSUME NEW q \in Requests
                 PROVE  /\ \A t \in Councils : t \in affected[q] <=> [by |-> q, at |-> t] \in trail'
                        /\ (changed'[q] = TRUE) <=> \E e \in trail' : e.by = q
                        /\ pc'[q] \in Silent => ~ \E e \in trail' : e.by = q
      BY <1>1 DEF ToldAsTrailed
    <3>1. \A t \in Councils : t \in affected[q] <=> [by |-> q, at |-> t] \in trail'
      BY <2>1, ErasureAssumption DEF ToldAsTrailed
    <3>2. (changed'[q] = TRUE) <=> \E e \in trail' : e.by = q
      <4>1. CASE q = r
        BY <2>1, <4>1, [by |-> r, at |-> "store"].by = r DEF RequestTypes
      <4>2. CASE q # r
        BY <2>1, <4>2 DEF ToldAsTrailed, RequestTypes
      <4> QED
        BY <4>1, <4>2
    <3>3. q = r => pc'[q] \notin Silent
      BY <1>1 DEF NextTenant, Silent, RequestTypes
    <3>4. pc'[q] \in Silent => ~ \E e \in trail' : e.by = q
      BY <1>2, <2>1, <3>3 DEF ToldAsTrailed
    <3> QED
      BY <3>1, <3>2, <3>4
  <2>4. RowsAreKept'
    BY <1>1 DEF RowsAreKept, processVars
  <2>5. TrailIsComplete'
    <3>1. \A e \in trail' : e \in trail \/ e.at = "store"
      BY <2>1
    <3> QED
      BY <1>1, <2>1, <3>1, ErasureAssumption DEF TrailIsComplete
  <2> QED
    BY <1>2, <1>3, <2>2, <2>3, <2>4, <2>5 DEF RequestInv
<1> QED
  BY <1>4, <1>5

LEMMA CheckRowTrailInv ==
  ASSUME TrailInv, NEW r \in Requests, CheckRow(r)
  PROVE  TrailInv'
<1> USE DEF TrailInv, TypeOK
<1> DEFINE t == First(todo[r])
<1>1. /\ pc[r] = "check row" /\ todo[r] \in SUBSET Councils /\ t \in Councils
      /\ UNCHANGED <<processVars, dataVars, affected, changed, cacheVars>>
  BY FirstIsLeft DEF CheckRow, RequestTypes, RequestInv, HasRowLeft
<1>2. ProcessTypes' /\ DataTypes' /\ CacheTypes'
  BY <1>1 DEF ProcessTypes, DataTypes, CacheTypes, processVars, dataVars, cacheVars
<1>3. CASE ~ FindsDetails(t)
  <2>1. NextTenant(r, todo[r] \ {t}) /\ todo[r] \ {t} \in SUBSET Councils
    BY <1>1, <1>3 DEF CheckRow
  <2>2. /\ pc' \in [Requests -> Answers \cup Working \cup {"idle", "lost"}]
        /\ todo' \in [Requests -> SUBSET Councils]
        /\ \A q \in Requests : pc'[q] \in Silent => pc[q] \in Silent
        /\ RequestInv'
    BY <1>1, <2>1, NextTenantKeeps DEF cacheVars, dataVars
  <2> QED
    BY <1>1, <1>2, <2>2, ToldFrame, RowsFrame
       DEF RequestTypes, RequestInv, processVars, dataVars
<1>4. CASE FindsDetails(t)
  <2>1. pc' = [pc EXCEPT ![r] = "erase row"] /\ todo' = todo
    BY <1>4 DEF CheckRow
  <2>2. RequestTypes'
    BY <1>1, <2>1 DEF RequestTypes, Working
  <2>3. HasRowLeft' /\ RefreshIsAwaited' /\ RowsComeFirst'
    BY <1>1, <2>1
       DEF RequestInv, HasRowLeft, RefreshIsAwaited, RowsComeFirst, RequestTypes, cacheVars
  <2>4. AtARow'
    BY <1>1, <1>4, <2>1, ErasureAssumption
       DEF FindsDetails, RequestInv, AtARow, RequestTypes, dataVars, Status
  <2>5. ToldAsTrailed'
    BY <1>1, <2>1, ToldFrame DEF Silent, RequestTypes, dataVars
  <2> QED
    BY <1>1, <1>2, <2>2, <2>3, <2>4, <2>5, RowsFrame DEF RequestInv, processVars, dataVars
<1> QED
  BY <1>3, <1>4

LEMMA EraseRowTrailInv ==
  ASSUME TrailInv, NEW r \in Requests, EraseRow(r)
  PROVE  TrailInv'
<1> USE DEF TrailInv, TypeOK
<1> DEFINE t == First(todo[r])
           rec == [by |-> r, at |-> t]
<1>1. /\ pc[r] = "erase row" /\ todo[r] \ {t} \in SUBSET Councils
      /\ t \in Councils /\ t # "store"
      /\ rows' = [rows EXCEPT ![t] = "erased"]
      /\ trail' = trail \cup {rec}
      /\ affected' = [affected EXCEPT ![r] = @ \cup {t}]
      /\ changed' = [changed EXCEPT ![r] = TRUE]
      /\ NextTenant(r, todo[r] \ {t})
      /\ UNCHANGED <<processVars, store, cacheVars>>
  BY FirstIsLeft DEF EraseRow, RequestTypes, RequestInv, HasRowLeft
<1>2. \A c \in Councils : rows[c] # None <=> rows'[c] # None
  BY <1>1, ErasureAssumption DEF DataTypes, RequestInv, AtARow, Status
<1>3. /\ pc' \in [Requests -> Answers \cup Working \cup {"idle", "lost"}]
      /\ todo' \in [Requests -> SUBSET Councils]
      /\ \A q \in Requests : pc'[q] \in Silent => pc[q] \in Silent
      /\ RequestInv'
  BY <1>1, <1>2, NextTenantKeeps DEF cacheVars
<1>4. ProcessTypes' /\ CacheTypes'
  BY <1>1 DEF ProcessTypes, CacheTypes, processVars, cacheVars
<1>5. DataTypes'
  <2>1. rec \in [by : Requests, at : Councils \cup {"store"}]
    BY <1>1
  <2> QED
    BY <1>1, <2>1 DEF DataTypes, Status
<1>6. RequestTypes'
  BY <1>1, <1>3 DEF RequestTypes
<1>7. rec.by = r /\ rec.at = t
  OBVIOUS
<1>8. ToldAsTrailed'
  <2> SUFFICES ASSUME NEW q \in Requests
               PROVE  /\ \A c \in Councils : c \in affected'[q] <=> [by |-> q, at |-> c] \in trail'
                      /\ (changed'[q] = TRUE) <=> \E e \in trail' : e.by = q
                      /\ pc'[q] \in Silent => ~ \E e \in trail' : e.by = q
    BY DEF ToldAsTrailed
  <2>1. ASSUME NEW c \in Councils
        PROVE  c \in affected'[q] <=> [by |-> q, at |-> c] \in trail'
    <3>1. [by |-> q, at |-> c] = rec <=> q = r /\ c = t
      OBVIOUS
    <3>2. c \in affected'[q] <=> c \in affected[q] \/ (q = r /\ c = t)
      BY <1>1 DEF RequestTypes
    <3> HIDE DEF rec
    <3> QED
      BY <1>1, <3>1, <3>2 DEF ToldAsTrailed
  <2> HIDE DEF rec
  <2>2. (changed'[q] = TRUE) <=> \E e \in trail' : e.by = q
    <3>1. CASE q = r
      BY <1>1, <1>7, <3>1 DEF RequestTypes
    <3>2. CASE q # r
      BY <1>1, <1>7, <3>2 DEF ToldAsTrailed, RequestTypes
    <3> QED
      BY <3>1, <3>2
  <2>3. q = r => pc'[q] \notin Silent
    BY <1>1 DEF NextTenant, Silent, RequestTypes
  <2>4. pc'[q] \in Silent => ~ \E e \in trail' : e.by = q
    BY <1>1, <1>3, <1>7, <2>3 DEF ToldAsTrailed
  <2> QED
    BY <2>1, <2>2, <2>4
<1>9. RowsAreKept'
  BY <1>1, <1>2 DEF RowsAreKept, processVars
<1>10. TrailIsComplete'
  <2>1. \A e \in trail' : e \in trail \/ e.at = t
    BY <1>1, <1>7
  <2>2. rec \in trail' /\ rec.at = t
    BY <1>1, <1>7
  <2> HIDE DEF rec
  <2>3. ASSUME NEW c \in Councils
        PROVE  rows'[c] = "erased" <=> \E e \in trail' : e.at = c
    <3>1. CASE c = t
      BY <1>1, <2>2, <3>1 DEF DataTypes
    <3>2. CASE c # t
      BY <1>1, <2>1, <3>2 DEF TrailIsComplete, DataTypes
    <3> QED
      BY <3>1, <3>2
  <2> QED
    BY <2>3 DEF TrailIsComplete
<1> QED
  BY <1>3, <1>4, <1>5, <1>6, <1>8, <1>9, <1>10 DEF RequestInv

LEMMA FailOrInvalidateTrailInv ==
  ASSUME TrailInv, NEW r \in Requests, DbFails(r) \/ Invalidate(r)
  PROVE  TrailInv'
<1> USE DEF TrailInv, TypeOK
<1>1. UNCHANGED <<processVars, dataVars, todo, affected, changed>>
  BY DEF DbFails, Invalidate
<1>2. PICK to \in {"internal_error", "refresh"} : pc' = [pc EXCEPT ![r] = to]
  BY DEF DbFails, Invalidate
<1>3. to = "refresh" => pc[r] = "invalidate"
  BY <1>2 DEF DbFails, Invalidate, RequestTypes
<1>4. ProcessTypes' /\ DataTypes'
  BY <1>1 DEF ProcessTypes, DataTypes, processVars, dataVars
<1>5. RequestTypes'
  BY <1>1, <1>2 DEF RequestTypes, Answers, Working
<1>6. CacheTypes' /\ RefreshIsAwaited'
  <2>1. CASE DbFails(r)
    BY <2>1 DEF DbFails, CacheTypes, cacheVars, RequestInv, RefreshIsAwaited, RequestTypes
  <2>2. CASE Invalidate(r)
    BY <2>2, ErasureAssumption
       DEF Invalidate, StartRefresh, CacheTypes, RequestInv, RefreshIsAwaited, RequestTypes
  <2> QED
    BY <2>1, <2>2
<1>7. HasRowLeft' /\ AtARow' /\ RowsComeFirst'
  BY <1>1, <1>2, <1>3
     DEF RequestInv, HasRowLeft, AtARow, RowsComeFirst, RequestTypes, dataVars
<1>8. ToldAsTrailed'
  BY <1>1, <1>2, ToldFrame DEF Silent, RequestTypes, dataVars
<1> QED
  BY <1>1, <1>4, <1>5, <1>6, <1>7, <1>8, RowsFrame DEF RequestInv, processVars, dataVars

LEMMA RefreshTrailInv ==
  ASSUME TrailInv, NEW f \in Requests \cup Imports, RefreshTenant(f) \/ EndRefresh(f)
  PROVE  TrailInv'
<1> USE DEF TrailInv, TypeOK
<1>1. UNCHANGED <<processVars, dataVars, todo, affected, changed>>
  BY DEF RefreshTenant, EndRefresh, requestVars
<1>2. \/ pc' = pc
      \/ f \in Requests /\ pc[f] = "refresh" /\ pc' = [pc EXCEPT ![f] = "ok"]
  BY DEF RefreshTenant, EndRefresh, requestVars, RequestInv, RefreshIsAwaited
<1>3. ProcessTypes' /\ DataTypes'
  BY <1>1 DEF ProcessTypes, DataTypes, processVars, dataVars
<1>4. RequestTypes'
  BY <1>1, <1>2 DEF RequestTypes, Answers
<1>5. CacheTypes' /\ RefreshIsAwaited'
  <2>1. CASE RefreshTenant(f)
    <3>1. PICK t \in fills[f].todo :
             fills' = [fills EXCEPT ![f] =
                [todo |-> @.todo \ {t},
                 found |-> IF rows[t] = None THEN @.found ELSE @.found \cup {t}]]
      BY <2>1 DEF RefreshTenant
    <3>2. fills[f] \in [todo : SUBSET Councils, found : SUBSET Councils]
      BY <2>1 DEF RefreshTenant, CacheTypes
    <3>3. fills' \in [Requests \cup Imports ->
                        {None} \cup [todo : SUBSET Councils, found : SUBSET Councils]]
      BY <3>1, <3>2 DEF CacheTypes
    <3>4. RefreshIsAwaited'
      BY <2>1, <3>1 DEF RefreshTenant, CacheTypes, RequestInv, RefreshIsAwaited, requestVars
    <3> QED
      BY <2>1, <3>3, <3>4 DEF RefreshTenant, CacheTypes
  <2>2. CASE EndRefresh(f)
    <3>1. /\ fills' = [fills EXCEPT ![f] = None] /\ fills[f] # None
          /\ context' = fills[f].found \/ context' = context
      BY <2>2 DEF EndRefresh, processVars
    <3>2. CacheTypes'
      BY <3>1 DEF CacheTypes
    <3>3. RefreshIsAwaited'
      BY <1>2, <3>1 DEF CacheTypes, RequestInv, RefreshIsAwaited, RequestTypes
    <3> QED
      BY <3>2, <3>3
  <2> QED
    BY <2>1, <2>2
<1>6. HasRowLeft' /\ AtARow' /\ RowsComeFirst'
  BY <1>1, <1>2
     DEF RequestInv, HasRowLeft, AtARow, RowsComeFirst, RequestTypes, dataVars
<1>7. ToldAsTrailed'
  BY <1>1, <1>2, ToldFrame DEF Silent, RequestTypes, dataVars
<1> QED
  BY <1>1, <1>3, <1>4, <1>5, <1>6, <1>7, RowsFrame DEF RequestInv, processVars, dataVars

\* The steps that touch neither requests nor rows.
ContextStep ==
    \/ SyncRead \/ UNCHANGED vars
    \/ \E f \in Imports : Import(f)

LEMMA ContextTrailInv ==
  ASSUME TrailInv, ContextStep
  PROVE  TrailInv'
<1> USE DEF TrailInv, TypeOK
<1>1. UNCHANGED <<subject, restarts, dataVars, requestVars>>
  BY DEF ContextStep, SyncRead, Import, processVars, vars
<1>3. CacheTypes'
  <2>1. CASE SyncRead
    BY <2>1, ContextType DEF SyncRead, CacheTypes
  <2>2. CASE UNCHANGED vars
    BY <2>2 DEF CacheTypes, cacheVars, vars
  <2>3. ASSUME NEW f \in Imports, Import(f)
        PROVE  CacheTypes'
    BY <2>3, ErasureAssumption DEF Import, StartRefresh, CacheTypes
  <2> QED
    BY <2>1, <2>2, <2>3 DEF ContextStep
<1>4. RefreshIsAwaited'
  <2>1. ASSUME NEW q \in Requests
        PROVE  fills'[q] = fills[q]
    BY ErasureAssumption
       DEF ContextStep, SyncRead, Import, StartRefresh,
           cacheVars, vars, CacheTypes
  <2> QED
    BY <1>1, <2>1 DEF RequestInv, RefreshIsAwaited, requestVars
<1>5. ProcessTypes' /\ DataTypes' /\ RequestTypes'
  BY <1>1 DEF ProcessTypes, DataTypes, RequestTypes, dataVars, requestVars
<1>6. HasRowLeft' /\ AtARow' /\ RowsComeFirst'
  BY <1>1 DEF RequestInv, HasRowLeft, AtARow, RowsComeFirst, dataVars, requestVars
<1>7. ToldAsTrailed' /\ RowsAreKept' /\ TrailIsComplete'
  BY <1>1, ToldFrame, RowsFrame DEF dataVars, requestVars
<1> QED
  BY <1>3, <1>4, <1>5, <1>6, <1>7 DEF RequestInv

LEMMA RestartTrailInv ==
  ASSUME TrailInv, Restart
  PROVE  TrailInv'
<1> USE DEF TrailInv, TypeOK
<1>1. UNCHANGED <<subject, rows, trail, todo, affected, changed>>
  BY DEF Restart
<1>2. \A q \in Requests : \/ pc'[q] = pc[q] /\ pc[q] \in Answers \cup {"idle"}
                          \/ pc'[q] = "lost"
  BY DEF Restart
<1>3. ProcessTypes' /\ DataTypes'
  BY <1>1, ErasureAssumption DEF Restart, ProcessTypes, DataTypes, Seeded, Status
<1>4. RequestTypes' /\ CacheTypes'
  BY <1>1 DEF Restart, RequestTypes, CacheTypes, Answers
<1>5. RequestInv'
  BY <1>1, <1>2
     DEF Restart, RequestInv, HasRowLeft, AtARow, RefreshIsAwaited, RowsComeFirst, Answers
<1>6. ToldAsTrailed'
  BY <1>1, <1>2, ToldFrame DEF Silent
<1> QED
  BY <1>1, <1>3, <1>4, <1>5, <1>6, RowsFrame DEF RequestInv

LEMMA NextTrailInv == TrailInv /\ [Next]_vars => TrailInv'
<1> SUFFICES ASSUME TrailInv, [Next]_vars PROVE TrailInv'
  OBVIOUS
<1>1. CASE \E r \in Requests : \/ Start(r) \/ EraseStore(r) \/ CheckRow(r)
                               \/ EraseRow(r) \/ DbFails(r) \/ Invalidate(r)
  BY <1>1, StartTrailInv, EraseStoreTrailInv, CheckRowTrailInv, EraseRowTrailInv,
     FailOrInvalidateTrailInv
<1>2. CASE \E f \in Requests \cup Imports : RefreshTenant(f) \/ EndRefresh(f)
  BY <1>2, RefreshTrailInv
<1>3. CASE ContextStep
  BY <1>3, ContextTrailInv
<1>4. CASE Restart
  BY <1>4, RestartTrailInv
<1> QED
  BY <1>1, <1>2, <1>3, <1>4 DEF Next, ContextStep

\* Every variable keeps its type, and a request at a row has one left to be at.
THEOREM TypeCorrect == Spec => []TypeOK
<1>1. TrailInv => TypeOK
  BY DEF TrailInv
<1> QED
  BY <1>1, InitTrailInv, NextTrailInv, PTL DEF Spec

\* A row is a tombstone exactly when its own tenant's chain has the erasure's
\* audit row: withAudit writes both, and nothing else writes either.
THEOREM TrailIsKept == Spec => []TrailIsComplete
<1>1. TrailInv => TrailIsComplete
  BY DEF TrailInv
<1> QED
  BY <1>1, InitTrailInv, NextTrailInv, PTL DEF Spec

\* Answers name the tenants whose trail the request is in, and a refused
\* request is in none.
THEOREM AnswersAreKept == Spec => []AnswersAreTruthful
<1>1. TrailInv => AnswersAreTruthful
  <2> SUFFICES ASSUME TrailInv, NEW r \in Requests
               PROVE  LET at == {e.at : e \in {x \in trail : x.by = r}}
                      IN  /\ affected[r] = at \ {"store"} /\ (changed[r] <=> at # {})
                          /\ pc[r] \in Silent => at = {}
    BY DEF AnswersAreTruthful, Silent
  <2> DEFINE at == {e.at : e \in {x \in trail : x.by = r}}
  <2> USE DEF TrailInv, TypeOK
  <2>1. \A e \in trail : e.at \in Councils \cup {"store"} /\ e = [by |-> e.by, at |-> e.at]
    BY DEF DataTypes
  <2>2. affected[r] \subseteq Councils
    BY DEF RequestTypes
  <2>3. ASSUME NEW t
        PROVE  t \in affected[r] <=> t \in at /\ t # "store"
    <3>1. CASE t \in affected[r]
      <4>1. [by |-> r, at |-> t] \in trail /\ t # "store"
        BY <2>2, <3>1, ErasureAssumption DEF ToldAsTrailed
      <4>2. [by |-> r, at |-> t].by = r /\ [by |-> r, at |-> t].at = t
        OBVIOUS
      <4> QED
        BY <3>1, <4>1, <4>2
    <3>2. CASE t \in at /\ t # "store"
      <4>1. PICK e \in trail : e.by = r /\ e.at = t
        BY <3>2
      <4> QED
        BY <2>1, <3>2, <4>1 DEF ToldAsTrailed
    <3> QED
      BY <3>1, <3>2
  <2>4. at # {} <=> \E e \in trail : e.by = r
    OBVIOUS
  <2>5. (changed[r] = TRUE) <=> at # {}
    BY <2>4 DEF ToldAsTrailed
  <2>6. changed[r] \in BOOLEAN
    BY DEF RequestTypes
  <2>7. pc[r] \in Silent => at = {}
    BY <2>4 DEF ToldAsTrailed
  <2> QED
    BY <2>3, <2>5, <2>6, <2>7
<1> QED
  BY <1>1, InitTrailInv, NextTrailInv, PTL DEF Spec

-----------------------------------------------------------------------------
(* What the footprint decides, with bundled data and rows that agree. *)

\* Who may have the subject erased, going by the rows.
Entitled(r) ==
    \/ Session[r].role = "platform_admin"
    \/ Session[r].role = "council_admin" /\ subject.rows \subseteq {Session[r].tenantId}

\* In the tenants the footprint is the subject's rows, whichever way a context was built.
FootprintIsTrue ==
    /\ context # None => context \cap Tenants = subject.rows
    /\ \A f \in Requests \cup Imports : fills[f] # None =>
          /\ fills[f].found \subseteq subject.rows
          /\ subject.rows \subseteq fills[f].todo \cup fills[f].found

\* A request that goes on is entitled to, and has every row with details before it,
\* unless it passed over them unseen.
GoesOn(r) ==
    /\ Entitled(r)
    /\ BypassesRls => \A t \in Councils : rows[t] = "pii" => t \in todo[r]

RightfullyAdmitted == \A r \in Requests : pc[r] \in Working \cup {"ok"} => GoesOn(r)
TrailIsEntitled == \A e \in trail : Entitled(e.by)

ErasedInv == TrailInv /\ FootprintIsTrue /\ RightfullyAdmitted /\ TrailIsEntitled

LEMMA InitErasedInv == Init => ErasedInv
  BY InitTrailInv
     DEF Init, ErasedInv, FootprintIsTrue, RightfullyAdmitted, TrailIsEntitled, Working

\* A request that leaves every row as it was or without details goes on.
LEMMA GoesOnFrame ==
  ASSUME NEW r \in Requests, GoesOn(r), UNCHANGED subject,
         \A t \in Councils : rows'[t] = "pii" =>
            rows[t] = "pii" /\ (BypassesRls /\ t \in todo[r] => t \in todo'[r])
  PROVE  GoesOn(r)'
  BY DEF GoesOn, Entitled

LEMMA StartErasedInv ==
  ASSUME SeedsAgree, ErasedInv, NEW r \in Requests, Start(r)
  PROVE  (FootprintIsTrue /\ RightfullyAdmitted /\ TrailIsEntitled)'
<1> USE DEF ErasedInv, TrailInv, TypeOK
<1>1. UNCHANGED <<processVars, dataVars, fills>>
  BY DEF Start
<1>2. Context \cap Tenants = subject.rows
  BY DEF SeedsAgree, FootprintIsTrue, Context, ProcessTypes
<1>3. FootprintIsTrue'
  BY <1>1, <1>2 DEF FootprintIsTrue, Start, processVars
<1>4. TrailIsEntitled'
  BY <1>1 DEF TrailIsEntitled, Entitled, processVars, dataVars
<1>5. ASSUME NEW q \in Requests, pc'[q] \in Working \cup {"ok"}
      PROVE  GoesOn(q)'
  <2>1. CASE q # r
    <3>1. pc'[q] = pc[q] /\ todo'[q] = todo[q]
      BY <2>1 DEF Start, RequestTypes
    <3> QED
      BY <1>1, <1>5, <3>1 DEF RightfullyAdmitted, GoesOn, Entitled, processVars, dataVars
  <2>2. CASE q = r
    <3>1. pc'[r] \in Working \cup {"ok"} => Authorise(r, Context) = "ok"
      <4>1. Authorise(r, Context) \in {"ok", "forbidden", "not_found"}
        BY DEF Authorise
      <4> QED
        BY <4>1 DEF Start, RequestTypes, Working
    <3>2. Entitled(r)
      BY <1>2, <1>5, <2>2, <3>1, ErasureAssumption DEF Authorise, Entitled, Roles
    <3>3. subject.rows \subseteq TargetTenants(r, Context) /\ subject.rows \subseteq Tenants
      BY <1>2, <3>2 DEF TargetTenants, Entitled
    <3>4. todo'[r] = TargetTenants(r, Context)
      BY DEF Start, RequestTypes
    <3>5. \A t \in Councils : rows[t] = "pii" => t \in subject.rows
      BY ErasureAssumption DEF RowsAreKept, Status
    <3> QED
      BY <1>1, <2>2, <3>2, <3>3, <3>4, <3>5 DEF GoesOn, Entitled, processVars, dataVars
  <2> QED
    BY <2>1, <2>2
<1> QED
  BY <1>3, <1>4, <1>5 DEF RightfullyAdmitted

\* The steps of a request that is already admitted, or that fails.
LEMMA RequestErasedInv ==
  ASSUME ErasedInv, NEW r \in Requests,
         EraseStore(r) \/ CheckRow(r) \/ EraseRow(r) \/ DbFails(r) \/ Invalidate(r)
  PROVE  (FootprintIsTrue /\ RightfullyAdmitted /\ TrailIsEntitled)'
<1> USE DEF ErasedInv, TrailInv, TypeOK
<1> DEFINE t == First(todo[r])
<1>1. UNCHANGED subject /\ pc[r] \in Working /\ Entitled(r)
  BY DEF EraseStore, CheckRow, EraseRow, DbFails, Invalidate, processVars, Working,
         RightfullyAdmitted, GoesOn
<1>2. FootprintIsTrue'
  <2>1. CASE Invalidate(r)
    <3>1. subject.rows \subseteq Tenants
      BY ErasureAssumption DEF ProcessTypes
    <3> QED
      BY <1>1, <2>1, <3>1 DEF Invalidate, StartRefresh, FootprintIsTrue, CacheTypes
  <2>2. CASE ~ Invalidate(r)
    <3>1. UNCHANGED <<context, fills>>
      BY <2>2 DEF EraseStore, CheckRow, EraseRow, DbFails, cacheVars
    <3> QED
      BY <1>1, <3>1 DEF FootprintIsTrue
  <2> QED
    BY <2>1, <2>2
<1>3. TrailIsEntitled'
  <2>1. \A e \in trail' : e \in trail \/ e.by = r
    <3>1. CASE trail' = trail
      BY <3>1
    <3>2. CASE trail' = trail \cup {[by |-> r, at |-> "store"]}
      BY <3>2
    <3>3. CASE trail' = trail \cup {[by |-> r, at |-> t]}
      BY <3>3
    <3>4. CASE EraseStore(r)
      BY <3>1, <3>2, <3>4 DEF EraseStore
    <3>5. CASE EraseRow(r)
      BY <3>1, <3>3, <3>5 DEF EraseRow
    <3>6. CASE CheckRow(r) \/ DbFails(r) \/ Invalidate(r)
      BY <3>1, <3>6 DEF CheckRow, DbFails, Invalidate, dataVars
    <3> QED
      BY <3>4, <3>5, <3>6
  <2> QED
    BY <1>1, <2>1 DEF TrailIsEntitled, Entitled
<1>4. ASSUME NEW c \in Councils, rows'[c] = "pii"
      PROVE  rows[c] = "pii" /\ (BypassesRls /\ c \in todo[r] => c \in todo'[r])
  <2>1. CASE EraseStore(r)
    BY <1>4, <2>1 DEF EraseStore, NextTenant, dataVars, RequestTypes
  <2>2. CASE DbFails(r) \/ Invalidate(r)
    BY <1>4, <2>2 DEF DbFails, Invalidate, dataVars, RequestTypes
  <2>3. CASE CheckRow(r)
    <3>1. rows' = rows
      BY <2>3 DEF CheckRow, dataVars
    <3>2. todo'[r] = IF FindsDetails(First(todo[r])) THEN todo[r]
                     ELSE todo[r] \ {First(todo[r])}
      BY <2>3 DEF CheckRow, NextTenant, RequestTypes
    <3>3. c \in Tenants
      BY <1>4, <3>1, ErasureAssumption DEF RowsAreKept, ProcessTypes, Status
    <3> QED
      BY <1>4, <3>1, <3>2, <3>3 DEF FindsDetails
  <2>4. CASE EraseRow(r)
    BY <1>4, <2>4 DEF EraseRow, NextTenant, RequestTypes, DataTypes
  <2> QED
    BY <2>1, <2>2, <2>3, <2>4
<1>5. \A q \in Requests : q # r => pc'[q] = pc[q] /\ todo'[q] = todo[q]
  BY DEF EraseStore, CheckRow, EraseRow, DbFails, Invalidate, NextTenant, RequestTypes
<1>6. ASSUME NEW q \in Requests, pc'[q] \in Working \cup {"ok"}
      PROVE  GoesOn(q)'
  BY <1>1, <1>4, <1>5, <1>6, GoesOnFrame DEF RightfullyAdmitted, GoesOn
<1> QED
  BY <1>2, <1>3, <1>6 DEF RightfullyAdmitted

LEMMA OtherErasedInv ==
  ASSUME SeedsAgree, ErasedInv,
         \/ \E f \in Requests \cup Imports : RefreshTenant(f) \/ EndRefresh(f)
         \/ ContextStep \/ Restart
  PROVE  (FootprintIsTrue /\ RightfullyAdmitted /\ TrailIsEntitled)'
<1> USE DEF ErasedInv, TrailInv, TypeOK
<1>1. UNCHANGED <<subject, rows, trail, todo>>
  BY DEF RefreshTenant, EndRefresh, ContextStep, SyncRead, Import, Restart, processVars,
         dataVars, requestVars, vars
<1>2. subject.rows \subseteq Tenants /\ Context \cap Tenants = subject.rows
  BY ErasureAssumption DEF SeedsAgree, FootprintIsTrue, Context, ProcessTypes
<1>3. \A q \in Requests : pc'[q] \in Working \cup {"ok"} => pc[q] \in Working \cup {"ok"}
  <2>1. CASE Restart
    BY <2>1 DEF Restart, Working
  <2>2. CASE \E f \in Requests \cup Imports : EndRefresh(f)
    BY <2>2 DEF EndRefresh, RequestInv, RefreshIsAwaited, RequestTypes, Working
  <2>3. CASE \E f \in Requests \cup Imports : RefreshTenant(f)
    BY <2>3 DEF RefreshTenant, requestVars
  <2>4. CASE ContextStep
    BY <2>4 DEF ContextStep, SyncRead, Import, requestVars, vars
  <2> QED
    BY <2>1, <2>2, <2>3, <2>4
<1>4. RightfullyAdmitted' /\ TrailIsEntitled'
  BY <1>1, <1>3 DEF RightfullyAdmitted, GoesOn, TrailIsEntitled, Entitled
<1>5. FootprintIsTrue'
  <2>1. CASE Restart
    BY <2>1 DEF Restart, FootprintIsTrue
  <2>2. ASSUME NEW f \in Requests \cup Imports, RefreshTenant(f)
        PROVE  FootprintIsTrue'
    <3>1. PICK t \in fills[f].todo :
             fills' = [fills EXCEPT ![f] =
                [todo |-> @.todo \ {t},
                 found |-> IF rows[t] = None THEN @.found ELSE @.found \cup {t}]]
      BY <2>2 DEF RefreshTenant
    <3>2. t \in Councils /\ fills[f] # None
      BY <2>2 DEF RefreshTenant, CacheTypes
    <3>3. rows[t] # None <=> t \in subject.rows
      BY <3>2 DEF RowsAreKept
    <3>4. /\ fills'[f].found \subseteq subject.rows
          /\ subject.rows \subseteq fills'[f].todo \cup fills'[f].found
      BY <3>1, <3>2, <3>3 DEF FootprintIsTrue, CacheTypes
    <3>5. \A g \in Requests \cup Imports : g # f => fills'[g] = fills[g]
      BY <3>1 DEF CacheTypes
    <3> QED
      BY <1>1, <2>2, <3>4, <3>5 DEF FootprintIsTrue, RefreshTenant
  <2>3. ASSUME NEW f \in Requests \cup Imports, EndRefresh(f)
        PROVE  FootprintIsTrue'
    BY <1>1, <2>3 DEF FootprintIsTrue, EndRefresh, CacheTypes
  <2>4. CASE SyncRead
    BY <1>1, <1>2, <2>4 DEF FootprintIsTrue, SyncRead
  <2>5. ASSUME NEW f \in Imports, Import(f)
        PROVE  FootprintIsTrue'
    BY <1>1, <1>2, <2>5 DEF FootprintIsTrue, Import, StartRefresh, CacheTypes
  <2>6. ASSUME UNCHANGED <<context, fills>>
        PROVE  FootprintIsTrue'
    BY <1>1, <2>6 DEF FootprintIsTrue
  <2> QED
    BY <2>1, <2>2, <2>3, <2>4, <2>5, <2>6
       DEF ContextStep, cacheVars, vars
<1> QED
  BY <1>4, <1>5

LEMMA NextErasedInv ==
  ASSUME SeedsAgree
  PROVE  ErasedInv /\ [Next]_vars => ErasedInv'
<1> SUFFICES ASSUME ErasedInv, [Next]_vars PROVE ErasedInv'
  OBVIOUS
<1>1. TrailInv'
  BY NextTrailInv DEF ErasedInv
<1>2. (FootprintIsTrue /\ RightfullyAdmitted /\ TrailIsEntitled)'
  BY StartErasedInv, RequestErasedInv, OtherErasedInv DEF Next, ContextStep
<1> QED
  BY <1>1, <1>2 DEF ErasedInv

\* Once a request is answered ok, no row of any tenant has the subject's details, if
\* the check before each row is let see it.
THEOREM AnsweredIsErased ==
  ASSUME SeedsAgree, BypassesRls
  PROVE  Spec => []AnsweredMeansErased
<1>1. ErasedInv => AnsweredMeansErased
  BY DEF ErasedInv, TrailInv, RequestInv, RowsComeFirst, RightfullyAdmitted, GoesOn,
         AnsweredMeansErased
<1> QED
  BY <1>1, InitErasedInv, NextErasedInv, PTL DEF Spec

\* Whatever was erased, a platform administrator or the one council concerned
\* had it erased.
THEOREM SharedOwnersStayProtected ==
  ASSUME SeedsAgree
  PROVE  Spec => []SharedOwnersAreProtected
<1>1. ErasedInv => SharedOwnersAreProtected
  <2> SUFFICES ASSUME ErasedInv, NEW e \in trail, Session[e.by].role # "platform_admin"
               PROVE  /\ Session[e.by].role = "council_admin"
                      /\ {t \in Councils : rows[t] # None} \subseteq {Session[e.by].tenantId}
    BY DEF SharedOwnersAreProtected
  <2>1. Session[e.by].role = "council_admin" /\ subject.rows \subseteq {Session[e.by].tenantId}
    BY DEF ErasedInv, TrailIsEntitled, Entitled
  <2>2. subject.rows \subseteq Councils
    BY ErasureAssumption DEF ErasedInv, TrailInv, TypeOK, ProcessTypes
  <2>3. {t \in Councils : rows[t] # None} = subject.rows
    BY <2>2 DEF ErasedInv, TrailInv, RowsAreKept
  <2> QED
    BY <2>1, <2>3
<1> QED
  BY <1>1, InitErasedInv, NextErasedInv, PTL DEF Spec

-----------------------------------------------------------------------------
(* The recovery list. *)

\* What is read for a tenant is its own, and what is cached has an identity.
OfTheTenant(ctx) ==
    /\ "properties" \in DOMAIN ctx
    /\ \A p \in ctx.properties : p.council = Council
IsCached(c) == c.id \in 1 .. contexts /\ c.ts \in 0 .. now

\* A sweep under the identity of a context is one of that context.
SweptFrom(sweep, c) ==
    sweep.id = c.id =>
        /\ sweep.ts = c.ts
        /\ \A r \in sweep.result.candidates \cup sweep.result.overtaxedCandidates :
              \E p \in c.ctx.properties : p.assessmentNumber = r.assessmentNumber

ReadingInv ==
    \A o \in Officers : building[o] # Null /\ "ctx" \in DOMAIN building[o]
                            => OfTheTenant(building[o].ctx)
CachesInv ==
    /\ tenantCtx # Null => IsCached(tenantCtx) /\ OfTheTenant(tenantCtx.ctx)
    /\ globalCtx # Null => IsCached(globalCtx)
    /\ tenantCtx # Null /\ globalCtx # Null => tenantCtx.id # globalCtx.id
MemoOK ==
    memo # Null =>
        /\ memo.id \in 1 .. contexts /\ memo.ts \in Nat /\ memo.sweptAt \in memo.ts .. now
        /\ tenantCtx # Null => SweptFrom(memo, tenantCtx)

ListInv ==
    /\ now \in Nat /\ contexts \in Nat
    /\ building \in [Officers -> {building[o] : o \in Officers}]
    /\ ReadingInv /\ CachesInv /\ MemoOK
    /\ OfficersListsAreRecent

LEMMA ListStart == SweepInit => ListInv
BY DEF SweepInit, ListInv, ReadingInv, CachesInv, MemoOK, OfficersListsAreRecent

\* A sweep lists properties of the context it is given.
LEMMA SweepsList ==
  ASSUME NEW ctx, "properties" \in DOMAIN ctx, NEW n, NEW sweep,
         sweep = FindMismatchesWithOvertax([ctx EXCEPT !.now = n])
  PROVE  \A r \in sweep.candidates \cup sweep.overtaxedCandidates :
            \E p \in ctx.properties : p.assessmentNumber = r.assessmentNumber
<1> DEFINE swept == [ctx EXCEPT !.now = n]
           all == {CandidateOf(p, swept) :
                      p \in {q \in swept.properties : /\ q.state = TargetStateScope
                                                      /\ EvaluateSignals(q, swept) # << >>}}
<1>1. swept.properties = ctx.properties
  OBVIOUS
<1>2. sweep = [candidates |-> {c \in all : c.estUplift > 0},
               overtaxedCandidates |-> {c \in all : c.estUplift < 0}]
  BY DEF FindMismatchesWithOvertax, Split
<1>3. \A r \in all : \E p \in ctx.properties : p.assessmentNumber = r.assessmentNumber
  <2> HIDE DEF swept
  <2>1. \A p \in swept.properties : CandidateOf(p, swept).assessmentNumber = p.assessmentNumber
    BY DEF CandidateOf
  <2> QED
    BY <1>1, <2>1
<1> HIDE DEF all
<1> QED
  BY <1>2, <1>3

\* What reads for a tenant read.
LEMMA ReadsAreOwn ==
  ASSUME NEW candidates
  PROVE  OfTheTenant(TenantContext(candidates))
BY DEF OfTheTenant, TenantContext, ContextOf, OwnRows

\* What the route answers, from the officer's own context.
LEMMA ServesTheTenant ==
  ASSUME now \in Nat, NEW o \in Officers, NEW CONSTANT cached, NEW CONSTANT last \in Nat,
         cached.id \in 1 .. last, cached.ts \in 0 .. now, now - cached.ts < TtlTicks,
         OfTheTenant(cached.ctx), Serve(o, cached),
         memo # Null => /\ memo.ts \in Nat /\ memo.sweptAt \in memo.ts .. now
                        /\ SweptFrom(memo, cached)
  PROVE  /\ memo'.id \in 1 .. last /\ memo'.ts \in Nat /\ memo'.sweptAt \in memo'.ts .. now
         /\ SweptFrom(memo', cached)
         /\ served'.sweep.id = cached.id
         /\ served'.at - served'.sweep.ts < TtlTicks
         /\ served'.sweep.sweptAt \in served'.sweep.ts .. served'.at
         /\ \A c \in served'.sweep.result.candidates \cup served'.sweep.result.overtaxedCandidates :
               \E p \in cached.ctx.properties :
                  p.assessmentNumber = c.assessmentNumber /\ p.council = Council
<1> DEFINE result == FindMismatchesWithOvertax([cached.ctx EXCEPT !.now = now])
           swept == IF MemoHolds(cached) THEN memo
                    ELSE [id |-> cached.id, ts |-> cached.ts, sweptAt |-> now, result |-> result]
<1>1. memo' = swept /\ served' = [by |-> o, at |-> now, sweep |-> swept]
  BY DEF Serve
<1>2. \A r \in result.candidates \cup result.overtaxedCandidates :
         \E p \in cached.ctx.properties : p.assessmentNumber = r.assessmentNumber
  BY SweepsList DEF OfTheTenant
<1> HIDE DEF result
<1>3. /\ swept.id = cached.id /\ swept.ts = cached.ts /\ swept.sweptAt \in swept.ts .. now
      /\ \A r \in swept.result.candidates \cup swept.result.overtaxedCandidates :
            \E p \in cached.ctx.properties : p.assessmentNumber = r.assessmentNumber
  <2>1. CASE MemoHolds(cached)
    BY <2>1 DEF MemoHolds, SweptFrom
  <2>2. CASE ~MemoHolds(cached)
    BY <1>2, <2>2
  <2> QED
    BY <2>1, <2>2
<1> HIDE DEF swept
<1> QED
  BY <1>1, <1>3 DEF SweptFrom, OfTheTenant

\* A read between its awaits, of the officer's own tenant.
LEMMA ReadingKeepsLists ==
  ASSUME ListInv, NEW o \in Officers, ListMiss(o) \/ ListRead(o) \/ ListFails(o)
  PROVE  ListInv'
<1>1. /\ UNCHANGED <<now, tenantCtx, globalCtx, contexts, memo, served>>
      /\ \E read : /\ building' = [building EXCEPT ![o] = read]
                   /\ read # Null /\ "ctx" \in DOMAIN read => OfTheTenant(read.ctx)
  <2>1. CASE ListMiss(o)
    <3>1. PICK answer : building' = [building EXCEPT ![o] = [candidates |-> answer]]
      BY <2>1 DEF ListMiss
    <3> DEFINE read == [candidates |-> answer]
    <3>2. "ctx" \notin DOMAIN read
      OBVIOUS
    <3>3. UNCHANGED <<now, tenantCtx, globalCtx, contexts, memo, served>>
      BY <2>1 DEF ListMiss, listVars, globalVars
    <3> HIDE DEF read
    <3>4. building' = [building EXCEPT ![o] = read]
      BY <3>1 DEF read
    <3> QED
      BY <3>2, <3>3, <3>4
  <2>2. CASE ListRead(o)
    <3>1. PICK read : /\ read = ReadNow(TenantContext(building[o].candidates))
                      /\ building' = [building EXCEPT ![o] = read]
      BY <2>2 DEF ListRead, ListInv
    <3>2. read.ctx = TenantContext(building[o].candidates)
      BY <3>1 DEF ReadNow
    <3>3. UNCHANGED <<now, tenantCtx, globalCtx, contexts, memo, served>>
      BY <2>2 DEF ListRead, listVars, globalVars
    <3>4. OfTheTenant(read.ctx)
      BY <3>2, ReadsAreOwn
    <3> QED
      BY <3>1, <3>3, <3>4
  <2>3. CASE ListFails(o)
    BY <2>3 DEF ListFails, listVars, globalVars
  <2> QED
    BY <2>1, <2>2, <2>3
<1>2. PICK read : /\ building' = [building EXCEPT ![o] = read]
                  /\ read # Null /\ "ctx" \in DOMAIN read => OfTheTenant(read.ctx)
  BY <1>1
<1>3. building' \in [Officers -> {building'[u] : u \in Officers}]
  BY <1>2 DEF ListInv
<1>4. ReadingInv'
  BY <1>2 DEF ListInv, ReadingInv
<1> QED
  BY <1>1, <1>3, <1>4 DEF ListInv, CachesInv, MemoOK, IsCached, SweptFrom, OfficersListsAreRecent,
     Listed

LEMMA ListHitKeepsLists ==
  ASSUME ListInv, NEW o \in Officers, ListHit(o)
  PROVE  ListInv'
<1>1. /\ tenantCtx # Null /\ now - tenantCtx.ts < TtlTicks /\ Serve(o, tenantCtx)
      /\ UNCHANGED <<now, building, tenantCtx, globalCtx, contexts>>
  BY DEF ListHit, Valid, tenantVars, globalVars
<1>2. PICK cached : cached = tenantCtx
  OBVIOUS
<1>3. PICK last : last = contexts
  OBVIOUS
<1>4. /\ memo'.id \in 1 .. last /\ memo'.ts \in Nat /\ memo'.sweptAt \in memo'.ts .. now
      /\ SweptFrom(memo', cached)
      /\ served'.sweep.id = cached.id
      /\ served'.at - served'.sweep.ts < TtlTicks
      /\ served'.sweep.sweptAt \in served'.sweep.ts .. served'.at
      /\ \A c \in served'.sweep.result.candidates \cup served'.sweep.result.overtaxedCandidates :
            \E p \in cached.ctx.properties :
               p.assessmentNumber = c.assessmentNumber /\ p.council = Council
  BY <1>1, <1>2, <1>3, ServesTheTenant DEF ListInv, CachesInv, MemoOK, IsCached
<1>5. MemoOK'
  BY <1>1, <1>2, <1>3, <1>4 DEF MemoOK, SweptFrom
<1>6. OfficersListsAreRecent'
  BY <1>1, <1>2, <1>4 DEF OfficersListsAreRecent, Listed
<1> QED
  BY <1>1, <1>5, <1>6 DEF ListInv, ReadingInv, CachesInv, IsCached

LEMMA ListBuiltKeepsLists ==
  ASSUME ListInv, NEW o \in Officers, ListBuilt(o)
  PROVE  ListInv'
<1>1. /\ building[o] # Null /\ "ctx" \in DOMAIN building[o]
      /\ contexts' = contexts + 1
      /\ tenantCtx' = NewContext(building[o]) /\ Serve(o, tenantCtx')
      /\ building' = [building EXCEPT ![o] = Null]
      /\ UNCHANGED <<now, globalCtx>>
  BY DEF ListBuilt, globalVars
<1>2. PICK cached : cached = NewContext(building[o])
  OBVIOUS
<1>3. /\ cached.id = contexts + 1 /\ cached.ts = now /\ cached.ctx = building[o].ctx
  BY <1>2 DEF NewContext
<1>4. PICK last : last = contexts + 1
  OBVIOUS
<1>5. /\ cached.id \in 1 .. last /\ cached.ts \in 0 .. now /\ now - cached.ts < TtlTicks
      /\ OfTheTenant(cached.ctx) /\ last \in Nat /\ now \in Nat
  BY <1>1, <1>3, <1>4, SweepAssumption DEF ListInv, ReadingInv
<1>6. memo # Null => /\ memo.ts \in Nat /\ memo.sweptAt \in memo.ts .. now
                     /\ SweptFrom(memo, cached)
  BY <1>3 DEF ListInv, MemoOK, SweptFrom
<1>7. Serve(o, cached)
  BY <1>1, <1>2 DEF Serve, MemoHolds
<1>8. /\ memo'.id \in 1 .. last /\ memo'.ts \in Nat /\ memo'.sweptAt \in memo'.ts .. now
      /\ SweptFrom(memo', cached)
      /\ served'.sweep.id = cached.id
      /\ served'.at - served'.sweep.ts < TtlTicks
      /\ served'.sweep.sweptAt \in served'.sweep.ts .. served'.at
      /\ \A c \in served'.sweep.result.candidates \cup served'.sweep.result.overtaxedCandidates :
            \E p \in cached.ctx.properties :
               p.assessmentNumber = c.assessmentNumber /\ p.council = Council
  BY <1>5, <1>6, <1>7, ServesTheTenant
<1>9. MemoOK'
  BY <1>1, <1>2, <1>4, <1>8 DEF MemoOK, SweptFrom
<1>10. OfficersListsAreRecent'
  BY <1>1, <1>2, <1>8 DEF OfficersListsAreRecent, Listed
<1>11. CachesInv'
  BY <1>1, <1>2, <1>3, <1>5 DEF ListInv, CachesInv, IsCached
<1>12. ReadingInv' /\ building' \in [Officers -> {building'[u] : u \in Officers}]
  BY <1>1 DEF ListInv, ReadingInv
<1> QED
  BY <1>1, <1>9, <1>10, <1>11, <1>12 DEF ListInv

\* The admin's sweep is of a context that no officer's list is from.
LEMMA AdminListKeepsLists ==
  ASSUME ListInv, AdminList
  PROVE  ListInv'
<1> DEFINE fresh == NewContext(ReadNow(ContextOf(Bundled.properties, Bundled.tenements)))
<1>1. PICK cached : cached = IF globalCtx = Null THEN fresh ELSE globalCtx
  OBVIOUS
<1>2. /\ contexts' = IF globalCtx = Null THEN contexts + 1 ELSE contexts
      /\ globalCtx' = cached /\ Serve("platform_admin", cached)
      /\ UNCHANGED <<now, building, tenantCtx>>
  BY <1>1 DEF AdminList, tenantVars
<1>3. fresh.id = contexts + 1 /\ fresh.ts = now
  BY DEF NewContext
<1> HIDE DEF fresh
<1>4. /\ cached.id \in 1 .. contexts' /\ cached.ts \in 0 .. now
      /\ tenantCtx # Null => cached.id # tenantCtx.id
  BY <1>1, <1>2, <1>3 DEF ListInv, CachesInv, IsCached
<1>5. CachesInv'
  BY <1>2, <1>4 DEF ListInv, CachesInv, IsCached
<1>6. /\ memo' = IF MemoHolds(cached) THEN memo
                 ELSE [id |-> cached.id, ts |-> cached.ts, sweptAt |-> now,
                       result |-> FindMismatchesWithOvertax([cached.ctx EXCEPT !.now = now])]
      /\ served'.by = "platform_admin"
  BY <1>2 DEF Serve
<1>7. MemoOK'
  <2>1. CASE MemoHolds(cached)
    BY <1>2, <1>6, <2>1 DEF MemoHolds, ListInv, MemoOK, SweptFrom
  <2>2. CASE ~MemoHolds(cached)
    <3>1. memo'.id = cached.id /\ memo'.ts = cached.ts /\ memo'.sweptAt = now
      BY <1>6, <2>2
    <3> QED
      BY <1>2, <1>4, <3>1 DEF ListInv, MemoOK, SweptFrom
  <2> QED
    BY <2>1, <2>2
<1>8. OfficersListsAreRecent'
  BY <1>6, SweepAssumption DEF OfficersListsAreRecent
<1> QED
  BY <1>2, <1>4, <1>5, <1>7, <1>8 DEF ListInv, ReadingInv

LEMMA ListStep == ListInv /\ [SweepNext]_sweepVars => ListInv'
<1> SUFFICES ASSUME ListInv, [SweepNext]_sweepVars PROVE ListInv'
  OBVIOUS
<1>1. ASSUME UNCHANGED <<building, tenantCtx, globalCtx, contexts, memo, served>>,
             now' \in Nat, now' >= now
      PROVE  ListInv'
  BY <1>1 DEF ListInv, ReadingInv, CachesInv, MemoOK, IsCached, SweptFrom,
     OfficersListsAreRecent, Listed
<1>2. CASE Tick \/ RollChanges \/ RegisterChanges \/ UNCHANGED sweepVars
  BY <1>1, <1>2 DEF Tick, RollChanges, RegisterChanges, sweepVars, tenantVars, globalVars,
     listVars, ListInv
<1>3. ASSUME UNCHANGED <<now, building, tenantCtx, memo, served>>,
             contexts' \in {contexts, contexts + 1}, CachesInv'
      PROVE  ListInv'
  BY <1>3 DEF ListInv, ReadingInv, MemoOK, SweptFrom, OfficersListsAreRecent, Listed
<1>4. CASE InvalidateEvaluationContext
  <2>1. CachesInv' /\ contexts' = contexts /\ UNCHANGED <<now, building, tenantCtx, memo, served>>
    BY <1>4 DEF InvalidateEvaluationContext, tenantVars, listVars, ListInv, CachesInv, IsCached
  <2> QED
    BY <1>3, <2>1
<1>5. CASE RefreshEnds
  <2> DEFINE new == NewContext(ReadNow(ContextOf(Rows, register)))
  <2>1. /\ UNCHANGED <<now, building, tenantCtx, memo, served>>
        /\ \/ contexts' = contexts + 1 /\ globalCtx' = new
           \/ UNCHANGED <<globalCtx, contexts>>
    BY <1>5 DEF RefreshEnds, tenantVars, listVars
  <2>2. new.id = contexts + 1 /\ new.ts = now
    BY DEF NewContext
  <2> HIDE DEF new
  <2>3. CachesInv'
    BY <2>1, <2>2 DEF ListInv, CachesInv, IsCached
  <2> QED
    BY <1>3, <2>1, <2>3
<1>6. CASE AdminList
  BY <1>6, AdminListKeepsLists
<1>7. CASE \E o \in Officers : ListHit(o) \/ ListMiss(o) \/ ListRead(o) \/ ListBuilt(o) \/ ListFails(o)
  BY <1>7, ListHitKeepsLists, ReadingKeepsLists, ListBuiltKeepsLists
<1> QED
  BY <1>2, <1>4, <1>5, <1>6, <1>7 DEF SweepNext

(***************************************************************************)
(* Whichever reads of officers and admins alternate over the one memo, and *)
(* whichever of two builds ends last, an officer's list is a sweep of the  *)
(* context cached for the tenant, no older than the TTL, with no row of    *)
(* another tenant (findMismatchesCached, getEvaluationContextForTenant).   *)
(***************************************************************************)
THEOREM ListsAreRecent == SweepSpec => []OfficersListsAreRecent
<1>1. ListInv => OfficersListsAreRecent
  BY DEF ListInv
<1> QED
  BY <1>1, ListStart, ListStep, PTL DEF SweepSpec

-----------------------------------------------------------------------------
(* Recursions over the subsets of a finite set. *)

\* The naturals are what a set with zero and all successors holds.
LEMMA Counting ==
  ASSUME NEW G, 0 \in G, \A n \in Nat : n \in G => n + 1 \in G
  PROVE  Nat \subseteq G
<1> DEFINE B == Nat \ G
<1> SUFFICES ASSUME B # {} PROVE FALSE
  OBVIOUS
<1>1. IsWellFoundedOn(OpToRel(<, Nat), Nat)
  BY NatLessThanWellFounded
<1>2. B \subseteq Nat
  OBVIOUS
<1> HIDE DEF B
<1>3. PICK x \in B : \A y \in B : ~ (<<y, x>> \in OpToRel(<, Nat))
  <2> HIDE DEF OpToRel
  <2> QED
    BY <1>1, <1>2, WFMin
<1>4. x \in Nat /\ x # 0 /\ x \notin G
  BY DEF B
<1>5. x - 1 \in Nat /\ x - 1 < x
  BY <1>4
<1>6. x - 1 \notin B
  BY <1>3, <1>4, <1>5 DEF OpToRel
<1>7. x - 1 \in G
  BY <1>5, <1>6 DEF B
<1>8. (x - 1) + 1 \in G
  BY <1>5, <1>7
<1> QED
  BY <1>4, <1>8

\* A set of sets that grows by one element holds every finite set.
LEMMA SetInduction ==
  ASSUME NEW T, IsFiniteSet(T), NEW G, {} \in G,
         \A s \in SUBSET T : s # {} /\ (\A x \in s : s \ {x} \in G) => s \in G
  PROVE  \A s \in SUBSET T : s \in G
<1> DEFINE H == {n \in Nat : \A s \in SUBSET T : Cardinality(s) = n => s \in G}
<1>1. \A s \in SUBSET T : /\ IsFiniteSet(s) /\ Cardinality(s) \in Nat
                          /\ Cardinality(s) = 0 <=> s = {}
  BY FS_Subset, FS_CardinalityType, FS_EmptySet
<1>2. \A s \in SUBSET T : \A x \in s : s \ {x} \in SUBSET T
                                       /\ Cardinality(s \ {x}) = Cardinality(s) - 1
  BY <1>1, FS_RemoveElement
<1>3. 0 \in H
  BY <1>1
<1>4. ASSUME NEW n \in Nat, n \in H
      PROVE  n + 1 \in H
  <2> SUFFICES ASSUME NEW s \in SUBSET T, Cardinality(s) = n + 1
               PROVE  s \in G
    OBVIOUS
  <2>1. s # {}
    BY <1>1
  <2>2. ASSUME NEW x \in s
        PROVE  s \ {x} \in G
    BY <1>2, <1>4
  <2> QED
    BY <2>1, <2>2
<1> HIDE DEF H
<1>5. Nat \subseteq H
  BY <1>3, <1>4, Counting
<1> QED
  BY <1>1, <1>5 DEF H

\* What a recursion over the subsets of T picks, and does with what it picks.
Picks(T, pick) == \A s \in SUBSET T : s # {} => pick[s] \in s
Steps(T, X, step) == \A t \in T : \A x \in X : step[<<t, x>>] \in X
Recursion(T, base, pick, step, it) ==
    \A s \in SUBSET T :
        it[s] = IF s = {} THEN base ELSE step[<<pick[s], it[s \ {pick[s]}]>>]

\* A recursion that takes one element off a finite set at a time has a value.
LEMMA SetRecursion ==
  ASSUME NEW T, IsFiniteSet(T), NEW X, NEW base \in X,
         NEW pick, Picks(T, pick), NEW step, Steps(T, X, step)
  PROVE  \E it \in [SUBSET T -> X] : Recursion(T, base, pick, step, it)
<1> USE DEF Picks, Steps, Recursion
<1> DEFINE Upto(n) == {s \in SUBSET T : Cardinality(s) <= n}
           Good(it, n) == \A s \in Upto(n) :
              it[s] = IF s = {} THEN base ELSE step[<<pick[s], it[s \ {pick[s]}]>>]
           G == {n \in Nat : \E it \in [Upto(n) -> X] : Good(it, n)}
<1>1. \A s \in SUBSET T : /\ IsFiniteSet(s) /\ Cardinality(s) \in Nat
                          /\ Cardinality(s) <= Cardinality(T)
                          /\ Cardinality(s) = 0 <=> s = {}
  BY FS_Subset, FS_CardinalityType, FS_EmptySet
<1>2. \A s \in SUBSET T : s # {} => Cardinality(s \ {pick[s]}) = Cardinality(s) - 1
  BY <1>1, FS_RemoveElement
<1>3. 0 \in G
  <2> DEFINE z == [s \in Upto(0) |-> base]
  <2>1. \A s \in Upto(0) : s = {}
    BY <1>1
  <2>2. z \in [Upto(0) -> X] /\ Good(z, 0)
    BY <2>1
  <2> HIDE DEF z, Good, Upto
  <2> QED
    BY <2>2
<1>4. ASSUME NEW n \in Nat, n \in G
      PROVE  n + 1 \in G
  <2>1. PICK it \in [Upto(n) -> X] : Good(it, n)
    BY <1>4
  <2> DEFINE v(s) == IF Cardinality(s) <= n THEN it[s]
                     ELSE step[<<pick[s], it[s \ {pick[s]}]>>]
             nxt == [s \in Upto(n + 1) |-> v(s)]
  <2>2. \A s \in Upto(n + 1) : s # {} => s \ {pick[s]} \in Upto(n)
    BY <1>1, <1>2
  <2>3. \A s \in Upto(n + 1) : Cardinality(s) <= n => s \in Upto(n)
    OBVIOUS
  <2>4. \A s \in Upto(n) : s \in Upto(n + 1) /\ Cardinality(s) <= n
    BY <1>1
  <2>5. ASSUME NEW s \in Upto(n + 1)
        PROVE  v(s) \in X
    <3>1. CASE Cardinality(s) <= n
      BY <3>1, <2>3
    <3>2. CASE ~ (Cardinality(s) <= n)
      <4>1. s # {} /\ s \in SUBSET T
        BY <3>2, <1>1
      <4>2. it[s \ {pick[s]}] \in X /\ pick[s] \in T
        BY <4>1, <2>2
      <4> QED
        BY <3>2, <4>2
    <3> QED
      BY <3>1, <3>2
  <2>6. nxt \in [Upto(n + 1) -> X]
    BY <2>5
  <2>7. ASSUME NEW s \in Upto(n + 1)
        PROVE  nxt[s] = IF s = {} THEN base ELSE step[<<pick[s], nxt[s \ {pick[s]}]>>]
    <3>1. nxt[s] = v(s)
      OBVIOUS
    <3>2. CASE s = {}
      <4>1. s \in Upto(n)
        BY <3>2, <1>1
      <4>2. v(s) = it[s]
        BY <4>1, <2>4
      <4>3. it[s] = base
        BY <4>1, <3>2, <2>1
      <4> QED
        BY <3>1, <3>2, <4>2, <4>3
    <3>3. CASE s # {}
      <4> DEFINE r == s \ {pick[s]}
      <4>1. r \in Upto(n)
        BY <3>3, <2>2
      <4>2. r \in Upto(n + 1) /\ Cardinality(r) <= n
        BY <4>1, <2>4
      <4>3. nxt[r] = it[r]
        BY <4>2
      <4>4. v(s) = step[<<pick[s], it[r]>>]
        <5>1. CASE Cardinality(s) <= n
          BY <5>1, <3>3, <2>1, <2>3
        <5>2. CASE ~ (Cardinality(s) <= n)
          BY <5>2
        <5> QED
          BY <5>1, <5>2
      <4> QED
        BY <3>1, <3>3, <4>3, <4>4
    <3> QED
      BY <3>2, <3>3
  <2> HIDE DEF nxt, Upto
  <2>8. Good(nxt, n + 1)
    BY <2>7
  <2> HIDE DEF Good
  <2> QED
    BY <2>6, <2>8
<1> HIDE DEF G
<1>5. Cardinality(T) \in G
  BY <1>1, <1>3, <1>4, Counting, FS_CardinalityType
<1> USE DEF G
<1>6. PICK it \in [Upto(Cardinality(T)) -> X] : Good(it, Cardinality(T))
  BY <1>5
<1>7. Upto(Cardinality(T)) = SUBSET T
  BY <1>1
<1> QED
  BY <1>6, <1>7

-----------------------------------------------------------------------------
(* Sums. *)

\* The sums of w over the subsets of T, whichever element is added last.
AddsUp(T, w, sum) ==
    /\ sum[{}] = 0
    /\ \A s \in SUBSET T : sum[s] \in Int /\ \A x \in s : sum[s] = w[x] + sum[s \ {x}]

\* A sum does not depend on the order of its terms.
LEMMA OrderOfTerms ==
  ASSUME NEW T, IsFiniteSet(T), NEW w \in [T -> Int], NEW pick, Picks(T, pick), NEW sum,
         \A s \in SUBSET T : sum[s] = IF s = {} THEN 0 ELSE w[pick[s]] + sum[s \ {pick[s]}]
  PROVE  AddsUp(T, w, sum)
<1>1. \A s \in SUBSET T : sum[s] \in Int
  <2> DEFINE G == {s \in SUBSET T : sum[s] \in Int}
  <2>1. {} \in G
    OBVIOUS
  <2>2. ASSUME NEW s \in SUBSET T, s # {}, \A x \in s : s \ {x} \in G
        PROVE  s \in G
    <3>1. pick[s] \in s /\ s \ {pick[s]} \in G
      BY <2>2 DEF Picks
    <3>2. sum[s] = w[pick[s]] + sum[s \ {pick[s]}]
      BY <2>2
    <3> QED
      BY <3>1, <3>2
  <2> HIDE DEF G
  <2>3. \A s \in SUBSET T : s \in G
    BY <2>1, <2>2, SetInduction
  <2> QED
    BY <2>3 DEF G
<1> DEFINE G == {s \in SUBSET T : \A x \in s : sum[s] = w[x] + sum[s \ {x}]}
<1>2. {} \in G
  OBVIOUS
<1>3. ASSUME NEW s \in SUBSET T, s # {}, \A x \in s : s \ {x} \in G
      PROVE  s \in G
  <2> DEFINE p == pick[s]
  <2>1. p \in s /\ sum[s] = w[p] + sum[s \ {p}]
    BY <1>3 DEF Picks
  <2>2. ASSUME NEW x \in s, x # p
        PROVE  sum[s] = w[x] + sum[s \ {x}]
    <3>1. (s \ {p}) \ {x} = (s \ {x}) \ {p} /\ (s \ {p}) \ {x} \in SUBSET T
      OBVIOUS
    <3>2. sum[s \ {p}] = w[x] + sum[(s \ {p}) \ {x}]
      BY <1>3, <2>1, <2>2
    <3>3. sum[s \ {x}] = w[p] + sum[(s \ {x}) \ {p}]
      BY <1>3, <2>1, <2>2
    <3>4. w[x] \in Int /\ w[p] \in Int /\ sum[(s \ {p}) \ {x}] \in Int
      BY <1>1, <2>1, <3>1
    <3> DEFINE c == sum[(s \ {p}) \ {x}]
    <3>5. sum[s] = w[p] + (w[x] + c) /\ sum[s \ {x}] = w[p] + c
      BY <2>1, <3>1, <3>2, <3>3
    <3> HIDE DEF c
    <3> QED
      BY <3>4, <3>5 DEF c
  <2> QED
    BY <2>1, <2>2
<1> HIDE DEF G
<1>4. \A s \in SUBSET T : s \in G
  BY <1>2, <1>3, SetInduction
<1> QED
  BY <1>1, <1>4 DEF AddsUp, G

\* SumFunction adds up.
LEMMA SumOfAFunction ==
  ASSUME NEW T, IsFiniteSet(T), NEW w \in [T -> Int]
  PROVE  \E sum : AddsUp(T, w, sum) /\ SumFunction(w) = sum[T]
<1> DEFINE Eq(it) == it = [s \in SUBSET T |->
                             IF s = {} THEN 0
                             ELSE w[CHOOSE x \in s : TRUE] + it[s \ {CHOOSE x \in s : TRUE}]]
           iter == CHOOSE it : Eq(it)
           pick == [s \in SUBSET T |-> CHOOSE x \in s : TRUE]
           step == [tx \in T \X Int |-> w[tx[1]] + tx[2]]
<1>1. SumFunction(w) = iter[T]
  BY Zenon DEF SumFunction, SumFunctionOnSet, FoldFunctionOnSet, MapThenFoldSet
<1>2. Picks(T, pick)
  BY DEF Picks
<1>3. \A s \in SUBSET T : pick[s] = CHOOSE x \in s : TRUE
  OBVIOUS
<1>4. \A t \in T : \A x \in Int : step[<<t, x>>] = w[t] + x /\ step[<<t, x>>] \in Int
  OBVIOUS
<1> HIDE DEF pick, step
<1>5. Steps(T, Int, step)
  BY <1>4 DEF Steps
<1>6. PICK it \in [SUBSET T -> Int] : Recursion(T, 0, pick, step, it)
  <2>1. 0 \in Int
    OBVIOUS
  <2> QED
    BY <1>2, <1>5, <2>1, SetRecursion
<1>7. \A s \in SUBSET T : it[s] = IF s = {} THEN 0 ELSE w[pick[s]] + it[s \ {pick[s]}]
  BY <1>2, <1>4, <1>6 DEF Recursion, Picks
<1>8. Eq(iter)
  <2>1. Eq(it)
    BY <1>3, <1>7
  <2> HIDE DEF Eq
  <2> QED
    BY <2>1
<1> HIDE DEF iter
<1> DEFINE E(s) == IF s = {} THEN 0 ELSE w[pick[s]] + iter[s \ {pick[s]}]
<1>9. \A s \in SUBSET T : iter[s] = E(s)
  <2>1. iter = [s \in SUBSET T |-> E(s)]
    BY <1>3, <1>8
  <2> HIDE DEF E
  <2> QED
    BY <2>1
<1>10. AddsUp(T, w, iter)
  BY <1>2, <1>9, OrderOfTerms
<1> QED
  BY <1>1, <1>10

\* Renaming the terms of a sum does not change it.
LEMMA RenamedTerms ==
  ASSUME NEW T, IsFiniteSet(T), NEW w \in [T -> Int], NEW U, NEW v \in [U -> Int],
         NEW f \in [T -> U], \A x, y \in T : f[x] = f[y] => x = y,
         \A u \in U : \E x \in T : f[x] = u,
         \A x \in T : w[x] = v[f[x]]
  PROVE  SumFunction(w) = SumFunction(v)
<1> DEFINE Of(s) == {f[x] : x \in s}
<1>1. Of(T) = U
  OBVIOUS
<1>2. IsFiniteSet(U)
  <2>1. f \in Surjection(T, U)
    BY DEF Surjection
  <2> QED
    BY <2>1, FS_Surjection
<1>3. PICK a : AddsUp(T, w, a) /\ SumFunction(w) = a[T]
  BY SumOfAFunction
<1>4. PICK b : AddsUp(U, v, b) /\ SumFunction(v) = b[U]
  BY <1>2, SumOfAFunction
<1> DEFINE G == {s \in SUBSET T : a[s] = b[Of(s)]}
<1>5. {} \in G
  <2>1. Of({}) = {}
    OBVIOUS
  <2> HIDE DEF Of
  <2> QED
    BY <1>3, <1>4, <2>1 DEF AddsUp
<1>6. ASSUME NEW s \in SUBSET T, s # {}, \A x \in s : s \ {x} \in G
      PROVE  s \in G
  <2>1. PICK x \in s : TRUE
    BY <1>6
  <2>2. Of(s \ {x}) = Of(s) \ {f[x]} /\ f[x] \in Of(s) /\ Of(s) \in SUBSET U
    OBVIOUS
  <2> HIDE DEF Of
  <2>3. a[s] = w[x] + a[s \ {x}] /\ b[Of(s)] = v[f[x]] + b[Of(s) \ {f[x]}]
    <3>1. a[s] = w[x] + a[s \ {x}]
      BY <1>3, <2>1 DEF AddsUp
    <3>2. b[Of(s)] = v[f[x]] + b[Of(s) \ {f[x]}]
      BY <1>4, <2>2 DEF AddsUp
    <3> QED
      BY <3>1, <3>2
  <2>4. a[s \ {x}] = b[Of(s \ {x})]
    BY <1>6
  <2> QED
    BY <2>2, <2>3, <2>4
<1> HIDE DEF G
<1>7. \A s \in SUBSET T : s \in G
  BY <1>5, <1>6, SetInduction
<1> QED
  BY <1>1, <1>3, <1>4, <1>7 DEF G

\* A sum of terms that are within a multiple and a slack is within them, too.
LEMMA SumsCompare ==
  ASSUME NEW T, IsFiniteSet(T), NEW w \in [T -> Int], NEW v \in [T -> Int],
         NEW k \in Nat, NEW e \in Nat,
         \A x \in T : v[x] >= 0 /\ 2 * v[x] <= 2 * (k * w[x]) + e
  PROVE  /\ SumFunction(w) \in Int /\ SumFunction(v) \in Int /\ Cardinality(T) \in Nat
         /\ SumFunction(v) >= 0
         /\ 2 * SumFunction(v) <= 2 * (k * SumFunction(w)) + Cardinality(T) * e
<1>1. PICK a : AddsUp(T, w, a) /\ SumFunction(w) = a[T]
  BY SumOfAFunction
<1>2. PICK b : AddsUp(T, v, b) /\ SumFunction(v) = b[T]
  BY SumOfAFunction
<1> DEFINE Good(s) == b[s] >= 0 /\ 2 * b[s] <= 2 * (k * a[s]) + Cardinality(s) * e
           G == {s \in SUBSET T : Good(s)}
<1>3. \A s \in SUBSET T : a[s] \in Int /\ b[s] \in Int
  BY <1>1, <1>2 DEF AddsUp
<1>4. \A s \in SUBSET T : Cardinality(s) \in Nat
                          /\ \A x \in s : Cardinality(s \ {x}) = Cardinality(s) - 1
  BY FS_Subset, FS_CardinalityType, FS_RemoveElement
<1>5. {} \in G
  <2>1. a[{}] = 0 /\ b[{}] = 0 /\ Cardinality({}) = 0
    BY <1>1, <1>2, FS_EmptySet DEF AddsUp
  <2> QED
    BY <2>1
<1>6. ASSUME NEW s \in SUBSET T, s # {}, \A x \in s : s \ {x} \in G
      PROVE  s \in G
  <2>1. PICK x \in s : TRUE
    BY <1>6
  <2>2. a[s] = w[x] + a[s \ {x}] /\ b[s] = v[x] + b[s \ {x}]
    BY <1>1, <1>2 DEF AddsUp
  <2>3. Good(s \ {x}) /\ a[s \ {x}] \in Int /\ b[s \ {x}] \in Int
    BY <1>3, <1>6
  <2>4. w[x] \in Int /\ v[x] \in Int /\ v[x] >= 0 /\ 2 * v[x] <= 2 * (k * w[x]) + e
    OBVIOUS
  <2>5. b[s] >= 0
    BY <2>2, <2>3, <2>4
  <2>6. 2 * b[s] <= 2 * (k * a[s]) + Cardinality(s) * e
    <3>1. k * (w[x] + a[s \ {x}]) = k * w[x] + k * a[s \ {x}]
      BY <2>3, <2>4
    <3>2. Cardinality(s) * e = Cardinality(s \ {x}) * e + e
      <4>1. Cardinality(s) = Cardinality(s \ {x}) + 1 /\ Cardinality(s \ {x}) \in Int
        BY <1>4
      <4>2. \A c \in Int : (c + 1) * e = c * e + e
        OBVIOUS
      <4> QED
        BY <4>1, <4>2
    <3>3. k * w[x] \in Int /\ k * a[s \ {x}] \in Int /\ Cardinality(s \ {x}) * e \in Int
      <4>1. Cardinality(s \ {x}) \in Int
        BY <1>4
      <4> QED
        BY <2>3, <2>4, <4>1
    <3> QED
      BY <2>2, <2>3, <2>4, <3>1, <3>2, <3>3
  <2> QED
    BY <2>5, <2>6
<1> HIDE DEF G
<1>7. \A s \in SUBSET T : s \in G
  BY <1>5, <1>6, SetInduction
<1>8. Good(T)
  BY <1>7 DEF G
<1> QED
  BY <1>1, <1>2, <1>3, <1>4, <1>8

-----------------------------------------------------------------------------
(* Lists without repetitions. *)

Lists(seq, S) ==
    /\ seq \in Seq(S) /\ ToSet(seq) = S
    /\ \A i, j \in 1 .. Len(seq) : seq[i] = seq[j] => i = j

LEMMA ListsOneMore ==
  ASSUME NEW S, NEW x \in S, NEW seq, Lists(seq, S \ {x})
  PROVE  Lists(Append(seq, x), S)
<1> DEFINE more == Append(seq, x)
<1>1. /\ seq \in Seq(S) /\ Len(seq) \in Nat /\ DOMAIN seq = 1 .. Len(seq)
      /\ \A i \in 1 .. Len(seq) : seq[i] \in S \ {x}
  BY DEF Lists
<1>2. /\ more \in Seq(S) /\ Len(more) = Len(seq) + 1 /\ DOMAIN more = 1 .. Len(more)
      /\ more[Len(seq) + 1] = x /\ \A i \in 1 .. Len(seq) : more[i] = seq[i]
  BY <1>1
<1> HIDE DEF more
<1>3. ToSet(more) = S
  <2>1. \A y \in S \ {x} : \E i \in 1 .. Len(seq) : seq[i] = y
    BY <1>1 DEF Lists, ToSet
  <2>2. \A y \in S : \E i \in 1 .. Len(more) : more[i] = y
    BY <1>1, <1>2, <2>1
  <2>3. \A i \in 1 .. Len(more) : more[i] \in S
    BY <1>2
  <2> QED
    BY <1>2, <2>2, <2>3 DEF ToSet
<1>4. \A i, j \in 1 .. Len(more) : more[i] = more[j] => i = j
  <2>1. \A i \in 1 .. Len(more) : i = Len(seq) + 1 \/ i \in 1 .. Len(seq)
    BY <1>1, <1>2
  <2> QED
    BY <1>1, <1>2, <2>1 DEF Lists
<1> QED
  BY <1>2, <1>3, <1>4 DEF Lists, more

LEMMA ListsTogether ==
  ASSUME NEW A, NEW B, A \cap B = {}, NEW a, Lists(a, A), NEW b, Lists(b, B)
  PROVE  Lists(a \o b, A \cup B)
<1> DEFINE c == a \o b
<1>1. /\ a \in Seq(A \cup B) /\ b \in Seq(A \cup B) /\ Len(a) \in Nat /\ Len(b) \in Nat
      /\ DOMAIN a = 1 .. Len(a) /\ DOMAIN b = 1 .. Len(b)
      /\ \A i \in 1 .. Len(a) : a[i] \in A
      /\ \A i \in 1 .. Len(b) : b[i] \in B
  BY DEF Lists
<1>2. /\ c \in Seq(A \cup B) /\ Len(c) = Len(a) + Len(b) /\ DOMAIN c = 1 .. Len(c)
      /\ \A i \in 1 .. Len(c) : c[i] = IF i <= Len(a) THEN a[i] ELSE b[i - Len(a)]
  BY <1>1
<1> HIDE DEF c
<1>3. \A i \in 1 .. Len(c) : \/ i \in 1 .. Len(a) /\ c[i] = a[i]
                             \/ i > Len(a) /\ i - Len(a) \in 1 .. Len(b) /\ c[i] = b[i - Len(a)]
  BY <1>1, <1>2
<1>4. ToSet(c) = A \cup B
  <2>0. ToSet(c) = {c[i] : i \in 1 .. Len(c)}
    BY <1>2 DEF ToSet
  <2>1. \A y \in A : \E i \in 1 .. Len(c) : c[i] = y
    <3>1. \A y \in A : \E i \in 1 .. Len(a) : a[i] = y
      BY <1>1 DEF Lists, ToSet
    <3>2. \A i \in 1 .. Len(a) : i \in 1 .. Len(c) /\ c[i] = a[i]
      BY <1>1, <1>2
    <3> QED
      BY <3>1, <3>2
  <2>2. \A y \in B : \E i \in 1 .. Len(c) : c[i] = y
    <3>1. \A y \in B : \E i \in 1 .. Len(b) : b[i] = y
      BY <1>1 DEF Lists, ToSet
    <3>2. \A i \in 1 .. Len(b) : Len(a) + i \in 1 .. Len(c) /\ c[Len(a) + i] = b[i]
      BY <1>1, <1>2
    <3> QED
      BY <3>1, <3>2
  <2>3. \A i \in 1 .. Len(c) : c[i] \in A \cup B
    BY <1>2
  <2> QED
    BY <2>0, <2>1, <2>2, <2>3
<1>5. ASSUME NEW i \in 1 .. Len(c), NEW j \in 1 .. Len(c), c[i] = c[j]
      PROVE  i = j
  <2>1. CASE i \in 1 .. Len(a) /\ c[i] = a[i]
    <3>1. c[j] \in A /\ ~ c[j] \in B
      BY <1>1, <1>5, <2>1
    <3>2. j \in 1 .. Len(a) /\ c[j] = a[j]
      BY <1>1, <1>3, <3>1
    <3> QED
      BY <1>5, <2>1, <3>2 DEF Lists
  <2>2. CASE i > Len(a) /\ i - Len(a) \in 1 .. Len(b) /\ c[i] = b[i - Len(a)]
    <3>1. c[j] \in B /\ ~ c[j] \in A
      BY <1>1, <1>5, <2>2
    <3>2. j > Len(a) /\ j - Len(a) \in 1 .. Len(b) /\ c[j] = b[j - Len(a)]
      BY <1>1, <1>3, <3>1
    <3>3. i - Len(a) = j - Len(a)
      BY <1>5, <2>2, <3>2 DEF Lists
    <3> QED
      BY <1>1, <3>3
  <2> QED
    BY <1>3, <2>1, <2>2
<1> QED
  BY <1>2, <1>4, <1>5 DEF Lists, c

\* The hits that fire once are listed once.
LEMMA HitsAreListed ==
  ASSUME NEW S, IsFiniteSet(S)
  PROVE  Lists(InSomeOrder(S), S)
<1> DEFINE Eq(it) == it = [s \in SUBSET S |->
                             IF s = {} THEN << >>
                             ELSE Append(it[s \ {CHOOSE x \in s : TRUE}], CHOOSE x \in s : TRUE)]
           iter == CHOOSE it : Eq(it)
           pick == [s \in SUBSET S |-> CHOOSE x \in s : TRUE]
           step == [tx \in S \X Seq(S) |-> Append(tx[2], tx[1])]
<1>1. InSomeOrder(S) = iter[S]
  BY Zenon DEF InSomeOrder, FoldSet, MapThenFoldSet
<1>2. Picks(S, pick)
  BY DEF Picks
<1>3. \A s \in SUBSET S : pick[s] = CHOOSE x \in s : TRUE
  OBVIOUS
<1>4. \A t \in S : \A q \in Seq(S) : step[<<t, q>>] = Append(q, t) /\ step[<<t, q>>] \in Seq(S)
  OBVIOUS
<1> HIDE DEF pick, step
<1>5. Steps(S, Seq(S), step)
  BY <1>4 DEF Steps
<1>6. PICK it \in [SUBSET S -> Seq(S)] : Recursion(S, << >>, pick, step, it)
  <2>1. << >> \in Seq(S)
    OBVIOUS
  <2> QED
    BY <1>2, <1>5, <2>1, SetRecursion
<1>7. \A s \in SUBSET S : it[s] = IF s = {} THEN << >> ELSE Append(it[s \ {pick[s]}], pick[s])
  BY <1>2, <1>4, <1>6 DEF Recursion, Picks
<1>8. Eq(iter)
  <2>1. Eq(it)
    BY <1>3, <1>7
  <2> HIDE DEF Eq
  <2> QED
    BY <2>1
<1> HIDE DEF iter
<1> DEFINE E(s) == IF s = {} THEN << >> ELSE Append(iter[s \ {pick[s]}], pick[s])
<1>9. \A s \in SUBSET S : iter[s] = E(s)
  <2>1. iter = [s \in SUBSET S |-> E(s)]
    BY <1>3, <1>8
  <2> HIDE DEF E
  <2> QED
    BY <2>1
<1> DEFINE G == {s \in SUBSET S : Lists(iter[s], s)}
<1>10. {} \in G
  <2>1. iter[{}] = << >>
    BY <1>9
  <2>2. Lists(<< >>, {})
    BY DEF Lists, ToSet
  <2> QED
    BY <2>1, <2>2
<1>11. ASSUME NEW s \in SUBSET S, s # {}, \A x \in s : s \ {x} \in G
       PROVE  s \in G
  <2>1. pick[s] \in s
    BY <1>2, <1>11 DEF Picks
  <2>2. iter[s] = Append(iter[s \ {pick[s]}], pick[s])
    BY <1>9, <1>11
  <2>3. Lists(iter[s \ {pick[s]}], s \ {pick[s]})
    BY <1>11, <2>1
  <2>4. Lists(iter[s], s)
    BY <2>1, <2>2, <2>3, ListsOneMore
  <2> QED
    BY <2>4
<1> HIDE DEF G
<1>12. \A s \in SUBSET S : s \in G
  BY <1>10, <1>11, SetInduction
<1> QED
  BY <1>1, <1>12 DEF G

\* The first and the last of some places.
LEMMA LeastOfSome ==
  ASSUME NEW s \in SUBSET Nat, s # {}
  PROVE  Min(s) \in s
<1>1. IsWellFoundedOn(OpToRel(<, Nat), Nat)
  BY NatLessThanWellFounded
<1>2. PICK x \in s : \A y \in s : ~ (<<y, x>> \in OpToRel(<, Nat))
  <2> HIDE DEF OpToRel
  <2> QED
    BY <1>1, WFMin
<1>3. ASSUME NEW y \in s
      PROVE  x <= y
  <2>1. ~ (y < x)
    BY <1>2 DEF OpToRel
  <2> QED
    BY <2>1
<1> QED
  BY <1>3 DEF Min

LEMMA MaxOfSubset ==
  ASSUME NEW n \in Nat, NEW s \in SUBSET (1 .. n), s # {}
  PROVE  Max(s) \in s
<1> DEFINE R == {n - x : x \in s}
<1>1. IsWellFoundedOn(OpToRel(<, Nat), Nat)
  BY NatLessThanWellFounded
<1>2. R \in SUBSET Nat /\ R # {}
  <2>1. \A x \in s : n - x \in Nat
    OBVIOUS
  <2> QED
    BY <2>1
<1> HIDE DEF R
<1>3. PICK m \in R : \A y \in R : ~ (<<y, m>> \in OpToRel(<, Nat))
  <2> HIDE DEF OpToRel
  <2> QED
    BY <1>1, <1>2, WFMin
<1> USE DEF R
<1>4. PICK x \in s : m = n - x
  BY <1>3
<1>5. \A y \in s : x >= y
  <2> SUFFICES ASSUME NEW y \in s PROVE x >= y
    OBVIOUS
  <2>1. n - y \in R /\ n - y \in Nat /\ m \in Nat
    BY <1>4
  <2>2. ~ (n - y < m)
    BY <1>3, <2>1 DEF OpToRel
  <2> QED
    BY <1>4, <2>1, <2>2
<1> QED
  BY <1>5 DEF Max

\* The change feed fires each of its kinds once.
LEMMA ChangesAreListed ==
  ASSUME NEW entries \in Seq(ChangeEntries)
  PROVE  Lists(ChangeHits(entries), {entries[i].kind : i \in 1 .. Len(entries)})
<1> DEFINE n == Len(entries)
           Hit(kinds, e) == IF Contains(kinds, e.kind) THEN kinds ELSE Append(kinds, e.kind)
           Eq(it) == it = [s \in SUBSET (1 .. n) |->
                             IF s = {} THEN << >>
                             ELSE Hit(it[s \ {Max(s)}], entries[Max(s)])]
           iter == CHOOSE it : Eq(it)
           pick == [s \in SUBSET (1 .. n) |-> Max(s)]
           step == [tx \in (1 .. n) \X Seq(ChangeKinds) |-> Hit(tx[2], entries[tx[1]])]
<1>1. n \in Nat /\ DOMAIN entries = 1 .. n
  OBVIOUS
<1>2. ChangeHits(entries) = iter[1 .. n]
  BY <1>1, Zenon DEF ChangeHits, FoldLeft, MapThenFoldSet
<1>3. \A i \in 1 .. n : entries[i].kind \in ChangeKinds
  <2>1. \A i \in 1 .. n : entries[i] \in ChangeEntries
    OBVIOUS
  <2> QED
    BY <2>1 DEF ChangeEntries
<1>4. \A s \in SUBSET (1 .. n) : s # {} => Max(s) \in s
  BY <1>1, MaxOfSubset
<1>5. Picks(1 .. n, pick)
  BY <1>4 DEF Picks
<1>6. \A t \in 1 .. n : \A q \in Seq(ChangeKinds) :
         step[<<t, q>>] = Hit(q, entries[t]) /\ step[<<t, q>>] \in Seq(ChangeKinds)
  BY <1>3
<1>7. \A s \in SUBSET (1 .. n) : pick[s] = Max(s)
  OBVIOUS
<1> HIDE DEF pick, step, n, Hit
<1>8. Steps(1 .. n, Seq(ChangeKinds), step) /\ << >> \in Seq(ChangeKinds)
  BY <1>6 DEF Steps
<1>9. IsFiniteSet(1 .. n)
  BY <1>1, FS_Interval
<1>10. PICK it \in [SUBSET (1 .. n) -> Seq(ChangeKinds)] : Recursion(1 .. n, << >>, pick, step, it)
  BY <1>5, <1>8, <1>9, SetRecursion
<1>11. \A s \in SUBSET (1 .. n) :
          it[s] = IF s = {} THEN << >> ELSE Hit(it[s \ {pick[s]}], entries[pick[s]])
  BY <1>5, <1>6, <1>10 DEF Recursion, Picks
<1>12. Eq(iter)
  <2>1. Eq(it)
    BY <1>7, <1>11
  <2> HIDE DEF Eq
  <2> QED
    BY <2>1
<1> HIDE DEF iter
<1> DEFINE E(s) == IF s = {} THEN << >> ELSE Hit(iter[s \ {Max(s)}], entries[Max(s)])
<1>13. \A s \in SUBSET (1 .. n) : iter[s] = E(s)
  <2>1. iter = [s \in SUBSET (1 .. n) |-> E(s)]
    BY <1>12
  <2> HIDE DEF E
  <2> QED
    BY <2>1
<1> DEFINE Kinds(s) == {entries[i].kind : i \in s}
           G == {s \in SUBSET (1 .. n) : Lists(iter[s], Kinds(s))}
<1>14. {} \in G
  <2>1. iter[{}] = << >>
    BY <1>13
  <2>2. Lists(<< >>, {}) /\ Kinds({}) = {}
    BY DEF Lists, ToSet
  <2> QED
    BY <2>1, <2>2
<1>15. ASSUME NEW s \in SUBSET (1 .. n), s # {}, \A x \in s : s \ {x} \in G
       PROVE  s \in G
  <2> DEFINE last == Max(s)
             before == iter[s \ {last}]
             k == entries[last].kind
  <2>1. last \in s /\ Lists(before, Kinds(s \ {last})) /\ iter[s] = Hit(before, entries[last])
    BY <1>4, <1>13, <1>15
  <2>2. Kinds(s) = Kinds(s \ {last}) \cup {k}
    BY <2>1
  <2> HIDE DEF Kinds, last, before
  <2>3. CASE Contains(before, k)
    <3>1. k \in ToSet(before)
      BY <2>1, <2>3 DEF Contains, ToSet, Lists
    <3>2. Kinds(s) = Kinds(s \ {last})
      BY <2>1, <2>2, <3>1 DEF Lists
    <3> QED
      BY <2>1, <2>3, <3>2 DEF Hit
  <2>4. CASE ~ Contains(before, k)
    <3>1. ~ k \in ToSet(before)
      BY <2>1, <2>4 DEF Contains, ToSet, Lists
    <3>2. Kinds(s) \ {k} = Kinds(s \ {last}) /\ k \in Kinds(s)
      BY <2>1, <2>2, <3>1 DEF Lists
    <3>3. Lists(before, Kinds(s) \ {k})
      BY <2>1, <3>2
    <3>4. Lists(Append(before, k), Kinds(s))
      BY <3>2, <3>3, ListsOneMore
    <3> QED
      BY <2>1, <2>4, <3>4 DEF Hit
  <2> QED
    BY <2>3, <2>4
<1> HIDE DEF G
<1>16. \A s \in SUBSET (1 .. n) : s \in G
  BY <1>9, <1>14, <1>15, SetInduction
<1> QED
  BY <1>2, <1>16 DEF G, n

-----------------------------------------------------------------------------
(* The signals of a property. *)

FixedHits(p, ctx) ==
    RegisterHits(p, ctx) \cup OwnerHits(p, ctx) \cup TitleHits(p, ctx) \cup ConcessionHits(p, ctx)

FixedIds ==
    {"reg.tenement.producing.on_rural_or_vacant", "reg.gpl.producing.on_vacant",
     "reg.tenement.live_lease.on_rural_or_vacant", "reg.tenement.exploration_only.on_rural",
     "reg.tenement.recently_granted", "reg.dmirs_ahead_of_landgate",
     "reg.environmental_approval_active", "reg.address_mismatch_landgate",
     "id.abn.cancelled_or_suspended", "id.holder_ne_owner",
     "id.industry_indicator_in_owner_name", "beh.owner_portfolio_tenement_majority",
     "spat.outlier.high_value_rural", "mismatch.proprietor", "mismatch.ct_number_changed",
     "mismatch.strata_parent_still_rated", "mismatch.encumbrance_added",
     "mismatch.pin_landuse_diverges", "mismatch.pin_missing_from_record",
     "id.cross_council_pin", "id.pensioner_deceased_continued_rebate",
     "id.pensioner_eligibility_cancelled", "id.pensioner_card_expired",
     "id.pensioner_not_at_property", "id.proprietor_deceased"}

\* Any set of them is finite.
LEMMA FixedIdsAreFinite == IsFiniteSet(FixedIds)
<1> DEFINE f == <<"reg.tenement.producing.on_rural_or_vacant", "reg.gpl.producing.on_vacant",
     "reg.tenement.live_lease.on_rural_or_vacant", "reg.tenement.exploration_only.on_rural",
     "reg.tenement.recently_granted", "reg.dmirs_ahead_of_landgate",
     "reg.environmental_approval_active", "reg.address_mismatch_landgate",
     "id.abn.cancelled_or_suspended", "id.holder_ne_owner",
     "id.industry_indicator_in_owner_name", "beh.owner_portfolio_tenement_majority",
     "spat.outlier.high_value_rural", "mismatch.proprietor", "mismatch.ct_number_changed",
     "mismatch.strata_parent_still_rated", "mismatch.encumbrance_added",
     "mismatch.pin_landuse_diverges", "mismatch.pin_missing_from_record",
     "id.cross_council_pin", "id.pensioner_deceased_continued_rebate",
     "id.pensioner_eligibility_cancelled", "id.pensioner_card_expired",
     "id.pensioner_not_at_property", "id.proprietor_deceased">>
<1>1. f \in Surjection(1 .. 25, FixedIds)
  BY DEF Surjection, FixedIds
<1> HIDE DEF f
<1>2. IsFiniteSet(1 .. 25)
  <2>1. \A n \in Nat : IsFiniteSet(1 .. n)
    BY FS_Interval
  <2> QED
    BY <2>1
<1> QED
  BY <1>1, <1>2, FS_Surjection

LEMMA FixedHitsAreFixed ==
  ASSUME NEW p, NEW ctx
  PROVE  FixedHits(p, ctx) \subseteq FixedIds
<1>1. TenementClassHits(p, TenementsAt(p, ctx)) \subseteq FixedIds
  BY DEF TenementClassHits, When, FixedIds
<1>2. RegisterHits(p, ctx) \subseteq FixedIds
  BY <1>1 DEF RegisterHits, When, FixedIds
<1>3. OwnerHits(p, ctx) \subseteq FixedIds
  BY DEF OwnerHits, When, FixedIds
<1>4. TitleHits(p, ctx) \subseteq FixedIds
  BY DEF TitleHits, When, FixedIds
<1>5. ConcessionHits(p, ctx) \subseteq FixedIds
  BY DEF ConcessionHits, When, FixedIds
<1> QED
  BY <1>2, <1>3, <1>4, <1>5 DEF FixedHits

LEMMA KindsAreNotFixed == ChangeKinds \cap FixedIds = {}
BY DEF ChangeKinds, FixedIds

LEMMA WeightsAreNumbers == \A id \in ChangeKinds \cup FixedIds : WeightOf(id) \in Int
BY DEF WeightOf, ChangeKinds, FixedIds

\* Each signal of a property is listed once.
LEMMA SignalsAreListed ==
  ASSUME NEW p, NEW ctx, ctx.changes[p.assessmentNumber] \in Seq(ChangeEntries)
  PROVE  \E S \in SUBSET (ChangeKinds \cup FixedIds) :
            /\ IsFiniteSet(S) /\ Lists(EvaluateSignals(p, ctx), S)
            /\ S = FixedHits(p, ctx) \cup ToSet(ChangeHits(ctx.changes[p.assessmentNumber]))
<1> DEFINE entries == ctx.changes[p.assessmentNumber]
           A == FixedHits(p, ctx)
           B == {entries[i].kind : i \in 1 .. Len(entries)}
<1>1. IsFiniteSet(A) /\ Lists(InSomeOrder(A), A)
  BY FixedHitsAreFixed, FixedIdsAreFinite, FS_Subset, HitsAreListed
<1>2. Lists(ChangeHits(entries), B)
  BY ChangesAreListed
<1>3. B \subseteq ChangeKinds
  <2>1. \A i \in 1 .. Len(entries) : entries[i] \in ChangeEntries
    OBVIOUS
  <2> QED
    BY <2>1 DEF ChangeEntries
<1>4. IsFiniteSet(B)
  <2> DEFINE f == [i \in 1 .. Len(entries) |-> entries[i].kind]
  <2>1. f \in Surjection(1 .. Len(entries), B) /\ Len(entries) \in Nat
    BY DEF Surjection
  <2> QED
    BY <2>1, FS_Interval, FS_Surjection
<1>5. EvaluateSignals(p, ctx) = InSomeOrder(A) \o ChangeHits(entries)
  BY DEF EvaluateSignals, FixedHits
<1>6. A \subseteq FixedIds
  BY FixedHitsAreFixed
<1> HIDE DEF A, B, entries
<1>7. A \cap B = {}
  BY <1>3, <1>6, KindsAreNotFixed
<1>8. Lists(EvaluateSignals(p, ctx), A \cup B)
  BY <1>1, <1>2, <1>5, <1>7, ListsTogether
<1>9. IsFiniteSet(A \cup B) /\ A \cup B \in SUBSET (ChangeKinds \cup FixedIds)
  BY <1>1, <1>3, <1>4, <1>6, FS_Union
<1>10. B = ToSet(ChangeHits(entries))
  BY <1>2 DEF Lists
<1> QED
  BY <1>8, <1>9, <1>10 DEF A, entries

-----------------------------------------------------------------------------
(* What a list says of its properties. *)

ScoreIsDistinct(c) ==
    LET ids == ToSet(c.signals)
        class == ids \cap TenementClass
    IN  c.compositeScore =
          Min({100, SumFunction([id \in ids \ TenementClass |-> WeightOf(id)])
                    + (IF class = {} THEN 0 ELSE Max({WeightOf(id) : id \in class}))})

\* A score over places is one over ids where no id is listed twice.
LEMMA ScoreOfAList ==
  ASSUME NEW S \in SUBSET (ChangeKinds \cup FixedIds), IsFiniteSet(S),
         NEW hits, Lists(hits, S)
  PROVE  ComputeComposite(hits)
            = Min({100, SumFunction([id \in S \ TenementClass |-> WeightOf(id)])
                        + (IF S \cap TenementClass = {} THEN 0
                           ELSE Max({WeightOf(id) : id \in S \cap TenementClass}))})
<1> DEFINE D == DOMAIN hits
           class == {i \in D : hits[i] \in TenementClass}
           U == D \ class
           w == [i \in U |-> WeightOf(hits[i])]
           v == [id \in S \ TenementClass |-> WeightOf(id)]
           f == [i \in U |-> hits[i]]
<1>1. /\ Len(hits) \in Nat /\ D = 1 .. Len(hits) /\ \A i \in D : hits[i] \in S
      /\ \A id \in S : \E i \in D : hits[i] = id
      /\ \A i, j \in D : hits[i] = hits[j] => i = j
  BY DEF Lists, ToSet
<1>2. \A i \in D : WeightOf(hits[i]) \in Int
  BY <1>1, WeightsAreNumbers
<1>3. IsFiniteSet(U)
  <2>1. IsFiniteSet(D)
    BY <1>1, FS_Interval
  <2> QED
    BY <2>1, FS_Subset
<1> HIDE DEF D
<1>4. w \in [U -> Int]
  BY <1>2
<1>5. v \in [S \ TenementClass -> Int]
  BY WeightsAreNumbers
<1>6. /\ f \in [U -> S \ TenementClass] /\ \A x, y \in U : f[x] = f[y] => x = y
      /\ \A id \in S \ TenementClass : \E x \in U : f[x] = id
      /\ \A x \in U : w[x] = v[f[x]]
  BY <1>1
<1>7. {WeightOf(hits[i]) : i \in class} = {WeightOf(id) : id \in S \cap TenementClass}
  BY <1>1
<1>8. class = {} <=> S \cap TenementClass = {}
  BY <1>1
<1> HIDE DEF w, v, f, U
<1>9. SumFunction(w) = SumFunction(v)
  BY <1>3, <1>4, <1>5, <1>6, RenamedTerms
<1>10. ComputeComposite(hits)
          = Min({100, SumFunction(w) + (IF class = {} THEN 0
                                        ELSE Max({WeightOf(hits[i]) : i \in class}))})
  BY DEF ComputeComposite, Total, D, U, w
<1> QED
  BY <1>7, <1>8, <1>9, <1>10 DEF v

LEMMA LargerOrSmaller ==
  ASSUME NEW x \in Int, NEW y \in Int
  PROVE  /\ Max({x, y}) \in {x, y} /\ Max({x, y}) >= x /\ Max({x, y}) >= y
         /\ Min({x, y}) \in {x, y} /\ Min({x, y}) <= x /\ Min({x, y}) <= y
<1>1. CASE x <= y
  <2>1. y \in {x, y} /\ \A z \in {x, y} : z <= y
    BY <1>1
  <2>2. x \in {x, y} /\ \A z \in {x, y} : x <= z
    BY <1>1
  <2> QED
    BY <2>1, <2>2 DEF Max, Min
<1>2. CASE y <= x
  <2>1. x \in {x, y} /\ \A z \in {x, y} : z <= x
    BY <1>2
  <2>2. y \in {x, y} /\ \A z \in {x, y} : y <= z
    BY <1>2
  <2> QED
    BY <2>1, <2>2 DEF Max, Min
<1> QED
  BY <1>1, <1>2

\* What division rounds down to.
LEMMA DivFacts ==
  ASSUME NEW x \in Int, NEW m \in Nat \ {0}
  PROVE  x \div m \in Int /\ m * (x \div m) <= x /\ x < m * (x \div m) + m
<1>1. x \div m \in Int
  OBVIOUS
<1>2. m * (x \div m) <= x
  OBVIOUS
<1>3. x < m * (x \div m) + m
  OBVIOUS
<1> QED
  BY <1>1, <1>2, <1>3

LEMMA Cancel ==
  ASSUME NEW m \in Nat \ {0}, NEW x \in Int, NEW y \in Int
  PROVE  m * x < m * y => x < y
OBVIOUS

LEMMA Times ==
  ASSUME NEW m \in Nat, NEW x \in Int, NEW y \in Int, x <= y
  PROVE  m * x \in Int /\ m * y \in Int /\ m * x <= m * y
OBVIOUS

\* Rounding an amount moves it by half a dollar at most.
LEMMA RoundedIsNear ==
  ASSUME NEW n \in Int, NEW d \in Nat \ {0}
  PROVE  /\ Rounded(n, d) \in Int
         /\ 2 * (d * Rounded(n, d)) <= 2 * n + d * Dollar
         /\ 2 * n <= 2 * (d * Rounded(n, d)) + d * Dollar
<1>1. Dollar \in Nat \ {0}
  BY EngineAssumption
<1>2. PICK e \in Nat \ {0} : e = d * Dollar
  BY <1>1
<1>3. 2 * d * Dollar = 2 * e /\ 2 * e \in Nat \ {0} /\ 2 * n + e \in Int
  BY <1>1, <1>2
<1> DEFINE q == (2 * n + e) \div (2 * e)
<1>4. q \in Int /\ (2 * e) * q <= 2 * n + e /\ 2 * n + e < (2 * e) * q + 2 * e
  BY <1>3, DivFacts
<1>5. Rounded(n, d) = Dollar * q
  BY <1>2, <1>3 DEF Rounded
<1> HIDE DEF q
<1>6. Dollar * q \in Int /\ d * (Dollar * q) = e * q /\ (2 * e) * q = 2 * (e * q) /\ e * q \in Int
  BY <1>1, <1>2, <1>4
<1> QED
  BY <1>2, <1>4, <1>5, <1>6

\* Rounding keeps the order, and nothing is nothing.
LEMMA RoundedGrows ==
  ASSUME NEW d \in Nat \ {0}
  PROVE  /\ \A n, k \in Int : n <= k => Rounded(n, d) <= Rounded(k, d)
         /\ Rounded(0, d) = 0
<1>1. Dollar \in Nat \ {0}
  BY EngineAssumption
<1>2. PICK e \in Nat \ {0} : e = d * Dollar
  BY <1>1
<1>3. 2 * d * Dollar = 2 * e /\ 2 * e \in Nat \ {0}
  BY <1>1, <1>2
<1> DEFINE q(n) == (2 * n + e) \div (2 * e)
<1>4. \A n \in Int : /\ q(n) \in Int /\ (2 * e) * q(n) <= 2 * n + e
                     /\ 2 * n + e < (2 * e) * q(n) + 2 * e
  <2>1. SUFFICES ASSUME NEW n \in Int
                 PROVE  /\ q(n) \in Int /\ (2 * e) * q(n) <= 2 * n + e
                        /\ 2 * n + e < (2 * e) * q(n) + 2 * e
    OBVIOUS
  <2>2. 2 * n + e \in Int
    OBVIOUS
  <2> QED
    BY <1>3, <2>2, DivFacts
<1>5. \A n \in Int : Rounded(n, d) = Dollar * q(n)
  BY <1>2, <1>3 DEF Rounded
<1> HIDE DEF q
<1>6. ASSUME NEW n \in Int, NEW k \in Int, n <= k
      PROVE  Rounded(n, d) <= Rounded(k, d)
  <2>1. (2 * e) * q(n) < (2 * e) * (q(k) + 1)
    <3>1. (2 * e) * (q(k) + 1) = (2 * e) * q(k) + 2 * e
      BY <1>3, <1>4
    <3> QED
      BY <1>3, <1>4, <1>6, <3>1
  <2>2. q(n) \in Int /\ q(k) \in Int /\ q(k) + 1 \in Int
    BY <1>4
  <2>3. q(n) < q(k) + 1
    BY <1>3, <2>1, <2>2, Cancel
  <2>4. q(n) <= q(k)
    BY <2>2, <2>3
  <2>5. Dollar * q(n) <= Dollar * q(k)
    BY <1>1, <2>2, <2>4, Times
  <2> QED
    BY <1>5, <2>5
<1>7. q(0) = 0
  <2>1. (2 * e) * q(0) < (2 * e) * 1 /\ (2 * e) * (-1) < (2 * e) * q(0)
    BY <1>3, <1>4
  <2>2. q(0) \in Int
    BY <1>4
  <2>3. q(0) < 1
    BY <1>3, <2>1, <2>2, Cancel
  <2>4. -1 < q(0)
    <3>1. -1 \in Int
      OBVIOUS
    <3> QED
      BY <1>3, <2>1, <2>2, <3>1, Cancel
  <2> QED
    BY <2>2, <2>3, <2>4
<1>8. Rounded(0, d) = 0
  BY <1>1, <1>5, <1>7
<1> QED
  BY <1>6, <1>8

\* A share of an uplift that is near the amount, of an uplift near the rounded one.
LEMMA NearShares ==
  ASSUME NEW years \in Nat, NEW a \in Nat, a <= years * Year,
         NEW uplift \in Nat, NEW amount \in Int, NEW rounded \in Int,
         2 * (Year * amount) <= 2 * (uplift * a) + Year * Dollar,
         2 * uplift <= 2 * rounded + Dollar
  PROVE  AtMost(amount, rounded, years, 1)
<1>1. Dollar \in Nat /\ Year \in Nat \ {0}
  BY EngineAssumption
<1>2. uplift * a <= uplift * (years * Year) /\ uplift * a \in Int
  BY <1>1, Times
<1>3. PICK m \in Nat : m = years * uplift
  OBVIOUS
<1>4. uplift * (years * Year) = Year * m
  BY <1>1, <1>3
<1>5. 2 * amount <= 2 * m + Dollar
  <2>1. 2 * (Year * amount) = Year * (2 * amount)
        /\ 2 * (Year * m) + Year * Dollar = Year * (2 * m + Dollar)
        /\ Year * (2 * m + Dollar + 1) = Year * (2 * m + Dollar) + Year
    BY <1>1
  <2>2. Year * (2 * amount) \in Int /\ Year * (2 * m + Dollar) \in Int
        /\ Year * m \in Int /\ Year * Dollar \in Int
    BY <1>1
  <2>3. Year * (2 * amount) < Year * (2 * m + Dollar + 1)
    BY <1>1, <1>2, <1>4, <2>1, <2>2
  <2>4. 2 * amount < 2 * m + Dollar + 1
    <3>1. 2 * amount \in Int /\ 2 * m + Dollar + 1 \in Int
      BY <1>1
    <3> QED
      BY <1>1, <2>3, <3>1, Cancel
  <2> QED
    BY <1>1, <2>4
<1>6. 2 * m <= 2 * (years * rounded) + years * Dollar
  <2>1. years * (2 * uplift) <= years * (2 * rounded + Dollar)
    BY <1>1, Times
  <2>2. years * (2 * uplift) = 2 * m
        /\ years * (2 * rounded + Dollar) = 2 * (years * rounded) + years * Dollar
    BY <1>1, <1>3
  <2> QED
    BY <2>1, <2>2
<1>7. 1 * ((years + 1) * Dollar) = years * Dollar + Dollar
  BY <1>1
<1>8. years * Dollar \in Int /\ years * rounded \in Int
  BY <1>1
<1> QED
  BY <1>1, <1>5, <1>6, <1>7, <1>8 DEF AtMost

LEMMA SharesAreWithin ==
  ASSUME NEW years \in Nat, NEW a \in Nat, a <= years * Year, NEW uplift \in Int
  PROVE  /\ Rounded(uplift, 1) \in Int /\ Rounded(uplift * a, Year) \in Int
         /\ Rounded(uplift, 1) # 0
               => Within(Rounded(uplift * a, Year), Rounded(uplift, 1), years)
<1>1. Dollar \in Nat /\ Year \in Nat \ {0} /\ 1 \in Nat \ {0}
  BY EngineAssumption
<1>2. uplift * a \in Int /\ (-uplift) * a = -(uplift * a)
  OBVIOUS
<1> DEFINE rounded == Rounded(uplift, 1)
           amount == Rounded(uplift * a, Year)
<1>3. /\ rounded \in Int /\ 2 * (1 * rounded) <= 2 * uplift + 1 * Dollar
      /\ 2 * uplift <= 2 * (1 * rounded) + 1 * Dollar
  BY <1>1, RoundedIsNear
<1>4. /\ amount \in Int /\ 2 * (Year * amount) <= 2 * (uplift * a) + Year * Dollar
      /\ 2 * (uplift * a) <= 2 * (Year * amount) + Year * Dollar
  BY <1>1, <1>2, RoundedIsNear
<1>5. /\ uplift <= 0 => rounded <= 0
      /\ 0 <= uplift => 0 <= rounded
  BY <1>1, RoundedGrows
<1>6. /\ uplift * a <= 0 => amount <= 0
      /\ 0 <= uplift * a => 0 <= amount
  BY <1>1, <1>2, RoundedGrows
<1>7. /\ uplift > 0 => 0 <= uplift * a
      /\ uplift < 0 => uplift * a <= 0
  OBVIOUS
<1> HIDE DEF rounded, amount
<1>8. CASE rounded > 0
  <2>1. uplift > 0
    BY <1>3, <1>5, <1>8
  <2>2. 2 * uplift <= 2 * rounded + Dollar /\ uplift \in Nat
    BY <1>1, <1>3, <2>1
  <2>3. AtMost(amount, rounded, years, 1)
    BY <1>3, <1>4, <2>2, NearShares
  <2> QED
    BY <1>3, <1>4, <1>6, <1>7, <1>8, <2>1, <2>3 DEF Within, rounded, amount
<1>9. CASE rounded < 0
  <2>1. uplift < 0
    BY <1>3, <1>5, <1>9
  <2>2. 2 * (-uplift) <= 2 * (-rounded) + Dollar /\ -uplift \in Nat
        /\ -amount \in Int /\ -rounded \in Int
    BY <1>1, <1>3, <1>4, <2>1
  <2>3. 2 * (Year * (-amount)) <= 2 * ((-uplift) * a) + Year * Dollar
    <3>1. Year * (-amount) = -(Year * amount) /\ Year * amount \in Int
      BY <1>1, <1>4
    <3>2. Year * Dollar \in Int
      BY <1>1
    <3> QED
      BY <1>2, <1>4, <3>1, <3>2
  <2>4. AtMost(-amount, -rounded, years, 1)
    BY <2>2, <2>3, NearShares
  <2> QED
    BY <1>3, <1>4, <1>6, <1>7, <1>9, <2>1, <2>4 DEF Within, rounded, amount
<1>10. CASE rounded = 0
  BY <1>3, <1>4, <1>10 DEF rounded, amount
<1> QED
  BY <1>3, <1>8, <1>9, <1>10

\* The shares of an uplift that two spans of time make, neither above its ceiling.
SharesOf(uplift, conservative, statutory) ==
    \E a, b \in Nat :
        /\ a <= b /\ a <= ConservativeYears * Year /\ b <= StatutoryYears * Year
        /\ conservative = uplift * a /\ statutory = uplift * b

MoneyIsWithin(c) ==
    /\ Within(c.estArrears3y, c.estUplift, ConservativeYears)
    /\ c.statutory # Null =>
         /\ Within(c.statutory, c.estUplift, StatutoryYears)
         /\ IF c.estUplift > 0 THEN c.estArrears3y <= c.statutory
            ELSE c.statutory <= c.estArrears3y

\* Once rounded, they are a candidate's money.
LEMMA SharesAreMoney ==
  ASSUME NEW uplift \in Int, NEW conservative, NEW statutory,
         SharesOf(uplift, conservative, statutory), NEW c,
         c.estUplift = Rounded(uplift, 1),
         c.estArrears3y = Rounded(conservative, Year), c.statutory = Rounded(statutory, Year)
  PROVE  /\ c.estUplift \in Int /\ c.estArrears3y \in Int
         /\ c.estUplift # 0 => MoneyIsWithin(c)
<1>1. PICK a \in Nat, b \in Nat :
         /\ a <= b /\ a <= ConservativeYears * Year /\ b <= StatutoryYears * Year
         /\ conservative = uplift * a /\ statutory = uplift * b
  BY DEF SharesOf
<1>2. ConservativeYears \in Nat /\ StatutoryYears \in Nat /\ Year \in Nat \ {0}
  BY EngineAssumption
<1>3. /\ c.estUplift \in Int /\ c.estArrears3y \in Int
      /\ c.estUplift # 0 => Within(c.estArrears3y, c.estUplift, ConservativeYears)
  BY <1>1, <1>2, SharesAreWithin
<1>4. c.estUplift # 0 => Within(c.statutory, c.estUplift, StatutoryYears)
  BY <1>1, <1>2, SharesAreWithin
<1>5. conservative \in Int /\ statutory \in Int
  BY <1>1
<1>6. /\ uplift >= 0 => conservative <= statutory
      /\ uplift <= 0 => statutory <= conservative
  <2>1. uplift >= 0 => uplift * a <= uplift * b
    BY <1>1, Times
  <2>2. uplift <= 0 => (-uplift) * a <= (-uplift) * b
    BY <1>1, Times
  <2>3. (-uplift) * a = -(uplift * a) /\ (-uplift) * b = -(uplift * b)
    BY <1>1
  <2> QED
    BY <1>1, <1>5, <2>1, <2>2, <2>3
<1>7. /\ uplift >= 0 => c.estArrears3y <= c.statutory
      /\ uplift <= 0 => c.statutory <= c.estArrears3y
  BY <1>2, <1>5, <1>6, RoundedGrows
<1>8. c.estUplift > 0 => uplift >= 0
  <2>1. uplift <= 0 => c.estUplift <= 0
    BY RoundedGrows
  <2> QED
    BY <1>3, <2>1
<1>9. c.estUplift < 0 => uplift <= 0
  <2>1. 0 <= uplift => 0 <= c.estUplift
    BY RoundedGrows
  <2> QED
    BY <1>3, <2>1
<1> QED
  BY <1>3, <1>4, <1>7, <1>8, <1>9 DEF MoneyIsWithin

\* What a table charges is a number.
LEMMA AnnualIsANumber ==
  ASSUME NEW p, IsRow(p), RateTables[p.council] # Null, NEW use \in LandUses,
         Computable(p, use)
  PROVE  ComputeAnnual(LineFor(p, use), ValueForBasis(p, LineFor(p, use).basis)) \in Int
<1> DEFINE line == LineFor(p, use)
           value == ValueForBasis(p, line.basis)
<1>1. line \in [rateInDollar : Int, minimumPayment : Int, basis : {"GRV", "UV"}]
  BY EngineAssumption DEF IsRow, LineFor, Computable, RateLines
<1>2. value \in Int
  BY DEF Computable, ValueForBasis, IsRow
<1>3. line.rateInDollar \in Int /\ line.minimumPayment \in Int
  BY <1>1
<1> HIDE DEF line, value
<1>4. value * line.rateInDollar \in Int
  BY <1>2, <1>3
<1>5. Max({value * line.rateInDollar, line.minimumPayment}) \in Int
  BY <1>3, <1>4, LargerOrSmaller
<1> QED
  BY <1>5 DEF ComputeAnnual, line, value

LEMMA YearsAreCounted ==
  ASSUME NEW changeAt \in Int, NEW evaluated \in Int
  PROVE  YearsSince(changeAt, evaluated) \in Nat
<1>1. PICK years \in Int : years = evaluated - changeAt
  OBVIOUS
<1>2. Max({0, years}) \in {0, years} /\ Max({0, years}) >= 0
  <2>1. 0 \in Int
    OBVIOUS
  <2> QED
    BY <2>1, LargerOrSmaller
<1> QED
  BY <1>1, <1>2 DEF YearsSince

\* Where it answers with figures, they are shares of one uplift.
LEMMA UpliftHasShares ==
  ASSUME NEW p, IsRow(p), RateTables[p.council] # Null, NEW use \in LandUses,
         NEW changeAt \in {Null} \cup Int, NEW evaluated \in Int,
         NEW u, u = CalculateUplift(p, use, changeAt, evaluated), u # Null
  PROVE  u.annualUplift \in Int /\ SharesOf(u.annualUplift, u.conservative, u.statutory)
<1> DEFINE annual(category) ==
              ComputeAnnual(LineFor(p, category), ValueForBasis(p, LineFor(p, category).basis))
           uplift == annual(use) - annual(p.landUse)
           years == YearsSince(changeAt, evaluated)
<1>1. CASE use = p.landUse
  <2>1. u.annualUplift = 0 /\ u.conservative = 0 /\ u.statutory = 0
    BY <1>1 DEF CalculateUplift
  <2>2. 0 \in Nat /\ 0 = 0 * 0 /\ 0 <= ConservativeYears * Year /\ 0 <= StatutoryYears * Year
    BY EngineAssumption
  <2> QED
    BY <2>1, <2>2 DEF SharesOf
<1>2. CASE use # p.landUse
  <2>1. Computable(p, p.landUse) /\ Computable(p, use) /\ ChangeDateOk(changeAt, evaluated)
    BY <1>2 DEF CalculateUplift
  <2>2. /\ u.annualUplift = uplift
        /\ u.conservative = uplift * Min({years, ConservativeYears * Year})
        /\ u.statutory = uplift * Min({years, StatutoryYears * Year})
    BY <1>2 DEF CalculateUplift
  <2>3. annual(use) \in Int /\ annual(p.landUse) \in Int
    BY <2>1, AnnualIsANumber DEF IsRow
  <2>4. years \in Nat
    BY <2>1, YearsAreCounted DEF ChangeDateOk
  <2> DEFINE cy == ConservativeYears * Year
             sy == StatutoryYears * Year
  <2>5. cy \in Nat /\ sy \in Nat /\ cy <= sy
    <3>1. cy = Year * ConservativeYears /\ sy = Year * StatutoryYears
      BY EngineAssumption
    <3> QED
      BY <3>1, EngineAssumption, Times
  <2> HIDE DEF annual, years, cy, sy
  <2> DEFINE a == Min({years, cy})
             b == Min({years, sy})
  <2>6. /\ a \in {years, cy} /\ a <= years /\ a <= cy
        /\ b \in {years, sy} /\ b <= years /\ b <= sy
    <3>1. years \in Int /\ cy \in Int /\ sy \in Int
      BY <2>4, <2>5
    <3>2. a \in {years, cy} /\ a <= years /\ a <= cy
      BY <3>1, LargerOrSmaller
    <3>3. b \in {years, sy} /\ b <= years /\ b <= sy
      BY <3>1, LargerOrSmaller
    <3> QED
      BY <3>2, <3>3
  <2> HIDE DEF a, b
  <2>7. a \in Nat /\ b \in Nat /\ a <= b
    BY <2>4, <2>5, <2>6
  <2> HIDE DEF uplift
  <2>8. SharesOf(u.annualUplift, u.conservative, u.statutory)
    BY <2>2, <2>6, <2>7 DEF SharesOf, a, b, cy, sy
  <2> QED
    BY <2>2, <2>3, <2>8 DEF uplift
<1> QED
  BY <1>1, <1>2

\* A context the engine is given.
GoodContext(ctx) ==
    /\ {"properties", "changes", "now"} \subseteq DOMAIN ctx
    /\ IsFiniteSet(ctx.properties) /\ \A p \in ctx.properties : IsRow(p)
    /\ \A an \in Assessments : ctx.changes[an] \in Seq(ChangeEntries)
    /\ ctx.now \in Int

LEMMA PickIsAnEntry ==
  ASSUME NEW entries \in Seq(ChangeEntries), entries # << >>
  PROVE  PickChange(entries) \in ChangeEntries
<1> DEFINE I == {i \in 1 .. Len(entries) : entries[i].correctLandUse # Null}
           i == SelectInSeq(entries, LAMBDA e : e.correctLandUse # Null)
<1>1. i = IF I # {} THEN Min(I) ELSE 0
  BY DEF SelectInSeq
<1>2. I # {} => Min(I) \in I
  <2>1. I \in SUBSET Nat
    OBVIOUS
  <2> HIDE DEF I
  <2> QED
    BY <2>1, LeastOfSome
<1>3. 1 \in 1 .. Len(entries) /\ \A k \in 1 .. Len(entries) : entries[k] \in ChangeEntries
  OBVIOUS
<1>4. PickChange(entries) = IF i # 0 THEN entries[i] ELSE entries[1]
  BY DEF PickChange
<1> HIDE DEF i
<1> QED
  BY <1>1, <1>2, <1>3, <1>4

\* A property that is put up keeps its score and its money within bounds.
LEMMA CandidateIsSound ==
  ASSUME NEW ctx, GoodContext(ctx), NEW p \in ctx.properties, NEW c, c = CandidateOf(p, ctx)
  PROVE  /\ ScoreIsDistinct(c)
         /\ c.estUplift \in Int /\ c.estArrears3y \in Int
         /\ c.estUplift # 0 => MoneyIsWithin(c)
<1> DEFINE hits == EvaluateSignals(p, ctx)
           score == ComputeComposite(hits)
           severity == SeverityForScore(score)
           accurate == AccurateUplift(p, ctx)
           guess == HeuristicRates(p.annualRates, severity) - p.annualRates
<1>1. /\ c.signals = hits /\ c.compositeScore = score
      /\ c.estUplift = IF accurate # Null THEN Rounded(accurate.annualUplift, 1) ELSE guess
      /\ c.estArrears3y = IF accurate # Null THEN Rounded(accurate.conservative, Year)
                         ELSE 3 * guess
      /\ c.statutory = IF accurate # Null THEN Rounded(accurate.statutory, Year) ELSE Null
  BY DEF CandidateOf
<1>2. IsRow(p) /\ ctx.changes[p.assessmentNumber] \in Seq(ChangeEntries) /\ ctx.now \in Int
  BY DEF GoodContext, IsRow
<1>3. ScoreIsDistinct(c)
  <2>1. PICK S \in SUBSET (ChangeKinds \cup FixedIds) : IsFiniteSet(S) /\ Lists(hits, S)
    BY <1>2, SignalsAreListed
  <2>2. ToSet(c.signals) = S
    BY <1>1, <2>1 DEF Lists
  <2> HIDE DEF hits
  <2>3. score = Min({100, SumFunction([id \in S \ TenementClass |-> WeightOf(id)])
                        + (IF S \cap TenementClass = {} THEN 0
                           ELSE Max({WeightOf(id) : id \in S \cap TenementClass}))})
    BY <2>1, ScoreOfAList
  <2> HIDE DEF score
  <2> QED
    BY <1>1, <2>2, <2>3 DEF ScoreIsDistinct
<1>4. CASE accurate # Null
  <2> DEFINE entries == ctx.changes[p.assessmentNumber]
             chosen == PickChange(entries)
  <2>1. /\ entries # << >> /\ RateTables[p.council] # Null /\ chosen.correctLandUse # Null
        /\ accurate = CalculateUplift(p, chosen.correctLandUse, chosen.detectedAt, ctx.now)
    BY <1>4 DEF AccurateUplift
  <2>2. chosen.correctLandUse \in LandUses /\ chosen.detectedAt \in {Null} \cup Int
    BY <1>2, <2>1, PickIsAnEntry DEF ChangeEntries
  <2> HIDE DEF accurate, chosen
  <2>3. accurate.annualUplift \in Int
        /\ SharesOf(accurate.annualUplift, accurate.conservative, accurate.statutory)
    BY <1>2, <1>4, <2>1, <2>2, UpliftHasShares
  <2>4. /\ c.estUplift \in Int /\ c.estArrears3y \in Int
        /\ c.estUplift # 0 => MoneyIsWithin(c)
    BY <1>1, <1>4, <2>3, SharesAreMoney
  <2> QED
    BY <1>3, <2>4
<1>5. CASE accurate = Null
  <2>1. severity \in {"high", "medium", "low"}
    BY DEF SeverityForScore
  <2>2. p.annualRates \in Int
    BY <1>2 DEF IsRow
  <2> HIDE DEF severity, accurate
  <2>3. guess \in Int
    <3>1. /\ Rounded(8 * p.annualRates, 1) \in Int /\ Rounded(4 * p.annualRates, 1) \in Int
          /\ Rounded(3 * p.annualRates, 2) \in Int
      <4>1. /\ 8 * p.annualRates \in Int /\ 4 * p.annualRates \in Int
            /\ 3 * p.annualRates \in Int /\ 1 \in Nat \ {0} /\ 2 \in Nat \ {0}
        BY <2>2
      <4> QED
        BY <4>1, RoundedIsNear
    <3> QED
      BY <2>1, <2>2, <3>1 DEF HeuristicRates
  <2> HIDE DEF guess
  <2>4. 3 * guess \in Int
    BY <2>3
  <2>5. ConservativeYears \in Nat /\ 3 <= ConservativeYears /\ Dollar \in Nat
    BY EngineAssumption
  <2>6. 1 * ((ConservativeYears + 1) * Dollar) >= 0
    BY <2>5
  <2>7. CASE guess > 0
    <3>1. guess * 3 <= guess * ConservativeYears /\ guess * 3 = 3 * guess
          /\ guess * ConservativeYears = ConservativeYears * guess
          /\ guess * ConservativeYears \in Int
      BY <2>3, <2>5, <2>7, Times
    <3>2. Within(3 * guess, guess, ConservativeYears)
      BY <2>3, <2>5, <2>6, <2>7, <3>1 DEF Within, AtMost
    <3> QED
      BY <1>1, <1>3, <1>5, <2>3, <2>4, <3>2 DEF MoneyIsWithin
  <2>8. CASE ~ (guess > 0)
    <3>1. (-guess) * 3 <= (-guess) * ConservativeYears /\ (-guess) * 3 = -(3 * guess)
          /\ (-guess) * ConservativeYears = ConservativeYears * (-guess)
          /\ (-guess) * ConservativeYears \in Int
      BY <2>3, <2>5, <2>8, Times
    <3>2. Within(3 * guess, guess, ConservativeYears)
      BY <2>3, <2>5, <2>6, <2>8, <3>1 DEF Within, AtMost
    <3> QED
      BY <1>1, <1>3, <1>5, <2>3, <2>4, <3>2 DEF MoneyIsWithin
  <2> QED
    BY <2>7, <2>8
<1> QED
  BY <1>4, <1>5

ListIsSound(result) ==
    /\ \A c \in result.candidates \cup result.overtaxedCandidates :
          ScoreIsDistinct(c) /\ MoneyIsWithin(c)
    /\ LET stats == RecoveryStats(result.candidates) IN
          /\ stats.totalArrears3yAud >= 0
          /\ AtMost(stats.totalArrears3yAud, stats.totalUpliftAud, ConservativeYears,
                    stats.total)

\* So does the list of all that are.
LEMMA SweepIsSound ==
  ASSUME NEW ctx, GoodContext(ctx)
  PROVE  ListIsSound(FindMismatchesWithOvertax(ctx))
<1> DEFINE P == {q \in ctx.properties : /\ q.state = TargetStateScope
                                        /\ EvaluateSignals(q, ctx) # << >>}
           all == {CandidateOf(p, ctx) : p \in P}
           T == {c \in all : c.estUplift > 0}
           over == {c \in all : c.estUplift < 0}
           w == [c \in T |-> c.estUplift]
           v == [c \in T |-> c.estArrears3y]
<1>1. FindMismatchesWithOvertax(ctx) = [candidates |-> T, overtaxedCandidates |-> over]
  BY DEF FindMismatchesWithOvertax, Split
<1>2. \A c \in all : /\ ScoreIsDistinct(c) /\ c.estUplift \in Int /\ c.estArrears3y \in Int
                     /\ c.estUplift # 0 => MoneyIsWithin(c)
  <2>1. \A p \in P : p \in ctx.properties
    OBVIOUS
  <2> HIDE DEF P
  <2> QED
    BY <2>1, CandidateIsSound
<1>3. IsFiniteSet(all)
  <2> DEFINE f == [p \in P |-> CandidateOf(p, ctx)]
  <2>1. IsFiniteSet(P)
    BY FS_Subset DEF GoodContext
  <2>2. f \in Surjection(P, all)
    BY DEF Surjection
  <2> HIDE DEF f, P, all
  <2> QED
    BY <2>1, <2>2, FS_Surjection
<1> HIDE DEF all
<1>4. IsFiniteSet(T)
  BY <1>3, FS_Subset
<1> DEFINE slack == (ConservativeYears + 1) * Dollar
<1>5. \A c \in T : /\ c.estUplift \in Int /\ c.estArrears3y \in Int /\ c.estArrears3y >= 0
                   /\ 2 * c.estArrears3y <= 2 * (ConservativeYears * c.estUplift) + slack
  <2>1. \A c \in T : c \in all /\ c.estUplift > 0
    OBVIOUS
  <2>2. \A c \in T : /\ c.estUplift \in Int /\ c.estUplift > 0 /\ c.estArrears3y \in Int
                     /\ Within(c.estArrears3y, c.estUplift, ConservativeYears)
    BY <1>2, <2>1 DEF MoneyIsWithin
  <2>3. 1 * slack = slack
    BY EngineAssumption
  <2> HIDE DEF T
  <2> QED
    BY <2>2, <2>3 DEF Within, AtMost
<1>6. \A c \in T \cup over : c \in all /\ c.estUplift # 0
  BY <1>2
<1>7. ConservativeYears \in Nat /\ slack \in Nat
  BY EngineAssumption
<1> HIDE DEF T, over, slack
<1>8. /\ SumFunction(v) >= 0
      /\ 2 * SumFunction(v) <= 2 * (ConservativeYears * SumFunction(w)) + Cardinality(T) * slack
  <2>1. w \in [T -> Int] /\ v \in [T -> Int]
    BY <1>5
  <2>2. \A c \in T : v[c] >= 0 /\ 2 * v[c] <= 2 * (ConservativeYears * w[c]) + slack
    BY <1>5
  <2> HIDE DEF w, v
  <2> QED
    BY <1>4, <1>7, <2>1, <2>2, SumsCompare
<1>9. AtMost(SumFunction(v), SumFunction(w), ConservativeYears, Cardinality(T))
  BY <1>8 DEF AtMost, slack
<1>10. /\ RecoveryStats(T).total = Cardinality(T)
       /\ RecoveryStats(T).totalUpliftAud = SumFunction(w)
       /\ RecoveryStats(T).totalArrears3yAud = SumFunction(v)
  BY DEF RecoveryStats, SumOf
<1> HIDE DEF w, v
<1>11. \A c \in T \cup over : ScoreIsDistinct(c) /\ MoneyIsWithin(c)
  BY <1>2, <1>6
<1> QED
  BY <1>1, <1>8, <1>9, <1>10, <1>11 DEF ListIsSound

DataInv ==
    /\ now \in Nat
    /\ roll \in [Assessments -> UNION Range(RowsOf)]
    /\ \A an \in Assessments : roll[an] \in RowsOf[an]
    /\ register \in Registers /\ feeds \in Feeds

\* Whatever is cached, read or listed comes from such data.
SoundInv ==
    /\ DataInv
    /\ building \in [Officers -> {building[o] : o \in Officers}]
    /\ \A o \in Officers : building[o] # Null /\ "ctx" \in DOMAIN building[o]
                              => GoodContext(building[o].ctx)
    /\ tenantCtx # Null => GoodContext(tenantCtx.ctx)
    /\ globalCtx # Null => GoodContext(globalCtx.ctx)
    /\ memo # Null => ListIsSound(memo.result)
    /\ served # Null => ListIsSound(served.sweep.result)

LEMMA SoundStart == SweepInit => SoundInv
BY DEF SweepInit, SoundInv, DataInv

\* What is read of such data.
LEMMA ReadsAreGood ==
  ASSUME DataInv
  PROVE  /\ \A tenements : GoodContext(ContextOf(Rows, tenements))
         /\ \A tenements : GoodContext(ContextOf(Bundled.properties, tenements))
         /\ \A candidates : GoodContext(TenantContext(candidates))
<1>1. ASSUME NEW properties, IsFiniteSet(properties), \A p \in properties : IsRow(p),
             NEW tenements
      PROVE  GoodContext(ContextOf(properties, tenements))
  BY <1>1, DataAssumption DEF GoodContext, ContextOf, DataInv
<1>2. IsFiniteSet(Rows) /\ \A p \in Rows : IsRow(p)
  <2>1. \A p \in Rows : IsRow(p)
    BY DataAssumption DEF Rows, DataInv
  <2>2. roll \in Surjection(Assessments, Rows)
    BY DEF Surjection, Rows, DataInv
  <2>3. IsFiniteSet(Assessments)
    BY DataAssumption
  <2> HIDE DEF Rows
  <2> QED
    BY <2>1, <2>2, <2>3, FS_Surjection
<1>3. IsFiniteSet(Bundled.properties) /\ \A p \in Bundled.properties : IsRow(p)
  BY DataAssumption
<1>4. ASSUME NEW candidates
      PROVE  GoodContext(TenantContext(candidates))
  <2> DEFINE properties == IF candidates \in {Null, {}} THEN OwnRows
                           ELSE {p \in OwnRows : p.assessmentNumber \in candidates}
             numbers == {p.assessmentNumber : p \in properties}
             tenements == {[t EXCEPT !.intersects = @ \cap numbers] :
                              t \in {u \in register : u.intersects \cap numbers # {}}}
  <2>1. TenantContext(candidates) = ContextOf(properties, tenements)
    BY DEF TenantContext
  <2>2. properties \in SUBSET Rows
    BY DEF OwnRows
  <2>3. IsFiniteSet(properties) /\ \A p \in properties : IsRow(p)
    BY <1>2, <2>2, FS_Subset
  <2> HIDE DEF properties, tenements
  <2> QED
    BY <1>1, <2>1, <2>3
<1> QED
  BY <1>1, <1>2, <1>3, <1>4

\* What is served, whoever asks.
LEMMA ServesSound ==
  ASSUME NEW who, NEW CONSTANT cached, NEW CONSTANT at \in Nat, at = now,
         GoodContext(cached.ctx), Serve(who, cached),
         memo # Null => ListIsSound(memo.result)
  PROVE  ListIsSound(memo'.result) /\ ListIsSound(served'.sweep.result)
<1> DEFINE ctx == [cached.ctx EXCEPT !.now = at]
           result == FindMismatchesWithOvertax(ctx)
           swept == IF MemoHolds(cached) THEN memo
                    ELSE [id |-> cached.id, ts |-> cached.ts, sweptAt |-> now, result |-> result]
<1>1. memo' = swept /\ served' = [by |-> who, at |-> now, sweep |-> swept]
  BY DEF Serve
<1>2. GoodContext(ctx)
  BY DEF GoodContext
<1>3. ListIsSound(result)
  BY <1>2, SweepIsSound
<1> HIDE DEF result
<1>4. ListIsSound(swept.result)
  BY <1>3 DEF MemoHolds
<1> HIDE DEF swept
<1> QED
  BY <1>1, <1>4

LEMMA SoundStep == SoundInv /\ [SweepNext]_sweepVars => SoundInv'
<1> SUFFICES ASSUME SoundInv, [SweepNext]_sweepVars PROVE SoundInv'
  OBVIOUS
<1> USE DEF SoundInv
<1>1. CASE Tick \/ RollChanges \/ RegisterChanges \/ UNCHANGED sweepVars
  <2>1. UNCHANGED <<building, tenantCtx, globalCtx, memo, served>>
    BY <1>1 DEF Tick, RollChanges, RegisterChanges, sweepVars, tenantVars, globalVars, listVars
  <2>2. DataInv'
    <3>1. CASE Tick \/ UNCHANGED sweepVars
      BY <3>1 DEF Tick, sweepVars, rollVars, DataInv
    <3>2. CASE RollChanges
      <4>1. PICK an \in Assessments :
               \E row \in RowsOf[an] : roll' = [roll EXCEPT ![an] = row]
        BY <3>2 DEF RollChanges
      <4>2. PICK row \in RowsOf[an] : roll' = [roll EXCEPT ![an] = row]
        BY <4>1
      <4>3. UNCHANGED <<now, register, feeds>>
        BY <3>2 DEF RollChanges
      <4>4. row \in UNION Range(RowsOf)
        BY DEF Range, Assessments
      <4> QED
        BY <4>2, <4>3, <4>4 DEF DataInv
    <3>3. CASE RegisterChanges
      BY <3>3 DEF RegisterChanges, DataInv
    <3> QED
      BY <1>1, <3>1, <3>2, <3>3
  <2> QED
    BY <2>1, <2>2
<1>2. ASSUME UNCHANGED <<now, roll, register, feeds>>
      PROVE  DataInv'
  BY <1>2 DEF DataInv
<1>3. CASE InvalidateEvaluationContext
  <2>1. UNCHANGED <<now, roll, register, feeds, building, tenantCtx, memo, served>>
        /\ globalCtx' = Null
    BY <1>3 DEF InvalidateEvaluationContext, rollVars, tenantVars, listVars
  <2> QED
    BY <1>2, <2>1
<1>4. CASE RefreshEnds
  <2>1. /\ UNCHANGED <<now, roll, register, feeds, building, tenantCtx, memo, served>>
        /\ \/ globalCtx' = NewContext(ReadNow(ContextOf(Rows, register)))
           \/ UNCHANGED globalCtx
    BY <1>4 DEF RefreshEnds, rollVars, tenantVars, listVars
  <2>2. GoodContext(NewContext(ReadNow(ContextOf(Rows, register))).ctx)
    BY ReadsAreGood DEF NewContext, ReadNow
  <2> QED
    BY <1>2, <2>1, <2>2
<1>5. CASE AdminList
  <2> DEFINE fresh == NewContext(ReadNow(ContextOf(Bundled.properties, Bundled.tenements)))
  <2>1. PICK cached : cached = IF globalCtx = Null THEN fresh ELSE globalCtx
    OBVIOUS
  <2>2. /\ globalCtx' = cached /\ Serve("platform_admin", cached)
        /\ UNCHANGED <<now, roll, register, feeds, building, tenantCtx>>
    BY <1>5, <2>1 DEF AdminList, rollVars, tenantVars
  <2>3. GoodContext(fresh.ctx)
    BY ReadsAreGood DEF NewContext, ReadNow
  <2> HIDE DEF fresh
  <2>4. GoodContext(cached.ctx)
    BY <2>1, <2>3
  <2>5. PICK at \in Nat : at = now
    BY DEF DataInv
  <2>6. ListIsSound(memo'.result) /\ ListIsSound(served'.sweep.result)
    BY <2>2, <2>4, <2>5, ServesSound
  <2> QED
    BY <1>2, <2>2, <2>4, <2>6
<1>6. ASSUME NEW o \in Officers, ListHit(o)
      PROVE  SoundInv'
  <2>1. /\ tenantCtx # Null /\ Serve(o, tenantCtx)
        /\ UNCHANGED <<now, roll, register, feeds, building, tenantCtx, globalCtx>>
    BY <1>6 DEF ListHit, Valid, rollVars, tenantVars, globalVars
  <2>2. PICK cached : cached = tenantCtx
    OBVIOUS
  <2>3. PICK at \in Nat : at = now
    BY DEF DataInv
  <2>4. ListIsSound(memo'.result) /\ ListIsSound(served'.sweep.result)
    BY <2>1, <2>2, <2>3, ServesSound
  <2> QED
    BY <1>2, <2>1, <2>4
<1>7. ASSUME NEW o \in Officers, ListBuilt(o)
      PROVE  SoundInv'
  <2>1. /\ building[o] # Null /\ "ctx" \in DOMAIN building[o]
        /\ tenantCtx' = NewContext(building[o]) /\ Serve(o, tenantCtx')
        /\ building' = [building EXCEPT ![o] = Null]
        /\ UNCHANGED <<now, roll, register, feeds, globalCtx>>
    BY <1>7 DEF ListBuilt, rollVars, globalVars
  <2>2. PICK cached : cached = NewContext(building[o])
    OBVIOUS
  <2>3. GoodContext(cached.ctx)
    BY <2>1, <2>2 DEF NewContext
  <2>4. PICK at \in Nat : at = now
    BY DEF DataInv
  <2>5. Serve(o, cached)
    BY <2>1, <2>2 DEF Serve, MemoHolds
  <2>6. ListIsSound(memo'.result) /\ ListIsSound(served'.sweep.result)
    BY <2>3, <2>4, <2>5, ServesSound
  <2>7. building' \in [Officers -> {building'[u] : u \in Officers}]
    BY <2>1
  <2>8. \A u \in Officers : building'[u] # Null /\ "ctx" \in DOMAIN building'[u]
                               => GoodContext(building'[u].ctx)
    BY <2>1
  <2> QED
    BY <1>2, <2>1, <2>2, <2>3, <2>6, <2>7, <2>8
<1>8. ASSUME NEW o \in Officers, ListMiss(o) \/ ListRead(o) \/ ListFails(o)
      PROVE  SoundInv'
  <2>1. /\ UNCHANGED <<now, roll, register, feeds, tenantCtx, globalCtx, memo, served>>
        /\ \E read : /\ building' = [building EXCEPT ![o] = read]
                     /\ read # Null /\ "ctx" \in DOMAIN read => GoodContext(read.ctx)
    <3>1. CASE ListMiss(o)
      <4>1. PICK answer : building' = [building EXCEPT ![o] = [candidates |-> answer]]
        BY <3>1 DEF ListMiss
      <4> DEFINE read == [candidates |-> answer]
      <4>2. "ctx" \notin DOMAIN read
        OBVIOUS
      <4>3. UNCHANGED <<now, roll, register, feeds, tenantCtx, globalCtx, memo, served>>
        BY <3>1 DEF ListMiss, rollVars, listVars, globalVars
      <4> HIDE DEF read
      <4>4. building' = [building EXCEPT ![o] = read]
        BY <4>1 DEF read
      <4> QED
        BY <4>2, <4>3, <4>4
    <3>2. CASE ListRead(o)
      <4>1. PICK read : /\ read = ReadNow(TenantContext(building[o].candidates))
                        /\ building' = [building EXCEPT ![o] = read]
        BY <3>2 DEF ListRead
      <4>2. GoodContext(read.ctx)
        BY <4>1, ReadsAreGood DEF ReadNow
      <4>3. UNCHANGED <<now, roll, register, feeds, tenantCtx, globalCtx, memo, served>>
        BY <3>2 DEF ListRead, rollVars, listVars, globalVars
      <4> QED
        BY <4>1, <4>2, <4>3
    <3>3. CASE ListFails(o)
      BY <3>3 DEF ListFails, rollVars, listVars, globalVars
    <3> QED
      BY <1>8, <3>1, <3>2, <3>3
  <2>2. PICK read : /\ building' = [building EXCEPT ![o] = read]
                    /\ read # Null /\ "ctx" \in DOMAIN read => GoodContext(read.ctx)
    BY <2>1
  <2>3. building' \in [Officers -> {building'[u] : u \in Officers}]
    BY <2>2
  <2>4. \A u \in Officers : building'[u] # Null /\ "ctx" \in DOMAIN building'[u]
                               => GoodContext(building'[u].ctx)
    BY <2>2
  <2> QED
    BY <1>2, <2>1, <2>3, <2>4
<1> QED
  BY <1>1, <1>3, <1>4, <1>5, <1>6, <1>7, <1>8 DEF SweepNext

(***************************************************************************)
(* However an upstream feed repeats its entries, the score of a property   *)
(* on a list is that of its distinct signals, of the tenement class the    *)
(* heaviest alone, and at most 1 (evaluateSignals, computeComposite).      *)
(***************************************************************************)
THEOREM RepetitionsDoNotCount == SweepSpec => []DistinctEvidenceOnly
<1>1. SoundInv => DistinctEvidenceOnly
  BY DEF SoundInv, ListIsSound, ScoreIsDistinct, DistinctEvidenceOnly, Listed
<1> QED
  BY <1>1, SoundStart, SoundStep, PTL DEF SweepSpec

(***************************************************************************)
(* Whatever the rate tables, the valuations and the dates: the amounts on  *)
(* a list have the sign of their uplift and keep to the ceilings of three  *)
(* and five years, and so do the totals (calculateUplift, recoveryStats).  *)
(***************************************************************************)
THEOREM ArrearsKeepTheirCeilings == SweepSpec => []ArrearsWithinCeilings
<1>1. SoundInv => ArrearsWithinCeilings
  BY DEF SoundInv, ListIsSound, MoneyIsWithin, ArrearsWithinCeilings, Listed
<1> QED
  BY <1>1, SoundStart, SoundStep, PTL DEF SweepSpec

-----------------------------------------------------------------------------
(* What the pre-filter lets through. *)

\* Two tenements between which no signal tells.
Alike(t, u) ==
    /\ t.tenementId = u.tenementId /\ t.type = u.type /\ t.status = u.status
    /\ t.isProducing = u.isProducing /\ t.holder = u.holder /\ t.granted = u.granted
AllAlike(A, B) ==
    /\ \A t \in A : \E u \in B : Alike(t, u)
    /\ \A u \in B : \E t \in A : Alike(t, u)

LEMMA ClassOfAlike ==
  ASSUME NEW p, NEW A, NEW B, AllAlike(A, B)
  PROVE  TenementClassHits(p, A) = TenementClassHits(p, B)
<1>1. AllAlike(Live(A), Live(B))
  BY DEF AllAlike, Alike, Live
<1> DEFINE a == Live(A)
           b == Live(B)
<1>2. /\ (\E t \in a : t.isProducing /\ t.type = "M") <=> (\E t \in b : t.isProducing /\ t.type = "M")
      /\ (\E t \in a : t.isProducing /\ t.type = "G") <=> (\E t \in b : t.isProducing /\ t.type = "G")
      /\ (\E t \in a : t.type = "M") <=> (\E t \in b : t.type = "M")
      /\ (\A t \in a : t.type \in {"E", "P"}) <=> (\A t \in b : t.type \in {"E", "P"})
      /\ a # {} <=> b # {}
  BY <1>1 DEF AllAlike, Alike
<1> QED
  BY <1>2 DEF TenementClassHits, When

\* Contexts that differ in nothing a signal of p depends on but the portfolio.
LEMMA HitsOfAlike ==
  ASSUME NEW p, NEW c, NEW d, AllAlike(TenementsAt(p, c), TenementsAt(p, d)),
         c.now = d.now, c.lag = d.lag, c.discrepancies = d.discrepancies,
         c.approved = d.approved, c.owners = d.owners, c.titles = d.titles,
         c.deceased = d.deceased,
         HighValueRural(p, c) <=> HighValueRural(p, d)
  PROVE  FixedHits(p, c) \ {"beh.owner_portfolio_tenement_majority"}
            = FixedHits(p, d) \ {"beh.owner_portfolio_tenement_majority"}
<1> DEFINE A == TenementsAt(p, c)
           B == TenementsAt(p, d)
           portfolio == "beh.owner_portfolio_tenement_majority"
<1>1. AllAlike(Live(A), Live(B))
  BY DEF AllAlike, Alike, Live
<1>2. RegisterHits(p, c) = RegisterHits(p, d)
  <2>1. TenementClassHits(p, A) = TenementClassHits(p, B)
    BY ClassOfAlike
  <2>2. (\E t \in Live(A) : RecentlyGranted(t, c)) <=> (\E t \in Live(B) : RecentlyGranted(t, d))
    BY <1>1 DEF AllAlike, Alike, RecentlyGranted
  <2>3. (\E t \in A : t.tenementId \in c.approved) <=> (\E t \in B : t.tenementId \in d.approved)
    BY DEF AllAlike, Alike
  <2> HIDE DEF A, B
  <2> QED
    BY <2>1, <2>2, <2>3 DEF RegisterHits, When, A, B
<1>3. OwnerHits(p, c) \ {portfolio} = OwnerHits(p, d) \ {portfolio}
  <2> DEFINE owner == c.owners[p.owner]
             Rest(x) == When(owner.abnStatus \notin {Null, "Active"}, "id.abn.cancelled_or_suspended")
                        \cup When(\E t \in Live(TenementsAt(p, x)) : t.holder # owner.name,
                                  "id.holder_ne_owner")
                        \cup When(RuralOrVacant(p) /\ owner.industryTerm,
                                  "id.industry_indicator_in_owner_name")
                        \cup When(HighValueRural(p, x), "spat.outlier.high_value_rural")
  <2>1. OwnerHits(p, c) \ {portfolio} = Rest(c)
    BY DEF OwnerHits, When
  <2>2. OwnerHits(p, d) \ {portfolio} = Rest(d)
    BY DEF OwnerHits, When
  <2>3. (\E t \in Live(A) : t.holder # owner.name) <=> (\E t \in Live(B) : t.holder # owner.name)
    BY <1>1 DEF AllAlike, Alike
  <2>4. Rest(c) = Rest(d)
    BY <2>3 DEF When
  <2> QED
    BY <2>1, <2>2, <2>4
<1>4. TitleHits(p, c) = TitleHits(p, d)
  BY DEF TitleHits
<1>5. ConcessionHits(p, c) = ConcessionHits(p, d)
  BY DEF ConcessionHits
<1> QED
  BY <1>2, <1>3, <1>4, <1>5 DEF FixedHits

(***************************************************************************)
(* On a property that the SQL pre-filter lets through, the signals fire    *)
(* that would with every row of the tenant loaded, but for the one on the  *)
(* owner's portfolio: a tenement is loaded with the loaded properties it   *)
(* meets, and of the rural peers none is left out (mismatchSql).           *)
(***************************************************************************)
THEOREM FilteredVerdictsHold == SweepSpec => []PrefilterKeepsVerdicts
<1>1. ASSUME SoundInv
      PROVE  PrefilterKeepsVerdicts
  <2> DEFINE all == ContextOf(OwnRows, register)
             candidates == CandidateNumbers
             kept == TenantContext(candidates)
             properties == IF candidates \in {Null, {}} THEN OwnRows
                           ELSE {p \in OwnRows : p.assessmentNumber \in candidates}
             numbers == {p.assessmentNumber : p \in properties}
             Cut(t) == [t EXCEPT !.intersects = @ \cap numbers]
             tenements == {Cut(t) : t \in {u \in register : u.intersects \cap numbers # {}}}
  <2>1. kept = ContextOf(properties, tenements)
    BY DEF TenantContext
  <2>2. /\ kept.properties = properties /\ kept.tenements = tenements
        /\ all.properties = OwnRows /\ all.tenements = register
        /\ kept.now = all.now /\ kept.lag = all.lag /\ kept.discrepancies = all.discrepancies
        /\ kept.approved = all.approved /\ kept.owners = all.owners /\ kept.titles = all.titles
        /\ kept.deceased = all.deceased /\ kept.changes = all.changes
    BY <2>1 DEF ContextOf
  <2>3. properties \subseteq OwnRows
    OBVIOUS
  <2>4. \A q \in OwnRows : q.landUse = "Rural" => q \in properties
    BY DEF CandidateNumbers, FindCandidates, RuralOrVacant
  <2>5. \A t \in register : TenementFields \subseteq DOMAIN t
    BY <1>1, DataAssumption DEF SoundInv, DataInv
  <2>6. ASSUME NEW t \in register
        PROVE  Alike(Cut(t), t) /\ Cut(t).intersects = t.intersects \cap numbers
    BY <2>5 DEF TenementFields, Alike
  <2> HIDE DEF kept, all, properties, candidates, Cut
  <2>7. ASSUME NEW p \in properties
        PROVE  AllAlike(TenementsAt(p, kept), TenementsAt(p, all))
    <3>1. p.assessmentNumber \in numbers
      OBVIOUS
    <3>2. ASSUME NEW t \in TenementsAt(p, kept)
          PROVE  \E u \in TenementsAt(p, all) : Alike(t, u)
      <4>1. PICK u \in register : t = Cut(u)
        BY <2>2 DEF TenementsAt
      <4>2. p.assessmentNumber \in u.intersects
        BY <2>6, <4>1 DEF TenementsAt
      <4> QED
        BY <2>2, <2>6, <4>1, <4>2 DEF TenementsAt
    <3>3. ASSUME NEW u \in TenementsAt(p, all)
          PROVE  \E t \in TenementsAt(p, kept) : Alike(t, u)
      <4>1. u \in register /\ p.assessmentNumber \in u.intersects
        BY <2>2 DEF TenementsAt
      <4>2. Cut(u) \in tenements
        BY <3>1, <4>1
      <4> QED
        BY <2>2, <2>6, <3>1, <4>1, <4>2 DEF TenementsAt
    <3> QED
      BY <3>2, <3>3 DEF AllAlike
  <2>8. ASSUME NEW p \in properties
        PROVE  HighValueRural(p, kept) <=> HighValueRural(p, all)
    <3>1. {q \in kept.properties : q.suburb = p.suburb /\ q.landUse = "Rural"}
             = {q \in all.properties : q.suburb = p.suburb /\ q.landUse = "Rural"}
      BY <2>2, <2>3, <2>4
    <3> QED
      BY <3>1 DEF HighValueRural
  <2>9. ASSUME NEW p \in properties
        PROVE  /\ FixedHits(p, kept) \ {"beh.owner_portfolio_tenement_majority"}
                     = FixedHits(p, all) \ {"beh.owner_portfolio_tenement_majority"}
               /\ p.assessmentNumber \in Assessments
    <3>1. p.assessmentNumber \in Assessments
      BY <1>1, <2>3, DataAssumption DEF OwnRows, Rows, SoundInv, DataInv, IsRow
    <3> QED
      BY <2>2, <2>7, <2>8, <3>1, HitsOfAlike
  <2>10. \A an \in Assessments : kept.changes[an] \in Seq(ChangeEntries)
                                 /\ all.changes[an] \in Seq(ChangeEntries)
    BY <1>1, <2>2, DataAssumption DEF SoundInv, DataInv, ContextOf, all
  <2>11. ASSUME NEW p \in properties
         PROVE  /\ ToSet(EvaluateSignals(p, kept))
                     = FixedHits(p, kept) \cup ToSet(ChangeHits(kept.changes[p.assessmentNumber]))
                /\ ToSet(EvaluateSignals(p, all))
                     = FixedHits(p, all) \cup ToSet(ChangeHits(all.changes[p.assessmentNumber]))
    BY <2>9, <2>10, SignalsAreListed DEF Lists
  <2>12. \A p \in properties :
            ToSet(EvaluateSignals(p, kept)) \ {"beh.owner_portfolio_tenement_majority"}
               = ToSet(EvaluateSignals(p, all)) \ {"beh.owner_portfolio_tenement_majority"}
    BY <2>2, <2>9, <2>11
  <2> QED
    BY <2>2, <2>12 DEF PrefilterKeepsVerdicts, kept, all, candidates
<1> QED
  BY <1>1, SoundStart, SoundStep, PTL DEF SweepSpec

=============================================================================
