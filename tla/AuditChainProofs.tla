-------------------------- MODULE AuditChainProofs --------------------------
(***************************************************************************)
(* Proofs about the three keepers of the trail, and the route that reads   *)
(* the first of them back.                                                 *)
(*                                                                         *)
(* AuditChain, for every set of calls, tenants, targets and lock keys: the *)
(* inductive invariant IInv adds to TypeOK and ChainLinear who holds which *)
(* lock, what a writer past its head query knows, and that a committed row *)
(* names a committed call no other row names.                              *)
(*                                                                         *)
(* PdfReceipts, for every set of tasks, users, references and contents:    *)
(* ReceiptsInv says that whatever is held was issued, and that the write   *)
(* of a reference applied last is the one its row shows.                   *)
(*                                                                         *)
(* InMemoryAudit, for every capacity and number of tenants: MemoryInv says *)
(* how the rows of a tenant are numbered and linked, up to the hash in the *)
(* Map, and that an answer is about a window closed under later rows.      *)
(*                                                                         *)
(* AuditVerify, for every set of ids and legacy ids, clock and skew:       *)
(* RouteInv says that the table is the chain the writers made but for the  *)
(* one row rewritten or deleted, and that an answer is about that table.   *)
(***************************************************************************)
EXTENDS AuditChain, InMemoryAudit, PdfReceipts, AuditVerify, SequenceTheorems,
        FiniteSetTheorems, WellFoundedInduction, TLAPS

\* A function on 1..n is a sequence over any set that holds its values.
LEMMA FunctionIsSeq ==
  ASSUME NEW S, NEW n \in Nat, NEW f \in [1 .. n -> S]
  PROVE  f \in Seq(S)
BY SeqDef

\* What appending one element does to a sequence, in the terms TypeOK uses.
LEMMA AppendFacts ==
  ASSUME NEW s, s \in Seq(Items(s)), NEW e
  PROVE  /\ Len(s) \in Nat
         /\ s = << >> <=> Len(s) = 0
         /\ Len(Append(s, e)) = Len(s) + 1
         /\ \A i \in 1 .. Len(s) : Append(s, e)[i] = s[i]
         /\ Append(s, e)[Len(s) + 1] = e
         /\ Append(s, e) # << >>
         /\ Append(s, e) \in Seq(Items(Append(s, e)))
<1> DEFINE S == Items(s) \cup {e}
           q == Append(s, e)
<1>1. s \in Seq(S)
  <2>1. s \in [1 .. Len(s) -> Items(s)]
    BY LenProperties
  <2>2. s \in [1 .. Len(s) -> S]
    BY <2>1
  <2>3. Len(s) \in Nat
    BY LenProperties
  <2> QED BY <2>2, <2>3, SeqDef
<1>2. /\ Len(s) \in Nat
      /\ Len(q) = Len(s) + 1
      /\ \A i \in 1 .. Len(s) : q[i] = s[i]
      /\ q[Len(s) + 1] = e
      /\ q \in Seq(S)
      /\ q # << >>
  BY <1>1, AppendProperties, LenProperties
<1>3. s = << >> <=> Len(s) = 0
  BY <1>1, EmptySeq
<1>4. q \in [1 .. Len(q) -> Items(q)]
  <2>1. q \in [1 .. Len(q) -> S]
    BY <1>2, LenProperties
  <2> QED BY <2>1 DEF Items
<1>5. q \in Seq(Items(q))
  <2>1. Len(q) \in Nat
    BY <1>2
  <2> HIDE DEF q
  <2> QED BY <2>1, <1>4, FunctionIsSeq
<1> QED BY <1>2, <1>3, <1>5

-----------------------------------------------------------------------------
\* Between lockTenantChain and the end of the transaction c holds the lock.
LockHeld ==
    \A c \in Calls : pc[c] \in {"locked", "sawHead", "inserted"}
                       => chainLock[Key(c)] = c

\* What the head query returned is still the tip when c commits.
PrevIsTip ==
    \A c \in Calls : pc[c] \in {"sawHead", "inserted"}
                       => prevHash[c] = Tip(TenantOfCall(c))

Wrote(c) == /\ Op[c] = "withAudit"
            /\ pc[c] \in {"wrote", "sawAfter", "locked", "sawHead", "inserted"}

\* A row lock is held by exactly the mutation that wrote the row.
RowLockHeld ==
    \A x \in Targets, c \in Calls : rowLock[x] = c <=> Target[c] = x /\ Wrote(c)

\* The after snapshot is the value the call wrote; an event has none and
\* never runs the statements of a mutation.
AfterKnown ==
    \A c \in Calls :
        /\ Op[c] = "recordAuditEvent" =>
              after[c] = None /\ pc[c] \notin {"sawBefore", "wrote", "sawAfter"}
        /\ Wrote(c) /\ pc[c] # "wrote" => after[c] = c

\* A committed row is the row of a committed call of its tenant.
RowsCommitted ==
    \A t \in Tenants : \A i \in 1 .. Len(auditLog[t]) :
        LET b == auditLog[t][i].body IN
        /\ pc[b.id] = "committed"
        /\ b.tenantId = t /\ TenantOfCall(b.id) = t
        /\ b.target = Target[b.id]
        /\ b.after = IF Op[b.id] = "withAudit" THEN b.id ELSE None

\* No call has two rows.
IdsUnique ==
    \A t \in Tenants : \A i, j \in 1 .. Len(auditLog[t]) :
        auditLog[t][i].body.id = auditLog[t][j].body.id => i = j

IInv == /\ TypeOK /\ LockHeld /\ PrevIsTip /\ RowLockHeld /\ AfterKnown
        /\ RowsCommitted /\ IdsUnique /\ ChainLinear /\ TrailMatchesData

\* What a commit does to the log: one row more at the end of c's tenant.
LEMMA CommitAppends ==
  ASSUME TypeOK, NEW c \in Calls, Commit(c)
  PROVE  LET t == TenantOfCall(c) IN
         /\ t \in Tenants
         /\ DOMAIN auditLog' = Tenants
         /\ Len(auditLog[t]) \in Nat
         /\ auditLog[t] = << >> <=> Len(auditLog[t]) = 0
         /\ auditLog'[t] # << >>
         /\ Len(auditLog'[t]) = Len(auditLog[t]) + 1
         /\ \A i \in 1 .. Len(auditLog[t]) : auditLog'[t][i] = auditLog[t][i]
         /\ auditLog'[t][Len(auditLog[t]) + 1] = AuditRow(c)
         /\ auditLog'[t] \in Seq(Items(auditLog'[t]))
         /\ \A u \in Tenants \ {t} : auditLog'[u] = auditLog[u]
<1> DEFINE t == TenantOfCall(c)
<1>1. t \in Tenants
  BY ChainAssumption DEF TenantOfCall
<1>2. auditLog[t] \in Seq(Items(auditLog[t]))
  BY <1>1 DEF TypeOK, ChainedRows
<1>3. auditLog' = [auditLog EXCEPT ![t] = Append(@, AuditRow(c))]
  BY DEF Commit
<1>4. DOMAIN auditLog = Tenants
  BY DEF TypeOK
<1>5. auditLog'[t] = Append(auditLog[t], AuditRow(c))
  BY <1>1, <1>3, <1>4
<1>6. /\ DOMAIN auditLog' = Tenants
      /\ \A u \in Tenants \ {t} : auditLog'[u] = auditLog[u]
  BY <1>3, <1>4
<1> HIDE DEF t
<1>7. QED
  BY <1>1, <1>2, <1>5, <1>6, AppendFacts DEF t

-----------------------------------------------------------------------------
\* The invariant starts true: no lock is held and no row is chained.
LEMMA InitInv == Init => IInv
<1> SUFFICES ASSUME Init PROVE IInv
  OBVIOUS
<1>1. /\ << >> \in Seq(Items(<< >>)) /\ Len(<< >>) = 0
  BY EmptySeq
<1>2. TypeOK
  <2>1. \A t \in Tenants : auditLog[t] = << >>
    BY DEF Init
  <2>2. ASSUME NEW t \in Tenants
        PROVE  auditLog[t] \in Seq(ChainedRows(t)) /\ 1 .. Len(auditLog[t]) = {}
    <3>1. ChainedRows(t) = Items(<< >>)
      BY <2>1 DEF ChainedRows
    <3>2. auditLog[t] = << >>
      BY <2>1
    <3>3. auditLog[t] \in Seq(ChainedRows(t))
      BY <3>1, <3>2, <1>1
    <3>4. Len(auditLog[t]) = 0
      BY <3>2, <1>1
    <3> QED BY <3>3, <3>4
  <2> QED BY <2>2, ChainAssumption DEF Init, TypeOK, Values, Stages
<1>3. /\ \A t \in Tenants : 1 .. Len(auditLog[t]) = {}
      /\ \A x \in Targets : TenantOf[x] \in Tenants
  BY <1>1, ChainAssumption DEF Init
<1>4. LockHeld /\ PrevIsTip
  BY DEF Init, LockHeld, PrevIsTip
<1>5. RowLockHeld /\ AfterKnown
  BY ChainAssumption DEF Init, RowLockHeld, AfterKnown, Wrote
<1>6. RowsCommitted /\ IdsUnique /\ ChainLinear
  BY <1>3 DEF RowsCommitted, IdsUnique, ChainLinear
<1>7. TrailMatchesData
  BY <1>3 DEF Init, TrailMatchesData, MutationsOf
<1> QED BY <1>2, <1>4, <1>5, <1>6, <1>7 DEF IInv

\* The statements that leave the log and the data alone keep every part of
\* the invariant that speaks of them, as long as no committed call moves.
LEMMA LogUntouched ==
  ASSUME IInv, UNCHANGED <<data, auditLog>>,
         \A c \in Calls : pc[c] = "committed" => pc'[c] = "committed"
  PROVE  /\ RowsCommitted' /\ IdsUnique' /\ ChainLinear' /\ TrailMatchesData'
         /\ \A t \in Tenants : Tip(t)' = Tip(t)
         /\ \A t \in Tenants :
              /\ auditLog'[t] \in Seq(ChainedRows(t)')
              /\ \A i \in 1 .. Len(auditLog'[t]) :
                   /\ auditLog'[t][i].body \in Bodies
                   /\ auditLog'[t][i].rowHash =
                        ComputeRowHash(auditLog'[t][i].prevHash, auditLog'[t][i].body)
<1>1. \A t \in Tenants : \A i \in 1 .. Len(auditLog[t]) :
         auditLog[t][i].body.id \in Calls
  BY DEF IInv, TypeOK, Bodies
<1>2. RowsCommitted'
  BY <1>1 DEF IInv, RowsCommitted, TenantOfCall
<1>3. IdsUnique' /\ ChainLinear'
  BY DEF IInv, IdsUnique, ChainLinear
<1>4. TrailMatchesData'
  BY DEF IInv, TrailMatchesData, MutationsOf
<1>5. \A t \in Tenants : Tip(t)' = Tip(t)
  BY DEF Tip
<1>6. \A t \in Tenants : ChainedRows(t)' = ChainedRows(t)
  BY DEF ChainedRows
<1> QED BY <1>2, <1>3, <1>4, <1>5, <1>6 DEF IInv, TypeOK

-----------------------------------------------------------------------------
\* The statements before the commit.  Each one moves a single call from a
\* stage it names, so a call that holds a lock or knows the tip keeps both.
LEMMA BeginInv ==
  ASSUME IInv, NEW c \in Calls, Begin(c)
  PROVE  IInv'
<1> USE DEF IInv, Begin
<1>1. /\ RowsCommitted' /\ IdsUnique' /\ ChainLinear' /\ TrailMatchesData'
      /\ \A t \in Tenants : Tip(t)' = Tip(t)
  BY LogUntouched DEF TypeOK
<1>2. TypeOK'
  BY LogUntouched DEF TypeOK, Stages
<1>3. LockHeld' /\ PrevIsTip'
  BY <1>1, ChainAssumption DEF TypeOK, LockHeld, PrevIsTip, Key, TenantOfCall
<1>4. RowLockHeld' /\ AfterKnown'
  BY DEF TypeOK, RowLockHeld, AfterKnown, Wrote
<1> QED BY <1>1, <1>2, <1>3, <1>4

LEMMA ReadBeforeInv ==
  ASSUME IInv, NEW c \in Calls, ReadBefore(c)
  PROVE  IInv'
<1> USE DEF IInv, ReadBefore
<1>1. /\ RowsCommitted' /\ IdsUnique' /\ ChainLinear' /\ TrailMatchesData'
      /\ \A t \in Tenants : Tip(t)' = Tip(t)
  BY LogUntouched DEF TypeOK
<1>2. Visible(c, Target[c]) \in Values
  BY ChainAssumption DEF TypeOK, Visible, Values
<1>3. TypeOK'
  BY <1>2, LogUntouched DEF TypeOK, Stages
<1>4. LockHeld' /\ PrevIsTip'
  BY <1>1, ChainAssumption DEF TypeOK, LockHeld, PrevIsTip, Key, TenantOfCall
<1>5. RowLockHeld' /\ AfterKnown'
  BY DEF TypeOK, RowLockHeld, AfterKnown, Wrote
<1> QED BY <1>1, <1>3, <1>4, <1>5

LEMMA RunFnInv ==
  ASSUME IInv, NEW c \in Calls, RunFn(c)
  PROVE  IInv'
<1> USE DEF IInv, RunFn
<1>1. /\ RowsCommitted' /\ IdsUnique' /\ ChainLinear' /\ TrailMatchesData'
      /\ \A t \in Tenants : Tip(t)' = Tip(t)
  BY LogUntouched DEF TypeOK
<1>2. TypeOK'
  BY LogUntouched DEF TypeOK, Stages, Values
<1>3. LockHeld' /\ PrevIsTip'
  BY <1>1, ChainAssumption DEF TypeOK, LockHeld, PrevIsTip, Key, TenantOfCall
<1>4. Op[c] = "withAudit"
  BY ChainAssumption DEF TypeOK, AfterKnown
<1>5. RowLockHeld' /\ AfterKnown'
  BY <1>4, ChainAssumption DEF TypeOK, RowLockHeld, AfterKnown, Wrote
<1> QED BY <1>1, <1>2, <1>3, <1>5

LEMMA ReadAfterInv ==
  ASSUME IInv, NEW c \in Calls, ReadAfter(c)
  PROVE  IInv'
<1> USE DEF IInv, ReadAfter
<1>1. /\ RowsCommitted' /\ IdsUnique' /\ ChainLinear' /\ TrailMatchesData'
      /\ \A t \in Tenants : Tip(t)' = Tip(t)
  BY LogUntouched DEF TypeOK
<1>2. Op[c] = "withAudit"
  BY ChainAssumption DEF TypeOK, AfterKnown
<1>3. Visible(c, Target[c]) = c
  BY <1>2, ChainAssumption DEF RowLockHeld, Wrote, Visible
<1>4. TypeOK'
  BY <1>3, LogUntouched DEF TypeOK, Stages, Values
<1>5. LockHeld' /\ PrevIsTip'
  BY <1>1, ChainAssumption DEF TypeOK, LockHeld, PrevIsTip, Key, TenantOfCall
<1>6. RowLockHeld' /\ AfterKnown'
  BY <1>2, <1>3 DEF TypeOK, RowLockHeld, AfterKnown, Wrote
<1> QED BY <1>1, <1>4, <1>5, <1>6

LEMMA LockTenantChainInv ==
  ASSUME IInv, NEW c \in Calls, LockTenantChain(c)
  PROVE  IInv'
<1> USE DEF IInv, LockTenantChain, ReadyToLock
<1>1. /\ RowsCommitted' /\ IdsUnique' /\ ChainLinear' /\ TrailMatchesData'
      /\ \A t \in Tenants : Tip(t)' = Tip(t)
  BY LogUntouched DEF TypeOK
<1>2. TypeOK'
  BY LogUntouched DEF TypeOK, Stages, Values
<1>3. Key(c) \in LockKeys
  BY ChainAssumption DEF Key, TenantOfCall
<1>4. LockHeld'
  BY <1>3, ChainAssumption DEF TypeOK, LockHeld, Key, TenantOfCall
<1>5. PrevIsTip'
  BY <1>1, ChainAssumption DEF TypeOK, PrevIsTip, TenantOfCall
<1>6. RowLockHeld' /\ AfterKnown'
  BY ChainAssumption DEF TypeOK, RowLockHeld, AfterKnown, Wrote
<1> QED BY <1>1, <1>2, <1>4, <1>5, <1>6

-----------------------------------------------------------------------------
\* The families of hashes do not collide, and a row hash fixes its input.
LEMMA HashesDiffer ==
  ASSUME NEW t, NEW p, NEW b, NEW q, NEW d
  PROVE  /\ GenesisHash(t) # ComputeRowHash(p, b)
         /\ PRE_CHAIN_SENTINEL # ComputeRowHash(p, b)
         /\ PRE_CHAIN_SENTINEL # GenesisHash(t)
         /\ ComputeRowHash(p, b) = ComputeRowHash(q, d) => p = q /\ b = d
<1>1. /\ GenesisHash(t).kind = "genesis"
      /\ PRE_CHAIN_SENTINEL.kind = "sentinel"
      /\ ComputeRowHash(p, b).kind = "row"
  BY DEF GenesisHash, PRE_CHAIN_SENTINEL, ComputeRowHash
<1>2. /\ ComputeRowHash(p, b).prevHash = p /\ ComputeRowHash(p, b).body = b
      /\ ComputeRowHash(q, d).prevHash = q /\ ComputeRowHash(q, d).body = d
  BY DEF ComputeRowHash
<1> QED BY <1>1, <1>2

\* readChainHead finds the last committed row and nothing else: an earlier
\* row is extended by its successor, the last one by no row at all, because
\* a row that extended it would share its body and hence its id.
LEMMA HeadLemma == IInv => HeadIsTail
<1> SUFFICES ASSUME IInv, NEW t \in Tenants
             PROVE  Heads(t) = IF auditLog[t] = << >> THEN {}
                               ELSE {auditLog[t][Len(auditLog[t])]}
  BY DEF HeadIsTail
<1> DEFINE n == Len(auditLog[t])
           log(i) == auditLog[t][i]
<1>1. n \in Nat /\ (auditLog[t] = << >> <=> n = 0)
  BY AppendFacts DEF IInv, TypeOK, ChainedRows
<1>2. \A i \in 1 .. n : /\ log(i).rowHash = ComputeRowHash(log(i).prevHash, log(i).body)
                        /\ log(i).prevHash = IF i = 1 THEN GenesisHash(t)
                                             ELSE log(i - 1).rowHash
                        /\ \A j \in 1 .. n : log(i).body.id = log(j).body.id => i = j
  BY DEF IInv, TypeOK, ChainLinear, IdsUnique
<1>3. \A b \in RowsOf(t) :
         b.prevHash = PRE_CHAIN_SENTINEL \/ \E i \in 1 .. n : b = log(i)
  BY DEF RowsOf, LegacyRow, ChainedRows, Items
<1>4. \A i \in 1 .. n : log(i) \in RowsOf(t)
  BY DEF RowsOf, ChainedRows, Items
<1> HIDE DEF n, log
<1>5. \A i \in 1 .. n : log(i).prevHash # PRE_CHAIN_SENTINEL
  BY <1>1, <1>2, HashesDiffer
<1>6. ASSUME NEW i \in 1 .. n, i # n
      PROVE  \E b \in RowsOf(t) : b.prevHash = log(i).rowHash
  <2>1. i + 1 \in 1 .. n /\ i + 1 # 1 /\ (i + 1) - 1 = i
    BY <1>1, <1>6
  <2> QED BY <2>1, <1>2, <1>4
<1>7. ASSUME NEW b \in RowsOf(t), n # 0
      PROVE  b.prevHash # log(n).rowHash
  <2>1. n \in 1 .. n
    BY <1>1, <1>7
  <2>2. CASE b.prevHash = PRE_CHAIN_SENTINEL
    BY <2>1, <2>2, <1>2, HashesDiffer
  <2>3. ASSUME NEW i \in 1 .. n, b = log(i)
        PROVE  b.prevHash # log(n).rowHash
    <3>1. CASE i = 1
      BY <2>1, <2>3, <3>1, <1>2, HashesDiffer
    <3>2. CASE i # 1
      <4>1. i - 1 \in 1 .. n /\ i - 1 # n
        BY <1>1, <3>2
      <4>2. log(i - 1).body # log(n).body
        BY <4>1, <2>1, <1>2
      <4>3. log(i - 1).rowHash # log(n).rowHash
        BY <4>1, <4>2, <2>1, <1>2, HashesDiffer
      <4> QED BY <4>3, <3>2, <2>3, <1>2
    <3> QED BY <3>1, <3>2
  <2> QED BY <2>2, <2>3, <1>3
<1>8. CASE n = 0
  <2>1. Heads(t) = {}
    BY <1>8, <1>3 DEF Heads
  <2> QED BY <2>1, <1>8, <1>1
<1>9. CASE n # 0
  <2>1. n \in 1 .. n
    BY <1>1, <1>9
  <2>2. log(n) \in Heads(t)
    BY <2>1, <1>4, <1>5, <1>7, <1>9 DEF Heads
  <2>3. \A a \in Heads(t) : a = log(n)
    BY <1>3, <1>6 DEF Heads
  <2>4. Heads(t) = {log(n)}
    BY <2>2, <2>3
  <2> QED BY <2>4, <1>9, <1>1 DEF log, n
<1> QED BY <1>8, <1>9

LEMMA ReadChainHeadInv ==
  ASSUME IInv, NEW c \in Calls, ReadChainHead(c)
  PROVE  IInv'
<1> USE DEF IInv
<1>1. /\ RowsCommitted' /\ IdsUnique' /\ ChainLinear' /\ TrailMatchesData'
      /\ \A t \in Tenants : Tip(t)' = Tip(t)
  BY LogUntouched DEF TypeOK, ReadChainHead
<1>2. TenantOfCall(c) \in Tenants
  BY ChainAssumption DEF TenantOfCall
<1>3. prevHash' = [prevHash EXCEPT ![c] = Tip(TenantOfCall(c))]
  BY <1>2, HeadLemma DEF ReadChainHead, HeadIsTail, Tip
<1>4. TypeOK'
  BY <1>3, LogUntouched DEF TypeOK, Stages, ReadChainHead
<1>5. LockHeld'
  BY DEF TypeOK, LockHeld, ReadChainHead, Key, TenantOfCall
<1>6. PrevIsTip'
  BY <1>1, <1>3, ChainAssumption DEF TypeOK, PrevIsTip, ReadChainHead, TenantOfCall
<1>7. RowLockHeld' /\ AfterKnown'
  BY DEF TypeOK, RowLockHeld, AfterKnown, Wrote, ReadChainHead
<1> QED BY <1>1, <1>4, <1>5, <1>6, <1>7

LEMMA InsertRowInv ==
  ASSUME IInv, NEW c \in Calls, InsertRow(c)
  PROVE  IInv'
<1> USE DEF IInv, InsertRow
<1>1. /\ RowsCommitted' /\ IdsUnique' /\ ChainLinear' /\ TrailMatchesData'
      /\ \A t \in Tenants : Tip(t)' = Tip(t)
  BY LogUntouched DEF TypeOK
<1>2. TypeOK'
  BY LogUntouched DEF TypeOK, Stages
<1>3. LockHeld' /\ PrevIsTip'
  BY <1>1, ChainAssumption DEF TypeOK, LockHeld, PrevIsTip, Key, TenantOfCall
<1>4. RowLockHeld' /\ AfterKnown'
  BY DEF TypeOK, RowLockHeld, AfterKnown, Wrote
<1> QED BY <1>1, <1>2, <1>3, <1>4

\* Giving back the locks of c takes none from a call that holds one.
LEMMA RollbackInv ==
  ASSUME IInv, NEW c \in Calls, Rollback(c)
  PROVE  IInv'
<1> USE DEF IInv, Rollback, ReleaseLocks, Active
<1>1. /\ RowsCommitted' /\ IdsUnique' /\ ChainLinear' /\ TrailMatchesData'
      /\ \A t \in Tenants : Tip(t)' = Tip(t)
  BY LogUntouched DEF TypeOK, Ended
<1>2. TypeOK'
  <2>1. /\ pc' \in [Calls -> Stages]
        /\ rowLock' \in [Targets -> Values]
        /\ chainLock' \in [LockKeys -> Values]
    BY DEF TypeOK, Stages, Values
  <2>2. \A d \in Calls : pc[d] = "committed" => pc'[d] = "committed"
    BY DEF TypeOK, Ended
  <2>3. UNCHANGED <<before, after, prevHash, data, auditLog>>
    OBVIOUS
  <2> QED BY <2>1, <2>2, <2>3, LogUntouched DEF TypeOK
<1>3. \A d \in Calls : Key(d) \in LockKeys /\ TenantOfCall(d) \in Tenants
  BY ChainAssumption DEF Key, TenantOfCall
<1>4. LockHeld'
  BY <1>3 DEF TypeOK, LockHeld, Key, TenantOfCall
<1>5. PrevIsTip'
  BY <1>1, <1>3 DEF TypeOK, PrevIsTip, TenantOfCall
<1>6. RowLockHeld'
  BY ChainAssumption DEF TypeOK, RowLockHeld, Wrote
<1>7. AfterKnown'
  BY DEF TypeOK, AfterKnown, Wrote
<1> QED BY <1>1, <1>2, <1>4, <1>5, <1>6, <1>7

-----------------------------------------------------------------------------
\* The commit.  Its row extends the tip, so the chain stays linear; any other
\* call of the tenant past its head query would hold the same advisory lock.
LEMMA CommitInv ==
  ASSUME IInv, NEW c \in Calls, Commit(c)
  PROVE  IInv'
<1> DEFINE t == TenantOfCall(c)
           n == Len(auditLog[t])
<1>1. /\ t \in Tenants /\ n \in Nat
      /\ auditLog[t] = << >> <=> n = 0
      /\ DOMAIN auditLog' = Tenants
      /\ auditLog'[t] # << >>
      /\ Len(auditLog'[t]) = n + 1
      /\ \A i \in 1 .. n : auditLog'[t][i] = auditLog[t][i]
      /\ auditLog'[t][n + 1] = AuditRow(c)
      /\ auditLog'[t] \in Seq(Items(auditLog'[t]))
      /\ \A u \in Tenants \ {t} : auditLog'[u] = auditLog[u]
  BY CommitAppends DEF IInv
<1>2. /\ pc[c] = "inserted" /\ pc' = [pc EXCEPT ![c] = "committed"]
      /\ UNCHANGED <<before, after, prevHash>>
      /\ ReleaseLocks(c)
      /\ data' = [x \in Targets |-> IF rowLock[x] = c THEN c ELSE data[x]]
  BY DEF Commit
<1>3. prevHash[c] = Tip(t)
  BY <1>2 DEF IInv, PrevIsTip
<1>4. /\ AuditRow(c).body = BuildChainBody(c)
      /\ AuditRow(c).prevHash = Tip(t)
      /\ AuditRow(c).rowHash = ComputeRowHash(Tip(t), BuildChainBody(c))
      /\ BuildChainBody(c).id = c /\ BuildChainBody(c).tenantId = t
      /\ BuildChainBody(c).target = Target[c]
      /\ BuildChainBody(c).after = after[c]
      /\ BuildChainBody(c) \in Bodies
  BY <1>1, <1>3, ChainAssumption DEF AuditRow, BuildChainBody, Bodies, IInv, TypeOK
<1>5. after[c] = IF Op[c] = "withAudit" THEN c ELSE None
  BY <1>2, ChainAssumption DEF IInv, AfterKnown, Wrote
<1>6. \A u \in Tenants : u # t => auditLog'[u] = auditLog[u]
  BY <1>1
<1>7. \A i \in 1 .. n + 1 : i \in 1 .. n \/ i = n + 1
  BY <1>1
<1> HIDE DEF t, n
<1>8. TypeOK'
  <2>1. /\ pc' \in [Calls -> Stages]
        /\ before' \in [Calls -> Values]
        /\ after' \in [Calls -> Values]
        /\ DOMAIN prevHash' = Calls
        /\ rowLock' \in [Targets -> Values]
        /\ chainLock' \in [LockKeys -> Values]
        /\ data' \in [Targets -> Values]
    BY <1>2 DEF IInv, TypeOK, Stages, Values, ReleaseLocks
  <2>2. ASSUME NEW u \in Tenants
        PROVE  /\ auditLog'[u] \in Seq(Items(auditLog'[u]))
               /\ \A i \in 1 .. Len(auditLog'[u]) :
                    /\ auditLog'[u][i].body \in Bodies
                    /\ auditLog'[u][i].rowHash =
                         ComputeRowHash(auditLog'[u][i].prevHash, auditLog'[u][i].body)
    <3>1. CASE u = t
      <4>1. \A i \in 1 .. n :
               /\ auditLog[t][i].body \in Bodies
               /\ auditLog[t][i].rowHash =
                    ComputeRowHash(auditLog[t][i].prevHash, auditLog[t][i].body)
        BY <1>1 DEF IInv, TypeOK, n
      <4> QED BY <4>1, <3>1, <1>1, <1>4, <1>7
    <3>2. CASE u # t
      BY <3>2, <1>6 DEF IInv, TypeOK, ChainedRows
    <3> QED BY <3>1, <3>2
  <2> QED BY <2>1, <2>2, <1>1 DEF TypeOK, ChainedRows
<1>9. LockHeld'
  BY <1>2, ChainAssumption DEF IInv, TypeOK, LockHeld, ReleaseLocks, Key, TenantOfCall
<1>10. PrevIsTip'
  <2> SUFFICES ASSUME NEW d \in Calls, pc'[d] \in {"sawHead", "inserted"}
               PROVE  prevHash[d] = Tip(TenantOfCall(d))'
    BY <1>2 DEF PrevIsTip, TenantOfCall
  <2>1. d # c /\ pc[d] = pc'[d]
    BY <1>2 DEF IInv, TypeOK
  <2>2. TenantOfCall(d) # t
    <3>1. chainLock[Key(d)] = d /\ chainLock[Key(c)] = c
      BY <1>2, <2>1 DEF IInv, LockHeld
    <3> QED BY <3>1, <2>1 DEF Key, t
  <2>3. TenantOfCall(d) \in Tenants
    BY ChainAssumption DEF TenantOfCall
  <2>4. Tip(TenantOfCall(d))' = Tip(TenantOfCall(d))
    BY <2>2, <2>3, <1>6 DEF Tip, TenantOfCall
  <2> QED BY <2>1, <2>4 DEF IInv, PrevIsTip
<1>11. RowLockHeld'
  BY <1>2, ChainAssumption DEF IInv, TypeOK, RowLockHeld, Wrote, ReleaseLocks
<1>12. AfterKnown'
  BY <1>2 DEF IInv, TypeOK, AfterKnown, Wrote
<1>13. RowsCommitted'
  <2> SUFFICES ASSUME NEW u \in Tenants, NEW i \in 1 .. Len(auditLog'[u])
               PROVE  LET b == auditLog'[u][i].body IN
                      /\ pc'[b.id] = "committed"
                      /\ b.tenantId = u /\ TenantOfCall(b.id) = u
                      /\ b.target = Target[b.id]
                      /\ b.after = IF Op[b.id] = "withAudit" THEN b.id ELSE None
    BY DEF RowsCommitted, TenantOfCall
  <2>1. CASE u = t /\ i = n + 1
    BY <2>1, <1>1, <1>2, <1>4, <1>5 DEF IInv, TypeOK, t
  <2>2. CASE ~(u = t /\ i = n + 1)
    <3>1. auditLog'[u][i] = auditLog[u][i] /\ i \in 1 .. Len(auditLog[u])
      BY <2>2, <1>1, <1>6, <1>7 DEF n
    <3>2. auditLog[u][i].body.id \in Calls
      BY <3>1 DEF IInv, TypeOK, Bodies
    <3> QED BY <3>1, <3>2, <1>2 DEF IInv, TypeOK, RowsCommitted
  <2> QED BY <2>1, <2>2
<1>14. \A i \in 1 .. n : auditLog[t][i].body.id # c
  BY <1>1, <1>2 DEF IInv, RowsCommitted, n
<1>15. IdsUnique'
  <2> SUFFICES ASSUME NEW u \in Tenants,
                      NEW i \in 1 .. Len(auditLog'[u]), NEW j \in 1 .. Len(auditLog'[u]),
                      auditLog'[u][i].body.id = auditLog'[u][j].body.id
               PROVE  i = j
    BY DEF IdsUnique
  <2>1. CASE u = t
    <3>1. \A k \in 1 .. n : auditLog'[t][k].body.id = auditLog[t][k].body.id
      BY <1>1
    <3>2. auditLog'[t][n + 1].body.id = c
      BY <1>1, <1>4
    <3>3. \A k, l \in 1 .. n :
             auditLog[t][k].body.id = auditLog[t][l].body.id => k = l
      BY <1>1 DEF IInv, IdsUnique, n
    <3>4. i \in 1 .. n + 1 /\ j \in 1 .. n + 1
      BY <2>1, <1>1
    <3> QED BY <3>1, <3>2, <3>3, <3>4, <2>1, <1>7, <1>14
  <2>2. CASE u # t
    BY <2>2, <1>6 DEF IInv, IdsUnique
  <2> QED BY <2>1, <2>2
<1>16. ChainLinear'
  <2> SUFFICES ASSUME NEW u \in Tenants, NEW i \in 1 .. Len(auditLog'[u])
               PROVE  auditLog'[u][i].prevHash = IF i = 1 THEN GenesisHash(u)
                                                 ELSE auditLog'[u][i - 1].rowHash
    BY DEF ChainLinear
  <2>1. CASE u = t /\ i = n + 1
    <3>1. CASE n = 0
      BY <2>1, <3>1, <1>1, <1>4 DEF Tip, n
    <3>2. CASE n # 0
      <4>1. n \in 1 .. n /\ (n + 1) - 1 = n /\ n + 1 # 1
        BY <1>1, <3>2
      <4> QED BY <2>1, <4>1, <1>1, <1>4, <3>2 DEF Tip, n
    <3> QED BY <3>1, <3>2
  <2>2. CASE ~(u = t /\ i = n + 1)
    <3>1. i \in 1 .. Len(auditLog[u]) /\ (i # 1 => i - 1 \in 1 .. Len(auditLog[u]))
      BY <2>2, <1>1, <1>6, <1>7 DEF n, IInv, TypeOK
    <3>2. auditLog'[u][i] = auditLog[u][i]
          /\ (i # 1 => auditLog'[u][i - 1] = auditLog[u][i - 1])
      BY <3>1, <1>1, <1>6 DEF n
    <3> QED BY <3>1, <3>2 DEF IInv, ChainLinear
  <2> QED BY <2>1, <2>2
<1>17. TrailMatchesData'
  <2> SUFFICES ASSUME NEW x \in Targets
               PROVE  /\ MutationsOf(x)' = {} => data'[x] = None
                      /\ \A i \in MutationsOf(x)' :
                           (\A j \in MutationsOf(x)' : j <= i)
                             => auditLog'[TenantOf[x]][i].body.after = data'[x]
    BY DEF TrailMatchesData
  <2>1. /\ TenantOf[x] \in Tenants
        /\ t = TenantOf[Target[c]]
        /\ data'[x] = IF x = Target[c] /\ Op[c] = "withAudit" THEN c ELSE data[x]
    BY <1>2, ChainAssumption DEF IInv, RowLockHeld, Wrote, t, TenantOfCall
  <2>2. /\ MutationsOf(x) = {} => data[x] = None
        /\ \A i \in MutationsOf(x) :
             (\A j \in MutationsOf(x) : j <= i)
               => auditLog[TenantOf[x]][i].body.after = data[x]
    BY DEF IInv, TrailMatchesData
  <2>3. CASE x = Target[c] /\ Op[c] = "withAudit"
    <3>1. n + 1 \in MutationsOf(x)'
      BY <2>1, <2>3, <1>1, <1>4 DEF MutationsOf
    <3>2. \A i \in MutationsOf(x)' : i \in 1 .. n + 1
      BY <2>1, <2>3, <1>1 DEF MutationsOf
    <3>3. auditLog'[TenantOf[x]][n + 1].body.after = c
      BY <2>1, <2>3, <1>1, <1>4, <1>5
    <3> QED BY <2>1, <2>3, <3>1, <3>2, <3>3, <1>1
  <2>4. CASE ~(x = Target[c] /\ Op[c] = "withAudit")
    <3>1. CASE TenantOf[x] = t
      <4>1. MutationsOf(x)' = MutationsOf(x)
        <5>1. n + 1 \notin MutationsOf(x)'
          BY <3>1, <2>1, <2>4, <1>1, <1>4 DEF MutationsOf
        <5>2. \A i \in 1 .. n : i \in MutationsOf(x)' <=> i \in MutationsOf(x)
          BY <3>1, <2>1, <1>1 DEF MutationsOf, n
        <5>3. /\ \A i \in MutationsOf(x)' : i \in 1 .. n + 1
              /\ \A i \in MutationsOf(x) : i \in 1 .. n
          BY <3>1, <2>1, <1>1 DEF MutationsOf, n
        <5> QED BY <5>1, <5>2, <5>3, <1>7
      <4>2. \A i \in MutationsOf(x) : auditLog'[t][i] = auditLog[t][i]
        BY <3>1, <1>1 DEF MutationsOf, n
      <4> QED BY <4>1, <4>2, <3>1, <2>1, <2>2, <2>4
    <3>2. CASE TenantOf[x] # t
      <4>1. MutationsOf(x)' = MutationsOf(x) /\ auditLog'[TenantOf[x]] = auditLog[TenantOf[x]]
        BY <3>2, <2>1, <1>6 DEF MutationsOf
      <4> QED BY <4>1, <2>1, <2>2, <2>4
    <3> QED BY <3>1, <3>2
  <2> QED BY <2>3, <2>4
<1> QED BY <1>8, <1>9, <1>10, <1>11, <1>12, <1>13, <1>15, <1>16, <1>17 DEF IInv

-----------------------------------------------------------------------------
\* IInv is inductive: no statement of any transaction breaks it.
LEMMA StepInv == IInv /\ [Next]_vars => IInv'
<1> SUFFICES ASSUME IInv, [Next]_vars PROVE IInv'
  OBVIOUS
<1>1. ASSUME NEW c \in Calls, Begin(c) \/ Proceed(c) \/ Rollback(c)
      PROVE  IInv'
  BY <1>1, BeginInv, ReadBeforeInv, RunFnInv, ReadAfterInv, LockTenantChainInv,
     ReadChainHeadInv, InsertRowInv, CommitInv, RollbackInv DEF Proceed
<1>2. CASE UNCHANGED vars
  <2>1. TypeOK'
    BY SMTT(30), <1>2 DEF vars, IInv, TypeOK, Key, TenantOfCall, ChainedRows
  <2>2. LockHeld' /\ PrevIsTip' /\ RowLockHeld' /\ AfterKnown'
    BY <1>2 DEF vars, IInv, LockHeld, PrevIsTip, RowLockHeld, AfterKnown, Tip, Wrote,
       Key, TenantOfCall
  <2>3. RowsCommitted' /\ IdsUnique' /\ ChainLinear'
    BY <1>2 DEF vars, IInv, RowsCommitted, IdsUnique, ChainLinear, ChainedRows, Tip
  <2>4. TrailMatchesData'
    BY <1>2 DEF vars, IInv, TrailMatchesData, MutationsOf
  <2> QED
    BY <2>1, <2>2, <2>3, <2>4 DEF IInv
<1> QED BY <1>1, <1>2 DEF Next

THEOREM InductiveInvariant == Spec => []IInv
BY InitInv, StepInv, PTL DEF Spec

\* Every variable always holds the kind of value the code gives it, and every
\* committed row carries its own hash.
THEOREM TypeCorrect == Spec => []TypeOK
<1>1. IInv => TypeOK
  BY DEF IInv
<1> QED BY <1>1, InductiveInvariant, PTL

\* No interleaving of writers forks a tenant's chain.
THEOREM ChainNeverForks == Spec => []ChainLinear
<1>1. IInv => ChainLinear
  BY DEF IInv
<1> QED BY <1>1, InductiveInvariant, PTL

\* The NOT EXISTS query of readChainHead always selects exactly the tail.
THEOREM HeadQueryFindsTail == Spec => []HeadIsTail
BY HeadLemma, InductiveInvariant, PTL

\* The newest audited mutation of a target accounts for its committed value.
THEOREM TrailAccountsForData == Spec => []TrailMatchesData
<1>1. IInv => TrailMatchesData
  BY DEF IInv
<1> QED BY <1>1, InductiveInvariant, PTL

-----------------------------------------------------------------------------
\* A commit is the atomic Record of the ledger; nothing else moves the ledger.
LEMMA CommitRecords ==
  ASSUME IInv, NEW c \in Calls, Commit(c)
  PROVE  Ledger!Record(c)
<1> DEFINE t == TenantOfCall(c)
<1>1. t = TenantOf[Target[c]] /\ t \in Tenants
  BY ChainAssumption DEF TenantOfCall
<1>2. prevHash[c] = Ledger!Tip(t)
  <2>1. pc[c] = "inserted"
    BY DEF Commit
  <2>2. prevHash[c] = Tip(t)
    BY <2>1 DEF IInv, PrevIsTip
  <2> QED BY <2>2 DEF Tip, Ledger!Tip, GenesisHash, Ledger!GenesisHash
<1>3. before[c] \in Calls \cup {None}
  BY DEF IInv, TypeOK, Values
<1>4. after[c] = IF Op[c] = "withAudit" THEN c ELSE None
  BY ChainAssumption DEF Commit, IInv, AfterKnown, Wrote
<1>5. ~Ledger!Recorded(c)
  BY DEF Commit, IInv, RowsCommitted, Ledger!Recorded
<1>6. auditLog' = [auditLog EXCEPT ![t] = Append(@, AuditRow(c))]
  BY DEF Commit
<1>7. data' = IF Op[c] = "withAudit" THEN [data EXCEPT ![Target[c]] = c] ELSE data
  <2>1. data' = [x \in Targets |-> IF rowLock[x] = c THEN c ELSE data[x]]
    BY DEF Commit
  <2>2. \A x \in Targets : rowLock[x] = c <=> x = Target[c] /\ Op[c] = "withAudit"
    BY DEF Commit, IInv, RowLockHeld, Wrote
  <2>3. data \in [Targets -> Values] /\ Target[c] \in Targets
    BY ChainAssumption DEF IInv, TypeOK
  <2>4. CASE Op[c] = "withAudit"
    BY <2>1, <2>2, <2>3, <2>4
  <2>5. CASE Op[c] # "withAudit"
    BY <2>1, <2>2, <2>3, <2>5
  <2> QED BY <2>4, <2>5
<1>8. AuditRow(c) =
        LET body == [id |-> c, tenantId |-> t, target |-> Target[c],
                     before |-> before[c],
                     after |-> IF Op[c] = "withAudit" THEN c ELSE None]
        IN  [body |-> body, prevHash |-> Ledger!Tip(t),
             rowHash |-> ComputeRowHash(Ledger!Tip(t), body)]
  BY <1>2, <1>4 DEF AuditRow, BuildChainBody
<1> HIDE DEF t
<1> QED BY <1>1, <1>3, <1>5, <1>6, <1>7, <1>8
        DEF Ledger!Record, ComputeRowHash, Ledger!ComputeRowHash

\* The interleaved transactions implement the atomic, append-only ledger.
THEOREM Refinement == Spec => ImplementsLedger
<1>1. Init => Ledger!LedgerInit
  BY DEF Init, Ledger!LedgerInit
<1>2. IInv /\ [Next]_vars => [Ledger!LedgerNext]_(Ledger!ledgerVars)
  <2> SUFFICES ASSUME IInv, [Next]_vars
               PROVE  Ledger!LedgerNext \/ UNCHANGED Ledger!ledgerVars
    OBVIOUS
  <2>1. ASSUME NEW c \in Calls, Commit(c)
        PROVE  Ledger!LedgerNext
    BY <2>1, CommitRecords DEF Ledger!LedgerNext
  <2>2. ASSUME NEW c \in Calls,
               \/ Begin(c) \/ ReadBefore(c) \/ RunFn(c) \/ ReadAfter(c)
               \/ LockTenantChain(c) \/ ReadChainHead(c) \/ InsertRow(c) \/ Rollback(c)
        PROVE  UNCHANGED <<data, auditLog>>
    BY <2>2 DEF Begin, ReadBefore, RunFn, ReadAfter, LockTenantChain, ReadChainHead,
         InsertRow, Rollback
  <2>3. CASE UNCHANGED vars
    BY <2>3 DEF vars, Ledger!ledgerVars
  <2> QED BY <2>1, <2>2, <2>3 DEF Next, Proceed, Ledger!ledgerVars
<1> QED BY <1>1, <1>2, InductiveInvariant, PTL
        DEF Spec, ImplementsLedger, Ledger!LedgerSpec

-----------------------------------------------------------------------------
(* Numbers. *)

\* The greatest of some numbers, by induction on how far from n they are.
LEMMA MaxIsLargest ==
  ASSUME NEW n \in Nat, NEW s \in SUBSET (1 .. n), s # {}
  PROVE  Max(s) \in s /\ \A y \in s : Max(s) >= y
<1> DEFINE R == {n - x : x \in s}
<1>1. IsWellFoundedOn(OpToRel(<, Nat), Nat)
  BY NatLessThanWellFounded
<1>2. R \in SUBSET Nat /\ R # {}
  <2>1. \A x \in s : n - x \in Nat
    OBVIOUS
  <2> QED
    BY <2>1
<1> HIDE DEF R
<1>3. PICK m \in R : \A y \in R : ~ (<<y, m>> \in OpToRel(<, Nat))
  <2> HIDE DEF OpToRel
  <2> QED
    BY <1>1, <1>2, WFMin
<1> USE DEF R
<1>4. PICK x \in s : m = n - x
  BY <1>3
<1>5. \A y \in s : x >= y
  <2> SUFFICES ASSUME NEW y \in s PROVE x >= y
    OBVIOUS
  <2>1. n - y \in R /\ n - y \in Nat /\ m \in Nat
    BY <1>4
  <2>2. ~ (n - y < m)
    BY <1>3, <2>1 DEF OpToRel
  <2> QED
    BY <1>4, <2>1, <2>2
<1> QED
  BY <1>5 DEF Max

-----------------------------------------------------------------------------
(* Receipts. *)

\* The receipts that generations issued.
Issued == {ReceiptOf(requests[r]) : r \in Generations}

ReceiptsTypeOK ==
    /\ now \in Nat
    /\ wired \in BOOLEAN
    /\ requests \in [Requests -> PdfRequests \cup {Null}]
    /\ ring \in [Tasks -> Seq(Receipts)]
    /\ durable \in [DocIds -> Receipts \cup {Null}]
    /\ writes \in Nat

\* A request is bound to the tenant of its reference, and writes to a database.
RequestsAreBound ==
    \A r \in Generations :
        /\ requests[r].identity.tenantId = TenantOfRef[requests[r].identity.docId]
        /\ requests[r].write <= writes
        /\ requests[r].write > 0 \/ requests[r].step = "upserting" => wired

\* What rings and rows hold was issued, a row under its own reference.
HeldIsIssued ==
    /\ \A t \in Tasks : \A i \in DOMAIN ring[t] : ring[t][i] \in Issued
    /\ \A d \in DocIds : durable[d] # Null => durable[d] \in Issued /\ durable[d].docId = d

\* The write of a reference that was applied last is the one its row shows.
LatestIsStored ==
    \A r \in Generations :
        requests[r].write > 0 /\ ~Superseded(r)
            => durable[requests[r].identity.docId] = ReceiptOf(requests[r])

ReceiptsInv ==
    /\ ReceiptsTypeOK
    /\ RequestsAreBound
    /\ HeldIsIssued
    /\ LatestIsStored

LEMMA ReceiptsStart == ReceiptsInit => ReceiptsInv
<1> SUFFICES ASSUME ReceiptsInit PROVE ReceiptsInv
  OBVIOUS
<1> USE DEF ReceiptsInit
<1>1. Generations = {}
  BY DEF Generations
<1>2. ReceiptsTypeOK
  BY DEF ReceiptsTypeOK
<1>3. RequestsAreBound /\ HeldIsIssued /\ LatestIsStored
  BY <1>1 DEF RequestsAreBound, HeldIsIssued, LatestIsStored
<1> QED
  BY <1>2, <1>3 DEF ReceiptsInv

\* A receipt is one, of the reference and the bytes of its request.
LEMMA ReceiptIsOne ==
  ASSUME NEW g \in PdfRequests
  PROVE  /\ ReceiptOf(g) \in Receipts
         /\ ReceiptOf(g).docId = g.identity.docId
  BY DEF ReceiptOf, Receipts, PdfRequests, Identities, BytesOf, Bytes, PdfIdentityHmac

\* What a step may do to the requests: nothing to what identifies them.
Continues ==
    /\ requests' \in [Requests -> PdfRequests \cup {Null}]
    /\ \A r \in Generations : /\ requests'[r] \in PdfRequests
                              /\ requests'[r].identity = requests[r].identity
                              /\ requests'[r].contents = requests[r].contents

\* What was issued stays so, for requests keep their identity and contents.
LEMMA ReceiptsStayIssued ==
  ASSUME ReceiptsTypeOK, Continues
  PROVE  /\ Generations \subseteq Generations'
         /\ Issued \subseteq Issued'
         /\ \A r \in Generations : ReceiptOf(requests'[r]) = ReceiptOf(requests[r])
<1>1. Generations \subseteq Generations'
  BY PdfAssumption DEF Generations, Continues
<1>2. \A r \in Generations : ReceiptOf(requests'[r]) = ReceiptOf(requests[r])
  BY DEF Continues, ReceiptOf, BytesOf
<1> QED
  BY <1>1, <1>2 DEF Issued

\* What every step but the durable write does to the requests.
Moves ==
    /\ Continues
    /\ \A r \in Generations' :
          /\ requests'[r].write = IF r \in Generations THEN requests[r].write ELSE 0
          /\ r \notin Generations =>
                requests'[r].identity.tenantId = TenantOfRef[requests'[r].identity.docId]
          /\ requests'[r].step = "upserting" => wired
    /\ UNCHANGED <<wired, durable, writes>>

\* A step that leaves the table alone keeps what is said of it.
LEMMA MovesKeepTheTable ==
  ASSUME ReceiptsInv, Moves
  PROVE  /\ RequestsAreBound'
         /\ LatestIsStored'
         /\ \A d \in DocIds : durable'[d] # Null => durable'[d] \in Issued' /\ durable'[d].docId = d
<1> USE DEF ReceiptsInv
<1>1. /\ Generations \subseteq Generations'
      /\ Issued \subseteq Issued'
      /\ \A r \in Generations : ReceiptOf(requests'[r]) = ReceiptOf(requests[r])
  BY ReceiptsStayIssued DEF Moves
<1>2. /\ \A r \in Generations : requests[r] \in PdfRequests
      /\ \A r \in Generations' : requests'[r] \in PdfRequests
  BY DEF ReceiptsTypeOK, Moves, Continues, Generations
<1>3. RequestsAreBound'
  <2> SUFFICES ASSUME NEW r \in Generations'
               PROVE  /\ requests'[r].identity.tenantId
                           = TenantOfRef[requests'[r].identity.docId]
                      /\ requests'[r].write <= writes
                      /\ requests'[r].write > 0 \/ requests'[r].step = "upserting" => wired
    BY DEF RequestsAreBound, Moves
  <2>1. CASE r \in Generations
    BY <2>1 DEF RequestsAreBound, Moves, Continues
  <2>2. CASE r \notin Generations
    BY <2>2 DEF Moves, ReceiptsTypeOK
  <2> QED
    BY <2>1, <2>2
<1>4. LatestIsStored'
  <2> SUFFICES ASSUME NEW r \in Generations', requests'[r].write > 0, ~Superseded(r)'
               PROVE  durable[requests'[r].identity.docId] = ReceiptOf(requests'[r])
    BY DEF LatestIsStored, Moves
  <2>1. r \in Generations /\ requests[r].write > 0
    BY DEF Moves
  <2>2. ~Superseded(r)
    BY <1>1, <2>1 DEF Superseded, Moves, Continues
  <2> QED
    BY <1>1, <2>1, <2>2 DEF LatestIsStored, Moves, Continues
<1> QED
  BY <1>1, <1>3, <1>4 DEF HeldIsIssued, Moves

\* The same, of all of the invariant, when the rings hold what was issued.
LEMMA MovesKeepReceipts ==
  ASSUME ReceiptsInv, Moves, now' \in Nat,
         ring' \in [Tasks -> Seq(Receipts)],
         \A t \in Tasks : \A i \in DOMAIN ring'[t] : ring'[t][i] \in Issued'
  PROVE  ReceiptsInv'
<1>1. RequestsAreBound' /\ LatestIsStored' /\ HeldIsIssued'
  BY MovesKeepTheTable DEF HeldIsIssued
<1>2. ReceiptsTypeOK'
  BY DEF ReceiptsInv, ReceiptsTypeOK, Moves, Continues
<1> QED
  BY <1>1, <1>2 DEF ReceiptsInv

\* And of all of it, when the rings stay as they are, too.
LEMMA RingsStay ==
  ASSUME ReceiptsInv, Moves, UNCHANGED <<now, ring>>
  PROVE  ReceiptsInv'
<1>1. Issued \subseteq Issued'
  BY ReceiptsStayIssued DEF Moves, ReceiptsInv
<1>2. \A t \in Tasks : \A i \in DOMAIN ring'[t] : ring'[t][i] \in Issued'
  BY <1>1 DEF ReceiptsInv, HeldIsIssued
<1>3. now' \in Nat /\ ring' \in [Tasks -> Seq(Receipts)]
  BY DEF ReceiptsInv, ReceiptsTypeOK
<1> QED
  BY <1>2, <1>3, MovesKeepReceipts

\* A request that takes its next step is the one it was.
LEMMA MoveToMoves ==
  ASSUME ReceiptsInv, NEW r \in Generations, NEW step \in Steps,
         MoveTo(r, step), step = "upserting" => wired,
         UNCHANGED <<wired, durable, writes>>
  PROVE  Moves
<1> USE DEF ReceiptsInv
<1>1. r \in Requests /\ requests[r] \in PdfRequests
  BY DEF Generations, ReceiptsTypeOK
<1> DEFINE moved == [requests[r] EXCEPT !.step = step]
<1>2. /\ moved \in PdfRequests /\ moved.step = step
      /\ moved.identity = requests[r].identity /\ moved.contents = requests[r].contents
      /\ moved.write = requests[r].write
  BY <1>1 DEF PdfRequests
<1>3. requests' = [requests EXCEPT ![r] = moved]
  BY DEF MoveTo
<1>7. moved # Null
  BY <1>2, PdfAssumption
<1> HIDE DEF moved
<1>4. requests'[r] = moved /\ \A q \in Requests \ {r} : requests'[q] = requests[q]
  BY <1>1, <1>3 DEF ReceiptsTypeOK
<1>5. Continues
  <2>1. requests' \in [Requests -> PdfRequests \cup {Null}]
    BY <1>2, <1>3 DEF ReceiptsTypeOK
  <2>2. \A q \in Generations : /\ requests'[q] \in PdfRequests
                              /\ requests'[q].identity = requests[q].identity
                              /\ requests'[q].contents = requests[q].contents
    BY <1>2, <1>4 DEF Generations, ReceiptsTypeOK
  <2> QED
    BY <2>1, <2>2 DEF Continues
<1>6. Generations' = Generations
  BY <1>1, <1>4, <1>7 DEF Generations
<1> QED
  BY <1>2, <1>4, <1>5, <1>6 DEF Moves, RequestsAreBound, Generations

\* One step of the receipts after another.
LEMMA BeginKeepsReceipts ==
  ASSUME ReceiptsInv, NEW r \in Requests, BeginGeneration(r)
  PROVE  ReceiptsInv'
<1> USE DEF ReceiptsInv
<1>1. PICK t \in Tasks, u \in Users, d \in DocIds, c \in Contents :
        requests' = [requests EXCEPT ![r] =
            [step |-> "rendering", task |-> t, contents |-> c, write |-> 0,
             identity |-> [tenantId |-> ReceiptTenant(u, d), docId |-> d,
                           userId |-> u, timestamp |-> now]]]
  BY DEF BeginGeneration
<1> DEFINE g == [step |-> "rendering", task |-> t, contents |-> c, write |-> 0,
                 identity |-> [tenantId |-> ReceiptTenant(u, d), docId |-> d,
                               userId |-> u, timestamp |-> now]]
<1>2. /\ g \in PdfRequests /\ g.write = 0 /\ g.step = "rendering"
      /\ g.identity.tenantId = TenantOfRef[g.identity.docId]
  BY DEF PdfRequests, Identities, Steps, ReceiptTenant, ReceiptsTypeOK
<1>3. requests' = [requests EXCEPT ![r] = g]
  BY <1>1
<1> HIDE DEF g
<1>4. requests'[r] = g /\ \A q \in Requests \ {r} : requests'[q] = requests[q]
  BY <1>3 DEF ReceiptsTypeOK
<1>5. requests[r] = Null /\ UNCHANGED <<now, wired, ring, durable, writes>>
  BY DEF BeginGeneration
<1>6. Continues
  <2>1. requests' \in [Requests -> PdfRequests \cup {Null}]
    BY <1>2, <1>3 DEF ReceiptsTypeOK
  <2>2. r \notin Generations
    BY <1>5 DEF Generations
  <2> QED
    BY <2>1, <2>2, <1>4 DEF Continues, Generations, ReceiptsTypeOK
<1>7. Moves
  BY <1>2, <1>4, <1>5, <1>6 DEF Moves, RequestsAreBound, Generations
<1> QED
  BY <1>5, <1>7, RingsStay

\* The steps at which nothing but the request changes.
LEMMA MovesAlone ==
  ASSUME ReceiptsInv, NEW r \in Requests,
         RenderFails(r) \/ UpsertFails(r) \/ Delivered(r)
  PROVE  ReceiptsInv'
<1>1. UNCHANGED <<now, wired, ring, durable, writes>> /\ r \in Generations
  BY DEF RenderFails, UpsertFails, Delivered, At, Generations
<1>2. Moves
  BY <1>1, MoveToMoves DEF RenderFails, UpsertFails, Delivered, Steps
<1> QED
  BY <1>1, <1>2, RingsStay

LEMMA RenderedKeepsReceipts ==
  ASSUME ReceiptsInv, NEW r \in Requests, Rendered(r)
  PROVE  ReceiptsInv'
<1> USE DEF ReceiptsInv
<1>1. UNCHANGED <<now, wired, durable, writes>> /\ r \in Generations
  BY DEF Rendered, At, Generations
<1>2. Moves
  BY <1>1, MoveToMoves DEF Rendered, Steps
<1>3. Issued \subseteq Issued'
  BY <1>2, ReceiptsStayIssued DEF Moves
<1> DEFINE t == requests[r].task
           e == ReceiptOf(requests[r])
           all == Append(ring[t], e)
           kept == IF Len(all) > MaxEntries THEN Tail(all) ELSE all
<1>4. t \in Tasks /\ e \in Receipts /\ e \in Issued
  BY <1>1, ReceiptIsOne DEF Generations, ReceiptsTypeOK, PdfRequests, Issued
<1>5. ring' = [ring EXCEPT ![t] = kept]
  BY DEF Rendered
<1>6. /\ ring[t] \in Seq(Receipts)
      /\ \A i \in 1 .. Len(ring[t]) : ring[t][i] \in Issued
  BY <1>4 DEF ReceiptsTypeOK, HeldIsIssued
<1> HIDE DEF t, e
<1>7. /\ kept \in Seq(Receipts)
      /\ \A i \in 1 .. Len(kept) : kept[i] \in Issued
  <2>1. /\ all \in Seq(Receipts) /\ Len(all) = Len(ring[t]) + 1 /\ Len(all) \in Nat
        /\ \A i \in 1 .. Len(all) :
              all[i] = IF i <= Len(ring[t]) THEN ring[t][i] ELSE e
    BY <1>4, <1>6
  <2>2. \A i \in 1 .. Len(all) : all[i] \in Issued
    BY <1>4, <1>6, <2>1
  <2>3. /\ Tail(all) \in Seq(Receipts) /\ Len(Tail(all)) = Len(all) - 1
        /\ \A i \in 1 .. Len(Tail(all)) : Tail(all)[i] = all[i + 1]
    <3> HIDE DEF all
    <3>1. all # << >>
      BY <2>1, <1>6
    <3> QED
      BY <2>1, <3>1
  <2> HIDE DEF all
  <2>4. \A i \in 1 .. Len(Tail(all)) : Tail(all)[i] \in Issued
    BY <2>1, <2>2, <2>3
  <2> QED
    BY <2>1, <2>2, <2>3, <2>4
<1> HIDE DEF kept
<1>8. ring' \in [Tasks -> Seq(Receipts)]
  BY <1>5, <1>7 DEF ReceiptsTypeOK
<1>9. \A x \in Tasks : \A i \in DOMAIN ring'[x] : ring'[x][i] \in Issued'
  <2> SUFFICES ASSUME NEW x \in Tasks PROVE \A i \in DOMAIN ring'[x] : ring'[x][i] \in Issued'
    OBVIOUS
  <2>1. CASE x = t
    <3>1. ring'[x] = kept /\ DOMAIN kept = 1 .. Len(kept)
      BY <1>5, <1>7, <2>1 DEF ReceiptsTypeOK
    <3> QED
      BY <1>3, <1>7, <3>1
  <2>2. CASE x # t
    BY <1>3, <1>5, <2>2 DEF ReceiptsTypeOK, HeldIsIssued
  <2> QED
    BY <2>1, <2>2
<1>10. now' \in Nat
  BY <1>1 DEF ReceiptsTypeOK
<1> QED
  BY <1>2, <1>8, <1>9, <1>10, MovesKeepReceipts

\* The write applied last is the row's, and supersedes those before it.
LEMMA UpsertedKeepsReceipts ==
  ASSUME ReceiptsInv, NEW r \in Requests, Upserted(r)
  PROVE  ReceiptsInv'
<1> USE DEF ReceiptsInv
<1> DEFINE g == requests[r]
           d == g.identity.docId
           done == [g EXCEPT !.step = "responding", !.write = writes + 1]
<1>1. /\ r \in Generations /\ wired /\ g \in PdfRequests /\ writes \in Nat
      /\ UNCHANGED <<now, wired, ring>>
  BY DEF Upserted, At, Generations, RequestsAreBound, ReceiptsTypeOK
<1>2. /\ done \in PdfRequests /\ done.step = "responding" /\ done.write = writes + 1
      /\ done.identity = g.identity /\ done.contents = g.contents
  <2> HIDE DEF g
  <2>1. writes + 1 \in Nat
    BY <1>1
  <2> QED
    BY <1>1, <2>1 DEF PdfRequests, Steps
<1>3. /\ requests' = [requests EXCEPT ![r] = done]
      /\ durable' = [durable EXCEPT ![d] = ReceiptOf(g)]
      /\ writes' = writes + 1
  BY DEF Upserted, RowAfter
<1>4. d \in DocIds /\ ReceiptOf(g) \in Receipts /\ ReceiptOf(g).docId = d
  BY <1>1, ReceiptIsOne DEF PdfRequests, Identities
<1>14. done # Null
  BY <1>2, PdfAssumption
<1>15. /\ requests' \in [Requests -> PdfRequests \cup {Null}]
       /\ requests'[r] = done /\ \A q \in Requests \ {r} : requests'[q] = requests[q]
  <2> HIDE DEF done
  <2> QED
    BY <1>2, <1>3 DEF ReceiptsTypeOK
<1> HIDE DEF done
<1>5. Continues
  BY <1>2, <1>15 DEF Continues, Generations, ReceiptsTypeOK
<1>6. /\ Issued \subseteq Issued'
      /\ \A q \in Generations : ReceiptOf(requests'[q]) = ReceiptOf(requests[q])
  BY <1>5, ReceiptsStayIssued
<1>7. Generations' = Generations
  BY <1>14, <1>15, <1>1 DEF Generations
<1>8. /\ durable' \in [DocIds -> Receipts \cup {Null}]
      /\ durable'[d] = ReceiptOf(g) /\ \A x \in DocIds \ {d} : durable'[x] = durable[x]
  BY <1>3, <1>4 DEF ReceiptsTypeOK
<1>9. ReceiptsTypeOK'
  BY <1>1, <1>3, <1>8, <1>15 DEF ReceiptsTypeOK
<1>10. RequestsAreBound'
  <2> SUFFICES ASSUME NEW q \in Generations
               PROVE  /\ requests'[q].identity.tenantId
                           = TenantOfRef[requests'[q].identity.docId]
                      /\ requests'[q].write <= writes'
                      /\ requests'[q].write > 0 \/ requests'[q].step = "upserting" => wired'
    BY <1>7 DEF RequestsAreBound
  <2>1. requests[q] \in PdfRequests /\ requests[q].write \in Nat
    BY DEF Generations, ReceiptsTypeOK, PdfRequests
  <2> QED
    BY <1>1, <1>2, <1>3, <1>15, <2>1 DEF RequestsAreBound, Generations
<1>11. HeldIsIssued'
  <2>1. ReceiptOf(g) \in Issued
    BY <1>1 DEF Issued
  <2>2. \A x \in DocIds : durable'[x] # Null => durable'[x] \in Issued' /\ durable'[x].docId = x
    BY <1>4, <1>6, <1>8, <2>1 DEF HeldIsIssued
  <2> QED
    BY <1>1, <1>6, <2>2 DEF HeldIsIssued
<1>12. LatestIsStored'
  <2> SUFFICES ASSUME NEW q \in Generations, requests'[q].write > 0, ~Superseded(q)'
               PROVE  durable'[requests'[q].identity.docId] = ReceiptOf(requests'[q])
    BY <1>7 DEF LatestIsStored
  <2>1. CASE q = r
    BY <1>2, <1>6, <1>8, <1>15, <2>1, <1>1
  <2>2. CASE q # r
    <3>1. requests'[q] = requests[q] /\ requests[q] \in PdfRequests
      BY <1>15, <2>2 DEF Generations, ReceiptsTypeOK
    <3>2. requests'[r].write > requests'[q].write
      BY <1>1, <1>2, <1>15, <3>1 DEF RequestsAreBound, PdfRequests
    <3>3. requests[q].identity.docId # d
      BY <1>1, <1>2, <1>7, <1>15, <3>1, <3>2 DEF Superseded
    <3>4. requests[q].identity.docId \in DocIds
      BY <3>1 DEF PdfRequests, Identities
    <3>5. ~Superseded(q)
      <4> SUFFICES ASSUME NEW p \in Generations,
                          requests[p].identity.docId = requests[q].identity.docId,
                          requests[p].write > requests[q].write
                   PROVE  FALSE
        BY DEF Superseded
      <4>1. p # r
        BY <3>3
      <4>2. requests'[p] = requests[p]
        BY <4>1, <1>15 DEF Generations
      <4> QED
        BY <1>7, <3>1, <4>2 DEF Superseded
    <3> QED
      BY <1>8, <3>1, <3>3, <3>4, <3>5 DEF LatestIsStored
  <2> QED
    BY <2>1, <2>2
<1> QED
  BY <1>9, <1>10, <1>11, <1>12

LEMMA RestartKeepsReceipts ==
  ASSUME ReceiptsInv, NEW t \in Tasks, Restart(t)
  PROVE  ReceiptsInv'
<1> USE DEF ReceiptsInv
<1>1. /\ UNCHANGED <<now, wired, durable, writes>>
      /\ requests' = [r \in Requests |->
          IF requests[r] # Null /\ requests[r].task = t /\ requests[r].step \notin Over
          THEN [requests[r] EXCEPT !.step = "lost"] ELSE requests[r]]
      /\ ring' = [ring EXCEPT ![t] = << >>]
  BY DEF Restart
<1>2. \A r \in Generations :
        LET g == [requests[r] EXCEPT !.step = "lost"]
        IN  /\ requests[r] \in PdfRequests
            /\ g \in PdfRequests /\ g.step = "lost" /\ g.write = requests[r].write
            /\ g.identity = requests[r].identity /\ g.contents = requests[r].contents
  BY DEF PdfRequests, Steps, Generations, ReceiptsTypeOK
<1>3. \A r \in Generations :
        /\ requests'[r] \in PdfRequests /\ requests'[r] # Null
        /\ requests'[r].step \in {"lost", requests[r].step}
        /\ requests'[r].write = requests[r].write
        /\ requests'[r].identity = requests[r].identity
        /\ requests'[r].contents = requests[r].contents
  BY <1>1, <1>2, PdfAssumption DEF Generations
<1>4. \A r \in Requests \ Generations : requests'[r] = Null
  BY <1>1 DEF Generations
<1>5. Generations' = Generations
  BY <1>3, <1>4 DEF Generations
<1>6. requests' \in [Requests -> PdfRequests \cup {Null}]
  BY <1>1, <1>3, <1>4
<1>7. Moves
  <2>1. Continues
    BY <1>3, <1>6 DEF Continues
  <2>2. \A r \in Generations : requests'[r].step = "upserting" => wired
    BY <1>3 DEF RequestsAreBound
  <2> QED
    BY <1>1, <1>3, <1>5, <2>1, <2>2 DEF Moves
<1>8. Issued \subseteq Issued'
  BY <1>7, ReceiptsStayIssued DEF Moves
<1>9. /\ ring' \in [Tasks -> Seq(Receipts)]
      /\ \A x \in Tasks : \A i \in DOMAIN ring'[x] : ring'[x][i] \in Issued'
  BY <1>1, <1>8 DEF ReceiptsTypeOK, HeldIsIssued
<1>10. now' \in Nat
  BY <1>1 DEF ReceiptsTypeOK
<1> QED
  BY <1>7, <1>9, <1>10, MovesKeepReceipts

LEMMA ReceiptsStep == ReceiptsInv /\ [ReceiptsNext]_receiptsVars => ReceiptsInv'
<1> SUFFICES ASSUME ReceiptsInv, [ReceiptsNext]_receiptsVars PROVE ReceiptsInv'
  OBVIOUS
<1>1. ASSUME UNCHANGED <<wired, requests, ring, durable, writes>>, now' \in Nat
      PROVE  ReceiptsInv'
  <2>1. Moves
    BY <1>1 DEF Moves, Continues, Generations, ReceiptsInv, ReceiptsTypeOK, RequestsAreBound
  <2>2. Issued' = Issued
    BY <1>1 DEF Issued, Generations, ReceiptOf, BytesOf
  <2>3. /\ ring' \in [Tasks -> Seq(Receipts)]
        /\ \A t \in Tasks : \A i \in DOMAIN ring'[t] : ring'[t][i] \in Issued'
    BY <1>1, <2>2 DEF ReceiptsInv, ReceiptsTypeOK, HeldIsIssued
  <2> QED
    BY <1>1, <2>1, <2>3, MovesKeepReceipts
<1>2. CASE Tick
  BY <1>1, <1>2 DEF Tick, ReceiptsInv, ReceiptsTypeOK
<1>3. CASE UNCHANGED receiptsVars
  BY <1>1, <1>3 DEF receiptsVars, ReceiptsInv, ReceiptsTypeOK
<1>4. CASE \E t \in Tasks : Restart(t)
  BY <1>4, RestartKeepsReceipts
<1>5. CASE \E r \in Requests :
              \/ BeginGeneration(r) \/ RenderFails(r) \/ Rendered(r)
              \/ Upserted(r) \/ UpsertFails(r) \/ Delivered(r)
  BY <1>5, BeginKeepsReceipts, MovesAlone, RenderedKeepsReceipts, UpsertedKeepsReceipts
<1> QED
  BY <1>2, <1>3, <1>4, <1>5 DEF ReceiptsNext

\* The ring and the table answer with issued receipts of the reference asked.
LEMMA LoadedIsIssued ==
  ASSUME ReceiptsInv, NEW t \in Tasks, NEW tenant, NEW d \in DocIds,
         NEW readable \in BOOLEAN, LoadPdfReceipt(t, tenant, d, readable) # Null
  PROVE  \E r \in Generations : LoadPdfReceipt(t, tenant, d, readable) = ReceiptOf(requests[r])
<1> USE DEF ReceiptsInv
<1>1. CASE wired /\ readable
  BY <1>1 DEF LoadPdfReceipt, HeldIsIssued, Issued
<1>2. CASE ~ (wired /\ readable)
  <2> DEFINE own == {i \in DOMAIN ring[t] : ring[t][i].tenantCode = tenant}
             recent == {i \in own : Cardinality({j \in own : j > i}) < ReadLimit}
             found == {i \in recent : ring[t][i].docId = d}
  <2>1. LoadPdfReceipt(t, tenant, d, readable)
          = IF found = {} THEN Null ELSE ring[t][Max(found)]
    BY <1>2 DEF LoadPdfReceipt, LocalReceipt
  <2>2. found \in SUBSET (1 .. Len(ring[t])) /\ Len(ring[t]) \in Nat
    BY DEF ReceiptsTypeOK
  <2>3. found # {}
    BY <2>1
  <2> HIDE DEF found
  <2>4. Max(found) \in 1 .. Len(ring[t])
    BY <2>2, <2>3, MaxIsLargest
  <2>5. ring[t][Max(found)] \in Issued
    BY <2>4 DEF HeldIsIssued, ReceiptsTypeOK
  <2> QED
    BY <2>1, <2>3, <2>5 DEF Issued
<1> QED
  BY <1>1, <1>2

(***************************************************************************)
(* No false positive.  For any tasks, references, users, contents and any  *)
(* number of generations, whatever a task loads was issued by a generation *)
(* (loadPdfReceipt); bytes it verifies under a reference are then those of *)
(* that generation, for the identity must give the stored HMAC again       *)
(* (verifyPdfIntegrity).                                                   *)
(***************************************************************************)
THEOREM VerifiedIsGenuine == ReceiptsSpec => []VerifiedMeansGenuine
<1>1. ReceiptsInv => VerifiedMeansGenuine
  <2> SUFFICES ASSUME ReceiptsInv PROVE VerifiedMeansGenuine
    OBVIOUS
  <2>1. ASSUME NEW t \in Tasks, NEW b \in Copies, NEW d \in DocIds, NEW readable \in BOOLEAN,
               VerifyPack(t, b, d, readable) # Null
        PROVE  /\ b \in Genuine /\ b.identity.docId = d
               /\ VerifyPack(t, b, d, readable).generatedAt = b.identity.timestamp
    <3> DEFINE receipt == LoadPdfReceipt(t, TenantOfRef[d], d, readable)
               identity == [tenantId |-> receipt.tenantCode, docId |-> d,
                            userId |-> receipt.actorId, timestamp |-> receipt.generatedAt]
    <3>1. /\ receipt # Null /\ VerifyPdfIntegrity(b, identity, receipt)
          /\ VerifyPack(t, b, d, readable) = [ref |-> d, generatedAt |-> receipt.generatedAt]
      BY <2>1 DEF VerifyPack
    <3>2. PICK r \in Generations : receipt = ReceiptOf(requests[r])
      BY <3>1, LoadedIsIssued
    <3> HIDE DEF receipt
    <3>3. b = BytesOf(requests[r]) /\ requests[r].identity = identity
      BY <3>1, <3>2 DEF VerifyPdfIntegrity, ReceiptOf, PdfIdentityHmac
    <3>4. b \in Genuine
      BY <3>3 DEF Genuine
    <3>5. b.identity = identity
      BY <3>3 DEF BytesOf
    <3> QED
      BY <3>1, <3>4, <3>5
  <2>2. ASSUME wired, NEW t \in Tasks, NEW b, NEW d \in DocIds, Verifies(t, b, d, TRUE)
        PROVE  b = durable[d].pdfSha256
    BY <2>2 DEF Verifies, VerifyPack, LoadPdfReceipt, VerifyPdfIntegrity
  <2> QED
    BY <2>1, <2>2 DEF VerifiedMeansGenuine
<1> QED
  BY <1>1, ReceiptsStart, ReceiptsStep, PTL DEF ReceiptsSpec

\* A task that holds the receipt of a generation verifies its bytes.
LEMMA OwnReceiptVerifies ==
  ASSUME ReceiptsInv, NEW r \in Generations, NEW t \in Tasks,
         LoadPdfReceipt(t, TenantOfRef[requests[r].identity.docId],
                        requests[r].identity.docId, TRUE) = ReceiptOf(requests[r])
  PROVE  Verifies(t, BytesOf(requests[r]), requests[r].identity.docId, TRUE)
<1> DEFINE g == requests[r]
           d == g.identity.docId
           receipt == ReceiptOf(g)
           identity == [tenantId |-> receipt.tenantCode, docId |-> d,
                        userId |-> receipt.actorId, timestamp |-> receipt.generatedAt]
<1>1. g \in PdfRequests
  BY DEF Generations, ReceiptsInv, ReceiptsTypeOK
<1>2. receipt \in Receipts /\ receipt # Null
  BY <1>1, ReceiptIsOne, PdfAssumption
<1>3. identity = g.identity
  BY <1>1 DEF ReceiptOf, PdfRequests, Identities
<1>4. VerifyPdfIntegrity(BytesOf(g), identity, receipt)
  BY <1>3 DEF VerifyPdfIntegrity, ReceiptOf, PdfIdentityHmac
<1>5. VerifyPack(t, BytesOf(g), d, TRUE) = [ref |-> d, generatedAt |-> receipt.generatedAt]
  BY <1>2, <1>4 DEF VerifyPack
<1>6. [ref |-> d, generatedAt |-> receipt.generatedAt] \in [ref : DocIds, generatedAt : Nat]
  BY <1>1, <1>2 DEF PdfRequests, Identities, Receipts
<1> QED
  BY <1>5, <1>6, PdfAssumption DEF Verifies

(***************************************************************************)
(* No false alarm.  A delivered copy verifies: on every task, after any    *)
(* restarts, when its receipt is the write of its reference applied last,  *)
(* and without a database on the task that made it while its entry is the  *)
(* newest there (persistPdfReceipt, loadPdfReceipt).                       *)
(***************************************************************************)
THEOREM DeliveredIsVerified == ReceiptsSpec => []DeliveredCopiesVerify
<1>1. ReceiptsInv => DeliveredCopiesVerify
  <2> SUFFICES ASSUME ReceiptsInv, NEW r \in Generations
               PROVE  LET g == requests[r]
                          VerifiesOn(t) == Verifies(t, BytesOf(g), g.identity.docId, TRUE)
                      IN  /\ g.write > 0 /\ ~Superseded(r) => \A t \in Tasks : VerifiesOn(t)
                          /\ ~wired /\ Newest(r) => VerifiesOn(g.task)
    BY DEF DeliveredCopiesVerify
  <2> DEFINE g == requests[r]
             d == g.identity.docId
  <2>1. g \in PdfRequests /\ ReceiptOf(g) \in Receipts
    BY ReceiptIsOne DEF Generations, ReceiptsInv, ReceiptsTypeOK
  <2>2. ASSUME g.write > 0, ~Superseded(r), NEW t \in Tasks
        PROVE  Verifies(t, BytesOf(g), d, TRUE)
    <3>1. wired /\ durable[d] = ReceiptOf(g)
      BY <2>2 DEF ReceiptsInv, RequestsAreBound, LatestIsStored
    <3>2. LoadPdfReceipt(t, TenantOfRef[d], d, TRUE) = ReceiptOf(g)
      BY <3>1 DEF LoadPdfReceipt
    <3> QED
      BY <3>2, OwnReceiptVerifies
  <2>3. ASSUME ~wired, Newest(r)
        PROVE  Verifies(g.task, BytesOf(g), d, TRUE)
    <3> DEFINE t == g.task
               n == Len(ring[t])
               own == {i \in DOMAIN ring[t] : ring[t][i].tenantCode = TenantOfRef[d]}
               recent == {i \in own : Cardinality({j \in own : j > i}) < ReadLimit}
               found == {i \in recent : ring[t][i].docId = d}
    <3>1. t \in Tasks
      BY <2>1 DEF PdfRequests
    <3>2. ring[t] \in Seq(Receipts) /\ ring[t] # << >> /\ ring[t][n] = ReceiptOf(g)
      BY <2>3, <3>1 DEF Newest, ReceiptsInv, ReceiptsTypeOK
    <3>3. n \in Nat /\ n \in 1 .. n /\ DOMAIN ring[t] = 1 .. n
      BY <3>2
    <3>4. ReceiptOf(g).tenantCode = TenantOfRef[d] /\ ReceiptOf(g).docId = d
      BY DEF ReceiptOf, ReceiptsInv, RequestsAreBound
    <3>5. n \in own /\ own \subseteq 1 .. n
      BY <3>2, <3>3, <3>4
    <3>6. {j \in own : j > n} = {}
      <4>1. \A j \in own : ~ (j > n)
        BY <3>3, <3>5
      <4> HIDE DEF own, n
      <4> QED
        BY <4>1
    <3>7. n \in recent
      <4>1. Cardinality({j \in own : j > n}) = 0
        BY <3>6, FS_EmptySet
      <4> HIDE DEF own, n
      <4> QED
        BY <3>5, <4>1, PdfAssumption
    <3>8. n \in found /\ found \subseteq 1 .. n
      BY <3>2, <3>4, <3>5, <3>7
    <3>9. Max(found) = n
      <4>1. Max(found) \in found /\ Max(found) >= n
        <5> HIDE DEF found, n
        <5> QED
          BY <3>3, <3>8, MaxIsLargest
      <4>2. Max(found) \in 1 .. n
        BY <3>8, <4>1
      <4> HIDE DEF found, n
      <4> QED
        BY <3>3, <4>1, <4>2
    <3>10. LoadPdfReceipt(t, TenantOfRef[d], d, TRUE) = ring[t][Max(found)]
      <4>1. found # {}
        BY <3>8
      <4> QED
        BY <2>3, <4>1 DEF LoadPdfReceipt, LocalReceipt
    <3> QED
      BY <3>1, <3>2, <3>9, <3>10, OwnReceiptVerifies
  <2> QED
    BY <2>2, <2>3
<1> QED
  BY <1>1, ReceiptsStart, ReceiptsStep, PTL DEF ReceiptsSpec

-----------------------------------------------------------------------------
(* The ring buffer. *)

\* Row j of s is the next of its tenant after row i; row i is its last.
Follows(s, i, j) ==
    /\ i < j /\ s[i].body.tenantId = s[j].body.tenantId
    /\ \A k \in DOMAIN s : s[k].body.tenantId = s[i].body.tenantId => k <= i \/ k >= j
IsLast(s, i) ==
    \A k \in DOMAIN s : s[k].body.tenantId = s[i].body.tenantId => k <= i

\* A row is hashed over its predecessor, which is the genesis for row 0 alone.
IsRow(e, count) ==
    /\ e.body.tenantId \in Councils
    /\ e.body.id \in Nat /\ e.body.id < count[e.body.tenantId]
    /\ e.rowHash = ComputeRowHash(e.prevHash, e.body)
    /\ e.prevHash.kind \in {"genesis", "row"}
    /\ e.prevHash = GenesisHash(e.body.tenantId) <=> e.body.id = 0

\* The rows of a tenant are numbered and linked, up to the last one appended.
Numbered(s) ==
    \A i, j \in DOMAIN s :
        i < j /\ s[i].body.tenantId = s[j].body.tenantId => s[i].body.id < s[j].body.id
Linked(s) ==
    \A i, j \in DOMAIN s :
        Follows(s, i, j) => /\ s[j].prevHash = s[i].rowHash
                            /\ s[j].body.id = s[i].body.id + 1
Extended(s, map, count) ==
    \A i \in DOMAIN s :
        IsLast(s, i) => LET t == s[i].body.tenantId IN
                        /\ t \in DOMAIN map
                        /\ s[i].rowHash = map[t]
                        /\ s[i].body.id + 1 = count[t]

\* The Map knows the tenants that appended, each by the hash of a row.
MapInv ==
    /\ appended \in [Councils -> Nat]
    /\ \A t \in Councils : t \in DOMAIN lastHashByTenant <=> appended[t] > 0
    /\ \A t \in DOMAIN lastHashByTenant : lastHashByTenant[t].kind = "row"

\* Places that are closed under the tenant's later ones.
IsWindow(places) ==
    /\ places \in SUBSET DOMAIN buffer
    /\ \A i \in places, j \in DOMAIN buffer :
          buffer[j].body.tenantId = buffer[i].body.tenantId /\ j > i => j \in places

AnswerInv ==
    result # NoAnswer =>
        \E places : /\ IsWindow(places)
                    /\ result.rows = Listed(places)
                    /\ result.verdict = VerifyChain(result.rows)

BufferInv ==
    /\ buffer \in Seq(Items(buffer))
    /\ \A i \in DOMAIN buffer : IsRow(buffer[i], appended)
    /\ Numbered(buffer) /\ Linked(buffer)
    /\ Extended(buffer, lastHashByTenant, appended)

MemoryInv == MapInv /\ BufferInv /\ AnswerInv

LEMMA MemoryStart == MemoryInit => MemoryInv
<1> SUFFICES ASSUME MemoryInit PROVE MemoryInv
  OBVIOUS
<1> USE DEF MemoryInit
<1>1. DOMAIN buffer = {} /\ DOMAIN lastHashByTenant = {}
  OBVIOUS
<1>2. buffer \in Seq(Items(buffer))
  BY EmptySeq
<1>3. BufferInv
  BY <1>1, <1>2 DEF BufferInv, Numbered, Linked, Extended
<1>4. MapInv
  BY <1>1 DEF MapInv
<1> QED
  BY <1>3, <1>4 DEF MemoryInv, AnswerInv

\* What append leaves: the rows but the k oldest, and the new one.
Shifted(s, e, kept, k) ==
    /\ Len(s) \in Nat /\ Len(s) + 1 - k \in Nat
    /\ DOMAIN kept = 1 .. Len(s) + 1 - k
    /\ DOMAIN s = 1 .. Len(s)
    /\ \A i \in DOMAIN kept : kept[i] = IF i + k <= Len(s) THEN s[i + k] ELSE e

\* What an append leaves: all of the rows and the new one, or all but the oldest.
LEMMA EvictFacts ==
  ASSUME NEW s, s \in Seq(Items(s)), NEW e
  PROVE  /\ Evict(Append(s, e)) \in Seq(Items(Evict(Append(s, e))))
         /\ \E k \in {0, 1} : Shifted(s, e, Evict(Append(s, e)), k)
<1> DEFINE all == Append(s, e)
           n == Len(s)
<1>1. /\ n \in Nat /\ Len(all) = n + 1 /\ all # << >> /\ all \in Seq(Items(all))
      /\ \A i \in 1 .. n : all[i] = s[i]
      /\ all[n + 1] = e
  BY AppendFacts
<1>2. DOMAIN s = 1 .. n /\ DOMAIN all = 1 .. n + 1
  BY <1>1, LenProperties
<1>3. Shifted(s, e, all, 0)
  <2> HIDE DEF all, n
  <2>1. \A i \in DOMAIN all : all[i] = IF i + 0 <= n THEN s[i + 0] ELSE e
    BY <1>1, <1>2
  <2>2. n + 1 - 0 = n + 1
    BY <1>1
  <2> QED
    BY <1>1, <1>2, <2>1, <2>2 DEF n, Shifted
<1>4. Tail(all) \in Seq(Items(Tail(all))) /\ Shifted(s, e, Tail(all), 1)
  <2> HIDE DEF all, n
  <2> DEFINE kept == Tail(all)
  <2>1. /\ kept \in Seq(Items(all)) /\ Len(kept) = n
        /\ \A i \in 1 .. n : kept[i] = all[i + 1]
    BY <1>1, HeadTailProperties
  <2>2. DOMAIN kept = 1 .. n
    BY <2>1, LenProperties
  <2>3. kept \in Seq(Items(kept))
    <3>1. kept \in [1 .. Len(kept) -> Items(all)]
      BY <2>1, LenProperties
    <3>2. kept \in [1 .. n -> Items(kept)]
      BY <3>1, <2>1 DEF Items
    <3> HIDE DEF kept
    <3> QED
      BY <1>1, <3>2, FunctionIsSeq
  <2> HIDE DEF kept
  <2>4. \A i \in DOMAIN kept : kept[i] = IF i + 1 <= n THEN s[i + 1] ELSE e
    BY <1>1, <1>2, <2>1, <2>2
  <2>5. n + 1 - 1 = n
    BY <1>1
  <2>6. Shifted(s, e, kept, 1)
    BY <1>1, <1>2, <2>2, <2>4, <2>5 DEF n, Shifted
  <2> QED
    BY <2>3, <2>6 DEF kept
<1>5. Evict(all) = all \/ Evict(all) = Tail(all)
  BY DEF Evict
<1> HIDE DEF all
<1> QED
  BY <1>1, <1>3, <1>4, <1>5 DEF all

\* A row that extends what the Map says keeps the links of all tenants.
LEMMA RowKeepsTheBuffer ==
  ASSUME MemoryInv, NEW t \in Councils, NEW CONSTANT e,
         e.body.tenantId = t, e.body.id = appended[t], e.prevHash = PrevHash(t),
         e.rowHash = ComputeRowHash(e.prevHash, e.body),
         buffer' = Evict(Append(buffer, e)),
         lastHashByTenant' = [u \in DOMAIN lastHashByTenant \cup {t} |->
            IF u = t THEN e.rowHash ELSE lastHashByTenant[u]],
         appended' = [appended EXCEPT ![t] = @ + 1],
         result' = NoAnswer
  PROVE  MemoryInv'
<1> USE DEF MemoryInv
<1> DEFINE n == Len(buffer)
<1>3. /\ buffer' \in Seq(Items(buffer'))
      /\ \E k \in {0, 1} : Shifted(buffer, e, buffer', k)
  BY EvictFacts DEF BufferInv
<1>4. PICK k \in {0, 1} : Shifted(buffer, e, buffer', k)
  BY <1>3
<1>5. /\ DOMAIN buffer = 1 .. n /\ DOMAIN buffer' = 1 .. n + 1 - k /\ n \in Nat
      /\ \A i \in DOMAIN buffer' :
            \/ i + k \in DOMAIN buffer /\ i + k <= n /\ buffer'[i] = buffer[i + k]
            \/ i + k = n + 1 /\ buffer'[i] = e
      /\ \A i \in DOMAIN buffer : i - k \in DOMAIN buffer' \/ i = k
      /\ \A i \in DOMAIN buffer' : i \in Nat
      /\ \A i \in DOMAIN buffer : i \in Nat
  BY <1>4 DEF Shifted
<1>6. /\ appended' \in [Councils -> Nat] /\ appended[t] \in Nat
      /\ appended'[t] = appended[t] + 1
      /\ \A u \in Councils : u # t => appended'[u] = appended[u]
  BY DEF MapInv
<1>7. /\ DOMAIN lastHashByTenant' = DOMAIN lastHashByTenant \cup {t}
      /\ lastHashByTenant'[t] = e.rowHash
      /\ \A u \in DOMAIN lastHashByTenant : u # t => lastHashByTenant'[u] = lastHashByTenant[u]
  OBVIOUS
<1>8. MapInv'
  <2>1. \A u \in Councils : u \in DOMAIN lastHashByTenant' <=> appended'[u] > 0
    BY <1>6, <1>7 DEF MapInv
  <2>2. \A u \in DOMAIN lastHashByTenant' : lastHashByTenant'[u].kind = "row"
    BY <1>7 DEF MapInv, ComputeRowHash
  <2> QED
    BY <1>6, <2>1, <2>2 DEF MapInv
<1>9. IsRow(e, appended')
  <2>1. e.prevHash.kind \in {"genesis", "row"}
    BY DEF PrevHash, MapInv, GenesisHash
  <2>2. e.prevHash = GenesisHash(t) <=> appended[t] = 0
    BY <1>6 DEF PrevHash, MapInv, GenesisHash
  <2> QED
    BY <1>6, <2>1, <2>2 DEF IsRow
<1>10. ASSUME NEW i \in DOMAIN buffer' PROVE IsRow(buffer'[i], appended')
  <2>1. CASE buffer'[i] = e
    BY <1>9, <2>1
  <2>2. ASSUME i + k \in DOMAIN buffer, buffer'[i] = buffer[i + k]
        PROVE  IsRow(buffer'[i], appended')
    <3>1. IsRow(buffer[i + k], appended)
      BY <2>2 DEF BufferInv
    <3> QED
      BY <1>6, <2>2, <3>1 DEF IsRow
  <2> QED
    BY <1>5, <2>1, <2>2
<1>12. \A i \in DOMAIN buffer' : i + k # n + 1 => i + k \in DOMAIN buffer /\ buffer'[i] = buffer[i + k]
  BY <1>5
<1>13. \A i \in DOMAIN buffer' : i + k = n + 1 => buffer'[i] = e
  BY <1>5
<1>14. Numbered(buffer')
  <2> SUFFICES ASSUME NEW i \in DOMAIN buffer', NEW j \in DOMAIN buffer', i < j,
                      buffer'[i].body.tenantId = buffer'[j].body.tenantId
               PROVE  buffer'[i].body.id < buffer'[j].body.id
    BY DEF Numbered
  <2>1. i + k # n + 1
    BY <1>5
  <2>2. i + k \in DOMAIN buffer /\ buffer'[i] = buffer[i + k]
    BY <1>12, <2>1
  <2>3. CASE j + k = n + 1
    <3>1. IsRow(buffer[i + k], appended)
      BY <2>2 DEF BufferInv
    <3> QED
      BY <1>13, <2>2, <2>3, <3>1 DEF IsRow
  <2>4. CASE j + k # n + 1
    <3>1. j + k \in DOMAIN buffer /\ buffer'[j] = buffer[j + k]
      BY <1>12, <2>4
    <3>2. i + k < j + k
      BY <1>5
    <3> QED
      BY <2>2, <3>1, <3>2 DEF BufferInv, Numbered
  <2> QED
    BY <2>3, <2>4
<1>15. Linked(buffer')
  <2> SUFFICES ASSUME NEW i \in DOMAIN buffer', NEW j \in DOMAIN buffer', Follows(buffer', i, j)
               PROVE  /\ buffer'[j].prevHash = buffer'[i].rowHash
                      /\ buffer'[j].body.id = buffer'[i].body.id + 1
    BY DEF Linked
  <2>1. i + k # n + 1
    BY <1>5 DEF Follows
  <2>2. i + k \in DOMAIN buffer /\ buffer'[i] = buffer[i + k]
    BY <1>12, <2>1
  <2>3. \A x \in DOMAIN buffer : x > i + k => x - k \in DOMAIN buffer' /\ buffer'[x - k] = buffer[x]
    BY <1>5, <1>12
  <2>4. CASE j + k = n + 1
    <3>1. IsLast(buffer, i + k)
      <4> SUFFICES ASSUME NEW x \in DOMAIN buffer, x > i + k,
                          buffer[x].body.tenantId = buffer[i + k].body.tenantId
                   PROVE  FALSE
        BY <1>5, <2>2 DEF IsLast
      <4>1. x - k \in DOMAIN buffer' /\ buffer'[x - k] = buffer[x]
        BY <2>3
      <4>2. x - k <= i \/ x - k >= j
        BY <2>2, <4>1 DEF Follows
      <4> QED
        BY <1>5, <2>4, <4>2
    <3>2. /\ t \in DOMAIN lastHashByTenant /\ buffer[i + k].rowHash = lastHashByTenant[t]
          /\ buffer[i + k].body.id + 1 = appended[t]
      BY <1>13, <2>2, <2>4, <3>1 DEF BufferInv, Extended, Follows
    <3> QED
      BY <1>13, <2>2, <2>4, <3>2 DEF PrevHash
  <2>5. CASE j + k # n + 1
    <3>1. j + k \in DOMAIN buffer /\ buffer'[j] = buffer[j + k]
      BY <1>12, <2>5
    <3>2. Follows(buffer, i + k, j + k)
      <4>1. ASSUME NEW x \in DOMAIN buffer,
                   buffer[x].body.tenantId = buffer[i + k].body.tenantId
            PROVE  x <= i + k \/ x >= j + k
        <5> SUFFICES ASSUME x > i + k PROVE x >= j + k
          BY <1>5, <2>2
        <5>1. x - k \in DOMAIN buffer' /\ buffer'[x - k] = buffer[x]
          BY <2>3
        <5>2. x - k <= i \/ x - k >= j
          BY <2>2, <4>1, <5>1 DEF Follows
        <5> QED
          BY <1>5, <5>2
      <4>2. i + k < j + k /\ buffer[i + k].body.tenantId = buffer[j + k].body.tenantId
        BY <1>5, <2>2, <3>1 DEF Follows
      <4> QED
        BY <4>1, <4>2 DEF Follows
    <3> QED
      BY <2>2, <3>1, <3>2 DEF BufferInv, Linked
  <2> QED
    BY <2>4, <2>5
<1>16. Extended(buffer', lastHashByTenant', appended')
  <2> SUFFICES ASSUME NEW i \in DOMAIN buffer', IsLast(buffer', i)
               PROVE  LET u == buffer'[i].body.tenantId IN
                      /\ u \in DOMAIN lastHashByTenant'
                      /\ buffer'[i].rowHash = lastHashByTenant'[u]
                      /\ buffer'[i].body.id + 1 = appended'[u]
    BY DEF Extended
  <2>1. CASE i + k = n + 1
    BY <1>6, <1>7, <1>13, <2>1
  <2>2. CASE i + k # n + 1
    <3>1. i + k \in DOMAIN buffer /\ buffer'[i] = buffer[i + k]
      BY <1>12, <2>2
    <3>2. \A x \in DOMAIN buffer : x > i + k => x - k \in DOMAIN buffer' /\ buffer'[x - k] = buffer[x]
      BY <1>5, <1>12
    <3>3. IsLast(buffer, i + k)
      BY <1>5, <3>1, <3>2 DEF IsLast
    <3>4. buffer'[i].body.tenantId # t
      <4>1. n + 1 - k \in DOMAIN buffer' /\ n + 1 - k > i
        BY <1>5, <2>2
      <4>2. buffer'[n + 1 - k] = e
        BY <1>5, <1>13, <4>1
      <4> QED
        BY <1>5, <4>1, <4>2 DEF IsLast
    <3>5. IsRow(buffer[i + k], appended)
      BY <3>1 DEF BufferInv
    <3> QED
      BY <1>6, <1>7, <3>1, <3>3, <3>4, <3>5 DEF BufferInv, Extended, IsRow
  <2> QED
    BY <2>1, <2>2
<1>17. BufferInv'
  BY <1>3, <1>10, <1>14, <1>15, <1>16 DEF BufferInv
<1> QED
  BY <1>8, <1>17 DEF AnswerInv

LEMMA AppendKeepsTheBuffer ==
  ASSUME MemoryInv, NEW t \in Councils, AppendEntry(t)
  PROVE  MemoryInv'
<1> DEFINE body == [id |-> appended[t], tenantId |-> t]
           row == [body |-> body, prevHash |-> PrevHash(t),
                   rowHash |-> ComputeRowHash(PrevHash(t), body)]
<1>1. PICK e : e = row
  OBVIOUS
<1>2. /\ e.body.tenantId = t /\ e.body.id = appended[t] /\ e.prevHash = PrevHash(t)
      /\ e.rowHash = ComputeRowHash(e.prevHash, e.body)
  BY <1>1
<1>3. /\ buffer' = Evict(Append(buffer, e))
      /\ lastHashByTenant' = [u \in DOMAIN lastHashByTenant \cup {t} |->
            IF u = t THEN e.rowHash ELSE lastHashByTenant[u]]
      /\ appended' = [appended EXCEPT ![t] = @ + 1]
      /\ result' = NoAnswer
  BY <1>1 DEF AppendEntry
<1> QED
  BY <1>2, <1>3, RowKeepsTheBuffer

\* Of the newest rows of a tenant, every later row of it is one.
LEMMA NewestAreAWindow ==
  ASSUME MemoryInv, NEW t \in Councils, NEW limit \in Nat \ {0},
         NEW i \in NewestOf(Own(t), limit), NEW j \in Own(t), j > i
  PROVE  j \in NewestOf(Own(t), limit)
<1> DEFINE Later(k) == {x \in Own(t) : x > k}
<1>1. /\ DOMAIN buffer = 1 .. Len(buffer) /\ Len(buffer) \in Nat
  BY LenProperties DEF MemoryInv, BufferInv
<1>2. Own(t) \in SUBSET (1 .. Len(buffer))
  BY <1>1 DEF Own
<1>3. i \in Own(t) /\ Cardinality(Later(i)) < Max({1, limit})
  BY DEF NewestOf
<1>4. \A x \in Own(t) : x \in Nat
  BY <1>2
<1>5. Later(j) \subseteq Later(i)
  BY <1>3, <1>4
<1>6. IsFiniteSet(1 .. Len(buffer))
  BY <1>1, FS_Interval
<1>7. IsFiniteSet(Later(i)) /\ Later(i) \in SUBSET (1 .. Len(buffer))
  BY <1>2, <1>6, FS_Subset
<1>8. /\ Cardinality(Later(j)) <= Cardinality(Later(i))
      /\ Cardinality(Later(i)) \in Nat /\ Cardinality(Later(j)) \in Nat
  BY <1>5, <1>7, FS_Subset, FS_CardinalityType
<1>9. Max({1, limit}) = limit
  <2>1. {1, limit} \in SUBSET (1 .. limit)
    OBVIOUS
  <2>2. Max({1, limit}) \in {1, limit} /\ Max({1, limit}) >= limit
    BY <2>1, MaxIsLargest
  <2> QED
    BY <2>2
<1>10. Cardinality(Later(j)) < limit
  BY <1>3, <1>8, <1>9
<1> QED
  BY <1>9, <1>10 DEF NewestOf

\* So the newest rows of one tenant, or of each, are closed under later rows.
LEMMA NewestFormAWindow ==
  ASSUME MemoryInv, NEW limit \in Nat \ {0}
  PROVE  /\ \A t \in Councils : IsWindow(NewestOf(Own(t), limit))
         /\ IsWindow(UNION {NewestOf(Own(t), limit) : t \in Councils})
<1>1. \A t \in Councils : NewestOf(Own(t), limit) \subseteq Own(t)
  BY DEF NewestOf
<1>2. ASSUME NEW t \in Councils, NEW i \in NewestOf(Own(t), limit), NEW j \in DOMAIN buffer,
             buffer[j].body.tenantId = buffer[i].body.tenantId, j > i
      PROVE  j \in NewestOf(Own(t), limit)
  <2>1. j \in Own(t)
    BY <1>1, <1>2 DEF Own
  <2> QED
    BY <1>2, <2>1, NewestAreAWindow
<1>3. \A t \in Councils : Own(t) \subseteq DOMAIN buffer
  BY DEF Own
<1> QED
  BY <1>1, <1>2, <1>3 DEF IsWindow

\* An answer is about such a window.
LEMMA VerifyToolKeepsTheBuffer ==
  ASSUME MemoryInv, VerifyTool
  PROVE  MemoryInv'
<1>1. UNCHANGED <<buffer, lastHashByTenant, appended>>
  BY DEF VerifyTool
<1>2. \E places : IsWindow(places) /\ result'.rows = Listed(places)
                 /\ result'.verdict = VerifyChain(result'.rows)
  <2>1. PICK limit \in 1 .. MAX_ENTRIES :
         \/ \E t \in Councils :
              LET rows == ReadChainOrdered(t, limit) IN
              result' = [limit |-> limit, rows |-> rows, verdict |-> VerifyChain(rows)]
         \/ LET rows == ReadChainOrderedAllTenants(limit) IN
              result' = [limit |-> limit, rows |-> rows, verdict |-> VerifyChain(rows)]
    BY DEF VerifyTool
  <2>2. limit \in Nat \ {0}
    OBVIOUS
  <2>3. \E places : /\ IsWindow(places)
                   /\ LET rows == Listed(places) IN
                      result' = [limit |-> limit, rows |-> rows, verdict |-> VerifyChain(rows)]
    BY <2>1, <2>2, NewestFormAWindow DEF ReadChainOrdered, ReadChainOrderedAllTenants
  <2> QED
    BY <2>3
<1>3. \A places : Listed(places)' = Listed(places)
  BY <1>1 DEF Listed, Rank, Precedes, FirstOf, Own
<1>4. \A places : IsWindow(places)' <=> IsWindow(places)
  BY <1>1 DEF IsWindow
<1>5. AnswerInv'
  BY <1>2, <1>3, <1>4 DEF AnswerInv
<1> QED
  BY <1>1, <1>5 DEF MemoryInv, MapInv, BufferInv

LEMMA MemoryStep == MemoryInv /\ [MemoryNext]_memoryVars => MemoryInv'
<1> SUFFICES ASSUME MemoryInv, [MemoryNext]_memoryVars PROVE MemoryInv'
  OBVIOUS
<1>1. CASE \E t \in Councils : AppendEntry(t)
  BY <1>1, AppendKeepsTheBuffer
<1>2. CASE VerifyTool
  BY <1>2, VerifyToolKeepsTheBuffer
<1>3. CASE UNCHANGED memoryVars
  <2>1. \A places : Listed(places)' = Listed(places)
    BY <1>3 DEF Listed, Rank, Precedes, FirstOf, Own, memoryVars
  <2>2. \A places : IsWindow(places)' <=> IsWindow(places)
    BY <1>3 DEF IsWindow, memoryVars
  <2>3. AnswerInv'
    BY <1>3, <2>1, <2>2 DEF AnswerInv, MemoryInv, memoryVars
  <2> QED
    BY <1>3, <2>3 DEF MemoryInv, MapInv, BufferInv, memoryVars
<1> QED
  BY <1>1, <1>2, <1>3 DEF MemoryNext

(***************************************************************************)
(* For any tenants, any capacity of the buffer and any number of appends:  *)
(* each surviving row extends its tenant's surviving row before it, and    *)
(* the last one is what lastHashByTenant says the next row will extend,    *)
(* for append looks the hash up in the Map and not in the buffer.          *)
(***************************************************************************)
THEOREM EvictionLeavesATail == MemorySpec => []SurvivorsAreContiguous
<1>1. MemoryInv => SurvivorsAreContiguous
  <2> SUFFICES ASSUME MemoryInv, NEW t \in Councils
               PROVE  /\ \A i, j \in Own(t) :
                           (i < j /\ \A k \in Own(t) : k <= i \/ k >= j)
                              => buffer[j].prevHash = buffer[i].rowHash
                      /\ \A i \in Own(t) :
                           (\A k \in Own(t) : k <= i)
                              => /\ t \in DOMAIN lastHashByTenant
                                 /\ buffer[i].rowHash = lastHashByTenant[t]
    BY DEF SurvivorsAreContiguous
  <2>1. ASSUME NEW i \in Own(t), NEW j \in Own(t), i < j,
               \A k \in Own(t) : k <= i \/ k >= j
        PROVE  buffer[j].prevHash = buffer[i].rowHash
    <3>1. Follows(buffer, i, j)
      BY <2>1 DEF Follows, Own
    <3> QED
      BY <3>1 DEF Own, MemoryInv, BufferInv, Linked
  <2>2. ASSUME NEW i \in Own(t), \A k \in Own(t) : k <= i
        PROVE  t \in DOMAIN lastHashByTenant /\ buffer[i].rowHash = lastHashByTenant[t]
    <3>1. IsLast(buffer, i)
      BY <2>2 DEF IsLast, Own
    <3> QED
      BY <3>1 DEF Own, MemoryInv, BufferInv, Extended
  <2> QED
    BY <2>1, <2>2
<1> QED
  BY <1>1, MemoryStart, MemoryStep, PTL DEF MemorySpec

-----------------------------------------------------------------------------
(* What the verifier is handed, and what it says of it. *)

\* The least of some numbers.
LEMMA MinIsLeast ==
  ASSUME NEW s \in SUBSET Nat, s # {}
  PROVE  Min(s) \in s /\ \A y \in s : Min(s) <= y
<1>1. IsWellFoundedOn(OpToRel(<, Nat), Nat)
  BY NatLessThanWellFounded
<1>2. PICK m \in s : \A y \in s : ~ (<<y, m>> \in OpToRel(<, Nat))
  <2> HIDE DEF OpToRel
  <2> QED
    BY <1>1, WFMin
<1>3. \A y \in s : m <= y
  <2> SUFFICES ASSUME NEW y \in s PROVE m <= y
    OBVIOUS
  <2>1. y \in Nat /\ m \in Nat
    OBVIOUS
  <2>2. ~ (y < m)
    BY <1>2, <2>1 DEF OpToRel
  <2> QED
    BY <2>1, <2>2
<1> QED
  BY <1>3 DEF Min

\* Induction over the naturals, over a set of numbers rather than a predicate.
LEMMA Counting ==
  ASSUME NEW G, 0 \in G, \A n \in Nat : n \in G => n + 1 \in G
  PROVE  Nat \subseteq G
<1> DEFINE B == Nat \ G
<1> SUFFICES ASSUME B # {} PROVE FALSE
  OBVIOUS
<1>1. IsWellFoundedOn(OpToRel(<, Nat), Nat)
  BY NatLessThanWellFounded
<1>2. B \subseteq Nat
  OBVIOUS
<1> HIDE DEF B
<1>3. PICK x \in B : \A y \in B : ~ (<<y, x>> \in OpToRel(<, Nat))
  <2> HIDE DEF OpToRel
  <2> QED
    BY <1>1, <1>2, WFMin
<1>4. x \in Nat /\ x # 0 /\ x \notin G
  BY DEF B
<1>5. x - 1 \in Nat /\ x - 1 < x
  BY <1>4
<1>6. x - 1 \notin B
  BY <1>3, <1>4, <1>5 DEF OpToRel
<1>7. x - 1 \in G
  BY <1>5, <1>6 DEF B
<1>8. (x - 1) + 1 \in G
  BY <1>5, <1>7
<1> QED
  BY <1>4, <1>8

\* The order of a listing is total over the buffer's places.
LEMMA PrecedesIsAnOrder ==
  ASSUME MemoryInv
  PROVE  /\ \A i \in DOMAIN buffer : i \in Nat /\ FirstOf(i) \in Nat
         /\ \A i, j \in DOMAIN buffer : Precedes(i, j) \/ Precedes(j, i) \/ i = j
         /\ \A i, j \in DOMAIN buffer : ~ (Precedes(i, j) /\ (Precedes(j, i) \/ i = j))
         /\ \A i, j, k \in DOMAIN buffer : Precedes(i, j) /\ Precedes(j, k) => Precedes(i, k)
         /\ \A i, j \in DOMAIN buffer :
               buffer[i].body.tenantId = buffer[j].body.tenantId
                  => (Precedes(i, j) <=> i < j)
<1>1. /\ DOMAIN buffer = 1 .. Len(buffer) /\ Len(buffer) \in Nat
  BY LenProperties DEF MemoryInv, BufferInv
<1>2. ASSUME NEW i \in DOMAIN buffer PROVE i \in Nat /\ FirstOf(i) \in Nat
  <2>1. i \in Own(buffer[i].body.tenantId) /\ Own(buffer[i].body.tenantId) \in SUBSET Nat
    BY <1>1 DEF Own
  <2>2. FirstOf(i) \in Own(buffer[i].body.tenantId)
    BY <2>1, MinIsLeast DEF FirstOf
  <2> QED
    BY <2>1, <2>2
<1>3. \A i, j \in DOMAIN buffer :
        buffer[i].body.tenantId = buffer[j].body.tenantId => FirstOf(i) = FirstOf(j)
  BY DEF FirstOf
<1> QED
  BY <1>2, <1>3 DEF Precedes

\* Listed puts places in a row, one after the other and each of them.
InOrder(places, q) ==
    /\ q \in [1 .. Cardinality(places) -> places]
    /\ \A k, l \in 1 .. Cardinality(places) : k < l => Precedes(q[k], q[l])
    /\ \A i \in places : \E k \in 1 .. Cardinality(places) : q[k] = i

\* A listing holds the row at each of the places once, in that order.
LEMMA ListedIsInOrder ==
  ASSUME MemoryInv, NEW places, IsWindow(places)
  PROVE  /\ Cardinality(places) \in Nat
         /\ \E q : /\ InOrder(places, q)
                   /\ Listed(places) = [k \in 1 .. Cardinality(places) |-> buffer[q[k]]]
<1> DEFINE n == Cardinality(places)
           Before(i) == {j \in places : Precedes(j, i)}
<1>1. /\ IsFiniteSet(places) /\ n \in Nat
  <2>1. DOMAIN buffer = 1 .. Len(buffer) /\ Len(buffer) \in Nat
    BY LenProperties DEF MemoryInv, BufferInv
  <2>2. IsFiniteSet(1 .. Len(buffer))
    BY <2>1, FS_Interval
  <2> QED
    BY <2>1, <2>2, FS_Subset, FS_CardinalityType DEF IsWindow
<1>2. places \subseteq DOMAIN buffer
  BY DEF IsWindow
<1>3. ASSUME NEW i \in places
      PROVE  /\ IsFiniteSet(Before(i)) /\ Rank(places, i) = Cardinality(Before(i))
             /\ Rank(places, i) \in Nat /\ i \notin Before(i) /\ Rank(places, i) + 1 <= n
  <2>1. IsFiniteSet(Before(i)) /\ Cardinality(Before(i)) \in Nat
    BY <1>1, FS_Subset, FS_CardinalityType
  <2>2. i \notin Before(i)
    BY <1>2, PrecedesIsAnOrder
  <2>3. Cardinality(Before(i) \cup {i}) = Cardinality(Before(i)) + 1
    BY <2>1, <2>2, FS_AddElement
  <2>4. Before(i) \cup {i} \in SUBSET places
    OBVIOUS
  <2>5. Cardinality(Before(i) \cup {i}) <= n
    <3> HIDE DEF Before, n
    <3> QED
      BY <1>1, <2>4, FS_Subset DEF n
  <2> QED
    BY <2>1, <2>2, <2>3, <2>5 DEF Rank
<1>4. ASSUME NEW i \in places, NEW j \in places, Precedes(i, j)
      PROVE  Rank(places, i) < Rank(places, j)
  <2>1. Before(i) \cup {i} \in SUBSET Before(j)
    BY <1>2, <1>4, PrecedesIsAnOrder
  <2>2. Cardinality(Before(i) \cup {i}) = Cardinality(Before(i)) + 1
    BY <1>3, FS_AddElement
  <2>3. Cardinality(Before(i) \cup {i}) <= Cardinality(Before(j))
    <3>1. IsFiniteSet(Before(j))
      BY <1>3
    <3> HIDE DEF Before
    <3> QED
      BY <3>1, <2>1, FS_Subset
  <2>4. /\ Rank(places, i) = Cardinality(Before(i)) /\ Rank(places, i) \in Nat
        /\ Rank(places, j) = Cardinality(Before(j)) /\ Rank(places, j) \in Nat
    BY <1>3
  <2> HIDE DEF Before
  <2> QED
    BY <2>2, <2>3, <2>4
<1>5. ASSUME NEW i \in places, NEW j \in places, Rank(places, i) = Rank(places, j)
      PROVE  i = j
  <2>1. Precedes(i, j) \/ Precedes(j, i) \/ i = j
    BY <1>2, PrecedesIsAnOrder
  <2>2. Rank(places, i) \in Nat
    BY <1>3
  <2> QED
    BY <1>4, <1>5, <2>1, <2>2
<1>12. \A i \in places : Rank(places, i) \in Nat /\ Rank(places, i) + 1 \in 1 .. n
  <2> SUFFICES ASSUME NEW i \in places
               PROVE  Rank(places, i) \in Nat /\ Rank(places, i) + 1 \in 1 .. n
    OBVIOUS
  <2>1. Rank(places, i) \in Nat /\ Rank(places, i) + 1 <= n /\ n \in Nat
    BY <1>1, <1>3
  <2> HIDE DEF n
  <2> QED
    BY <2>1
<1> DEFINE f == [i \in places |-> Rank(places, i) + 1]
<1>6. f \in Injection(places, 1 .. n)
  <2>1. \A i \in places : f[i] \in 1 .. n
    BY <1>12
  <2>2. ASSUME NEW i \in places, NEW j \in places, f[i] = f[j] PROVE i = j
    <3>1. Rank(places, i) + 1 = Rank(places, j) + 1
      BY <2>2
    <3>2. Rank(places, i) = Rank(places, j)
      BY <1>12, <3>1
    <3> QED
      BY <1>5, <3>2
  <2> QED
    BY <2>1, <2>2 DEF Injection, IsInjective
<1>7. f \in Surjection(places, 1 .. n)
  <2>1. IsFiniteSet(1 .. n) /\ Cardinality(1 .. n) = n
    BY <1>1, FS_Interval
  <2> HIDE DEF f
  <2> QED
    BY <1>6, <2>1, FS_Injection
<1>8. \A k \in 1 .. n : \E i \in places : Rank(places, i) = k - 1
  <2> SUFFICES ASSUME NEW k \in 1 .. n PROVE \E i \in places : Rank(places, i) = k - 1
    OBVIOUS
  <2>1. PICK i \in places : f[i] = k
    BY <1>7 DEF Surjection
  <2>2. Rank(places, i) + 1 = k /\ Rank(places, i) \in Nat
    BY <1>12, <2>1
  <2>3. Rank(places, i) = k - 1
    BY <2>2
  <2> QED
    BY <2>3
<1> DEFINE q == [k \in 1 .. n |-> CHOOSE i \in places : Rank(places, i) = k - 1]
<1>9. \A k \in 1 .. n : q[k] \in places /\ Rank(places, q[k]) = k - 1
  BY <1>8
<1>10. Listed(places) = [k \in 1 .. n |-> buffer[q[k]]]
  BY DEF Listed
<1>11. InOrder(places, q)
  <2>1. q \in [1 .. n -> places]
    BY <1>9
  <2> HIDE DEF q
  <2>2. ASSUME NEW k \in 1 .. n, NEW l \in 1 .. n, k < l PROVE Precedes(q[k], q[l])
    <3>1. q[k] \in DOMAIN buffer /\ q[l] \in DOMAIN buffer
      BY <1>2, <1>9
    <3>2. Precedes(q[k], q[l]) \/ Precedes(q[l], q[k]) \/ q[k] = q[l]
      BY <3>1, PrecedesIsAnOrder
    <3>3. Rank(places, q[k]) < Rank(places, q[l])
      BY <1>1, <1>9, <2>2
    <3>4. ~ (Rank(places, q[l]) < Rank(places, q[k]))
      BY <1>1, <1>9, <2>2
    <3>5. q[k] # q[l]
      BY <1>1, <1>9, <2>2
    <3> QED
      BY <1>4, <1>9, <3>2, <3>4, <3>5
  <2>3. ASSUME NEW i \in places PROVE \E k \in 1 .. n : q[k] = i
    <3>1. Rank(places, i) + 1 \in 1 .. n /\ Rank(places, i) \in Nat
      BY <1>12
    <3>3. Rank(places, q[Rank(places, i) + 1]) = (Rank(places, i) + 1) - 1
      BY <1>9, <3>1
    <3>2. Rank(places, q[Rank(places, i) + 1]) = Rank(places, i)
      BY <3>1, <3>3
    <3> QED
      BY <1>5, <1>9, <3>1, <3>2
  <2> QED
    BY <2>1, <2>2, <2>3 DEF InOrder
<1> QED
  BY <1>1, <1>10, <1>11

\* Where a listing of a window breaks: at the first row of a tenant, if it is
\* not the first of its chain.
LEMMA BreaksAreCuts ==
  ASSUME MemoryInv, NEW places, IsWindow(places), NEW q, InOrder(places, q),
         NEW n \in Nat, n = Cardinality(places),
         NEW rows, rows = [k \in 1 .. n |-> buffer[q[k]]],
         NEW k \in 1 .. n
  PROVE  BreaksAt(rows, k) <=> /\ StartsSegment(rows, k)
                               /\ rows[k].prevHash # GenesisHash(rows[k].body.tenantId)
<1> DEFINE tenant == rows[k].body.tenantId
           above == {j \in 1 .. k - 1 : /\ ~IsSentinel(rows[j])
                                        /\ rows[j].body.tenantId = tenant}
<1>1. \A j \in 1 .. n : /\ rows[j] = buffer[q[j]] /\ q[j] \in places /\ q[j] \in DOMAIN buffer
                        /\ IsRow(rows[j], appended)
  BY DEF InOrder, IsWindow, MemoryInv, BufferInv
<1>2. \A j \in 1 .. n : ~IsSentinel(rows[j])
  BY <1>1 DEF IsSentinel, IsRow, PRE_CHAIN_SENTINEL
<1>3. \A j \in 1 .. k - 1 : j \in 1 .. n /\ j < k
  OBVIOUS
<1>4. above = {j \in 1 .. k - 1 : rows[j].body.tenantId = tenant}
  BY <1>2, <1>3
<1>5. StartsSegment(rows, k) <=> above = {}
  BY <1>4 DEF StartsSegment
<1>6. ExpectedPrev(rows, k) = IF above = {} THEN GenesisHash(tenant) ELSE rows[Max(above)].rowHash
  BY DEF ExpectedPrev
<1>7. /\ BreaksAt(rows, k) <=> \/ rows[k].prevHash # ExpectedPrev(rows, k)
                               \/ rows[k].rowHash # ComputeRowHash(ExpectedPrev(rows, k), rows[k].body)
      /\ rows[k].rowHash = ComputeRowHash(rows[k].prevHash, rows[k].body)
  BY <1>1, <1>2 DEF BreaksAt, IsRow
<1>8. BreaksAt(rows, k) <=> rows[k].prevHash # ExpectedPrev(rows, k)
  BY <1>7
<1>9. ASSUME above # {} PROVE rows[k].prevHash = rows[Max(above)].rowHash
  <2> DEFINE m == Max(above)
  <2>1. above \in SUBSET (1 .. k - 1) /\ k - 1 \in Nat
    OBVIOUS
  <2>2. m \in above /\ \A y \in above : m >= y
    <3> HIDE DEF above
    <3> QED
      BY <1>9, <2>1, MaxIsLargest
  <2>3. m \in 1 .. n /\ m < k /\ rows[m].body.tenantId = tenant
    BY <1>3, <2>2
  <2> HIDE DEF m
  <2>4. Precedes(q[m], q[k]) /\ q[m] < q[k]
    BY <1>1, <2>3, PrecedesIsAnOrder DEF InOrder
  <2>5. Follows(buffer, q[m], q[k])
    <3>1. ASSUME NEW x \in DOMAIN buffer,
                 buffer[x].body.tenantId = buffer[q[m]].body.tenantId,
                 q[m] < x, x < q[k]
          PROVE  FALSE
      <4>1. x \in places
        BY <1>1, <2>3, <3>1 DEF IsWindow
      <4>2. PICK l \in 1 .. n : q[l] = x
        BY <4>1 DEF InOrder
      <4>3. Precedes(q[m], q[l]) /\ Precedes(q[l], q[k])
        BY <1>1, <2>3, <3>1, <4>2, PrecedesIsAnOrder
      <4>4. l # m /\ l # k /\ ~ (l < m) /\ ~ (k < l)
        BY <1>1, <2>3, <4>3, PrecedesIsAnOrder DEF InOrder
      <4>5. l \in 1 .. k - 1 /\ l > m
        BY <2>3, <4>4
      <4>6. rows[l].body.tenantId = tenant
        BY <1>1, <2>3, <3>1, <4>2
      <4>7. l \in above
        BY <1>4, <4>5, <4>6
      <4>8. m >= l
        <5> HIDE DEF above
        <5> QED
          BY <2>2, <4>7
      <4> QED
        BY <2>3, <4>5, <4>8
    <3>2. \A x \in DOMAIN buffer : x \in Nat
      BY PrecedesIsAnOrder
    <3> QED
      BY <1>1, <2>3, <2>4, <3>1, <3>2 DEF Follows
  <2> QED
    BY <1>1, <2>3, <2>5 DEF MemoryInv, BufferInv, Linked, m
<1> QED
  BY <1>5, <1>6, <1>8, <1>9

\* A tenant whose window starts at its genesis has all of its rows there.
LEMMA UncutIsWhole ==
  ASSUME MemoryInv, NEW places, IsWindow(places), NEW q, InOrder(places, q),
         NEW n \in Nat, n = Cardinality(places),
         NEW rows, rows = [k \in 1 .. n |-> buffer[q[k]]],
         \A k \in 1 .. n : StartsSegment(rows, k)
              => rows[k].prevHash = GenesisHash(rows[k].body.tenantId),
         NEW r \in ToSet(rows)
  PROVE  Cardinality({s \in ToSet(rows) : s.body.tenantId = r.body.tenantId})
           = appended[r.body.tenantId]
<1> DEFINE t == r.body.tenantId
           mine == {s \in ToSet(rows) : s.body.tenantId = t}
           total == appended[t]
<1>1. \A j \in 1 .. n : /\ rows[j] = buffer[q[j]] /\ q[j] \in places /\ q[j] \in DOMAIN buffer
                        /\ IsRow(rows[j], appended)
  BY DEF InOrder, IsWindow, MemoryInv, BufferInv
<1>2. ToSet(rows) = {rows[j] : j \in 1 .. n}
  BY DEF ToSet
<1>3. \A s \in ToSet(rows) : \E i \in places : s = buffer[i] /\ i \in DOMAIN buffer
  BY <1>1, <1>2
<1>4. \A i \in places : buffer[i] \in ToSet(rows) /\ i \in DOMAIN buffer /\ i \in Nat
  BY <1>1, <1>2, PrecedesIsAnOrder DEF InOrder, IsWindow
<1>5. \A s \in ToSet(rows) : IsRow(s, appended)
  BY <1>1, <1>2
<1>6. t \in Councils /\ total \in Nat
  BY <1>5 DEF IsRow, MemoryInv, MapInv
\* Its first row is row 0.
<1>7. \E i \in places : buffer[i].body.tenantId = t /\ buffer[i].body.id = 0
  <2> DEFINE here == {j \in 1 .. n : rows[j].body.tenantId = t}
  <2>1. here \in SUBSET Nat /\ here # {}
    BY <1>2
  <2>2. Min(here) \in here /\ \A y \in here : Min(here) <= y
    <3> HIDE DEF here
    <3> QED
      BY <2>1, MinIsLeast
  <2> DEFINE k == Min(here)
  <2>3. k \in 1 .. n /\ rows[k].body.tenantId = t
    BY <2>2
  <2>4. StartsSegment(rows, k)
    <3> SUFFICES ASSUME NEW j \in 1 .. k - 1, rows[j].body.tenantId = t PROVE FALSE
      BY <2>3 DEF StartsSegment
    <3>1. j \in here
      <4>1. j \in 1 .. n
        <5> HIDE DEF k
        <5> QED
          BY <2>3
      <4> QED
        BY <4>1
    <3>2. k <= j
      BY <2>2, <3>1
    <3> HIDE DEF here, k
    <3> QED
      BY <2>3, <3>2
  <2> HIDE DEF k
  <2>5. rows[k].prevHash = GenesisHash(t)
    BY <2>3, <2>4
  <2> QED
    BY <1>1, <2>3, <2>5 DEF IsRow
\* And after each row but the last appended comes the next.
<1> DEFINE G == {c \in Nat : c < total =>
                    \E i \in places : buffer[i].body.tenantId = t /\ buffer[i].body.id = c}
<1>8. 0 \in G
  BY <1>7
<1>9. ASSUME NEW c \in Nat, c \in G PROVE c + 1 \in G
  <2> SUFFICES ASSUME c + 1 < total
               PROVE  \E i \in places : buffer[i].body.tenantId = t /\ buffer[i].body.id = c + 1
    OBVIOUS
  <2>1. PICK i \in places : buffer[i].body.tenantId = t /\ buffer[i].body.id = c
    BY <1>6, <1>9
  <2> DEFINE later == {j \in DOMAIN buffer : buffer[j].body.tenantId = t /\ j > i}
  <2>2. later # {}
    <3> SUFFICES ASSUME later = {} PROVE FALSE
      OBVIOUS
    <3>1. IsLast(buffer, i)
      <4>1. i \in DOMAIN buffer /\ i \in Nat /\ \A x \in DOMAIN buffer : x \in Nat
        BY <1>4, <2>1, PrecedesIsAnOrder
      <4>2. \A x \in DOMAIN buffer : buffer[x].body.tenantId = t => ~(x > i)
        BY DEF later
      <4> QED
        BY <2>1, <4>1, <4>2 DEF IsLast
    <3>2. buffer[i].body.id + 1 = total
      BY <1>4, <2>1, <3>1 DEF MemoryInv, BufferInv, Extended
    <3> QED
      BY <1>6, <2>1, <3>2
  <2>3. later \in SUBSET Nat
    BY PrecedesIsAnOrder
  <2> DEFINE j == Min(later)
  <2>4. j \in later /\ \A y \in later : j <= y
    <3> HIDE DEF later
    <3> QED
      BY <2>2, <2>3, MinIsLeast
  <2> HIDE DEF j
  <2>5. j \in DOMAIN buffer /\ buffer[j].body.tenantId = t /\ j > i
    BY <2>4
  <2>6. Follows(buffer, i, j)
    <3>1. \A x \in DOMAIN buffer : buffer[x].body.tenantId = t => x <= i \/ x >= j
      <4> SUFFICES ASSUME NEW x \in DOMAIN buffer, buffer[x].body.tenantId = t, ~(x <= i)
                   PROVE  x >= j
        OBVIOUS
      <4>0. x > i
        BY <1>4, <2>1, PrecedesIsAnOrder
      <4>1. x \in later
        BY <4>0
      <4>2. j <= x
        <5> HIDE DEF later
        <5> QED
          BY <2>4, <4>1
      <4>3. x \in Nat /\ j \in Nat
        BY <2>5, PrecedesIsAnOrder
      <4> QED
        BY <4>2, <4>3
    <3> QED
      BY <1>4, <2>1, <2>5, <3>1 DEF Follows
  <2>7. buffer[j].body.id = c + 1
    BY <1>4, <2>1, <2>5, <2>6 DEF MemoryInv, BufferInv, Linked
  <2>8. j \in places
    BY <2>1, <2>5 DEF IsWindow
  <2> QED
    BY <2>5, <2>7, <2>8
<1>10. Nat \subseteq G
  <2> HIDE DEF G
  <2> QED
    BY <1>8, <1>9, Counting
<1> DEFINE f == [s \in mine |-> s.body.id]
<1>11. f \in [mine -> 0 .. total - 1]
  <2>1. \A s \in mine : s.body.id \in 0 .. total - 1
    BY <1>5, <1>6 DEF IsRow
  <2> QED
    BY <2>1
<1>12. f \in Injection(mine, 0 .. total - 1)
  <2>1. ASSUME NEW s \in mine, NEW u \in mine, s.body.id = u.body.id PROVE s = u
    <3>1. PICK i \in places : s = buffer[i] /\ i \in DOMAIN buffer /\ i \in Nat
      BY <1>3, <1>4
    <3>2. PICK j \in places : u = buffer[j] /\ j \in DOMAIN buffer /\ j \in Nat
      BY <1>3, <1>4
    <3>3. s.body.id \in Nat /\ s.body.tenantId = u.body.tenantId
      BY <1>5 DEF IsRow
    <3>4. ~ (i < j) /\ ~ (j < i)
      BY <2>1, <3>1, <3>2, <3>3 DEF MemoryInv, BufferInv, Numbered
    <3> QED
      BY <3>1, <3>2, <3>4
  <2> QED
    BY <1>11, <2>1 DEF Injection, IsInjective
<1>13. f \in Surjection(mine, 0 .. total - 1)
  <2>1. ASSUME NEW c \in 0 .. total - 1 PROVE \E s \in mine : s.body.id = c
    <3>1. c \in Nat /\ c < total
      BY <1>6
    <3>2. PICK i \in places : buffer[i].body.tenantId = t /\ buffer[i].body.id = c
      BY <1>10, <3>1
    <3> QED
      BY <1>4, <3>2
  <2>2. \A c \in 0 .. total - 1 : \E s \in mine : f[s] = c
    BY <2>1
  <2> HIDE DEF f, mine
  <2> QED
    BY <1>11, <2>2 DEF Surjection
<1>14. Cardinality(mine) = Cardinality(0 .. total - 1)
  <2>1. IsFiniteSet(0 .. total - 1)
    BY <1>6, FS_Interval
  <2> HIDE DEF f, mine, total
  <2> QED
    BY <1>12, <1>13, <2>1, FS_Injection
<1>15. Cardinality(0 .. total - 1) = total
  <2>1. 0 \in Int /\ total - 1 \in Int
    BY <1>6
  <2>2. Cardinality(0 .. total - 1) = IF 0 > total - 1 THEN 0 ELSE (total - 1) - 0 + 1
    <3> HIDE DEF total
    <3> QED
      BY <2>1, FS_Interval
  <2> QED
    BY <1>6, <2>2
<1> QED
  BY <1>14, <1>15

(***************************************************************************)
(* What verify_audit_chain says is exact.  For any tenants, capacity and   *)
(* limit, one tenant's rows or those of all: verification breaks where a   *)
(* window was cut off from its genesis, first of all at the first such     *)
(* row, and nowhere else; and of a tenant that verifies, not one row is    *)
(* missing.  The rows handed to verifyChain are a window closed under the  *)
(* tenant's later rows, so that each but the first follows the one before. *)
(***************************************************************************)
THEOREM VerificationTellsCuts == MemorySpec => []OnlyCutsBreak
<1>1. MemoryInv => OnlyCutsBreak
  <2> SUFFICES ASSUME MemoryInv, result # NoAnswer PROVE OnlyCutsBreak
    BY DEF OnlyCutsBreak
  <2>1. PICK places : /\ IsWindow(places) /\ result.rows = Listed(places)
                      /\ result.verdict = VerifyChain(result.rows)
    BY DEF MemoryInv, AnswerInv
  <2>2. PICK n \in Nat : n = Cardinality(places)
    BY <2>1, ListedIsInOrder
  <2>3. PICK q : InOrder(places, q) /\ Listed(places) = [k \in 1 .. n |-> buffer[q[k]]]
    BY <2>1, <2>2, ListedIsInOrder
  <2>4. PICK rows : rows = result.rows
    OBVIOUS
  <2> DEFINE cut == {i \in DOMAIN rows :
                       /\ StartsSegment(rows, i)
                       /\ rows[i].prevHash # GenesisHash(rows[i].body.tenantId)}
             breaks == {i \in DOMAIN rows : BreaksAt(rows, i)}
  <2>5. rows = [k \in 1 .. n |-> buffer[q[k]]] /\ DOMAIN rows = 1 .. n
    BY <2>1, <2>3, <2>4
  <2>6. breaks = cut
    <3>1. ASSUME NEW k \in 1 .. n
          PROVE  BreaksAt(rows, k) <=> /\ StartsSegment(rows, k)
                                       /\ rows[k].prevHash # GenesisHash(rows[k].body.tenantId)
      <4> HIDE DEF cut, breaks
      <4> QED
        BY <2>1, <2>2, <2>3, <2>5, BreaksAreCuts
    <3> QED
      BY <2>5, <3>1
  <2>7. result.verdict = IF breaks = {} THEN [ok |-> TRUE, firstBreakIndex |-> 0]
                         ELSE [ok |-> FALSE, firstBreakIndex |-> Min(breaks)]
    BY <2>1, <2>4 DEF VerifyChain
  <2>8. ASSUME cut = {}, NEW r \in ToSet(rows)
        PROVE  Cardinality({s \in ToSet(rows) : s.body.tenantId = r.body.tenantId})
                 = appended[r.body.tenantId]
    <3>1. \A k \in 1 .. n : StartsSegment(rows, k)
              => rows[k].prevHash = GenesisHash(rows[k].body.tenantId)
      BY <2>5, <2>8
    <3> QED
      BY <2>1, <2>2, <2>3, <2>5, <2>8, <3>1, UncutIsWhole
  <2> HIDE DEF cut, breaks
  <2>9. /\ result.verdict.ok <=> cut = {}
        /\ ~result.verdict.ok => result.verdict.firstBreakIndex = Min(cut)
        /\ result.verdict.ok => \A r \in ToSet(rows) :
             Cardinality({s \in ToSet(rows) : s.body.tenantId = r.body.tenantId})
               = appended[r.body.tenantId]
    BY <2>6, <2>7, <2>8
  <2> QED
    BY <2>4, <2>9 DEF OnlyCutsBreak, cut
<1> QED
  BY <1>1, MemoryStart, MemoryStep, PTL DEF MemorySpec

-----------------------------------------------------------------------------
(* Sorting. *)

\* q lists the elements of S, each once, in the order of the pairs in prior.
Arranges(S, prior, q) ==
    /\ q \in [1 .. Cardinality(S) -> S]
    /\ \A k, l \in 1 .. Cardinality(S) : k < l => <<q[k], q[l]>> \in prior
    /\ \A x \in S : \E k \in 1 .. Cardinality(S) : q[k] = x

\* Whatever is in the place that its rank in a total order says is in order.
LEMMA RanksArrange ==
  ASSUME NEW S, IsFiniteSet(S), NEW prior,
         \A x, y \in S : <<x, y>> \in prior \/ <<y, x>> \in prior \/ x = y,
         \A x, y \in S : ~ (<<x, y>> \in prior /\ (<<y, x>> \in prior \/ x = y)),
         \A x, y, z \in S : <<x, y>> \in prior /\ <<y, z>> \in prior => <<x, z>> \in prior,
         NEW rank, \A x \in S : rank[x] = Cardinality({y \in S : <<y, x>> \in prior}),
         NEW q, q = [k \in 1 .. Cardinality(S) |-> q[k]],
         \A k \in 1 .. Cardinality(S) :
            (\E x \in S : rank[x] = k - 1) => q[k] \in S /\ rank[q[k]] = k - 1
  PROVE  Cardinality(S) \in Nat /\ Arranges(S, prior, q)
<1> DEFINE Before(x) == {y \in S : <<y, x>> \in prior}
<1>1. PICK n \in Nat : n = Cardinality(S)
  BY FS_CardinalityType
<1>2. ASSUME NEW x \in S
      PROVE  /\ IsFiniteSet(Before(x)) /\ rank[x] = Cardinality(Before(x))
             /\ rank[x] \in Nat /\ x \notin Before(x) /\ rank[x] + 1 <= n
  <2>1. IsFiniteSet(Before(x)) /\ Cardinality(Before(x)) \in Nat
    BY FS_Subset, FS_CardinalityType
  <2>2. x \notin Before(x)
    OBVIOUS
  <2>3. Cardinality(Before(x) \cup {x}) = Cardinality(Before(x)) + 1
    BY <2>1, <2>2, FS_AddElement
  <2>4. Before(x) \cup {x} \in SUBSET S
    OBVIOUS
  <2>5. Cardinality(Before(x) \cup {x}) <= n
    <3> HIDE DEF Before
    <3> QED
      BY <1>1, <2>4, FS_Subset
  <2> QED
    BY <2>1, <2>2, <2>3, <2>5
<1>3. ASSUME NEW x \in S, NEW y \in S, <<x, y>> \in prior
      PROVE  rank[x] < rank[y]
  <2>1. Before(x) \cup {x} \in SUBSET Before(y)
    BY <1>3
  <2>2. Cardinality(Before(x) \cup {x}) = Cardinality(Before(x)) + 1
    BY <1>2, FS_AddElement
  <2>3. IsFiniteSet(Before(y))
    BY <1>2
  <2>4. /\ rank[x] = Cardinality(Before(x)) /\ rank[x] \in Nat
        /\ rank[y] = Cardinality(Before(y)) /\ rank[y] \in Nat
    BY <1>2
  <2> HIDE DEF Before
  <2>5. Cardinality(Before(x) \cup {x}) <= Cardinality(Before(y))
    BY <2>1, <2>3, FS_Subset
  <2> QED
    BY <2>2, <2>4, <2>5
<1>4. ASSUME NEW x \in S, NEW y \in S, rank[x] = rank[y]
      PROVE  x = y
  <2>1. rank[x] \in Nat
    BY <1>2
  <2>2. ~ (rank[x] < rank[y]) /\ ~ (rank[y] < rank[x])
    BY <1>4, <2>1
  <2> QED
    BY <1>3, <2>2
<1>5. \A x \in S : rank[x] \in Nat /\ rank[x] + 1 \in 1 .. n
  <2> SUFFICES ASSUME NEW x \in S PROVE rank[x] \in Nat /\ rank[x] + 1 \in 1 .. n
    OBVIOUS
  <2>1. rank[x] \in Nat /\ rank[x] + 1 <= n
    BY <1>2
  <2> QED
    BY <2>1
<1> HIDE DEF Before
<1> DEFINE f == [x \in S |-> rank[x] + 1]
<1>6. f \in Injection(S, 1 .. n)
  <2>1. ASSUME NEW x \in S, NEW y \in S, f[x] = f[y] PROVE x = y
    <3>1. rank[x] = rank[y]
      BY <1>5, <2>1
    <3> QED
      BY <1>4, <3>1
  <2> QED
    BY <1>5, <2>1 DEF Injection, IsInjective
<1>7. f \in Surjection(S, 1 .. n)
  <2>1. IsFiniteSet(1 .. n) /\ Cardinality(1 .. n) = n
    BY FS_Interval
  <2> HIDE DEF f
  <2> QED
    BY <1>1, <1>6, <2>1, FS_Injection
<1>8. \A k \in 1 .. n : q[k] \in S /\ rank[q[k]] = k - 1
  <2> SUFFICES ASSUME NEW k \in 1 .. n PROVE q[k] \in S /\ rank[q[k]] = k - 1
    OBVIOUS
  <2>1. PICK x \in S : f[x] = k
    BY <1>7 DEF Surjection
  <2>2. rank[x] = k - 1
    BY <1>5, <2>1
  <2> QED
    BY <1>1, <2>2
<1>9. q \in [1 .. n -> S]
  BY <1>1, <1>8
<1>10. ASSUME NEW k \in 1 .. n, NEW l \in 1 .. n, k < l PROVE <<q[k], q[l]>> \in prior
  <2>1. q[k] \in S /\ q[l] \in S /\ rank[q[k]] = k - 1 /\ rank[q[l]] = l - 1
    BY <1>8
  <2>2. q[k] # q[l] /\ ~ (rank[q[l]] < rank[q[k]])
    BY <1>10, <2>1
  <2> QED
    BY <1>3, <2>1, <2>2
<1>11. ASSUME NEW x \in S PROVE \E k \in 1 .. n : q[k] = x
  <2>1. rank[x] \in Nat /\ rank[x] + 1 \in 1 .. n
    BY <1>5
  <2>2. PICK k \in 1 .. n : k = rank[x] + 1
    BY <2>1
  <2>3. q[k] \in S /\ rank[q[k]] = rank[x]
    BY <1>8, <2>1, <2>2
  <2> QED
    BY <1>4, <2>3
<1> QED
  BY <1>1, <1>9, <1>10, <1>11 DEF Arranges

\* Rows that the order of a query tells apart.
Sortable(S) ==
    /\ IsFiniteSet(S)
    /\ \A r \in S : r.body.id \in Nat /\ r.body.occurredAt \in Nat
    /\ \A r, s \in S : r.body.id = s.body.id => r = s

\* Sorting lists each row once.
LEMMA SortedLists ==
  ASSUME NEW S, Sortable(S)
  PROVE  /\ Cardinality(S) \in Nat
         /\ Sorted(S) \in [1 .. Cardinality(S) -> S]
         /\ \A i, j \in 1 .. Cardinality(S) : Sorted(S)[i] = Sorted(S)[j] => i = j
         /\ \A r \in S : \E k \in 1 .. Cardinality(S) : Sorted(S)[k] = r
<1> DEFINE prior == {p \in S \X S : ByOccurredThenId(p[1], p[2])}
           rank == [r \in S |-> RankOf(S, r)]
           q == Sorted(S)
<1>1. \A x, y \in S : <<x, y>> \in prior <=> ByOccurredThenId(x, y)
  OBVIOUS
<1>2. ASSUME NEW x \in S, NEW y \in S
      PROVE  /\ <<x, y>> \in prior \/ <<y, x>> \in prior \/ x = y
             /\ ~ (<<x, y>> \in prior /\ (<<y, x>> \in prior \/ x = y))
  <2>1. /\ x.body.id \in Nat /\ x.body.occurredAt \in Nat
        /\ y.body.id \in Nat /\ y.body.occurredAt \in Nat
        /\ x.body.id = y.body.id => x = y
    BY DEF Sortable
  <2> HIDE DEF prior
  <2> QED
    BY <1>1, <2>1 DEF ByOccurredThenId
<1>3. ASSUME NEW x \in S, NEW y \in S, NEW z \in S, <<x, y>> \in prior, <<y, z>> \in prior
      PROVE  <<x, z>> \in prior
  <2>1. /\ x.body.id \in Nat /\ x.body.occurredAt \in Nat
        /\ y.body.id \in Nat /\ y.body.occurredAt \in Nat
        /\ z.body.id \in Nat /\ z.body.occurredAt \in Nat
    BY DEF Sortable
  <2> HIDE DEF prior
  <2> QED
    BY <1>1, <1>3, <2>1 DEF ByOccurredThenId
<1>4. ASSUME NEW x \in S PROVE rank[x] = Cardinality({y \in S : <<y, x>> \in prior})
  <2>1. {y \in S : <<y, x>> \in prior} = {y \in S : ByOccurredThenId(y, x)}
    BY <1>1
  <2> HIDE DEF prior
  <2> QED
    BY <2>1 DEF RankOf
<1>5. q = [k \in 1 .. Cardinality(S) |-> q[k]]
  BY DEF Sorted
<1>6. ASSUME NEW k \in 1 .. Cardinality(S), NEW x \in S, rank[x] = k - 1
      PROVE  q[k] \in S /\ rank[q[k]] = k - 1
  <2>1. q[k] = CHOOSE r \in S : RankOf(S, r) = k - 1
    BY DEF Sorted
  <2>2. RankOf(S, x) = k - 1
    BY <1>6
  <2>3. q[k] \in S /\ RankOf(S, q[k]) = k - 1
    <3> HIDE DEF q
    <3> QED
      BY <2>1, <2>2
  <2> QED
    BY <2>3
<1> HIDE DEF prior, rank, q
<1>7. IsFiniteSet(S)
  BY DEF Sortable
<1>8. Cardinality(S) \in Nat /\ Arranges(S, prior, q)
  BY <1>2, <1>3, <1>4, <1>5, <1>6, <1>7, RanksArrange
<1>9. ASSUME NEW i \in 1 .. Cardinality(S), NEW j \in 1 .. Cardinality(S), q[i] = q[j]
      PROVE  i = j
  <2>1. ~ (i < j) /\ ~ (j < i)
    BY <1>2, <1>8, <1>9 DEF Arranges
  <2> QED
    BY <1>8, <2>1
<1> QED
  BY <1>8, <1>9 DEF Arranges, q

-----------------------------------------------------------------------------
(* The walk. *)

\* What n applications of a function come to.
Iterates(X, base, step, n, it) ==
    /\ it \in [0 .. n -> X] /\ it[0] = base
    /\ \A k \in 1 .. n : it[k] = step[it[k - 1]]

LEMMA IteratesExist ==
  ASSUME NEW X, NEW base \in X, NEW step \in [X -> X], NEW n \in Nat
  PROVE  \E it : Iterates(X, base, step, n, it)
<1> DEFINE G == {m \in Nat : \E it : Iterates(X, base, step, m, it)}
<1>1. 0 \in G
  <2> DEFINE z == [k \in 0 .. 0 |-> base]
  <2>1. Iterates(X, base, step, 0, z)
    BY DEF Iterates
  <2> QED
    BY <2>1
<1>2. ASSUME NEW m \in Nat, m \in G PROVE m + 1 \in G
  <2>1. PICK it : Iterates(X, base, step, m, it)
    BY <1>2
  <2> DEFINE more == [k \in 0 .. m + 1 |-> IF k <= m THEN it[k] ELSE step[it[m]]]
  <2>2. it[m] \in X /\ step[it[m]] \in X
    BY <2>1 DEF Iterates
  <2>3. more \in [0 .. m + 1 -> X] /\ more[0] = base
    BY <2>1, <2>2 DEF Iterates
  <2>4. ASSUME NEW k \in 1 .. m + 1 PROVE more[k] = step[more[k - 1]]
    <3>1. CASE k <= m
      <4>1. k \in 1 .. m /\ k - 1 \in 0 .. m + 1 /\ k - 1 <= m
        BY <3>1
      <4>2. more[k] = it[k] /\ more[k - 1] = it[k - 1]
        BY <4>1
      <4> QED
        BY <2>1, <4>1, <4>2 DEF Iterates
    <3>2. CASE k = m + 1
      <4>1. k - 1 = m /\ m \in 0 .. m + 1 /\ ~ (m + 1 <= m) /\ m + 1 \in 0 .. m + 1
        BY <3>2
      <4>2. more[m] = it[m] /\ more[m + 1] = step[it[m]]
        BY <4>1
      <4> QED
        BY <3>2, <4>1, <4>2
    <3> QED
      BY <3>1, <3>2
  <2> HIDE DEF more
  <2>5. Iterates(X, base, step, m + 1, more)
    BY <2>3, <2>4 DEF Iterates
  <2> QED
    BY <2>5
<1> HIDE DEF G
<1>3. Nat \subseteq G
  BY <1>1, <1>2, Counting
<1> QED
  BY <1>3 DEF G

\* One step of the walk.
Cursor(start, soFar) == IF soFar = << >> THEN start ELSE Last(soFar).rowHash
Further(rows, start, soFar) ==
    IF \/ Extends(rows, Cursor(start, soFar)) = {}
       \/ \E r \in ToSet(soFar) : r.rowHash = ByPrev(rows, Cursor(start, soFar)).rowHash
    THEN soFar
    ELSE Append(soFar, ByPrev(rows, Cursor(start, soFar)))

\* The row that extends a hash first is one of the rows, and extends it.
LEMMA FirstToExtend ==
  ASSUME NEW R, NEW rows \in Seq(R), NEW h, Extends(rows, h) # {}
  PROVE  /\ ByPrev(rows, h) \in R /\ ByPrev(rows, h) \in RealRows(rows)
         /\ ByPrev(rows, h).prevHash = h
<1>1. DOMAIN rows = 1 .. Len(rows) /\ Len(rows) \in Nat
  OBVIOUS
<1>2. Extends(rows, h) \in SUBSET Nat
  BY <1>1 DEF Extends
<1>3. Min(Extends(rows, h)) \in Extends(rows, h)
  BY <1>2, MinIsLeast
<1>4. PICK i : i = Min(Extends(rows, h))
  OBVIOUS
<1>5. i \in 1 .. Len(rows) /\ ~IsSentinel(rows[i]) /\ rows[i].prevHash = h
  BY <1>1, <1>3, <1>4 DEF Extends
<1>6. ByPrev(rows, h) = rows[i] /\ rows[i] \in R /\ rows[i] \in ToSet(rows)
  BY <1>1, <1>4, <1>5 DEF ByPrev, ToSet
<1> QED
  BY <1>5, <1>6 DEF RealRows

LEMMA WalkIterates ==
  ASSUME NEW R, NEW rows \in Seq(R), NEW start
  PROVE  \E it : /\ it \in [0 .. Len(rows) -> Seq(RealRows(rows))] /\ it[0] = << >>
                 /\ \A k \in 1 .. Len(rows) : it[k] = Further(rows, start, it[k - 1])
                 /\ Walk(rows, start) = it[Len(rows)]
<1> DEFINE T == RealRows(rows)
           L == Len(rows)
           Eq(f) == f = [n \in 0 .. L |-> IF n = 0 THEN << >> ELSE Further(rows, start, f[n - 1])]
           steps == CHOOSE f : Eq(f)
           step == [s \in Seq(T) |-> Further(rows, start, s)]
<1>1. Walk(rows, start) = steps[L]
  BY Zenon DEF Walk, Further, Cursor
<1>2. step \in [Seq(T) -> Seq(T)]
  <2> SUFFICES ASSUME NEW s \in Seq(T) PROVE Further(rows, start, s) \in Seq(T)
    OBVIOUS
  <2>1. PICK h : h = Cursor(start, s)
    OBVIOUS
  <2>2. CASE Extends(rows, h) = {}
    BY <2>1, <2>2 DEF Further
  <2>3. CASE Extends(rows, h) # {}
    <3>1. PICK r \in T : r = ByPrev(rows, h)
      BY <2>3, FirstToExtend
    <3>2. Further(rows, start, s) = s \/ Further(rows, start, s) = Append(s, r)
      BY <2>1, <3>1 DEF Further
    <3>3. Append(s, r) \in Seq(T)
      OBVIOUS
    <3> QED
      BY <3>2, <3>3
  <2> QED
    BY <2>2, <2>3
<1>3. L \in Nat /\ << >> \in Seq(T)
  OBVIOUS
<1>4. \A s \in Seq(T) : step[s] = Further(rows, start, s)
  OBVIOUS
<1> HIDE DEF L, T, step
<1>5. PICK it : Iterates(Seq(T), << >>, step, L, it)
  BY <1>2, <1>3, IteratesExist
<1>6. Eq(it)
  <2>1. it \in [0 .. L -> Seq(T)] /\ it[0] = << >>
    BY <1>5 DEF Iterates
  <2>2. ASSUME NEW n \in 0 .. L, n # 0 PROVE it[n] = Further(rows, start, it[n - 1])
    <3>1. n \in 1 .. L /\ n - 1 \in 0 .. L
      BY <1>3, <2>2
    <3> QED
      BY <1>4, <1>5, <2>1, <3>1 DEF Iterates
  <2> DEFINE E(n) == IF n = 0 THEN << >> ELSE Further(rows, start, it[n - 1])
  <2>3. \A n \in 0 .. L : it[n] = E(n)
    BY <2>1, <2>2
  <2>4. it = [n \in 0 .. L |-> E(n)]
    <3> HIDE DEF E
    <3> QED
      BY <2>1, <2>3
  <2> QED
    BY <2>4
<1>7. Eq(steps)
  <2> HIDE DEF Eq
  <2> QED
    BY <1>6
<1> HIDE DEF steps
\* Two functions that satisfy the equation agree.
<1>8. \A n \in 0 .. L : steps[n] = IF n = 0 THEN << >> ELSE Further(rows, start, steps[n - 1])
  <2> DEFINE E(n) == IF n = 0 THEN << >> ELSE Further(rows, start, steps[n - 1])
  <2>1. steps = [n \in 0 .. L |-> E(n)]
    BY <1>7
  <2> HIDE DEF E, Eq
  <2>2. \A n \in 0 .. L : steps[n] = E(n)
    BY <2>1
  <2> QED
    BY <2>2 DEF E
<1>9. steps[0] = << >>
  <2>1. 0 \in 0 .. L
    BY <1>3
  <2> QED
    BY <1>8, <2>1
<1> DEFINE G == {n \in Nat : n <= L => steps[n] \in Seq(T)}
<1>10. 0 \in G
  BY <1>3, <1>9
<1>11. ASSUME NEW n \in Nat, n \in G PROVE n + 1 \in G
  <2> SUFFICES ASSUME n + 1 <= L PROVE steps[n + 1] \in Seq(T)
    OBVIOUS
  <2>1. n + 1 \in 0 .. L /\ n + 1 # 0 /\ (n + 1) - 1 = n /\ n <= L
    BY <1>3
  <2>2. steps[n] \in Seq(T)
    BY <1>11, <2>1
  <2>3. steps[n + 1] = Further(rows, start, steps[n])
    BY <1>8, <2>1
  <2> QED
    BY <1>2, <1>4, <2>2, <2>3
<1>12. Nat \subseteq G
  <2> HIDE DEF G
  <2> QED
    BY <1>10, <1>11, Counting
<1>13. \A n \in 0 .. L : steps[n] \in Seq(T)
  BY <1>3, <1>12
<1>14. DOMAIN steps = 0 .. L
  BY <1>7
<1>15. steps \in [0 .. L -> Seq(T)] /\ steps[0] = << >>
  <2>1. steps = [n \in 0 .. L |-> steps[n]]
    BY <1>7
  <2> HIDE DEF Eq
  <2>2. steps \in [0 .. L -> Seq(T)]
    BY <1>13, <2>1
  <2> QED
    BY <1>9, <2>2
<1>16. \A k \in 1 .. L : steps[k] = Further(rows, start, steps[k - 1])
  BY <1>3, <1>8
<1> QED
  BY <1>1, <1>15, <1>16 DEF L, T

\* A chain of p rows from the hash h, of which none has the row hash of
\* another, nor one that the chain starts from.
IsChain(c, p, h) ==
    /\ p \in Nat
    /\ \A i \in 1 .. p : /\ c[i].prevHash = (IF i = 1 THEN h ELSE c[i - 1].rowHash)
                         /\ c[i].rowHash # h /\ ~IsSentinel(c[i])
    /\ \A i, j \in 1 .. p : c[i].rowHash = c[j].rowHash => i = j

LEMMA ChainLinks ==
  ASSUME NEW c, NEW p, NEW h, IsChain(c, p, h)
  PROVE  /\ \A i, j \in 1 .. p : c[i].prevHash = c[j].prevHash => i = j
         /\ \A i, j \in 1 .. p : c[i].prevHash = c[j].rowHash => i = j + 1
<1>1. p \in Nat
  BY DEF IsChain
<1>2. ASSUME NEW i \in 1 .. p, NEW j \in 1 .. p, c[i].prevHash = c[j].rowHash
      PROVE  i = j + 1
  <2>1. i # 1
    BY <1>2 DEF IsChain
  <2>2. i - 1 \in 1 .. p /\ c[i].prevHash = c[i - 1].rowHash
    BY <1>1, <2>1 DEF IsChain
  <2>3. i - 1 = j
    BY <1>2, <2>2 DEF IsChain
  <2> QED
    BY <1>1, <2>3
<1>3. ASSUME NEW i \in 1 .. p, NEW j \in 1 .. p, c[i].prevHash = c[j].prevHash
      PROVE  i = j
  <2>1. CASE j = 1
    <3>1. c[i].prevHash = h
      BY <1>3, <2>1 DEF IsChain
    <3>2. i # 1 => i - 1 \in 1 .. p /\ c[i].prevHash = c[i - 1].rowHash
      BY <1>1 DEF IsChain
    <3> QED
      BY <2>1, <3>1, <3>2 DEF IsChain
  <2>2. CASE j # 1
    <3>1. j - 1 \in 1 .. p /\ c[j].prevHash = c[j - 1].rowHash
      BY <1>1, <2>2 DEF IsChain
    <3>2. i = (j - 1) + 1
      BY <1>2, <1>3, <3>1
    <3> QED
      BY <1>1, <3>2
  <2> QED
    BY <2>1, <2>2
<1> QED
  BY <1>2, <1>3

\* Over rows of which the chained ones form a chain, the walk lists the chain.
LEMMA WalkFollows ==
  ASSUME NEW R, NEW rows \in Seq(R), NEW c, NEW p, NEW h, IsChain(c, p, h),
         RealRows(rows) = {c[i] : i \in 1 .. p}, p <= Len(rows)
  PROVE  /\ Walk(rows, h) \in Seq(RealRows(rows)) /\ Len(Walk(rows, h)) = p
         /\ \A i \in 1 .. p : Walk(rows, h)[i] = c[i]
<1>1. PICK L \in Nat : L = Len(rows)
  OBVIOUS
<1>2. p \in Nat /\ p <= L
  BY <1>1 DEF IsChain
<1>3. PICK it : /\ it \in [0 .. L -> Seq(RealRows(rows))] /\ it[0] = << >>
                /\ \A k \in 1 .. L : it[k] = Further(rows, h, it[k - 1])
                /\ Walk(rows, h) = it[L]
  BY <1>1, WalkIterates
<1> DEFINE Good(s, m) == s \in Seq(RealRows(rows)) /\ Len(s) = m /\ \A i \in 1 .. m : s[i] = c[i]
           Upto(k) == IF k <= p THEN k ELSE p
           G == {k \in Nat : k <= L => Good(it[k], Upto(k))}
<1>4. 0 \in G
  <2>1. Upto(0) = 0 /\ it[0] \in Seq(RealRows(rows)) /\ Len(it[0]) = 0
    BY <1>2, <1>3
  <2> QED
    BY <2>1
<1>5. ASSUME NEW s, NEW m \in 0 .. p, Good(s, m)
      PROVE  /\ m < p => Good(Further(rows, h, s), m + 1)
             /\ m = p => Further(rows, h, s) = s
  <2>1. PICK cursor : cursor = Cursor(h, s)
    OBVIOUS
  <2>2. cursor = IF m = 0 THEN h ELSE c[m].rowHash
    <3>1. CASE m = 0
      <4>1. s = << >>
        BY <1>5, <3>1, EmptySeq
      <4> QED
        BY <2>1, <3>1, <4>1 DEF Cursor
    <3>2. CASE m # 0
      <4>1. s # << >> /\ Last(s) = s[m] /\ m \in 1 .. m
        BY <1>2, <1>5, <3>2, EmptySeq DEF Last
      <4>2. Last(s) = c[m]
        BY <1>5, <4>1
      <4> QED
        BY <2>1, <3>2, <4>1, <4>2 DEF Cursor
    <3> QED
      BY <3>1, <3>2
  <2>3. CASE m < p
    <3>1. m + 1 \in 1 .. p /\ c[m + 1].prevHash = cursor
      <4>1. m + 1 \in 1 .. p /\ (m + 1) - 1 = m /\ (m + 1 = 1 <=> m = 0)
        BY <1>2, <2>3
      <4> QED
        BY <2>2, <4>1 DEF IsChain
    <3>2. Extends(rows, cursor) # {}
      <4>1. c[m + 1] \in RealRows(rows)
        BY <3>1
      <4>2. PICK i \in DOMAIN rows : rows[i] = c[m + 1] /\ ~IsSentinel(rows[i])
        BY <4>1 DEF RealRows, ToSet
      <4> QED
        BY <3>1, <4>2 DEF Extends
    <3>3. ByPrev(rows, cursor) = c[m + 1] /\ c[m + 1] \in RealRows(rows)
      <4>1. /\ ByPrev(rows, cursor) \in R /\ ByPrev(rows, cursor) \in RealRows(rows)
            /\ ByPrev(rows, cursor).prevHash = cursor
        BY <3>2, FirstToExtend
      <4>2. PICK i \in 1 .. p : ByPrev(rows, cursor) = c[i]
        BY <4>1
      <4>3. i = m + 1
        BY <3>1, <4>1, <4>2, ChainLinks
      <4> QED
        BY <4>1, <4>2, <4>3
    <3>4. ~ \E r \in ToSet(s) : r.rowHash = c[m + 1].rowHash
      <4>1. DOMAIN s = 1 .. m
        BY <1>5
      <4>2. \A r \in ToSet(s) : \E i \in 1 .. m : r = c[i]
        BY <1>5, <4>1 DEF ToSet
      <4>3. \A i \in 1 .. m : i \in 1 .. p /\ i # m + 1
        BY <1>2
      <4> QED
        BY <3>1, <4>2, <4>3 DEF IsChain
    <3>5. Further(rows, h, s) = Append(s, c[m + 1])
      BY <2>1, <3>2, <3>3, <3>4 DEF Further
    <3>6. Good(Append(s, c[m + 1]), m + 1)
      BY <1>5, <3>3
    <3> QED
      BY <2>3, <3>5, <3>6
  <2>4. CASE m = p
    <3>1. Extends(rows, cursor) = {}
      <4> SUFFICES ASSUME NEW i \in DOMAIN rows, ~IsSentinel(rows[i]),
                          rows[i].prevHash = cursor
                   PROVE  FALSE
        BY DEF Extends
      <4>1. rows[i] \in RealRows(rows)
        BY DEF RealRows, ToSet
      <4>2. PICK j \in 1 .. p : rows[i] = c[j]
        BY <4>1
      <4>3. p # 0 /\ p \in 1 .. p /\ c[j].prevHash = c[p].rowHash
        BY <1>2, <2>2, <2>4, <4>2
      <4>4. j = p + 1
        BY <4>3, ChainLinks
      <4> QED
        BY <1>2, <4>4
    <3> QED
      BY <2>1, <2>4, <3>1 DEF Further
  <2> QED
    BY <2>3, <2>4
<1> HIDE DEF Good
<1>6. ASSUME NEW k \in Nat, k \in G PROVE k + 1 \in G
  <2> SUFFICES ASSUME k + 1 <= L PROVE Good(it[k + 1], Upto(k + 1))
    OBVIOUS
  <2>1. k <= L /\ k + 1 \in 1 .. L /\ (k + 1) - 1 = k
    BY <1>1
  <2>2. Good(it[k], Upto(k)) /\ it[k + 1] = Further(rows, h, it[k])
    BY <1>3, <1>6, <2>1
  <2>3. CASE k < p
    <3>1. Upto(k) = k /\ Upto(k + 1) = k + 1 /\ k \in 0 .. p
      BY <1>2, <2>3
    <3> QED
      BY <1>5, <2>2, <2>3, <3>1
  <2>4. CASE k >= p
    <3>1. Upto(k) = p /\ Upto(k + 1) = p /\ p \in 0 .. p
      BY <1>2, <2>4
    <3> QED
      BY <1>5, <2>2, <3>1
  <2> QED
    BY <1>2, <2>3, <2>4
<1>7. Nat \subseteq G
  <2> HIDE DEF G
  <2> QED
    BY <1>4, <1>6, Counting
<1>8. L \in G /\ Upto(L) = p
  BY <1>1, <1>2, <1>7
<1> QED
  BY <1>3, <1>8 DEF Good

-----------------------------------------------------------------------------
(* What orderByChainLinkage hands on. *)

LEMMA SubsetsAreSortable ==
  ASSUME NEW S, Sortable(S), NEW T \in SUBSET S
  PROVE  Sortable(T)
<1>1. IsFiniteSet(T)
  BY FS_Subset DEF Sortable
<1> QED
  BY <1>1 DEF Sortable

\* A sorted set is a sequence of its elements; of no row, the empty one.
LEMMA SortedIsASequence ==
  ASSUME NEW S, Sortable(S)
  PROVE  /\ Sorted(S) \in Seq(S) /\ Len(Sorted(S)) = Cardinality(S) /\ ToSet(Sorted(S)) = S
         /\ S = {} <=> Sorted(S) = << >>
<1>1. PICK n \in Nat : n = Cardinality(S)
  BY SortedLists
<1> DEFINE q == Sorted(S)
<1>2. q \in [1 .. n -> S] /\ \A r \in S : \E k \in 1 .. n : q[k] = r
  BY <1>1, SortedLists
<1> HIDE DEF q
<1>3. q \in Seq(S) /\ Len(q) = n
  <2>1. q \in Seq(S)
    BY <1>2, SeqDef
  <2> QED
    BY <1>2, <2>1
<1>4. ToSet(q) = S
  BY <1>2 DEF ToSet
<1>5. S = {} <=> q = << >>
  <2>1. S = {} <=> n = 0
    BY <1>1, FS_EmptySet DEF Sortable
  <2> QED
    BY <1>3, <2>1, EmptySeq
<1> QED
  BY <1>1, <1>3, <1>4, <1>5 DEF q

\* The chained rows that were fetched are no more than the rows fetched.
LEMMA ChainIsNoLonger ==
  ASSUME NEW S, Sortable(S), NEW c, NEW p, NEW h, IsChain(c, p, h),
         \A i \in 1 .. p : c[i] \in S
  PROVE  p <= Cardinality(S)
<1> DEFINE f == [i \in 1 .. p |-> c[i]]
<1>1. p \in Nat /\ IsFiniteSet(S)
  BY DEF IsChain, Sortable
<1>2. f \in Injection(1 .. p, S)
  <2>1. \A i, j \in 1 .. p : f[i] = f[j] => i = j
    BY DEF IsChain
  <2> QED
    BY <2>1 DEF Injection, IsInjective
<1>3. Cardinality(1 .. p) <= Cardinality(S)
  <2> HIDE DEF f
  <2> QED
    BY <1>1, <1>2, FS_Injection
<1>4. Cardinality(1 .. p) = p
  <2>1. \A n \in Nat : Cardinality(1 .. n) = n
    BY FS_Interval
  <2> QED
    BY <1>1, <2>1
<1> QED
  BY <1>3, <1>4

\* The anchor of a chain's rows is the hash the chain starts from.
LEMMA AnchorOfAChain ==
  ASSUME NEW S, Sortable(S), NEW rows \in Seq(S), ToSet(rows) = S,
         NEW c, NEW p, NEW h, IsChain(c, p, h), RealRows(rows) = {c[i] : i \in 1 .. p},
         NEW genesis, h # genesis => \A i \in 1 .. p : c[i].prevHash # genesis
  PROVE  Anchors(rows, genesis) = IF p = 0 THEN {} ELSE {h}
<1> DEFINE produced == {r.rowHash : r \in RealRows(rows)}
           first == {r \in RealRows(rows) : r.prevHash \notin produced}
<1>1. p \in Nat /\ RealRows(rows) \in SUBSET S
  BY DEF IsChain, RealRows
<1>2. \A i \in DOMAIN rows : ~IsSentinel(rows[i]) => rows[i] \in RealRows(rows)
  BY DEF RealRows, ToSet
<1>3. \A r \in RealRows(rows) : \E i \in DOMAIN rows : r = rows[i] /\ ~IsSentinel(rows[i])
  BY DEF RealRows, ToSet
<1>4. CASE p = 0
  <2>1. RealRows(rows) = {}
    BY <1>4
  <2>2. Extends(rows, genesis) = {}
    BY <1>2, <2>1 DEF Extends
  <2>3. first = {} /\ Sortable({})
    BY <2>1, SubsetsAreSortable
  <2>4. Sorted(first) = << >>
    <3> HIDE DEF first
    <3> QED
      BY <2>3, SortedIsASequence
  <2> HIDE DEF first
  <2> QED
    BY <1>4, <2>2, <2>4 DEF Anchors, first
<1>5. CASE p # 0
  <2>1. 1 \in 1 .. p /\ c[1].prevHash = h /\ c[1] \in RealRows(rows)
    BY <1>1, <1>5 DEF IsChain
  <2>2. CASE h = genesis
    <3>1. Extends(rows, genesis) # {}
      BY <1>3, <2>1, <2>2 DEF Extends
    <3> QED
      BY <1>5, <2>2, <3>1 DEF Anchors
  <2>3. CASE h # genesis
    <3>1. Extends(rows, genesis) = {}
      BY <1>2, <2>3 DEF Extends
    <3>2. first = {c[1]}
      <4>1. h \notin produced
        BY DEF IsChain
      <4>2. ASSUME NEW i \in 1 .. p, i # 1 PROVE c[i].prevHash \in produced
        <5>1. i - 1 \in 1 .. p /\ c[i].prevHash = c[i - 1].rowHash
          BY <1>1, <4>2 DEF IsChain
        <5> QED
          BY <5>1
      <4> QED
        BY <2>1, <4>1, <4>2
    <3>3. Sortable({c[1]})
      BY <1>1, <2>1, SubsetsAreSortable
    <3>4. /\ Sorted({c[1]}) \in Seq({c[1]}) /\ Sorted({c[1]}) # << >>
      <4>1. PICK T : T = {c[1]}
        OBVIOUS
      <4>2. Sortable(T) /\ T # {}
        BY <3>3, <4>1
      <4>3. Sorted(T) \in Seq(T) /\ Sorted(T) # << >>
        BY <4>2, SortedIsASequence
      <4> QED
        BY <4>1, <4>3
    <3>5. Head(Sorted({c[1]})) = c[1]
      BY <3>4
    <3> HIDE DEF first
    <3>6. Anchors(rows, genesis) = {Head(Sorted(first)).prevHash}
      BY <3>1, <3>2, <3>4 DEF Anchors, first
    <3> QED
      BY <1>5, <2>1, <3>2, <3>5, <3>6
  <2> QED
    BY <2>2, <2>3
<1> QED
  BY <1>4, <1>5

\* What is handed on of a chain: sentinels, then the chain.
Ordered(out, S, c, p, s) ==
    /\ s \in Nat /\ out \in Seq(S) /\ Len(out) = s + p
    /\ \A i \in 1 .. s : IsSentinel(out[i])
    /\ \A i \in 1 .. p : out[s + i] = c[i]
    /\ (\A r \in S : ~IsSentinel(r)) => s = 0

LEMMA ChainIsOrdered ==
  ASSUME NEW S, Sortable(S), NEW c, NEW p, NEW h, IsChain(c, p, h),
         {r \in S : ~IsSentinel(r)} = {c[i] : i \in 1 .. p},
         NEW genesis, h # genesis => \A i \in 1 .. p : c[i].prevHash # genesis
  PROVE  \E s : Ordered(OrderByChainLinkage(Sorted(S), genesis), S, c, p, s)
<1>1. PICK rows : rows = Sorted(S)
  OBVIOUS
<1>2. rows \in Seq(S) /\ Len(rows) = Cardinality(S) /\ ToSet(rows) = S
  BY <1>1, SortedIsASequence
<1>3. RealRows(rows) = {c[i] : i \in 1 .. p}
  BY <1>2 DEF RealRows
<1>4. p \in Nat /\ p <= Len(rows)
  <2>1. \A i \in 1 .. p : c[i] \in S
    OBVIOUS
  <2>2. p <= Cardinality(S)
    BY <2>1, ChainIsNoLonger
  <2> QED
    BY <1>2, <2>2 DEF IsChain
<1> DEFINE anchors == Anchors(rows, genesis)
           walk == IF anchors = {} THEN << >> ELSE Walk(rows, CHOOSE a \in anchors : TRUE)
           used == {r.rowHash : r \in ToSet(walk)}
           rest == {r \in RealRows(rows) : r.rowHash \notin used}
           old == {r \in ToSet(rows) : IsSentinel(r)}
<1>5. OrderByChainLinkage(rows, genesis) = Sorted(old) \o walk \o Sorted(rest)
  BY DEF OrderByChainLinkage
<1>6. walk \in Seq(S) /\ Len(walk) = p /\ \A i \in 1 .. p : walk[i] = c[i]
  <2>1. anchors = IF p = 0 THEN {} ELSE {h}
    BY <1>2, <1>3, AnchorOfAChain
  <2>2. CASE p = 0
    BY <2>1, <2>2
  <2>3. CASE p # 0
    <3>1. walk = Walk(rows, h)
      BY <2>1, <2>3
    <3> HIDE DEF walk
    <3>2. /\ walk \in Seq(RealRows(rows)) /\ Len(walk) = p
          /\ \A i \in 1 .. p : walk[i] = c[i]
      <4>1. /\ Walk(rows, h) \in Seq(RealRows(rows)) /\ Len(Walk(rows, h)) = p
            /\ \A i \in 1 .. p : Walk(rows, h)[i] = c[i]
        BY <1>2, <1>3, <1>4, WalkFollows
      <4> QED
        BY <3>1, <4>1
    <3>3. walk \in [1 .. p -> S]
      <4>1. walk \in [1 .. p -> RealRows(rows)]
        BY <1>4, <3>2
      <4> QED
        BY <1>2, <4>1 DEF RealRows
    <3> QED
      BY <1>4, <3>2, <3>3, SeqDef
  <2> QED
    BY <2>2, <2>3
<1> HIDE DEF walk
<1>7. Sorted(rest) = << >>
  <2>1. ASSUME NEW i \in 1 .. p PROVE c[i].rowHash \in used
    <3>1. DOMAIN walk = 1 .. p
      BY <1>4, <1>6
    <3>2. c[i] \in ToSet(walk)
      BY <1>6, <3>1 DEF ToSet
    <3> QED
      BY <3>2
  <2>2. rest = {}
    BY <1>3, <2>1
  <2>3. Sortable({})
    BY SubsetsAreSortable
  <2> HIDE DEF rest
  <2> QED
    BY <2>2, <2>3, SortedIsASequence
<1>8. old \in SUBSET S
  BY <1>2
<1>9. /\ Sorted(old) \in Seq(old)
      /\ old = {} <=> Sorted(old) = << >>
  <2> HIDE DEF old
  <2> QED
    BY <1>8, SubsetsAreSortable, SortedIsASequence
<1>10. \A r \in old : IsSentinel(r)
  OBVIOUS
<1>11. (\A r \in S : ~IsSentinel(r)) => old = {}
  BY <1>2
<1> DEFINE s == Len(Sorted(old))
<1> HIDE DEF old, rest
<1>12. PICK q : q = Sorted(old)
  OBVIOUS
<1>13. q \in Seq(S) /\ q \in Seq(old) /\ s = Len(q) /\ s \in Nat
  <2>1. q \in Seq(old) /\ s = Len(q)
    BY <1>9, <1>12
  <2>2. Len(q) \in Nat /\ q \in [1 .. Len(q) -> old]
    BY <2>1
  <2>3. q \in [1 .. Len(q) -> S]
    BY <1>8, <2>2
  <2> QED
    BY <2>1, <2>2, <2>3, SeqDef
<1>14. \A i \in 1 .. s : IsSentinel(q[i])
  BY <1>10, <1>13
<1>15. PICK out : out = OrderByChainLinkage(rows, genesis)
  OBVIOUS
<1>16. out = q \o walk
  <2>1. q \o walk \in Seq(S)
    BY <1>6, <1>13
  <2>2. out = (q \o walk) \o << >>
    BY <1>5, <1>7, <1>12, <1>15
  <2> QED
    BY <2>1, <2>2
<1> HIDE DEF s
<1>17. /\ out \in Seq(S) /\ Len(out) = s + p
       /\ \A i \in 1 .. s : out[i] = q[i]
       /\ \A i \in 1 .. p : out[s + i] = walk[i]
  <2>1. out \in Seq(S) /\ Len(out) = Len(q) + Len(walk)
    BY <1>6, <1>13, <1>16, ConcatProperties
  <2>2. \A i \in 1 .. Len(q) + Len(walk) :
           out[i] = IF i <= Len(q) THEN q[i] ELSE walk[i - Len(q)]
    BY <1>6, <1>13, <1>16
  <2>3. ASSUME NEW i \in 1 .. s PROVE out[i] = q[i]
    BY <1>4, <1>6, <1>13, <2>2
  <2>4. ASSUME NEW i \in 1 .. p PROVE out[s + i] = walk[i]
    <3>1. s + i \in 1 .. s + p /\ ~ (s + i <= s) /\ (s + i) - s = i
      BY <1>4, <1>13
    <3> QED
      BY <1>6, <1>13, <2>2, <3>1
  <2> QED
    BY <1>6, <1>13, <2>1, <2>3, <2>4
<1>18. (\A r \in S : ~IsSentinel(r)) => s = 0
  BY <1>9, <1>11, <1>12, <1>13
<1>19. Ordered(out, S, c, p, s)
  BY <1>6, <1>13, <1>14, <1>17, <1>18 DEF Ordered
<1> QED
  BY <1>1, <1>15, <1>19

\* A row whose hash is that of its body over its predecessor's.
Sealed(r) == r.rowHash = ComputeRowHash(r.prevHash, r.body)

\* Where a chain breaks: at its first row if that is not the chain's genesis,
\* and at a row that is not sealed.
BreaksOf(c, p, h, s) ==
    {i \in s + 1 .. s + p : (i = s + 1 /\ h # Genesis) \/ ~Sealed(c[i - s])}

LEMMA OrderedBreaks ==
  ASSUME NEW S, NEW c, NEW p, NEW h, IsChain(c, p, h), NEW out, NEW s,
         Ordered(out, S, c, p, s), \A i \in 1 .. p : c[i].body.tenantId = Tenant
  PROVE  {i \in DOMAIN out : BreaksAt(out, i)} = BreaksOf(c, p, h, s)
<1>1. p \in Nat /\ s \in Nat /\ DOMAIN out = 1 .. s + p
  BY DEF IsChain, Ordered
<1>2. ASSUME NEW i \in 1 .. s PROVE ~BreaksAt(out, i)
  BY <1>2 DEF Ordered, BreaksAt
<1>3. ASSUME NEW j \in 1 .. p
      PROVE  BreaksAt(out, s + j) <=> (j = 1 /\ h # Genesis) \/ ~Sealed(c[j])
  <2> DEFINE i == s + j
             above == {k \in 1 .. i - 1 : /\ ~IsSentinel(out[k])
                                          /\ out[k].body.tenantId = out[i].body.tenantId}
  <2>1. out[i] = c[j] /\ ~IsSentinel(c[j]) /\ out[i].body.tenantId = Tenant
    BY DEF Ordered, IsChain
  <2>2. ExpectedPrev(out, i) = IF above = {} THEN Genesis ELSE out[Max(above)].rowHash
    BY <2>1 DEF ExpectedPrev, Genesis
  <2>3. CASE j = 1
    <3>1. \A k \in 1 .. i - 1 : k \in 1 .. s
      BY <1>1, <2>3
    <3>2. above = {}
      BY <3>1 DEF Ordered
    <3>3. ExpectedPrev(out, i) = Genesis
      BY <2>2, <3>2
    <3>4. c[j].prevHash = h
      BY <2>3 DEF IsChain
    <3> HIDE DEF i
    <3>5. BreaksAt(out, i) <=> h # Genesis \/ c[j].rowHash # ComputeRowHash(Genesis, c[j].body)
      BY <2>1, <3>3, <3>4 DEF BreaksAt
    <3>6. h = Genesis => (Sealed(c[j]) <=> c[j].rowHash = ComputeRowHash(Genesis, c[j].body))
      BY <3>4 DEF Sealed
    <3> QED
      BY <2>3, <3>5, <3>6 DEF i
  <2>4. CASE j # 1
    <3>1. j - 1 \in 1 .. p /\ c[j].prevHash = c[j - 1].rowHash
      BY <1>1, <2>4 DEF IsChain
    <3>2. i - 1 = s + (j - 1) /\ i - 1 \in 1 .. i - 1 /\ i - 1 \in Nat
      BY <1>1, <2>4
    <3>3. out[i - 1] = c[j - 1]
      BY <3>1, <3>2 DEF Ordered
    <3>4. ~IsSentinel(c[j - 1]) /\ c[j - 1].body.tenantId = Tenant
      BY <3>1 DEF IsChain
    <3>5. i - 1 \in above /\ above \in SUBSET (1 .. i - 1)
      BY <2>1, <3>2, <3>3, <3>4
    <3> HIDE DEF above
    <3>6. Max(above) \in above /\ Max(above) >= i - 1
      BY <3>2, <3>5, MaxIsLargest
    <3>7. Max(above) = i - 1
      <4>1. Max(above) \in 1 .. i - 1
        BY <3>5, <3>6
      <4> QED
        BY <3>2, <3>6, <4>1
    <3>8. ExpectedPrev(out, i) = c[j].prevHash
      BY <2>2, <3>1, <3>3, <3>5, <3>7
    <3> HIDE DEF i
    <3> QED
      BY <2>1, <2>4, <3>8 DEF BreaksAt, Sealed, i
  <2> QED
    BY <2>3, <2>4
<1>4. ASSUME NEW i \in 1 .. s + p
      PROVE  BreaksAt(out, i) <=> i \in BreaksOf(c, p, h, s)
  <2>1. CASE i <= s
    BY <1>1, <1>2, <2>1 DEF BreaksOf
  <2>2. CASE ~ (i <= s)
    <3>1. PICK j \in 1 .. p : i = s + j
      <4>1. i - s \in 1 .. p /\ i = s + (i - s)
        BY <1>1, <2>2
      <4> QED
        BY <4>1
    <3>2. i - s = j /\ i \in s + 1 .. s + p /\ (i = s + 1 <=> j = 1)
      BY <1>1, <3>1
    <3> QED
      BY <1>3, <3>1, <3>2 DEF BreaksOf
  <2> QED
    BY <2>1, <2>2
<1>5. BreaksOf(c, p, h, s) \subseteq 1 .. s + p
  BY <1>1 DEF BreaksOf
<1> QED
  BY <1>1, <1>4, <1>5

\* What a request is handed when its limit does not cut it.
Window(since) == {r \in auditRows : since = Unasked \/ r.body.occurredAt >= since}

LEMMA FetchIsTheWindow ==
  ASSUME Sortable(auditRows), NEW since, NEW limit \in Nat, limit >= Cardinality(auditRows)
  PROVE  Sortable(Window(since)) /\ Fetch(since, limit) = Sorted(Window(since))
<1> DEFINE S == Window(since)
<1>1. S \in SUBSET auditRows
  BY DEF Window
<1>2. Sortable(S)
  <2> HIDE DEF S
  <2> QED
    BY <1>1, SubsetsAreSortable
<1> HIDE DEF S
<1>3. PICK m \in Nat : m = Cardinality(S)
  BY <1>2, SortedLists
<1>4. m <= limit
  <2>1. Cardinality(S) <= Cardinality(auditRows) /\ Cardinality(auditRows) \in Nat
    BY <1>1, FS_Subset, FS_CardinalityType DEF Sortable
  <2> QED
    BY <1>3, <2>1
<1>5. PICK q : q = Sorted(S)
  OBVIOUS
<1>6. q \in Seq(S) /\ Len(q) = m
  BY <1>2, <1>3, <1>5, SortedIsASequence
<1>7. Min({limit, Len(q)}) = m
  <2>1. {limit, m} \in SUBSET Nat /\ {limit, m} # {}
    OBVIOUS
  <2>2. Min({limit, m}) \in {limit, m} /\ Min({limit, m}) <= m
    BY <2>1, MinIsLeast
  <2> QED
    BY <1>4, <1>6, <2>2
<1>8. SubSeq(q, 1, m) = q
  BY <1>6, SubSeqProperties
<1> QED
  BY <1>2, <1>5, <1>7, <1>8 DEF Fetch, Window, S

\* A response to such a request, when the chained rows of its window form a
\* chain from the hash h.
LEMMA ResponseToAChain ==
  ASSUME Sortable(auditRows), NEW since, NEW limit \in Nat, limit >= Cardinality(auditRows),
         NEW c, NEW p, NEW h, IsChain(c, p, h),
         {r \in Window(since) : ~IsSentinel(r)} = {c[i] : i \in 1 .. p},
         \A i \in 1 .. p : c[i].body.tenantId = Tenant,
         h # Genesis => \A i \in 1 .. p : c[i].prevHash # Genesis,
         NEW answer, answer = Respond(since, limit)
  PROVE  \E s : LET breaks == BreaksOf(c, p, h, s) IN
           /\ Ordered(answer.rows, Window(since), c, p, s)
           /\ answer.truncated <=> since # Unasked /\ p # 0 /\ h # Genesis
           /\ answer.ok <=> breaks = {} \/ (answer.truncated /\ Min(breaks) = 1)
           /\ breaks # {} => answer.brokenAt = Min(breaks)
           /\ s + p # 0 => answer.latestTs = answer.rows[s + p].body.occurredAt
<1>1. Sortable(Window(since)) /\ Fetch(since, limit) = Sorted(Window(since))
  BY FetchIsTheWindow
<1>2. PICK out : out = OrderByChainLinkage(Sorted(Window(since)), Genesis)
  OBVIOUS
<1>3. PICK s : Ordered(out, Window(since), c, p, s)
  BY <1>1, <1>2, ChainIsOrdered
<1>4. PICK breaks : breaks = BreaksOf(c, p, h, s)
  OBVIOUS
<1>5. {i \in DOMAIN out : BreaksAt(out, i)} = breaks
  BY <1>3, <1>4, OrderedBreaks
<1>6. VerifyChain(out) = IF breaks = {} THEN [ok |-> TRUE, firstBreakIndex |-> 0]
                         ELSE [ok |-> FALSE, firstBreakIndex |-> Min(breaks)]
  BY <1>5 DEF VerifyChain
<1>7. p \in Nat /\ s \in Nat /\ out \in Seq(Window(since)) /\ Len(out) = s + p
  BY <1>3 DEF IsChain, Ordered
<1>8. Truncated(out, since) <=> since # Unasked /\ p # 0 /\ h # Genesis
  <2> DEFINE real == {i \in DOMAIN out : ~IsSentinel(out[i])}
  <2>1. DOMAIN out = 1 .. s + p
    BY <1>7
  <2>2. \A i \in 1 .. s : IsSentinel(out[i])
    BY <1>3 DEF Ordered
  <2>3. CASE p = 0
    <3>1. real = {}
      BY <1>7, <2>1, <2>2, <2>3
    <3> QED
      BY <2>3, <3>1 DEF Truncated
  <2>4. CASE p # 0
    <3>1. 1 \in 1 .. p /\ s + 1 \in 1 .. s + p /\ out[s + 1] = c[1] /\ c[1].prevHash = h
          /\ ~IsSentinel(c[1])
      BY <1>3, <1>7, <2>4 DEF Ordered, IsChain
    <3>2. s + 1 \in real /\ real \in SUBSET Nat
      BY <2>1, <3>1
    <3>3. \A i \in real : s + 1 <= i
      BY <1>7, <2>1, <2>2
    <3>4. Min(real) \in real /\ Min(real) <= s + 1
      <4> HIDE DEF real
      <4> QED
        BY <3>2, MinIsLeast
    <3>5. Min(real) = s + 1
      <4>1. PICK m : m = Min(real)
        OBVIOUS
      <4> HIDE DEF real
      <4>2. m \in Nat /\ m <= s + 1 /\ s + 1 <= m
        BY <3>2, <3>3, <3>4, <4>1
      <4> QED
        BY <1>7, <4>1, <4>2
    <3>6. Truncated(out, since) <=> since # Unasked /\ real # {} /\ out[Min(real)].prevHash # Genesis
      BY DEF Truncated
    <3> HIDE DEF real
    <3> QED
      BY <2>4, <3>1, <3>2, <3>5, <3>6
  <2> QED
    BY <2>3, <2>4
<1>9. /\ answer.rows = out /\ answer.truncated = Truncated(out, since)
      /\ answer.brokenAt = VerifyChain(out).firstBreakIndex
      /\ answer.ok = (VerifyChain(out).ok
                         \/ (Truncated(out, since) /\ VerifyChain(out).firstBreakIndex = 1))
      /\ answer.latestTs = IF out = << >> THEN Unasked ELSE Last(out).body.occurredAt
  BY <1>1, <1>2 DEF Respond
<1>10. /\ answer.ok <=> breaks = {} \/ (answer.truncated /\ Min(breaks) = 1)
       /\ breaks # {} => answer.brokenAt = Min(breaks)
  <2>1. CASE breaks = {}
    <3>1. VerifyChain(out).ok = TRUE
      BY <1>6, <2>1
    <3>2. answer.ok = TRUE
      BY <1>9, <3>1, Zenon
    <3> QED
      BY <2>1, <3>2
  <2>2. CASE breaks # {}
    <3>1. VerifyChain(out).ok = FALSE /\ VerifyChain(out).firstBreakIndex = Min(breaks)
      BY <1>6, <2>2
    <3>2. answer.ok <=> answer.truncated /\ Min(breaks) = 1
      <4>1. answer.ok = (FALSE \/ (Truncated(out, since) /\ Min(breaks) = 1))
        BY <1>9, <3>1, Zenon
      <4>2. answer.truncated <=> Truncated(out, since)
        BY <1>9, Zenon
      <4> QED
        BY <4>1, <4>2, Zenon
    <3> QED
      BY <1>9, <2>2, <3>1, <3>2
  <2> QED
    BY <2>1, <2>2
<1>11. s + p # 0 => answer.latestTs = out[s + p].body.occurredAt
  <2>1. s + p # 0 => out # << >>
    BY <1>7
  <2> QED
    BY <1>7, <1>9, <2>1 DEF Last
<1> QED
  BY <1>3, <1>4, <1>8, <1>9, <1>10, <1>11

\* Every row fetched is handed on, and a row whose predecessor is missing
\* breaks the walk wherever it comes.
LEMMA MissingRowsBreak ==
  ASSUME NEW S, Sortable(S), NEW x \in S, ~IsSentinel(x), x.prevHash # Genesis,
         \A r \in S : r.body.tenantId = Tenant,
         \A r \in S : ~IsSentinel(r) => r.rowHash # x.prevHash,
         \A r, u \in S : ~IsSentinel(r) /\ ~IsSentinel(u) /\ r.rowHash = u.rowHash => r = u,
         NEW out, out = OrderByChainLinkage(Sorted(S), Genesis)
  PROVE  {i \in DOMAIN out : BreaksAt(out, i)} # {}
<1>1. PICK rows : rows = Sorted(S)
  OBVIOUS
<1>2. rows \in Seq(S) /\ ToSet(rows) = S
  BY <1>1, SortedIsASequence
<1> DEFINE T == RealRows(rows)
           anchors == Anchors(rows, Genesis)
           walk == IF anchors = {} THEN << >> ELSE Walk(rows, CHOOSE a \in anchors : TRUE)
           used == {r.rowHash : r \in ToSet(walk)}
           rest == {r \in T : r.rowHash \notin used}
           old == {r \in ToSet(rows) : IsSentinel(r)}
<1>3. out = (Sorted(old) \o walk) \o Sorted(rest)
  BY <1>1 DEF OrderByChainLinkage
<1>4. walk \in Seq(T)
  <2>1. \A start : Walk(rows, start) \in Seq(T)
    <3> SUFFICES ASSUME NEW start PROVE Walk(rows, start) \in Seq(T)
      OBVIOUS
    <3>1. PICK it : it \in [0 .. Len(rows) -> Seq(T)] /\ Walk(rows, start) = it[Len(rows)]
      BY <1>2, WalkIterates
    <3>2. Len(rows) \in 0 .. Len(rows)
      BY <1>2
    <3> QED
      BY <3>1, <3>2
  <2>2. << >> \in Seq(T)
    OBVIOUS
  <2> HIDE DEF T
  <2> QED
    BY <2>1, <2>2
<1>5. T = {r \in S : ~IsSentinel(r)} /\ old = {r \in S : IsSentinel(r)}
  BY <1>2 DEF RealRows
<1> HIDE DEF walk, T
<1>6. old \in SUBSET S /\ rest \in SUBSET S
  BY <1>5
<1> HIDE DEF old, rest
<1>7. PICK a, b : a = Sorted(old) /\ b = Sorted(rest)
  OBVIOUS
<1>8. a \in Seq(old) /\ b \in Seq(rest) /\ ToSet(b) = rest
  BY <1>6, <1>7, SubsetsAreSortable, SortedIsASequence
<1>9. /\ Len(a) \in Nat /\ a \in [1 .. Len(a) -> old]
      /\ Len(walk) \in Nat /\ walk \in [1 .. Len(walk) -> T]
      /\ Len(b) \in Nat /\ b \in [1 .. Len(b) -> rest]
  BY <1>4, <1>8
<1>10. a \in Seq(S) /\ walk \in Seq(S) /\ b \in Seq(S)
  <2>1. a \in [1 .. Len(a) -> S] /\ walk \in [1 .. Len(walk) -> S] /\ b \in [1 .. Len(b) -> S]
    BY <1>5, <1>6, <1>9
  <2> QED
    <3>1. \A q : \A n \in Nat : q \in [1 .. n -> S] => q \in Seq(S)
      BY SeqDef
    <3> QED
      BY <1>9, <2>1, <3>1
<1>11. a \o walk \in Seq(S) /\ Len(a \o walk) = Len(a) + Len(walk)
  BY <1>10, ConcatProperties
<1>12. /\ out \in Seq(S) /\ Len(out) = Len(a) + Len(walk) + Len(b)
       /\ \A i \in 1 .. Len(walk) : out[Len(a) + i] = walk[i]
       /\ \A i \in 1 .. Len(b) : out[Len(a) + Len(walk) + i] = b[i]
  <2>1. PICK w : w = a \o walk
    OBVIOUS
  <2>2. w \in Seq(S) /\ Len(w) = Len(a) + Len(walk) /\ out = w \o b
    BY <1>3, <1>7, <1>11, <2>1
  <2>3. \A i \in 1 .. Len(walk) : w[Len(a) + i] = walk[i]
    <3>1. \A i \in 1 .. Len(a) + Len(walk) :
             w[i] = IF i <= Len(a) THEN a[i] ELSE walk[i - Len(a)]
      BY <1>10, <2>1, ConcatProperties
    <3> SUFFICES ASSUME NEW i \in 1 .. Len(walk) PROVE w[Len(a) + i] = walk[i]
      OBVIOUS
    <3>2. Len(a) + i \in 1 .. Len(a) + Len(walk) /\ ~ (Len(a) + i <= Len(a))
          /\ (Len(a) + i) - Len(a) = i
      BY <1>9
    <3> QED
      BY <3>1, <3>2
  <2>4. out \in Seq(S) /\ Len(out) = Len(w) + Len(b)
    BY <1>10, <2>2, ConcatProperties
  <2>5. \A i \in 1 .. Len(w) + Len(b) : out[i] = IF i <= Len(w) THEN w[i] ELSE b[i - Len(w)]
    BY <1>10, <2>2, ConcatProperties
  <2>6. ASSUME NEW i \in 1 .. Len(walk) PROVE out[Len(a) + i] = walk[i]
    <3>1. Len(a) + i \in 1 .. Len(w) + Len(b) /\ Len(a) + i <= Len(w)
      BY <1>9, <2>2
    <3> QED
      BY <2>3, <2>5, <3>1
  <2>7. ASSUME NEW i \in 1 .. Len(b) PROVE out[Len(a) + Len(walk) + i] = b[i]
    <3>1. /\ Len(w) + i \in 1 .. Len(w) + Len(b) /\ ~ (Len(w) + i <= Len(w))
          /\ (Len(w) + i) - Len(w) = i
      BY <1>9, <2>2
    <3>2. out[Len(w) + i] = b[i]
      BY <2>5, <3>1
    <3> QED
      BY <2>2, <3>2
  <2> QED
    BY <2>2, <2>4, <2>6, <2>7
<1>13. DOMAIN out = 1 .. Len(out) /\ Len(out) \in Nat
  BY <1>12
<1>14. \E i \in DOMAIN out : out[i] = x
  <2>1. CASE x \in ToSet(walk)
    <3>1. PICK i \in 1 .. Len(walk) : walk[i] = x
      BY <1>9, <2>1 DEF ToSet
    <3>2. Len(a) + i \in DOMAIN out /\ out[Len(a) + i] = x
      BY <1>9, <1>12, <1>13, <3>1
    <3> QED
      BY <3>2
  <2>2. CASE x \notin ToSet(walk)
    <3>1. x.rowHash \notin used
      <4> SUFFICES ASSUME NEW r \in ToSet(walk), r.rowHash = x.rowHash PROVE FALSE
        OBVIOUS
      <4>1. r \in T
        BY <1>9 DEF ToSet
      <4> QED
        BY <1>5, <2>2, <4>1
    <3>2. x \in rest
      BY <1>5, <3>1 DEF rest
    <3>3. PICK i \in 1 .. Len(b) : b[i] = x
      BY <1>8, <1>9, <3>2 DEF ToSet
    <3>4. Len(a) + Len(walk) + i \in DOMAIN out /\ out[Len(a) + Len(walk) + i] = x
      BY <1>9, <1>12, <1>13, <3>3
    <3> QED
      BY <3>4
  <2> QED
    BY <2>1, <2>2
<1>15. PICK i \in DOMAIN out : out[i] = x
  BY <1>14
<1>16. ExpectedPrev(out, i) # x.prevHash
  <2> DEFINE above == {j \in 1 .. i - 1 : /\ ~IsSentinel(out[j])
                                          /\ out[j].body.tenantId = out[i].body.tenantId}
  <2>1. ExpectedPrev(out, i) = IF above = {} THEN Genesis ELSE out[Max(above)].rowHash
    BY <1>15 DEF ExpectedPrev, Genesis
  <2>2. ASSUME above # {} PROVE out[Max(above)].rowHash # x.prevHash
    <3>1. i - 1 \in Nat /\ above \in SUBSET (1 .. i - 1)
      BY <1>13
    <3>2. Max(above) \in above
      <4> HIDE DEF above
      <4> QED
        BY <2>2, <3>1, MaxIsLargest
    <3>3. PICK m : m = Max(above)
      OBVIOUS
    <3>4. m \in 1 .. i - 1 /\ ~IsSentinel(out[m])
      BY <3>2, <3>3
    <3>5. m \in DOMAIN out /\ out[m] \in S
      BY <1>12, <1>13, <3>4
    <3> QED
      BY <3>3, <3>4, <3>5
  <2> HIDE DEF above
  <2> QED
    BY <2>1, <2>2
<1>17. BreaksAt(out, i)
  BY <1>15, <1>16 DEF BreaksAt
<1> QED
  BY <1>17

-----------------------------------------------------------------------------
(* The table behind the route. *)

\* A row as a writer leaves it.
IsWritten(r) ==
    /\ r = [body |-> Body(r.body.id, r.body.occurredAt), prevHash |-> r.prevHash,
            rowHash |-> ComputeRowHash(r.prevHash, r.body)]
    /\ r.body = Body(r.body.id, r.body.occurredAt)
    /\ r.body.id \in Nat /\ r.body.occurredAt \in Nat

\* The n rows ever written, in the order of the chain.
Written(c, n) ==
    /\ n \in Nat
    /\ \A i \in 1 .. n : /\ IsWritten(c[i])
                         /\ c[i].prevHash = (IF i = 1 THEN Genesis ELSE c[i - 1].rowHash)
    /\ \A i, j \in 1 .. n : c[i].body.id = c[j].body.id => i = j

\* What became of them.
TableIs(c, n) ==
    \/ Intact /\ Chained = {c[i] : i \in 1 .. n}
    \/ /\ deleted = {}
       /\ \E f \in 1 .. n : /\ tampered = {Forged(c[f])}
                            /\ Chained = {IF i = f THEN Forged(c[f]) ELSE c[i] : i \in 1 .. n}
    \/ /\ tampered = {}
       /\ \E e \in 1 .. n : /\ deleted = {c[e]}
                            /\ Chained = {c[i] : i \in (1 .. n) \ {e}}

IsTip(c, n, h) == h = IF n = 0 THEN Genesis ELSE c[n].rowHash

TableInv ==
    /\ clock \in Nat
    /\ Sortable(auditRows)
    /\ \A r \in auditRows : r.body.tenantId = Tenant
    /\ \A r \in auditRows : IsSentinel(r) => r.body.occurredAt = 0
    /\ \E c, n : Written(c, n) /\ IsTip(c, n, tip) /\ TableIs(c, n)

RouteInv ==
    /\ TableInv
    /\ verdict # Unasked => \E since \in {Unasked} \cup Nat, limit \in Nat :
                               verdict = Respond(since, limit)

\* The families of hashes do not meet, and a hash has its input in it.
LEMMA HashFamilies ==
  /\ Genesis # PRE_CHAIN_SENTINEL
  /\ \A h, b : ComputeRowHash(h, b) # Genesis /\ ComputeRowHash(h, b) # PRE_CHAIN_SENTINEL
  /\ \A g, h, a, b : ComputeRowHash(g, a) = ComputeRowHash(h, b) => a = b
<1>1. Genesis.kind = "genesis" /\ PRE_CHAIN_SENTINEL.kind = "sentinel"
  BY DEF Genesis, GenesisHash, PRE_CHAIN_SENTINEL
<1>2. \A h, b : ComputeRowHash(h, b).kind = "row" /\ ComputeRowHash(h, b).body = b
  BY DEF ComputeRowHash
<1>3. ASSUME NEW g, NEW h, NEW a, NEW b, ComputeRowHash(g, a) = ComputeRowHash(h, b)
      PROVE  a = b
  <2>1. ComputeRowHash(g, a).body = a /\ ComputeRowHash(h, b).body = b
    BY <1>2
  <2> QED
    BY <1>3, <2>1, Zenon
<1> QED
  BY <1>1, <1>2, <1>3

\* What a written row is, and what rewriting its content leaves of it.
LEMMA WrittenRow ==
  ASSUME NEW r, IsWritten(r)
  PROVE  /\ r.rowHash = ComputeRowHash(r.prevHash, r.body) /\ Sealed(r)
         /\ r.rowHash # Genesis /\ r.rowHash # PRE_CHAIN_SENTINEL
         /\ r.body.tenantId = Tenant
<1>1. r.rowHash = ComputeRowHash(r.prevHash, r.body)
  BY DEF IsWritten
<1>2. r.body.tenantId = Tenant
  BY DEF IsWritten, Body
<1> QED
  BY <1>1, <1>2, HashFamilies DEF Sealed

LEMMA ForgedRow ==
  ASSUME NEW r, IsWritten(r)
  PROVE  /\ Forged(r).prevHash = r.prevHash /\ Forged(r).rowHash = r.rowHash
         /\ Forged(r).body.id = r.body.id /\ Forged(r).body.tenantId = Tenant
         /\ Forged(r).body.occurredAt = r.body.occurredAt
         /\ ~Sealed(Forged(r))
<1>1. PICK id, time, h, g : /\ r = [body |-> Body(id, time), prevHash |-> h, rowHash |-> g]
                            /\ id = r.body.id /\ time = r.body.occurredAt
  BY DEF IsWritten
<1>2. Forged(r) = [body |-> [Body(id, time) EXCEPT !.content = "forged"],
                   prevHash |-> h, rowHash |-> g]
  BY <1>1 DEF Forged
<1>3. PICK b : b = [Body(id, time) EXCEPT !.content = "forged"]
  OBVIOUS
<1>4. /\ b.id = id /\ b.tenantId = Tenant /\ b.occurredAt = time /\ b.content = "forged"
  BY <1>3 DEF Body
<1>5. Body(id, time).content = "written"
  BY DEF Body
<1>6. /\ Forged(r).prevHash = h /\ Forged(r).rowHash = g /\ Forged(r).body = b
      /\ r.prevHash = h /\ r.rowHash = g /\ r.body = Body(id, time)
  <2>1. PICK a : a = Body(id, time)
    OBVIOUS
  <2>2. r = [body |-> a, prevHash |-> h, rowHash |-> g]
    BY <1>1, <2>1, Zenon
  <2>3. Forged(r) = [body |-> b, prevHash |-> h, rowHash |-> g]
    BY <1>2, <1>3, Zenon
  <2> QED
    BY <2>1, <2>2, <2>3
<1>7. g = ComputeRowHash(h, Body(id, time))
  BY <1>6, WrittenRow
<1>8. b # Body(id, time)
  BY <1>4, <1>5
<1>9. ~Sealed(Forged(r))
  BY <1>6, <1>7, <1>8, HashFamilies DEF Sealed
<1> QED
  BY <1>1, <1>4, <1>6, <1>9

\* The rows written form a chain, from any of them on.
LEMMA WrittenIsAChain ==
  ASSUME NEW c, NEW n, Written(c, n)
  PROVE  /\ n \in Nat /\ IsChain(c, n, Genesis)
         /\ \A i \in 1 .. n : /\ Sealed(c[i]) /\ c[i].body.tenantId = Tenant /\ ~IsSentinel(c[i])
                              /\ c[i].prevHash = Genesis <=> i = 1
         /\ \A i, j \in 1 .. n : c[i] = c[j] => i = j
<1>1. n \in Nat /\ \A i \in 1 .. n : IsWritten(c[i])
  BY DEF Written
<1>2. \A i \in 1 .. n : /\ Sealed(c[i]) /\ c[i].body.tenantId = Tenant
                        /\ c[i].rowHash # Genesis /\ c[i].rowHash # PRE_CHAIN_SENTINEL
                        /\ c[i].rowHash = ComputeRowHash(c[i].prevHash, c[i].body)
  BY <1>1, WrittenRow
<1>3. ASSUME NEW i \in 1 .. n
      PROVE  /\ ~IsSentinel(c[i])
             /\ c[i].prevHash = Genesis <=> i = 1
  <2>1. i # 1 => i - 1 \in 1 .. n
    BY <1>1
  <2> QED
    BY <1>2, <2>1, HashFamilies DEF Written, IsSentinel
<1>4. ASSUME NEW i \in 1 .. n, NEW j \in 1 .. n, c[i].rowHash = c[j].rowHash
      PROVE  i = j
  <2>1. c[i].body = c[j].body
    BY <1>2, <1>4, HashFamilies
  <2> QED
    BY <2>1 DEF Written
<1>5. IsChain(c, n, Genesis)
  BY <1>1, <1>2, <1>3, <1>4 DEF IsChain, Written
<1> QED
  BY <1>1, <1>2, <1>3, <1>4, <1>5

\* What is left of a chain from its row k on: p rows d that extend the hash h.
IsRest(d, p, h, c, n, k) ==
    /\ k \in 1 .. n + 1 /\ p \in Nat /\ k + p = n + 1
    /\ \A j \in 1 .. p : d[j] = c[k + j - 1]
    /\ h = IF k = 1 THEN Genesis ELSE c[k - 1].rowHash

LEMMA RestOfAChain ==
  ASSUME NEW c, NEW n, Written(c, n), NEW k, NEW p, NEW d, NEW h, IsRest(d, p, h, c, n, k)
  PROVE  /\ IsChain(d, p, h)
         /\ h = Genesis <=> k = 1
         /\ \A j \in 1 .. p : \E i \in k .. n : d[j] = c[i]
         /\ \A i \in k .. n : \E j \in 1 .. p : c[i] = d[j]
<1>1. /\ n \in Nat /\ IsChain(c, n, Genesis)
      /\ \A i \in 1 .. n : c[i].prevHash = Genesis <=> i = 1
  BY WrittenIsAChain
<1>2. /\ k \in 1 .. n + 1 /\ p \in Nat /\ p = n + 1 - k
      /\ \A j \in 1 .. p : d[j] = c[k + j - 1]
      /\ h = IF k = 1 THEN Genesis ELSE c[k - 1].rowHash
  BY <1>1 DEF IsRest
<1>3. \A j \in 1 .. p : d[j] = c[k + j - 1] /\ k + j - 1 \in 1 .. n /\ k + j - 1 \in k .. n
  BY <1>1, <1>2
<1>4. ASSUME NEW j \in 1 .. p
      PROVE  /\ d[j].prevHash = (IF j = 1 THEN h ELSE d[j - 1].rowHash)
             /\ d[j].rowHash # h /\ ~IsSentinel(d[j])
  <2>1. CASE j = 1
    <3>1. d[j] = c[k] /\ k \in 1 .. n
      <4>1. k + j - 1 = k
        BY <1>2, <2>1
      <4> QED
        BY <1>3, <4>1
    <3> QED
      BY <1>1, <1>2, <2>1, <3>1 DEF IsChain
  <2>2. CASE j # 1
    <3>1. j - 1 \in 1 .. p /\ k + (j - 1) - 1 = (k + j - 1) - 1 /\ k + j - 1 # 1
      BY <1>2, <2>2
    <3>2. d[j - 1] = c[(k + j - 1) - 1]
      BY <1>3, <3>1
    <3> QED
      BY <1>1, <1>2, <1>3, <2>2, <3>1, <3>2 DEF IsChain
  <2>3. d[j].rowHash # h
    <3>1. k # 1 => k - 1 \in 1 .. n /\ k + j - 1 # k - 1
      BY <1>1, <1>2
    <3> QED
      BY <1>1, <1>2, <1>3, <3>1 DEF IsChain
  <2>4. ~IsSentinel(d[j])
    BY <1>1, <1>3 DEF IsChain
  <2> QED
    BY <2>1, <2>2, <2>3, <2>4
<1>5. ASSUME NEW i \in 1 .. p, NEW j \in 1 .. p, d[i].rowHash = d[j].rowHash PROVE i = j
  <2>1. PICK a \in 1 .. n, b \in 1 .. n : a = k + i - 1 /\ b = k + j - 1
    BY <1>3
  <2>2. c[a].rowHash = c[b].rowHash
    BY <1>3, <1>5, <2>1
  <2>3. k + i - 1 = k + j - 1
    BY <1>1, <2>1, <2>2 DEF IsChain
  <2> QED
    BY <1>2, <2>3
<1>6. h = Genesis <=> k = 1
  <2>1. k # 1 => k - 1 \in 1 .. n
    BY <1>1, <1>2
  <2> QED
    BY <1>1, <1>2, <2>1 DEF IsChain
<1>7. \A i \in k .. n : i - k + 1 \in 1 .. p /\ d[i - k + 1] = c[i]
  <2> SUFFICES ASSUME NEW i \in k .. n PROVE i - k + 1 \in 1 .. p /\ d[i - k + 1] = c[i]
    OBVIOUS
  <2>1. i - k + 1 \in 1 .. p /\ k + (i - k + 1) - 1 = i
    BY <1>1, <1>2
  <2> QED
    BY <1>3, <2>1
<1> QED
  BY <1>2, <1>3, <1>4, <1>5, <1>6, <1>7 DEF IsChain

-----------------------------------------------------------------------------
(* The table behind the route, step by step. *)

LEMMA RouteStart == RouteInit => RouteInv
<1> SUFFICES ASSUME RouteInit PROVE RouteInv
  OBVIOUS
<1> DEFINE legacy(id) == [body |-> Body(id, 0), prevHash |-> PRE_CHAIN_SENTINEL,
                          rowHash |-> LegacyRowHash(id)]
<1>1. auditRows = {legacy(id) : id \in LegacyIds} /\ clock = 0 /\ tip = Genesis
      /\ Intact /\ verdict = Unasked
  BY DEF RouteInit, Intact
<1>2. \A id : /\ legacy(id).body.id = id /\ legacy(id).body.occurredAt = 0
              /\ legacy(id).body.tenantId = Tenant /\ IsSentinel(legacy(id))
  BY DEF IsSentinel, Body
<1>3. IsFiniteSet(auditRows)
  <2>1. IsFiniteSet(LegacyIds)
    BY RouteAssumption
  <2>2. PICK f : f = [id \in LegacyIds |-> legacy(id)]
    OBVIOUS
  <2>3. f \in Surjection(LegacyIds, auditRows)
    <3>1. f \in [LegacyIds -> auditRows] /\ \A r \in auditRows : \E id \in LegacyIds : f[id] = r
      BY <1>1, <2>2
    <3> QED
      BY <3>1 DEF Surjection
  <2> QED
    BY <2>1, <2>3, FS_Surjection
<1>4. \A r \in auditRows : \E id \in LegacyIds : r = legacy(id)
  BY <1>1
<1>5. Sortable(auditRows)
  <2>1. LegacyIds \subseteq Nat
    BY RouteAssumption
  <2> HIDE DEF legacy
  <2> QED
    BY <1>2, <1>3, <1>4, <2>1 DEF Sortable
<1>6. Chained = {}
  BY <1>2, <1>4 DEF Chained
<1>7. Written(<< >>, 0) /\ IsTip(<< >>, 0, tip) /\ TableIs(<< >>, 0)
  <2>1. \A i \in 1 .. 0 : FALSE
    OBVIOUS
  <2>2. Chained = {<< >>[i] : i \in 1 .. 0}
    BY <1>6, <2>1
  <2> QED
    BY <1>1, <2>1, <2>2 DEF Written, IsTip, TableIs
<1>8. \A r \in auditRows : r.body.tenantId = Tenant /\ r.body.occurredAt = 0
  <2> HIDE DEF legacy
  <2> QED
    BY <1>2, <1>4
<1>9. \E c, n : Written(c, n) /\ IsTip(c, n, tip) /\ TableIs(c, n)
  BY <1>7
<1> QED
  BY <1>1, <1>5, <1>8, <1>9 DEF RouteInv, TableInv

\* The chained rows of an intact table, and what a writer finds there.
LEMMA IntactTable ==
  ASSUME NEW c, NEW n, TableIs(c, n), Intact
  PROVE  Chained = {c[i] : i \in 1 .. n}
BY DEF TableIs, Intact

\* A committed row lengthens the chain.
LEMMA AppendKeeps ==
  ASSUME TableInv, AppendRow
  PROVE  TableInv'
<1>1. PICK c, n : Written(c, n) /\ IsTip(c, n, tip) /\ TableIs(c, n)
  BY DEF TableInv
<1>2. Intact /\ Intact' /\ clock' = clock /\ deleted = {}
  BY DEF AppendRow, Intact
<1>3. Chained = {c[i] : i \in 1 .. n}
  BY <1>1, <1>2, IntactTable
<1>4. PICK id \in Ids \ UsedIds, time \in 0 .. clock :
         /\ auditRows' = auditRows \cup
              {[body |-> Body(id, time), prevHash |-> tip,
                rowHash |-> ComputeRowHash(tip, Body(id, time))]}
         /\ tip' = ComputeRowHash(tip, Body(id, time))
  BY DEF AppendRow
<1>5. PICK row : row = [body |-> Body(id, time), prevHash |-> tip,
                        rowHash |-> ComputeRowHash(tip, Body(id, time))]
  OBVIOUS
<1>6. id \in Nat /\ time \in Nat
  BY <1>4, RouteAssumption DEF TableInv
<1>7. /\ row.body = Body(id, time) /\ row.prevHash = tip
      /\ row.rowHash = ComputeRowHash(tip, Body(id, time))
  BY <1>5
<1>8. row.body.id = id /\ row.body.occurredAt = time /\ row.body.tenantId = Tenant
  BY <1>7 DEF Body
<1>9. IsWritten(row)
  <2>1. row.body = Body(row.body.id, row.body.occurredAt)
    BY <1>7, <1>8
  <2>2. row = [body |-> row.body, prevHash |-> row.prevHash,
               rowHash |-> ComputeRowHash(row.prevHash, row.body)]
    BY <1>5, <1>7
  <2> QED
    BY <1>6, <1>8, <2>1, <2>2 DEF IsWritten
<1>10. n \in Nat /\ \A i \in 1 .. n : IsWritten(c[i])
  BY <1>1 DEF Written
<1>11. ~IsSentinel(row)
  <2>1. CASE n = 0
    BY <1>1, <1>7, <2>1, HashFamilies DEF IsTip, IsSentinel
  <2>2. CASE n # 0
    <3>1. tip = c[n].rowHash /\ n \in 1 .. n
      BY <1>1, <1>10, <2>2 DEF IsTip
    <3> QED
      BY <1>7, <1>10, <3>1, WrittenRow DEF IsSentinel
  <2> QED
    BY <2>1, <2>2
<1>12. auditRows' = auditRows \cup {row}
  BY <1>4, <1>5
<1>13. \A r \in auditRows : r.body.id # id
  BY <1>4 DEF UsedIds
<1>14. Sortable(auditRows')
  <2>1. IsFiniteSet(auditRows \cup {row})
    BY FS_AddElement DEF TableInv, Sortable
  <2> QED
    BY <1>6, <1>8, <1>12, <1>13, <2>1 DEF TableInv, Sortable
<1>15. PICK d : d = [i \in 1 .. n + 1 |-> IF i = n + 1 THEN row ELSE c[i]]
  OBVIOUS
<1>16. /\ d[n + 1] = row
       /\ \A i \in 1 .. n : d[i] = c[i] /\ i \in 1 .. n + 1
       /\ \A i \in 1 .. n + 1 : i = n + 1 \/ i \in 1 .. n
  BY <1>10, <1>15
<1>17. Written(d, n + 1)
  <2>1. ASSUME NEW i \in 1 .. n + 1
        PROVE  /\ IsWritten(d[i])
               /\ d[i].prevHash = (IF i = 1 THEN Genesis ELSE d[i - 1].rowHash)
    <3>1. CASE i \in 1 .. n
      <4>1. i # 1 => i - 1 \in 1 .. n
        BY <1>10, <3>1
      <4> QED
        BY <1>1, <1>16, <3>1, <4>1 DEF Written
    <3>2. CASE i = n + 1
      <4>1. d[i] = row /\ row.prevHash = tip
        BY <1>7, <1>16, <3>2
      <4>2. i = 1 <=> n = 0
        BY <1>10, <3>2
      <4>3. i # 1 => i - 1 = n /\ n \in 1 .. n
        BY <1>10, <3>2
      <4> QED
        BY <1>1, <1>9, <1>16, <4>1, <4>2, <4>3 DEF IsTip
    <3> QED
      BY <1>16, <3>1, <3>2
  <2>2. \A i \in 1 .. n : c[i].body.id # id
    <3>1. \A i \in 1 .. n : c[i] \in auditRows
      BY <1>3 DEF Chained
    <3> QED
      BY <1>13, <3>1
  <2>3. ASSUME NEW i \in 1 .. n + 1, NEW j \in 1 .. n + 1, d[i].body.id = d[j].body.id
        PROVE  i = j
    BY <1>1, <1>8, <1>16, <2>2, <2>3 DEF Written
  <2> QED
    BY <1>10, <2>1, <2>3 DEF Written
<1>18. IsTip(d, n + 1, tip')
  BY <1>4, <1>7, <1>10, <1>16 DEF IsTip
<1>19. Chained' = {d[i] : i \in 1 .. n + 1}
  <2>1. Chained' = Chained \cup {row}
    BY <1>11, <1>12 DEF Chained
  <2>2. {d[i] : i \in 1 .. n + 1} = {c[i] : i \in 1 .. n} \cup {row}
    <3>1. \A i \in 1 .. n + 1 : d[i] \in {c[j] : j \in 1 .. n} \cup {row}
      BY <1>16
    <3>2. n + 1 \in 1 .. n + 1
      BY <1>10
    <3>3. row \in {d[i] : i \in 1 .. n + 1}
      BY <1>16, <3>2
    <3>4. \A i \in 1 .. n : c[i] \in {d[j] : j \in 1 .. n + 1}
      BY <1>16
    <3> QED
      BY <3>1, <3>3, <3>4
  <2> QED
    BY <1>3, <2>1, <2>2
<1>20. TableIs(d, n + 1)'
  BY <1>2, <1>19 DEF TableIs
<1>21. \A r \in auditRows' : /\ r.body.tenantId = Tenant
                             /\ IsSentinel(r) => r.body.occurredAt = 0
  BY <1>8, <1>11, <1>12 DEF TableInv
<1>22. \E e, m : Written(e, m) /\ IsTip(e, m, tip') /\ TableIs(e, m)'
  BY <1>17, <1>18, <1>20
<1> QED
  BY <1>2, <1>14, <1>21, <1>22 DEF TableInv

\* Rewriting the content of a row leaves every other field as it was.
LEMMA TamperKeeps ==
  ASSUME TableInv, TamperBody
  PROVE  TableInv'
<1>1. PICK c, n : Written(c, n) /\ IsTip(c, n, tip) /\ TableIs(c, n)
  BY DEF TableInv
<1>2. Intact /\ deleted' = {} /\ clock' = clock /\ tip' = tip
  BY DEF TamperBody, Intact
<1>3. Chained = {c[i] : i \in 1 .. n}
  BY <1>1, <1>2, IntactTable
<1>4. PICK r \in Chained : auditRows' = (auditRows \ {r}) \cup {Forged(r)} /\ tampered' = {Forged(r)}
  BY DEF TamperBody
<1>5. PICK f \in 1 .. n : r = c[f]
  BY <1>3, <1>4
<1>6. IsWritten(r) /\ n \in Nat
  BY <1>1, <1>5 DEF Written
<1>7. PICK g : g = Forged(r)
  OBVIOUS
<1>8. /\ g.prevHash = r.prevHash /\ g.body.id = r.body.id /\ g.body.tenantId = Tenant
      /\ g.body.occurredAt = r.body.occurredAt
  BY <1>6, <1>7, ForgedRow
<1>9. ~IsSentinel(g) /\ r \in auditRows
  BY <1>4, <1>8 DEF Chained, IsSentinel
<1>10. auditRows' = (auditRows \ {r}) \cup {g}
  BY <1>4, <1>7
<1>11. Sortable(auditRows')
  <2>1. IsFiniteSet(auditRows \ {r})
    BY FS_RemoveElement DEF TableInv, Sortable
  <2>2. IsFiniteSet((auditRows \ {r}) \cup {g})
    BY <2>1, FS_AddElement
  <2>3. g.body.id \in Nat /\ g.body.occurredAt \in Nat
    BY <1>8, <1>9 DEF TableInv, Sortable
  <2>4. \A u \in auditRows \ {r} : u.body.id # g.body.id
    BY <1>8, <1>9 DEF TableInv, Sortable
  <2> QED
    BY <1>10, <2>2, <2>3, <2>4 DEF TableInv, Sortable
<1>12. Chained' = (Chained \ {r}) \cup {g}
  BY <1>9, <1>10 DEF Chained
<1>13. Chained' = {IF i = f THEN g ELSE c[i] : i \in 1 .. n}
  <2> DEFINE new(i) == IF i = f THEN g ELSE c[i]
  <2>1. \A i \in 1 .. n : i # f => c[i] # r
    BY <1>1, <1>5, WrittenIsAChain
  <2>2. \A i \in 1 .. n : new(i) \in Chained'
    BY <1>3, <1>12, <2>1
  <2>3. \A u \in Chained' : \E i \in 1 .. n : u = new(i)
    BY <1>3, <1>5, <1>12
  <2> QED
    BY <2>2, <2>3
<1>14. TableIs(c, n)'
  BY <1>2, <1>4, <1>5, <1>7, <1>13 DEF TableIs
<1>15. \A u \in auditRows' : /\ u.body.tenantId = Tenant
                             /\ IsSentinel(u) => u.body.occurredAt = 0
  BY <1>8, <1>9, <1>10 DEF TableInv
<1>16. \E e, m : Written(e, m) /\ IsTip(e, m, tip') /\ TableIs(e, m)'
  BY <1>1, <1>2, <1>14
<1> QED
  BY <1>2, <1>11, <1>15, <1>16 DEF TableInv

\* A deletion takes one row out of the chain.
LEMMA DeleteKeeps ==
  ASSUME TableInv, DeleteRow
  PROVE  TableInv'
<1>1. PICK c, n : Written(c, n) /\ IsTip(c, n, tip) /\ TableIs(c, n)
  BY DEF TableInv
<1>2. Intact /\ tampered' = {} /\ clock' = clock /\ tip' = tip
  BY DEF DeleteRow, Intact
<1>3. Chained = {c[i] : i \in 1 .. n}
  BY <1>1, <1>2, IntactTable
<1>4. PICK r \in Chained : auditRows' = auditRows \ {r} /\ deleted' = {r}
  BY DEF DeleteRow
<1>5. PICK e \in 1 .. n : r = c[e]
  BY <1>3, <1>4
<1>6. Sortable(auditRows')
  <2>1. auditRows' \in SUBSET auditRows
    BY <1>4
  <2> QED
    BY <2>1, SubsetsAreSortable DEF TableInv
<1>7. Chained' = Chained \ {r}
  BY <1>4 DEF Chained
<1>8. Chained' = {c[i] : i \in (1 .. n) \ {e}}
  <2>1. \A i \in 1 .. n : i # e => c[i] # r
    BY <1>1, <1>5, WrittenIsAChain
  <2>2. \A i \in (1 .. n) \ {e} : c[i] \in Chained'
    BY <1>3, <1>7, <2>1
  <2>3. \A u \in Chained' : \E i \in (1 .. n) \ {e} : u = c[i]
    BY <1>3, <1>5, <1>7
  <2> QED
    BY <2>2, <2>3
<1>9. TableIs(c, n)'
  BY <1>2, <1>4, <1>5, <1>8 DEF TableIs
<1>10. \A u \in auditRows' : /\ u.body.tenantId = Tenant
                             /\ IsSentinel(u) => u.body.occurredAt = 0
  BY <1>4 DEF TableInv
<1>11. \E d, m : Written(d, m) /\ IsTip(d, m, tip') /\ TableIs(d, m)'
  BY <1>1, <1>2, <1>9
<1> QED
  BY <1>2, <1>6, <1>10, <1>11 DEF TableInv

\* The table is the one the writers left, but for one row.
LEMMA RouteStep == RouteInv /\ [RouteNext]_routeVars => RouteInv'
<1> SUFFICES ASSUME RouteInv, [RouteNext]_routeVars PROVE RouteInv'
  OBVIOUS
<1>1. TableInv
  BY DEF RouteInv
<1>2. ASSUME UNCHANGED <<tip, auditRows, tampered, deleted>>, clock' \in Nat
      PROVE  TableInv'
  <2>1. PICK c, n : Written(c, n) /\ IsTip(c, n, tip) /\ TableIs(c, n)
    BY <1>1 DEF TableInv
  <2>2. TableIs(c, n)'
    BY <1>2, <2>1 DEF TableIs, Intact, Chained
  <2>3. \E d, m : Written(d, m) /\ IsTip(d, m, tip') /\ TableIs(d, m)'
    BY <1>2, <2>1, <2>2
  <2> QED
    BY <1>1, <1>2, <2>3 DEF TableInv
<1>3. ASSUME UNCHANGED auditRows, NEW since, NEW limit
      PROVE  Respond(since, limit)' = Respond(since, limit)
  BY <1>3 DEF Respond, Fetch
<1>4. CASE verdict = Unasked /\ ClockTicks
  <2>1. clock' \in Nat
    BY <1>1, <1>4 DEF ClockTicks, TableInv
  <2> QED
    BY <1>2, <1>4, <2>1 DEF ClockTicks, RouteInv
<1>5. CASE verdict = Unasked /\ AppendRow
  BY <1>1, <1>5, AppendKeeps DEF AppendRow, RouteInv
<1>6. CASE verdict = Unasked /\ TamperBody
  BY <1>1, <1>6, TamperKeeps DEF TamperBody, RouteInv
<1>7. CASE verdict = Unasked /\ DeleteRow
  BY <1>1, <1>7, DeleteKeeps DEF DeleteRow, RouteInv
<1>8. CASE verdict = Unasked /\ VerifyRequest
  <2>1. PICK since \in {Unasked} \cup (0 .. LastInstant), limit \in 1 .. Cardinality(Ids) :
           verdict' = Respond(since, limit)
    BY <1>8 DEF VerifyRequest
  <2>2. since \in {Unasked} \cup Nat /\ limit \in Nat
    BY <2>1, FS_CardinalityType, RouteAssumption
  <2>3. TableInv'
    BY <1>1, <1>2, <1>8 DEF VerifyRequest, TableInv
  <2>4. UNCHANGED auditRows
    BY <1>8 DEF VerifyRequest
  <2> QED
    BY <1>3, <2>1, <2>2, <2>3, <2>4 DEF RouteInv
<1>9. CASE Forget
  BY <1>1, <1>2, <1>9 DEF Forget, RouteInv, TableInv
<1>10. CASE UNCHANGED routeVars
  <2>1. TableInv' /\ verdict' = verdict /\ UNCHANGED auditRows
    BY <1>1, <1>2, <1>10 DEF routeVars, TableInv
  <2>2. CASE verdict = Unasked
    BY <2>1, <2>2 DEF RouteInv
  <2>3. CASE verdict # Unasked
    <3>1. PICK since \in {Unasked} \cup Nat, limit \in Nat : verdict = Respond(since, limit)
      BY <2>3 DEF RouteInv
    <3> QED
      BY <1>3, <2>1, <3>1 DEF RouteInv
  <2> QED
    BY <2>2, <2>3
<1> QED
  BY <1>4, <1>5, <1>6, <1>7, <1>8, <1>9, <1>10 DEF RouteNext, Write

LEMMA RouteIsInv == RouteSpec => []RouteInv
BY RouteStart, RouteStep, PTL DEF RouteSpec

-----------------------------------------------------------------------------
(* What the route answers. *)

\* A response carries the request it answers.
LEMMA ResponseCarries ==
  ASSUME NEW since, NEW limit, NEW answer, answer = Respond(since, limit)
  PROVE  answer.since = since /\ answer.limit = limit
BY DEF Respond

\* Rewriting one row leaves a chain in which that row alone is not sealed.
LEMMA TamperedChain ==
  ASSUME NEW c, NEW n, Written(c, n), NEW f \in 1 .. n,
         NEW d, \A i \in 1 .. n : d[i] = IF i = f THEN Forged(c[f]) ELSE c[i]
  PROVE  /\ IsChain(d, n, Genesis)
         /\ \A i \in 1 .. n : d[i].body.tenantId = Tenant /\ (Sealed(d[i]) <=> i # f)
<1>1. /\ n \in Nat /\ IsChain(c, n, Genesis) /\ IsWritten(c[f])
      /\ \A i \in 1 .. n : Sealed(c[i]) /\ c[i].body.tenantId = Tenant
  BY WrittenIsAChain DEF Written
<1>2. PICK g : g = Forged(c[f])
  OBVIOUS
<1>3. /\ g.prevHash = c[f].prevHash /\ g.rowHash = c[f].rowHash
      /\ g.body.tenantId = Tenant /\ ~Sealed(g)
  BY <1>1, <1>2, ForgedRow
<1>4. \A i \in 1 .. n : d[i] = IF i = f THEN g ELSE c[i]
  BY <1>2
<1>5. \A i \in 1 .. n : /\ d[i].prevHash = c[i].prevHash /\ d[i].rowHash = c[i].rowHash
                        /\ d[i].body.tenantId = Tenant /\ (Sealed(d[i]) <=> i # f)
  BY <1>1, <1>3, <1>4
<1>6. \A i \in 1 .. n : i # 1 => i - 1 \in 1 .. n
  BY <1>1
<1>7. \A i \in 1 .. n : IsSentinel(d[i]) <=> IsSentinel(c[i])
  BY <1>5 DEF IsSentinel
<1>8. \A i \in 1 .. n : d[i].prevHash = (IF i = 1 THEN Genesis ELSE d[i - 1].rowHash)
  BY <1>1, <1>5, <1>6 DEF IsChain
<1>9. IsChain(d, n, Genesis)
  BY <1>1, <1>5, <1>7, <1>8 DEF IsChain
<1> QED
  BY <1>5, <1>9

LEMMA RewrittenRowsShow ==
  ASSUME TableInv, NEW limit \in Nat, limit >= Cardinality(auditRows),
         NEW answer, answer = Respond(Unasked, limit), NEW r \in tampered
  PROVE  ~answer.ok /\ answer.rows[answer.brokenAt] = r
<1>1. PICK c, n : Written(c, n) /\ TableIs(c, n)
  BY DEF TableInv
<1>2. PICK f \in 1 .. n : /\ tampered = {Forged(c[f])}
                          /\ Chained = {IF i = f THEN Forged(c[f]) ELSE c[i] : i \in 1 .. n}
  BY <1>1 DEF TableIs, Intact
<1>3. PICK d : \A i \in 1 .. n : d[i] = IF i = f THEN Forged(c[f]) ELSE c[i]
  <2> WITNESS [i \in 1 .. n |-> IF i = f THEN Forged(c[f]) ELSE c[i]]
  <2> QED
    OBVIOUS
<1>4. /\ IsChain(d, n, Genesis)
      /\ \A i \in 1 .. n : d[i].body.tenantId = Tenant /\ (Sealed(d[i]) <=> i # f)
  BY <1>1, <1>3, TamperedChain
<1>5. {u \in Window(Unasked) : ~IsSentinel(u)} = {d[i] : i \in 1 .. n}
  <2>1. {u \in Window(Unasked) : ~IsSentinel(u)} = Chained
    BY DEF Window, Chained
  <2>2. \A i \in 1 .. n : d[i] = IF i = f THEN Forged(c[f]) ELSE c[i]
    BY <1>3
  <2>3. \A u \in Chained : \E i \in 1 .. n : u = d[i]
    BY <1>2, <2>2
  <2>4. \A i \in 1 .. n : d[i] \in Chained
    BY <1>2, <2>2
  <2> QED
    BY <2>1, <2>3, <2>4
<1>6. PICK s : /\ Ordered(answer.rows, Window(Unasked), d, n, s)
               /\ answer.truncated <=> Unasked # Unasked /\ n # 0 /\ Genesis # Genesis
               /\ answer.ok <=> BreaksOf(d, n, Genesis, s) = {}
                                  \/ (answer.truncated /\ Min(BreaksOf(d, n, Genesis, s)) = 1)
               /\ BreaksOf(d, n, Genesis, s) # {} =>
                     answer.brokenAt = Min(BreaksOf(d, n, Genesis, s))
  <2>1. Sortable(auditRows)
    BY DEF TableInv
  <2> QED
    BY <1>4, <1>5, <2>1, ResponseToAChain
<1>7. n \in Nat /\ s \in Nat
  BY <1>1, <1>6 DEF Written, Ordered
<1>8. BreaksOf(d, n, Genesis, s) = {s + f}
  <2>1. ASSUME NEW i \in s + 1 .. s + n
        PROVE  ~Sealed(d[i - s]) <=> i = s + f
    <3>1. i - s \in 1 .. n /\ (i = s + f <=> i - s = f)
      BY <1>7
    <3> QED
      BY <1>4, <3>1
  <2>2. s + f \in s + 1 .. s + n
    BY <1>7
  <2>3. BreaksOf(d, n, Genesis, s) = {i \in s + 1 .. s + n : ~Sealed(d[i - s])}
    BY DEF BreaksOf
  <2> QED
    BY <2>1, <2>2, <2>3
<1>9. Min({s + f}) = s + f
  <2>1. {s + f} \in SUBSET Nat
    BY <1>7
  <2> QED
    BY <2>1, MinIsLeast
<1>10. answer.brokenAt = s + f
  BY <1>6, <1>8, <1>9
<1>11. ~answer.ok
  BY <1>6, <1>8
<1>12. answer.rows[s + f] = r
  <2>1. answer.rows[s + f] = d[f]
    BY <1>6 DEF Ordered
  <2> QED
    BY <1>2, <1>3, <2>1
<1> QED
  BY <1>10, <1>11, <1>12

LEMMA DeletedRowsShow ==
  ASSUME TableInv, NEW limit \in Nat, limit >= Cardinality(auditRows),
         NEW answer, answer = Respond(Unasked, limit), NEW r \in deleted, r.rowHash # tip
  PROVE  ~answer.ok
<1>1. PICK c, n : Written(c, n) /\ IsTip(c, n, tip) /\ TableIs(c, n)
  BY DEF TableInv
<1>2. PICK e \in 1 .. n : /\ deleted = {c[e]}
                          /\ Chained = {c[i] : i \in (1 .. n) \ {e}}
  BY <1>1 DEF TableIs, Intact
<1>3. n \in Nat /\ IsChain(c, n, Genesis) /\ r = c[e]
  BY <1>1, <1>2, WrittenIsAChain
<1>4. e # n
  BY <1>1, <1>3 DEF IsTip
<1>5. e + 1 \in 1 .. n /\ e + 1 # e /\ e + 1 # 1 /\ (e + 1) - 1 = e
  BY <1>3, <1>4
<1>6. PICK x : x = c[e + 1]
  OBVIOUS
<1>7. x \in auditRows /\ ~IsSentinel(x)
  BY <1>2, <1>5, <1>6 DEF Chained
<1>8. x.prevHash = c[e].rowHash
  BY <1>3, <1>5, <1>6 DEF IsChain
<1>9. x.prevHash # Genesis
  BY <1>3, <1>8 DEF IsChain
<1>10. \A u \in auditRows : ~IsSentinel(u) => \E i \in (1 .. n) \ {e} : u = c[i]
  BY <1>2 DEF Chained
<1>11. \A u \in auditRows : ~IsSentinel(u) => u.rowHash # x.prevHash
  BY <1>3, <1>8, <1>10 DEF IsChain
<1>12. \A u, v \in auditRows : ~IsSentinel(u) /\ ~IsSentinel(v) /\ u.rowHash = v.rowHash => u = v
  BY <1>3, <1>10 DEF IsChain
<1>13. PICK out : out = OrderByChainLinkage(Sorted(auditRows), Genesis)
  OBVIOUS
<1>14. PICK breaks : breaks = {i \in DOMAIN out : BreaksAt(out, i)}
  OBVIOUS
<1>15. breaks # {}
  BY <1>7, <1>9, <1>11, <1>12, <1>13, <1>14, MissingRowsBreak DEF TableInv
<1>16. VerifyChain(out).ok = FALSE
  BY <1>14, <1>15 DEF VerifyChain
<1>17. Fetch(Unasked, limit) = Sorted(auditRows)
  <2>1. Window(Unasked) = auditRows
    BY DEF Window
  <2> QED
    BY <2>1, FetchIsTheWindow DEF TableInv
<1>18. answer.ok = (VerifyChain(out).ok
                      \/ (Truncated(out, Unasked) /\ VerifyChain(out).firstBreakIndex = 1))
  BY <1>13, <1>17 DEF Respond
<1>19. ~Truncated(out, Unasked)
  BY DEF Truncated
<1>20. answer.ok = (FALSE \/ (Truncated(out, Unasked) /\ VerifyChain(out).firstBreakIndex = 1))
  BY <1>16, <1>18, Zenon
<1> QED
  BY <1>19, <1>20, Zenon

(***************************************************************************)
(* Rewriting the content of a recorded row is found by every scan of the   *)
(* whole table, at that very row, and deleting one that another row        *)
(* extends never goes unnoticed by it (route 298-329, audit-core 225-300): *)
(* whatever rows there are, in whatever order their timestamps and ids     *)
(* put them, with legacy rows among them or not.                           *)
(***************************************************************************)
THEOREM TamperingIsSeen == RouteSpec => []TamperingShows
<1>1. RouteInv => TamperingShows
  <2> SUFFICES ASSUME RouteInv, Complete
               PROVE  /\ \A r \in tampered : ~verdict.ok /\ verdict.rows[verdict.brokenAt] = r
                      /\ \A r \in deleted : r.rowHash # tip => ~verdict.ok
    BY DEF TamperingShows
  <2>1. PICK since \in {Unasked} \cup Nat, limit \in Nat : verdict = Respond(since, limit)
    BY DEF RouteInv, Complete
  <2>2. since = Unasked /\ limit >= Cardinality(auditRows)
    BY <2>1, ResponseCarries DEF Complete
  <2>3. TableInv
    BY DEF RouteInv
  <2>4. ASSUME NEW r \in tampered PROVE ~verdict.ok /\ verdict.rows[verdict.brokenAt] = r
    BY <2>1, <2>2, <2>3, RewrittenRowsShow
  <2>5. ASSUME NEW r \in deleted, r.rowHash # tip PROVE ~verdict.ok
    BY <2>1, <2>2, <2>3, <2>5, DeletedRowsShow
  <2> QED
    BY <2>4, <2>5
<1> QED
  BY <1>1, RouteIsInv, PTL

\* A scan of the whole of an intact table.
LEMMA WholeTableIsClean ==
  ASSUME TableInv, Intact, NEW limit \in Nat, limit >= Cardinality(auditRows),
         NEW answer, answer = Respond(Unasked, limit)
  PROVE  /\ answer.ok /\ ~answer.truncated
         /\ \A r \in Chained : IsTail(r) => answer.latestTs = r.body.occurredAt
<1>1. PICK c, n : Written(c, n) /\ TableIs(c, n)
  BY DEF TableInv
<1>2. /\ n \in Nat /\ IsChain(c, n, Genesis) /\ Chained = {c[i] : i \in 1 .. n}
      /\ \A i \in 1 .. n : Sealed(c[i]) /\ c[i].body.tenantId = Tenant
  BY <1>1, WrittenIsAChain, IntactTable
<1>3. {u \in Window(Unasked) : ~IsSentinel(u)} = {c[i] : i \in 1 .. n}
  BY <1>2 DEF Window, Chained
<1>4. PICK s : /\ Ordered(answer.rows, Window(Unasked), c, n, s)
               /\ answer.truncated <=> Unasked # Unasked /\ n # 0 /\ Genesis # Genesis
               /\ answer.ok <=> BreaksOf(c, n, Genesis, s) = {}
                                  \/ (answer.truncated /\ Min(BreaksOf(c, n, Genesis, s)) = 1)
               /\ s + n # 0 => answer.latestTs = answer.rows[s + n].body.occurredAt
  BY <1>2, <1>3, ResponseToAChain DEF TableInv
<1>5. s \in Nat
  BY <1>4 DEF Ordered
<1>6. BreaksOf(c, n, Genesis, s) = {}
  <2>1. \A i \in s + 1 .. s + n : i - s \in 1 .. n
    BY <1>2, <1>5
  <2> QED
    BY <1>2, <2>1 DEF BreaksOf
<1>7. ASSUME NEW r \in Chained, IsTail(r)
      PROVE  answer.latestTs = r.body.occurredAt
  <2>1. PICK i \in 1 .. n : r = c[i]
    BY <1>2
  <2>2. i = n
    <3> SUFFICES ASSUME i # n PROVE FALSE
      OBVIOUS
    <3>1. i + 1 \in 1 .. n /\ i + 1 # 1 /\ (i + 1) - 1 = i
      BY <1>2
    <3>2. c[i + 1].prevHash = r.rowHash
      BY <1>2, <2>1, <3>1 DEF IsChain
    <3>3. c[i + 1] \in auditRows
      BY <1>2, <3>1 DEF Chained
    <3> QED
      BY <1>7, <3>2, <3>3 DEF IsTail
  <2>3. s + n # 0 /\ answer.rows[s + n] = c[n]
    BY <1>4, <1>5, <2>2 DEF Ordered
  <2> QED
    BY <1>4, <2>1, <2>2, <2>3
<1> QED
  BY <1>4, <1>6, <1>7

\* A since bound cuts a chain stamped in order in two.
LEMMA WindowOfAChain ==
  ASSUME StampedInOrder, NEW c, NEW n, Written(c, n), Chained = {c[i] : i \in 1 .. n},
         NEW since \in {Unasked} \cup Nat
  PROVE  \E k \in 1 .. n + 1 :
            /\ {u \in Window(since) : ~IsSentinel(u)} = {c[i] : i \in k .. n}
            /\ k # 1 => since # Unasked /\ since \in Nat /\ since # 0
<1> DEFINE Inside(i) == since = Unasked \/ c[i].body.occurredAt >= since
           K == {i \in 1 .. n : Inside(i)}
<1>1. n \in Nat /\ IsChain(c, n, Genesis) /\ \A i \in 1 .. n : c[i].body.occurredAt \in Nat
  BY WrittenIsAChain DEF Written, IsWritten
<1>2. ASSUME NEW i \in 1 .. n, i + 1 \in 1 .. n, Inside(i) PROVE Inside(i + 1)
  <2>1. c[i + 1].prevHash = c[i].rowHash
    <3>1. i + 1 # 1 /\ (i + 1) - 1 = i
      OBVIOUS
    <3> QED
      BY <1>1, <1>2, <3>1 DEF IsChain
  <2>2. c[i].body.occurredAt <= c[i + 1].body.occurredAt
    BY <1>2, <2>1 DEF StampedInOrder
  <2> QED
    BY <1>1, <1>2, <2>2
<1>3. {u \in Window(since) : ~IsSentinel(u)} = {c[i] : i \in K}
  <2>1. {u \in Window(since) : ~IsSentinel(u)}
          = {u \in Chained : since = Unasked \/ u.body.occurredAt >= since}
    BY DEF Window, Chained
  <2> QED
    BY <2>1
<1>4. PICK k \in 1 .. n + 1 : K = k .. n
  <2>1. CASE K = {}
    <3>1. n + 1 \in 1 .. n + 1 /\ K = n + 1 .. n
      BY <1>1, <2>1
    <3> QED
      BY <3>1
  <2>2. CASE K # {}
    <3> HIDE DEF Inside
    <3>1. PICK m : m = Min(K)
      OBVIOUS
    <3>2. m \in K /\ \A i \in K : m <= i
      <4>1. K \in SUBSET Nat
        BY <1>1
      <4> QED
        BY <2>2, <3>1, <4>1, MinIsLeast
    <3> DEFINE G == {j \in Nat : m + j <= n => Inside(m + j)}
    <3>3. m \in Nat /\ 1 <= m /\ m <= n /\ Inside(m)
      BY <1>1, <3>2
    <3>4. 0 \in G
      BY <3>3
    <3>5. ASSUME NEW j \in Nat, j \in G PROVE j + 1 \in G
      <4> SUFFICES ASSUME m + (j + 1) <= n PROVE Inside(m + (j + 1))
        OBVIOUS
      <4>1. m + j \in 1 .. n /\ (m + j) + 1 \in 1 .. n /\ (m + j) + 1 = m + (j + 1)
            /\ m + j <= n
        BY <1>1, <3>3
      <4>2. Inside(m + j)
        BY <3>5, <4>1
      <4> QED
        BY <1>2, <4>1, <4>2
    <3>6. Nat \subseteq G
      <4> HIDE DEF G
      <4> QED
        BY <3>4, <3>5, Counting
    <3>7. \A i \in m .. n : i \in K
      <4> SUFFICES ASSUME NEW i \in m .. n PROVE i \in K
        OBVIOUS
      <4>1. i - m \in Nat /\ m + (i - m) = i /\ i \in 1 .. n
        BY <1>1, <3>3
      <4> QED
        BY <3>6, <4>1
    <3>8. \A i \in K : i \in m .. n
      BY <1>1, <3>2, <3>3
    <3>9. K = m .. n
      BY <3>7, <3>8
    <3>10. m \in 1 .. n + 1
      BY <1>1, <3>3
    <3> QED
      BY <3>9, <3>10
  <2> QED
    BY <2>1, <2>2
<1>5. ASSUME k # 1 PROVE since # Unasked /\ since \in Nat /\ since # 0
  <2>1. 1 \notin k .. n /\ 1 \in 1 .. n
    BY <1>1, <1>5
  <2>2. ~Inside(1)
    BY <1>4, <2>1
  <2> QED
    BY <1>1, <2>1, <2>2
<1>6. {u \in Window(since) : ~IsSentinel(u)} = {c[i] : i \in k .. n}
  BY <1>3, <1>4
<1> QED
  BY <1>5, <1>6

\* A windowed scan of an intact table whose rows were stamped in order: the only
\* break there can be is the cut, and it is taken for one.
LEMMA OrderedWindowIsClean ==
  ASSUME TableInv, Intact, StampedInOrder, NEW since \in {Unasked} \cup Nat,
         NEW limit \in Nat, limit >= Cardinality(auditRows),
         NEW answer, answer = Respond(since, limit)
  PROVE  answer.ok
<1>1. PICK c, n : Written(c, n) /\ TableIs(c, n)
  BY DEF TableInv
<1>2. /\ n \in Nat /\ Chained = {c[i] : i \in 1 .. n}
      /\ \A i \in 1 .. n : /\ Sealed(c[i]) /\ c[i].body.tenantId = Tenant
                           /\ c[i].prevHash = Genesis <=> i = 1
  BY <1>1, WrittenIsAChain, IntactTable
<1>3. PICK k \in 1 .. n + 1 :
         /\ {u \in Window(since) : ~IsSentinel(u)} = {c[i] : i \in k .. n}
         /\ k # 1 => since # Unasked /\ since \in Nat /\ since # 0
  BY <1>1, <1>2, WindowOfAChain
<1>4. PICK p \in Nat : k + p = n + 1
  <2>1. n + 1 - k \in Nat /\ k + (n + 1 - k) = n + 1
    BY <1>2
  <2> QED
    BY <2>1
<1>5. PICK d : \A j \in 1 .. p : d[j] = c[k + j - 1]
  <2> WITNESS [j \in 1 .. p |-> c[k + j - 1]]
  <2> QED
    OBVIOUS
<1>6. PICK h : h = IF k = 1 THEN Genesis ELSE c[k - 1].rowHash
  OBVIOUS
<1>7. /\ IsChain(d, p, h)
      /\ h = Genesis <=> k = 1
      /\ \A j \in 1 .. p : \E i \in k .. n : d[j] = c[i]
      /\ \A i \in k .. n : \E j \in 1 .. p : c[i] = d[j]
  <2>1. IsRest(d, p, h, c, n, k)
    BY <1>4, <1>5, <1>6 DEF IsRest
  <2> QED
    BY <1>1, <2>1, RestOfAChain
<1>8. \A j \in 1 .. p : d[j] = c[k + j - 1] /\ k + j - 1 \in 1 .. n
  BY <1>2, <1>4, <1>5
<1>9. \A j \in 1 .. p : Sealed(d[j]) /\ d[j].body.tenantId = Tenant
  BY <1>2, <1>8
<1>10. h # Genesis => \A j \in 1 .. p : d[j].prevHash # Genesis
  <2> SUFFICES ASSUME k # 1, NEW j \in 1 .. p PROVE d[j].prevHash # Genesis
    BY <1>7
  <2>1. k + j - 1 # 1
    OBVIOUS
  <2> QED
    BY <1>2, <1>8, <2>1
<1>11. PICK s : /\ Ordered(answer.rows, Window(since), d, p, s)
                /\ answer.truncated <=> since # Unasked /\ p # 0 /\ h # Genesis
                /\ answer.ok <=> BreaksOf(d, p, h, s) = {}
                                   \/ (answer.truncated /\ Min(BreaksOf(d, p, h, s)) = 1)
  <2>1. {u \in Window(since) : ~IsSentinel(u)} = {d[j] : j \in 1 .. p}
    BY <1>3, <1>7
  <2> QED
    BY <1>7, <1>9, <1>10, <2>1, ResponseToAChain DEF TableInv
<1>12. s \in Nat
  BY <1>11 DEF Ordered
<1>13. BreaksOf(d, p, h, s) = {i \in s + 1 .. s + p : i = s + 1 /\ h # Genesis}
  <2>1. \A i \in s + 1 .. s + p : i - s \in 1 .. p
    BY <1>7, <1>12
  <2> QED
    BY <1>9, <2>1 DEF BreaksOf
<1>14. CASE h = Genesis \/ p = 0
  <2>1. BreaksOf(d, p, h, s) = {}
    BY <1>12, <1>13, <1>14
  <2> QED
    BY <1>11, <2>1
<1>15. CASE h # Genesis /\ p # 0
  <2>1. since # Unasked /\ since \in Nat /\ since # 0
    BY <1>3, <1>7, <1>15
  <2>2. \A r \in Window(since) : ~IsSentinel(r)
    <3> SUFFICES ASSUME NEW r \in auditRows, r.body.occurredAt >= since, IsSentinel(r)
                 PROVE  FALSE
      BY <2>1 DEF Window
    <3>1. r.body.occurredAt = 0
      BY DEF TableInv
    <3> QED
      BY <2>1, <3>1
  <2>3. s = 0
    BY <1>11, <2>2 DEF Ordered
  <2>4. BreaksOf(d, p, h, s) = {1}
    BY <1>7, <1>13, <1>15, <2>3
  <2>5. Min({1}) = 1
    BY MinIsLeast
  <2> QED
    BY <1>11, <1>15, <2>1, <2>4, <2>5
<1> QED
  BY <1>14, <1>15

(***************************************************************************)
(* Nobody is alarmed by an intact table, however many rows share a         *)
(* millisecond and however the servers' clocks disagree: a scan of the     *)
(* whole of it passes and reports the chain's tail, and a window of it     *)
(* passes when the rows were stamped in the order in which they extend one *)
(* another (route 298-329, audit-core 207-300).                            *)
(***************************************************************************)
THEOREM IntactIsClean == RouteSpec => []IntactTablesAreClean
<1>1. RouteInv => IntactTablesAreClean
  <2> SUFFICES ASSUME RouteInv, verdict # Unasked, Intact,
                      verdict.limit >= Cardinality(auditRows)
               PROVE  /\ verdict.since = Unasked =>
                           /\ verdict.ok /\ ~verdict.truncated
                           /\ \A r \in Chained : IsTail(r) =>
                                                    verdict.latestTs = r.body.occurredAt
                      /\ StampedInOrder => verdict.ok
    BY DEF IntactTablesAreClean
  <2>1. PICK since \in {Unasked} \cup Nat, limit \in Nat : verdict = Respond(since, limit)
    BY DEF RouteInv
  <2>2. verdict.since = since /\ limit >= Cardinality(auditRows) /\ TableInv
    BY <2>1, ResponseCarries DEF RouteInv
  <2>3. ASSUME verdict.since = Unasked
        PROVE  /\ verdict.ok /\ ~verdict.truncated
               /\ \A r \in Chained : IsTail(r) => verdict.latestTs = r.body.occurredAt
    BY <2>1, <2>2, <2>3, WholeTableIsClean
  <2>4. ASSUME StampedInOrder PROVE verdict.ok
    BY <2>1, <2>2, <2>4, OrderedWindowIsClean
  <2> QED
    BY <2>3, <2>4
<1> QED
  BY <1>1, RouteIsInv, PTL

=============================================================================
