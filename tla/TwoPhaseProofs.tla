--------------------------- MODULE TwoPhaseProofs ---------------------------
(***************************************************************************)
(* The two-phase tools over any number of sessions, owners, properties,    *)
(* councils and tokens: they drive the token store as CommitTokens says,   *)
(* never register two councils under one code, change no contact field     *)
(* that was not previewed, and leave a trail that counts every note.       *)
(***************************************************************************)
EXTENDS TwoPhase, TLAPS

StoreProofs == INSTANCE CommitTokensProofs WITH
            Mutations <- PendingMutations,
            Operations <- CommitOperations

LEMMA MutationsOfTheStore ==
  /\ \A o \in Owners : ContactOf(o) \subseteq PendingMutations
  /\ NoteMutations \subseteq PendingMutations
  /\ CouncilMutations \subseteq PendingMutations
  BY DEF PendingMutations, ContactMutations

\* Every action of the tools is an action of the store, or leaves it alone.
LEMMA StepIsStoreStep ==
  ASSUME [Next]_vars PROVE [Store!Next]_(Store!vars)
<1> DEFINE StoreStep == [Store!Next]_(Store!vars)
<1>1. CASE Tick
  BY <1>1 DEF Tick, Store!Next
<1>2. ASSUME NEW o \in Owners, EraseOwner(o)
      PROVE  StoreStep
  BY <1>2 DEF EraseOwner, storeVars, Store!vars
<1>3. ASSUME NEW p \in Principals, NEW o \in Owners, NEW m \in ContactOf(o),
             UpdateOwnerContactPreview(p, o, m.newPhone, m.newEmail)
      PROVE  StoreStep
  <2> DEFINE phone == IF m.newPhone = owners[o].phone THEN None ELSE m.newPhone
             email == IF m.newEmail = owners[o].email THEN None ELSE m.newEmail
             mut == [operation |-> "update_owner_contact", ownerId |-> o,
                     newPhone |-> phone, newEmail |-> email]
  <2>1. PICK tok \in Tokens : Store!Issue(tok, mut, p)
    BY <1>3 DEF UpdateOwnerContactPreview
  <2>2. phone # None \/ email # None
    BY <1>3 DEF UpdateOwnerContactPreview
  <2>3. phone \in Contacts \cup {None} /\ email \in Contacts \cup {None}
    BY DEF ContactOf
  <2>4. mut \in ContactOf(o)
    BY <2>2, <2>3 DEF ContactOf
  <2> HIDE DEF mut
  <2> QED
    BY <2>1, <2>4, MutationsOfTheStore DEF Store!Next
<1>4. ASSUME NEW p \in Principals, NEW o \in Owners, NEW tok \in Tokens,
             UpdateOwnerContactConfirm(p, o, tok)
      PROVE  StoreStep
  BY <1>4 DEF UpdateOwnerContactConfirm, Store!Next, CommitOperations
<1>5. ASSUME NEW p \in Principals, NEW a \in Properties, NEW note \in Notes,
             AddPropertyNotePreview(p, a, note)
      PROVE  StoreStep
  <2> DEFINE mut == [operation |-> "add_property_note", assessmentNumber |-> a,
                     note |-> note]
  <2>1. PICK tok \in Tokens : Store!Issue(tok, mut, p)
    BY <1>5 DEF AddPropertyNotePreview
  <2>2. mut \in NoteMutations
    BY DEF NoteMutations
  <2> HIDE DEF mut
  <2> QED
    BY <2>1, <2>2, MutationsOfTheStore DEF Store!Next
<1>6. ASSUME NEW p \in Principals, NEW a \in Properties, NEW tok \in Tokens,
             AddPropertyNoteConfirm(p, a, tok)
      PROVE  StoreStep
  BY <1>6 DEF AddPropertyNoteConfirm, Store!Next, CommitOperations
<1>7. ASSUME NEW p \in Principals, NEW m \in CouncilMutations, AddCouncilPreview(p, m)
      PROVE  StoreStep
  BY <1>7, MutationsOfTheStore DEF AddCouncilPreview, Store!Next
<1>8. ASSUME NEW p \in Principals, NEW code \in CouncilCodes, NEW tok \in Tokens,
             AddCouncilConfirm(p, code, tok)
      PROVE  StoreStep
  BY <1>8 DEF AddCouncilConfirm, Store!Next, CommitOperations
<1>9. ASSUME NEW file, NEW strategy, ImportRatingRoll(file, strategy)
      PROVE  StoreStep
  BY <1>9 DEF ImportRatingRoll, storeVars, Store!vars
<1>10. ASSUME NEW a, NEW children, MaterialiseChildren(a, children)
       PROVE  StoreStep
  BY <1>10 DEF MaterialiseChildren, storeVars, Store!vars
<1>11. CASE UNCHANGED vars
  BY <1>11 DEF vars, storeVars, Store!vars
<1> QED
  BY <1>1, <1>2, <1>3, <1>4, <1>5, <1>6, <1>7, <1>8, <1>9, <1>10, <1>11 DEF Next

(***************************************************************************)
(* The handlers refine the token store: whatever they do to it, they do    *)
(* by issue and consume, with the session's own principal.                 *)
(***************************************************************************)
THEOREM HandlersUseTheStore == Spec => UsesTokenStore
<1>1. Init => Store!Init
  BY DEF Init
<1> QED
  BY <1>1, StepIsStoreStep, PTL DEF Spec, UsesTokenStore, Store!Spec

-----------------------------------------------------------------------------
RegistryInv ==
    /\ councils \in Seq([code : CouncilCodes, name : CouncilNames])
    /\ OneCouncilPerCode

\* Appending a council whose code is free keeps the codes apart.
LEMMA RegisterKeepsCodesApart ==
  ASSUME RegistryInv, NEW c \in [code : CouncilCodes, name : CouncilNames],
         \A i \in DOMAIN councils : councils[i].code # c.code,
         councils' = Append(councils, c)
  PROVE  RegistryInv'
  BY DEF RegistryInv, OneCouncilPerCode

LEMMA StepKeepsRegistry ==
  ASSUME RegistryInv, StoreProofs!IInv, [Next]_vars PROVE RegistryInv'
<1> USE DEF dataVars
<1>1. CASE UNCHANGED councils
  BY <1>1 DEF RegistryInv, OneCouncilPerCode
<1>2. ASSUME NEW p \in Principals, NEW code \in CouncilCodes, NEW tok \in Tokens,
             AddCouncilConfirm(p, code, tok)
      PROVE  RegistryInv'
  <2> DEFINE m == entries[tok].mutation
  <2>1. CASE UNCHANGED councils
    BY <2>1, <1>1
  <2>2. CASE ~UNCHANGED councils
    <3>1. /\ Store!Verdict(tok, "add_council", p) = "ok"
          /\ m.code = code /\ ~HasCouncil(m)
          /\ councils' = Append(councils, [code |-> m.code, name |-> m.name])
      BY <1>2, <2>2 DEF AddCouncilConfirm
    <3>2. entries[tok] # None /\ m.operation = "add_council"
      BY <3>1 DEF Store!Verdict
    <3>3. m \in PendingMutations
      BY <3>2 DEF StoreProofs!IInv, StoreProofs!TypeOK, StoreProofs!Entry
    <3>4. m \in CouncilMutations
      BY <3>2, <3>3 DEF PendingMutations, ContactMutations, ContactOf,
                        NoteMutations
    <3>5. [code |-> m.code, name |-> m.name] \in [code : CouncilCodes, name : CouncilNames]
      BY <3>4 DEF CouncilMutations
    <3> QED
      BY <3>1, <3>5, RegisterKeepsCodesApart DEF HasCouncil
  <2> QED
    BY <2>1, <2>2
<1> QED
  BY <1>1, <1>2 DEF Next, vars, Tick, EraseOwner, UpdateOwnerContactPreview,
     UpdateOwnerContactConfirm, AddPropertyNotePreview, AddPropertyNoteConfirm,
     AddCouncilPreview, ImportRatingRoll, MaterialiseChildren

LEMMA StoreAssumption ==
  /\ \A m \in PendingMutations : m.operation \in CommitOperations
  /\ TtlMs \in Nat \ {0}
  /\ MaxTime \in Nat
  /\ None \notin Store!Entry
  /\ None \notin Store!Preview
<1>1. \A m \in PendingMutations : m.operation \in CommitOperations
  BY DEF PendingMutations, ContactMutations, ContactOf, NoteMutations,
         CouncilMutations, CommitOperations
<1> QED
  BY <1>1, TwoPhaseAssumption

LEMMA StoreInvariant == Spec => []StoreProofs!IInv
<1>1. Spec => StoreProofs!Spec
  <2>1. Init => StoreProofs!Init
    BY DEF Init, Store!Init, StoreProofs!Init
  <2>2. [Next]_vars => [StoreProofs!Next]_(StoreProofs!vars)
    BY StepIsStoreStep DEF Store!Next, Store!vars, StoreProofs!Next, StoreProofs!vars,
       Store!Tick, StoreProofs!Tick, Store!Issue, StoreProofs!Issue, Store!Consume,
       StoreProofs!Consume, Store!Gc, StoreProofs!Gc, Store!Verdict, StoreProofs!Verdict,
       Store!Remaining, StoreProofs!Remaining, Store!Without, StoreProofs!Without,
       Store!Expired, StoreProofs!Expired
  <2> QED
    BY <2>1, <2>2, PTL DEF Spec, StoreProofs!Spec
<1>2. StoreProofs!Spec => []StoreProofs!IInv
  BY StoreProofs!Inductive, StoreAssumption DEF StoreProofs!TokenAssumption,
     Store!Entry, Store!Preview, StoreProofs!Entry, StoreProofs!Preview
<1> QED
  BY <1>1, <1>2, PTL

(***************************************************************************)
(* No two councils are ever registered under one code, however many        *)
(* previews of it are outstanding: the re-check after consume decides.     *)
(***************************************************************************)
THEOREM OneCouncilEver == Spec => []OneCouncilPerCode
<1>1. Init => RegistryInv
  BY DEF Init, RegistryInv, OneCouncilPerCode
<1>2. RegistryInv /\ StoreProofs!IInv /\ [Next]_vars => RegistryInv'
  BY StepKeepsRegistry
<1>3. RegistryInv => OneCouncilPerCode
  BY DEF RegistryInv
<1> QED
  BY <1>1, <1>2, <1>3, StoreInvariant, PTL DEF Spec

(***************************************************************************)
(* What the store guarantees, the tools inherit: no token commits twice,   *)
(* and only what its own session previewed.                                *)
(***************************************************************************)
THEOREM ToolsCommitAsPreviewed ==
  Spec => [](StoreProofs!SingleUse /\ StoreProofs!CommitsOnlyAsPreviewed)
<1>1. StoreProofs!IInv => StoreProofs!SingleUse /\ StoreProofs!CommitsOnlyAsPreviewed
  BY DEF StoreProofs!IInv
<1> QED
  BY <1>1, StoreInvariant, PTL
-----------------------------------------------------------------------------
Pii == Contacts \cup {Seed, None}
OwnersInv == owners \in [Owners -> [name : Pii, phone : Pii, email : Pii]]

\* What one step may do to one owner.
AsPreviewed(x) ==
    \/ owners'[x] = Tombstone
    \/ /\ owners'[x].name = owners[x].name
       /\ owners'[x].phone # owners[x].phone =>
             \E m \in CommittedNow(x) : m.newPhone = owners'[x].phone /\ m.newPhone # None
       /\ owners'[x].email # owners[x].email =>
             \E m \in CommittedNow(x) : m.newEmail = owners'[x].email /\ m.newEmail # None

\* An ok of consume is a use of a mutation for that operation, on no record yet.
LEMMA OkIsANewUse ==
  ASSUME StoreProofs!IInv, NEW p \in Principals, NEW tok \in Tokens,
         NEW operation \in CommitOperations,
         Store!Consume(tok, operation, p), Store!Verdict(tok, operation, p) = "ok"
  PROVE  /\ entries[tok].mutation \in PendingMutations
         /\ entries[tok].mutation.operation = operation
         /\ \E u \in uses' \ uses : u.mutation = entries[tok].mutation
<1> DEFINE m == entries[tok].mutation
           u == [token |-> tok, mutation |-> m, at |-> now, by |-> p]
<1>1. entries[tok] # None /\ m.operation = operation
  BY DEF Store!Verdict
<1>2. m \in PendingMutations
  BY <1>1 DEF StoreProofs!IInv, StoreProofs!TypeOK, StoreProofs!Entry
<1>3. uses' = uses \cup {u}
  BY DEF Store!Consume
<1>4. u \notin uses
  BY <1>1 DEF StoreProofs!IInv, StoreProofs!EntriesArePreviews, StoreProofs!Used
<1> QED
  BY <1>1, <1>2, <1>3, <1>4

LEMMA ConfirmIsAsPreviewed ==
  ASSUME StoreProofs!IInv, OwnersInv, NEW p \in Principals, NEW o \in Owners,
         NEW tok \in Tokens, UpdateOwnerContactConfirm(p, o, tok)
  PROVE  OwnersInv' /\ \A x \in Owners : AsPreviewed(x)
<1> DEFINE m == entries[tok].mutation
<1>1. CASE UNCHANGED owners
  BY <1>1 DEF OwnersInv, AsPreviewed
<1>2. CASE ~UNCHANGED owners
  <2>1. /\ Store!Consume(tok, "update_owner_contact", p)
        /\ Store!Verdict(tok, "update_owner_contact", p) = "ok"
        /\ m.ownerId = o
        /\ owners' = [owners EXCEPT ![o] = Merged(owners[o], m)]
    BY <1>2 DEF UpdateOwnerContactConfirm, dataVars
  <2>2. /\ m \in PendingMutations
        /\ m.operation = "update_owner_contact"
        /\ \E u \in uses' \ uses : u.mutation = m
    BY <2>1, OkIsANewUse DEF CommitOperations
  <2>3. m \in ContactOf(o)
    BY <2>1, <2>2 DEF PendingMutations, ContactMutations, ContactOf, NoteMutations,
                      CouncilMutations
  <2>4. m \in CommittedNow(o)
    BY <2>2, <2>3 DEF CommittedNow
  <2>5. m.newPhone \in Contacts \cup {None} /\ m.newEmail \in Contacts \cup {None}
    BY <2>3 DEF ContactOf
  <2>6. owners[o] \in [name : Pii, phone : Pii, email : Pii]
    BY DEF OwnersInv
  <2> DEFINE c == owners[o]  merged == Merged(c, m)
  <2>7. /\ merged.name = c.name
        /\ merged.phone # c.phone => merged.phone = m.newPhone /\ m.newPhone # None
        /\ merged.email # c.email => merged.email = m.newEmail /\ m.newEmail # None
        /\ merged \in [name : Pii, phone : Pii, email : Pii]
    <3>1. Pii = Contacts \cup {Seed, None}
      BY DEF Pii
    <3>2. CASE m.newPhone = None
      BY <2>5, <2>6, <3>1, <3>2 DEF Merged
    <3>3. CASE m.newPhone # None
      BY <2>5, <2>6, <3>1, <3>3 DEF Merged
    <3> QED
      BY <3>2, <3>3
  <2> HIDE DEF merged
  <2>8. OwnersInv'
    BY <2>1, <2>7 DEF OwnersInv, merged
  <2>9. AsPreviewed(o)
    BY <2>1, <2>4, <2>7 DEF AsPreviewed, OwnersInv, merged
  <2>10. ASSUME NEW x \in Owners, x # o PROVE AsPreviewed(x)
    BY <2>1, <2>10 DEF AsPreviewed, OwnersInv
  <2> QED
    BY <2>8, <2>9, <2>10
<1> QED
  BY <1>1, <1>2

LEMMA StepIsAsPreviewed ==
  ASSUME StoreProofs!IInv, OwnersInv, [Next]_vars
  PROVE  OwnersInv' /\ \A x \in Owners : AsPreviewed(x)
<1> USE DEF dataVars
<1>1. CASE UNCHANGED owners
  BY <1>1 DEF OwnersInv, AsPreviewed
<1>2. ASSUME NEW o \in Owners, EraseOwner(o)
      PROVE  OwnersInv' /\ \A x \in Owners : AsPreviewed(x)
  <2>1. owners' = [owners EXCEPT ![o] = Tombstone]
    BY <1>2 DEF EraseOwner
  <2>2. Tombstone \in [name : Pii, phone : Pii, email : Pii]
    BY DEF Tombstone, Pii
  <2> QED
    BY <2>1, <2>2 DEF OwnersInv, AsPreviewed
<1>3. ASSUME NEW p \in Principals, NEW o \in Owners, NEW tok \in Tokens,
             UpdateOwnerContactConfirm(p, o, tok)
      PROVE  OwnersInv' /\ \A x \in Owners : AsPreviewed(x)
  BY <1>3, ConfirmIsAsPreviewed
<1> QED
  BY <1>1, <1>2, <1>3 DEF Next, vars, Tick, UpdateOwnerContactPreview,
     AddPropertyNotePreview, AddPropertyNoteConfirm, AddCouncilPreview, AddCouncilConfirm,
     ImportRatingRoll, MaterialiseChildren

(***************************************************************************)
(* A phone or an email only ever becomes null by the erasure of its owner, *)
(* or the value previewed for that field under the token spent in the same *)
(* step: however many previews are outstanding, a confirm writes no field  *)
(* that its own preview did not name.                                      *)
(***************************************************************************)
THEOREM FieldsAreAsPreviewed == Spec => FieldsChangeOnlyAsPreviewed
<1>1. Init => OwnersInv
  BY DEF Init, OwnersInv, Seeded, Pii
<1>2. OwnersInv /\ StoreProofs!IInv /\ [Next]_vars => OwnersInv'
  BY StepIsAsPreviewed
<1>3. OwnersInv /\ StoreProofs!IInv /\ [Next]_vars
        => [\A x \in Owners : AsPreviewed(x)]_vars
  BY StepIsAsPreviewed
<1>4. (\A x \in Owners : AsPreviewed(x)) <=>
        \A o \in Owners :
          \/ owners'[o] = Tombstone
          \/ /\ owners'[o].name = owners[o].name
             /\ owners'[o].phone # owners[o].phone =>
                   \E m \in CommittedNow(o) : m.newPhone = owners'[o].phone /\ m.newPhone # None
             /\ owners'[o].email # owners[o].email =>
                   \E m \in CommittedNow(o) : m.newEmail = owners'[o].email /\ m.newEmail # None
  BY DEF AsPreviewed
<1> QED
  BY <1>1, <1>2, <1>3, <1>4, StoreInvariant, PTL DEF Spec, FieldsChangeOnlyAsPreviewed

-----------------------------------------------------------------------------
NotesOf == Seq(Notes \cup {ChildNote})
NotesInv ==
    /\ DOMAIN notes \subseteq Properties /\ twice \subseteq DOMAIN notes
    /\ \A a \in DOMAIN notes : notes[a] \in NotesOf
    /\ \E S : audit \in Seq(S)
    /\ NoteTrailJoinsUp

\* What the trail owes to one property.
Accounted(a) ==
    /\ \A i \in NoteRows(a) : /\ Told(a, i, audit[i].before)
                              /\ audit[i].after = audit[i].before + 1
    /\ OnRoll(a) => Told(a, Len(audit) + 1, Len(notes[a]))

\* The rows of a trail that has grown are those it had, and perhaps the last.
GrownBy(row) ==
    /\ Len(audit) \in Nat /\ Len(audit') = Len(audit) + 1
    /\ DOMAIN audit = 1 .. Len(audit) /\ DOMAIN audit' = 1 .. Len(audit) + 1
    /\ audit'[Len(audit) + 1] = row
    /\ \A i \in 1 .. Len(audit) : audit'[i] = audit[i]

\* A new row goes to the end of the trail, and no earlier one moves.
LEMMA RowIsLast ==
  ASSUME NEW S, audit \in Seq(S), NEW row, audit' = Append(audit, row)
  PROVE  GrownBy(row) /\ \E T : audit' \in Seq(T)
<1>1. audit \in Seq(S \cup {row}) /\ row \in S \cup {row}
  OBVIOUS
<1>2. audit' \in Seq(S \cup {row})
  BY <1>1
<1> QED
  BY <1>2 DEF GrownBy

\* What the rows before a place tell does not depend on those after it.
LEMMA EarlierRowsTellTheSame ==
  ASSUME NEW row, GrownBy(row), NEW a, NEW n \in 1 .. Len(audit) + 1, NEW count,
         Told(a, n, count)
  PROVE  Told(a, n, count)'
<1>1. /\ \A j \in 1 .. Len(audit) : j \in Writes(a)' <=> j \in Writes(a)
      /\ \A j \in 1 .. Len(audit) : LeftBy(j)' = LeftBy(j)
  BY DEF GrownBy, Writes, NoteRows, RecordRows, RollRows, LeftBy
<1>2. Writes(a) \subseteq 1 .. Len(audit) /\ Writes(a)' \subseteq 1 .. Len(audit) + 1
  BY DEF GrownBy, Writes, NoteRows, RecordRows, RollRows
<1>3. Len(audit) \in Nat
  BY DEF GrownBy
<1>4. ASSUME NEW j \in Writes(a)', j < n, \A k \in Writes(a)' : k <= j \/ k >= n
      PROVE  count = LeftBy(j)'
  <2>1. j \in Writes(a) /\ LeftBy(j)' = LeftBy(j)
    BY <1>1, <1>2, <1>3, <1>4
  <2>2. \A k \in Writes(a) : k <= j \/ k >= n
    BY <1>1, <1>2, <1>4
  <2> QED
    BY <1>4, <2>1, <2>2 DEF Told
<1>5. ASSUME \A j \in Writes(a)' : j >= n
      PROVE  a \in DOMAIN SeedNotes /\ count = Len(SeedNotes[a])
  <2>1. \A j \in Writes(a) : j >= n
    BY <1>1, <1>2, <1>5
  <2> QED
    BY <2>1 DEF Told
<1> QED
  BY <1>4, <1>5 DEF Told

\* The rows of notes stay accounted for, whatever is appended.
LEMMA EarlierNotesStand ==
  ASSUME NEW row, GrownBy(row), NEW a, Accounted(a),
         NEW i \in NoteRows(a)', i # Len(audit) + 1
  PROVE  Told(a, i, audit[i].before)' /\ audit'[i].after = audit'[i].before + 1
<1>1. i \in NoteRows(a) /\ i \in 1 .. Len(audit) /\ audit'[i] = audit[i]
  BY DEF NoteRows, GrownBy
<1>2. Told(a, i, audit[i].before) /\ audit[i].after = audit[i].before + 1
  BY <1>1 DEF Accounted
<1>3. i \in 1 .. Len(audit) + 1
  BY <1>1 DEF GrownBy
<1>4. PICK count : count = audit[i].before
  OBVIOUS
<1>5. Told(a, i, count)
  BY <1>2, <1>4
<1>6. Told(a, i, count)'
  BY <1>3, <1>5, EarlierRowsTellTheSame
<1> QED
  BY <1>1, <1>2, <1>4, <1>6 DEF Told

\* A row that writes nothing of a property leaves its account as it was.
LEMMA OtherRowKeepsAccount ==
  ASSUME NEW row, GrownBy(row), NEW a, Accounted(a),
         row.action # "add_property_note" \/ row.target # a,
         row.action \notin RollActions \/ a \notin row.made,
         OnRoll(a)' => OnRoll(a) /\ notes'[a] = notes[a]
  PROVE  Accounted(a)'
<1>1. Len(audit) + 1 \notin NoteRows(a)' /\ Len(audit) + 1 \notin Writes(a)'
  BY DEF GrownBy, NoteRows, RecordRows, RollRows, Writes
<1>2. \A i \in NoteRows(a)' : Told(a, i, audit[i].before)'
                              /\ audit'[i].after = audit'[i].before + 1
  BY <1>1, EarlierNotesStand
<1>3. ASSUME OnRoll(a)' PROVE Told(a, Len(audit) + 1, Len(notes[a]))'
  <2>1. PICK n \in 1 .. Len(audit) + 1 : n = Len(audit) + 1
    BY DEF GrownBy
  <2>2. PICK count : count = Len(notes[a])
    OBVIOUS
  <2>3. Told(a, n, count)
    BY <1>3, <2>1, <2>2 DEF Accounted
  <2>4. Told(a, n, count)'
    BY <2>1, <2>3, EarlierRowsTellTheSame
  <2>5. /\ n \in Nat /\ Len(audit') + 1 = n + 1
        /\ \A j \in Writes(a)' : j \in Nat /\ j < n
    BY <1>1, <2>1 DEF GrownBy, Writes, NoteRows, RecordRows, RollRows
  <2>6. Len(notes'[a]) = count
    BY <1>3, <2>2
  <2> QED
    BY <2>4, <2>5, <2>6 DEF Told
<1> QED
  BY <1>2, <1>3 DEF Accounted

\* A note's row may be any that goes on from the notes there were, and what it
\* leaves on the property is what is on file then.
NoteRow(a, row) ==
    /\ row.action = "add_property_note" /\ row.target = a
    /\ row.before = Len(notes[a]) /\ row.after = Len(notes[a]) + 1

\* A new record has the notes its row says.
RecordRow(a, row) ==
    /\ row.action \in RollActions /\ a \in row.made
    /\ Len(notes'[a]) = IF row.action = "write.import_rating_roll" THEN 0 ELSE 1

\* The last row tells how many notes the property it writes has now.
LEMMA LastRowTells ==
  ASSUME NEW row, GrownBy(row), NEW a,
         (NoteRow(a, row) /\ Len(notes'[a]) = row.after) \/ RecordRow(a, row)
  PROVE  Told(a, Len(audit) + 1, Len(notes[a]))'
<1>1. PICK m : m = Len(audit) + 1
  OBVIOUS
<1>2. m \in Nat /\ Len(audit') = m /\ m \in DOMAIN audit' /\ audit'[m] = row
  BY <1>1 DEF GrownBy
<1>3. m \in Writes(a)'
  BY <1>2 DEF Writes, NoteRows, RecordRows, RollRows, NoteRow, RecordRow
<1>4. Len(notes'[a]) = LeftBy(m)'
  BY <1>2 DEF LeftBy, NoteRow, RecordRow, RollActions
<1>5. Writes(a)' \subseteq 1 .. m
  BY <1>1 DEF GrownBy, Writes, NoteRows, RecordRows, RollRows
<1>6. ASSUME NEW j \in Writes(a)', \A k \in Writes(a)' : k <= j \/ k >= m + 1
      PROVE  j = m
  BY <1>2, <1>3, <1>5, <1>6
<1>7. ~ \A j \in Writes(a)' : j >= m + 1
  BY <1>2, <1>3
<1> QED
  BY <1>2, <1>4, <1>6, <1>7 DEF Told

\* A note and its row: the row counts from the notes there were.
LEMMA NoteKeepsAccount ==
  ASSUME NEW row, GrownBy(row), NEW a, Accounted(a), OnRoll(a), NoteRow(a, row),
         Len(notes'[a]) = row.after, row.after = row.before + 1
  PROVE  Accounted(a)'
<1>1. PICK n \in 1 .. Len(audit) + 1 : n = Len(audit) + 1
  BY DEF GrownBy
<1>2. PICK count : count = Len(notes[a])
  OBVIOUS
<1>3. Told(a, n, count)
  BY <1>1, <1>2 DEF Accounted
<1>4. Told(a, n, count)'
  BY <1>1, <1>3, EarlierRowsTellTheSame
<1>5. audit'[n].before = count /\ audit'[n].after = audit'[n].before + 1
  BY <1>1, <1>2 DEF GrownBy, NoteRow
<1>6. Told(a, n, audit[n].before)'
  BY <1>4, <1>5 DEF Told
<1>7. ASSUME NEW i \in NoteRows(a)'
      PROVE  Told(a, i, audit[i].before)' /\ audit'[i].after = audit'[i].before + 1
  <2>1. CASE i = n
    BY <2>1, <1>5, <1>6
  <2>2. CASE i # n
    BY <2>2, <1>1, <1>7, EarlierNotesStand
  <2> QED
    BY <2>1, <2>2
<1>8. Told(a, Len(audit) + 1, Len(notes[a]))'
  BY LastRowTells
<1> QED
  BY <1>7, <1>8 DEF Accounted

\* A new record and its row: no note is counted from before it.
LEMMA RecordKeepsAccount ==
  ASSUME NEW row, GrownBy(row), NEW a, Accounted(a), RecordRow(a, row)
  PROVE  Accounted(a)'
<1>1. Len(audit) + 1 \notin NoteRows(a)'
  BY DEF GrownBy, NoteRows, RecordRow, RollActions
<1>2. \A i \in NoteRows(a)' : Told(a, i, audit[i].before)'
                              /\ audit'[i].after = audit'[i].before + 1
  BY <1>1, EarlierNotesStand
<1>3. Told(a, Len(audit) + 1, Len(notes[a]))'
  BY LastRowTells
<1> QED
  BY <1>2, <1>3 DEF Accounted

LEMMA ConfirmKeepsNotes ==
  ASSUME NotesInv, StoreProofs!IInv, NEW p \in Principals, NEW a \in Properties,
         NEW tok \in Tokens, AddPropertyNoteConfirm(p, a, tok), ~UNCHANGED dataVars
  PROVE  NotesInv'
<1> DEFINE m == entries[tok].mutation
           row == [action |-> "add_property_note", target |-> a,
                   before |-> NoteCount(a), after |-> Len(notes[a]) + 1]
<1>1. /\ Store!Consume(tok, "add_property_note", p)
      /\ Store!Verdict(tok, "add_property_note", p) = "ok"
      /\ notes' = [notes EXCEPT ![a] = Append(@, m.note)]
      /\ audit' = Append(audit, row)
      /\ OnRoll(a)
  BY DEF AddPropertyNoteConfirm
<1>2. m \in PendingMutations /\ m.operation = "add_property_note"
  BY <1>1, OkIsANewUse DEF CommitOperations
<1>3. m.note \in Notes
  BY <1>2 DEF PendingMutations, ContactMutations, ContactOf, NoteMutations, CouncilMutations
<1>4. NoteRow(a, row) /\ row.after = row.before + 1 /\ row.action \notin RollActions
  BY DEF NoteCount, NoteRow, RollActions
<1>5. GrownBy(row) /\ \E T : audit' \in Seq(T)
  BY <1>1, RowIsLast DEF NotesInv
<1>6. notes[a] \in NotesOf
  BY <1>1 DEF NotesInv, OnRoll
<1>7. Append(notes[a], m.note) \in NotesOf /\ Len(Append(notes[a], m.note)) = row.after
  BY <1>3, <1>6 DEF NotesOf
<1> HIDE DEF m, row
<1>8. /\ DOMAIN notes' = DOMAIN notes
      /\ notes'[a] = Append(notes[a], m.note)
      /\ \A x \in DOMAIN notes \ {a} : notes'[x] = notes[x]
  BY <1>1 DEF OnRoll
<1>9. ASSUME NEW x \in Properties PROVE Accounted(x)'
  <2>1. Accounted(x)
    BY DEF NotesInv, NoteTrailJoinsUp, Accounted
  <2>2. CASE x = a
    BY <2>1, <2>2, <1>1, <1>4, <1>5, <1>7, <1>8, NoteKeepsAccount
  <2>3. CASE x # a
    <3>1. OnRoll(x)' => OnRoll(x) /\ notes'[x] = notes[x]
      BY <2>3, <1>8 DEF OnRoll
    <3> QED
      BY <2>1, <2>3, <3>1, <1>4, <1>5, OtherRowKeepsAccount DEF NoteRow
  <2> QED
    BY <2>2, <2>3
<1>10. \A x \in DOMAIN notes' : notes'[x] \in NotesOf
  BY <1>7, <1>8 DEF NotesInv
<1>11. twice' = twice
  BY DEF AddPropertyNoteConfirm
<1> QED
  BY <1>5, <1>8, <1>9, <1>10, <1>11 DEF NotesInv, NoteTrailJoinsUp, Accounted

\* A commit to the roll gives what it made new records, and may take others off.
LEMMA RollWriteKeepsNotes ==
  ASSUME NotesInv, NEW row, row.action \in RollActions, audit' = Append(audit, row),
         row.made \subseteq Properties, DOMAIN notes' \subseteq DOMAIN notes \cup row.made,
         \A x \in row.made : notes'[x] \in NotesOf /\ RecordRow(x, row),
         \A x \in DOMAIN notes' \ row.made : notes'[x] = notes[x],
         twice' \subseteq DOMAIN notes'
  PROVE  NotesInv'
<1>1. GrownBy(row) /\ \E T : audit' \in Seq(T)
  BY RowIsLast DEF NotesInv
<1>2. row.action # "add_property_note"
  BY DEF RollActions
<1>3. ASSUME NEW x \in Properties PROVE Accounted(x)'
  <2>1. Accounted(x)
    BY DEF NotesInv, NoteTrailJoinsUp, Accounted
  <2>2. CASE x \in row.made
    BY <2>1, <2>2, <1>1, RecordKeepsAccount
  <2>3. CASE x \notin row.made
    <3>1. OnRoll(x)' => OnRoll(x) /\ notes'[x] = notes[x]
      BY <2>3 DEF OnRoll
    <3> QED
      BY <2>1, <2>3, <3>1, <1>1, <1>2, OtherRowKeepsAccount
  <2> QED
    BY <2>2, <2>3
<1>4. \A x \in DOMAIN notes' : notes'[x] \in NotesOf
  BY DEF NotesInv
<1> QED
  BY <1>1, <1>3, <1>4 DEF NotesInv, NoteTrailJoinsUp, Accounted

LEMMA ImportKeepsNotes ==
  ASSUME NotesInv, NEW file \in Files, NEW strategy \in {"replace", "upsert"},
         ImportRatingRoll(file, strategy)
  PROVE  NotesInv'
<1> DEFINE made == IF strategy = "replace" THEN Listed(file) ELSE Listed(file) \cup twice
           row == [action |-> "write.import_rating_roll", made |-> made]
<1>1. audit' = Append(audit, row) /\ row.action = "write.import_rating_roll" /\ row.made = made
  BY DEF ImportRatingRoll
<1>2. Listed(file) \subseteq Properties /\ ListedTwice(file) \subseteq Listed(file)
  <2>1. file \in Seq(Properties)
    BY TwoPhaseAssumption
  <2> QED
    BY <2>1 DEF Listed, ListedTwice
<1>3. twice \subseteq DOMAIN notes /\ DOMAIN notes \subseteq Properties
  BY DEF NotesInv
<1> HIDE DEF row
<1>4. /\ DOMAIN notes' \subseteq DOMAIN notes \cup made
      /\ \A x \in made : notes'[x] = << >>
      /\ \A x \in DOMAIN notes' \ made : notes'[x] = notes[x]
      /\ twice' \subseteq DOMAIN notes'
  <2>1. CASE strategy = "replace"
    BY <1>2, <1>3, <2>1 DEF ImportRatingRoll, ReplaceProperties
  <2>2. CASE strategy # "replace"
    BY <1>2, <1>3, <2>2 DEF ImportRatingRoll, UpsertProperties
  <2> QED
    BY <2>1, <2>2
<1>5. made \subseteq Properties
  BY <1>2, <1>3
<1> HIDE DEF made
<1>6. << >> \in NotesOf /\ Len(<< >>) = 0
  BY DEF NotesOf
<1>7. \A x \in made : notes'[x] \in NotesOf /\ RecordRow(x, row)
  BY <1>1, <1>4, <1>6 DEF RecordRow, RollActions
<1>8. row.action \in RollActions
  BY <1>1 DEF RollActions
<1> QED
  BY <1>1, <1>4, <1>5, <1>7, <1>8, RollWriteKeepsNotes

LEMMA ChildrenKeepNotes ==
  ASSUME NotesInv, NEW parent, NEW children \in SUBSET Properties,
         MaterialiseChildren(parent, children)
  PROVE  NotesInv'
<1> DEFINE made == children \ DOMAIN notes
           row == [action |-> "state.strata_conversion.children_imported",
                   target |-> parent, made |-> made]
<1>1. audit' = Append(audit, row) /\ row.action \in RollActions /\ row.made = made
  BY DEF MaterialiseChildren, RollActions
<1>2. /\ DOMAIN notes' \subseteq DOMAIN notes \cup made
      /\ \A x \in made : notes'[x] = << ChildNote >>
      /\ \A x \in DOMAIN notes' \ made : notes'[x] = notes[x]
  BY DEF MaterialiseChildren
<1>3. << ChildNote >> \in NotesOf /\ Len(<< ChildNote >>) = 1
  BY DEF NotesOf
<1>4. \A x \in made : notes'[x] \in NotesOf /\ RecordRow(x, row)
  BY <1>1, <1>2, <1>3 DEF RecordRow
<1>5. twice' \subseteq DOMAIN notes'
  BY DEF MaterialiseChildren, NotesInv
<1> HIDE DEF row
<1> QED
  BY <1>1, <1>2, <1>4, <1>5, RollWriteKeepsNotes

LEMMA StepKeepsNotes ==
  ASSUME NotesInv, StoreProofs!IInv, [Next]_vars PROVE NotesInv'
<1> USE DEF dataVars
<1>1. CASE UNCHANGED <<notes, twice, audit>>
  <2>1. \A x \in Properties : Accounted(x)' <=> Accounted(x)
    BY <1>1 DEF Accounted, Told, Writes, NoteRows, RecordRows, RollRows, LeftBy, OnRoll
  <2> QED
    BY <1>1, <2>1 DEF NotesInv, NoteTrailJoinsUp, Accounted
<1>2. ASSUME NEW row, audit' = Append(audit, row), UNCHANGED <<notes, twice>>,
             row.action # "add_property_note", row.action \notin RollActions
      PROVE  NotesInv'
  <2>1. GrownBy(row) /\ \E T : audit' \in Seq(T)
    BY <1>2, RowIsLast DEF NotesInv
  <2>2. \A x \in Properties : Accounted(x)'
    BY <1>2, <2>1, OtherRowKeepsAccount DEF NotesInv, NoteTrailJoinsUp, Accounted, OnRoll
  <2> QED
    BY <1>2, <2>1, <2>2 DEF NotesInv, NoteTrailJoinsUp, Accounted
<1>3. ASSUME NEW o \in Owners, EraseOwner(o)
      PROVE  NotesInv'
  BY <1>2, <1>3 DEF EraseOwner, RollActions
<1>4. ASSUME NEW p \in Principals, NEW o \in Owners, NEW tok \in Tokens,
             UpdateOwnerContactConfirm(p, o, tok)
      PROVE  NotesInv'
  BY <1>1, <1>2, <1>4 DEF UpdateOwnerContactConfirm, RollActions
<1>5. ASSUME NEW p \in Principals, NEW code \in CouncilCodes, NEW tok \in Tokens,
             AddCouncilConfirm(p, code, tok)
      PROVE  NotesInv'
  BY <1>1, <1>2, <1>5 DEF AddCouncilConfirm, RollActions
<1>6. ASSUME NEW p \in Principals, NEW a \in Properties, NEW tok \in Tokens,
             AddPropertyNoteConfirm(p, a, tok)
      PROVE  NotesInv'
  BY <1>1, <1>6, ConfirmKeepsNotes
<1>7. ASSUME NEW file \in Files, NEW strategy \in {"replace", "upsert"},
             ImportRatingRoll(file, strategy)
      PROVE  NotesInv'
  BY <1>7, ImportKeepsNotes
<1>8. ASSUME NEW a \in Properties, NEW children \in SUBSET ChildrenOf[a] \ {{}},
             MaterialiseChildren(a, children)
      PROVE  NotesInv'
  BY <1>8, TwoPhaseAssumption, ChildrenKeepNotes
<1> QED
  BY <1>1, <1>3, <1>4, <1>5, <1>6, <1>7, <1>8 DEF Next, vars, Tick,
     UpdateOwnerContactPreview, AddPropertyNotePreview, AddCouncilPreview

(***************************************************************************)
(* Each note's row goes on from the count the last write of that property  *)
(* left, an import or the making of a child included, and the last of them *)
(* left the number on file: for any seeded notes, any number of commits to *)
(* the roll and any number of outstanding previews.                        *)
(***************************************************************************)
THEOREM NotesAreAccountedFor == Spec => []NoteTrailJoinsUp
<1>1. Init => NotesInv
  <2> SUFFICES ASSUME Init PROVE NotesInv
    OBVIOUS
  <2>1. audit = << >> /\ notes = SeedNotes /\ twice = {} /\ audit \in Seq({})
    BY DEF Init
  <2>2. \A a : Writes(a) = {} /\ NoteRows(a) = {}
    BY <2>1 DEF Writes, NoteRows, RecordRows, RollRows
  <2>3. NoteTrailJoinsUp
    BY <2>1, <2>2 DEF NoteTrailJoinsUp, Told, OnRoll
  <2>4. \A a \in DOMAIN notes : notes[a] \in NotesOf
    <3> SUFFICES ASSUME NEW a \in DOMAIN SeedNotes PROVE SeedNotes[a] \in NotesOf
      BY <2>1
    <3>1. SeedNotes[a] \in Seq(Notes)
      BY TwoPhaseAssumption
    <3> QED
      BY <3>1 DEF NotesOf
  <2> QED
    BY <2>1, <2>3, <2>4, TwoPhaseAssumption DEF NotesInv
<1>2. NotesInv /\ StoreProofs!IInv /\ [Next]_vars => NotesInv'
  BY StepKeepsNotes
<1>3. NotesInv => NoteTrailJoinsUp
  BY DEF NotesInv
<1> QED
  BY <1>1, <1>2, <1>3, StoreInvariant, PTL DEF Spec
=============================================================================
