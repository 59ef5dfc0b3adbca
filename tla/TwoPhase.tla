------------------------------ MODULE TwoPhase ------------------------------
(***************************************************************************)
(* The two-phase mutating tools over the in-memory DataStore, and what     *)
(* writes the same records beside them:                                    *)
(*   handlers/workflows.ts   update_owner_contact, add_property_note       *)
(*   handlers/addCouncil.ts  add_council                                   *)
(*   inproc.ts               eraseOwnerInproc                              *)
(*   handlers/importRatingRoll.ts, venCtConcession.ts   their commits to   *)
(*                           the roll; PropertyRoll has the whole handlers *)
(* all under packages/adapter-demo/src.  Their handlers await nothing      *)
(* between reading the store and writing it, so each call is one action;   *)
(* sessions interleave between a preview and its confirm.                  *)
(*                                                                         *)
(* The properties are one council's.                                       *)
(* An owner is its PII: name, phone and email (the postal address and the  *)
(* previous owners share the fate of the name).  None is null, an input    *)
(* that is undefined, and the tombstone of a name.  Whom an audit row      *)
(* names as its actor, and when, is left out.                              *)
(***************************************************************************)
EXTENDS Naturals, Sequences, FiniteSets

CONSTANTS
    Owners, Properties, CouncilCodes, CouncilNames, Notes,
    Contacts,       \* the phone numbers and addresses a caller may propose
    Seed,           \* the value of every seeded field
    SeedNotes,      \* the notes of each seeded property
    ChildrenOf,     \* per property, the numbers its strata children would have
    ChildNote,      \* the note a strata child is made with
    Files,          \* the roll files a caller may import: the numbers they list
    MaxRollWrites,  \* bound on the commits to the roll
    Tokens, Principals, TtlMs, MaxTime, None

ContactOf(o) ==
    {m \in [operation : {"update_owner_contact"}, ownerId : {o},
            newPhone : Contacts \cup {None}, newEmail : Contacts \cup {None}] :
        m.newPhone # None \/ m.newEmail # None}
ContactMutations == UNION {ContactOf(o) : o \in Owners}
NoteMutations ==
    [operation : {"add_property_note"}, assessmentNumber : Properties, note : Notes]
CouncilMutations ==
    [operation : {"add_council"}, code : CouncilCodes, name : CouncilNames]

\* PendingMutation: what a token can carry.
PendingMutations == ContactMutations \cup NoteMutations \cup CouncilMutations
CommitOperations == {"update_owner_contact", "add_property_note", "add_council"}

VARIABLES
    now, entries, previews, uses,   \* of the token store
    owners,     \* per owner, the PII on record
    notes,      \* per property on the roll, the notes of its first record
    twice,      \* the properties with records behind the first, which no tool reads
    councils,   \* the council registry, in order of registration
    audit       \* the rows recordMutation has appended

storeVars == <<now, entries, previews, uses>>
dataVars == <<owners, notes, twice, councils, audit>>
vars == <<storeVars, dataVars>>

Store == INSTANCE CommitTokens WITH
            Mutations <- PendingMutations,
            Operations <- CommitOperations

ASSUME TwoPhaseAssumption ==
    /\ TtlMs \in Nat \ {0}
    /\ MaxTime \in Nat
    /\ DOMAIN SeedNotes \subseteq Properties
    /\ SeedNotes \in [DOMAIN SeedNotes -> Seq(Notes)]
    /\ Files \subseteq Seq(Properties) \ {<< >>}
    /\ ChildrenOf \in [Properties -> SUBSET Properties]
    /\ MaxRollWrites \in Nat
    /\ None \notin Store!Entry
    /\ None \notin Store!Preview

Seeded == [name |-> Seed, phone |-> Seed, email |-> Seed]
Tombstone == [name |-> None, phone |-> None, email |-> None]

Init ==
    /\ Store!Init
    /\ owners = [o \in Owners |-> Seeded]
    /\ notes = SeedNotes /\ twice = {}
    /\ councils = << >>
    /\ audit = << >>

-----------------------------------------------------------------------------
(* update_owner_contact *)

\* The preview keeps the fields that differ from the record it shows.
UpdateOwnerContactPreview(p, o, newPhone, newEmail) ==
    LET phone == IF newPhone = owners[o].phone THEN None ELSE newPhone
        email == IF newEmail = owners[o].email THEN None ELSE newEmail
    IN /\ phone # None \/ email # None
       /\ \E tok \in Tokens :
             Store!Issue(tok, [operation |-> "update_owner_contact", ownerId |-> o,
                               newPhone |-> phone, newEmail |-> email], p)
       /\ UNCHANGED dataVars

\* The fields a mutation names.
ChangedFields(m) == {f \in {"phone", "email"} :
                        (IF f = "phone" THEN m.newPhone ELSE m.newEmail) # None}

\* A commit that writes both fields, the ones the preview left out too.
MergedWhole(contact, m) ==
    [contact EXCEPT !.phone = m.newPhone, !.email = m.newEmail]

\* The commit merges the captured fields onto the record as it is now.
Merged(contact, m) ==
    [contact EXCEPT !.phone = IF m.newPhone = None THEN @ ELSE m.newPhone,
                    !.email = IF m.newEmail = None THEN @ ELSE m.newEmail]

UpdateOwnerContactConfirm(p, o, tok) ==
    LET m == entries[tok].mutation
        verdict == Store!Verdict(tok, "update_owner_contact", p)
    IN /\ Store!Consume(tok, "update_owner_contact", p)
       /\ IF verdict = "ok" /\ m.ownerId = o
          THEN /\ owners' = [owners EXCEPT ![o] = Merged(@, m)]
               /\ audit' = Append(audit,
                    [action |-> "update_owner_contact", target |-> o,
                     changedFields |-> ChangedFields(m)])
               /\ UNCHANGED <<notes, twice, councils>>
          ELSE UNCHANGED dataVars

-----------------------------------------------------------------------------
(* add_property_note *)

\* A property that is not on the roll is not found, before any token.
OnRoll(a) == a \in DOMAIN notes

AddPropertyNotePreview(p, a, note) ==
    /\ OnRoll(a)
    /\ \E tok \in Tokens :
          Store!Issue(tok, [operation |-> "add_property_note",
                            assessmentNumber |-> a, note |-> note], p)
    /\ UNCHANGED dataVars

\* A count taken once the note is in.
NoteCountLate(a) == Len(notes[a]) + 1

\* The number of notes before the append.
NoteCount(a) == Len(notes[a])

AddPropertyNoteConfirm(p, a, tok) ==
    LET m == entries[tok].mutation
        verdict == Store!Verdict(tok, "add_property_note", p)
    IN /\ OnRoll(a)
       /\ Store!Consume(tok, "add_property_note", p)
       /\ IF verdict = "ok" /\ m.assessmentNumber = a
          THEN /\ notes' = [notes EXCEPT ![a] = Append(@, m.note)]
               /\ audit' = Append(audit,
                    [action |-> "add_property_note", target |-> a,
                     before |-> NoteCount(a), after |-> Len(notes[a]) + 1])
               /\ UNCHANGED <<owners, twice, councils>>
          ELSE UNCHANGED dataVars

-----------------------------------------------------------------------------
(* add_council *)

\* A registry that takes a second council of one code under another name.
HasCouncilRecord(m) ==
    \E i \in DOMAIN councils : councils[i] = [code |-> m.code, name |-> m.name]

\* getCouncil: a council of that code is registered.
HasCouncil(m) == \E i \in DOMAIN councils : councils[i].code = m.code

AddCouncilPreview(p, m) ==
    /\ ~HasCouncil(m)
    /\ \E tok \in Tokens : Store!Issue(tok, m, p)
    /\ UNCHANGED dataVars

\* The registry may have changed since the preview: it is asked again, once
\* the token is spent.
AddCouncilConfirm(p, code, tok) ==
    LET m == entries[tok].mutation
        verdict == Store!Verdict(tok, "add_council", p)
    IN /\ Store!Consume(tok, "add_council", p)
       /\ IF verdict = "ok" /\ m.code = code /\ ~HasCouncil(m)
          THEN /\ councils' = Append(councils, [code |-> m.code, name |-> m.name])
               /\ audit' = Append(audit, [action |-> "write.add_council", target |-> code])
               /\ UNCHANGED <<owners, notes, twice>>
          ELSE UNCHANGED dataVars

-----------------------------------------------------------------------------
(* What else writes the records. *)

RollActions == {"write.import_rating_roll", "state.strata_conversion.children_imported"}

\* The rows of commits to the roll: made are the properties whose first record
\* is new, of which the code records numbers only.
RollRows == {i \in DOMAIN audit : audit[i].action \in RollActions}

Listed(file) == {file[i] : i \in DOMAIN file}
ListedTwice(file) ==
    {a \in Listed(file) : \E i, j \in DOMAIN file : i # j /\ file[i] = a /\ file[j] = a}

\* replaceProperties: a record for each row, all of them without notes.
ReplaceProperties(file) ==
    /\ notes' = [a \in Listed(file) |-> << >>]
    /\ twice' = ListedTwice(file)

\* upsertProperties: one record for each number, the last there is; a record
\* behind another comes from an import and has no notes.
UpsertProperties(file) ==
    /\ notes' = [a \in DOMAIN notes \cup Listed(file) |->
                    IF a \in Listed(file) \cup twice THEN << >> ELSE notes[a]]
    /\ twice' = {}

\* The commit of import_rating_roll, past its token.
ImportRatingRoll(file, mergeStrategy) ==
    /\ Cardinality(RollRows) < MaxRollWrites
    /\ IF mergeStrategy = "replace" THEN ReplaceProperties(file) ELSE UpsertProperties(file)
    /\ audit' = Append(audit, [action |-> "write.import_rating_roll",
                               made |-> IF mergeStrategy = "replace" THEN Listed(file)
                                        ELSE Listed(file) \cup twice])
    /\ UNCHANGED <<storeVars, owners, councils>>

\* The commit of request_strata_conversion to children_imported: a title that
\* has a property already is skipped.
MaterialiseChildren(parent, children) ==
    LET made == children \ DOMAIN notes
    IN  /\ OnRoll(parent)
        /\ Cardinality(RollRows) < MaxRollWrites
        /\ notes' = [a \in DOMAIN notes \cup made |->
                        IF a \in made THEN << ChildNote >> ELSE notes[a]]
        /\ audit' = Append(audit, [action |-> "state.strata_conversion.children_imported",
                                   target |-> parent, made |-> made])
        /\ UNCHANGED <<storeVars, owners, twice, councils>>

\* eraseOwnerInproc: tombstone the owner and record it, if anything changes.
EraseOwner(o) ==
    /\ owners[o] # Tombstone
    /\ owners' = [owners EXCEPT ![o] = Tombstone]
    /\ audit' = Append(audit, [action |-> "erase_owner_pii", target |-> o,
                               changedFields |-> DOMAIN Seeded])
    /\ UNCHANGED <<storeVars, notes, twice, councils>>

Tick == Store!Tick /\ UNCHANGED dataVars

Next ==
    \/ Tick
    \/ \E p \in Principals :
          \/ \E o \in Owners :
                \/ \E m \in ContactOf(o) :
                      UpdateOwnerContactPreview(p, o, m.newPhone, m.newEmail)
                \/ \E tok \in Tokens : UpdateOwnerContactConfirm(p, o, tok)
          \/ \E a \in Properties :
                \/ \E note \in Notes : AddPropertyNotePreview(p, a, note)
                \/ \E tok \in Tokens : AddPropertyNoteConfirm(p, a, tok)
          \/ \E m \in CouncilMutations : AddCouncilPreview(p, m)
          \/ \E code \in CouncilCodes, tok \in Tokens : AddCouncilConfirm(p, code, tok)
    \/ \E o \in Owners : EraseOwner(o)
    \/ \E file \in Files, strategy \in {"replace", "upsert"} : ImportRatingRoll(file, strategy)
    \/ \E a \in Properties : \E children \in SUBSET ChildrenOf[a] \ {{}} :
          MaterialiseChildren(a, children)

Spec == Init /\ [][Next]_vars

-----------------------------------------------------------------------------
(***************************************************************************)
(* The handlers use the token store as CommitTokens specifies it, so that  *)
(* what is proved of the store holds of every tool.                        *)
(***************************************************************************)
UsesTokenStore == Store!Spec

\* The contact mutations committed by a step.
CommittedNow(o) ==
    {u.mutation : u \in {v \in uses' \ uses : v.mutation \in ContactOf(o)}}

(***************************************************************************)
(* No collateral change: a phone or an email only ever becomes null by the *)
(* erasure of its owner, or the value that a token spent in this very step *)
(* has previewed for that field, however many previews are outstanding.    *)
(***************************************************************************)
FieldsChangeOnlyAsPreviewed ==
    [][\A o \in Owners :
          \/ owners'[o] = Tombstone
          \/ /\ owners'[o].name = owners[o].name
             /\ owners'[o].phone # owners[o].phone =>
                   \E m \in CommittedNow(o) : m.newPhone = owners'[o].phone /\ m.newPhone # None
             /\ owners'[o].email # owners[o].email =>
                   \E m \in CommittedNow(o) : m.newEmail = owners'[o].email /\ m.newEmail # None]_vars

\* The rows of the notes on a property, and of the new records for it.
NoteRows(a) ==
    {i \in DOMAIN audit : audit[i].action = "add_property_note" /\ audit[i].target = a}
RecordRows(a) == {i \in RollRows : a \in audit[i].made}
Writes(a) == NoteRows(a) \cup RecordRows(a)

\* How many notes a row leaves on the property it writes.
LeftBy(i) ==
    CASE audit[i].action = "add_property_note" -> audit[i].after
      [] audit[i].action = "write.import_rating_roll" -> 0
      [] OTHER -> 1

\* As the rows before place n tell, the property has so many notes there: those
\* its last write left, or the seeded ones.
Told(a, n, count) ==
    /\ \A j \in Writes(a) :
          (j < n /\ \A k \in Writes(a) : k <= j \/ k >= n) => count = LeftBy(j)
    /\ (\A j \in Writes(a) : j >= n) =>
          a \in DOMAIN SeedNotes /\ count = Len(SeedNotes[a])

(***************************************************************************)
(* The audit trail accounts for every note on file: each note's row goes   *)
(* on from the count the last write of that property left, whether that    *)
(* was a note, an import (none) or the making of a strata child (one), and *)
(* the last of them left the number on file, whatever was written between  *)
(* a note's preview and its confirm.                                       *)
(***************************************************************************)
NoteTrailJoinsUp ==
    \A a \in Properties :
        /\ \A i \in NoteRows(a) : /\ Told(a, i, audit[i].before)
                                  /\ audit[i].after = audit[i].before + 1
        /\ OnRoll(a) => Told(a, Len(audit) + 1, Len(notes[a]))

(***************************************************************************)
(* Two previews of one council code may be outstanding, but only one of    *)
(* them ever registers it.                                                 *)
(***************************************************************************)
OneCouncilPerCode ==
    \A i, j \in DOMAIN councils : councils[i].code = councils[j].code => i = j
=============================================================================
