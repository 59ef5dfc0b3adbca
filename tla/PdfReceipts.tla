---------------------------- MODULE PdfReceipts ----------------------------
(***************************************************************************)
(* The integrity receipts of evidence packs and notices, over the tasks of *)
(* a deployment, under apps/web:                                           *)
(*   app/api/evidence/[file]/pdf/route.ts and notice/route.ts  generation  *)
(*   lib/pdfReceiptStore.ts          persistPdfReceipt, loadPdfReceipt     *)
(*   lib/pdfIntegrity.ts             identity, receipt, verification       *)
(*   app/api/verify/pack/route.ts    the public check of a copy            *)
(* A generation interleaves with others, on its own task and elsewhere, at *)
(* the awaits of rendering and of the durable write; a task may restart at *)
(* any time and loses its ring of audit entries.                           *)
(*                                                                         *)
(* A document's bytes are what identity and contents they show; SHA-256    *)
(* and HMAC are injective.  Rate limits and body caps are left out.        *)
(***************************************************************************)
EXTENDS Naturals, Sequences, FiniteSets, FiniteSetsExt

CONSTANTS
    Tasks,
    Users, HomeOf,       \* signed-in users, and the tenant of each
    Admins,              \* the platform admins among them
    DocIds, TenantOfRef, \* references, and the tenant their prefix names
    Contents, Altered,   \* what a document may say, and what none does
    MaxEntries,          \* MAX_ENTRIES of the ring
    ReadLimit,           \* the limit of loadPdfReceipt's readRecent
    MaxRequests,         \* generations, started in the order of their numbers
    MaxTime,
    Null

\* The steps of a generation; PdfIdentity, PdfIntegrityReceipt and the rest.
Steps == {"rendering", "upserting", "responding", "delivered", "failed", "lost"}
Identities == [tenantId : {TenantOfRef[d] : d \in DocIds}, docId : DocIds,
               userId : Users, timestamp : Nat]
Bytes == [identity : Identities, contents : Contents]
Receipts == [docId : DocIds, tenantCode : {TenantOfRef[d] : d \in DocIds},
             actorId : Users, generatedAt : Nat,
             pdfSha256 : Bytes, pdfHmac : [mac : Identities]]
PdfRequests == [step : Steps, task : Tasks, contents : Contents, write : Nat,
                identity : Identities]

ASSUME PdfAssumption ==
    /\ Null \notin PdfRequests \cup Receipts \cup [ref : DocIds, generatedAt : Nat]
    /\ MaxRequests \in Nat
    /\ Admins \subseteq Users
    /\ MaxEntries \in Nat \ {0} /\ ReadLimit \in Nat \ {0}
    /\ Altered \notin Contents
    /\ MaxTime \in Nat

VARIABLES
    now,
    wired,      \* isDbWired, the same on all tasks
    requests,   \* per request: its step, task, identity and contents, or Null
    ring,       \* per task, its in-memory audit entries, the newest last
    durable,    \* pdf_integrity_receipt: per docId its row, or Null
    writes      \* how many durable writes were applied

Requests == 1 .. MaxRequests

receiptsVars == <<now, wired, requests, ring, durable, writes>>

-----------------------------------------------------------------------------
(* pdfIntegrity.ts *)

PdfIdentityHmac(identity) == [mac |-> identity]
BytesOf(g) == [identity |-> g.identity, contents |-> g.contents]

\* The receipt stored under the tenant, and what identifies its document.
ReceiptOf(g) ==
    [docId |-> g.identity.docId, tenantCode |-> g.identity.tenantId,
     actorId |-> g.identity.userId, generatedAt |-> g.identity.timestamp,
     pdfSha256 |-> BytesOf(g), pdfHmac |-> PdfIdentityHmac(g.identity)]

\* A check that trusts either of the two proofs.
VerifyEither(bytes, identity, receipt) ==
    bytes = receipt.pdfSha256 \/ PdfIdentityHmac(identity) = receipt.pdfHmac

VerifyPdfIntegrity(bytes, identity, receipt) ==
    bytes = receipt.pdfSha256 /\ PdfIdentityHmac(identity) = receipt.pdfHmac

-----------------------------------------------------------------------------
(* loadPdfReceipt and POST /api/verify/pack *)

\* The newest ReadLimit entries of the tenant, and of these the newest of docId.
LocalReceipt(t, tenant, docId) ==
    LET own == {i \in DOMAIN ring[t] : ring[t][i].tenantCode = tenant}
        recent == {i \in own : Cardinality({j \in own : j > i}) < ReadLimit}
        found == {i \in recent : ring[t][i].docId = docId}
    IN  IF found = {} THEN Null ELSE ring[t][Max(found)]

\* A load that looks at the task's own entries when there is no row.
LoadRowOrLocal(t, tenant, docId, readable) ==
    IF wired /\ readable /\ durable[docId] # Null THEN durable[docId]
    ELSE LocalReceipt(t, tenant, docId)

\* The row where there is a database; a failed read falls back to the ring.
LoadPdfReceipt(t, tenant, docId, readable) ==
    IF wired /\ readable THEN durable[docId] ELSE LocalReceipt(t, tenant, docId)

\* What task t answers on bytes and docId: Null is "not_verified".
VerifyPack(t, bytes, docId, readable) ==
    LET receipt == LoadPdfReceipt(t, TenantOfRef[docId], docId, readable)
        identity == [tenantId |-> receipt.tenantCode, docId |-> docId,
                     userId |-> receipt.actorId, timestamp |-> receipt.generatedAt]
    IN  IF receipt = Null THEN Null
        ELSE IF VerifyPdfIntegrity(bytes, identity, receipt)
        THEN [ref |-> docId, generatedAt |-> receipt.generatedAt]
        ELSE Null

Verifies(t, bytes, docId, readable) == VerifyPack(t, bytes, docId, readable) # Null

-----------------------------------------------------------------------------
(* The generation routes. *)

ReceiptsInit ==
    /\ now = 0
    /\ wired \in BOOLEAN
    /\ requests = [r \in Requests |-> Null]
    /\ ring = [t \in Tasks |-> << >>]
    /\ durable = [d \in DocIds |-> Null]
    /\ writes = 0

At(r, step) == requests[r] # Null /\ requests[r].step = step
MoveTo(r, step) == requests' = [requests EXCEPT ![r].step = step]

MayAccessTenant(u, tenant) == u \in Admins \/ HomeOf[u] = tenant

\* It is bound to the tenant of the asset, whoever asks.
ReceiptTenant(u, docId) == TenantOfRef[docId]

\* Up to the render: the identity and its reference are fixed before it.
BeginGeneration(r) ==
    /\ requests[r] = Null /\ \A q \in 1 .. r - 1 : requests[q] # Null
    /\ \E t \in Tasks, u \in Users, d \in DocIds, c \in Contents :
          /\ MayAccessTenant(u, TenantOfRef[d])
          /\ requests' = [requests EXCEPT ![r] =
                [step |-> "rendering", task |-> t, contents |-> c, write |-> 0,
                 identity |-> [tenantId |-> ReceiptTenant(u, d), docId |-> d,
                               userId |-> u, timestamp |-> now]]]
    /\ UNCHANGED <<now, wired, ring, durable, writes>>

RenderFails(r) ==
    /\ At(r, "rendering")
    /\ MoveTo(r, "failed")
    /\ UNCHANGED <<now, wired, ring, durable, writes>>

\* The entry of the ring comes first, and the oldest makes room for it.
Rendered(r) ==
    LET t == requests[r].task
        all == Append(ring[t], ReceiptOf(requests[r]))
    IN  /\ At(r, "rendering")
        /\ ring' = [ring EXCEPT ![t] = IF Len(all) > MaxEntries THEN Tail(all) ELSE all]
        /\ MoveTo(r, IF wired THEN "upserting" ELSE "responding")
        /\ UNCHANGED <<now, wired, durable, writes>>

\* An insert that leaves the row that is there.
RowAfterInsert(r) ==
    IF durable[requests[r].identity.docId] = Null THEN ReceiptOf(requests[r])
    ELSE durable[requests[r].identity.docId]

\* onConflictDoUpdate: the write applied last stays.
RowAfter(r) == ReceiptOf(requests[r])

Upserted(r) ==
    /\ At(r, "upserting")
    /\ durable' = [durable EXCEPT ![requests[r].identity.docId] = RowAfter(r)]
    /\ writes' = writes + 1
    /\ requests' = [requests EXCEPT ![r].step = "responding", ![r].write = writes + 1]
    /\ UNCHANGED <<now, wired, ring>>

\* A failed write is logged, and the document goes out all the same.
UpsertFails(r) ==
    /\ At(r, "upserting")
    /\ MoveTo(r, "responding")
    /\ UNCHANGED <<now, wired, ring, durable, writes>>

Delivered(r) ==
    /\ At(r, "responding")
    /\ MoveTo(r, "delivered")
    /\ UNCHANGED <<now, wired, ring, durable, writes>>

-----------------------------------------------------------------------------
Over == {"delivered", "failed", "lost"}

\* What a task had under way is lost with it; the database keeps its rows.
Restart(t) ==
    /\ ring' = [ring EXCEPT ![t] = << >>]
    /\ requests' = [r \in Requests |->
          IF requests[r] # Null /\ requests[r].task = t /\ requests[r].step \notin Over
          THEN [requests[r] EXCEPT !.step = "lost"] ELSE requests[r]]
    /\ UNCHANGED <<now, wired, durable, writes>>

Tick ==
    /\ now < MaxTime
    /\ now' = now + 1
    /\ UNCHANGED <<wired, requests, ring, durable, writes>>

ReceiptsNext ==
    \/ Tick
    \/ \E t \in Tasks : Restart(t)
    \/ \E r \in Requests :
          \/ BeginGeneration(r) \/ RenderFails(r) \/ Rendered(r)
          \/ Upserted(r) \/ UpsertFails(r) \/ Delivered(r)

ReceiptsSpec == ReceiptsInit /\ [][ReceiptsNext]_receiptsVars

-----------------------------------------------------------------------------
Generations == {r \in Requests : requests[r] # Null}
Genuine == {BytesOf(requests[r]) : r \in Generations}
Copies == Genuine \cup {[b EXCEPT !.contents = Altered] : b \in Genuine}

(***************************************************************************)
(* No false positive, even while database reads fail and a task answers    *)
(* from its own ring: verified bytes are those a generation rendered for   *)
(* exactly this reference, unaltered, and the date in the answer is the    *)
(* one it was rendered with.  While a database answers, a document has at  *)
(* most one such copy over all tasks: a regenerated one supersedes the one *)
(* before it everywhere at once.                                           *)
(***************************************************************************)
VerifiedMeansGenuine ==
    /\ \A t \in Tasks, b \in Copies, d \in DocIds, readable \in BOOLEAN :
          LET answer == VerifyPack(t, b, d, readable) IN
          answer # Null => /\ b \in Genuine /\ b.identity.docId = d
                           /\ answer.generatedAt = b.identity.timestamp
    /\ wired => \A t, u \in Tasks, a, b \in Copies, d \in DocIds :
          Verifies(t, a, d, TRUE) /\ Verifies(u, b, d, TRUE) => a = b

(***************************************************************************)
(* A genuine document is not called forged.  With a database: a delivered  *)
(* copy whose receipt was written, and no other of its reference since,    *)
(* verifies on every task, after any restarts.  Without one: on the task   *)
(* that made it, whoever asked for it, while it is the newest made there.  *)
(***************************************************************************)
Superseded(r) ==
    \E q \in Generations : /\ requests[q].identity.docId = requests[r].identity.docId
                           /\ requests[q].write > requests[r].write
Newest(r) ==
    LET entries == ring[requests[r].task] IN
    entries # << >> /\ entries[Len(entries)] = ReceiptOf(requests[r])

DeliveredCopiesVerify ==
    \A r \in Generations : At(r, "delivered") =>
        LET VerifiesOn(t) == Verifies(t, BytesOf(requests[r]), requests[r].identity.docId, TRUE)
        IN  /\ requests[r].write > 0 /\ ~Superseded(r) => \A t \in Tasks : VerifiesOn(t)
            /\ ~wired /\ Newest(r) => VerifiesOn(requests[r].task)

=============================================================================
