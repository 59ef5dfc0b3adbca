--------------------------- MODULE ErasureService ---------------------------
(***************************************************************************)
(* The right-to-be-forgotten service of one web process, and the context   *)
(* it takes the owner's tenants from:                                      *)
(*   lib/privacy-erasure.ts   eraseOwnerData, eraseOwnerRowsInDb           *)
(*   lib/clients.ts           the process-wide context and its refreshes   *)
(* both under apps/web, with Postgres wired.  A request interleaves with   *)
(* the others at each of its awaits.  withAudit is one step: AuditChain    *)
(* shows that its transaction is atomic.                                   *)
(*                                                                         *)
(* There is one data subject.  It may have a record in the in-memory store *)
(* and a row per tenant, and each of these is "pii", "erased" or None.     *)
(*                                                                         *)
(* packages/db/migrations/0006 forces row-level security on owners: outside*)
(* withTenant a statement sees no row, unless the role it runs as bypasses *)
(* the policies (pglite, a superuser).  bootstrap.ts refuses to serve a    *)
(* production with such a role, but for a break-glass setting.             *)
(***************************************************************************)
EXTENDS Naturals

CONSTANTS
    Councils,
    Tenants,        \* the councils with a row in the table of tenants
    BypassesRls,    \* whether the process's database role bypasses the policies
    First(_),       \* the council whose code sorts first in a set of them
    Subjects,       \* whom the bundled data and the database rows may name: [bundled, rows]
    Requests, Session,   \* erasure requests: [role, tenantId, legalHold]
    Imports,        \* imports that are committed meanwhile
    MaxRestarts,
    None

Status == {"pii", "erased"}
Roles == {"platform_admin", "council_admin", "rates_officer"}

ASSUME ErasureAssumption ==
    /\ \A S \in SUBSET Councils : S # {} => First(S) \in S
    /\ Tenants \subseteq Councils
    /\ BypassesRls \in BOOLEAN
    /\ Subjects \subseteq [bundled : SUBSET Councils, rows : SUBSET Tenants]
    /\ Session \in [Requests -> [role : Roles, tenantId : Councils, legalHold : BOOLEAN]]
    /\ Requests \cap Imports = {}
    /\ MaxRestarts \in Nat
    /\ None \notin Status /\ (\A S \in SUBSET Councils : S # None)
    /\ "store" \notin Councils

VARIABLES
    subject,      \* the data subject, one of Subjects
    restarts,
    store,        \* the subject's record in the in-memory store
    rows,         \* per tenant, the subject's row
    trail,        \* the erasure's audit rows: [by, at], at a tenant or "store"
    pc, todo, affected, changed,    \* per request
    fills,        \* per refresh: None, or the tenants to read and those found
    context       \* the subject's tenants in the process-wide context, or None

requestVars == <<pc, todo, affected, changed>>
cacheVars == <<fills, context>>
dataVars == <<store, rows, trail>>
processVars == <<subject, restarts>>
vars == <<processVars, dataVars, requestVars, cacheVars>>

Seeded == IF subject.bundled = {} THEN None ELSE "pii"

Init ==
    /\ subject \in Subjects
    /\ restarts = 0
    /\ store = Seeded
    /\ rows = [t \in Councils |-> IF t \in subject.rows THEN "pii" ELSE None]
    /\ trail = {}
    /\ pc = [r \in Requests |-> "idle"]
    /\ todo = [r \in Requests |-> {}]
    /\ affected = [r \in Requests |-> {}]
    /\ changed = [r \in Requests |-> FALSE]
    /\ fills = [f \in Requests \cup Imports |-> None]
    /\ context = None

-----------------------------------------------------------------------------
(* The process-wide context. *)

\* getEvaluationContext: without a context, that of the bundled data.
Context == IF context = None THEN subject.bundled ELSE context

SyncRead ==
    /\ context = None
    /\ context' = Context
    /\ UNCHANGED <<processVars, dataVars, requestVars, fills>>

\* invalidateEvaluationContext: forget the context and start to read it anew.
StartRefresh(f) ==
    /\ context' = None
    /\ fills' = [fills EXCEPT ![f] = [todo |-> Tenants, found |-> {}]]

RefreshTenant(f) ==
    /\ fills[f] # None
    /\ \E t \in fills[f].todo :
          fills' = [fills EXCEPT ![f] =
             [todo |-> @.todo \ {t},
              found |-> IF rows[t] = None THEN @.found ELSE @.found \cup {t}]]
    /\ UNCHANGED <<processVars, dataVars, requestVars, context>>

\* A refresh ends with a new context, or with a warning and none.  The
\* request that awaits it answers either way.
EndRefresh(f) ==
    /\ fills[f] # None
    /\ \/ fills[f].todo = {} /\ context' = fills[f].found
       \/ UNCHANGED context
    /\ fills' = [fills EXCEPT ![f] = None]
    /\ pc' = IF f \in Requests THEN [pc EXCEPT ![f] = "ok"] ELSE pc
    /\ UNCHANGED <<processVars, dataVars, todo, affected, changed>>

\* An import is committed in memory; its route does not await the refresh.
Import(f) ==
    /\ fills[f] = None
    /\ StartRefresh(f)
    /\ UNCHANGED <<processVars, dataVars, requestVars>>

-----------------------------------------------------------------------------
(* eraseOwnerData *)

\* An admission that asks for the caller's own council and no more.
AuthoriseOwnCouncil(r, footprint) ==
    CASE Session[r].role = "rates_officer" -> "forbidden"
      [] Session[r].role = "platform_admin" -> "ok"
      [] footprint = {} -> "not_found"
      [] Session[r].tenantId \notin footprint -> "forbidden"
      [] OTHER -> "ok"

\* authoriseErasure.
Authorise(r, footprint) ==
    CASE Session[r].role = "rates_officer" -> "forbidden"
      [] Session[r].role = "platform_admin" -> "ok"
      [] footprint = {} -> "not_found"
      [] footprint # {Session[r].tenantId} -> "forbidden"
      [] OTHER -> "ok"

\* The caller's own council, whoever asks.
TargetOwnCouncil(r, footprint) ==
    footprint \cap {Session[r].tenantId}

TargetTenants(r, footprint) ==
    IF Session[r].role = "platform_admin" THEN footprint
    ELSE footprint \cap {Session[r].tenantId}

\* Footprint, authorisation and hold: all before the first await.
Start(r) ==
    LET verdict == Authorise(r, Context)
    IN /\ pc[r] = "idle"
       /\ context' = Context
       /\ pc' = [pc EXCEPT ![r] = IF verdict # "ok" THEN verdict
                                  ELSE IF Session[r].legalHold THEN "conflict"
                                  ELSE "erase store"]
       /\ todo' = [todo EXCEPT ![r] = TargetTenants(r, Context)]
       /\ UNCHANGED <<processVars, dataVars, affected, changed, fills>>

\* Where a request goes with the tenants it has left.
NextTenant(r, left) ==
    /\ todo' = [todo EXCEPT ![r] = left]
    /\ pc' = [pc EXCEPT ![r] = IF left = {} THEN "invalidate" ELSE "check row"]

\* An erasure that reports a change of a record that had none left.
EraseStoreAlwaysChanges(r) ==
    /\ pc[r] = "erase store"
    /\ IF store = "pii"
       THEN store' = "erased" /\ trail' = trail \cup {[by |-> r, at |-> "store"]}
       ELSE UNCHANGED <<store, trail>>
    /\ changed' = [changed EXCEPT ![r] = TRUE]
    /\ NextTenant(r, todo[r])
    /\ UNCHANGED <<processVars, rows, affected, cacheVars>>

EraseStore(r) ==
    /\ pc[r] = "erase store"
    /\ IF store = "pii"
       THEN /\ store' = "erased"
            /\ trail' = trail \cup {[by |-> r, at |-> "store"]}
            /\ changed' = [changed EXCEPT ![r] = TRUE]
       ELSE UNCHANGED <<store, trail, changed>>
    /\ NextTenant(r, todo[r])
    /\ UNCHANGED <<processVars, rows, affected, cacheVars>>

\* What the check for an existing tombstone sees, outside of withTenant as it is:
\* nothing of a council that is no tenant, or that the policies hide.
FindsDetails(t) == t \in Tenants /\ BypassesRls /\ rows[t] = "pii"

\* The check: a tenant without a row, or with a tombstone, is passed over.
CheckRow(r) ==
    /\ pc[r] = "check row"
    /\ IF FindsDetails(First(todo[r]))
       THEN pc' = [pc EXCEPT ![r] = "erase row"] /\ UNCHANGED todo
       ELSE NextTenant(r, todo[r] \ {First(todo[r])})
    /\ UNCHANGED <<processVars, dataVars, affected, changed, cacheVars>>

\* An audit row in the chain of the caller's council.
EraseRowAtHome(r) ==
    LET t == First(todo[r])
    IN /\ pc[r] = "erase row"
       /\ rows' = [rows EXCEPT ![t] = "erased"]
       /\ trail' = trail \cup {[by |-> r, at |-> Session[r].tenantId]}
       /\ affected' = [affected EXCEPT ![r] = @ \cup {t}]
       /\ changed' = [changed EXCEPT ![r] = TRUE]
       /\ NextTenant(r, todo[r] \ {First(todo[r])})
       /\ UNCHANGED <<processVars, store, cacheVars>>

\* withAudit: the row and its audit row in one transaction.
EraseRow(r) ==
    LET t == First(todo[r])
    IN /\ pc[r] = "erase row"
       /\ rows' = [rows EXCEPT ![t] = "erased"]
       /\ trail' = trail \cup {[by |-> r, at |-> t]}
       /\ affected' = [affected EXCEPT ![r] = @ \cup {t}]
       /\ changed' = [changed EXCEPT ![r] = TRUE]
       /\ NextTenant(r, todo[r] \ {First(todo[r])})
       /\ UNCHANGED <<processVars, store, cacheVars>>

\* A statement fails: its transaction is rolled back, the contexts are kept.
DbFails(r) ==
    /\ pc[r] \in {"check row", "erase row"}
    /\ pc' = [pc EXCEPT ![r] = "internal_error"]
    /\ UNCHANGED <<processVars, dataVars, todo, affected, changed, cacheVars>>

Invalidate(r) ==
    /\ pc[r] = "invalidate"
    /\ StartRefresh(r)
    /\ pc' = [pc EXCEPT ![r] = "refresh"]
    /\ UNCHANGED <<processVars, dataVars, todo, affected, changed>>

-----------------------------------------------------------------------------
Answers == {"ok", "forbidden", "not_found", "conflict", "internal_error"}

\* The process is restarted: what it kept in memory is as at its start, and
\* the requests it was serving are never answered.
Restart ==
    /\ restarts < MaxRestarts
    /\ restarts' = restarts + 1
    /\ store' = Seeded
    /\ pc' = [r \in Requests |-> IF pc[r] \in Answers \cup {"idle"} THEN pc[r] ELSE "lost"]
    /\ fills' = [f \in Requests \cup Imports |-> None]
    /\ context' = None
    /\ UNCHANGED <<subject, rows, trail, todo, affected, changed>>

Next ==
    \/ \E r \in Requests :
          \/ Start(r) \/ EraseStore(r) \/ CheckRow(r) \/ EraseRow(r)
          \/ DbFails(r) \/ Invalidate(r)
    \/ \E f \in Requests \cup Imports : RefreshTenant(f) \/ EndRefresh(f)
    \/ \E f \in Imports : Import(f)
    \/ SyncRead \/ Restart

Spec == Init /\ [][Next]_vars

-----------------------------------------------------------------------------
(* The database was seeded from the bundled data: a subject has a row in each tenant *)
(* the bundled data name.                                                            *)
SeedsAgree == \A s \in Subjects : s.rows = s.bundled \cap Tenants

Working == {"erase store", "check row", "erase row", "invalidate", "refresh"}

ProcessTypes == subject \in Subjects /\ restarts \in 0 .. MaxRestarts

DataTypes ==
    /\ store \in Status \cup {None} /\ rows \in [Councils -> Status \cup {None}]
    /\ trail \subseteq [by : Requests, at : Councils \cup {"store"}]

RequestTypes ==
    /\ pc \in [Requests -> Answers \cup Working \cup {"idle", "lost"}]
    /\ todo \in [Requests -> SUBSET Councils]
    /\ affected \in [Requests -> SUBSET Councils] /\ changed \in [Requests -> BOOLEAN]

CacheTypes ==
    /\ fills \in [Requests \cup Imports ->
                    {None} \cup [todo : SUBSET Councils, found : SUBSET Councils]]
    /\ context \in {None} \cup SUBSET Councils

\* A request that is at a row has one left to be at.
HasRowLeft == \A r \in Requests : pc[r] \in {"check row", "erase row"} => todo[r] # {}

\* Type invariant.
TypeOK == ProcessTypes /\ DataTypes /\ RequestTypes /\ CacheTypes /\ HasRowLeft

(***************************************************************************)
(* "A FULL data-subject erasure reaches the owner in EVERY tenant they     *)
(* appear in": once any request is answered ok no row holds the subject's  *)
(* details, whatever failed, was cut short or ran beside it.  It takes a   *)
(* role that bypasses row-level security; with the one that production     *)
(* asks for it fails, as the check before each row then finds none.        *)
(***************************************************************************)
AnsweredMeansErased ==
    \A r \in Requests : pc[r] = "ok" => \A t \in Councils : rows[t] # "pii"

(***************************************************************************)
(* "A council_admin may NEVER trigger erasure of a shared owner": what a   *)
(* request has erased, in the store or in a row, its caller was entitled   *)
(* to erase: no tenant but the council admin's own has the subject.        *)
(***************************************************************************)
SharedOwnersAreProtected ==
    \A e \in trail :
        \/ Session[e.by].role = "platform_admin"
        \/ /\ Session[e.by].role = "council_admin"
           /\ {t \in Councils : rows[t] # None} \subseteq {Session[e.by].tenantId}

(***************************************************************************)
(* A row is a tombstone exactly when the chain of its own tenant has the   *)
(* audit row of an erasure, however often requests fail, are lost or meet. *)
(***************************************************************************)
TrailIsComplete ==
    \A t \in Councils : rows[t] = "erased" <=> \E e \in trail : e.at = t

(***************************************************************************)
(* An ok answer names the tenants whose trail the request is in, and says  *)
(* alreadyErased when it is in none; a refused request has erased nothing. *)
(***************************************************************************)
AnswersAreTruthful ==
    \A r \in Requests :
        LET at == {e.at : e \in {x \in trail : x.by = r}}
        IN  /\ pc[r] = "ok" => affected[r] = at \ {"store"} /\ (changed[r] <=> at # {})
            /\ pc[r] \in {"forbidden", "not_found", "conflict"} => at = {}
=============================================================================
