---------------------------- MODULE CommitTokens ----------------------------
(***************************************************************************)
(* The store of commit tokens that guards every two-phase mutating tool    *)
(* (packages/adapter-demo/src/runtime/commitTokens.ts).  A preview issues  *)
(* a token for the mutation it has shown; a confirm consumes it and gets   *)
(* that mutation back.  issue and consume run to completion on one event   *)
(* loop, so each is one action.                                            *)
(*                                                                         *)
(* A Map entry that is absent is None.  previews and uses are history      *)
(* variables: what was ever issued, and what consume has handed out.       *)
(***************************************************************************)
EXTENDS Naturals

CONSTANTS
    Tokens,         \* the UUIDs randomUUID will return, each one at most once
    Mutations,      \* the mutations a preview may capture
    Operations,     \* the operation kinds of mutations
    Principals,     \* the (tenantId, actorId) pairs of the sessions
    TtlMs,          \* COMMIT_TOKEN_TTL_MS, in ticks of the model's clock
    MaxTime,        \* the run stops looking when the clock gets there
    None

Entry == [mutation : Mutations, expiresAtMs : Nat, binding : Principals]
Preview == [mutation : Mutations, at : Nat, by : Principals]
Use == [token : Tokens, mutation : Mutations, at : Nat, by : Principals]

ASSUME TokenAssumption ==
    /\ \A m \in Mutations : m.operation \in Operations
    /\ TtlMs \in Nat \ {0}
    /\ MaxTime \in Nat
    /\ None \notin Entry
    /\ None \notin Preview

VARIABLES
    now,        \* Date.now()
    entries,    \* the Map of live tokens
    previews,   \* history: per token, the preview it was issued for
    uses        \* history: the consumes that answered ok

vars == <<now, entries, previews, uses>>

Init ==
    /\ now = 0
    /\ entries = [tok \in Tokens |-> None]
    /\ previews = [tok \in Tokens |-> None]
    /\ uses = {}

-----------------------------------------------------------------------------
Expired(tok) == entries[tok] # None /\ entries[tok].expiresAtMs <= now

\* Expiry with the boundary instant still accepted.
ExpiredLate(tok) == entries[tok] # None /\ entries[tok].expiresAtMs < now

\* gc: what the sweep of the expired entries leaves.
Gc == [tok \in Tokens |-> IF Expired(tok) THEN None ELSE entries[tok]]

Without(tok) == [entries EXCEPT ![tok] = None]

\* issue: sweep, then file the mutation under a fresh token.
Issue(tok, mutation, principal) ==
    /\ previews[tok] = None
    /\ entries' = [Gc EXCEPT ![tok] =
                     [mutation |-> mutation, expiresAtMs |-> now + TtlMs,
                      binding |-> principal]]
    /\ previews' = [previews EXCEPT ![tok] =
                     [mutation |-> mutation, at |-> now, by |-> principal]]
    /\ UNCHANGED <<now, uses>>

\* A check that compares the tenants of two principals only.
VerdictByTenant(tok, operation, principal) ==
    IF entries[tok] = None THEN "unknown"
    ELSE IF Expired(tok) THEN "expired"
    ELSE IF entries[tok].mutation.operation # operation THEN "operation_mismatch"
    ELSE IF entries[tok].binding.tenantId # principal.tenantId THEN "binding_mismatch"
    ELSE "ok"

\* What consume answers: its early returns, in their order.
Verdict(tok, operation, principal) ==
    IF entries[tok] = None THEN "unknown"
    ELSE IF Expired(tok) THEN "expired"
    ELSE IF entries[tok].mutation.operation # operation THEN "operation_mismatch"
    ELSE IF entries[tok].binding # principal THEN "binding_mismatch"
    ELSE "ok"

\* A refused principal's attempt destroys the token, too.
RemainingAlways(tok, verdict) == IF verdict = "unknown" THEN Gc ELSE Without(tok)

\* A success that forgets the delete.
RemainingOnSuccess(tok, verdict) ==
    IF verdict = "expired" THEN Without(tok) ELSE entries

\* What each answer leaves in the store: only an unknown token sweeps it.
Remaining(tok, verdict) ==
    CASE verdict = "unknown" -> Gc
      [] verdict \in {"expired", "ok"} -> Without(tok)
      [] OTHER -> entries

Consume(tok, operation, principal) ==
    LET verdict == Verdict(tok, operation, principal) IN
    /\ entries' = Remaining(tok, verdict)
    /\ uses' = IF verdict = "ok"
               THEN uses \cup {[token |-> tok, mutation |-> entries[tok].mutation,
                                at |-> now, by |-> principal]}
               ELSE uses
    /\ UNCHANGED <<now, previews>>

Tick ==
    /\ now < MaxTime
    /\ now' = now + 1
    /\ UNCHANGED <<entries, previews, uses>>

Next ==
    \/ Tick
    \/ \E tok \in Tokens, p \in Principals :
          \/ \E mutation \in Mutations : Issue(tok, mutation, p)
          \/ \E operation \in Operations : Consume(tok, operation, p)

Spec == Init /\ [][Next]_vars

-----------------------------------------------------------------------------
Used(tok) == \E u \in uses : u.token = tok

\* Type invariant: every live entry, preview and use has its shape.
TypeOK ==
    /\ now \in Nat
    /\ entries \in [Tokens -> Entry \cup {None}]
    /\ previews \in [Tokens -> Preview \cup {None}]
    /\ uses \subseteq Use

(***************************************************************************)
(* A token is good for one commit: no two consumes of it ever answer ok,   *)
(* whatever is issued, refused, swept or retried in between.               *)
(***************************************************************************)
SingleUse == \A u, v \in uses : u.token = v.token => u = v

(***************************************************************************)
(* What is committed is what was previewed: a consume that answers ok      *)
(* returns the very mutation its preview captured, to the tenant and actor *)
(* that previewed it, less than one TTL after the preview.                 *)
(***************************************************************************)
CommitsOnlyAsPreviewed ==
    \A u \in uses :
        /\ previews[u.token] # None
        /\ u.mutation = previews[u.token].mutation
        /\ u.by = previews[u.token].by
        /\ u.at < previews[u.token].at + TtlMs

(***************************************************************************)
(* A preview is honoured: until its token is used or its TTL has passed,   *)
(* the previewing principal can commit it.  Neither the sweeper nor any    *)
(* attempt of another principal or for another operation takes it away.    *)
(***************************************************************************)
PreviewStaysUsable ==
    \A tok \in Tokens :
        (previews[tok] # None /\ ~Used(tok) /\ now < previews[tok].at + TtlMs)
            => Verdict(tok, previews[tok].mutation.operation, previews[tok].by) = "ok"
=============================================================================
