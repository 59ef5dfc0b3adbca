------------------------- MODULE CommitTokensProofs -------------------------
(***************************************************************************)
(* Safety of the commit-token store for any sets of tokens, mutations,     *)
(* operations and principals, any TTL and any length of run.               *)
(***************************************************************************)
EXTENDS CommitTokens, TLAPS

\* A live entry is what its preview filed, and its token was never used.
EntriesArePreviews ==
    \A tok \in Tokens :
        entries[tok] # None =>
            /\ previews[tok] # None
            /\ entries[tok].mutation = previews[tok].mutation
            /\ entries[tok].binding = previews[tok].by
            /\ entries[tok].expiresAtMs = previews[tok].at + TtlMs
            /\ ~Used(tok)

\* Until it is used or runs out, a previewed token stays in the store.
LivePreviewsAreEntries ==
    \A tok \in Tokens :
        (previews[tok] # None /\ ~Used(tok) /\ now < previews[tok].at + TtlMs)
            => entries[tok] # None

IInv == /\ TypeOK
        /\ EntriesArePreviews
        /\ LivePreviewsAreEntries
        /\ CommitsOnlyAsPreviewed
        /\ SingleUse

LEMMA InitIInv == Init => IInv
<1> SUFFICES ASSUME Init PROVE IInv
  OBVIOUS
<1> USE DEF Init
<1>1. TypeOK
  BY DEF TypeOK
<1>2. EntriesArePreviews /\ LivePreviewsAreEntries
  BY DEF EntriesArePreviews, LivePreviewsAreEntries
<1>3. CommitsOnlyAsPreviewed /\ SingleUse
  BY DEF CommitsOnlyAsPreviewed, SingleUse
<1> QED
  BY <1>1, <1>2, <1>3 DEF IInv

\* A preview's mutation and binding stay with its token for good.
LEMMA IssueIInv ==
  ASSUME IInv, NEW tok \in Tokens, NEW mutation \in Mutations,
         NEW p \in Principals, Issue(tok, mutation, p)
  PROVE  IInv'
<1> USE TokenAssumption DEF IInv
<1>1. TypeOK'
  <2>1. now + TtlMs \in Nat
    BY DEF TypeOK
  <2>2. [mutation |-> mutation, expiresAtMs |-> now + TtlMs, binding |-> p] \in Entry
    BY <2>1 DEF Entry
  <2>3. [mutation |-> mutation, at |-> now, by |-> p] \in Preview
    BY DEF Preview, TypeOK
  <2> QED
    BY <2>2, <2>3 DEF TypeOK, Issue, Gc
<1>2. ~Used(tok) /\ \A t \in Tokens : Used(t)' <=> Used(t)
  BY DEF Issue, Used, CommitsOnlyAsPreviewed
<1>3. ASSUME NEW t \in Tokens, t # tok
      PROVE  /\ previews'[t] = previews[t]
             /\ entries'[t] = IF Expired(t) THEN None ELSE entries[t]
  BY <1>3 DEF Issue, Gc, TypeOK
<1>4. /\ previews'[tok] = [mutation |-> mutation, at |-> now, by |-> p]
      /\ entries'[tok] = [mutation |-> mutation, expiresAtMs |-> now + TtlMs, binding |-> p]
  BY DEF Issue, Gc, TypeOK
<1>5. /\ [mutation |-> mutation, at |-> now, by |-> p] # None
      /\ [mutation |-> mutation, expiresAtMs |-> now + TtlMs, binding |-> p] # None
  BY DEF Preview, Entry, TypeOK
<1>6. EntriesArePreviews'
  <2> SUFFICES ASSUME NEW t \in Tokens, entries'[t] # None
               PROVE  /\ previews'[t] # None
                      /\ entries'[t].mutation = previews'[t].mutation
                      /\ entries'[t].binding = previews'[t].by
                      /\ entries'[t].expiresAtMs = previews'[t].at + TtlMs
                      /\ ~Used(t)'
    BY DEF EntriesArePreviews
  <2>1. CASE t = tok
    BY <2>1, <1>2, <1>4, <1>5
  <2>2. CASE t # tok
    BY <2>2, <1>2, <1>3 DEF EntriesArePreviews
  <2> QED
    BY <2>1, <2>2
<1>7. LivePreviewsAreEntries'
  <2> SUFFICES ASSUME NEW t \in Tokens, previews'[t] # None, ~Used(t)',
                      now' < previews'[t].at + TtlMs
               PROVE  entries'[t] # None
    BY DEF LivePreviewsAreEntries
  <2>1. CASE t = tok
    BY <2>1, <1>4, <1>5
  <2>2. CASE t # tok
    <3>1. /\ previews[t] # None
          /\ ~Used(t)
          /\ now < previews[t].at + TtlMs
      BY <2>2, <1>2, <1>3 DEF Issue
    <3>2. entries[t] # None /\ entries[t].expiresAtMs = previews[t].at + TtlMs
      BY <3>1 DEF LivePreviewsAreEntries, EntriesArePreviews
    <3>3. previews[t].at \in Nat
      BY <3>1 DEF TypeOK, Preview
    <3>4. ~Expired(t)
      BY <3>1, <3>2, <3>3 DEF Expired, TypeOK
    <3> QED
      BY <3>2, <3>4, <2>2, <1>3
  <2> QED
    BY <2>1, <2>2
<1>8. CommitsOnlyAsPreviewed'
  <2> SUFFICES ASSUME NEW u \in uses
               PROVE  /\ previews'[u.token] # None
                      /\ u.mutation = previews'[u.token].mutation
                      /\ u.by = previews'[u.token].by
                      /\ u.at < previews'[u.token].at + TtlMs
    BY DEF CommitsOnlyAsPreviewed, Issue
  <2>1. u.token \in Tokens /\ u.token # tok
    BY DEF CommitsOnlyAsPreviewed, Issue, TypeOK, Use
  <2> QED
    BY <2>1, <1>3 DEF CommitsOnlyAsPreviewed
<1>9. SingleUse'
  BY DEF SingleUse, Issue
<1> QED
  BY <1>1, <1>6, <1>7, <1>8, <1>9

LEMMA ConsumeIInv ==
  ASSUME IInv, NEW tok \in Tokens, NEW operation \in Operations,
         NEW p \in Principals, Consume(tok, operation, p)
  PROVE  IInv'
<1> DEFINE verdict == Verdict(tok, operation, p)
           use == [token |-> tok, mutation |-> entries[tok].mutation,
                   at |-> now, by |-> p]
<1> USE TokenAssumption DEF IInv
\* The entry of a token that is neither used now nor expired stays.
<1>1. ASSUME NEW t \in Tokens
      PROVE  /\ entries'[t] \in {entries[t], None}
             /\ entries[t] # None /\ ~Expired(t) /\ ~(t = tok /\ verdict = "ok")
                  => entries'[t] = entries[t]
             /\ t = tok /\ verdict = "ok" => entries'[t] = None
  <2>1. verdict = "unknown" => entries[tok] = None
    BY DEF Verdict
  <2>2. verdict = "expired" => Expired(tok)
    BY DEF Verdict
  <2>3. CASE verdict = "unknown"
    BY <2>1, <2>3 DEF Consume, Remaining, Gc, TypeOK
  <2>4. CASE verdict = "expired"
    BY <2>2, <2>4 DEF Consume, Remaining, Without, TypeOK
  <2>5. CASE verdict = "ok"
    BY <2>5 DEF Consume, Remaining, Without, TypeOK
  <2>6. CASE verdict \notin {"unknown", "expired", "ok"}
    BY <2>6 DEF Consume, Remaining
  <2> QED
    BY <2>3, <2>4, <2>5, <2>6
<1>2. /\ now' = now
      /\ previews' = previews
      /\ uses' = IF verdict = "ok" THEN uses \cup {use} ELSE uses
  BY DEF Consume
\* What an ok answer has checked.
<1>3. ASSUME verdict = "ok"
      PROVE  /\ entries[tok] # None
             /\ ~Expired(tok)
             /\ entries[tok].binding = p
  BY <1>3 DEF Verdict
<1>4. ASSUME verdict = "ok"
      PROVE  /\ use \in Use
             /\ previews[tok] # None
             /\ use.mutation = previews[tok].mutation
             /\ use.by = previews[tok].by
             /\ use.at < previews[tok].at + TtlMs
             /\ ~Used(tok)
  <2>1. entries[tok] \in Entry
    BY <1>3, <1>4 DEF TypeOK
  <2>2. now < entries[tok].expiresAtMs
    BY <1>3, <1>4, <2>1 DEF Expired, TypeOK, Entry
  <2> QED
    BY <1>3, <1>4, <2>1, <2>2 DEF EntriesArePreviews, Use, Entry, TypeOK
<1>5. ASSUME NEW t \in Tokens
      PROVE  Used(t)' <=> Used(t) \/ (t = tok /\ verdict = "ok")
  <2>1. CASE verdict = "ok"
    <3>1. uses' = uses \cup {use} /\ use.token = tok
      BY <1>2, <2>1
    <3> HIDE DEF use, verdict
    <3> QED
      BY <3>1, <2>1 DEF Used
  <2>2. CASE verdict # "ok"
    <3> HIDE DEF use, verdict
    <3> QED
      BY <1>2, <2>2 DEF Used
  <2> QED
    BY <2>1, <2>2
<1>6. TypeOK'
  <2>1. \A t \in Tokens : entries'[t] \in Entry \cup {None}
    BY <1>1 DEF TypeOK
  <2>2. entries' \in [Tokens -> Entry \cup {None}]
    <3>1. Gc \in [Tokens -> Entry \cup {None}]
      BY DEF Gc, TypeOK
    <3>2. Without(tok) \in [Tokens -> Entry \cup {None}]
      BY DEF Without, TypeOK
    <3> QED
      BY <3>1, <3>2 DEF Consume, Remaining, TypeOK
  <2>3. uses' \subseteq Use
    BY <1>2, <1>4 DEF TypeOK
  <2> QED
    BY <1>2, <2>2, <2>3 DEF TypeOK
<1>7. EntriesArePreviews'
  BY <1>1, <1>2, <1>5 DEF EntriesArePreviews
<1>8. LivePreviewsAreEntries'
  <2> SUFFICES ASSUME NEW t \in Tokens, previews[t] # None, ~Used(t)',
                      now < previews[t].at + TtlMs
               PROVE  entries'[t] # None
    BY <1>2 DEF LivePreviewsAreEntries
  <2>1. entries[t] # None /\ entries[t].expiresAtMs = previews[t].at + TtlMs
    BY <1>5 DEF LivePreviewsAreEntries, EntriesArePreviews
  <2>2. previews[t].at \in Nat
    BY DEF TypeOK, Preview
  <2>3. ~Expired(t)
    BY <2>1, <2>2 DEF Expired, TypeOK
  <2> QED
    BY <2>1, <2>3, <1>1, <1>5
<1>9. CommitsOnlyAsPreviewed'
  BY <1>2, <1>4 DEF CommitsOnlyAsPreviewed
<1>10. SingleUse'
  BY <1>2, <1>4 DEF SingleUse, Used
<1> QED
  BY <1>6, <1>7, <1>8, <1>9, <1>10

LEMMA TickIInv == ASSUME IInv, Tick PROVE IInv'
<1> USE TokenAssumption DEF IInv, Tick
<1>1. TypeOK'
  BY DEF TypeOK
<1>2. EntriesArePreviews'
  BY DEF EntriesArePreviews, Used
<1>3. LivePreviewsAreEntries'
  BY DEF LivePreviewsAreEntries, Used, TypeOK, Preview
<1>4. CommitsOnlyAsPreviewed' /\ SingleUse'
  BY DEF CommitsOnlyAsPreviewed, SingleUse
<1> QED
  BY <1>1, <1>2, <1>3, <1>4

(***************************************************************************)
(* The strengthened invariant holds in every reachable state.              *)
(***************************************************************************)
THEOREM Inductive == Spec => []IInv
<1>1. IInv /\ [Next]_vars => IInv'
  <2> SUFFICES ASSUME IInv, [Next]_vars PROVE IInv'
    OBVIOUS
  <2>1. CASE Tick
    BY <2>1, TickIInv
  <2>2. ASSUME NEW tok \in Tokens, NEW p \in Principals, NEW mutation \in Mutations,
               Issue(tok, mutation, p)
        PROVE  IInv'
    BY <2>2, IssueIInv
  <2>3. ASSUME NEW tok \in Tokens, NEW p \in Principals, NEW operation \in Operations,
               Consume(tok, operation, p)
        PROVE  IInv'
    BY <2>3, ConsumeIInv
  <2>4. CASE UNCHANGED vars
    BY <2>4 DEF vars, IInv, TypeOK, EntriesArePreviews, LivePreviewsAreEntries,
                CommitsOnlyAsPreviewed, SingleUse, Used
  <2> QED
    BY <2>1, <2>2, <2>3, <2>4 DEF Next
<1> QED
  BY <1>1, InitIInv, PTL DEF Spec

(***************************************************************************)
(* Every entry, preview and use keeps its shape.                           *)
(***************************************************************************)
THEOREM TypeCorrect == Spec => []TypeOK
<1>1. IInv => TypeOK
  BY DEF IInv
<1> QED
  BY <1>1, Inductive, PTL

(***************************************************************************)
(* A token is good for one commit: consume deletes it as it answers ok.    *)
(***************************************************************************)
THEOREM OneCommitPerToken == Spec => []SingleUse
<1>1. IInv => SingleUse
  BY DEF IInv
<1> QED
  BY <1>1, Inductive, PTL

(***************************************************************************)
(* What is committed is what the same principal previewed, within a TTL.   *)
(***************************************************************************)
THEOREM CommitMatchesPreview == Spec => []CommitsOnlyAsPreviewed
<1>1. IInv => CommitsOnlyAsPreviewed
  BY DEF IInv
<1> QED
  BY <1>1, Inductive, PTL

(***************************************************************************)
(* A preview is honoured until it is used or its TTL has passed.           *)
(***************************************************************************)
THEOREM PreviewIsHonoured == Spec => []PreviewStaysUsable
<1>1. IInv => PreviewStaysUsable
  <2> SUFFICES ASSUME IInv, NEW tok \in Tokens, previews[tok] # None, ~Used(tok),
                      now < previews[tok].at + TtlMs
               PROVE  Verdict(tok, previews[tok].mutation.operation, previews[tok].by) = "ok"
    BY DEF PreviewStaysUsable
  <2> USE TokenAssumption DEF IInv
  <2>1. /\ entries[tok] # None
        /\ entries[tok].mutation = previews[tok].mutation
        /\ entries[tok].binding = previews[tok].by
        /\ entries[tok].expiresAtMs = previews[tok].at + TtlMs
    BY DEF LivePreviewsAreEntries, EntriesArePreviews
  <2>2. previews[tok].at \in Nat
    BY DEF TypeOK, Preview
  <2>3. ~Expired(tok)
    BY <2>1, <2>2 DEF Expired, TypeOK
  <2> QED
    BY <2>1, <2>3 DEF Verdict
<1> QED
  BY <1>1, Inductive, PTL
=============================================================================
