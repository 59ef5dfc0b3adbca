------------------------ MODULE SpatialLayersProofs ------------------------
(***************************************************************************)
(* What "queriedAt" of the spatial proxy means, for any layers, limits,    *)
(* requests, timeouts and lifetimes.  The argument follows an answer from  *)
(* the attempt that waits for it into the cache, and an ETag from the      *)
(* answer that brought it to the 304 that relies on it: either the ETag on *)
(* record is still the one the 304 confirms, or it was recorded while that *)
(* 304 was under way, by an answer that was young then.                    *)
(*                                                                         *)
(* And what the limiter's fixed windows admit around their ends, for any   *)
(* window and budget: the requests of the length of a window belong to the *)
(* window that is open and to the one before it.                           *)
(***************************************************************************)
EXTENDS SpatialLayers, FiniteSetTheorems, TLAPS

Entries == [ts : Nat, version : Nat, successUrl : Urls]
Replies == {NotModified} \cup [status : {200}, version : Nat, etag : Nat \cup {None}]
Conditionals == [kind : {"conditional"}, limit : Limits, url : Urls, etag : Nat,
                 cached : Entries, sentAt : Nat, reply : Replies \cup {None}]
Candidates == [kind : {"candidate"}, limit : Limits, index : DOMAIN CandidateLayers,
               url : Urls, sentAt : Nat, reply : Replies \cup {None}]
Attempts == Conditionals \cup Candidates

Types ==
    /\ now \in Nat
    /\ cache \in Entries \cup {None}
    /\ etags \in [Urls -> Nat \cup {None}]
    /\ waiting \in [Requests -> Attempts \cup {None}]

\* Versions come out one after the other, none after now.
Timeline(out, n) ==
    /\ out \in Seq(Nat) /\ Len(out) >= 1
    /\ \A i \in 1 .. Len(out) : out[i] <= n
    /\ \A i, j \in 1 .. Len(out) : i <= j => out[i] <= out[j]

\* Version v has come out, and no later one had at s.
Since(out, v, s) == v \in 1 .. Len(out) /\ (v < Len(out) => s <= out[v + 1])

AnswerOK(a, out) ==
    a.kind = "candidate" /\ a.reply # None =>
        Since(out, a.reply.version, a.sentAt) /\ a.reply.etag \in {a.reply.version, None}

ConfirmationOK(a, out, etag) ==
    a.kind = "conditional" =>
        /\ a.cached.successUrl = a.url
        /\ a.cached.version \in 1 .. Len(out)
        /\ a.etag \in 1 .. Len(out)
        /\ etag # None
        /\ etag = a.etag \/ Since(out, etag, a.sentAt - TimeoutMs)
        /\ a.reply = NotModified =>
              a.cached.version <= a.etag /\ Since(out, a.etag, a.sentAt)

\* An attempt at time n, over what its layer published and its url's ETag.
AttemptOK(a, n, out, etag) ==
    /\ a.sentAt <= n /\ n <= a.sentAt + TimeoutMs
    /\ AnswerOK(a, out)
    /\ ConfirmationOK(a, out, etag)

EntryOK(c, n, out) == c.ts <= n /\ c.version \in 1 .. Len(out)

HonestEntry(c, out, etag) ==
    \/ out[c.version] <= c.ts
       /\ (c.version < Len(out) => c.ts <= out[c.version + 1] + 2 * TimeoutMs)
    \/ etag \notin {None} \cup 0 .. c.version

Published == published \in [LayerIds -> Seq(Nat)]
             /\ \A l \in LayerIds : Timeline(published[l], now)
EtagsInv == \A u \in Urls : etags[u] # None => etags[u] \in 1 .. Len(published[u.layer])
AttemptsInv ==
    \A r \in Requests : waiting[r] # None =>
        AttemptOK(waiting[r], now, published[waiting[r].url.layer], etags[waiting[r].url])
CacheInv ==
    cache # None =>
        /\ EntryOK(cache, now, published[cache.successUrl.layer])
        /\ HonestEntry(cache, published[cache.successUrl.layer], etags[cache.successUrl])

IInv == Types /\ Published /\ EtagsInv /\ AttemptsInv /\ CacheInv

-----------------------------------------------------------------------------
(* Time passes; a version comes out; an ETag is recorded. *)

LEMMA TimelineGrows ==
  ASSUME NEW n \in Nat, NEW out, Timeline(out, n)
  PROVE  /\ Timeline(out, n + 1)
         /\ Append(out, n) \in Seq(Nat) /\ Timeline(Append(out, n), n)
  BY DEF Timeline

LEMMA SinceStays ==
  ASSUME NEW n \in Nat, NEW out, Timeline(out, n), NEW v, NEW s \in Int, s <= n,
         Since(out, v, s)
  PROVE  Since(Append(out, n), v, s)
  BY DEF Since, Timeline

LEMMA AttemptOutlivesTick ==
  ASSUME NEW n \in Nat, NEW out, NEW etag, NEW a \in Attempts,
         AttemptOK(a, n, out, etag), n - a.sentAt < TimeoutMs
  PROVE  AttemptOK(a, n + 1, out, etag)
<1>1. a.sentAt \in Nat
  BY DEF Attempts, Conditionals, Candidates
<1> QED
  BY <1>1, SpatialAssumption DEF AttemptOK

LEMMA AttemptOutlivesVersion ==
  ASSUME NEW n \in Nat, NEW out, Timeline(out, n), NEW etag, NEW a \in Attempts,
         AttemptOK(a, n, out, etag)
  PROVE  AttemptOK(a, n, Append(out, n), etag)
<1> DEFINE new == Append(out, n)
<1>1. a.sentAt \in Nat /\ a.sentAt <= n /\ TimeoutMs \in Nat
  BY SpatialAssumption DEF Attempts, Conditionals, Candidates, AttemptOK
<1>2. \A v : v \in 1 .. Len(out) => v \in 1 .. Len(new)
  BY DEF Timeline
<1>3. \A v : Since(out, v, a.sentAt) => Since(new, v, a.sentAt)
  BY <1>1, SinceStays
<1>4. \A v : Since(out, v, a.sentAt - TimeoutMs) => Since(new, v, a.sentAt - TimeoutMs)
  BY <1>1, SinceStays
<1> HIDE DEF new
<1>5. AnswerOK(a, new)
  BY <1>3 DEF AttemptOK, AnswerOK
<1>6. ConfirmationOK(a, new, etag)
  BY <1>2, <1>3, <1>4 DEF AttemptOK, ConfirmationOK
<1> QED
  BY <1>1, <1>5, <1>6 DEF AttemptOK, new

LEMMA AttemptOutlivesEtag ==
  ASSUME NEW n \in Nat, NEW out, Timeline(out, n), NEW etag, NEW a \in Attempts,
         AttemptOK(a, n, out, etag), NEW e \in Nat, e # None, NEW s \in Nat,
         Since(out, e, s), n <= s + TimeoutMs
  PROVE  AttemptOK(a, n, out, e)
<1>1. a.sentAt \in Nat /\ a.sentAt <= n /\ TimeoutMs \in Nat
  BY SpatialAssumption DEF Attempts, Conditionals, Candidates, AttemptOK
<1>2. Since(out, e, a.sentAt - TimeoutMs)
  BY <1>1 DEF Since, Timeline
<1> QED
  BY <1>2 DEF AttemptOK, ConfirmationOK

-----------------------------------------------------------------------------
LEMMA InitIInv == Init => IInv
<1> SUFFICES ASSUME Init PROVE IInv
  OBVIOUS
<1> USE DEF Init
<1>1. Types
  BY DEF Types
<1>2. Published
  BY DEF Published, Timeline
<1>3. EtagsInv /\ AttemptsInv /\ CacheInv
  BY DEF EtagsInv, AttemptsInv, CacheInv
<1> QED
  BY <1>1, <1>2, <1>3 DEF IInv

\* Urls and attempts are what they should be.
LEMMA UrlsHaveLayers ==
  /\ \A u \in Urls : u.layer \in LayerIds
  /\ \A a \in Attempts : a.url \in Urls /\ a.sentAt \in Nat /\ a.limit \in Limits
  /\ \A c \in Entries : c.successUrl \in Urls /\ c.ts \in Nat /\ c.version \in Nat
  BY DEF Urls, Attempts, Conditionals, Candidates, Entries

LEMMA CandidateIsFresh ==
  ASSUME now \in Nat, NEW limit \in Limits, NEW i \in DOMAIN CandidateLayers,
         NEW out, NEW etag
  PROVE  Candidate(limit, i) \in Attempts /\ AttemptOK(Candidate(limit, i), now, out, etag)
<1>1. CandidateLayers[i] \in LayerIds
  BY DEF LayerIds
<1> QED
  BY <1>1, SpatialAssumption DEF Candidate, Attempts, Candidates, Urls, AttemptOK, AnswerOK,
     ConfirmationOK

\* A step that changes one attempt, and of the rest nothing, has that one to show.
LEMMA OneAttempt ==
  ASSUME IInv, NEW r \in Requests, NEW a, UNCHANGED <<now, published, cache, etags>>,
         waiting' = [waiting EXCEPT ![r] = a],
         a = None \/ (a \in Attempts /\ AttemptOK(a, now, published[a.url.layer], etags[a.url]))
  PROVE  IInv'
<1>1. Types'
  BY DEF IInv, Types
<1>2. Published' /\ EtagsInv' /\ CacheInv'
  BY DEF IInv, Published, EtagsInv, CacheInv
<1>3. AttemptsInv'
  BY DEF IInv, AttemptsInv, Types
<1> QED
  BY <1>1, <1>2, <1>3 DEF IInv

LEMMA FirstCandidate ==
  1 \in DOMAIN CandidateLayers
  /\ \A i \in DOMAIN CandidateLayers :
        i \in Nat /\ (i < Len(CandidateLayers) => i + 1 \in DOMAIN CandidateLayers)
  BY SpatialAssumption

LEMMA AskInv ==
  ASSUME IInv, NEW r \in Requests, NEW c \in Clients, NEW limit \in Limits, Ask(r, c, limit)
  PROVE  IInv'
<1>1. now \in Nat /\ TimeoutMs \in Nat
  BY SpatialAssumption DEF IInv, Types
<1>2. CASE cache # None /\ etags[cache.successUrl] # None
  <2> DEFINE a == Conditional(limit)  u == cache.successUrl  out == published[u.layer]
  <2>1. cache \in Entries /\ u \in Urls /\ etags[u] \in Nat
    BY <1>2, UrlsHaveLayers DEF IInv, Types
  <2>2. a \in Conditionals
    BY <1>1, <2>1 DEF Conditional, Conditionals
  <2>3. cache.version \in 1 .. Len(out) /\ etags[u] \in 1 .. Len(out)
    BY <1>2, <2>1 DEF IInv, CacheInv, EntryOK, EtagsInv
  <2>4. /\ a.kind = "conditional" /\ a.cached = cache /\ a.url = u /\ a.etag = etags[u]
        /\ a.sentAt = now /\ a.reply = None
    BY DEF Conditional
  <2>5. a.reply # NotModified
    BY <2>4, SpatialAssumption
  <2> HIDE DEF a, u, out
  <2>6. AttemptOK(a, now, out, etags[u])
    BY <1>1, <1>2, <2>1, <2>3, <2>4, <2>5 DEF AttemptOK, AnswerOK, ConfirmationOK, u
  <2>7. waiting' = [waiting EXCEPT ![r] = a] /\ UNCHANGED <<now, published, cache, etags>>
    BY <1>2 DEF Ask, a
  <2> QED
    BY <2>2, <2>4, <2>6, <2>7, OneAttempt DEF Attempts, out
<1>3. CASE ~(cache # None /\ etags[cache.successUrl] # None)
  <2> DEFINE a == Candidate(limit, 1)
  <2>1. waiting' = [waiting EXCEPT ![r] = a] /\ UNCHANGED <<now, published, cache, etags>>
    BY <1>3 DEF Ask
  <2>2. a \in Attempts /\ AttemptOK(a, now, published[a.url.layer], etags[a.url])
    BY <1>1, FirstCandidate, CandidateIsFresh
  <2> HIDE DEF a
  <2> QED
    BY <2>1, <2>2, OneAttempt
<1> QED
  BY <1>2, <1>3

\* The attempt a request waits for, with what the invariant says of it.
LEMMA AttemptOf ==
  ASSUME IInv, NEW r \in Requests, waiting[r] # None
  PROVE  /\ waiting[r] \in Attempts /\ waiting[r].url \in Urls
         /\ waiting[r].url.layer \in LayerIds
         /\ Timeline(published[waiting[r].url.layer], now)
         /\ AttemptOK(waiting[r], now, published[waiting[r].url.layer], etags[waiting[r].url])
  BY UrlsHaveLayers DEF IInv, Types, AttemptsInv, Published

LEMMA ReplyInv ==
  ASSUME IInv, NEW r \in Requests, Reply(r) PROVE IInv'
<1> DEFINE a == waiting[r]  out == published[a.url.layer]  held == Len(out)
<1>1. a # None /\ a.reply = None /\ UNCHANGED <<now, published, cache, etags>>
  BY DEF Reply
<1>2. /\ a \in Attempts /\ AttemptOK(a, now, out, etags[a.url]) /\ Timeline(out, now)
  BY <1>1, AttemptOf
<1>3. held \in 1 .. Len(out) /\ held \in Nat /\ Since(out, held, a.sentAt)
  BY <1>2 DEF Timeline, Since
<1> HIDE DEF held
<1>4. CASE a.kind = "conditional" /\ a.etag = held
  <2> DEFINE b == [a EXCEPT !.reply = NotModified]
  <2>1. a \in Conditionals
    BY <1>2, <1>4 DEF Attempts, Candidates
  <2>2. /\ b \in Conditionals /\ b.kind = "conditional" /\ b.url = a.url /\ b.etag = held
        /\ b.cached = a.cached /\ b.sentAt = a.sentAt /\ b.reply = NotModified
    BY <1>4, <2>1 DEF Conditionals, Replies
  <2>3. waiting' = [waiting EXCEPT ![r] = b]
    BY <1>4 DEF Reply, held
  <2> HIDE DEF b
  <2>4. a.cached.version <= held
    BY <1>2, <1>4 DEF AttemptOK, ConfirmationOK, held
  <2>5. AttemptOK(b, now, out, etags[b.url])
    BY <1>2, <1>3, <1>4, <2>2, <2>4 DEF AttemptOK, AnswerOK, ConfirmationOK
  <2> QED
    BY <1>1, <2>2, <2>3, <2>5, OneAttempt DEF Attempts
<1>5. CASE ~(a.kind = "conditional" /\ a.etag = held)
  <2>1. PICK etag \in {held, None} :
           waiting' = [waiting EXCEPT ![r].reply =
                         [status |-> 200, version |-> held, etag |-> etag]]
    BY <1>5 DEF Reply, held
  <2> DEFINE answer == [status |-> 200, version |-> held, etag |-> etag]
             b == [a EXCEPT !.reply = answer]
  <2>2. /\ answer \in Replies /\ answer.version = held /\ answer.etag = etag
        /\ answer # NotModified
    <3>1. answer.status # NotModified.status
      BY DEF NotModified
    <3> QED
      BY <1>3, <3>1 DEF Replies
  <2> HIDE DEF answer
  <2>3. /\ b \in Attempts /\ b.kind = a.kind /\ b.url = a.url /\ b.sentAt = a.sentAt
        /\ b.reply = answer
        /\ a.kind = "conditional" => b.etag = a.etag /\ b.cached = a.cached
    BY <1>2, <2>2 DEF Attempts, Conditionals, Candidates
  <2>4. waiting' = [waiting EXCEPT ![r] = b]
    BY <2>1 DEF answer
  <2> HIDE DEF b
  <2>5. AnswerOK(b, out)
    BY <1>3, <2>2, <2>3 DEF AnswerOK
  <2>6. ConfirmationOK(b, out, etags[b.url])
    BY <1>2, <2>2, <2>3 DEF AttemptOK, ConfirmationOK
  <2>7. AttemptOK(b, now, out, etags[b.url])
    BY <1>2, <2>3, <2>5, <2>6 DEF AttemptOK
  <2> QED
    BY <1>1, <2>3, <2>4, <2>7, OneAttempt
<1> QED
  BY <1>4, <1>5

LEMMA EndsInv ==
  ASSUME IInv, NEW r \in Requests, ConditionalEnds(r) \/ CandidateFails(r) PROVE IInv'
<1> DEFINE a == waiting[r]
<1>1. a # None /\ a \in Attempts /\ a.limit \in Limits /\ now \in Nat
  BY AttemptOf, UrlsHaveLayers DEF ConditionalEnds, CandidateFails, IInv, Types
<1>2. UNCHANGED <<now, published, cache, etags>>
  BY DEF ConditionalEnds, CandidateFails
<1>3. \/ waiting' = [waiting EXCEPT ![r] = None]
      \/ \E i \in DOMAIN CandidateLayers : waiting' = [waiting EXCEPT ![r] = Candidate(a.limit, i)]
  <2>1. CASE ConditionalEnds(r)
    BY <2>1, FirstCandidate DEF ConditionalEnds
  <2>2. CASE CandidateFails(r)
    <3>1. a.index \in DOMAIN CandidateLayers
      BY <1>1, <2>2 DEF CandidateFails, Attempts, Conditionals, Candidates
    <3> QED
      BY <2>2, <3>1, FirstCandidate DEF CandidateFails
  <2> QED
    BY <2>1, <2>2
<1>4. CASE waiting' = [waiting EXCEPT ![r] = None]
  BY <1>2, <1>4, OneAttempt
<1>5. ASSUME NEW i \in DOMAIN CandidateLayers,
             waiting' = [waiting EXCEPT ![r] = Candidate(a.limit, i)]
      PROVE  IInv'
  <2> DEFINE b == Candidate(a.limit, i)
  <2>1. b \in Attempts /\ AttemptOK(b, now, published[b.url.layer], etags[b.url])
    BY <1>1, CandidateIsFresh
  <2>2. waiting' = [waiting EXCEPT ![r] = b]
    BY <1>5
  <2> HIDE DEF b
  <2> QED
    BY <1>2, <2>1, <2>2, OneAttempt
<1> QED
  BY <1>3, <1>4, <1>5

\* A 304 extends what was cached when it was asked for.
LEMMA UnchangedInv ==
  ASSUME IInv, NEW r \in Requests, Unchanged(r) PROVE IInv'
<1> DEFINE a == waiting[r]  u == a.url  out == published[u.layer]  v == a.cached.version
           new == [a.cached EXCEPT !.ts = now]
<1>1. /\ a # None /\ a.kind = "conditional" /\ a.reply = NotModified
      /\ cache' = new /\ waiting' = [waiting EXCEPT ![r] = None]
      /\ UNCHANGED <<now, published, etags>>
  BY DEF Unchanged
<1>2. /\ a \in Attempts /\ AttemptOK(a, now, out, etags[u]) /\ Timeline(out, now)
      /\ u \in Urls
  BY <1>1, AttemptOf
<1>3. a \in Conditionals
  BY <1>1, <1>2 DEF Attempts, Candidates
<1>4. a.cached \in Entries /\ a.sentAt \in Nat /\ v \in Nat /\ now \in Nat /\ TimeoutMs \in Nat
  BY <1>3, SpatialAssumption DEF Conditionals, Entries, IInv, Types
<1>5. new \in Entries /\ new.ts = now /\ new.version = v /\ new.successUrl = u
  BY <1>1, <1>2, <1>4 DEF Entries, AttemptOK, ConfirmationOK
<1>6. /\ v \in 1 .. Len(out) /\ a.etag \in 1 .. Len(out) /\ etags[u] # None
      /\ etags[u] = a.etag \/ Since(out, etags[u], a.sentAt - TimeoutMs)
      /\ v <= a.etag /\ Since(out, a.etag, a.sentAt) /\ now <= a.sentAt + TimeoutMs
  BY <1>1, <1>2 DEF AttemptOK, ConfirmationOK
<1> HIDE DEF new, out, v
<1>7. out[v] <= now
  BY <1>2, <1>6 DEF Timeline
<1>8. etags[u] \in Nat
  BY <1>2, <1>6 DEF IInv, Types
<1>9. v < Len(out) /\ etags[u] <= v => now <= out[v + 1] + 2 * TimeoutMs
  <2> SUFFICES ASSUME v < Len(out), etags[u] <= v PROVE now <= out[v + 1] + 2 * TimeoutMs
    OBVIOUS
  <2>0. /\ Len(out) \in Nat /\ \A i \in 1 .. Len(out) : out[i] \in Nat
        /\ \A i, j \in 1 .. Len(out) : i <= j => out[i] <= out[j]
    BY <1>2 DEF Timeline
  <2>1. PICK e \in {a.etag, etags[u]} : e \in 1 .. Len(out) /\ e <= v
                                       /\ Since(out, e, a.sentAt - TimeoutMs)
    <3>1. CASE etags[u] = a.etag
      <4>1. a.etag <= v
        BY <3>1
      <4>2. Since(out, a.etag, a.sentAt - TimeoutMs) /\ a.etag \in 1 .. Len(out)
        <5>1. a.etag < Len(out) => a.etag + 1 \in 1 .. Len(out)
          BY <1>6, <2>0
        <5> QED
          BY <1>4, <1>6, <2>0, <5>1 DEF Since
      <4> QED
        BY <4>1, <4>2
    <3>2. CASE Since(out, etags[u], a.sentAt - TimeoutMs)
      BY <3>2 DEF Since
    <3> QED
      BY <1>6, <3>1, <3>2
  <2>2. e + 1 \in 1 .. Len(out) /\ v + 1 \in 1 .. Len(out) /\ e + 1 <= v + 1
    BY <1>4, <2>0, <2>1
  <2>3. out[e + 1] <= out[v + 1] /\ out[e + 1] \in Nat /\ out[v + 1] \in Nat
    BY <2>0, <2>2
  <2>4. a.sentAt - TimeoutMs <= out[e + 1]
    BY <2>0, <2>1, <2>2 DEF Since
  <2>5. now <= a.sentAt + TimeoutMs
    BY <1>6
  <2> HIDE DEF a
  <2>6. out[v + 1] + 2 * TimeoutMs >= a.sentAt + TimeoutMs
    BY <1>4, <2>3, <2>4
  <2> QED
    BY <1>4, <2>3, <2>5, <2>6
<1>10. HonestEntry(new, out, etags[u])
  BY <1>4, <1>5, <1>6, <1>7, <1>8, <1>9 DEF HonestEntry
<1>11. CacheInv'
  <2>1. EntryOK(new, now, out)
    BY <1>2, <1>4, <1>5, <1>6, <1>7 DEF EntryOK
  <2> QED
    BY <1>1, <1>5, <1>10, <2>1 DEF CacheInv, out
<1>12. Types'
  BY <1>1, <1>5 DEF IInv, Types
<1>13. Published' /\ EtagsInv'
  BY <1>1 DEF IInv, Published, EtagsInv
<1>14. AttemptsInv'
  BY <1>1 DEF IInv, AttemptsInv, Types
<1> QED
  BY <1>11, <1>12, <1>13, <1>14 DEF IInv

\* An answer is cached; its ETag is news to the attempts under way.
LEMMA DeliveredInv ==
  ASSUME IInv, NEW r \in Requests, Delivered(r) PROVE IInv'
<1> DEFINE a == waiting[r]  u == a.url  out == published[u.layer]  v == a.reply.version
           e == a.reply.etag
           new == [ts |-> now, version |-> v, successUrl |-> u]
<1>1. /\ a # None /\ a.kind = "candidate" /\ a.reply # None
      /\ etags' = IF e = None THEN etags ELSE [etags EXCEPT ![u] = e]
      /\ cache' = new /\ waiting' = [waiting EXCEPT ![r] = None]
      /\ UNCHANGED <<now, published>>
  BY DEF Delivered, Recorded
<1>2. /\ a \in Attempts /\ AttemptOK(a, now, out, etags[u]) /\ Timeline(out, now)
      /\ u \in Urls
  BY <1>1, AttemptOf
<1>3. a.sentAt \in Nat /\ now \in Nat /\ TimeoutMs \in Nat
  BY <1>2, SpatialAssumption, UrlsHaveLayers DEF IInv, Types
<1>4. Since(out, v, a.sentAt) /\ e \in {v, None} /\ now <= a.sentAt + TimeoutMs
  BY <1>1, <1>2 DEF AttemptOK, AnswerOK
<1> HIDE DEF new, out, v, e
<1>5. v \in 1 .. Len(out) /\ v \in Nat
  BY <1>2, <1>4 DEF Since, Timeline
<1>6. new \in Entries /\ new.ts = now /\ new.version = v /\ new.successUrl = u
  BY <1>2, <1>3, <1>5 DEF Entries, new
<1>7. HonestEntry(new, out, etags'[u])
  <2>1. out[v] <= now /\ out[v] \in Nat
    BY <1>2, <1>5 DEF Timeline
  <2>2. v < Len(out) => v + 1 \in 1 .. Len(out) /\ out[v + 1] \in Nat
    BY <1>2, <1>5 DEF Timeline
  <2>3. v < Len(out) => now <= out[v + 1] + 2 * TimeoutMs
    BY <1>3, <1>4, <2>2 DEF Since
  <2> QED
    BY <1>6, <2>1, <2>3 DEF HonestEntry
<1>8. CacheInv'
  BY <1>1, <1>3, <1>5, <1>6, <1>7 DEF CacheInv, EntryOK, out
<1>9. Types' /\ Published' /\ EtagsInv'
  <2>1. \A w \in Urls : etags'[w] = etags[w] \/ (w = u /\ etags'[w] = v)
    BY <1>1, <1>4 DEF IInv, Types
  <2>2. Types'
    BY <1>1, <1>2, <1>4, <1>5, <1>6 DEF IInv, Types
  <2>3. Published'
    BY <1>1 DEF IInv, Published
  <2>4. EtagsInv'
    BY <1>1, <1>5, <2>1 DEF IInv, EtagsInv, out
  <2> QED
    BY <2>2, <2>3, <2>4
<1>10. AttemptsInv'
  <2> SUFFICES ASSUME NEW q \in Requests, q # r, waiting[q] # None
               PROVE  AttemptOK(waiting[q], now, published[waiting[q].url.layer],
                                etags'[waiting[q].url])
    BY <1>1 DEF AttemptsInv, IInv, Types
  <2> DEFINE b == waiting[q]
  <2>1. /\ b \in Attempts /\ AttemptOK(b, now, published[b.url.layer], etags[b.url])
        /\ Timeline(published[b.url.layer], now) /\ b.url \in Urls
    BY AttemptOf
  <2>2. CASE e = None \/ b.url # u
    BY <1>1, <2>1, <2>2 DEF IInv, Types
  <2>3. CASE e # None /\ b.url = u
    <3>1. e = v /\ etags'[u] = v /\ v # None
      BY <1>1, <1>2, <1>4, <2>3 DEF IInv, Types
    <3> HIDE DEF b
    <3>2. AttemptOK(b, now, out, v)
      BY <1>3, <1>4, <1>5, <2>1, <2>3, <3>1, AttemptOutlivesEtag DEF out
    <3> QED
      BY <2>3, <3>1, <3>2 DEF b, out
  <2> QED
    BY <2>2, <2>3
<1> QED
  BY <1>8, <1>9, <1>10 DEF IInv

LEMMA PublishInv ==
  ASSUME IInv, NEW l \in LayerIds, Publish(l) PROVE IInv'
<1>1. UNCHANGED <<now, cache, etags, waiting>> /\ now \in Nat
      /\ published' = [published EXCEPT ![l] = Append(published[l], now)]
  BY DEF Publish, IInv, Types
<1>2. /\ published \in [LayerIds -> Seq(Nat)]
      /\ \A k \in LayerIds : Timeline(published[k], now)
  BY DEF IInv, Published
<1>3. \A k \in LayerIds : published'[k] = IF k = l THEN Append(published[l], now)
                                         ELSE published[k]
  BY <1>1, <1>2
<1>4. Append(published[l], now) \in Seq(Nat) /\ Timeline(Append(published[l], now), now)
  BY <1>1, <1>2, TimelineGrows
<1>5. Types' /\ Published'
  BY <1>1, <1>2, <1>3, <1>4 DEF IInv, Types, Published
<1>6. \A k \in LayerIds, i \in Nat : i \in 1 .. Len(published[k]) =>
          /\ i \in 1 .. Len(published'[k]) /\ published'[k][i] = published[k][i]
          /\ Len(published'[k]) > Len(published[k]) => published'[k][Len(published[k]) + 1] = now
          /\ i < Len(published'[k]) =>
                 \/ i < Len(published[k]) /\ published'[k][i + 1] = published[k][i + 1]
                 \/ published'[k][i + 1] = now
  <2> TAKE k \in LayerIds, i \in Nat
  <2>1. published[k] \in Seq(Nat)
    BY <1>2
  <2>2. CASE k = l
    BY <1>1, <1>3, <2>1, <2>2
  <2>3. CASE k # l
    BY <1>3, <2>1, <2>3
  <2> QED
    BY <2>2, <2>3
<1>7. EtagsInv'
  BY <1>1, <1>6, UrlsHaveLayers DEF IInv, EtagsInv, Types
<1>8. AttemptsInv'
  <2> SUFFICES ASSUME NEW r \in Requests, waiting[r] # None
               PROVE  AttemptOK(waiting[r], now, published'[waiting[r].url.layer],
                                etags[waiting[r].url])
    BY <1>1 DEF AttemptsInv
  <2>1. /\ waiting[r] \in Attempts /\ waiting[r].url.layer \in LayerIds
        /\ AttemptOK(waiting[r], now, published[waiting[r].url.layer], etags[waiting[r].url])
    BY AttemptOf
  <2>2. CASE waiting[r].url.layer = l
    BY <1>1, <1>2, <1>3, <2>1, <2>2, AttemptOutlivesVersion
  <2>3. CASE waiting[r].url.layer # l
    BY <1>3, <2>1, <2>3
  <2> QED
    BY <2>2, <2>3
<1>9. CacheInv'
  <2> SUFFICES ASSUME cache # None
               PROVE  /\ EntryOK(cache, now, published'[cache.successUrl.layer])
                      /\ HonestEntry(cache, published'[cache.successUrl.layer],
                                     etags[cache.successUrl])
    BY <1>1 DEF CacheInv
  <2> DEFINE k == cache.successUrl.layer
  <2>1. /\ k \in LayerIds /\ cache.ts \in Nat /\ cache.version \in Nat
        /\ EntryOK(cache, now, published[k])
        /\ HonestEntry(cache, published[k], etags[cache.successUrl])
    BY UrlsHaveLayers DEF IInv, Types, CacheInv
  <2> HIDE DEF k
  <2>2. EntryOK(cache, now, published'[k])
    BY <1>6, <2>1 DEF EntryOK
  <2>3. HonestEntry(cache, published'[k], etags[cache.successUrl])
    BY SMTT(30), <1>1, <1>6, <2>1, SpatialAssumption DEF EntryOK, HonestEntry
  <2> QED
    BY <2>2, <2>3 DEF k
<1> QED
  BY <1>5, <1>7, <1>8, <1>9 DEF IInv

LEMMA TickInv ==
  ASSUME IInv, Tick PROVE IInv'
<1>1. /\ now \in Nat /\ now' = now + 1 /\ UNCHANGED <<published, cache, etags, waiting>>
      /\ \A r \in Requests : waiting[r] # None => now - waiting[r].sentAt < TimeoutMs
  BY DEF Tick, IInv, Types
<1>2. Types' /\ EtagsInv'
  BY <1>1 DEF IInv, Types, EtagsInv
<1>3. Published'
  BY <1>1, TimelineGrows DEF IInv, Published
<1>4. CacheInv'
  BY <1>1, UrlsHaveLayers DEF IInv, Types, CacheInv, EntryOK
<1>5. AttemptsInv'
  BY <1>1, AttemptOf, AttemptOutlivesTick DEF AttemptsInv
<1> QED
  BY <1>2, <1>3, <1>4, <1>5 DEF IInv

LEMMA QuietInv ==
  ASSUME IInv, UNCHANGED <<now, published, cache, etags, waiting>> PROVE IInv'
  BY DEF IInv, Types, Published, EtagsInv, AttemptsInv, CacheInv

LEMMA NextInv == IInv /\ [Next]_vars => IInv'
<1> SUFFICES ASSUME IInv, [Next]_vars PROVE IInv'
  OBVIOUS
<1>1. CASE Tick
  BY <1>1, TickInv
<1>2. ASSUME NEW l \in LayerIds, Publish(l) PROVE IInv'
  BY <1>2, PublishInv
<1>3. ASSUME NEW c \in Clients, AnswerFromCache(c) PROVE IInv'
  BY <1>3, QuietInv DEF AnswerFromCache
<1>4. ASSUME NEW r \in Requests, NEW c \in Clients, NEW limit \in Limits, Ask(r, c, limit)
      PROVE  IInv'
  BY <1>4, AskInv
<1>5. ASSUME NEW r \in Requests,
             \/ Reply(r) \/ Unchanged(r) \/ ConditionalEnds(r) \/ Delivered(r)
             \/ CandidateFails(r)
      PROVE  IInv'
  BY <1>5, ReplyInv, UnchangedInv, EndsInv, DeliveredInv
<1>6. CASE UNCHANGED vars
  BY <1>6, QuietInv DEF vars
<1> QED
  BY <1>1, <1>2, <1>3, <1>4, <1>5, <1>6 DEF Next

-----------------------------------------------------------------------------
(***************************************************************************)
(* "queriedAt" means what it says: an entry that answers claims no time at *)
(* which its layer did not hold it, give or take two attempts, unless an   *)
(* overtaken answer has put it back and left a newer ETag on record.       *)
(***************************************************************************)
THEOREM QueriedAtHolds == Spec => []QueriedAtIsHonest
<1>1. IInv => QueriedAtIsHonest
  BY DEF IInv, CacheInv, HonestEntry, QueriedAtIsHonest, HeldBy
<1> QED
  BY <1>1, InitIInv, NextInv, PTL DEF Spec

-----------------------------------------------------------------------------
(* Requests of some ages. *)

Total(counts, ages) == Cardinality(Admitted(counts, ages))

LEMMA InAdmitted ==
  ASSUME NEW counts, NEW ages, NEW a, NEW i
  PROVE  <<a, i>> \in Admitted(counts, ages) <=> a \in ages /\ i \in 1 .. counts[a]
  BY DEF Admitted

LEMMA AdmittedArePairs ==
  ASSUME NEW counts, NEW ages, NEW r \in Admitted(counts, ages)
  PROVE  \E a \in ages : \E i \in 1 .. counts[a] : r = <<a, i>>
  BY DEF Admitted

LEMMA AgesAreNumbers == Ages \in SUBSET Nat /\ IsFiniteSet(Ages) /\ 0 \in Ages
<1>1. RateLimitWindowMs \in Nat
  BY SpatialAssumption
<1>2. IsFiniteSet(0 .. RateLimitWindowMs)
  BY <1>1, FS_Interval
<1> QED
  BY <1>1, <1>2 DEF Ages

LEMMA TotalIsANumber ==
  ASSUME NEW counts \in [Ages -> Nat], NEW ages \in SUBSET Ages
  PROVE  IsFiniteSet(Admitted(counts, ages)) /\ Total(counts, ages) \in Nat
<1> DEFINE f == [a \in ages |-> {a} \X (1 .. counts[a])]
           parts == {f[a] : a \in ages}
<1>1. IsFiniteSet(ages)
  BY AgesAreNumbers, FS_Subset
<1>2. f \in Surjection(ages, parts)
  BY DEF Surjection
<1>3. ASSUME NEW a \in ages
      PROVE  IsFiniteSet(f[a])
  <2>1. IsFiniteSet({a}) /\ IsFiniteSet(1 .. counts[a])
    <3>1. counts[a] \in Nat
      OBVIOUS
    <3>2. IsFiniteSet(1 .. counts[a])
      BY <3>1, FS_Interval
    <3>3. IsFiniteSet({a})
      BY FS_Singleton
    <3> QED
      BY <3>2, <3>3
  <2>2. IsFiniteSet({a} \X (1 .. counts[a]))
    BY <2>1, FS_Product
  <2> QED
    BY <2>2
<1>4. Admitted(counts, ages) = UNION parts
  BY DEF Admitted
<1> HIDE DEF f
<1>5. IsFiniteSet(parts)
  BY <1>1, <1>2, FS_Surjection
<1>6. \A T \in parts : IsFiniteSet(T)
  BY <1>3
<1> HIDE DEF parts
<1>7. IsFiniteSet(UNION parts)
  BY <1>5, <1>6, FS_UNION
<1> QED
  BY <1>4, <1>7, FS_CardinalityType DEF Total

\* Requests of some ages and of the rest of them add up.
LEMMA TotalsAddUp ==
  ASSUME NEW counts \in [Ages -> Nat], NEW ages \in SUBSET Ages, NEW part \in SUBSET ages
  PROVE  Total(counts, ages) = Total(counts, part) + Total(counts, ages \ part)
<1>1. Admitted(counts, ages) = Admitted(counts, part) \cup Admitted(counts, ages \ part)
  BY DEF Admitted
<1>2. Admitted(counts, part) \cap Admitted(counts, ages \ part) = {}
  <2> SUFFICES ASSUME NEW r \in Admitted(counts, part), r \in Admitted(counts, ages \ part)
               PROVE  FALSE
    OBVIOUS
  <2>1. PICK a \in part : \E i \in 1 .. counts[a] : r = <<a, i>>
    BY AdmittedArePairs
  <2>2. PICK b \in ages \ part : \E i \in 1 .. counts[b] : r = <<b, i>>
    BY AdmittedArePairs
  <2> QED
    BY <2>1, <2>2
<1>3. /\ IsFiniteSet(Admitted(counts, part)) /\ IsFiniteSet(Admitted(counts, ages \ part))
      /\ Total(counts, part) \in Nat /\ Total(counts, ages \ part) \in Nat
  BY TotalIsANumber
<1>4. Cardinality({}) = 0
  BY FS_EmptySet
<1>5. Total(counts, ages) = Total(counts, part) + Total(counts, ages \ part) - 0
  <2> DEFINE S == Admitted(counts, part)
             T == Admitted(counts, ages \ part)
  <2>1. IsFiniteSet(S) /\ IsFiniteSet(T) /\ S \cap T = {}
    BY <1>2, <1>3
  <2> HIDE DEF S, T
  <2>2. Cardinality(S \cup T) = Cardinality(S) + Cardinality(T) - Cardinality(S \cap T)
    BY <2>1, FS_Union
  <2>3. Cardinality(S \cup T) = Cardinality(S) + Cardinality(T) - 0
    BY <1>4, <2>1, <2>2
  <2> QED
    BY <1>1, <2>3 DEF S, T, Total
<1> QED
  BY <1>3, <1>5

LEMMA PartIsNoMore ==
  ASSUME NEW counts \in [Ages -> Nat], NEW ages \in SUBSET Ages, NEW part \in SUBSET ages
  PROVE  Total(counts, part) <= Total(counts, ages)
<1>1. /\ Total(counts, part) \in Nat /\ Total(counts, ages \ part) \in Nat
      /\ Total(counts, ages) \in Nat
  BY TotalIsANumber
<1> QED
  BY <1>1, TotalsAddUp

LEMMA NoneOfAnAge ==
  ASSUME NEW counts \in [Ages -> Nat], NEW ages \in SUBSET Ages, \A a \in ages : counts[a] = 0
  PROVE  Total(counts, ages) = 0
<1>1. Admitted(counts, ages) = {}
  <2> SUFFICES ASSUME NEW r \in Admitted(counts, ages) PROVE FALSE
    OBVIOUS
  <2> QED
    BY AdmittedArePairs
<1> QED
  BY <1>1, FS_EmptySet DEF Total

\* A request more, just now.
CountsOneMore(new, counts) == new = [counts EXCEPT ![0] = @ + 1]

LEMMA OneMore ==
  ASSUME NEW counts \in [Ages -> Nat], NEW ages \in SUBSET Ages,
         NEW new, CountsOneMore(new, counts)
  PROVE  /\ new \in [Ages -> Nat]
         /\ Total(new, ages) = IF 0 \in ages THEN Total(counts, ages) + 1
                               ELSE Total(counts, ages)
<1> DEFINE r == <<0, counts[0] + 1>>
<1>1. /\ 0 \in Ages /\ counts[0] \in Nat /\ new[0] = counts[0] + 1
      /\ \A a \in Ages : a # 0 => new[a] = counts[a]
  BY AgesAreNumbers DEF CountsOneMore
<1>2. new \in [Ages -> Nat]
  BY <1>1 DEF CountsOneMore
<1>3. IsFiniteSet(Admitted(counts, ages)) /\ Total(counts, ages) \in Nat
  BY TotalIsANumber
<1>4. CASE 0 \in ages
  <2>1. r \notin Admitted(counts, ages)
    BY <1>1, InAdmitted
  <2>2. ASSUME NEW x
        PROVE  x \in Admitted(new, ages) <=> x \in Admitted(counts, ages) \/ x = r
    <3>1. ASSUME x \in Admitted(new, ages)
          PROVE  x \in Admitted(counts, ages) \/ x = r
      <4>1. PICK a \in ages : \E i \in 1 .. new[a] : x = <<a, i>>
        BY <3>1, AdmittedArePairs
      <4>2. PICK i \in 1 .. new[a] : x = <<a, i>>
        BY <4>1
      <4>3. a # 0 => i \in 1 .. counts[a]
        BY <1>1, <4>2
      <4>4. a = 0 => i \in 1 .. counts[0] \/ i = counts[0] + 1
        BY <1>1, <4>2
      <4> QED
        BY <4>2, <4>3, <4>4, InAdmitted
    <3>2. ASSUME x \in Admitted(counts, ages)
          PROVE  x \in Admitted(new, ages)
      <4>1. PICK a \in ages : \E i \in 1 .. counts[a] : x = <<a, i>>
        BY <3>2, AdmittedArePairs
      <4>2. PICK i \in 1 .. counts[a] : x = <<a, i>>
        BY <4>1
      <4>3. i \in 1 .. new[a]
        BY <1>1, <4>2
      <4> QED
        BY <4>2, <4>3, InAdmitted
    <3>3. r \in Admitted(new, ages)
      <4>1. counts[0] + 1 \in 1 .. new[0]
        BY <1>1
      <4> QED
        BY <1>4, <4>1, InAdmitted
    <3> QED
      BY <3>1, <3>2, <3>3
  <2> HIDE DEF r
  <2>3. Admitted(new, ages) = Admitted(counts, ages) \cup {r}
    BY <2>2
  <2> QED
    BY <1>2, <1>3, <1>4, <2>1, <2>3, FS_AddElement DEF Total
<1>5. CASE 0 \notin ages
  <2>1. Admitted(new, ages) = Admitted(counts, ages)
    <3>1. \A a \in ages : new[a] = counts[a]
      BY <1>1, <1>5
    <3> QED
      BY <3>1 DEF Admitted
  <2> QED
    BY <1>2, <1>5, <2>1 DEF Total
<1> QED
  BY <1>4, <1>5

\* An age more for each of them.
LEMMA OlderByOne ==
  ASSUME NEW counts \in [Ages -> Nat], NEW ages \in SUBSET Ages,
         NEW new, new = [a \in Ages |-> IF a = 0 THEN 0 ELSE counts[a - 1]]
  PROVE  /\ new \in [Ages -> Nat]
         /\ Total(new, ages) = Total(counts, {a \in Ages : a + 1 \in ages})
<1> DEFINE before == {a \in Ages : a + 1 \in ages}
           T == Admitted(counts, before)
           U == Admitted(new, ages)
           f == [r \in T |-> <<r[1] + 1, r[2]>>]
<1>1. \A a \in Ages : a # 0 => a - 1 \in Ages /\ a - 1 + 1 = a
  BY SpatialAssumption DEF Ages
<1>2. new \in [Ages -> Nat]
  BY <1>1
<1>3. before \in SUBSET Ages
  OBVIOUS
<1>4. IsFiniteSet(T)
  BY <1>3, TotalIsANumber
<1>5. ASSUME NEW r \in T
      PROVE  /\ f[r] \in U
             /\ r[1] \in Nat /\ r = <<r[1], r[2]>>
  <2>1. PICK a \in before : \E i \in 1 .. counts[a] : r = <<a, i>>
    BY AdmittedArePairs
  <2>2. PICK i \in 1 .. counts[a] : r = <<a, i>>
    BY <2>1
  <2>3. a + 1 \in ages /\ a \in Nat
    BY AgesAreNumbers
  <2>4. new[a + 1] = counts[a]
    BY <2>3, AgesAreNumbers
  <2>5. <<a + 1, i>> \in U
    BY <2>2, <2>3, <2>4, InAdmitted
  <2> QED
    BY <2>2, <2>3, <2>5
<1>6. ASSUME NEW u \in U
      PROVE  \E r \in T : f[r] = u
  <2>1. PICK a \in ages : \E i \in 1 .. new[a] : u = <<a, i>>
    BY AdmittedArePairs
  <2>2. PICK i \in 1 .. new[a] : u = <<a, i>>
    BY <2>1
  <2>3. a # 0
    BY <2>2
  <2>4. a - 1 \in before /\ new[a] = counts[a - 1] /\ a - 1 + 1 = a
    BY <1>1, <2>3
  <2>5. <<a - 1, i>> \in T
    BY <2>2, <2>4, InAdmitted
  <2>6. f[<<a - 1, i>>] = <<a, i>>
    BY <2>4, <2>5
  <2> QED
    BY <2>2, <2>5, <2>6
<1>7. ASSUME NEW r \in T, NEW s \in T, f[r] = f[s]
      PROVE  r = s
  <2>1. r[1] \in Nat /\ s[1] \in Nat /\ r[1] + 1 = s[1] + 1 /\ r[2] = s[2]
    BY <1>5, <1>7
  <2>2. r[1] = s[1]
    BY <2>1
  <2> QED
    BY <1>5, <2>1, <2>2
<1>8. f \in [T -> U]
  BY <1>5
<1> HIDE DEF f, T, U
<1>9. f \in Surjection(T, U) /\ f \in Injection(T, U)
  BY <1>6, <1>7, <1>8 DEF Surjection, Injection, IsInjective
<1>10. Cardinality(U) = Cardinality(T)
  BY <1>4, <1>9, FS_Surjection
<1> QED
  BY <1>2, <1>10 DEF T, U, Total

-----------------------------------------------------------------------------
(* The limiter's windows. *)

Young(o) == {a \in Ages : a <= o}

\* How long ago the window of a client opened.
OpenFor(b, n) == n + RateLimitWindowMs - b.resetAt

(***************************************************************************)
(* A window counts the requests admitted since it opened, exactly so until *)
(* it ends, and admits none after; what is left of the time before it is   *)
(* within a window's worth, for it belongs to one earlier window.          *)
(***************************************************************************)
WindowOK(counts, b, n) ==
    /\ b # None =>
          /\ OpenFor(b, n) \in Nat
          /\ b.count \in 1 .. RateLimitMax
          /\ Total(counts, Young(OpenFor(b, n))) <= b.count
          /\ OpenFor(b, n) <= RateLimitWindowMs =>
                Total(counts, Young(OpenFor(b, n))) = b.count
          /\ Total(counts, Ages \ Young(OpenFor(b, n))) <= RateLimitMax
          /\ \A a \in Ages : a + RateLimitWindowMs < OpenFor(b, n) => counts[a] = 0
    /\ b = None => \A a \in Ages : counts[a] = 0

Windows == [count : Nat, resetAt : Nat]

WindowTypes ==
    /\ now \in Nat
    /\ buckets \in [Clients -> Windows \cup {None}]
    /\ admitted \in [Clients -> [Ages -> Nat]]

WindowInv ==
    /\ WindowTypes
    /\ \A c \in Clients : WindowOK(admitted[c], buckets[c], now)

LEMMA YoungAreAges ==
  ASSUME NEW o
  PROVE  Young(o) \in SUBSET Ages /\ Ages \ Young(o) \in SUBSET Ages
  BY DEF Young

\* Time passes over a window.
LEMMA WindowTick ==
  ASSUME NEW counts \in [Ages -> Nat], NEW b \in Windows \cup {None}, NEW n \in Nat,
         WindowOK(counts, b, n),
         NEW new, new = [a \in Ages |-> IF a = 0 THEN 0 ELSE counts[a - 1]]
  PROVE  WindowOK(new, b, n + 1)
<1>1. RateLimitWindowMs \in Nat /\ RateLimitMax \in Nat
  BY SpatialAssumption
<1>2. \A a \in Ages : a # 0 => a - 1 \in Ages /\ a \in Nat /\ a - 1 \in Nat
  BY <1>1 DEF Ages
<1>3. CASE b = None
  BY <1>2, <1>3 DEF WindowOK
<1>4. CASE b # None
  <2> DEFINE o == OpenFor(b, n)
             from(ages) == {a \in Ages : a + 1 \in ages}
  <2>1. /\ o \in Nat /\ OpenFor(b, n + 1) = o + 1
        /\ b.count \in 1 .. RateLimitMax
        /\ Total(counts, Young(o)) <= b.count
        /\ o <= RateLimitWindowMs => Total(counts, Young(o)) = b.count
        /\ Total(counts, Ages \ Young(o)) <= RateLimitMax
        /\ \A a \in Ages : a + RateLimitWindowMs < o => counts[a] = 0
    <3>1. b \in Windows
      BY <1>4
    <3> QED
      BY <1>1, <1>4, <3>1 DEF WindowOK, OpenFor, Windows
  <2> HIDE DEF o
  <2>2. ASSUME NEW ages \in SUBSET Ages
        PROVE  Total(new, ages) = Total(counts, from(ages))
    BY OlderByOne
  <2>3. from(Young(o + 1)) \in SUBSET Young(o)
    BY <2>1, AgesAreNumbers DEF Young
  <2>4. o + 1 <= RateLimitWindowMs => from(Young(o + 1)) = Young(o)
    <3>1. ASSUME o + 1 <= RateLimitWindowMs, NEW a \in Young(o)
          PROVE  a + 1 \in Young(o + 1)
      BY <1>1, <2>1, <3>1 DEF Young, Ages
    <3> QED
      BY <2>3, <3>1 DEF Young
  <2>5. from(Ages \ Young(o + 1)) \in SUBSET (Ages \ Young(o))
    BY <2>1, AgesAreNumbers DEF Young
  <2> HIDE DEF from
  <2>6. /\ Total(new, Young(o + 1)) = Total(counts, from(Young(o + 1)))
        /\ Total(new, Ages \ Young(o + 1)) = Total(counts, from(Ages \ Young(o + 1)))
    BY <2>2, YoungAreAges
  <2>7. /\ Total(counts, from(Young(o + 1))) <= Total(counts, Young(o))
        /\ Total(counts, from(Ages \ Young(o + 1))) <= Total(counts, Ages \ Young(o))
    BY <2>3, <2>5, PartIsNoMore, YoungAreAges
  <2>8. /\ Total(counts, Young(o)) \in Nat /\ Total(counts, Ages \ Young(o)) \in Nat
        /\ Total(new, Young(o + 1)) \in Nat /\ Total(new, Ages \ Young(o + 1)) \in Nat
    BY TotalIsANumber, YoungAreAges, OlderByOne
  <2>9. Total(new, Young(o + 1)) <= b.count
    BY <2>1, <2>6, <2>7, <2>8
  <2>10. o + 1 <= RateLimitWindowMs => Total(new, Young(o + 1)) = b.count
    BY <1>1, <2>1, <2>4, <2>6
  <2>11. Total(new, Ages \ Young(o + 1)) <= RateLimitMax
    BY <1>1, <2>1, <2>6, <2>7, <2>8
  <2>12. ASSUME NEW a \in Ages, a + RateLimitWindowMs < o + 1
         PROVE  new[a] = 0
    <3>1. CASE a = 0
      BY <3>1
    <3>2. CASE a # 0
      <4>1. a - 1 \in Ages /\ a \in Nat /\ new[a] = counts[a - 1]
        BY <1>2, <3>2
      <4>2. a - 1 + RateLimitWindowMs < o
        BY <1>1, <2>1, <2>12, <4>1
      <4> QED
        BY <2>1, <4>1, <4>2
    <3> QED
      BY <3>1, <3>2
  <2>13. o + 1 \in Nat
    BY <2>1
  <2> QED
    BY <1>4, <2>1, <2>9, <2>10, <2>11, <2>12, <2>13 DEF WindowOK
<1> QED
  BY <1>3, <1>4

\* A request is admitted in an open window.
LEMMA WindowCounts ==
  ASSUME NEW counts \in [Ages -> Nat], NEW b \in Windows, b # None, NEW n \in Nat,
         WindowOK(counts, b, n), ~(b.resetAt < n), b.count < RateLimitMax,
         NEW new, CountsOneMore(new, counts),
         NEW d, d = [b EXCEPT !.count = @ + 1]
  PROVE  WindowOK(new, d, n) /\ d \in Windows /\ d # None
<1> DEFINE o == OpenFor(b, n)
<1>1. RateLimitWindowMs \in Nat /\ RateLimitMax \in Nat
  BY SpatialAssumption
<1>2. /\ d \in Windows /\ d.resetAt = b.resetAt /\ d.count = b.count + 1
      /\ b.count \in Nat /\ b.resetAt \in Nat
  BY DEF Windows
<1>3. d # None
  BY <1>2, SpatialAssumption DEF Windows
<1>4. OpenFor(d, n) = o /\ o <= RateLimitWindowMs /\ o \in Nat
  BY <1>1, <1>2 DEF OpenFor, WindowOK
<1>5. /\ Total(counts, Young(o)) = b.count
      /\ Total(counts, Ages \ Young(o)) <= RateLimitMax
  BY <1>4 DEF WindowOK
<1> HIDE DEF o
<1>6. 0 \in Young(o) /\ 0 \notin Ages \ Young(o)
  BY <1>4, AgesAreNumbers DEF Young
<1>7. /\ Total(new, Young(o)) = Total(counts, Young(o)) + 1
      /\ Total(new, Ages \ Young(o)) = Total(counts, Ages \ Young(o))
  BY <1>6, YoungAreAges, OneMore
<1>8. \A a \in Ages : ~(a + RateLimitWindowMs < o)
  BY <1>1, <1>4, AgesAreNumbers
<1>9. d.count \in 1 .. RateLimitMax
  BY <1>1, <1>2
<1>10. Total(new, Young(o)) = d.count /\ Total(new, Young(o)) <= d.count
  BY <1>2, <1>5, <1>7
<1> QED
  BY <1>2, <1>3, <1>4, <1>5, <1>7, <1>8, <1>9, <1>10 DEF WindowOK

\* A request opens a window, when there is none or the last one has ended.
LEMMA WindowOpens ==
  ASSUME NEW counts \in [Ages -> Nat], NEW b \in Windows \cup {None}, NEW n \in Nat,
         WindowOK(counts, b, n), b # None => b.resetAt < n,
         NEW new, CountsOneMore(new, counts),
         NEW d, d = [count |-> 1, resetAt |-> n + RateLimitWindowMs]
  PROVE  WindowOK(new, d, n) /\ d \in Windows /\ d # None
<1>1. RateLimitWindowMs \in Nat /\ RateLimitMax \in Nat /\ RateLimitMax # 0
  BY SpatialAssumption
<1>2. d \in Windows /\ d.count = 1 /\ d.resetAt = n + RateLimitWindowMs
  BY <1>1 DEF Windows
<1>3. d # None
  BY <1>2, SpatialAssumption DEF Windows
<1>4. OpenFor(d, n) = 0
  BY <1>1, <1>2 DEF OpenFor
<1>5. Total(counts, Ages) <= RateLimitMax /\ counts[0] = 0
  <2>1. CASE b = None
    <3>1. \A a \in Ages : counts[a] = 0
      BY <2>1 DEF WindowOK
    <3>2. Total(counts, Ages) = 0
      BY <3>1, NoneOfAnAge
    <3> QED
      BY <1>1, <3>1, <3>2, AgesAreNumbers
  <2>2. CASE b # None
    <3>1. b \in Windows /\ b.resetAt \in Nat
      BY <2>2 DEF Windows
    <3>2. OpenFor(b, n) \in Nat /\ RateLimitWindowMs < OpenFor(b, n)
      BY <1>1, <2>2, <3>1 DEF WindowOK, OpenFor
    <3>3. Young(OpenFor(b, n)) = Ages
      <4>1. \A a \in Ages : a <= OpenFor(b, n)
        BY <1>1, <3>2 DEF Ages
      <4> QED
        BY <4>1 DEF Young
    <3>4. /\ Total(counts, Ages) <= b.count /\ b.count \in 1 .. RateLimitMax
          /\ \A a \in Ages : a + RateLimitWindowMs < OpenFor(b, n) => counts[a] = 0
      BY <2>2, <3>3 DEF WindowOK
    <3>5. counts[0] = 0
      BY <1>1, <3>2, <3>4, AgesAreNumbers
    <3>6. Total(counts, Ages) \in Nat
      BY TotalIsANumber
    <3> QED
      BY <1>1, <3>4, <3>5, <3>6
  <2> QED
    BY <2>1, <2>2
<1>6. Young(0) = {0}
  <2>1. \A a \in Ages : a <= 0 <=> a = 0
    BY AgesAreNumbers
  <2> QED
    BY <2>1, AgesAreNumbers DEF Young
<1>7. Total(counts, {0}) = 0
  BY <1>5, AgesAreNumbers, NoneOfAnAge
<1>8. Total(new, {0}) = 1
  <2>1. {0} \in SUBSET Ages /\ 0 \in {0}
    BY AgesAreNumbers
  <2>2. Total(new, {0}) = Total(counts, {0}) + 1
    BY <2>1, OneMore
  <2> QED
    BY <1>7, <2>2
<1>9. Total(new, Ages \ {0}) <= RateLimitMax
  <2>1. Ages \ {0} \in SUBSET Ages /\ 0 \notin Ages \ {0}
    OBVIOUS
  <2>2. Total(new, Ages \ {0}) = Total(counts, Ages \ {0})
    BY <2>1, OneMore
  <2>3. Total(counts, Ages \ {0}) <= Total(counts, Ages)
    BY <2>1, PartIsNoMore
  <2>4. Total(counts, Ages \ {0}) \in Nat /\ Total(counts, Ages) \in Nat
    BY <2>1, TotalIsANumber
  <2> QED
    BY <1>1, <1>5, <2>2, <2>3, <2>4
<1>10. \A a \in Ages : ~(a + RateLimitWindowMs < 0)
  BY <1>1, AgesAreNumbers
<1>11. d.count \in 1 .. RateLimitMax
  BY <1>1, <1>2
<1>12. /\ Total(new, Young(0)) <= d.count /\ Total(new, Young(0)) = d.count
       /\ Total(new, Ages \ Young(0)) <= RateLimitMax
  <2>1. Total(new, Young(0)) = 1
    BY <1>6, <1>8, Zenon
  <2>2. Total(new, Ages \ Young(0)) <= RateLimitMax
    BY <1>6, <1>9, Zenon
  <2> QED
    BY <1>2, <2>1, <2>2
<1>13. \A a \in Ages : a + RateLimitWindowMs < 0 => new[a] = 0
  BY <1>10
<1>14. 0 \in Nat /\ (0 <= RateLimitWindowMs => Total(new, Young(0)) = d.count)
  BY <1>12
<1>15. WindowOK(new, d, n)
  BY <1>3, <1>4, <1>11, <1>12, <1>13, <1>14, Zenon DEF WindowOK
<1> QED
  BY <1>2, <1>3, <1>15

LEMMA WindowInit == Init => WindowInv
<1> SUFFICES ASSUME Init PROVE WindowInv
  OBVIOUS
<1>1. /\ now = 0 /\ buckets = [c \in Clients |-> None]
      /\ admitted = [c \in Clients |-> [a \in Ages |-> 0]]
  BY DEF Init
<1> QED
  BY <1>1 DEF WindowInv, WindowTypes, WindowOK

LEMMA ConsumeKeepsWindows ==
  ASSUME WindowInv, NEW c \in Clients, Consume(c), now' = now
  PROVE  WindowInv'
<1>1. /\ now \in Nat /\ buckets \in [Clients -> Windows \cup {None}]
      /\ admitted \in [Clients -> [Ages -> Nat]]
  BY DEF WindowInv, WindowTypes
<1>2. /\ Admits(c)
      /\ buckets' = [buckets EXCEPT ![c] =
                       IF NewWindow(c)
                       THEN [count |-> 1, resetAt |-> now + RateLimitWindowMs]
                       ELSE [buckets[c] EXCEPT !.count = @ + 1]]
      /\ admitted' = [admitted EXCEPT ![c] = [admitted[c] EXCEPT ![0] = @ + 1]]
  <2>1. admitted' = [admitted EXCEPT ![c][0] = @ + 1]
    BY DEF Consume
  <2>2. admitted' = [admitted EXCEPT ![c] = [admitted[c] EXCEPT ![0] = @ + 1]]
    BY <2>1
  <2>3. Admits(c)
    BY DEF Consume
  <2>4. buckets' = [buckets EXCEPT ![c] =
                      IF NewWindow(c)
                      THEN [count |-> 1, resetAt |-> now + RateLimitWindowMs]
                      ELSE [buckets[c] EXCEPT !.count = @ + 1]]
    BY DEF Consume
  <2> QED
    BY <2>2, <2>3, <2>4
<1>3. CountsOneMore(admitted'[c], admitted[c]) /\ admitted'[c] \in [Ages -> Nat]
  <2>1. CountsOneMore(admitted'[c], admitted[c])
    BY <1>1, <1>2 DEF CountsOneMore
  <2>2. admitted[c] \in [Ages -> Nat]
    BY <1>1
  <2> QED
    BY <2>1, <2>2, OneMore
<1>4. /\ WindowOK(admitted'[c], buckets'[c], now)
      /\ buckets'[c] \in Windows \cup {None}
  <2>1. WindowOK(admitted[c], buckets[c], now) /\ admitted[c] \in [Ages -> Nat]
    BY <1>1 DEF WindowInv
  <2>2. CASE NewWindow(c)
    <3>1. buckets'[c] = [count |-> 1, resetAt |-> now + RateLimitWindowMs]
      BY <1>1, <1>2, <2>2
    <3>2. buckets[c] # None => buckets[c].resetAt < now
      BY <2>2 DEF NewWindow
    <3>3. buckets[c] \in Windows \cup {None}
      BY <1>1
    <3> QED
      BY <1>1, <1>3, <2>1, <3>1, <3>2, <3>3, WindowOpens
  <2>3. CASE ~NewWindow(c)
    <3>1. buckets'[c] = [buckets[c] EXCEPT !.count = @ + 1]
      BY <1>1, <1>2, <2>3
    <3>2. /\ buckets[c] # None /\ ~(buckets[c].resetAt < now)
          /\ buckets[c].count < RateLimitMax
      BY <1>2, <2>3 DEF NewWindow, Admits
    <3>3. buckets[c] \in Windows
      BY <1>1, <3>2
    <3> QED
      BY <1>1, <1>3, <2>1, <3>1, <3>2, <3>3, WindowCounts
  <2> QED
    BY <2>2, <2>3
<1>5. ASSUME NEW x \in Clients, x # c
      PROVE  admitted'[x] = admitted[x] /\ buckets'[x] = buckets[x]
  BY <1>1, <1>2, <1>5
<1>6. WindowTypes'
  <2>1. DOMAIN buckets' = Clients /\ DOMAIN admitted' = Clients
    BY <1>1, <1>2
  <2>2. buckets' \in [Clients -> Windows \cup {None}]
    BY <1>1, <1>2, <1>4, <1>5
  <2>3. admitted' \in [Clients -> [Ages -> Nat]]
    BY <1>1, <1>2, <1>3, <1>5
  <2> QED
    BY <1>1, <2>2, <2>3 DEF WindowTypes
<1>7. \A x \in Clients : WindowOK(admitted'[x], buckets'[x], now)
  BY <1>4, <1>5 DEF WindowInv
<1> QED
  BY <1>6, <1>7 DEF WindowInv

LEMMA TickKeepsWindows ==
  ASSUME WindowInv, Tick
  PROVE  WindowInv'
<1>1. /\ now \in Nat /\ buckets \in [Clients -> Windows \cup {None}]
      /\ admitted \in [Clients -> [Ages -> Nat]]
  BY DEF WindowInv, WindowTypes
<1>2. /\ now' = now + 1 /\ buckets' = buckets
      /\ admitted' = [c \in Clients |->
                        [a \in Ages |-> IF a = 0 THEN 0 ELSE admitted[c][a - 1]]]
  BY DEF Tick
<1>3. ASSUME NEW c \in Clients
      PROVE  /\ WindowOK(admitted'[c], buckets'[c], now')
             /\ admitted'[c] \in [Ages -> Nat]
  <2> DEFINE older == [a \in Ages |-> IF a = 0 THEN 0 ELSE admitted[c][a - 1]]
  <2>1. admitted'[c] = older
    BY <1>2
  <2>2. admitted[c] \in [Ages -> Nat] /\ buckets[c] \in Windows \cup {None}
    BY <1>1
  <2>3. WindowOK(admitted[c], buckets[c], now)
    BY DEF WindowInv
  <2>4. WindowOK(older, buckets[c], now + 1)
    BY <1>1, <2>2, <2>3, WindowTick
  <2>5. older \in [Ages -> Nat]
    <3>1. Ages \in SUBSET Ages
      OBVIOUS
    <3> QED
      BY <2>2, <3>1, OlderByOne
  <2> QED
    BY <1>2, <2>1, <2>4, <2>5
<1>4. WindowTypes'
  <2>1. admitted' \in [Clients -> [Ages -> Nat]]
    BY <1>2, <1>3
  <2> QED
    BY <1>1, <1>2, <2>1 DEF WindowTypes
<1> QED
  BY <1>3, <1>4 DEF WindowInv

LEMMA StepKeepsWindows == WindowInv /\ [Next]_vars => WindowInv'
<1> SUFFICES ASSUME WindowInv, [Next]_vars PROVE WindowInv'
  OBVIOUS
<1>1. CASE Tick
  BY <1>1, TickKeepsWindows
<1>2. ASSUME NEW c \in Clients, Consume(c), now' = now
      PROVE  WindowInv'
  BY <1>2, ConsumeKeepsWindows
<1>3. CASE UNCHANGED <<now, limiterVars>>
  BY <1>3 DEF limiterVars, WindowInv, WindowTypes
<1>4. CASE UNCHANGED vars
  BY <1>3, <1>4 DEF vars
<1>5. ASSUME NEW l \in LayerIds, Publish(l)
      PROVE  WindowInv'
  BY <1>3, <1>5 DEF Publish
<1>6. ASSUME NEW c \in Clients, AnswerFromCache(c)
      PROVE  WindowInv'
  BY <1>2, <1>6 DEF AnswerFromCache
<1>7. ASSUME NEW r \in Requests, NEW c \in Clients, NEW limit \in Limits, Ask(r, c, limit)
      PROVE  WindowInv'
  BY <1>2, <1>7 DEF Ask
<1>8. ASSUME NEW r \in Requests,
             Reply(r) \/ Unchanged(r) \/ ConditionalEnds(r) \/ Delivered(r) \/ CandidateFails(r)
      PROVE  WindowInv'
  BY <1>3, <1>8 DEF Reply, Unchanged, ConditionalEnds, Delivered, CandidateFails
<1> QED
  BY <1>1, <1>4, <1>5, <1>6, <1>7, <1>8 DEF Next

(***************************************************************************)
(* The rate limiter is fair around the ends of its fixed windows, for any  *)
(* window, budget and clients: a client gets no more than two budgets      *)
(* within the length of a window, and is refused only when a whole budget  *)
(* of its own requests was admitted within that length.                    *)
(***************************************************************************)
THEOREM WindowsHold == Spec => []WindowsAreFair
<1>1. WindowInv => WindowsAreFair
  <2> SUFFICES ASSUME WindowInv, NEW c \in Clients
               PROVE  /\ Total(admitted[c], Ages) <= 2 * RateLimitMax
                      /\ ~Admits(c) => Total(admitted[c], Ages) >= RateLimitMax
    BY DEF WindowsAreFair, Total
  <2>1. /\ admitted[c] \in [Ages -> Nat] /\ buckets[c] \in Windows \cup {None}
        /\ now \in Nat /\ WindowOK(admitted[c], buckets[c], now)
    BY DEF WindowInv, WindowTypes
  <2>2. RateLimitWindowMs \in Nat /\ RateLimitMax \in Nat
    BY SpatialAssumption
  <2>3. CASE buckets[c] = None
    <3>1. Total(admitted[c], Ages) = 0
      BY <2>1, <2>3, NoneOfAnAge DEF WindowOK
    <3>2. Admits(c)
      BY <2>3 DEF Admits, NewWindow
    <3> QED
      BY <2>2, <3>1, <3>2
  <2>4. CASE buckets[c] # None
    <3> DEFINE b == buckets[c]
               o == OpenFor(b, now)
    <3>1. b \in Windows /\ b.resetAt \in Nat /\ b.count \in Nat
      BY <2>1, <2>4 DEF Windows
    <3>2. /\ b.count \in 1 .. RateLimitMax
          /\ Total(admitted[c], Young(o)) <= b.count
          /\ o <= RateLimitWindowMs => Total(admitted[c], Young(o)) = b.count
          /\ Total(admitted[c], Ages \ Young(o)) <= RateLimitMax
      BY <2>1, <2>4 DEF WindowOK
    <3>3. ~Admits(c) => o <= RateLimitWindowMs /\ b.count >= RateLimitMax
      BY <2>1, <2>2, <2>4, <3>1 DEF Admits, NewWindow, OpenFor
    <3> HIDE DEF b, o
    <3>4. Total(admitted[c], Ages)
             = Total(admitted[c], Young(o)) + Total(admitted[c], Ages \ Young(o))
      BY <2>1, YoungAreAges, TotalsAddUp
    <3>5. /\ Total(admitted[c], Young(o)) \in Nat
          /\ Total(admitted[c], Ages \ Young(o)) \in Nat
      BY <2>1, YoungAreAges, TotalIsANumber
    <3> QED
      BY <2>2, <3>1, <3>2, <3>3, <3>4, <3>5
  <2> QED
    BY <2>3, <2>4
<1> QED
  BY <1>1, WindowInit, StepKeepsWindows, PTL DEF Spec
=============================================================================
