--------------------------- MODULE SpatialLayers ---------------------------
(***************************************************************************)
(* The proxy for public map layers, over an upstream that changes:         *)
(*   apps/web/app/api/spatial/[layer]/route.ts   the route                 *)
(*   apps/web/lib/rate-limit.ts                  its fixed windows         *)
(*   packages/spatial/src/slip.ts                fetchSlipFeatures         *)
(*   packages/spatial/src/freshness.ts           the ETags on record       *)
(* One layer and one area, hence one cache key; the urls under that key    *)
(* differ in the candidate layer they ask and in the limit.  Requests      *)
(* overlap at the awaits of their fetches; what the upstream answers is    *)
(* what it holds when it answers, and arrives later, within TimeoutMs.     *)
(*                                                                         *)
(* What a layer holds is a version number.  Checks of the area, the caller *)
(* who aborts (the route gives no signal) and the stripping of attributes  *)
(* are left out.                                                           *)
(***************************************************************************)
EXTENDS Naturals, Sequences, FiniteSets

CONSTANTS
    Requests,           \* requests that may wait for the upstream at once
    Clients,            \* client addresses
    Limits,             \* values of the limit parameter
    CandidateLayers,    \* the layer indices to try, in order
    CacheTtlMs,         \* CACHE_TTL_MS
    TimeoutMs,          \* of one attempt
    RateLimitWindowMs, RateLimitMax,
    MaxVersions, MaxTime,
    None

LayerIds == {CandidateLayers[i] : i \in DOMAIN CandidateLayers}
NotModified == [status |-> 304]

ASSUME SpatialAssumption ==
    /\ CandidateLayers \in Seq(LayerIds) \ {<< >>}
    /\ CacheTtlMs \in Nat \ {0} /\ TimeoutMs \in Nat
    /\ RateLimitWindowMs \in Nat \ {0} /\ RateLimitMax \in Nat \ {0}
    /\ MaxVersions \in Nat \ {0} /\ MaxTime \in Nat
    /\ None # NotModified
    /\ None \notin [count : Nat, resetAt : Nat]

VARIABLES
    now,
    published,  \* per layer, when each version of it came out
    cache,      \* the entry of the key: ts, version and successUrl; or None
    etags,      \* _etagStore: per url the version an ETag is on record of, or None
    waiting,    \* per request, the attempt it waits for, or None
    buckets,    \* per client, its window: count and resetAt; or None
    admitted    \* per client, the requests admitted 0 .. RateLimitWindowMs ago

limiterVars == <<buckets, admitted>>
vars == <<now, published, cache, etags, waiting, limiterVars>>

Urls == [layer : LayerIds, limit : Limits]
Ages == 0 .. RateLimitWindowMs

Init ==
    /\ now = 0
    /\ published = [l \in LayerIds |-> <<0>>]
    /\ cache = None
    /\ etags = [u \in Urls |-> None]
    /\ waiting = [r \in Requests |-> None]
    /\ buckets = [c \in Clients |-> None]
    /\ admitted = [c \in Clients |-> [a \in Ages |-> 0]]

-----------------------------------------------------------------------------
(* rate-limit.ts *)

NewWindow(c) == buckets[c] # None => buckets[c].resetAt < now

\* A limiter that counts one request more.
AdmitsOneMore(c) == ~NewWindow(c) => buckets[c].count <= RateLimitMax

\* consume answers ok.  A refusal changes nothing.
Admits(c) == ~NewWindow(c) => buckets[c].count < RateLimitMax

Consume(c) ==
    /\ Admits(c)
    /\ buckets' = [buckets EXCEPT ![c] =
                     IF NewWindow(c) THEN [count |-> 1, resetAt |-> now + RateLimitWindowMs]
                     ELSE [buckets[c] EXCEPT !.count = @ + 1]]
    /\ admitted' = [admitted EXCEPT ![c][0] = @ + 1]

-----------------------------------------------------------------------------
(* fetchSlipFeatures *)

Fresh == cache # None /\ now - cache.ts < CacheTtlMs

\* One that asks the preferred layer whatever is cached.
ConditionalOfFirst(limit) ==
    LET url == [layer |-> CandidateLayers[1], limit |-> limit]
    IN  [kind |-> "conditional", limit |-> limit, url |-> url,
         etag |-> etags[url], cached |-> cache, sentAt |-> now, reply |-> None]

\* The conditional GET, of the url whose answer is cached.
Conditional(limit) ==
    [kind |-> "conditional", limit |-> limit, url |-> cache.successUrl,
     etag |-> etags[cache.successUrl], cached |-> cache, sentAt |-> now, reply |-> None]

\* The i-th round of the loop.
Candidate(limit, i) ==
    [kind |-> "candidate", limit |-> limit, index |-> i,
     url |-> [layer |-> CandidateLayers[i], limit |-> limit], sentAt |-> now, reply |-> None]

\* A young entry answers, whatever limit it was fetched with.
AnswerFromCache(c) ==
    /\ Fresh
    /\ Consume(c)
    /\ UNCHANGED <<now, published, cache, etags, waiting>>

\* A stale entry with an ETag is asked after first.
Ask(r, c, limit) ==
    /\ waiting[r] = None
    /\ ~Fresh
    /\ Consume(c)
    /\ waiting' = [waiting EXCEPT ![r] =
                     IF cache # None /\ etags[cache.successUrl] # None
                     THEN Conditional(limit) ELSE Candidate(limit, 1)]
    /\ UNCHANGED <<now, published, cache, etags>>

\* The upstream answers: 304 if the ETag is that of what it holds.  It may
\* leave the ETag of an answer out.
Reply(r) ==
    LET a == waiting[r]
        held == Len(published[a.url.layer])
        Answer(reply) == waiting' = [waiting EXCEPT ![r].reply = reply]
    IN  /\ a # None /\ a.reply = None
        /\ IF a.kind = "conditional" /\ a.etag = held
           THEN Answer(NotModified)
           ELSE \E etag \in {held, None} :
                   Answer([status |-> 200, version |-> held, etag |-> etag])
        /\ UNCHANGED <<now, published, cache, etags, limiterVars>>

\* 304: what was cached when the request came in is cached anew.
Unchanged(r) ==
    LET a == waiting[r] IN
    /\ a # None /\ a.kind = "conditional"
    /\ a.reply = NotModified
    /\ cache' = [a.cached EXCEPT !.ts = now]
    /\ waiting' = [waiting EXCEPT ![r] = None]
    /\ UNCHANGED <<now, published, etags, limiterVars>>

\* Anything else the conditional GET ends in: on to the loop.
ConditionalEnds(r) ==
    LET a == waiting[r] IN
    /\ a # None /\ a.kind = "conditional"
    /\ waiting' = [waiting EXCEPT ![r] = Candidate(a.limit, 1)]
    /\ UNCHANGED <<now, published, cache, etags, limiterVars>>

\* recordResponseHeaders: an answer without an ETag leaves the old one.
Recorded(a) ==
    IF a.reply.etag = None THEN etags ELSE [etags EXCEPT ![a.url] = a.reply.etag]

\* A candidate delivers: answered, and cached with its url and ETag.
Delivered(r) ==
    LET a == waiting[r] IN
    /\ a # None /\ a.kind = "candidate" /\ a.reply # None
    /\ etags' = Recorded(a)
    /\ cache' = [ts |-> now, version |-> a.reply.version, successUrl |-> a.url]
    /\ waiting' = [waiting EXCEPT ![r] = None]
    /\ UNCHANGED <<now, published, limiterVars>>

\* A candidate fails, by its status, its payload, its transport or the time
\* limit: the next one is tried; after the last the request fails.
CandidateFails(r) ==
    LET a == waiting[r] IN
    /\ a # None /\ a.kind = "candidate"
    /\ waiting' = [waiting EXCEPT ![r] =
                     IF a.index < Len(CandidateLayers) THEN Candidate(a.limit, a.index + 1)
                     ELSE None]
    /\ UNCHANGED <<now, published, cache, etags, limiterVars>>

-----------------------------------------------------------------------------
\* The upstream publishes a new version of a layer.
Publish(l) ==
    /\ Len(published[l]) < MaxVersions
    /\ published' = [published EXCEPT ![l] = Append(@, now)]
    /\ UNCHANGED <<now, cache, etags, waiting, limiterVars>>

\* No attempt outlasts its time limit.
Tick ==
    /\ now < MaxTime
    /\ \A r \in Requests : waiting[r] # None => now - waiting[r].sentAt < TimeoutMs
    /\ now' = now + 1
    /\ admitted' = [c \in Clients |->
                      [a \in Ages |-> IF a = 0 THEN 0 ELSE admitted[c][a - 1]]]
    /\ UNCHANGED <<published, cache, etags, waiting, buckets>>

Next ==
    \/ Tick
    \/ \E l \in LayerIds : Publish(l)
    \/ \E c \in Clients : AnswerFromCache(c)
    \/ \E r \in Requests :
          \/ \E c \in Clients, limit \in Limits : Ask(r, c, limit)
          \/ Reply(r) \/ Unchanged(r) \/ ConditionalEnds(r)
          \/ Delivered(r) \/ CandidateFails(r)

Spec == Init /\ [][Next]_vars

-----------------------------------------------------------------------------
\* The layer held the version within two attempts' time before t: one for the
\* answer that delivered it, one for a 304 asked for meanwhile.
HeldBy(layer, version, t) ==
    LET out == published[layer] IN
    /\ out[version] <= t
    /\ version < Len(out) => t <= out[version + 1] + 2 * TimeoutMs

(***************************************************************************)
(* "queriedAt" means what it says (slip.ts 260-265, 295-307, 397-405): the *)
(* entry that answers is what its layer held when it was last asked, give  *)
(* or take two attempts, though limits share an entry, candidates take     *)
(* turns and a 304 extends what it has not seen.  Only an answer that a    *)
(* newer one has overtaken can break that: a 304 that puts back what was   *)
(* cached when it was asked for, or an older answer without an ETag.  Then *)
(* the ETag on record is newer than the features it vouches for, and every *)
(* later 304 upholds them.                                                 *)
(***************************************************************************)
QueriedAtIsHonest ==
    cache # None =>
        \/ HeldBy(cache.successUrl.layer, cache.version, cache.ts)
        \/ etags[cache.successUrl] \notin {None} \cup 0 .. cache.version

\* The requests of some ages, each numbered among those of its age.
Admitted(counts, ages) == UNION {{a} \X (1 .. counts[a]) : a \in ages}

(***************************************************************************)
(* The limiter's fixed windows (rate-limit.ts 71-81) around their ends: no *)
(* window's length of time sees more than two windows' worth of a client's *)
(* requests, and no client is refused unless a whole window's worth of its *)
(* own requests was admitted within that length of time.                   *)
(***************************************************************************)
WindowsAreFair ==
    \A c \in Clients :
        LET recent == Cardinality(Admitted(admitted[c], Ages))
        IN  /\ recent <= 2 * RateLimitMax
            /\ ~Admits(c) => recent >= RateLimitMax
=============================================================================
