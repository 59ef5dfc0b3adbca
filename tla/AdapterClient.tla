---------------------------- MODULE AdapterClient ----------------------------
(***************************************************************************)
(* The web process's client of the tool adapter, in its "mcp" transport    *)
(* (apps/web/lib/mcp-client.ts): one child process at a time, started on   *)
(* the first call, restarted within a budget when its transport fails, and *)
(* asked over stdio by concurrent calls that each end by a timeout of      *)
(* their own.                                                              *)
(*                                                                         *)
(* The event loop is single-threaded: what runs between two awaits is one  *)
(* action.  The child keeps its store and its commit tokens in memory, so  *)
(* a new child knows nothing of what the last one issued or applied.  A    *)
(* call previews a mutation, which issues its token, or confirms one; a    *)
(* retry is another call that confirms the same token.                     *)
(***************************************************************************)
EXTENDS Naturals, SequencesExt

CONSTANTS
    Previews,       \* calls that preview; each one's token is itself
    Confirms,       \* calls that confirm
    TokenOf,        \* the token each confirm carries
    Window,         \* RESPAWN_WINDOW_MS, in ticks
    MaxAttempts,    \* RESPAWN_MAX_ATTEMPTS
    Backoff,        \* RESPAWN_BACKOFF_MS, in ticks
    MaxTime,        \* no start is asked for that would end after it
    MaxStarts,      \* nor one that would be the child after so many
    None

Calls == Previews \cup Confirms
Children == 1 .. MaxStarts

VARIABLES
    now,
    respawnHistory,
    initPromise,    \* None, or the start under way: [ready, child]
    live,           \* the child that calls are sent to, or None
    starts,         \* history: when each child was spawned
    running,        \* the child processes that run
    tokens,         \* per child, the tokens its store holds
    inbox,          \* per child, the calls it has been sent and not carried out
    outcome,        \* per call, what the child made of it: None, "ok" or "refused"
    sentTo,         \* per call, the child it was sent to, or None
    answer          \* per call: "idle", "open" or its answer

clientVars == <<respawnHistory, initPromise, live, sentTo, answer>>
childVars == <<starts, running, tokens, inbox, outcome>>
vars == <<now, clientVars, childVars>>

ASSUME ClientAssumption ==
    /\ Previews \cap Confirms = {}
    /\ TokenOf \in [Confirms -> Previews]
    /\ Window \in Nat /\ MaxAttempts \in Nat \ {0} /\ MaxTime \in Nat /\ MaxStarts \in Nat
    /\ Backoff \in Seq(Nat) /\ Backoff # << >>
    /\ None \notin Nat \cup {"ok", "refused"}

\* The backoffs grow, and a start under way is not taken for none.
ASSUME StartAssumption ==
    /\ \A i, j \in DOMAIN Backoff : i <= j => Backoff[i] <= Backoff[j]
    /\ None \notin [ready : 0 .. MaxTime, child : {None}]

Init ==
    /\ now = 0
    /\ respawnHistory = << >> /\ initPromise = None /\ live = None
    /\ starts = << >> /\ running = {}
    /\ tokens = [k \in Children |-> {}]
    /\ inbox = [k \in Children |-> {}]
    /\ outcome = [c \in Calls |-> None]
    /\ sentTo = [c \in Calls |-> None]
    /\ answer = [c \in Calls |-> "idle"]

-----------------------------------------------------------------------------
(* getLive *)

\* A window that lets its last instant go.
RecentOpen ==
    LET kept == {i \in DOMAIN respawnHistory : respawnHistory[i] + Window > now} IN
    IF kept = {} THEN << >> ELSE SubSeq(respawnHistory, Min(kept), Len(respawnHistory))

\* recordRespawn: entries are shifted off the front up to the first in the window.
Recent ==
    LET kept == {i \in DOMAIN respawnHistory : respawnHistory[i] + Window >= now} IN
    IF kept = {} THEN << >> ELSE SubSeq(respawnHistory, Min(kept), Len(respawnHistory))

BackoffAfter(attempts) ==
    Backoff[IF attempts > Len(Backoff) THEN Len(Backoff) ELSE attempts]

\* The calls that await the start under way.
Waiting == {c \in Calls : answer[c] = "open" /\ sentTo[c] = None}

\* An officer confirms a token that a preview has handed out.
MayBegin(c) ==
    /\ answer[c] = "idle"
    /\ c \in Confirms => answer[TokenOf[c]] = "ok"

Send(cs, k) ==
    /\ sentTo' = [c \in Calls |-> IF c \in cs THEN k ELSE sentTo[c]]
    /\ inbox' = [inbox EXCEPT ![k] = @ \cup cs]

CallLive(c) ==
    /\ MayBegin(c)
    /\ live # None
    /\ answer' = [answer EXCEPT ![c] = "open"]
    /\ Send({c}, live)
    /\ UNCHANGED <<now, respawnHistory, initPromise, live, starts, running, tokens, outcome>>

CallSharesStart(c) ==
    /\ MayBegin(c)
    /\ live = None /\ initPromise # None
    /\ answer' = [answer EXCEPT ![c] = "open"]
    /\ UNCHANGED <<now, respawnHistory, initPromise, live, sentTo, childVars>>

CallRefusedByLimit(c) ==
    /\ MayBegin(c)
    /\ live = None /\ initPromise = None
    /\ Len(Recent) >= MaxAttempts
    /\ respawnHistory' = Recent
    /\ answer' = [answer EXCEPT ![c] = "retry"]
    /\ UNCHANGED <<now, initPromise, live, sentTo, childVars>>

CallAsksForStart(c) ==
    /\ MayBegin(c)
    /\ live = None /\ initPromise = None
    /\ Len(Recent) < MaxAttempts
    /\ respawnHistory' = Append(Recent, now)
    /\ initPromise' = [ready |-> now + BackoffAfter(Len(Recent) + 1), child |-> None]
    /\ initPromise'.ready <= MaxTime /\ Len(starts) < MaxStarts
    /\ answer' = [answer EXCEPT ![c] = "open"]
    /\ UNCHANGED <<now, live, sentTo, childVars>>

BackoffIsOver == initPromise # None /\ initPromise.child = None /\ now >= initPromise.ready

\* spawnLive, up to the connect it awaits.
StartChild ==
    /\ BackoffIsOver
    /\ starts' = Append(starts, now)
    /\ running' = running \cup {Len(starts) + 1}
    /\ initPromise' = [initPromise EXCEPT !.child = Len(starts) + 1]
    /\ UNCHANGED <<now, respawnHistory, live, sentTo, answer, tokens, inbox, outcome>>

\* connect resolves: every waiting call is sent.
Connected ==
    /\ initPromise # None /\ initPromise.child # None
    /\ live' = initPromise.child
    /\ initPromise' = None
    /\ Send(Waiting, initPromise.child)
    /\ UNCHANGED <<now, respawnHistory, answer, starts, running, tokens, outcome>>

\* The child dies in the handshake, or the SDK gives it up and closes it.
ConnectFails ==
    /\ initPromise # None /\ initPromise.child # None
    /\ running' = running \ {initPromise.child}
    /\ initPromise' = None
    /\ answer' = [c \in Calls |-> IF c \in Waiting THEN "retry" ELSE answer[c]]
    /\ UNCHANGED <<now, respawnHistory, live, sentTo, starts, tokens, inbox, outcome>>

-----------------------------------------------------------------------------
(* The child, and the ends of its transport *)

\* A store that forgets to delete a used token.
StoreKeepingTokens(c, k) == IF c \in Previews THEN tokens[k] \cup {c} ELSE tokens[k]

\* A store that files no token for a preview.
StoreWithoutTokens(c, k) == IF c \in Previews THEN tokens[k] ELSE tokens[k] \ {TokenOf[c]}

\* What carrying out a call makes of the child's tokens.
StoreAfter(c, k) ==
    IF c \in Previews THEN tokens[k] \cup {c} ELSE tokens[k] \ {TokenOf[c]}

\* A child that has the call carries it out, whether its caller waits or not.
Execute(c, k) ==
    /\ k \in running /\ c \in inbox[k]
    /\ inbox' = [inbox EXCEPT ![k] = @ \ {c}]
    /\ tokens' = [tokens EXCEPT ![k] = StoreAfter(c, k)]
    /\ outcome' = [outcome EXCEPT ![c] =
                     IF c \in Previews \/ TokenOf[c] \in tokens[k] THEN "ok" ELSE "refused"]
    /\ UNCHANGED <<now, clientVars, starts, running>>

\* A parser that takes every reply for a success.
ParsedAsOk(c) == "ok"

\* parseMcpToolResult: isError tells the refusals apart.
Parsed(c) == outcome[c]

Reply(c) ==
    /\ answer[c] = "open" /\ outcome[c] # None
    /\ sentTo[c] \in running
    /\ answer' = [answer EXCEPT ![c] = Parsed(c)]
    /\ UNCHANGED <<now, respawnHistory, initPromise, live, sentTo, childVars>>

\* A timer that is armed for the child in service only.
TimesOutWhileLive(c) ==
    /\ answer[c] = "open" /\ sentTo[c] # None /\ sentTo[c] = live
    /\ answer' = [answer EXCEPT ![c] = "retry"]
    /\ UNCHANGED <<now, respawnHistory, initPromise, live, sentTo, childVars>>

\* The call's own timer; the child is not asked to undo anything.
TimesOut(c) ==
    /\ answer[c] = "open" /\ sentTo[c] # None
    /\ answer' = [answer EXCEPT ![c] = "retry"]
    /\ UNCHANGED <<now, respawnHistory, initPromise, live, sentTo, childVars>>

\* onclose: only the handle is dropped, the calls sent wait for their timers.
\* The child's memory goes with it.
Dies(k) ==
    /\ k \in running /\ (initPromise # None => initPromise.child # k)
    /\ running' = running \ {k}
    /\ live' = IF live = k THEN None ELSE live
    /\ tokens' = [tokens EXCEPT ![k] = {}]
    /\ inbox' = [inbox EXCEPT ![k] = {}]
    /\ UNCHANGED <<now, respawnHistory, initPromise, sentTo, answer, starts, outcome>>

\* onerror: the handle is dropped, the child runs on.
TransportError ==
    /\ live # None
    /\ live' = None
    /\ UNCHANGED <<now, respawnHistory, initPromise, sentTo, answer, childVars>>

\* setTimeout is prompt at the scale of a tick.
Tick ==
    /\ now < MaxTime
    /\ ~BackoffIsOver
    /\ now' = now + 1
    /\ UNCHANGED <<clientVars, childVars>>

Begin(c) == CallLive(c) \/ CallSharesStart(c) \/ CallRefusedByLimit(c) \/ CallAsksForStart(c)

Next ==
    \/ Tick \/ StartChild \/ Connected \/ ConnectFails \/ TransportError
    \/ \E c \in Calls : Begin(c) \/ Reply(c) \/ TimesOut(c)
    \/ \E k \in Children : Dies(k) \/ \E c \in Calls : Execute(c, k)

(***************************************************************************)
(* Timers fire: the backoff's, the call's own, and the SDK's over the      *)
(* handshake.  Nothing is assumed of the child, nor of the officers.       *)
(***************************************************************************)
Fairness ==
    /\ WF_vars(Tick) /\ WF_vars(StartChild) /\ WF_vars(Connected \/ ConnectFails)
    /\ \A c \in Calls : WF_vars(TimesOut(c))

Spec == Init /\ [][Next]_vars /\ Fairness

-----------------------------------------------------------------------------
(***************************************************************************)
(* "Respawns up to 3 times in any rolling 30s window": whatever the        *)
(* backoffs put between a recorded attempt and the process it starts, and  *)
(* whoever shares a start, no window, its ends included, sees more child   *)
(* processes spawned.                                                      *)
(***************************************************************************)
StartsAreLimited ==
    \A i \in DOMAIN starts :
        i > MaxAttempts => starts[i] > starts[i - MaxAttempts] + Window

\* The confirms whose effect is in place in the child that ran them.
Applied == {c \in Calls : outcome[c] = "ok"}

(***************************************************************************)
(* Retrying is safe: however often a call times out, is retried, or is     *)
(* carried out late by a child that has been given up, one preview is      *)
(* committed at most once, over all children.                              *)
(***************************************************************************)
RetriesCommitOnce ==
    \A c, d \in Applied \cap Confirms : TokenOf[c] = TokenOf[d] => c = d

(***************************************************************************)
(* A confirm that the adapter refuses has a reason a caller can act on:    *)
(* its preview was committed by another call, or was made with a child     *)
(* that is no longer the one asked, so that it must be previewed again.    *)
(***************************************************************************)
RefusalHasACause ==
    \A c \in Confirms : answer[c] = "refused" =>
        \/ \E d \in Applied \cap Confirms : d # c /\ TokenOf[d] = TokenOf[c]
        \/ sentTo[TokenOf[c]] # sentTo[c]

(***************************************************************************)
(* runMcpTool "always resolves": every call is answered, whether the child *)
(* hangs, dies with calls in it, or cannot be started at all.              *)
(***************************************************************************)
EveryCallIsAnswered ==
    \A c \in Calls : answer[c] = "open" ~> answer[c] \in {"ok", "refused", "retry"}

(***************************************************************************)
(* The client keeps the promise of ToolCalls: ok and refused are final,    *)
(* and only a retryable answer leaves open whether the adapter has applied *)
(* the call or will.                                                       *)
(***************************************************************************)
Promise == INSTANCE ToolCalls WITH applied <- Applied
KeepsThePromise == Promise!Spec
=============================================================================
