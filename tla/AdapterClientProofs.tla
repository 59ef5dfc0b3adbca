------------------------- MODULE AdapterClientProofs -------------------------
(***************************************************************************)
(* Safety of retries over the adapter client, the rolling limit on child   *)
(* processes, and the safety part of the promise that the client keeps,    *)
(* for any previews, confirms, budgets, backoffs and number of children.   *)
(***************************************************************************)
EXTENDS AdapterClient, WellFoundedInduction, TLAPS

\* The start under way, and the children there have been.
StartTypes ==
    /\ now \in Nat /\ starts \in Seq(Nat) /\ Len(starts) <= MaxStarts
    /\ running \subseteq 1 .. Len(starts)
    /\ live # None => live \in 1 .. Len(starts)
    /\ initPromise # None =>
         /\ initPromise = [ready |-> initPromise.ready, child |-> initPromise.child]
         /\ initPromise.child # None => initPromise.child \in 1 .. Len(starts)
         /\ initPromise.child = None => Len(starts) < MaxStarts

CallTypes ==
    /\ tokens \in [Children -> SUBSET Previews]
    /\ inbox \in [Children -> SUBSET Calls]
    /\ outcome \in [Calls -> {None, "ok", "refused"}]
    /\ sentTo \in [Calls -> Children \cup {None}]
    /\ answer \in [Calls -> {"idle", "open", "ok", "refused", "retry"}]

\* A call is sent once, to a child there is, and carried out at most once.
SentOnce ==
    /\ \A c \in Calls : sentTo[c] # None => sentTo[c] \in 1 .. Len(starts)
    /\ \A c \in Calls : answer[c] = "idle" => sentTo[c] = None
    /\ \A c \in Calls : sentTo[c] = None => outcome[c] = None
    /\ \A k \in Children : \A c \in inbox[k] : sentTo[c] = k /\ outcome[c] = None

\* A final answer is what the child made of the call.
AnswersAreOutcomes ==
    \A c \in Calls : answer[c] \in {"ok", "refused"} => outcome[c] = answer[c]

Committed(p) == \E d \in Confirms : outcome[d] = "ok" /\ TokenOf[d] = p

\* A token is in the child that issued it, and goes with its commit only.
TokensAreOpen ==
    /\ \A k \in Children : \A p \in tokens[k] :
          sentTo[p] = k /\ outcome[p] = "ok" /\ ~Committed(p)
    /\ \A p \in Previews :
          (outcome[p] = "ok" /\ sentTo[p] \in running)
             => p \in tokens[sentTo[p]] \/ Committed(p)
    /\ \A c \in Confirms : outcome[c] = "ok" => outcome[TokenOf[c]] = "ok"

\* A confirm follows the answer to its preview, and is refused for a reason.
ConfirmsFollow ==
    \A c \in Confirms :
        /\ answer[c] # "idle" => answer[TokenOf[c]] = "ok"
        /\ outcome[c] = "refused" => Committed(TokenOf[c]) \/ sentTo[TokenOf[c]] # sentTo[c]

Inv ==
    /\ StartTypes /\ CallTypes /\ SentOnce /\ AnswersAreOutcomes
    /\ TokensAreOpen /\ ConfirmsFollow /\ RetriesCommitOnce

LEMMA InitInv == Init => Inv
<1> SUFFICES ASSUME Init PROVE Inv
  OBVIOUS
<1> USE ClientAssumption DEF Init, Children, Calls
<1>1. StartTypes /\ CallTypes
  BY DEF StartTypes, CallTypes
<1>2. SentOnce /\ AnswersAreOutcomes
  BY DEF SentOnce, AnswersAreOutcomes
<1>3. TokensAreOpen /\ ConfirmsFollow
  BY DEF TokensAreOpen, ConfirmsFollow, Committed
<1>4. RetriesCommitOnce
  BY DEF RetriesCommitOnce, Applied
<1> QED
  BY <1>1, <1>2, <1>3, <1>4 DEF Inv

\* What outcomes, answers and tokens say of each other looks at no child but
\* whether it runs.
LEMMA OutcomeFrame ==
  ASSUME Inv, UNCHANGED outcome
  PROVE  RetriesCommitOnce' /\ (\A p : Committed(p)' <=> Committed(p))
BY DEF Inv, RetriesCommitOnce, Applied, Committed

\* A call that is neither sent nor answered becomes a call that waits.
LEMMA OpensInv ==
  ASSUME Inv, NEW c \in Calls, MayBegin(c),
         answer' = [answer EXCEPT ![c] = "open"],
         UNCHANGED <<outcome, sentTo, inbox, tokens, starts, running>>
  PROVE  /\ CallTypes' /\ SentOnce' /\ AnswersAreOutcomes' /\ TokensAreOpen'
         /\ ConfirmsFollow' /\ RetriesCommitOnce'
<1>1. CallTypes' /\ SentOnce'
  BY DEF Inv, CallTypes, SentOnce, MayBegin
<1>2. AnswersAreOutcomes' /\ TokensAreOpen'
  BY DEF Inv, CallTypes, AnswersAreOutcomes, TokensAreOpen, Committed
<1>3. ConfirmsFollow'
  BY ClientAssumption DEF Inv, CallTypes, ConfirmsFollow, MayBegin, Committed, Calls
<1> QED
  BY <1>1, <1>2, <1>3, OutcomeFrame

\* Calls that wait are sent, all of them to one child.
LEMMA SendInv ==
  ASSUME Inv, NEW cs \in SUBSET Calls, NEW k \in 1 .. Len(starts), Send(cs, k),
         \A c \in cs : sentTo[c] = None /\ answer'[c] # "idle",
         \A c \in Calls : answer'[c] = answer[c] \/ answer'[c] = "open",
         \A c \in Confirms : answer'[c] # "idle" => answer'[TokenOf[c]] = "ok",
         \A c \in Calls : answer'[c] = "idle" => answer[c] = "idle",
         CallTypes',
         UNCHANGED <<outcome, tokens, starts, running>>
  PROVE  /\ SentOnce' /\ AnswersAreOutcomes' /\ TokensAreOpen'
         /\ ConfirmsFollow' /\ RetriesCommitOnce'
<1> USE ClientAssumption
<1>1. k \in Children /\ k # None
  BY DEF Inv, StartTypes, Children
<1>2. \A c \in Calls : sentTo'[c] = IF c \in cs THEN k ELSE sentTo[c]
  BY DEF Send
<1>3. \A j \in Children : inbox'[j] = IF j = k THEN inbox[j] \cup cs ELSE inbox[j]
  <2>1. inbox' = [inbox EXCEPT ![k] = @ \cup cs]
    BY DEF Send
  <2>2. DOMAIN inbox = Children
    BY DEF Inv, CallTypes
  <2> QED
    BY <2>1, <2>2
<1>4. SentOnce'
  <2>1. \A j \in Children : \A c \in inbox'[j] : sentTo'[c] = j /\ outcome'[c] = None
    <3> SUFFICES ASSUME NEW j \in Children, NEW c \in inbox'[j]
                 PROVE  sentTo'[c] = j /\ outcome'[c] = None
      OBVIOUS
    <3>1. CASE c \in inbox[j]
      <4>1. c \in Calls /\ sentTo[c] = j /\ outcome[c] = None
        BY <3>1 DEF Inv, SentOnce, CallTypes
      <4>2. j # None
        BY DEF Children
      <4> QED
        BY <4>1, <4>2, <1>2
    <3>2. CASE c \notin inbox[j]
      <4>1. j = k /\ c \in cs
        BY <3>2, <1>3
      <4> QED
        BY <4>1, <1>2 DEF Inv, SentOnce
    <3> QED
      BY <3>1, <3>2
  <2>2. \A c \in Calls : sentTo'[c] = None => sentTo[c] = None
    BY <1>1, <1>2
  <2> QED
    BY <2>1, <2>2, <1>2 DEF Inv, SentOnce
<1>5. AnswersAreOutcomes'
  BY DEF Inv, AnswersAreOutcomes
<1>6. \A c \in Calls : outcome[c] # None => c \notin cs
  BY DEF Inv, SentOnce
<1>7. TokensAreOpen'
  BY <1>1, <1>2, <1>6, OutcomeFrame DEF Inv, TokensAreOpen, CallTypes, Calls
<1>8. ConfirmsFollow'
  <2> SUFFICES ASSUME NEW c \in Confirms, outcome[c] = "refused"
               PROVE  Committed(TokenOf[c]) \/ sentTo'[TokenOf[c]] # sentTo'[c]
    BY OutcomeFrame DEF ConfirmsFollow
  <2>1. c \in Calls /\ TokenOf[c] \in Calls
    BY DEF Calls
  <2>2. answer[c] # "idle"
    BY <2>1 DEF Inv, SentOnce
  <2>3. outcome[TokenOf[c]] = "ok"
    BY <2>1, <2>2 DEF Inv, ConfirmsFollow, AnswersAreOutcomes
  <2> QED
    BY <1>2, <1>6, <2>1, <2>3 DEF Inv, ConfirmsFollow
<1> QED
  BY <1>4, <1>5, <1>7, <1>8, OutcomeFrame

-----------------------------------------------------------------------------
(* One lemma per action: what it touches of the invariant. *)

LEMMA OpenInv ==
  ASSUME Inv, NEW c \in Calls, CallSharesStart(c) \/ CallAsksForStart(c)
  PROVE  Inv'
<1>1. /\ MayBegin(c) /\ answer' = [answer EXCEPT ![c] = "open"]
      /\ UNCHANGED <<now, outcome, sentTo, inbox, tokens, starts, running, live>>
  BY DEF CallSharesStart, CallAsksForStart, childVars
<1>2. StartTypes'
  <2>1. CASE CallSharesStart(c)
    BY <1>1, <2>1 DEF CallSharesStart, Inv, StartTypes
  <2>2. CASE CallAsksForStart(c)
    BY <1>1, <2>2 DEF CallAsksForStart, Inv, StartTypes
  <2> QED
    BY <2>1, <2>2
<1> QED
  BY <1>1, <1>2, OpensInv DEF Inv

LEMMA RefusedByLimitInv ==
  ASSUME Inv, NEW c \in Calls, CallRefusedByLimit(c)
  PROVE  Inv'
<1>1. StartTypes' /\ CallTypes' /\ SentOnce'
  BY DEF CallRefusedByLimit, MayBegin, childVars, Inv, StartTypes, CallTypes, SentOnce
<1>2. AnswersAreOutcomes' /\ TokensAreOpen'
  BY OutcomeFrame DEF CallRefusedByLimit, childVars, Inv, CallTypes, AnswersAreOutcomes, TokensAreOpen
<1>3. ConfirmsFollow'
  BY ClientAssumption, OutcomeFrame
     DEF CallRefusedByLimit, childVars, Inv, CallTypes, ConfirmsFollow, MayBegin, Calls
<1>4. RetriesCommitOnce'
  BY OutcomeFrame DEF CallRefusedByLimit, childVars
<1> QED
  BY <1>1, <1>2, <1>3, <1>4 DEF Inv

LEMMA CallLiveInv ==
  ASSUME Inv, NEW c \in Calls, CallLive(c)
  PROVE  Inv'
<1>1. /\ MayBegin(c) /\ Send({c}, live) /\ answer' = [answer EXCEPT ![c] = "open"]
      /\ UNCHANGED <<now, outcome, tokens, starts, running, live, initPromise>>
  BY DEF CallLive
<1>2. live \in 1 .. Len(starts) /\ live \in Children
  BY ClientAssumption DEF CallLive, Inv, StartTypes, Children
<1>3. StartTypes'
  BY <1>1 DEF Inv, StartTypes
<1>4. CallTypes'
  BY <1>1, <1>2 DEF Send, Inv, CallTypes
<1>5. \A d \in Calls : answer'[d] = IF d = c THEN "open" ELSE answer[d]
  BY <1>1 DEF Inv, CallTypes
<1>6. sentTo[c] = None
  BY <1>1 DEF MayBegin, Inv, SentOnce
<1>7. \A d \in Confirms : answer'[d] # "idle" => answer'[TokenOf[d]] = "ok"
  BY <1>1, <1>5, ClientAssumption DEF MayBegin, Inv, ConfirmsFollow, Calls
<1> QED
  BY <1>1, <1>2, <1>3, <1>4, <1>5, <1>6, <1>7, SendInv DEF Inv

LEMMA ConnectedInv ==
  ASSUME Inv, Connected
  PROVE  Inv'
<1>1. /\ Send(Waiting, initPromise.child) /\ live' = initPromise.child
      /\ UNCHANGED <<now, answer, outcome, tokens, starts, running>>
  BY DEF Connected
<1>2. initPromise.child \in 1 .. Len(starts) /\ initPromise.child \in Children
  BY ClientAssumption DEF Connected, Inv, StartTypes, Children
<1>3. StartTypes'
  BY <1>1, <1>2 DEF Connected, Inv, StartTypes
<1>4. Waiting \in SUBSET Calls
  BY DEF Waiting
<1>5. CallTypes'
  BY <1>1, <1>2, <1>4 DEF Send, Inv, CallTypes
<1> QED
  BY <1>1, <1>2, <1>3, <1>4, <1>5, SendInv DEF Inv, ConfirmsFollow, Waiting

LEMMA StartChildInv ==
  ASSUME Inv, StartChild
  PROVE  Inv'
<1> USE ClientAssumption
<1>1. /\ starts' = Append(starts, now) /\ running' = running \cup {Len(starts) + 1}
      /\ UNCHANGED <<now, live, sentTo, answer, tokens, inbox, outcome>>
  BY DEF StartChild
<1>2. Len(starts) < MaxStarts
  BY DEF StartChild, BackoffIsOver, Inv, StartTypes
<1>3. CallTypes' /\ AnswersAreOutcomes' /\ ConfirmsFollow' /\ RetriesCommitOnce'
  BY <1>1, OutcomeFrame DEF Inv, CallTypes, AnswersAreOutcomes, ConfirmsFollow
<1>4. Len(starts') = Len(starts) + 1 /\ Len(starts) \in Nat
  BY <1>1 DEF Inv, StartTypes
<1>5. SentOnce'
  BY <1>1, <1>4 DEF Inv, SentOnce
<1>6. TokensAreOpen'
  BY <1>1, <1>4, OutcomeFrame DEF Inv, TokensAreOpen, SentOnce, Calls
<1>7. initPromise' = [ready |-> initPromise.ready, child |-> Len(starts) + 1]
  BY DEF StartChild, BackoffIsOver, Inv, StartTypes
<1> QED
  BY <1>1, <1>2, <1>3, <1>4, <1>5, <1>6, <1>7 DEF Inv, StartTypes

LEMMA ConnectFailsInv ==
  ASSUME Inv, ConnectFails
  PROVE  Inv'
<1> USE ClientAssumption
<1>1. UNCHANGED <<now, outcome, sentTo, starts, tokens, inbox, live>> /\ initPromise' = None
  BY DEF ConnectFails
<1>2. \A c \in Calls : answer'[c] = IF c \in Waiting THEN "retry" ELSE answer[c]
  BY DEF ConnectFails
<1>3. running' \subseteq running
  BY DEF ConnectFails
<1>4. StartTypes' /\ CallTypes'
  BY <1>1, <1>2, <1>3 DEF ConnectFails, Inv, StartTypes, CallTypes
<1>5. SentOnce' /\ AnswersAreOutcomes'
  BY <1>1, <1>2 DEF Inv, SentOnce, AnswersAreOutcomes
<1>6. TokensAreOpen'
  BY <1>1, <1>3, OutcomeFrame DEF Inv, TokensAreOpen
<1>7. ConfirmsFollow'
  BY <1>1, <1>2, OutcomeFrame DEF Inv, ConfirmsFollow, Waiting, Calls
<1> QED
  BY <1>1, <1>4, <1>5, <1>6, <1>7, OutcomeFrame DEF Inv

LEMMA AnsweredInv ==
  ASSUME Inv, NEW c \in Calls, Reply(c) \/ TimesOut(c)
  PROVE  Inv'
<1> USE ClientAssumption
<1>1. /\ UNCHANGED <<now, initPromise, live, sentTo, starts, running, tokens, inbox, outcome>>
      /\ answer[c] = "open"
  BY DEF Reply, TimesOut, childVars
<1>2. PICK a : /\ answer' = [answer EXCEPT ![c] = a]
               /\ a = "retry" \/ (a = outcome[c] /\ a # None)
  BY DEF Reply, TimesOut, Parsed
<1>3. a \in {"ok", "refused", "retry"}
  BY <1>2 DEF Inv, CallTypes
<1>4. \A d \in Calls : answer'[d] = IF d = c THEN a ELSE answer[d]
  BY <1>2 DEF Inv, CallTypes
<1>5. StartTypes' /\ CallTypes'
  BY <1>1, <1>2, <1>3 DEF Inv, StartTypes, CallTypes
<1>6. SentOnce' /\ TokensAreOpen'
  BY <1>1, <1>3, <1>4, OutcomeFrame DEF Inv, SentOnce, TokensAreOpen
<1>7. AnswersAreOutcomes'
  BY <1>1, <1>2, <1>4 DEF Inv, AnswersAreOutcomes
<1>8. ConfirmsFollow'
  BY <1>1, <1>3, <1>4, OutcomeFrame DEF Inv, ConfirmsFollow, Calls
<1> QED
  BY <1>1, <1>5, <1>6, <1>7, <1>8, OutcomeFrame DEF Inv

LEMMA DiesInv ==
  ASSUME Inv, NEW k \in Children, Dies(k)
  PROVE  Inv'
<1> USE ClientAssumption
<1>1. /\ UNCHANGED <<now, initPromise, sentTo, answer, starts, outcome>>
      /\ running' = running \ {k} /\ live' \in {live, None}
  BY DEF Dies
<1>2. \A j \in Children : /\ tokens'[j] = IF j = k THEN {} ELSE tokens[j]
                          /\ inbox'[j] = IF j = k THEN {} ELSE inbox[j]
  BY DEF Dies, Inv, CallTypes
<1>3. StartTypes' /\ CallTypes'
  BY <1>1 DEF Dies, Inv, StartTypes, CallTypes
<1>4. SentOnce' /\ AnswersAreOutcomes' /\ ConfirmsFollow'
  BY <1>1, <1>2, OutcomeFrame DEF Inv, SentOnce, AnswersAreOutcomes, ConfirmsFollow
<1>5. TokensAreOpen'
  <2>1. \A j \in Children : \A p \in tokens'[j] :
           sentTo'[p] = j /\ outcome'[p] = "ok" /\ ~Committed(p)'
    <3> SUFFICES ASSUME NEW j \in Children, NEW p \in tokens'[j]
                 PROVE  sentTo'[p] = j /\ outcome'[p] = "ok" /\ ~Committed(p)'
      OBVIOUS
    <3>1. p \in tokens[j]
      BY <1>2
    <3>2. sentTo[p] = j /\ outcome[p] = "ok" /\ ~Committed(p)
      BY <3>1 DEF Inv, TokensAreOpen
    <3> QED
      BY <3>2, <1>1, OutcomeFrame
  <2>2. ASSUME NEW p \in Previews, outcome[p] = "ok", sentTo[p] \in running'
        PROVE  p \in tokens'[sentTo[p]] \/ Committed(p)
    <3>1. sentTo[p] \in running /\ sentTo[p] # k /\ sentTo[p] \in Children
      <4>1. sentTo[p] \in running /\ sentTo[p] # k
        BY <1>1, <2>2
      <4>2. running \subseteq Children
        BY DEF Inv, StartTypes, Children
      <4> QED
        BY <4>1, <4>2
    <3> QED
      BY <3>1, <2>2, <1>2 DEF Inv, TokensAreOpen
  <2>3. \A c \in Confirms : outcome'[c] = "ok" => outcome'[TokenOf[c]] = "ok"
    BY <1>1 DEF Inv, TokensAreOpen
  <2>4. \A p \in Previews : Committed(p)' <=> Committed(p)
    BY <1>1 DEF Committed
  <2> QED
    BY <2>1, <2>2, <2>3, <2>4, <1>1 DEF TokensAreOpen
<1> QED
  BY <1>3, <1>4, <1>5, <1>1, OutcomeFrame DEF Inv

\* A child that carries out a call is the one it was sent to, and a confirm's
\* token is in it exactly if the preview is neither elsewhere nor committed.
LEMMA ExecuteInv ==
  ASSUME Inv, NEW c \in Calls, NEW k \in Children, Execute(c, k)
  PROVE  Inv'
<1> USE ClientAssumption
<1> DEFINE ok == c \in Previews \/ TokenOf[c] \in tokens[k]
<1>1. /\ UNCHANGED <<now, initPromise, live, sentTo, answer, starts, running>>
      /\ k \in running /\ c \in inbox[k]
  BY DEF Execute, clientVars
<1>2. sentTo[c] = k /\ outcome[c] = None
  BY <1>1 DEF Inv, SentOnce
<1>3. /\ \A j \in Children : inbox'[j] = IF j = k THEN inbox[j] \ {c} ELSE inbox[j]
      /\ \A j \in Children : tokens'[j] = IF j = k THEN StoreAfter(c, k) ELSE tokens[j]
      /\ \A d \in Calls : outcome'[d] = IF d # c THEN outcome[d]
                                        ELSE IF ok THEN "ok" ELSE "refused"
  BY DEF Execute, Inv, CallTypes
<1>4. CallTypes' /\ StartTypes'
  <2>1. StoreAfter(c, k) \in SUBSET Previews
    BY DEF StoreAfter, Inv, CallTypes
  <2> QED
    BY <1>1, <2>1 DEF Execute, Inv, CallTypes, StartTypes
<1>5. k # None
  BY DEF Children
<1>6. SentOnce'
  <2>1. \A j \in Children : \A d \in inbox'[j] : sentTo'[d] = j /\ outcome'[d] = None
    <3> SUFFICES ASSUME NEW j \in Children, NEW d \in inbox'[j]
                 PROVE  sentTo'[d] = j /\ outcome'[d] = None
      OBVIOUS
    <3>1. d \in inbox[j] /\ d \in Calls
      BY <1>3 DEF Inv, CallTypes
    <3>2. sentTo[d] = j /\ outcome[d] = None
      BY <3>1 DEF Inv, SentOnce
    <3>3. d # c
      BY <3>2, <1>2, <1>3
    <3> QED
      BY <3>1, <3>2, <3>3, <1>1, <1>3
  <2>2. \A d \in Calls : sentTo[d] = None => d # c
    BY <1>2, <1>5
  <2> QED
    BY <2>1, <2>2, <1>1, <1>3 DEF Inv, SentOnce
<1>7. AnswersAreOutcomes'
  BY <1>1, <1>2, <1>3 DEF Inv, AnswersAreOutcomes
<1> HIDE DEF ok
<1>8. CASE c \in Previews
  <2>1. ok /\ c \notin Confirms /\ StoreAfter(c, k) = tokens[k] \cup {c}
    BY <1>8 DEF ok, StoreAfter
  <2>2. \A d \in Confirms : d \in Calls /\ d # c /\ TokenOf[d] \in Calls
    BY <2>1 DEF Calls
  <2>3. \A p : Committed(p)' <=> Committed(p)
    BY <1>3, <2>2 DEF Committed
  <2>4. \A d \in Confirms : outcome[d] = "ok" => TokenOf[d] # c
    BY <1>2 DEF Inv, TokensAreOpen
  <2>5. ~Committed(c)
    BY <2>4 DEF Committed
  <2>6. TokensAreOpen'
    <3>1. \A j \in Children : \A p \in tokens'[j] :
             sentTo'[p] = j /\ outcome'[p] = "ok" /\ ~Committed(p)'
      <4> SUFFICES ASSUME NEW j \in Children, NEW p \in tokens'[j]
                   PROVE  sentTo'[p] = j /\ outcome'[p] = "ok" /\ ~Committed(p)'
        OBVIOUS
      <4>1. CASE p \in tokens[j]
        <5>1. sentTo[p] = j /\ outcome[p] = "ok" /\ ~Committed(p) /\ p \in Calls
          BY <4>1 DEF Inv, TokensAreOpen, CallTypes, Calls
        <5> QED
          BY <5>1, <1>1, <1>3, <2>1, <2>3
      <4>2. CASE p \notin tokens[j]
        <5>1. p = c /\ j = k
          BY <4>2, <1>3, <2>1
        <5> QED
          BY <5>1, <1>1, <1>2, <1>3, <2>1, <2>3, <2>5
      <4> QED
        BY <4>1, <4>2
    <3>2. ASSUME NEW p \in Previews, outcome'[p] = "ok", sentTo[p] \in running
          PROVE  p \in tokens'[sentTo[p]] \/ Committed(p)
      <4>1. CASE p = c
        BY <4>1, <1>2, <1>3, <2>1
      <4>2. CASE p # c
        <5>1. outcome[p] = "ok" /\ sentTo[p] \in Children
          <6>1. p \in Calls
            BY DEF Calls
          <6>2. outcome[p] = "ok"
            BY <3>2, <4>2, <6>1, <1>3
          <6> QED
            BY <3>2, <6>2 DEF Inv, StartTypes, Children
        <5> QED
          BY <5>1, <3>2, <1>3, <2>1 DEF Inv, TokensAreOpen
      <4> QED
        BY <4>1, <4>2
    <3>3. \A d \in Confirms : outcome'[d] = "ok" => outcome'[TokenOf[d]] = "ok"
      BY <1>3, <2>1, <2>2 DEF Inv, TokensAreOpen
    <3> QED
      BY <3>1, <3>2, <3>3, <1>1, <2>3 DEF TokensAreOpen
  <2>7. ConfirmsFollow' /\ RetriesCommitOnce'
    BY <1>1, <1>3, <2>2, <2>3 DEF Inv, ConfirmsFollow, RetriesCommitOnce, Applied
  <2> QED
    BY <1>4, <1>6, <1>7, <2>6, <2>7 DEF Inv
<1>9. CASE c \in Confirms
  <2> DEFINE p == TokenOf[c]
  <2>1. /\ c \notin Previews /\ p \in Previews /\ p \in Calls /\ p # c
        /\ StoreAfter(c, k) = tokens[k] \ {p}
        /\ ok <=> p \in tokens[k]
    BY <1>9 DEF ok, StoreAfter, Calls
  <2>2. \A q \in Previews : q \in Calls /\ q # c
    BY <2>1 DEF Calls
  <2>3. outcome[p] = "ok"
    <3>1. answer[c] # "idle"
      BY <1>2, <1>5 DEF Inv, SentOnce
    <3> QED
      BY <3>1, <1>9, <2>1 DEF Inv, ConfirmsFollow, AnswersAreOutcomes
  <2>4. ok => ~Committed(p)
    BY <2>1 DEF Inv, TokensAreOpen
  <2>5. \A q : Committed(q)' <=> Committed(q) \/ (ok /\ q = p)
    BY <1>2, <1>3, <1>9 DEF Committed, Calls
  <2> HIDE DEF p
  <2>6. \A j \in Children : p \in tokens[j] => j = k \/ ~ok
    BY <2>1 DEF Inv, TokensAreOpen
  <2>7. TokensAreOpen'
    <3>1. \A j \in Children : \A q \in tokens'[j] :
             sentTo'[q] = j /\ outcome'[q] = "ok" /\ ~Committed(q)'
      <4> SUFFICES ASSUME NEW j \in Children, NEW q \in tokens'[j]
                   PROVE  sentTo'[q] = j /\ outcome'[q] = "ok" /\ ~Committed(q)'
        OBVIOUS
      <4>1. q \in tokens[j] /\ q \in Previews
        BY <1>3, <2>1 DEF Inv, CallTypes
      <4>2. sentTo[q] = j /\ outcome[q] = "ok" /\ ~Committed(q)
        BY <4>1 DEF Inv, TokensAreOpen
      <4>3. ~(ok /\ q = p)
        BY <4>1, <2>6, <1>3, <2>1
      <4> QED
        BY <4>1, <4>2, <4>3, <1>1, <1>3, <2>2, <2>5
    <3>2. ASSUME NEW q \in Previews, outcome'[q] = "ok", sentTo[q] \in running
          PROVE  q \in tokens'[sentTo[q]] \/ Committed(q)'
      <4>1. outcome[q] = "ok" /\ sentTo[q] \in Children
        <5>1. outcome[q] = "ok"
          BY <3>2, <1>3, <2>2
        <5> QED
          BY <3>2, <5>1 DEF Inv, StartTypes, Children
      <4>2. q \in tokens[sentTo[q]] \/ Committed(q)
        BY <4>1, <3>2 DEF Inv, TokensAreOpen
      <4>3. q = p /\ ~ok /\ sentTo[q] = k => q \notin tokens[k]
        BY <2>1
      <4>4. CASE q = p /\ ok
        BY <4>4, <2>5
      <4>5. CASE q # p
        BY <4>1, <4>2, <4>5, <1>3, <2>1, <2>5
      <4>6. CASE ~ok
        BY <4>1, <4>2, <4>6, <1>3, <2>1, <2>5
      <4> QED
        BY <4>4, <4>5, <4>6
    <3>3. \A d \in Confirms : outcome'[d] = "ok" => outcome'[TokenOf[d]] = "ok"
      <4> SUFFICES ASSUME NEW d \in Confirms, outcome'[d] = "ok"
                   PROVE  outcome'[TokenOf[d]] = "ok"
        OBVIOUS
      <4>1. TokenOf[d] \in Previews /\ d \in Calls
        BY DEF Calls
      <4>2. CASE d = c
        BY <4>1, <4>2, <1>3, <2>2, <2>3 DEF p
      <4>3. CASE d # c
        BY <4>1, <4>3, <1>3, <2>2 DEF Inv, TokensAreOpen
      <4> QED
        BY <4>2, <4>3
    <3> QED
      BY <3>1, <3>2, <3>3, <1>1 DEF TokensAreOpen
  <2>8. ConfirmsFollow'
    <3> SUFFICES ASSUME NEW d \in Confirms, outcome'[d] = "refused"
                 PROVE  Committed(TokenOf[d])' \/ sentTo'[TokenOf[d]] # sentTo'[d]
      BY <1>1 DEF Inv, ConfirmsFollow
    <3>1. CASE d = c
      <4>1. ~ok
        BY <3>1, <1>3
      <4>2. sentTo[p] = k => Committed(p)
        BY <4>1, <1>1, <2>1, <2>3 DEF Inv, TokensAreOpen
      <4> QED
        BY <4>2, <3>1, <1>1, <1>2, <2>5 DEF p
    <3>2. CASE d # c
      BY <3>2, <1>1, <1>3, <2>5 DEF Inv, ConfirmsFollow, Calls
    <3> QED
      BY <3>1, <3>2
  <2>9. RetriesCommitOnce'
    <3> SUFFICES ASSUME NEW d \in Confirms, NEW e \in Confirms,
                        outcome'[d] = "ok", outcome'[e] = "ok", TokenOf[d] = TokenOf[e]
                 PROVE  d = e
      BY DEF RetriesCommitOnce, Applied, Calls
    <3>1. \A x \in Confirms : x # c /\ outcome'[x] = "ok" =>
             outcome[x] = "ok" /\ Committed(TokenOf[x])
      BY <1>3 DEF Committed, Calls
    <3>2. outcome'[c] = "ok" => ok
      BY <1>3
    <3>3. CASE d = c \/ e = c
      BY <3>1, <3>2, <3>3, <2>4 DEF p
    <3>4. CASE d # c /\ e # c
      BY <3>1, <3>4 DEF Inv, RetriesCommitOnce, Applied, Calls
    <3> QED
      BY <3>3, <3>4
  <2> QED
    BY <1>4, <1>6, <1>7, <2>7, <2>8, <2>9 DEF Inv
<1> QED
  BY <1>8, <1>9 DEF Calls

LEMMA NextInv == Inv /\ [Next]_vars => Inv'
<1> SUFFICES ASSUME Inv, [Next]_vars PROVE Inv'
  OBVIOUS
<1>1. ASSUME NEW c \in Calls, Begin(c)
      PROVE  Inv'
  BY <1>1, OpenInv, RefusedByLimitInv, CallLiveInv DEF Begin
<1>2. ASSUME Tick \/ TransportError
      PROVE  Inv'
  <2>1. /\ UNCHANGED <<initPromise, sentTo, answer, childVars>>
        /\ now' \in Nat /\ live' \in {live, None}
    BY <1>2 DEF Tick, TransportError, clientVars, Inv, StartTypes
  <2>2. StartTypes' /\ CallTypes'
    BY <2>1 DEF childVars, Inv, StartTypes, CallTypes
  <2>3. SentOnce' /\ AnswersAreOutcomes' /\ ConfirmsFollow' /\ TokensAreOpen'
    BY <2>1, OutcomeFrame
       DEF childVars, Inv, SentOnce, AnswersAreOutcomes, ConfirmsFollow, TokensAreOpen
  <2> QED
    BY <2>1, <2>2, <2>3, OutcomeFrame DEF Inv, childVars
<1>3. ASSUME NEW k \in Children, Dies(k) \/ \E c \in Calls : Execute(c, k)
      PROVE  Inv'
  BY <1>3, DiesInv, ExecuteInv
<1>4. CASE UNCHANGED vars
  BY <1>4, OutcomeFrame
     DEF vars, clientVars, childVars, Inv, StartTypes, CallTypes, SentOnce,
         AnswersAreOutcomes, ConfirmsFollow, TokensAreOpen
<1> QED
  BY <1>1, <1>2, <1>3, <1>4, StartChildInv, ConnectedInv, ConnectFailsInv, AnsweredInv DEF Next

THEOREM InvHolds == Spec => []Inv
  BY InitInv, NextInv, PTL DEF Spec

-----------------------------------------------------------------------------
(* The rolling window.  The history keeps the last of the attempts; those  *)
(* shifted off it are known by the processes they started.                 *)

LEMMA MinIsLeast ==
  ASSUME NEW S \in SUBSET Nat, S # {}
  PROVE  Min(S) \in S /\ \A y \in S : Min(S) <= y
<1>1. IsWellFoundedOn(OpToRel(<, Nat), Nat)
  BY NatLessThanWellFounded
<1>2. PICK x \in S : \A y \in S : ~ (<<y, x>> \in OpToRel(<, Nat))
  <2> HIDE DEF OpToRel
  <2> QED
    BY <1>1, WFMin
<1>3. ASSUME NEW y \in S
      PROVE  x <= y
  <2>1. ~ (y < x)
    BY <1>2 DEF OpToRel
  <2> QED
    BY <2>1
<1> QED
  BY <1>3 DEF Min

\* The sweep drops a prefix, of entries older than the window only.
LEMMA RecentIsASuffix ==
  ASSUME respawnHistory \in Seq(Nat), now \in Nat
  PROVE  \E d \in 0 .. Len(respawnHistory) :
            /\ Recent \in Seq(Nat) /\ Len(Recent) = Len(respawnHistory) - d
            /\ \A j \in 1 .. Len(respawnHistory) - d : Recent[j] = respawnHistory[j + d]
            /\ \A j \in 1 .. d : respawnHistory[j] + Window < now
<1> DEFINE n == Len(respawnHistory)
           kept == {i \in DOMAIN respawnHistory : respawnHistory[i] + Window >= now}
<1> USE ClientAssumption
<1>1. n \in Nat /\ DOMAIN respawnHistory = 1 .. n
  OBVIOUS
<1>2. CASE kept = {}
  <2>1. Recent = << >>
    BY <1>2 DEF Recent
  <2>2. \A j \in 1 .. n : respawnHistory[j] + Window < now
    <3> SUFFICES ASSUME NEW j \in 1 .. n
                 PROVE  respawnHistory[j] + Window < now
      OBVIOUS
    <3>1. respawnHistory[j] \in Nat /\ j \in DOMAIN respawnHistory
      OBVIOUS
    <3> QED
      BY <1>2, <3>1
  <2>3. Recent \in Seq(Nat) /\ Len(Recent) = n - n /\ n \in 0 .. n
    BY <2>1, <1>1
  <2>4. \A j \in 1 .. n - n : Recent[j] = respawnHistory[j + n]
    BY <1>1
  <2> QED
    BY <2>2, <2>3, <2>4
<1>3. CASE kept # {}
  <2> DEFINE m == Min(kept)
  <2>1. kept \in SUBSET Nat
    BY <1>1
  <2> HIDE DEF kept
  <2>2. m \in kept /\ \A y \in kept : m <= y
    BY <1>3, <2>1, MinIsLeast
  <2> HIDE DEF m
  <2>3. m \in 1 .. n
    BY <2>2 DEF kept
  <2> HIDE DEF n
  <2>4. Recent = SubSeq(respawnHistory, m, n)
    BY <1>3 DEF Recent, kept, m, n
  <2>5. \A j \in 1 .. m - 1 : respawnHistory[j] + Window < now
    <3> SUFFICES ASSUME NEW j \in 1 .. m - 1
                 PROVE  respawnHistory[j] + Window < now
      OBVIOUS
    <3>1. j \notin kept /\ j \in DOMAIN respawnHistory
      BY <2>2, <2>3, <1>1
    <3>2. respawnHistory[j] \in Nat
      BY <3>1
    <3> QED
      BY <3>1, <3>2 DEF kept
  <2>6. Recent = [j \in 1 .. n - m + 1 |-> respawnHistory[j + m - 1]]
    BY <1>1, <2>3, <2>4
  <2>7. Len(Recent) = n - (m - 1) /\ Recent \in Seq(Nat)
    BY <1>1, <2>3, <2>4 DEF n
  <2>9. \A j \in 1 .. n - (m - 1) : Recent[j] = respawnHistory[j + (m - 1)]
    BY <1>1, <2>3, <2>6
  <2>8. m - 1 \in 0 .. n
    BY <1>1, <2>3
  <2> QED
    BY <2>5, <2>7, <2>8, <2>9 DEF n
<1> QED
  BY <1>2, <1>3

\* The backoff of the last attempt a full window admits, which is the longest.
LongestBackoff == BackoffAfter(MaxAttempts)

LEMMA BackoffsGrow ==
  ASSUME NEW r \in 1 .. MaxAttempts
  PROVE  /\ BackoffAfter(r) \in Nat /\ LongestBackoff \in Nat
         /\ BackoffAfter(r) <= LongestBackoff
BY ClientAssumption, StartAssumption DEF BackoffAfter, LongestBackoff

Pending == initPromise # None /\ initPromise.child = None

\* The attempts there have been, and those the history no longer holds.
Attempts == IF Pending THEN Len(starts) + 1 ELSE Len(starts)
Shifted == Attempts - Len(respawnHistory)

WindowTypes ==
    /\ now \in Nat /\ starts \in Seq(Nat) /\ respawnHistory \in Seq(Nat)
    /\ Len(respawnHistory) <= MaxAttempts /\ Shifted \in Nat

\* Attempt and process alternate, at most the longest backoff apart.
Alternating ==
    /\ \A i \in DOMAIN starts : starts[i] <= now
    /\ \A j \in DOMAIN respawnHistory : respawnHistory[j] <= now
    /\ \A j \in DOMAIN respawnHistory : j + Shifted \in DOMAIN starts =>
          /\ respawnHistory[j] <= starts[j + Shifted]
          /\ starts[j + Shifted] <= respawnHistory[j] + LongestBackoff
    /\ \A j \in DOMAIN respawnHistory : j + Shifted > 1 =>
          starts[j + Shifted - 1] <= respawnHistory[j]

\* What is shifted off is old: its process may still be the last backoff
\* younger, the processes before it may not.
ShiftedAreOld ==
    \A i \in DOMAIN starts :
        /\ i < Shifted => starts[i] + Window < now
        /\ i <= Shifted => starts[i] + Window < now + LongestBackoff

\* The start under way is late enough for the process it will spawn.
PendingIsLate ==
    Pending =>
        /\ respawnHistory # << >> /\ initPromise.ready \in Nat /\ now <= initPromise.ready
        /\ initPromise.ready <= respawnHistory[Len(respawnHistory)] + LongestBackoff
        /\ Attempts > MaxAttempts =>
              starts[Attempts - MaxAttempts] + Window < initPromise.ready

WindowInv ==
    /\ WindowTypes /\ Alternating /\ ShiftedAreOld /\ PendingIsLate /\ StartsAreLimited

LEMMA InitWindow == Init => WindowInv
BY ClientAssumption
   DEF Init, WindowInv, WindowTypes, Alternating, ShiftedAreOld, PendingIsLate,
       StartsAreLimited, Shifted, Attempts, Pending

LEMMA WindowFrame ==
  ASSUME WindowInv, UNCHANGED <<now, respawnHistory, starts>>, Pending' <=> Pending,
         Pending => UNCHANGED initPromise
  PROVE  WindowInv'
<1>1. Attempts' = Attempts /\ Shifted' = Shifted
  BY DEF Attempts, Shifted
<1>2. LongestBackoff' = LongestBackoff
  BY DEF LongestBackoff, BackoffAfter
<1>3. WindowTypes' /\ Alternating'
  BY <1>1, <1>2 DEF WindowInv, WindowTypes, Alternating
<1>4. ShiftedAreOld' /\ PendingIsLate' /\ StartsAreLimited'
  BY <1>1, <1>2 DEF WindowInv, ShiftedAreOld, PendingIsLate, StartsAreLimited
<1> QED
  BY <1>3, <1>4 DEF WindowInv

\* The timer fires before time moves on from the end of the backoff.
LEMMA TickWindow ==
  ASSUME WindowInv, Tick
  PROVE  WindowInv'
<1>1. /\ UNCHANGED <<respawnHistory, starts, initPromise>> /\ now' = now + 1
      /\ ~ BackoffIsOver
  BY DEF Tick, clientVars, childVars
<1>2. Attempts' = Attempts /\ Shifted' = Shifted /\ Pending' = Pending
  BY <1>1 DEF Attempts, Shifted, Pending
<1>3. LongestBackoff \in Nat /\ LongestBackoff' = LongestBackoff
  BY BackoffsGrow, ClientAssumption DEF LongestBackoff, BackoffAfter
<1>4. WindowTypes'
  BY <1>1, <1>2 DEF WindowInv, WindowTypes
<1>5. Alternating'
  <2>1. /\ \A i \in DOMAIN starts : starts[i] \in Nat
        /\ \A j \in DOMAIN respawnHistory : respawnHistory[j] \in Nat
    BY DEF WindowInv, WindowTypes
  <2> QED
    BY <1>1, <1>2, <1>3, <2>1 DEF WindowInv, WindowTypes, Alternating
<1>6. ShiftedAreOld'
  <2> SUFFICES ASSUME NEW i \in DOMAIN starts
               PROVE  /\ i < Shifted => starts[i] + Window < now + 1
                      /\ i <= Shifted => starts[i] + Window < now + 1 + LongestBackoff
    BY <1>1, <1>2, <1>3 DEF ShiftedAreOld
  <2>1. starts[i] \in Nat /\ now \in Nat /\ Window \in Nat
    BY ClientAssumption DEF WindowInv, WindowTypes
  <2> QED
    BY <2>1, <1>3 DEF WindowInv, ShiftedAreOld
<1>7. PendingIsLate'
  BY <1>1, <1>2, <1>3 DEF WindowInv, WindowTypes, PendingIsLate, BackoffIsOver, Pending
<1>8. StartsAreLimited'
  BY <1>1 DEF WindowInv, StartsAreLimited
<1> QED
  BY <1>4, <1>5, <1>6, <1>7, <1>8 DEF WindowInv

\* No start is under way when the history is swept.  What the sweep drops has
\* spawned its process, at most the longest backoff after it was recorded.
SweptAreOld(d) ==
    \A i \in DOMAIN starts :
        /\ i < Shifted + d => starts[i] + Window < now
        /\ i <= Shifted + d => starts[i] + Window < now + LongestBackoff

LEMMA SweptIsOld ==
  ASSUME WindowInv, ~ Pending, NEW d \in 0 .. Len(respawnHistory),
         \A j \in 1 .. d : respawnHistory[j] + Window < now
  PROVE  SweptAreOld(d)
<1> SUFFICES ASSUME NEW i \in DOMAIN starts
             PROVE  /\ i < Shifted + d => starts[i] + Window < now
                    /\ i <= Shifted + d => starts[i] + Window < now + LongestBackoff
  BY DEF SweptAreOld
<1>0. respawnHistory \in Seq(Nat)
  BY DEF WindowInv, WindowTypes
<1>1. /\ now \in Nat /\ Window \in Nat /\ LongestBackoff \in Nat /\ Shifted \in Nat
      /\ starts[i] \in Nat /\ i \in Nat \ {0} /\ Len(respawnHistory) \in Nat
      /\ Shifted + Len(respawnHistory) = Len(starts) /\ DOMAIN starts = 1 .. Len(starts)
  <2>1. /\ now \in Nat /\ starts \in Seq(Nat) /\ Shifted \in Nat
        /\ Len(starts) \in Nat /\ Len(respawnHistory) \in Nat
    BY <1>0 DEF WindowInv, WindowTypes
  <2>2. starts[i] \in Nat /\ i \in Nat \ {0} /\ DOMAIN starts = 1 .. Len(starts)
    BY <2>1
  <2>3. Window \in Nat /\ LongestBackoff \in Nat
    <3>1. 1 \in 1 .. MaxAttempts
      BY ClientAssumption
    <3> QED
      BY <3>1, BackoffsGrow, ClientAssumption
  <2>4. Shifted + Len(respawnHistory) = Len(starts)
    BY <2>1 DEF Shifted, Attempts
  <2> QED
    BY <2>1, <2>2, <2>3, <2>4
<1>2. CASE i <= Shifted /\ d = 0
  <2>1. /\ i < Shifted => starts[i] + Window < now
        /\ i <= Shifted => starts[i] + Window < now + LongestBackoff
    BY DEF WindowInv, ShiftedAreOld
  <2> QED
    BY <1>1, <1>2, <2>1
<1>3. CASE i < Shifted
  <2>1. starts[i] + Window < now
    BY <1>3 DEF WindowInv, ShiftedAreOld
  <2> QED
    BY <1>1, <2>1
<1>4. CASE Shifted <= i /\ i < Shifted + d
  \* The process came before the next attempt, which is swept.
  <2> DEFINE j == i + 1 - Shifted
  <2>1. j \in 1 .. d /\ j + Shifted > 1 /\ j + Shifted - 1 = i
    BY <1>1, <1>4
  <2> HIDE DEF j
  <2>2. j \in DOMAIN respawnHistory /\ respawnHistory[j] \in Nat
    BY <2>1, <1>0
  <2>4. starts[i] <= respawnHistory[j]
    BY <2>1, <2>2 DEF WindowInv, Alternating
  <2>3. respawnHistory[j] + Window < now
    BY <2>1
  <2> QED
    BY <1>1, <2>2, <2>3, <2>4
<1>5. CASE d > 0 /\ i = Shifted + d
  <2>1. d \in 1 .. d /\ d \in DOMAIN respawnHistory /\ d + Shifted = i
    BY <1>1, <1>5 DEF WindowInv, WindowTypes
  <2>2. starts[i] <= respawnHistory[d] + LongestBackoff /\ respawnHistory[d] \in Nat
    BY <2>1 DEF WindowInv, Alternating, WindowTypes
  <2>3. respawnHistory[d] + Window < now
    BY <2>1
  <2> QED
    BY <1>1, <1>5, <2>2, <2>3
<1> QED
  BY <1>1, <1>2, <1>3, <1>4, <1>5

LEMMA RefusedByLimitWindow ==
  ASSUME WindowInv, NEW c \in Calls, CallRefusedByLimit(c)
  PROVE  WindowInv'
<1>1. /\ UNCHANGED <<now, starts, initPromise>> /\ respawnHistory' = Recent
      /\ initPromise = None
  BY DEF CallRefusedByLimit, childVars
<1>2. respawnHistory \in Seq(Nat) /\ now \in Nat /\ Shifted \in Nat
  BY DEF WindowInv, WindowTypes
<1>3. PICK d \in 0 .. Len(respawnHistory) :
            /\ Recent \in Seq(Nat) /\ Len(Recent) = Len(respawnHistory) - d
            /\ \A j \in 1 .. Len(respawnHistory) - d : Recent[j] = respawnHistory[j + d]
            /\ \A j \in 1 .. d : respawnHistory[j] + Window < now
  BY <1>2, RecentIsASuffix
<1>4. ~ Pending /\ ~ Pending' /\ Shifted' = Shifted + d
  BY <1>1, <1>2, <1>3 DEF Pending, Shifted, Attempts, WindowInv, WindowTypes
<1>5. LongestBackoff' = LongestBackoff
  BY DEF LongestBackoff, BackoffAfter
<1>6. ShiftedAreOld'
  BY <1>1, <1>3, <1>4, <1>5, SweptIsOld DEF ShiftedAreOld, SweptAreOld
<1>7. WindowTypes'
  <2>1. Len(respawnHistory) <= MaxAttempts /\ MaxAttempts \in Nat
    BY ClientAssumption DEF WindowInv, WindowTypes
  <2>2. Len(Recent) <= MaxAttempts
    BY <1>2, <1>3, <2>1
  <2>3. Shifted + d \in Nat
    BY <1>2
  <2> QED
    BY <1>1, <1>3, <1>4, <2>2, <2>3 DEF WindowInv, WindowTypes
<1>8. ASSUME NEW j \in DOMAIN respawnHistory'
      PROVE  /\ j + d \in DOMAIN respawnHistory /\ respawnHistory'[j] = respawnHistory[j + d]
             /\ j + Shifted' = (j + d) + Shifted
  <2>1. Len(respawnHistory) \in Nat /\ DOMAIN respawnHistory = 1 .. Len(respawnHistory)
    BY <1>2
  <2>2. j \in 1 .. Len(respawnHistory) - d
    BY <1>1, <1>3
  <2>3. j + d \in 1 .. Len(respawnHistory) /\ j + (Shifted + d) = (j + d) + Shifted
    BY <2>1, <2>2, <1>2
  <2> QED
    BY <1>1, <1>3, <1>4, <2>1, <2>2, <2>3
<1>9. Alternating'
  <2>1. /\ \A i \in DOMAIN starts' : starts'[i] <= now'
        /\ \A j \in DOMAIN respawnHistory' : respawnHistory'[j] <= now'
    BY <1>1, <1>8 DEF WindowInv, Alternating
  <2>2. ASSUME NEW j \in DOMAIN respawnHistory', j + Shifted' \in DOMAIN starts'
        PROVE  /\ respawnHistory'[j] <= starts'[j + Shifted']
               /\ starts'[j + Shifted'] <= respawnHistory'[j] + LongestBackoff'
    BY <1>1, <1>5, <1>8, <2>2 DEF WindowInv, Alternating
  <2>3. ASSUME NEW j \in DOMAIN respawnHistory', j + Shifted' > 1
        PROVE  starts'[j + Shifted' - 1] <= respawnHistory'[j]
    <3>1. j + d \in DOMAIN respawnHistory /\ (j + d) + Shifted > 1
      BY <1>8, <2>3
    <3>2. starts[(j + d) + Shifted - 1] <= respawnHistory[j + d]
      BY <3>1 DEF WindowInv, Alternating
    <3>3. j + Shifted' - 1 = (j + d) + Shifted - 1 /\ respawnHistory'[j] = respawnHistory[j + d]
      <4>1. j \in Int
        BY <1>1, <1>3
      <4> QED
        BY <4>1, <1>2, <1>4, <1>8
    <3> QED
      BY <3>2, <3>3, <1>1
  <2> QED
    BY <2>1, <2>2, <2>3 DEF Alternating
<1>10. PendingIsLate' /\ StartsAreLimited'
  BY <1>1, <1>4 DEF WindowInv, PendingIsLate, StartsAreLimited
<1> QED
  BY <1>6, <1>7, <1>9, <1>10 DEF WindowInv

\* An attempt is recorded: the last of the history, and the one under way.
LEMMA AsksForStartWindow ==
  ASSUME WindowInv, NEW c \in Calls, CallAsksForStart(c)
  PROVE  WindowInv'
<1> DEFINE r == Len(Recent)
<1>1. /\ UNCHANGED <<now, starts>> /\ respawnHistory' = Append(Recent, now)
      /\ initPromise = None /\ r < MaxAttempts
      /\ initPromise' = [ready |-> now + BackoffAfter(r + 1), child |-> None]
      /\ initPromise'.ready <= MaxTime
  BY DEF CallAsksForStart, childVars
<1>2. /\ respawnHistory \in Seq(Nat) /\ now \in Nat /\ Shifted \in Nat
      /\ starts \in Seq(Nat) /\ Len(starts) \in Nat /\ Len(respawnHistory) \in Nat
      /\ MaxAttempts \in Nat \ {0} /\ Window \in Nat /\ MaxTime \in Nat
  BY ClientAssumption DEF WindowInv, WindowTypes
<1>3. PICK d \in 0 .. Len(respawnHistory) :
            /\ Recent \in Seq(Nat) /\ Len(Recent) = Len(respawnHistory) - d
            /\ \A j \in 1 .. Len(respawnHistory) - d : Recent[j] = respawnHistory[j + d]
            /\ \A j \in 1 .. d : respawnHistory[j] + Window < now
  BY <1>2, RecentIsASuffix
<1>4. r \in Nat /\ r = Len(respawnHistory) - d /\ d \in Nat
  BY <1>2, <1>3
<1>5. /\ BackoffAfter(r + 1) \in Nat /\ LongestBackoff \in Nat
      /\ BackoffAfter(r + 1) <= LongestBackoff
      /\ r + 1 = MaxAttempts => BackoffAfter(r + 1) = LongestBackoff
      /\ LongestBackoff' = LongestBackoff
  <2>1. r + 1 \in 1 .. MaxAttempts
    BY <1>1, <1>2, <1>4
  <2> QED
    BY <2>1, BackoffsGrow DEF LongestBackoff, BackoffAfter
<1>6. ~ Pending /\ Pending'
  <2>1. initPromise'.ready = now + BackoffAfter(r + 1) /\ initPromise'.child = None
    BY <1>1
  <2>2. initPromise' \in [ready : 0 .. MaxTime, child : {None}]
    BY <1>1, <1>2, <1>5, <2>1
  <2> QED
    BY <1>1, <2>1, <2>2, StartAssumption DEF Pending
<1> HIDE DEF r
<1>7. /\ respawnHistory' \in Seq(Nat) /\ Len(respawnHistory') = r + 1
      /\ DOMAIN respawnHistory' = 1 .. r + 1
      /\ respawnHistory'[r + 1] = now
      /\ \A j \in 1 .. r : respawnHistory'[j] = Recent[j]
  BY <1>1, <1>2, <1>3, <1>4 DEF r
<1>8. /\ Attempts = Len(starts) /\ Attempts' = Len(starts) + 1
      /\ Len(starts) = Shifted + d + r /\ Shifted' = Shifted + d
  <2>1. Attempts = Len(starts) /\ Attempts' = Len(starts) + 1
    BY <1>1, <1>6 DEF Attempts
  <2>2. Shifted = Len(starts) - Len(respawnHistory) /\ Shifted' = (Len(starts) + 1) - (r + 1)
    BY <1>7, <2>1 DEF Shifted
  <2> QED
    BY <1>2, <1>4, <2>1, <2>2
<1>9. SweptAreOld(d)
  BY <1>3, <1>6, SweptIsOld
<1>10. WindowTypes'
  <2>1. r + 1 <= MaxAttempts
    BY <1>1, <1>2, <1>4 DEF r
  <2>2. Shifted' \in Nat
    BY <1>2, <1>4, <1>8
  <2> QED
    BY <1>1, <1>2, <1>7, <2>1, <2>2 DEF WindowTypes
<1>11. ASSUME NEW j \in 1 .. r
       PROVE  /\ j + d \in DOMAIN respawnHistory /\ respawnHistory'[j] = respawnHistory[j + d]
              /\ j + Shifted' = (j + d) + Shifted
  <2>1. DOMAIN respawnHistory = 1 .. Len(respawnHistory)
    BY <1>2
  <2>2. j \in 1 .. Len(respawnHistory) - d
    BY <1>4
  <2>3. j + d \in 1 .. Len(respawnHistory) /\ j + (Shifted + d) = (j + d) + Shifted
    BY <2>2, <1>2
  <2> QED
    BY <1>3, <1>7, <1>8, <2>1, <2>2, <2>3
<1>12. Alternating'
  <2>1. /\ \A i \in DOMAIN starts' : starts'[i] <= now'
        /\ \A j \in DOMAIN respawnHistory' : respawnHistory'[j] <= now'
    <3>1. ASSUME NEW j \in 1 .. r + 1
          PROVE  respawnHistory'[j] <= now
      <4>1. CASE j = r + 1
        BY <4>1, <1>2, <1>7
      <4>2. CASE j \in 1 .. r
        BY <4>2, <1>11 DEF WindowInv, Alternating
      <4> QED
        BY <4>1, <4>2, <1>4
    <3> QED
      BY <3>1, <1>1, <1>7 DEF WindowInv, Alternating
  <2>2. ASSUME NEW j \in DOMAIN respawnHistory', j + Shifted' \in DOMAIN starts'
        PROVE  /\ respawnHistory'[j] <= starts'[j + Shifted']
               /\ starts'[j + Shifted'] <= respawnHistory'[j] + LongestBackoff'
    <3>1. j \in 1 .. r
      <4>1. j \in 1 .. r + 1 /\ DOMAIN starts = 1 .. Len(starts) /\ starts' = starts
        BY <1>1, <1>2, <1>7
      <4>2. j + (Shifted + d) <= Shifted + d + r
        BY <2>2, <4>1, <1>2, <1>8
      <4> QED
        BY <4>1, <4>2, <1>2, <1>4
    <3> QED
      BY <3>1, <2>2, <1>1, <1>5, <1>11 DEF WindowInv, Alternating
  <2>3. ASSUME NEW j \in DOMAIN respawnHistory', j + Shifted' > 1
        PROVE  starts'[j + Shifted' - 1] <= respawnHistory'[j]
    <3>1. CASE j \in 1 .. r
      <4>1. j + d \in DOMAIN respawnHistory /\ (j + d) + Shifted > 1
        BY <3>1, <1>11, <2>3
      <4>2. starts[(j + d) + Shifted - 1] <= respawnHistory[j + d]
        BY <4>1 DEF WindowInv, Alternating
      <4>3. j + Shifted' - 1 = (j + d) + Shifted - 1 /\ respawnHistory'[j] = respawnHistory[j + d]
        <5>1. j \in Int /\ d \in Int /\ Shifted \in Int /\ Shifted' = Shifted + d
          BY <3>1, <1>2, <1>4, <1>8
        <5>2. j + Shifted' - 1 = (j + d) + Shifted - 1
          BY <5>1
        <5> QED
          BY <3>1, <5>2, <1>11
      <4> QED
        BY <4>2, <4>3, <1>1
    <3>2. CASE j = r + 1
      <4>1. j + Shifted' - 1 \in DOMAIN starts
        BY <3>2, <2>3, <1>2, <1>4, <1>8
      <4> QED
        BY <4>1, <3>2, <1>1, <1>7 DEF WindowInv, Alternating
    <3> QED
      BY <3>1, <3>2, <1>4, <1>7
  <2> QED
    BY <2>1, <2>2, <2>3 DEF Alternating
<1>13. ShiftedAreOld'
  BY <1>1, <1>5, <1>8, <1>9 DEF ShiftedAreOld, SweptAreOld
<1>14. PendingIsLate'
  <2>1. respawnHistory' # << >>
    BY <1>4, <1>7
  <2>2. initPromise'.ready = now + BackoffAfter(r + 1)
    BY <1>1 DEF r
  <2>3. ASSUME Attempts' > MaxAttempts
        PROVE  starts[Attempts' - MaxAttempts] + Window < now + BackoffAfter(r + 1)
    <3> DEFINE i == Attempts' - MaxAttempts
    <3>1. i \in DOMAIN starts /\ i <= Shifted + d
      <4>1. MaxAttempts \in Nat /\ r + 1 <= MaxAttempts /\ MaxAttempts >= 1
        BY <1>1, <1>2 DEF r
      <4>2. i = Shifted + d + r + 1 - MaxAttempts /\ i >= 1 /\ Shifted \in Int
        <5>1. Attempts' = Shifted + d + r + 1 /\ Shifted \in Int /\ Attempts' \in Int
          BY <1>2, <1>4, <1>8
        <5> QED
          BY <2>3, <4>1, <5>1, <1>4
      <4> HIDE DEF i
      <4>3. i <= Shifted + d
        BY <4>1, <4>2, <1>4
      <4>4. i <= Len(starts) /\ i \in Int
        BY <4>2, <4>3, <4>1, <1>4, <1>8
      <4> QED
        BY <4>2, <4>3, <4>4, <1>2
    <3>2. i = Shifted + d => r + 1 = MaxAttempts
      <4>1. i = Shifted + d + r + 1 - MaxAttempts
        BY <1>2, <1>4, <1>8
      <4> HIDE DEF i
      <4> QED
        BY <4>1, <1>2, <1>4
    <3>3. starts[i] \in Nat
      BY <3>1, <1>2
    <3> HIDE DEF i
    <3>4. CASE i = Shifted + d
      <4>1. starts[i] + Window < now + LongestBackoff
        BY <3>1, <3>4, <1>9 DEF SweptAreOld
      <4> QED
        BY <4>1, <3>2, <3>4, <1>5 DEF i
    <3>5. CASE i < Shifted + d
      <4>1. starts[i] + Window < now
        BY <3>1, <3>5, <1>9 DEF SweptAreOld
      <4>2. starts[i] + Window < now + BackoffAfter(r + 1)
        BY <4>1, <3>3, <1>2, <1>5
      <4> QED
        BY <4>2 DEF i
    <3>6. i \in Int /\ Shifted + d \in Int
      BY <3>1, <1>2, <1>4
    <3> QED
      BY <3>1, <3>4, <3>5, <3>6
  <2>4. Pending' => initPromise'.ready \in Nat /\ now' <= initPromise'.ready
    BY <2>2, <1>1, <1>2, <1>5
  <2>5. respawnHistory'[Len(respawnHistory')] = now
    BY <1>4, <1>7
  <2>6. initPromise'.ready <= now + LongestBackoff
    BY <2>2, <1>2, <1>5
  <2>7. Attempts' > MaxAttempts =>
          starts'[Attempts' - MaxAttempts] + Window < initPromise'.ready
    BY <2>2, <2>3, <1>1
  <2> QED
    BY <2>1, <2>4, <2>5, <2>6, <2>7 DEF PendingIsLate
<1>15. StartsAreLimited'
  BY <1>1 DEF WindowInv, StartsAreLimited
<1> QED
  BY <1>10, <1>12, <1>13, <1>14, <1>15 DEF WindowInv

\* The process of the attempt under way.
LEMMA StartChildWindow ==
  ASSUME WindowInv, StartTypes, StartChild
  PROVE  WindowInv'
<1> DEFINE n == Len(starts)
<1>1. /\ UNCHANGED <<now, respawnHistory>> /\ starts' = Append(starts, now)
      /\ Pending /\ now >= initPromise.ready
      /\ initPromise' = [initPromise EXCEPT !.child = n + 1]
  BY DEF StartChild, BackoffIsOver, Pending
<1>2. /\ respawnHistory \in Seq(Nat) /\ now \in Nat /\ Shifted \in Nat
      /\ starts \in Seq(Nat) /\ n \in Nat /\ DOMAIN starts = 1 .. n
      /\ \A i \in 1 .. n : starts[i] \in Nat
      /\ MaxAttempts \in Nat \ {0} /\ Window \in Nat /\ LongestBackoff \in Nat
  BY ClientAssumption, BackoffsGrow DEF WindowInv, WindowTypes
<1>3. initPromise.ready = now
  BY <1>1, <1>2 DEF WindowInv, PendingIsLate
<1>4. ~ Pending'
  <2>1. initPromise'.child = n + 1
    BY <1>1, <1>2 DEF StartTypes, Pending
  <2> QED
    BY <2>1, <1>2, ClientAssumption DEF Pending
<1>5. LongestBackoff' = LongestBackoff
  BY DEF LongestBackoff, BackoffAfter
<1> HIDE DEF n
<1>6. /\ starts' \in Seq(Nat) /\ DOMAIN starts' = 1 .. n + 1 /\ starts'[n + 1] = now
      /\ Len(starts') = n + 1
      /\ \A i \in 1 .. n : starts'[i] = starts[i]
  BY <1>1, <1>2 DEF n
<1>7. Attempts = n + 1 /\ Attempts' = n + 1 /\ Shifted' = Shifted
  BY <1>1, <1>4, <1>6 DEF Attempts, Shifted, n
<1> DEFINE m == Len(respawnHistory)
<1>8. m \in Nat /\ DOMAIN respawnHistory = 1 .. m /\ m >= 1 /\ m + Shifted = n + 1
  <2>1. m \in Nat /\ DOMAIN respawnHistory = 1 .. m /\ Shifted = (n + 1) - m
    BY <1>2, <1>7 DEF Shifted
  <2>2. m # 0
    BY <1>1, <1>2 DEF WindowInv, PendingIsLate
  <2> QED
    BY <2>1, <2>2, <1>2
<1>9. /\ respawnHistory[m] <= now /\ now <= respawnHistory[m] + LongestBackoff
      /\ n + 1 > MaxAttempts => starts[n + 1 - MaxAttempts] + Window < now
  <2>1. respawnHistory[m] <= now
    BY <1>8 DEF WindowInv, Alternating
  <2>2. now <= respawnHistory[m] + LongestBackoff
    BY <1>1, <1>3 DEF WindowInv, PendingIsLate
  <2>3. n + 1 > MaxAttempts => starts[n + 1 - MaxAttempts] + Window < now
    <3>1. Attempts > MaxAttempts =>
             starts[Attempts - MaxAttempts] + Window < initPromise.ready
      BY <1>1 DEF WindowInv, PendingIsLate
    <3> QED
      BY <3>1, <1>2, <1>3, <1>7
  <2> QED
    BY <2>1, <2>2, <2>3
<1> HIDE DEF m
<1>10. WindowTypes'
  BY <1>1, <1>6, <1>7 DEF WindowInv, WindowTypes
<1>11. Alternating'
  <2>1. /\ \A i \in DOMAIN starts' : starts'[i] <= now'
        /\ \A j \in DOMAIN respawnHistory' : respawnHistory'[j] <= now'
    <3>1. ASSUME NEW i \in 1 .. n + 1
          PROVE  starts'[i] <= now
      <4>1. CASE i = n + 1
        BY <4>1, <1>2, <1>6
      <4>2. CASE i \in 1 .. n
        BY <4>2, <1>2, <1>6 DEF WindowInv, Alternating
      <4> QED
        BY <4>1, <4>2, <1>2
    <3> QED
      BY <3>1, <1>1, <1>6 DEF WindowInv, Alternating
  <2>2. ASSUME NEW j \in DOMAIN respawnHistory', j + Shifted' \in DOMAIN starts'
        PROVE  /\ respawnHistory'[j] <= starts'[j + Shifted']
               /\ starts'[j + Shifted'] <= respawnHistory'[j] + LongestBackoff'
    <3>1. CASE j = m
      BY <3>1, <1>1, <1>5, <1>6, <1>7, <1>8, <1>9
    <3>2. CASE j # m
      <4>1. j + Shifted \in DOMAIN starts
        BY <3>2, <2>2, <1>1, <1>2, <1>6, <1>7, <1>8
      <4> QED
        BY <4>1, <1>1, <1>2, <1>5, <1>6, <1>7 DEF WindowInv, Alternating
    <3> QED
      BY <3>1, <3>2
  <2>3. ASSUME NEW j \in DOMAIN respawnHistory', j + Shifted' > 1
        PROVE  starts'[j + Shifted' - 1] <= respawnHistory'[j]
    <3>1. j \in 1 .. m /\ j + Shifted > 1
      BY <2>3, <1>1, <1>7, <1>8
    <3>2. j + Shifted - 1 \in 1 .. n
      BY <3>1, <1>2, <1>8
    <3> QED
      BY <3>1, <3>2, <2>3, <1>1, <1>6, <1>7 DEF WindowInv, Alternating
  <2> QED
    BY <2>1, <2>2, <2>3 DEF Alternating
<1>12. ShiftedAreOld'
  <2> SUFFICES ASSUME NEW i \in 1 .. n + 1
               PROVE  /\ i < Shifted => starts'[i] + Window < now
                      /\ i <= Shifted => starts'[i] + Window < now + LongestBackoff
    BY <1>1, <1>5, <1>6, <1>7 DEF ShiftedAreOld
  <2>1. i <= Shifted => i \in 1 .. n /\ starts'[i] = starts[i] /\ i \in DOMAIN starts
    BY <1>2, <1>6, <1>8
  <2>2. i < Shifted => i <= Shifted
    BY <1>2
  <2> QED
    BY <2>1, <2>2 DEF WindowInv, ShiftedAreOld
<1>13. StartsAreLimited'
  <2> SUFFICES ASSUME NEW i \in 1 .. n + 1, i > MaxAttempts
               PROVE  starts'[i] > starts'[i - MaxAttempts] + Window
    BY <1>6 DEF StartsAreLimited
  <2>1. i - MaxAttempts \in 1 .. n
    BY <1>2
  <2>2. CASE i = n + 1
    BY <2>1, <2>2, <1>2, <1>6, <1>9
  <2>3. CASE i \in 1 .. n
    BY <2>1, <2>3, <1>2, <1>6 DEF WindowInv, StartsAreLimited
  <2> QED
    BY <2>2, <2>3, <1>2
<1>14. PendingIsLate'
  BY <1>4 DEF PendingIsLate
<1> QED
  BY <1>10, <1>11, <1>12, <1>13, <1>14 DEF WindowInv

LEMMA NextWindow == Inv /\ WindowInv /\ [Next]_vars => WindowInv'
<1> SUFFICES ASSUME Inv, WindowInv, [Next]_vars PROVE WindowInv'
  OBVIOUS
<1>1. ASSUME NEW c \in Calls,
             CallLive(c) \/ CallSharesStart(c) \/ Reply(c) \/ TimesOut(c)
      PROVE  WindowInv'
  BY <1>1, WindowFrame
     DEF CallLive, CallSharesStart, Reply, TimesOut, childVars, Pending
<1>2. ASSUME NEW k \in Children, Dies(k) \/ \E c \in Calls : Execute(c, k)
      PROVE  WindowInv'
  BY <1>2, WindowFrame DEF Dies, Execute, clientVars, Pending
<1>3. CASE Connected \/ ConnectFails
  <2>1. /\ UNCHANGED <<now, respawnHistory, starts>>
        /\ ~ Pending /\ ~ Pending'
    BY <1>3 DEF Connected, ConnectFails, Pending
  <2> QED
    BY <2>1, WindowFrame
<1>4. CASE TransportError \/ UNCHANGED vars
  BY <1>4, WindowFrame DEF TransportError, vars, clientVars, childVars, Pending
<1>5. CASE StartChild
  BY <1>5, StartChildWindow DEF Inv
<1> QED
  BY <1>1, <1>2, <1>3, <1>4, <1>5, TickWindow, RefusedByLimitWindow, AsksForStartWindow
     DEF Next, Begin

(***************************************************************************)
(* No window of RESPAWN_WINDOW_MS sees more than RESPAWN_MAX_ATTEMPTS      *)
(* child processes spawned, whatever the backoffs put between an attempt   *)
(* and its process, for any budget and any backoffs that grow.             *)
(***************************************************************************)
THEOREM SpawnsAreLimited == Spec => []StartsAreLimited
<1>1. WindowInv => StartsAreLimited
  BY DEF WindowInv
<1> QED
  BY <1>1, InitWindow, NextWindow, InvHolds, PTL DEF Spec

-----------------------------------------------------------------------------
(***************************************************************************)
(* However often a call times out, is retried or is carried out late, one  *)
(* preview is committed at most once, over all children.                   *)
(***************************************************************************)
THEOREM RetriesAreSafe == Spec => []RetriesCommitOnce
<1>1. Inv => RetriesCommitOnce
  BY DEF Inv
<1> QED
  BY <1>1, InvHolds, PTL

(***************************************************************************)
(* A refused confirm has a cause: its preview was committed by another     *)
(* call, or was made with another child.                                   *)
(***************************************************************************)
THEOREM RefusalsAreExplained == Spec => []RefusalHasACause
<1>1. Inv => RefusalHasACause
  <2> SUFFICES ASSUME Inv, NEW c \in Confirms, answer[c] = "refused"
               PROVE  \/ \E d \in Applied \cap Confirms : d # c /\ TokenOf[d] = TokenOf[c]
                      \/ sentTo[TokenOf[c]] # sentTo[c]
    BY DEF RefusalHasACause
  <2>1. outcome[c] = "refused" /\ c \in Calls
    BY DEF Inv, AnswersAreOutcomes, Calls
  <2>2. Committed(TokenOf[c]) \/ sentTo[TokenOf[c]] # sentTo[c]
    BY <2>1 DEF Inv, ConfirmsFollow
  <2> QED
    BY <2>1, <2>2 DEF Committed, Applied, Calls
<1> QED
  BY <1>1, InvHolds, PTL

(***************************************************************************)
(* The client implements the safety of ToolCalls: every step answers a     *)
(* call, opens one, applies one, or is none of the caller's business.      *)
(***************************************************************************)
THEOREM ClientKeepsThePromise == Spec => Promise!Safety
<1>1. Init => Promise!Init
  BY ClientAssumption DEF Init, Promise!Init, Applied
<1>2. Inv /\ [Next]_vars => [Promise!Next]_(Promise!vars)
  <2> SUFFICES ASSUME Inv, [Next]_vars
               PROVE  Promise!Next \/ UNCHANGED <<answer, Applied>>
    BY DEF Promise!vars
  <2>1. UNCHANGED outcome => UNCHANGED Applied
    BY DEF Applied
  <2>2. ASSUME NEW c \in Calls, CallLive(c) \/ CallSharesStart(c) \/ CallAsksForStart(c)
        PROVE  Promise!Open(c)
    BY <2>1, <2>2
       DEF CallLive, CallSharesStart, CallAsksForStart, MayBegin, childVars, Promise!Open
  <2>3. ASSUME NEW c \in Calls, CallRefusedByLimit(c)
        PROVE  Promise!AllRetry({c})
    <3>1. answer' = [d \in Calls |-> IF d \in {c} THEN "retry" ELSE answer[d]]
      BY <2>3 DEF CallRefusedByLimit, Inv, CallTypes
    <3> QED
      BY <2>1, <2>3, <3>1 DEF CallRefusedByLimit, MayBegin, childVars, Promise!AllRetry
  <2>4. ASSUME ConnectFails
        PROVE  Promise!AllRetry(Waiting) /\ Waiting \in SUBSET Calls
    BY <2>1, <2>4 DEF ConnectFails, Waiting, Promise!AllRetry
  <2>5. ASSUME NEW c \in Calls, Reply(c)
        PROVE  \E a \in Promise!Answers : Promise!Answered(c, a)
    <3>1. outcome[c] \in Promise!Answers
      BY <2>5 DEF Reply, Inv, CallTypes, Promise!Answers
    <3>2. /\ outcome[c] = "ok" => c \in Applied
          /\ outcome[c] = "refused" => c \notin Applied
      BY DEF Applied
    <3>3. Promise!Answered(c, outcome[c])
      BY <2>1, <2>5, <3>2 DEF Reply, Parsed, childVars, Promise!Answered
    <3> QED
      BY <3>1, <3>3
  <2>6. ASSUME NEW c \in Calls, TimesOut(c)
        PROVE  Promise!Answered(c, "retry") /\ "retry" \in Promise!Answers
    BY <2>1, <2>6 DEF TimesOut, childVars, Promise!Answered, Promise!Answers
  <2>7. ASSUME NEW c \in Calls, NEW k \in Children, Execute(c, k)
        PROVE  Promise!Apply(c) \/ UNCHANGED <<answer, Applied>>
    <3>1. sentTo[c] # None /\ outcome[c] = None /\ UNCHANGED answer
      BY <2>7, ClientAssumption DEF Execute, clientVars, Inv, SentOnce, Children
    <3>2. answer[c] \in {"open", "retry"}
      BY <3>1, ClientAssumption DEF Inv, SentOnce, AnswersAreOutcomes, CallTypes
    <3>3. PICK v \in {"ok", "refused"} :
             \A d \in Calls : outcome'[d] = IF d = c THEN v ELSE outcome[d]
      BY <2>7 DEF Execute, Inv, CallTypes
    <3>4. CASE v = "ok"
      <4>1. Applied' = Applied \cup {c}
        BY <3>3, <3>4 DEF Applied
      <4> QED
        BY <4>1, <3>1, <3>2 DEF Promise!Apply
    <3>5. CASE v = "refused"
      <4>1. Applied' = Applied
        BY <3>1, <3>3, <3>5, ClientAssumption DEF Applied
      <4> QED
        BY <4>1, <3>1
    <3> QED
      BY <3>4, <3>5
  <2>8. CASE Tick \/ StartChild \/ Connected \/ TransportError
             \/ (\E k \in Children : Dies(k)) \/ UNCHANGED vars
    BY <2>1, <2>8
       DEF Tick, StartChild, Connected, TransportError, Dies, vars, clientVars, childVars
  <2> QED
    BY <2>2, <2>3, <2>4, <2>5, <2>6, <2>7, <2>8 DEF Next, Begin, Promise!Next
<1> QED
  BY <1>1, <1>2, InvHolds, PTL DEF Spec, Promise!Safety
=============================================================================
