------------------------------ MODULE ToolCalls ------------------------------
(***************************************************************************)
(* What a caller of runMcpTool (apps/web/lib/mcp-client.ts) may rely on,   *)
(* whatever happens to the adapter behind it.  A call is answered once.    *)
(* "ok" and "refused" are final: the first means that the tool's effect is *)
(* in place, the second that there is none and will be none.  "retry", the *)
(* answer to every transport failure, leaves it open: the effect may be    *)
(* in place, or come later.                                                *)
(***************************************************************************)
CONSTANTS
    Calls

VARIABLES
    answer,     \* per call: "idle", "open" or its answer
    applied     \* the calls whose effect is in place in the adapter that ran it

vars == <<answer, applied>>

Answers == {"ok", "refused", "retry"}

Init ==
    /\ answer = [c \in Calls |-> "idle"]
    /\ applied = {}

Open(c) ==
    /\ answer[c] = "idle"
    /\ answer' = [answer EXCEPT ![c] = "open"]
    /\ UNCHANGED applied

Apply(c) ==
    /\ answer[c] \in {"open", "retry"}
    /\ applied' = applied \cup {c}
    /\ UNCHANGED answer

Answered(c, a) ==
    /\ answer[c] = "open"
    /\ a = "ok" => c \in applied
    /\ a = "refused" => c \notin applied
    /\ answer' = [answer EXCEPT ![c] = a]
    /\ UNCHANGED applied

\* One failure may answer every call that waits for the adapter at once.
AllRetry(waiting) ==
    /\ \A c \in waiting : answer[c] \in {"idle", "open"}
    /\ answer' = [c \in Calls |-> IF c \in waiting THEN "retry" ELSE answer[c]]
    /\ UNCHANGED applied

Next ==
    \/ \E c \in Calls :
          \/ Open(c)
          \/ Apply(c)
          \/ \E a \in Answers : Answered(c, a)
    \/ \E waiting \in SUBSET Calls : AllRetry(waiting)

Answering(c) ==
    \/ \E a \in Answers : Answered(c, a)
    \/ \E waiting \in SUBSET Calls : c \in waiting /\ AllRetry(waiting)

Safety == Init /\ [][Next]_vars

Spec == Safety /\ \A c \in Calls : WF_vars(answer[c] = "open" /\ Answering(c))
=============================================================================
