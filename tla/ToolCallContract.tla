-------------------------- MODULE ToolCallContract --------------------------
(***************************************************************************)
(* What the tool-call bridge promises its callers (the reply-signature     *)
(* gate in the comment of ToolCallBridge, adapterhost/toolcall.go),        *)
(* without the map, the mutex, the entries and the dispatch loops.         *)
(*                                                                         *)
(* An issued call gets at most one answer.  It returns once, with what its *)
(* answer means, or on its own account (its context ended, the request     *)
(* could not be sent).  It may return host_unsupported only if it is never *)
(* answered, and then its session is written off in the same step; a call  *)
(* that begins on a session written off fails without being issued.        *)
(***************************************************************************)
CONSTANTS Calls, Sessions, SessionOf

VARIABLES
    status,   \* "idle", "issued", or what the call returned
    answer,   \* the reply that resolved the call, "none" before it
    verdict   \* the sessions written off as host_unsupported

Answers == {"closed", "denied", "result"}

(* What a call may return for each answer.                                 *)
Meaning(a) ==
    CASE a = "closed" -> {"closed"}
      [] a = "denied" -> {"denied"}
      [] a = "result" -> {"ok", "callErr", "badChunks", "badOutputs"}
      [] OTHER        -> {}

Local == {"deadline", "canceled", "sendErr", "badArgs"}

Init ==
    /\ status = [c \in Calls |-> "idle"]
    /\ answer = [c \in Calls |-> "none"]
    /\ verdict = {}

Invalid(c) ==
    /\ status[c] = "idle"
    /\ status' = [status EXCEPT ![c] = "invalid"]
    /\ UNCHANGED <<answer, verdict>>

FailFast(c) ==
    /\ status[c] = "idle"
    /\ SessionOf[c] \in verdict
    /\ status' = [status EXCEPT ![c] = "unsupported"]
    /\ UNCHANGED <<answer, verdict>>

Issue(c) ==
    /\ status[c] = "idle"
    /\ SessionOf[c] \notin verdict
    /\ status' = [status EXCEPT ![c] = "issued"]
    /\ UNCHANGED <<answer, verdict>>

(* A reply may come after the call has given up, but never for a call that *)
(* was taken as proof that the host does not reply.                        *)
Answer(c, a) ==
    /\ status[c] \notin {"idle", "invalid", "unsupported"}
    /\ answer[c] = "none"
    /\ answer' = [answer EXCEPT ![c] = a]
    /\ UNCHANGED <<status, verdict>>

Finish(c) ==
    /\ status[c] = "issued"
    /\ \E outcome \in Meaning(answer[c]) \cup Local : status' = [status EXCEPT ![c] = outcome]
    /\ UNCHANGED <<answer, verdict>>

WriteOff(c) ==
    /\ status[c] = "issued"
    /\ answer[c] = "none"
    /\ status' = [status EXCEPT ![c] = "unsupported"]
    /\ verdict' = verdict \cup {SessionOf[c]}
    /\ UNCHANGED answer

Next ==
    \E c \in Calls :
        \/ Invalid(c) \/ FailFast(c) \/ Issue(c) \/ WriteOff(c)
        \/ \E a \in Answers : Answer(c, a)
        \/ Finish(c)

Spec == Init /\ [][Next]_<<status, answer, verdict>>
=============================================================================
