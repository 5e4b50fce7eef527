------------------------- MODULE ToolCallRefinement -------------------------
(***************************************************************************)
(* The bridge implements the contract.  A call is issued once it has       *)
(* passed the session check; it is answered when its done channel is       *)
(* closed (not when closeAll collects its entry); a session is written off *)
(* when it enters the cache.                                               *)
(***************************************************************************)
EXTENDS ToolCallBridge

statusBar ==
    [c \in Calls |-> IF pc[c] = "idle" THEN "idle"
                     ELSE IF pc[c] = "done" THEN ret[c] ELSE "issued"]

answerBar ==
    [c \in Calls |-> IF closes[c] = 0 THEN "none"
                     ELSE IF c \in closedErr THEN "closed"
                     ELSE IF c \in cancelled THEN "denied" ELSE "result"]

Contract == INSTANCE ToolCallContract
              WITH status <- statusBar, answer <- answerBar,
                   verdict <- unsupportedSessions

(* Every behaviour of the bridge is one the contract allows: one answer    *)
(* per call, returned faithfully, no answer for a call that was taken as   *)
(* proof of an old host, and no call issued on a session written off.      *)
ImplementsContract == Contract!Spec
=============================================================================
