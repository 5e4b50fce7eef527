--------------------------- MODULE RemoteToolCalls ---------------------------
(***************************************************************************)
(* A phone-home adapter that calls tools: the connections ServeRemote      *)
(* promises (Connections, which serve_remote.go implements) composed with  *)
(* the one ToolCallBridge of the process (toolcall.go).                    *)
(*                                                                         *)
(* Every connection of the loop serves the same Service value and so the   *)
(* same bridge.  Over a connection the host runs Execute handlers, which   *)
(* issue calls, and a Permissions stream, which answers them; the loop     *)
(* redials without waiting for either.  Losing the connection reaches the  *)
(* bridge in three ways: Send fails, Recv fails, and the context gRPC gave *)
(* the handler is cancelled.                                               *)
(*                                                                         *)
(* A Send whose flow-control window the host does not open blocks for as   *)
(* long as the connection lives: it is under no deadline (toolcall.go:282).*)
(***************************************************************************)
EXTENDS Connections, Naturals

CONSTANTS
    Calls, Sessions, SessionOf, Fragments, MaxFragments    \* of ToolCallBridge

VARIABLES
    pc, ctxErr, armed, ret, pending, unsupportedSessions,
    grant, fragments, cancelled, closedErr, closes, sent, loop, cur, closing,
    via             \* the connection whose Execute handler issued the call, at most one

Bridge == INSTANCE ToolCallBridge WITH Streams <- Conns

ASSUME BridgeAssumption ==
    /\ SessionOf \in [Calls -> Sessions]
    /\ Fragments \subseteq Bridge!FragmentType
    /\ MaxFragments \in Nat

bridgeVars ==
    <<pc, ctxErr, armed, ret, pending, unsupportedSessions,
      grant, fragments, cancelled, closedErr, closes, sent, loop, cur, closing>>
remoteVars == <<connectionVars, bridgeVars, via>>

RemoteInit == Init /\ Bridge!Init /\ via = [c \in Calls |-> {}]

-----------------------------------------------------------------------------
(* Steps of the transport.  A connection is not released, so that each has *)
(* a Permissions stream of its own: Conns bounds how many are made.        *)
Transport(k) ==
    /\ Connect(k) \/ Abort(k) \/ StartHandlers(k) \/ BeginClose(k)
    /\ UNCHANGED <<bridgeVars, via>>

TransportCloses(k) == FinishClose(k) /\ UNCHANGED <<bridgeVars, via>>

(* The handlers of a closed connection have returned when its Permissions  *)
(* loop and the calls of its Execute handlers have.                        *)
HandlersReturn(k) ==
    /\ loop[k] \in {"idle", "ended"}
    /\ \A c \in Calls : k \in via[c] => pc[c] = "done"
    /\ EndHandlers(k)
    /\ UNCHANGED <<bridgeVars, via>>

-----------------------------------------------------------------------------
(* An Execute handler calls a tool; one that has not noticed yet that its  *)
(* connection is gone may do so too.                                       *)
Call(c, k) ==
    /\ handlers[k] = "running"
    /\ Bridge!Begin(c)
    /\ via' = [via EXCEPT ![c] = {k}]
    /\ UNCHANGED connectionVars

Lost(c) == \E k \in via[c] : life[k] = "closed"

(* The Send of a call returns, which nothing but the loss of its           *)
(* connection makes certain.                                               *)
SendReturns(c) == (Bridge!SendOk(c) \/ Bridge!SendErr(c)) /\ UNCHANGED <<connectionVars, via>>

(* gRPC cancels the contexts of a closed connection.                       *)
CancelLost(c) == Lost(c) /\ Bridge!Cancel(c) /\ UNCHANGED <<connectionVars, via>>

(* What a call does without waiting for the host.                          *)
CallRuns(c) ==
    /\ \/ Bridge!BadArgs(c) \/ Bridge!Register(c) \/ Bridge!Send(c) \/ Bridge!Unsend(c)
       \/ Bridge!Receive(c) \/ Bridge!CtxDone(c) \/ Bridge!TakeGrant(c)
       \/ Bridge!CacheUnsupported(c) \/ Bridge!Drop(c)
    /\ UNCHANGED <<connectionVars, via>>

ContextEnds(c) == (Bridge!Expire(c) \/ Bridge!Cancel(c)) /\ UNCHANGED <<connectionVars, via>>

-----------------------------------------------------------------------------
(* The host opens a Permissions stream over a connection it has.           *)
OpenStream(k) ==
    /\ handlers[k] = "running"
    /\ life[k] = "open"
    /\ Bridge!OpenStream(k)
    /\ UNCHANGED <<connectionVars, via>>

(* An event the loop reads: sent by the host before it lost the connection *)
(* and in answer to a request it has seen, on whichever connection.        *)
HostReplies(k) ==
    /\ \E c \in Calls :
          \/ Bridge!RecvRequest(k, c) \/ Bridge!RouteCancel(k, c)
          \/ \E f \in Fragments : Bridge!RouteResult(k, c, f)
    /\ UNCHANGED <<connectionVars, via>>

StreamFails(k) == (Bridge!RecvErr(k) \/ Bridge!AckErr(k)) /\ UNCHANGED <<connectionVars, via>>

StreamRuns(k) ==
    /\ \/ Bridge!MarkGranted(k) \/ Bridge!CloseAll(k) \/ Bridge!EndStream(k)
       \/ \E c \in Calls : Bridge!ResolveClosed(k, c)
    /\ UNCHANGED <<connectionVars, via>>

Acked(k) == Bridge!AckOk(k) /\ UNCHANGED <<connectionVars, via>>

-----------------------------------------------------------------------------
CallStep(c) ==
    \/ \E k \in Conns : Call(c, k)
    \/ SendReturns(c) \/ CancelLost(c) \/ CallRuns(c) \/ ContextEnds(c)

ConnStep(k) ==
    \/ Transport(k) \/ TransportCloses(k) \/ HandlersReturn(k)
    \/ OpenStream(k) \/ HostReplies(k) \/ StreamFails(k) \/ StreamRuns(k) \/ Acked(k)

(* Every connection there is was made and is gone.                         *)
Exhausted ==
    /\ \A k \in Conns : life[k] = "closed" /\ handlers[k] # "running"
    /\ UNCHANGED remoteVars

RemoteNext ==
    (\E c \in Calls : CallStep(c)) \/ (\E k \in Conns : ConnStep(k)) \/ Exhausted

RemoteSpec == RemoteInit /\ [][RemoteNext]_remoteVars

(* Goroutines that can run do run; gRPC finishes the close of a            *)
(* connection, and then cancels its contexts and fails what is sent on it. *)
(* Recv may still hand over what had arrived, which is finite, so a loop   *)
(* that keeps reading meets the error.  Neither the host nor any deadline  *)
(* is relied on.                                                           *)
Fairness ==
    /\ \A c \in Calls :
         /\ WF_remoteVars(CallRuns(c)) /\ WF_remoteVars(CancelLost(c))
         /\ WF_remoteVars(Lost(c) /\ SendReturns(c))
    /\ \A k \in Conns :
         /\ WF_remoteVars(TransportCloses(k))
         /\ WF_remoteVars(HandlersReturn(k)) /\ WF_remoteVars(StreamRuns(k))
         /\ SF_remoteVars(life[k] = "closed" /\ StreamFails(k))

RemoteFairSpec == RemoteSpec /\ Fairness

-----------------------------------------------------------------------------
(* ServeRemote waits for no handler and relies on those of a closed        *)
(* connection to return.  They do, calls blocked in Send and a Permissions *)
(* loop blocked in its ACK included, though no deadline expires and the    *)
(* host never answers (toolcall.go:282-293, 311-323, 426-434).             *)
LostConnectionEndsHandlers ==
    \A k \in Conns : life[k] = "closing" ~> handlers[k] # "running"

(* The map that outlives the connections holds no call of a connection     *)
(* whose handlers are gone: reconnecting for ever does not fill it.        *)
NoEntryOutlivesConnection ==
    \A c \in pending : \E k \in via[c] : handlers[k] = "running"

-----------------------------------------------------------------------------
(* The host has the connection, and what it sends is read.                 *)
CanReply(k) == loop[k] = "recv" /\ life[k] = "open"

(* What the comment of closeAll says and the code does not do: a waiting   *)
(* call that closeAll fails can get no reply any more, because the         *)
(* Permissions stream is gone.                                             *)
ClosedMeansNoReply ==
    \A s \in Conns : \A c \in closing[s] :
        pc[c] = "wait" /\ ctxErr[c] = "none" => \A k \in via[c] : ~CanReply(k)
=============================================================================
