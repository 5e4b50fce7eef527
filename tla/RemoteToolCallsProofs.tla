------------------------ MODULE RemoteToolCallsProofs ------------------------
(***************************************************************************)
(* Theorems about a phone-home adapter that calls tools, for any number of *)
(* connections, calls and sessions and any host.                           *)
(*                                                                         *)
(* The composition restricts both of its components and changes neither:   *)
(* its steps are steps of the bridge and of the connections.  So all that  *)
(* is proved of the bridge alone holds here too, and the ownership         *)
(* invariant of the bridge, with what HandlerInv adds about the handlers   *)
(* that issue the calls, gives NoEntryOutlivesConnection.                  *)
(***************************************************************************)
EXTENDS RemoteToolCalls, TLAPS

(* The theorems about the bridge, at the bridge of this module.            *)
Proved == INSTANCE ToolCallBridgeProofs WITH Streams <- Conns

-----------------------------------------------------------------------------
(* The two instances of the bridge are one specification.                  *)
LEMMA SameBridge == Bridge!Spec => Proved!Spec
<1>1. Bridge!Init => Proved!Init
  BY DEF Bridge!Init, Proved!Init
<1>2. [Bridge!Next]_(Bridge!vars) => [Proved!Next]_(Proved!vars)
  BY Zenon DEF
      Bridge!Return, Bridge!Goto, Bridge!Reject, Bridge!CheckSession,
      Bridge!BadArgs, Bridge!Register, Bridge!Send, Bridge!WithTimeout,
      Bridge!SendOk, Bridge!SendErr, Bridge!remove, Bridge!Unsend,
      Bridge!Joinable, Bridge!finishToolCall, Bridge!Receive, Bridge!Done,
      Bridge!CtxDone, Bridge!BareGrant, Bridge!TakeGrant,
      Bridge!CacheUnsupported, Bridge!Drop, Bridge!Expire, Bridge!Cancel,
      Bridge!Begin, Bridge!Proceed, Bridge!SendReturns, Bridge!OpenStream, Bridge!RecvErr,
      Bridge!RecvRequest, Bridge!AckOk, Bridge!AckErr, Bridge!MarkGranted,
      Bridge!close, Bridge!Resolve, Bridge!RouteCancel, Bridge!Resolves,
      Bridge!RouteResult, Bridge!CloseAll, Bridge!Fail,
      Bridge!ResolveClosed, Bridge!EndStream, Bridge!LoopStep, Bridge!AckReturns,
      Bridge!HostEvent, Bridge!Terminated, Bridge!Next, Bridge!vars,
      Bridge!callerVars, Bridge!bridgeVars, Bridge!entryVars,
      Bridge!loopVars,
      Proved!Return, Proved!Goto, Proved!Reject, Proved!CheckSession,
      Proved!BadArgs, Proved!Register, Proved!Send, Proved!WithTimeout,
      Proved!SendOk, Proved!SendErr, Proved!remove, Proved!Unsend,
      Proved!Joinable, Proved!finishToolCall, Proved!Receive, Proved!Done,
      Proved!CtxDone, Proved!BareGrant, Proved!TakeGrant,
      Proved!CacheUnsupported, Proved!Drop, Proved!Expire, Proved!Cancel,
      Proved!Begin, Proved!Proceed, Proved!SendReturns, Proved!OpenStream, Proved!RecvErr,
      Proved!RecvRequest, Proved!AckOk, Proved!AckErr, Proved!MarkGranted,
      Proved!close, Proved!Resolve, Proved!RouteCancel, Proved!Resolves,
      Proved!RouteResult, Proved!CloseAll, Proved!Fail,
      Proved!ResolveClosed, Proved!EndStream, Proved!LoopStep, Proved!AckReturns,
      Proved!HostEvent, Proved!Terminated, Proved!Next, Proved!vars,
      Proved!callerVars, Proved!bridgeVars, Proved!entryVars,
      Proved!loopVars
<1> QED
  BY <1>1, <1>2, PTL DEF Bridge!Spec, Proved!Spec

(* What the theorems about the bridge assume of its constants.             *)
LEMMA BridgeConstants ==
    /\ SessionOf \in [Calls -> Sessions]
    /\ Fragments \subseteq Proved!FragmentType
    /\ MaxFragments \in Nat
BY BridgeAssumption DEF Bridge!FragmentType, Proved!FragmentType

-----------------------------------------------------------------------------
(* Every step of the composition is a step of the bridge or leaves the     *)
(* bridge alone.                                                           *)
LEMMA StepOfBridge == [RemoteNext]_remoteVars => [Bridge!Next]_(Bridge!vars)
<1> SUFFICES ASSUME [RemoteNext]_remoteVars
             PROVE  Bridge!Next \/ UNCHANGED Bridge!vars
  OBVIOUS
<1>1. ASSUME NEW c \in Calls, CallStep(c)
      PROVE  Bridge!Next
  <2>1. Bridge!Begin(c) \/ Bridge!Proceed(c) \/ Bridge!SendReturns(c) \/ Bridge!Expire(c) \/ Bridge!Cancel(c)
    BY <1>1 DEF CallStep, Call, SendReturns, CancelLost, CallRuns, ContextEnds,
                Bridge!Proceed, Bridge!SendReturns
  <2> QED
    BY <2>1 DEF Bridge!Next
<1>2. ASSUME NEW k \in Conns, ConnStep(k)
      PROVE  Bridge!Next \/ UNCHANGED Bridge!vars
  <2>1. CASE Transport(k) \/ TransportCloses(k) \/ HandlersReturn(k)
    BY <2>1 DEF Transport, TransportCloses, HandlersReturn, bridgeVars, Bridge!vars,
                Bridge!callerVars, Bridge!bridgeVars, Bridge!entryVars, Bridge!loopVars
  <2>2. CASE OpenStream(k) \/ HostReplies(k) \/ StreamFails(k) \/ StreamRuns(k) \/ Acked(k)
    <3>1. Bridge!LoopStep(k) \/ Bridge!AckReturns(k) \/ Bridge!HostEvent(k)
      BY <2>2 DEF OpenStream, HostReplies, StreamFails, StreamRuns, Acked,
                  Bridge!LoopStep, Bridge!AckReturns, Bridge!HostEvent
    <3> QED
      BY <3>1 DEF Bridge!Next
  <2> QED
    BY <1>2, <2>1, <2>2 DEF ConnStep
<1>3. CASE Exhausted \/ UNCHANGED remoteVars
  BY <1>3 DEF Exhausted, remoteVars, bridgeVars, Bridge!vars,
              Bridge!callerVars, Bridge!bridgeVars, Bridge!entryVars, Bridge!loopVars
<1> QED
  BY <1>1, <1>2, <1>3 DEF RemoteNext

(* Every step of the composition is a step of the connections or leaves    *)
(* them alone.                                                             *)
LEMMA StepOfConnections == [RemoteNext]_remoteVars => [Next]_connectionVars
<1> SUFFICES ASSUME [RemoteNext]_remoteVars
             PROVE  Next \/ UNCHANGED connectionVars
  OBVIOUS
<1>1. ASSUME NEW c \in Calls, CallStep(c)
      PROVE  UNCHANGED connectionVars
  BY <1>1 DEF CallStep, Call, SendReturns, CancelLost, CallRuns, ContextEnds
<1>2. ASSUME NEW k \in Conns, ConnStep(k)
      PROVE  Next \/ UNCHANGED connectionVars
  BY <1>2 DEF ConnStep, Transport, TransportCloses, HandlersReturn, OpenStream,
              HostReplies, StreamFails, StreamRuns, Acked, Next
<1>3. CASE Exhausted \/ UNCHANGED remoteVars
  BY <1>3 DEF Exhausted, remoteVars
<1> QED
  BY <1>1, <1>2, <1>3 DEF RemoteNext

(* Over reconnecting transports the bridge behaves as the bridge does.     *)
THEOREM CompositionKeepsBridge == RemoteSpec => Bridge!Spec
<1>1. RemoteInit => Bridge!Init
  BY DEF RemoteInit
<1> QED
  BY <1>1, StepOfBridge, PTL DEF RemoteSpec, Bridge!Spec

(* Whatever the tool calls do, the connections are the ones ServeRemote    *)
(* promises.                                                               *)
THEOREM CompositionKeepsConnections == RemoteSpec => Spec
<1>1. RemoteInit => Init
  BY DEF RemoteInit
<1> QED
  BY <1>1, StepOfConnections, PTL DEF RemoteSpec, Spec

(* The ownership invariant of the bridge holds across reconnects.          *)
LEMMA BridgeInvariantHolds == RemoteSpec => []Proved!BridgeInv
<1>1. SessionOf \in [Calls -> Sessions]
  BY BridgeConstants
<1>2. Fragments \subseteq Proved!FragmentType
  BY BridgeConstants
<1>3. MaxFragments \in Nat
  BY BridgeConstants
<1> QED
  BY <1>1, <1>2, <1>3, CompositionKeepsBridge, SameBridge, Proved!BridgeInvariant, PTL
-----------------------------------------------------------------------------
(* The calls between their start and their return.                         *)
Started == {c \in Calls : pc[c] \notin {"idle", "done"}}

(* Such a call runs in a handler, which gRPC started over a connection and *)
(* which has not returned.                                                 *)
HandlerInv ==
    /\ via \in [Calls -> SUBSET Conns]
    /\ handlers \in [Conns -> {"none", "running", "ended"}]
    /\ \A c \in Started : \E k \in via[c] : handlers[k] = "running"

(* No call is started before the first connection.                         *)
LEMMA InitHandlers == RemoteInit => HandlerInv
BY DEF RemoteInit, Init, Bridge!Init, HandlerInv, Started

(* Once begun, a call only goes on or returns, and the loops move none.    *)
LEMMA CallGoesOn ==
    ASSUME pc \in [Calls -> Proved!PCs], NEW c \in Calls,
           Bridge!Proceed(c) \/ Bridge!SendReturns(c) \/ Bridge!Expire(c) \/ Bridge!Cancel(c)
    PROVE  Started' \subseteq Started
<1>1. \/ pc' = pc
      \/ pc[c] \notin {"idle", "done"} /\ \E l : pc' = [pc EXCEPT ![c] = l]
  BY DEF Bridge!Proceed, Bridge!SendReturns, Bridge!BadArgs, Bridge!Register, Bridge!Send, Bridge!SendOk,
         Bridge!SendErr, Bridge!Unsend, Bridge!Receive, Bridge!CtxDone,
         Bridge!TakeGrant, Bridge!CacheUnsupported, Bridge!Drop, Bridge!Expire,
         Bridge!Cancel, Bridge!Goto, Bridge!Return
<1> QED
  BY <1>1 DEF Started

LEMMA LoopsMoveNoCall ==
    ASSUME NEW k \in Conns, Bridge!LoopStep(k) \/ Bridge!AckReturns(k) \/ Bridge!HostEvent(k)
    PROVE  pc' = pc
BY DEF Bridge!LoopStep, Bridge!AckReturns, Bridge!HostEvent, Bridge!AckOk, Bridge!AckErr,
       Bridge!MarkGranted, Bridge!CloseAll, Bridge!EndStream, Bridge!ResolveClosed,
       Bridge!OpenStream, Bridge!RecvErr, Bridge!RecvRequest, Bridge!RouteCancel,
       Bridge!RouteResult, Bridge!callerVars

(* Every step keeps the started calls in handlers that run.                *)
LEMMA StepHandlers ==
    Proved!BridgeInv /\ HandlerInv /\ [RemoteNext]_remoteVars => HandlerInv'
<1> SUFFICES ASSUME Proved!BridgeInv, HandlerInv, [RemoteNext]_remoteVars
             PROVE  HandlerInv'
  OBVIOUS
<1>t. pc \in [Calls -> Proved!PCs]
  BY DEF Proved!BridgeInv, Proved!TypeInv, Proved!TypeOK
<1>k. ASSUME UNCHANGED <<handlers, via>>, Started' \subseteq Started
      PROVE  HandlerInv'
  BY <1>k DEF HandlerInv
<1>1. ASSUME NEW c \in Calls, CallStep(c)
      PROVE  HandlerInv'
  <2>1. ASSUME NEW k \in Conns, Call(c, k)
        PROVE  HandlerInv'
    <3>1. \E l : pc' = [pc EXCEPT ![c] = l]
      BY <2>1 DEF Call, Bridge!Begin, Bridge!Reject, Bridge!CheckSession, Bridge!Goto,
                  Bridge!Return
    <3>2. Started' \subseteq Started \cup {c}
      BY <1>t, <3>1 DEF Started
    <3>3. /\ handlers' = handlers /\ handlers[k] = "running"
          /\ via' = [via EXCEPT ![c] = {k}]
      BY <2>1 DEF Call, connectionVars
    <3> QED
      BY <3>2, <3>3 DEF HandlerInv, Started
  <2>2. CASE SendReturns(c) \/ CancelLost(c) \/ CallRuns(c) \/ ContextEnds(c)
    <3>1. Bridge!Proceed(c) \/ Bridge!SendReturns(c) \/ Bridge!Expire(c) \/ Bridge!Cancel(c)
      BY <2>2 DEF SendReturns, CancelLost, CallRuns, ContextEnds, Bridge!Proceed, Bridge!SendReturns
    <3>2. UNCHANGED <<handlers, via>>
      BY <2>2 DEF SendReturns, CancelLost, CallRuns, ContextEnds, connectionVars
    <3> QED
      BY <1>t, <1>k, <3>1, <3>2, CallGoesOn
  <2> QED
    BY <1>1, <2>1, <2>2 DEF CallStep
<1>2. ASSUME NEW k \in Conns, ConnStep(k)
      PROVE  HandlerInv'
  <2>1. CASE Transport(k) \/ TransportCloses(k)
    <3>1. pc' = pc /\ via' = via
      BY <2>1 DEF Transport, TransportCloses, bridgeVars
    <3>2. handlers' = handlers \/ handlers' = [handlers EXCEPT ![k] = "running"]
      BY <2>1 DEF Transport, TransportCloses, Connect, Abort, StartHandlers, BeginClose,
                  FinishClose, Move
    <3> QED
      BY <3>1, <3>2 DEF HandlerInv, Started
  <2>2. CASE HandlersReturn(k)
    <3>1. /\ pc' = pc /\ via' = via
          /\ handlers' = [handlers EXCEPT ![k] = "ended"]
          /\ \A c \in Calls : k \in via[c] => pc[c] = "done"
      BY <2>2 DEF HandlersReturn, EndHandlers, bridgeVars
    <3> QED
      BY <3>1 DEF HandlerInv, Started
  <2>3. CASE OpenStream(k) \/ HostReplies(k) \/ StreamFails(k) \/ StreamRuns(k) \/ Acked(k)
    <3>1. Bridge!LoopStep(k) \/ Bridge!AckReturns(k) \/ Bridge!HostEvent(k)
      BY <2>3 DEF OpenStream, HostReplies, StreamFails, StreamRuns, Acked,
                  Bridge!LoopStep, Bridge!AckReturns, Bridge!HostEvent
    <3>2. UNCHANGED <<handlers, via>>
      BY <2>3 DEF OpenStream, HostReplies, StreamFails, StreamRuns, Acked, connectionVars
    <3>3. pc' = pc
      BY <3>1, LoopsMoveNoCall
    <3> QED
      BY <1>k, <3>2, <3>3 DEF Started
  <2> QED
    BY <1>2, <2>1, <2>2, <2>3 DEF ConnStep
<1>3. CASE Exhausted \/ UNCHANGED remoteVars
  BY <1>3 DEF Exhausted, remoteVars, connectionVars, bridgeVars, HandlerInv, Started
<1> QED
  BY <1>1, <1>2, <1>3 DEF RemoteNext

(* The map of pending calls, which outlives every connection, holds no     *)
(* call of a connection whose handlers are gone, however often the adapter *)
(* reconnects.                                                             *)
THEOREM MapOutlivesNoConnection == RemoteSpec => []NoEntryOutlivesConnection
<1>1. Proved!BridgeInv /\ HandlerInv => NoEntryOutlivesConnection
  <2> SUFFICES ASSUME Proved!BridgeInv, HandlerInv, NEW c \in pending
               PROVE  \E k \in via[c] : handlers[k] = "running"
    BY DEF NoEntryOutlivesConnection
  <2>1. c \in Calls /\ pc[c] \in Proved!Registered
    BY DEF Proved!BridgeInv, Proved!TypeInv, Proved!TypeOK, Proved!OwnerInv
  <2> QED
    BY <2>1 DEF HandlerInv, Started, Proved!Registered
<1> QED
  BY <1>1, InitHandlers, StepHandlers, BridgeInvariantHolds, PTL DEF RemoteSpec

(* What the bridge owes its callers, whichever connection they came over.  *)
BridgeSafe == Bridge!NoDoubleClose /\ Bridge!NoLostCaller /\ Bridge!NoLeak

(* The adapter process survives every reconnect: no done channel is closed *)
(* twice, every waiting call can still be woken, and a call that returned  *)
(* left nothing behind.                                                    *)
THEOREM BridgeSafeAcrossReconnects == RemoteSpec => []BridgeSafe
<1>1. Proved!BridgeInv => BridgeSafe
  BY DEF Proved!BridgeInv, Proved!NoDoubleClose, Proved!WakeableInv, Proved!OwnerInv,
         Proved!TypeInv, Proved!TypeOK, Proved!Registered, BridgeSafe,
         Bridge!NoDoubleClose, Bridge!NoLostCaller, Bridge!NoLeak
<1> QED
  BY <1>1, BridgeInvariantHolds, PTL

(* Over reconnecting transports the bridge still keeps the contract of a   *)
(* tool call: one answer per call, returned for what it is, and none for a *)
(* call that wrote its session off.                                        *)
THEOREM ContractKeptAcrossReconnects == RemoteSpec => Proved!ImplementsContract
<1>1. SessionOf \in [Calls -> Sessions]
  BY BridgeConstants
<1>2. Fragments \subseteq Proved!FragmentType
  BY BridgeConstants
<1>3. MaxFragments \in Nat
  BY BridgeConstants
<1> QED
  BY <1>1, <1>2, <1>3, CompositionKeepsBridge, SameBridge,
     Proved!BridgeImplementsContract, PTL
=============================================================================
