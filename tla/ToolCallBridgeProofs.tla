------------------------ MODULE ToolCallBridgeProofs ------------------------
(***************************************************************************)
(* Machine-checked proofs about ToolCallBridge: for any number of calls,   *)
(* sessions and Permissions streams, and for any messages a host sends.    *)
(*                                                                         *)
(* The argument is about ownership.  An entry is owned by the map, then by *)
(* at most one closeAll, then by nobody; only an owner closes its done     *)
(* channel, and giving the entry up and closing it go together.            *)
(***************************************************************************)
EXTENDS ToolCallRefinement, TLAPS

(* A caller past the Done branch of select has a context that ended, and   *)
(* one about to write its session off ended by its deadline, granted.      *)
ExpiredInv ==
    \A c \in Calls :
        /\ pc[c] \in {"expired", "drop"} => ctxErr[c] # "none"
        /\ pc[c] = "cache" => ctxErr[c] = "deadline" /\ c \in grant

TypeInv == TypeOK /\ ExpiredInv

(* The initial states satisfy the type invariant.                          *)
LEMMA InitTypeInv == Init => TypeInv
  BY SessionAssumption DEF Init, TypeInv, TypeOK, ExpiredInv, PCs, Running, Outcomes, LoopStates

(* finishToolCall returns none of the outcomes of an unanswered call.      *)
LEMMA FinishOutcomes ==
    \A c \in Calls : finishToolCall(c) \subseteq Outcomes \ {"unsupported", "invalid"}
  BY DEF finishToolCall, Outcomes

USE DEF callerVars, entryVars, bridgeVars, loopVars,
        WithTimeout, remove, Done, BareGrant, Resolve, Fail

(* Every step of a caller keeps the type invariant.                        *)
LEMMA CallerTypeInv ==
    ASSUME TypeInv, NEW c \in Calls, Begin(c) \/ Proceed(c) \/ SendReturns(c) \/ Expire(c) \/ Cancel(c)
    PROVE  TypeInv'
<1> USE DEF TypeInv, TypeOK, ExpiredInv, PCs, Running, Outcomes, LoopStates, Return, Goto
<1>1. CASE Reject(c)           BY <1>1 DEF Reject
<1>2. CASE CheckSession(c)
  <2>1. CASE Return(c, "unsupported")  BY <1>2, <2>1 DEF CheckSession
  <2>2. CASE Goto(c, "register")       BY <1>2, <2>2 DEF CheckSession
  <2> QED  BY <1>2, <2>1, <2>2 DEF CheckSession
<1>3. CASE BadArgs(c)          BY <1>3 DEF BadArgs
<1>4. CASE Register(c)         BY <1>4 DEF Register
<1>5. CASE Send(c)             BY <1>5 DEF Send
<1>6. CASE SendOk(c)           BY <1>6 DEF SendOk
<1>7. CASE SendErr(c)          BY <1>7 DEF SendErr
<1>8. CASE Unsend(c)           BY <1>8 DEF Unsend
<1>9. CASE Receive(c)          BY <1>9, FinishOutcomes DEF Receive
<1>10. CASE CtxDone(c)         BY <1>10 DEF CtxDone
<1>11. CASE TakeGrant(c)       BY <1>11 DEF TakeGrant
<1>12. CASE CacheUnsupported(c) BY <1>12, SessionAssumption DEF CacheUnsupported
<1>13. CASE Drop(c)            BY <1>13 DEF Drop
<1>14. CASE Expire(c)          BY <1>14 DEF Expire
<1>15. CASE Cancel(c)          BY <1>15 DEF Cancel
<1> HIDE DEF TypeInv, Return, Goto
<1> QED
  BY <1>1, <1>2, <1>3, <1>4, <1>5, <1>6, <1>7, <1>8, <1>9, <1>10, <1>11, <1>12,
     <1>13, <1>14, <1>15 DEF Begin, Proceed, SendReturns

(* Every step of a dispatch loop keeps the type invariant.                 *)
LEMMA LoopTypeInv ==
    ASSUME TypeInv, NEW s \in Streams, LoopStep(s) \/ AckReturns(s) \/ HostEvent(s)
    PROVE  TypeInv'
<1> USE DEF TypeInv, TypeOK, ExpiredInv, LoopStates, close
<1>1. CASE AckOk(s)            BY <1>1 DEF AckOk
<1>2. CASE AckErr(s)           BY <1>2 DEF AckErr
<1>3. CASE MarkGranted(s)      BY <1>3 DEF MarkGranted
<1>4. CASE CloseAll(s)         BY <1>4 DEF CloseAll
<1>5. CASE EndStream(s)        BY <1>5 DEF EndStream
<1>6. CASE OpenStream(s)       BY <1>6 DEF OpenStream
<1>7. CASE RecvErr(s)          BY <1>7 DEF RecvErr
<1>8. ASSUME NEW c \in Calls, RecvRequest(s, c) PROVE TypeInv'
  BY <1>8 DEF RecvRequest
<1>9. ASSUME NEW c \in Calls, RouteCancel(s, c) PROVE TypeInv'
  BY <1>9 DEF RouteCancel
<1>10. ASSUME NEW c \in Calls, NEW f \in Fragments, RouteResult(s, c, f) PROVE TypeInv'
  <2>1. fragments' \in [Calls -> Seq(Fragments)]  BY <1>10 DEF RouteResult
  <2>2. pending' \subseteq pending /\ closes' \in [Calls -> Nat]
    BY <1>10 DEF RouteResult
  <2> QED  BY <1>10, <2>1, <2>2 DEF RouteResult
<1>11. ASSUME NEW c \in Calls, ResolveClosed(s, c) PROVE TypeInv'
  BY <1>11 DEF ResolveClosed
<1> HIDE DEF TypeInv, close
<1> QED
  BY <1>1, <1>2, <1>3, <1>4, <1>5, <1>6, <1>7, <1>8, <1>9, <1>10, <1>11
  DEF LoopStep, AckReturns, HostEvent

(* Every step keeps the type invariant.                                    *)
LEMMA NextTypeInv == TypeInv /\ [Next]_vars => TypeInv'
<1>1. ASSUME TypeInv, UNCHANGED vars PROVE TypeInv'
  BY <1>1 DEF TypeInv, TypeOK, ExpiredInv, vars
<1> QED
  BY <1>1, CallerTypeInv, LoopTypeInv DEF Next, Terminated

(* The bridge never leaves its types, and a call that returned has an      *)
(* outcome: the context error it returns is never nil.                     *)
THEOREM TypeCorrect == Spec => []TypeOK
<1>1. TypeInv => TypeOK  BY DEF TypeInv
<1> QED  BY <1>1, InitTypeInv, NextTypeInv, PTL DEF Spec

-----------------------------------------------------------------------------
(* The callers between register and the end of select.                     *)
Registered == {"send", "sending", "unsend", "wait", "expired"}

(* An entry has at most one owner, the map or one closeAll, and an owned   *)
(* entry is unresolved.                                                    *)
OwnerInv ==
    /\ \A c \in Calls : c \in pending =>
         pc[c] \in Registered /\ closes[c] = 0 /\ c \notin cancelled \cup closedErr
    /\ \A s \in Streams, c \in Calls : c \in closing[s] =>
         loop[s] = "resolving" /\ c \notin pending /\ closes[c] = 0
    /\ \A s, t \in Streams, c \in Calls : c \in closing[s] /\ c \in closing[t] => s = t

(* The entry of a call is nobody's and unresolved before it is registered, *)
(* and after its caller took it as proof of an old host, and it never is   *)
(* anyone's for a call rejected as invalid.                                *)
UnownedInv ==
    \A c \in Calls :
        pc[c] \in {"idle", "register", "cache"} \/ ret[c] \in {"unsupported", "invalid"} =>
            closes[c] = 0 /\ \A s \in Streams : c \notin closing[s]

FreshInv ==
    \A c \in Calls : pc[c] \in {"idle", "register"} => c \notin cancelled \cup closedErr

(* NoLostCaller for every caller that still holds its entry.               *)
WakeableInv ==
    \A c \in Calls : pc[c] \in Registered /\ closes[c] = 0 =>
        c \in pending \/ \E s \in Streams : c \in closing[s]

BridgeInv ==
    TypeInv /\ OwnerInv /\ UnownedInv /\ FreshInv /\ WakeableInv /\ NoDoubleClose
    /\ ResolvedHasCause /\ CachedOnlyAfterBareGrant

(* The initial states satisfy the ownership invariant.                     *)
LEMMA InitBridgeInv == Init => BridgeInv
  BY InitTypeInv DEF Init, BridgeInv, OwnerInv, UnownedInv, FreshInv, WakeableInv,
     NoDoubleClose, ResolvedHasCause, CachedOnlyAfterBareGrant, Registered

(* A step that leaves the cache and the witnesses of its sessions alone    *)
(* keeps CachedOnlyAfterBareGrant.                                         *)
LEMMA CachedKept ==
    ASSUME CachedOnlyAfterBareGrant,
           unsupportedSessions' = unsupportedSessions,
           \A d \in Calls : ret[d] = "unsupported" /\ closes[d] = 0 =>
              ret'[d] = ret[d] /\ closes'[d] = 0,
           \A d \in Calls : ctxErr[d] = "deadline" => ctxErr'[d] = "deadline",
           grant \subseteq grant'
    PROVE  CachedOnlyAfterBareGrant'
  BY DEF CachedOnlyAfterBareGrant

(* Every step of a caller keeps the ownership invariant.                   *)
LEMMA CallerBridgeInv ==
    ASSUME BridgeInv, NEW c \in Calls, Begin(c) \/ Proceed(c) \/ SendReturns(c) \/ Expire(c) \/ Cancel(c)
    PROVE  BridgeInv'
<1> DEFINE Rest == OwnerInv /\ UnownedInv /\ FreshInv /\ WakeableInv /\ NoDoubleClose
                   /\ ResolvedHasCause /\ CachedOnlyAfterBareGrant
<1>0. TypeInv'  BY CallerTypeInv DEF BridgeInv
<1> SUFFICES Rest'  BY <1>0 DEF BridgeInv
<1> USE DEF BridgeInv, TypeInv, TypeOK, ExpiredInv, OwnerInv, UnownedInv, FreshInv,
            WakeableInv, NoDoubleClose, ResolvedHasCause, CachedOnlyAfterBareGrant,
            Registered, Return, Goto
<1>1. CASE Reject(c)
  <2>1. CachedOnlyAfterBareGrant'  BY <1>1, CachedKept DEF Reject
  <2> HIDE DEF CachedOnlyAfterBareGrant
  <2> QED  BY <1>1, <2>1 DEF Reject
<1>2. CASE CheckSession(c)
  <2>1. CASE Return(c, "unsupported")  BY <1>2, <2>1 DEF CheckSession
  <2>2. CASE Goto(c, "register")       BY <1>2, <2>2 DEF CheckSession
  <2> QED  BY <1>2, <2>1, <2>2 DEF CheckSession
<1>3. CASE BadArgs(c)
  <2>1. CachedOnlyAfterBareGrant'  BY <1>3, CachedKept DEF BadArgs
  <2> HIDE DEF CachedOnlyAfterBareGrant
  <2> QED  BY <1>3, <2>1 DEF BadArgs
<1>4. CASE Register(c)         BY <1>4 DEF Register
<1>5. CASE Send(c)             BY <1>5 DEF Send
<1>6. CASE SendOk(c)           BY <1>6 DEF SendOk
<1>7. CASE SendErr(c)          BY <1>7 DEF SendErr
<1>8. CASE Unsend(c)
  <2>1. CachedOnlyAfterBareGrant'  BY <1>8, CachedKept DEF Unsend
  <2> HIDE DEF CachedOnlyAfterBareGrant
  <2> QED  BY <1>8, <2>1 DEF Unsend
<1>9. CASE Receive(c)          BY <1>9, FinishOutcomes DEF Receive
<1>10. CASE CtxDone(c)         BY <1>10 DEF CtxDone
<1>11. CASE TakeGrant(c)       BY <1>11 DEF TakeGrant
<1>12. CASE CacheUnsupported(c) BY <1>12, SessionAssumption DEF CacheUnsupported
<1>13. CASE Drop(c)
  <2>1. CachedOnlyAfterBareGrant'  BY <1>13, CachedKept DEF Drop
  <2>2. ctxErr[c] \in {"none", "deadline", "canceled"}  OBVIOUS
  <2> HIDE DEF CachedOnlyAfterBareGrant
  <2> QED  BY <1>13, <2>1, <2>2 DEF Drop
<1>14. CASE Expire(c)          BY <1>14 DEF Expire
<1>15. CASE Cancel(c)          BY <1>15 DEF Cancel
<1> HIDE DEF Rest, Return, Goto
<1> QED
  BY <1>1, <1>2, <1>3, <1>4, <1>5, <1>6, <1>7, <1>8, <1>9, <1>10, <1>11, <1>12,
     <1>13, <1>14, <1>15 DEF Begin, Proceed, SendReturns

(* What one tool_call_result does to the entries: the fragment is appended *)
(* to its call's entry, which is closed or stays in the map.               *)
LEMMA RouteResultEffect ==
    ASSUME TypeOK, NEW s \in Streams, NEW c \in Calls, NEW f \in Fragments,
           RouteResult(s, c, f), closes[c] = 0
    PROVE  /\ (closes'[c] = 1 /\ Resolves(f)) \/ (closes'[c] = 0 /\ c \in pending')
           /\ pending \ {c} \subseteq pending'
           /\ \A d \in Calls \ {c} : closes'[d] = closes[d]
           /\ fragments'[c] # <<>> /\ fragments'[c][Len(fragments'[c])] = f
           /\ \A d \in Calls \ {c} : fragments'[d] = fragments[d]
<1>1. /\ (closes'[c] = 1 /\ Resolves(f)) \/ (closes'[c] = 0 /\ c \in pending')
      /\ pending \ {c} \subseteq pending'
      /\ \A d \in Calls \ {c} : closes'[d] = closes[d]
  <2>1. CASE Resolves(f)
    <3>1. pending' = pending \ {c} /\ close(c)  BY <2>1 DEF RouteResult
    <3> QED  BY <2>1, <3>1 DEF close, TypeOK
  <2>2. CASE ~Resolves(f)  BY <2>2 DEF RouteResult, TypeOK
  <2> QED  BY <2>1, <2>2
<1>2. /\ fragments'[c] = Append(fragments[c], f)
      /\ \A d \in Calls \ {c} : fragments'[d] = fragments[d]
      /\ fragments[c] \in Seq(Fragments)
  BY DEF RouteResult, TypeOK
<1>3. fragments'[c] # <<>> /\ fragments'[c][Len(fragments'[c])] = f
  BY <1>2
<1> QED  BY <1>1, <1>2, <1>3

(* Every step of a dispatch loop keeps the ownership invariant.            *)
LEMMA LoopBridgeInv ==
    ASSUME BridgeInv, NEW s \in Streams, LoopStep(s) \/ AckReturns(s) \/ HostEvent(s)
    PROVE  BridgeInv'
<1> DEFINE Rest == OwnerInv /\ UnownedInv /\ FreshInv /\ WakeableInv /\ NoDoubleClose
                   /\ ResolvedHasCause /\ CachedOnlyAfterBareGrant
<1>0. TypeInv'  BY LoopTypeInv DEF BridgeInv
<1> SUFFICES Rest'  BY <1>0 DEF BridgeInv
<1> USE DEF BridgeInv, TypeInv, TypeOK, ExpiredInv, OwnerInv, UnownedInv, FreshInv,
            WakeableInv, NoDoubleClose, ResolvedHasCause, CachedOnlyAfterBareGrant,
            Registered, close
<1>1. CASE AckOk(s)            BY <1>1 DEF AckOk
<1>2. CASE AckErr(s)           BY <1>2 DEF AckErr
<1>3. CASE MarkGranted(s)      BY <1>3 DEF MarkGranted
<1>4. CASE CloseAll(s)
  <2>1. CachedOnlyAfterBareGrant'  BY <1>4, CachedKept DEF CloseAll
  <2>2. OwnerInv'     BY <1>4 DEF CloseAll
  <2>3. WakeableInv'  BY <1>4 DEF CloseAll
  <2>4. \A c \in pending : pc[c] \in Registered /\ ret[c] = "none"
    BY <1>4
  <2>5. UnownedInv'
    <3> SUFFICES ASSUME NEW c \in Calls,
                        \/ pc[c] \in {"idle", "register", "cache"}
                        \/ ret[c] \in {"unsupported", "invalid"}
                 PROVE  closes[c] = 0 /\ \A t \in Streams : c \notin closing'[t]
      BY <1>4 DEF CloseAll
    <3>1. c \notin pending  BY <2>4
    <3> QED  BY <1>4, <3>1 DEF CloseAll
  <2> HIDE DEF CachedOnlyAfterBareGrant, UnownedInv, OwnerInv, WakeableInv
  <2> QED  BY <1>4, <2>1, <2>2, <2>3, <2>5 DEF CloseAll
<1>5. CASE EndStream(s)        BY <1>5 DEF EndStream
<1>6. CASE OpenStream(s)       BY <1>6 DEF OpenStream
<1>7. CASE RecvErr(s)          BY <1>7 DEF RecvErr
<1>8. ASSUME NEW c \in Calls, RecvRequest(s, c) PROVE Rest'
  BY <1>8 DEF RecvRequest
<1>9. ASSUME NEW c \in Calls, RouteCancel(s, c) PROVE Rest'
  <2>0. /\ pc[c] \in Registered /\ ret[c] = "none" /\ closes[c] = 0
        /\ c \notin cancelled \cup closedErr /\ \A t \in Streams : c \notin closing[t]
    BY <1>9 DEF RouteCancel
  <2>1. CachedOnlyAfterBareGrant'
    <3>1. \A d \in Calls : ret[d] = "unsupported" /\ closes[d] = 0 =>
             ret'[d] = ret[d] /\ closes'[d] = 0
      BY <1>9, <2>0 DEF RouteCancel
    <3> QED  BY <1>9, <3>1, CachedKept DEF RouteCancel
  <2>2. OwnerInv'     BY <1>9 DEF RouteCancel
  <2>3. WakeableInv'  BY <1>9 DEF RouteCancel
  <2>4. NoDoubleClose' /\ ResolvedHasCause'  BY <1>9 DEF RouteCancel
  <2>5. UnownedInv' /\ FreshInv'  BY <1>9, <2>0 DEF RouteCancel
  <2> HIDE DEF CachedOnlyAfterBareGrant
  <2> QED  BY <2>1, <2>2, <2>3, <2>4, <2>5
<1>10. ASSUME NEW c \in Calls, NEW f \in Fragments, RouteResult(s, c, f) PROVE Rest'
  <2>0. /\ pc[c] \in Registered /\ ret[c] = "none" /\ closes[c] = 0
        /\ c \notin cancelled \cup closedErr /\ \A t \in Streams : c \notin closing[t]
    BY <1>10 DEF RouteResult
  <2>1. CachedOnlyAfterBareGrant'
    <3>1. \A d \in Calls : ret[d] = "unsupported" /\ closes[d] = 0 =>
             ret'[d] = ret[d] /\ closes'[d] = 0
      BY <1>10, <2>0 DEF RouteResult
    <3> QED  BY <1>10, <3>1, CachedKept DEF RouteResult
  <2>2. OwnerInv'     BY <1>10 DEF RouteResult
  <2>a. /\ (closes'[c] = 1 /\ Resolves(f)) \/ (closes'[c] = 0 /\ c \in pending')
        /\ pending \ {c} \subseteq pending'
        /\ \A d \in Calls \ {c} : closes'[d] = closes[d]
        /\ fragments'[c] # <<>> /\ fragments'[c][Len(fragments'[c])] = f
        /\ \A d \in Calls \ {c} : fragments'[d] = fragments[d]
    BY <1>10, <2>0, RouteResultEffect
  <2>3. WakeableInv'  BY <1>10, <2>0, <2>a DEF RouteResult
  <2>4. NoDoubleClose' /\ ResolvedHasCause'
    <3>1. NoDoubleClose'
      <4> SUFFICES ASSUME NEW d \in Calls PROVE closes'[d] <= 1  OBVIOUS
      <4>1. CASE d = c  BY <2>a, <4>1
      <4>2. CASE d # c
        <5>1. closes[d] <= 1  BY DEF NoDoubleClose
        <5> QED  BY <2>a, <4>2, <5>1
      <4> QED  BY <4>1, <4>2
    <3>2. ResolvedHasCause'  BY <1>10, <2>0, <2>a DEF RouteResult
    <3> QED  BY <3>1, <3>2
  <2>5. UnownedInv' /\ FreshInv'  BY <1>10, <2>0 DEF RouteResult
  <2> HIDE DEF CachedOnlyAfterBareGrant
  <2> QED  BY <2>1, <2>2, <2>3, <2>4, <2>5
<1>11. ASSUME NEW c \in Calls, ResolveClosed(s, c) PROVE Rest'
  BY <1>11 DEF ResolveClosed
<1> HIDE DEF Rest, close
<1> QED
  BY <1>1, <1>2, <1>3, <1>4, <1>5, <1>6, <1>7, <1>8, <1>9, <1>10, <1>11
  DEF LoopStep, AckReturns, HostEvent

(* Every step keeps the ownership invariant.                               *)
LEMMA NextBridgeInv == BridgeInv /\ [Next]_vars => BridgeInv'
<1>1. ASSUME BridgeInv, UNCHANGED vars PROVE BridgeInv'
  BY <1>1 DEF BridgeInv, TypeInv, TypeOK, ExpiredInv, OwnerInv, UnownedInv, FreshInv,
     WakeableInv, NoDoubleClose, ResolvedHasCause, CachedOnlyAfterBareGrant, vars
<1> QED
  BY <1>1, CallerBridgeInv, LoopBridgeInv DEF Next, Terminated

(* The ownership invariant holds of every reachable state.                 *)
THEOREM BridgeInvariant == Spec => []BridgeInv
  BY InitBridgeInv, NextBridgeInv, PTL DEF Spec

(* However many streams die and however late, often or out of order the    *)
(* host answers, no done channel is closed twice: the adapter never panics *)
(* on an entry two parties resolve.                                        *)
THEOREM NeverDoubleClose == Spec => []NoDoubleClose
<1>1. BridgeInv => NoDoubleClose  BY DEF BridgeInv
<1> QED  BY <1>1, BridgeInvariant, PTL

(* finishToolCall never indexes an empty list of fragments.                *)
THEOREM AlwaysResolvedHasCause == Spec => []ResolvedHasCause
<1>1. BridgeInv => ResolvedHasCause  BY DEF BridgeInv
<1> QED  BY <1>1, BridgeInvariant, PTL

(* No interleaving of replies, dying streams and callers strands a caller  *)
(* on an entry that nobody owns.                                           *)
THEOREM NeverLostCaller == Spec => []NoLostCaller
<1>1. BridgeInv => NoLostCaller  BY DEF BridgeInv, WakeableInv, NoLostCaller, Registered
<1> QED  BY <1>1, BridgeInvariant, PTL

(* No return path of CallAdapterTool leaves its entry in the map.          *)
THEOREM NeverLeak == Spec => []NoLeak
<1>1. BridgeInv => NoLeak  BY DEF BridgeInv, OwnerInv, NoLeak, Registered
<1> QED  BY <1>1, BridgeInvariant, PTL

(* A session is written off only on the evidence of a granted, expired and *)
(* unanswered call of that session.                                        *)
THEOREM WriteOffNeedsBareGrant == Spec => []CachedOnlyAfterBareGrant
<1>1. BridgeInv => CachedOnlyAfterBareGrant  BY DEF BridgeInv
<1> QED  BY <1>1, BridgeInvariant, PTL

(* A step writes to no entry that is already resolved.                     *)
LEMMA StepKeepsResolved ==
    ASSUME BridgeInv, [Next]_vars, NEW d \in Calls, closes[d] > 0
    PROVE  EntryFrozen(d)
<1> USE DEF EntryFrozen
<1>0. /\ d \notin pending
      /\ \A s \in Streams : d \notin closing[s]
  BY DEF BridgeInv, OwnerInv, TypeInv, TypeOK
<1>1. CASE UNCHANGED vars  BY <1>1 DEF vars
<1>2. ASSUME NEW c \in Calls, Begin(c) \/ Proceed(c) \/ SendReturns(c) \/ Expire(c) \/ Cancel(c)
      PROVE  EntryFrozen(d)
  BY <1>2 DEF Begin, Proceed, SendReturns, Reject, CheckSession, BadArgs, Register, Send, SendOk,
     SendErr, Unsend, Receive, CtxDone, TakeGrant, CacheUnsupported, Drop, Expire, Cancel
<1>3. ASSUME NEW s \in Streams, LoopStep(s) \/ AckReturns(s) PROVE EntryFrozen(d)
  <2>1. CASE \E c \in Calls : ResolveClosed(s, c)
    BY <1>0, <2>1 DEF ResolveClosed, close, BridgeInv, TypeInv, TypeOK
  <2>2. CASE AckOk(s) \/ AckErr(s) \/ CloseAll(s) \/ EndStream(s)
    BY <2>2 DEF AckOk, AckErr, CloseAll, EndStream
  <2>3. CASE MarkGranted(s)  BY <1>0, <2>3 DEF MarkGranted
  <2> QED  BY <1>3, <2>1, <2>2, <2>3 DEF LoopStep, AckReturns
<1>4. ASSUME NEW s \in Streams, HostEvent(s) PROVE EntryFrozen(d)
  <2>1. CASE OpenStream(s) \/ RecvErr(s)  BY <2>1 DEF OpenStream, RecvErr
  <2>2. ASSUME NEW c \in Calls, RecvRequest(s, c) PROVE EntryFrozen(d)
    BY <2>2 DEF RecvRequest
  <2>3. ASSUME NEW c \in Calls, RouteCancel(s, c) PROVE EntryFrozen(d)
    BY <1>0, <2>3 DEF RouteCancel, close, BridgeInv, TypeInv, TypeOK
  <2>4. ASSUME NEW c \in Calls, NEW f \in Fragments, RouteResult(s, c, f)
        PROVE  EntryFrozen(d)
    <3>1. c # d /\ closes[c] = 0  BY <1>0, <2>4 DEF RouteResult, BridgeInv, OwnerInv
    <3>2. TypeOK  BY DEF BridgeInv, TypeInv
    <3>3. fragments'[d] = fragments[d] /\ closes'[d] = closes[d]
      BY <2>4, <3>1, <3>2, RouteResultEffect
    <3>4. UNCHANGED <<grant, cancelled, closedErr>>  BY <2>4 DEF RouteResult
    <3> QED  BY <3>3, <3>4
  <2> QED  BY <1>4, <2>1, <2>2, <2>3, <2>4 DEF HostEvent
<1> HIDE DEF EntryFrozen
<1> QED  BY <1>1, <1>2, <1>3, <1>4 DEF Next, Terminated

(* The caller may read a resolved entry without the mutex: nothing the     *)
(* dispatch loops do later changes it.                                     *)
THEOREM ResolvedEntriesStayFrozen == Spec => ResolvedEntryFrozen
<1>1. BridgeInv /\ [Next]_vars => [\A c \in Calls : EntryFrozen(c)]_vars
  BY StepKeepsResolved DEF EntryFrozen
<1> QED  BY <1>1, BridgeInvariant, PTL DEF Spec, ResolvedEntryFrozen

-----------------------------------------------------------------------------
(* The bridge implements the contract: the mapped initial state is the     *)
(* contract's, and each step of the bridge is a step of the contract or    *)
(* changes none of its variables.  The ownership invariant is what makes   *)
(* an entry's done channel close at most once and never after a write-off. *)
bars == <<statusBar, answerBar, unsupportedSessions>>

(* The reply that a resolved entry stands for.                             *)
LEMMA AnswerKept ==
    ASSUME UNCHANGED <<closes, closedErr, cancelled>>
    PROVE  answerBar' = answerBar
  BY DEF answerBar

(* Closing one entry shows as the reply recorded on it.                    *)
LEMMA AnswerOfClose ==
    ASSUME NEW c \in Calls, closes'[c] = 1,
           \A d \in Calls \ {c} : /\ closes'[d] = closes[d]
                                  /\ d \in closedErr' <=> d \in closedErr
                                  /\ d \in cancelled' <=> d \in cancelled
    PROVE  answerBar' = [answerBar EXCEPT ![c] =
             IF c \in closedErr' THEN "closed"
             ELSE IF c \in cancelled' THEN "denied" ELSE "result"]
<1> DEFINE a == IF c \in closedErr' THEN "closed"
                ELSE IF c \in cancelled' THEN "denied" ELSE "result"
           new == [answerBar EXCEPT ![c] = a]
<1>1. \A d \in Calls \ {c} : answerBar'[d] = answerBar[d]  BY DEF answerBar
<1>2. answerBar'[c] = a  BY DEF answerBar
<1>3. /\ answerBar' = [d \in Calls |-> answerBar'[d]]
      /\ answerBar = [d \in Calls |-> answerBar[d]]
  BY DEF answerBar
<1> HIDE DEF a
<1>4. answerBar' = new  BY <1>1, <1>2, <1>3
<1> QED  BY <1>4 DEF a

(* A return changes the call's status to its outcome.                      *)
LEMMA StatusOfReturn ==
    ASSUME TypeOK, NEW c \in Calls, NEW outcome, Return(c, outcome)
    PROVE  statusBar' = [statusBar EXCEPT ![c] = outcome]
  BY DEF TypeOK, Return, statusBar

(* Moving on inside CallAdapterTool does not show.                         *)
LEMMA StatusOfGoto ==
    ASSUME TypeOK, NEW c \in Calls, NEW label \in Running \ {"idle"}, Goto(c, label),
           pc[c] \notin {"idle", "done"}
    PROVE  statusBar' = statusBar
  BY DEF TypeOK, Goto, statusBar, Running

(* A caller still running is issued in the contract.                       *)
LEMMA StatusOfRunning ==
    ASSUME TypeOK, NEW c \in Calls
    PROVE  /\ pc[c] = "idle" => statusBar[c] = "idle"
           /\ pc[c] \in Running \ {"idle"} => statusBar[c] = "issued"
  BY DEF statusBar, Running

(* A caller's step is one the contract allows.                             *)
LEMMA CallerRefines ==
    ASSUME BridgeInv, NEW c \in Calls, Begin(c) \/ Proceed(c) \/ SendReturns(c) \/ Expire(c) \/ Cancel(c)
    PROVE  Contract!Next \/ UNCHANGED bars
<1> USE DEF BridgeInv, TypeInv
<1>0. TypeOK  OBVIOUS
<1>1. CASE Reject(c)
  <2>1. Contract!Invalid(c)
    BY <1>0, <1>1, StatusOfReturn, StatusOfRunning, AnswerKept DEF Reject, Contract!Invalid
  <2> QED  BY <2>1 DEF Contract!Next
<1>2. CASE CheckSession(c) /\ Return(c, "unsupported")
  <2>1. SessionOf[c] \in unsupportedSessions
    BY <1>2, <1>0 DEF CheckSession, Return, Goto, TypeOK
  <2>2. Contract!FailFast(c)
    BY <1>0, <1>2, <2>1, StatusOfReturn, StatusOfRunning, AnswerKept
    DEF CheckSession, Contract!FailFast
  <2> QED  BY <2>2 DEF Contract!Next
<1>3. CASE CheckSession(c) /\ Goto(c, "register")
  <2>1. SessionOf[c] \notin unsupportedSessions
    BY <1>3, <1>0 DEF CheckSession, Return, Goto, TypeOK
  <2>2. statusBar' = [statusBar EXCEPT ![c] = "issued"]
    BY <1>0, <1>3 DEF Goto, statusBar, TypeOK
  <2>3. Contract!Issue(c)
    BY <1>0, <1>3, <2>1, <2>2, StatusOfRunning, AnswerKept DEF CheckSession, Contract!Issue
  <2> QED  BY <2>3 DEF Contract!Next
<1>4. CASE Register(c) \/ Send(c) \/ SendErr(c) \/ CtxDone(c) \/ TakeGrant(c)
  <2>1. \E label \in Running \ {"idle"} : Goto(c, label)
    BY <1>4 DEF Register, Send, SendErr, CtxDone, TakeGrant, Running
  <2>2. pc[c] \notin {"idle", "done"}
    BY <1>4 DEF Register, Send, SendErr, CtxDone, TakeGrant
  <2>3. statusBar' = statusBar  BY <1>0, <2>1, <2>2, StatusOfGoto
  <2> QED  BY <1>4, <2>3, AnswerKept DEF bars, Register, Send, SendErr, CtxDone, TakeGrant
<1>5. CASE SendOk(c)
  <2>1. statusBar' = statusBar  BY <1>0, <1>5 DEF SendOk, statusBar, TypeOK
  <2> QED  BY <1>5, <2>1, AnswerKept DEF bars, SendOk
<1>6. CASE Expire(c) \/ Cancel(c)
  BY <1>6, AnswerKept DEF bars, Expire, Cancel, statusBar
<1>7. CASE BadArgs(c) \/ Unsend(c) \/ Drop(c)
  <2>1. PICK outcome \in Contract!Local : Return(c, outcome)
    BY <1>0, <1>7 DEF BadArgs, Unsend, Drop, Contract!Local, TypeOK, ExpiredInv
  <2>2. statusBar[c] = "issued"
    BY <1>0, <1>7, StatusOfRunning DEF BadArgs, Unsend, Drop, Running
  <2>3. Contract!Finish(c)
    BY <1>0, <1>7, <2>1, <2>2, StatusOfReturn, AnswerKept
    DEF BadArgs, Unsend, Drop, Contract!Finish
  <2> QED  BY <2>3 DEF Contract!Next
<1>8. CASE Receive(c)
  <2>1. PICK outcome \in finishToolCall(c) : Return(c, outcome)  BY <1>8 DEF Receive
  <2>2. /\ answerBar[c] \in Contract!Answers
        /\ outcome \in Contract!Meaning(answerBar[c])
    BY <1>0, <1>8, <2>1 DEF Receive, finishToolCall, answerBar, Contract!Meaning, TypeOK,
       Contract!Answers
  <2>3. Contract!Finish(c)
    BY <1>0, <1>8, <2>1, <2>2, StatusOfReturn, StatusOfRunning, AnswerKept
    DEF Receive, Running, Contract!Finish
  <2> QED  BY <2>3 DEF Contract!Next
<1>9. CASE CacheUnsupported(c)
  <2>1. answerBar[c] = "none"
    BY <1>9 DEF CacheUnsupported, UnownedInv, answerBar
  <2>2. Contract!WriteOff(c)
    BY <1>0, <1>9, <2>1, StatusOfReturn, StatusOfRunning, AnswerKept
    DEF CacheUnsupported, Running, Contract!WriteOff
  <2> QED  BY <2>2 DEF Contract!Next
<1> HIDE DEF BridgeInv
<1> QED
  BY <1>1, <1>2, <1>3, <1>4, <1>5, <1>6, <1>7, <1>8, <1>9 DEF Begin, Proceed, SendReturns, CheckSession

(* Closing a done channel is the contract's one answer to that call.       *)
LEMMA CloseRefines ==
    ASSUME BridgeInv, NEW c \in Calls, NEW a \in Contract!Answers,
           closes[c] = 0,
           c \in pending \/ \E s \in Streams : c \in closing[s],
           answerBar' = [answerBar EXCEPT ![c] = a],
           UNCHANGED <<pc, ret, unsupportedSessions>>
    PROVE  Contract!Next
<1>1. statusBar' = statusBar  BY DEF statusBar
<1>2. answerBar[c] = "none"  BY DEF answerBar
<1>3. \/ pc[c] \in Running \ {"idle"}
      \/ pc[c] = "done" /\ ret[c] \notin {"idle", "unsupported", "invalid"}
  BY DEF BridgeInv, TypeInv, TypeOK, OwnerInv, UnownedInv, Registered, Running, PCs, Outcomes
<1>4. statusBar[c] \notin {"idle", "invalid", "unsupported"}
  BY <1>3 DEF statusBar, Running
<1>5. Contract!Answer(c, a)  BY <1>1, <1>2, <1>4 DEF Contract!Answer
<1> QED  BY <1>5 DEF Contract!Next

(* A dispatch loop's step is an answer or does not show.                   *)
LEMMA LoopRefines ==
    ASSUME BridgeInv, NEW s \in Streams, LoopStep(s) \/ AckReturns(s) \/ HostEvent(s)
    PROVE  Contract!Next \/ UNCHANGED bars
<1>0. TypeOK  BY DEF BridgeInv, TypeInv
<1>1. CASE \/ AckOk(s) \/ AckErr(s) \/ MarkGranted(s) \/ CloseAll(s) \/ EndStream(s)
           \/ OpenStream(s) \/ RecvErr(s) \/ \E c \in Calls : RecvRequest(s, c)
  <2>1. UNCHANGED <<pc, ret, unsupportedSessions, closes, closedErr, cancelled>>
    BY <1>1 DEF AckOk, AckErr, MarkGranted, CloseAll, EndStream, OpenStream, RecvErr, RecvRequest
  <2> QED  BY <2>1, AnswerKept DEF bars, statusBar
<1>2. ASSUME NEW c \in Calls, RouteCancel(s, c) PROVE Contract!Next
  <2>1. c \in pending /\ closes[c] = 0 /\ c \notin closedErr
    BY <1>2 DEF RouteCancel, BridgeInv, OwnerInv
  <2>2. answerBar' = [answerBar EXCEPT ![c] = "denied"]
    <3>1. /\ closes'[c] = 1
          /\ \A d \in Calls \ {c} : closes'[d] = closes[d]
      BY <1>0, <1>2, <2>1 DEF RouteCancel, close, TypeOK
    <3> QED  BY <1>2, <2>1, <3>1, AnswerOfClose DEF RouteCancel
  <2>3. "denied" \in Contract!Answers  BY DEF Contract!Answers
  <2> QED  BY <1>2, <2>1, <2>2, <2>3, CloseRefines DEF RouteCancel
<1>3. ASSUME NEW c \in Calls, ResolveClosed(s, c) PROVE Contract!Next
  <2>1. c \in closing[s] /\ closes[c] = 0
    BY <1>3 DEF ResolveClosed, BridgeInv, OwnerInv
  <2>2. answerBar' = [answerBar EXCEPT ![c] = "closed"]
    <3>1. /\ closes'[c] = 1
          /\ \A d \in Calls \ {c} : closes'[d] = closes[d]
      BY <1>0, <1>3, <2>1 DEF ResolveClosed, close, TypeOK
    <3> QED  BY <1>3, <2>1, <3>1, AnswerOfClose DEF ResolveClosed
  <2>3. "closed" \in Contract!Answers  BY DEF Contract!Answers
  <2> QED  BY <1>3, <2>1, <2>2, <2>3, CloseRefines DEF ResolveClosed
<1>4. ASSUME NEW c \in Calls, NEW f \in Fragments, RouteResult(s, c, f)
      PROVE  Contract!Next \/ UNCHANGED bars
  <2>1. c \in pending /\ closes[c] = 0 /\ c \notin cancelled \cup closedErr
    BY <1>4 DEF RouteResult, BridgeInv, OwnerInv
  <2>2. UNCHANGED <<pc, ret, unsupportedSessions, cancelled, closedErr>>
    BY <1>4 DEF RouteResult
  <2>3. /\ closes'[c] = 1 \/ closes'[c] = 0
        /\ \A d \in Calls \ {c} : closes'[d] = closes[d]
    BY <1>0, <1>4, <2>1, RouteResultEffect
  <2>4. CASE closes'[c] = 0
    BY <2>1, <2>2, <2>3, <2>4 DEF bars, statusBar, answerBar
  <2>5. CASE closes'[c] = 1
    <3>1. answerBar' = [answerBar EXCEPT ![c] = "result"]
      BY <2>1, <2>2, <2>3, <2>5, AnswerOfClose
    <3>2. "result" \in Contract!Answers  BY DEF Contract!Answers
    <3> QED  BY <2>1, <2>2, <3>1, <3>2, CloseRefines
  <2> QED  BY <2>3, <2>4, <2>5
<1> QED  BY <1>1, <1>2, <1>3, <1>4 DEF LoopStep, AckReturns, HostEvent

(* The mapped initial states are initial states of the contract.           *)
LEMMA InitRefines == Init => Contract!Init
  BY DEF Init, Contract!Init, statusBar, answerBar

(* Every step of the bridge is a step of the contract or a stutter.        *)
LEMMA StepRefines == BridgeInv /\ [Next]_vars => [Contract!Next]_bars
<1>1. ASSUME UNCHANGED vars PROVE UNCHANGED bars
  BY <1>1 DEF vars, bars, statusBar, answerBar
<1> QED  BY <1>1, CallerRefines, LoopRefines DEF Next, Terminated

(* The bridge implements the contract: one answer per call, returned for   *)
(* what it is, never an answer to a call that wrote its session off, and   *)
(* no call issued on a session that is written off.                        *)
THEOREM BridgeImplementsContract == Spec => ImplementsContract
  BY InitRefines, StepRefines, BridgeInvariant, PTL
  DEF Spec, ImplementsContract, Contract!Spec, bars
=============================================================================
