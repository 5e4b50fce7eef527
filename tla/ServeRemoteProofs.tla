-------------------------- MODULE ServeRemoteProofs --------------------------
(***************************************************************************)
(* Theorems about ServeRemote for any number of connections whose          *)
(* goroutines overlap, any options and any default delays.                 *)
(***************************************************************************)
EXTENDS ServeRemote, FiniteSetTheorems, TLAPS

(* The loop is on one connection while it shakes hands or serves, and on   *)
(* none otherwise.                                                         *)
LoopInv ==
    /\ \A j, k \in conn : j = k
    /\ conn = {} <=> phase \notin {"handshake", "serve"}

(* What is still untouched: everything of a slot without a connection; and *)
(* of a connection that gRPC was not handed, all that gRPC and the watcher *)
(* do.                                                                     *)
Unserved(k) ==
    /\ closeCall[k] = "no" /\ handlers[k] = "none" /\ k \notin doneCh \cup lisClosed

FreshInv ==
    \A k \in Conns :
        /\ raw[k] = "none" => k \notin conn /\ wire[k] = "nothing" /\ watcher[k] = "none"
        /\ raw[k] = "none" => k \notin used
        /\ k \notin used => Unserved(k)

(* gRPC has a connection only after the identity line was written on it,   *)
(* and the loop waits in Serve only after that too.                        *)
LineInv ==
    \A k \in Conns :
        /\ k \in used => wire[k] = "handshake"
        /\ k \in conn => IF phase = "serve" THEN wire[k] = "handshake" ELSE k \notin used
        /\ wire[k] # "grpc"

(* The close of a connection: doneCh is closed as it begins, the listener  *)
(* only after that, and the net.Conn is closed as it ends.                 *)
CloseInv ==
    \A k \in Conns :
        /\ k \in doneCh <=> closeCall[k] # "no"
        /\ k \in lisClosed => k \in doneCh
        /\ closeCall[k] = "signalled" => raw[k] = "open"
        /\ closeCall[k] = "done" => raw[k] = "closed"
        /\ k \in used /\ closeCall[k] = "no" => raw[k] = "open"

(* A connection the loop is not on any more has begun to close.            *)
LeftInv ==
    \A k \in Conns :
        /\ raw[k] = "open" /\ closeCall[k] = "no" => k \in conn
        /\ k \in conn /\ k \notin used => raw[k] = "open"

(* The n-th delay since a connection was established.                      *)
Backoff(n) ==
    IF n = 0 THEN initial ELSE IF initial * 2^n > cap THEN cap ELSE initial * 2^n

(* The delay is the one the count of sleeps asks for, in every phase.      *)
BackoffInv == sleeps < MaxSleeps => delay = Backoff(sleeps)

RemoteInv ==
    /\ TypeOK /\ LoopInv /\ FreshInv /\ LineInv /\ CloseInv /\ LeftInv /\ BackoffInv

-----------------------------------------------------------------------------
(* The delays the loop starts from and stops at are positive.              *)
LEMMA DelaysPositive ==
    ASSUME opts \in Options
    PROVE  initial \in Nat \ {0} /\ cap \in Nat \ {0} /\ opts.reconnect \in BOOLEAN
BY OptionsAssumption, DefaultsAssumption DEF initial, cap

(* The initial state satisfies the invariant.                              *)
LEMMA InitRemote == Init => RemoteInv
<1> SUFFICES ASSUME Init PROVE RemoteInv
  OBVIOUS
<1>1. initial \in Nat \ {0}
  BY DelaysPositive DEF Init
<1>2. TypeOK
  <2>1. delay \in Nat \ {0} /\ sleeps \in 0..MaxSleeps
    BY <1>1, SleepsAssumption DEF Init
  <2> QED
    BY <2>1 DEF Init, TypeOK
<1>3. LoopInv /\ FreshInv /\ LineInv /\ CloseInv /\ LeftInv
  BY DEF Init, LoopInv, FreshInv, Unserved, LineInv, CloseInv, LeftInv
<1>4. BackoffInv
  BY DEF Init, BackoffInv, Backoff
<1> QED
  BY <1>2, <1>3, <1>4 DEF RemoteInv

(* The control of the loop and the life of every connection.               *)
ConnInv == LoopInv /\ FreshInv /\ LineInv /\ CloseInv /\ LeftInv

(* Every step keeps the types.                                             *)
LEMMA StepTypes == TypeOK /\ [Next]_vars => TypeOK'
<1> SUFFICES ASSUME TypeOK, [Next]_vars PROVE TypeOK'
  OBVIOUS
<1> USE DEF TypeOK, connVars, loopVars
<1>p. initial \in Nat \ {0} /\ cap \in Nat \ {0} /\ opts.reconnect \in BOOLEAN
  BY DelaysPositive
<1>1. CASE Refuse \/ Begin
  BY <1>1 DEF Refuse, Begin
<1>2. CASE DialFail
  BY <1>2 DEF DialFail, OnceReturns
<1>3. CASE Reset
  <2>1. delay' \in Nat \ {0} /\ sleeps' \in 0..MaxSleeps
    BY <1>3, <1>p, SleepsAssumption DEF Reset, ResetDelay
  <2> QED
    BY <1>3, <2>1 DEF Reset
<1>4. CASE Sleep
  <2>1. Double(delay) \in Nat \ {0}
    BY <1>p DEF Double
  <2> QED
    BY <1>4, <2>1, SleepsAssumption DEF Sleep, AfterSleep
<1>5. ASSUME NEW k \in Conns,
             \/ LoopStep(k) \/ StartHandlers(k) \/ PeerDrop(k) \/ SignalClose(k)
             \/ RawClose(k) \/ EndHandlers(k) \/ Watch(k) \/ Forget(k)
      PROVE  TypeOK'
  <2>1. CASE DialOk(k)
    BY <2>1 DEF DialOk
  <2>2. CASE HandshakeFail(k)
    BY <2>2 DEF HandshakeFail, closeConn, OnceReturns
  <2>3. CASE HandshakeOk(k)
    BY <2>3 DEF HandshakeOk, sendHandshake, Wrote, StartWatcher
  <2>4. CASE Accept(k)
    BY <2>4 DEF Accept, Wrote
  <2>5. CASE ServeReturns(k)
    BY <2>5 DEF ServeReturns, AcceptFails, CloseListener, OnceReturns
  <2>6. CASE StartHandlers(k)
    BY <2>6 DEF StartHandlers
  <2>7. CASE PeerDrop(k)
    BY <2>7 DEF PeerDrop
  <2>8. CASE SignalClose(k)
    BY <2>8 DEF SignalClose
  <2>9. CASE RawClose(k)
    BY <2>9 DEF RawClose
  <2>10. CASE EndHandlers(k)
    BY <2>10 DEF EndHandlers
  <2>11. CASE Watch(k)
    BY <2>11 DEF Watch, CloseListener
  <2>12. CASE Forget(k)
    BY <2>12 DEF Forget
  <2> QED
    BY <1>5, <2>1, <2>2, <2>3, <2>4, <2>5, <2>6, <2>7, <2>8, <2>9, <2>10, <2>11, <2>12 DEF LoopStep
<1>6. CASE Terminated \/ UNCHANGED vars
  BY <1>6 DEF Terminated, vars
<1> QED
  BY <1>1, <1>2, <1>3, <1>4, <1>5, <1>6 DEF Next

(* Every step keeps what is known of the loop and its connections.         *)
LEMMA StepConns == TypeOK /\ ConnInv /\ [Next]_vars => ConnInv'
<1> SUFFICES ASSUME TypeOK, ConnInv, [Next]_vars PROVE ConnInv'
  OBVIOUS
<1> USE DEF TypeOK, ConnInv, LoopInv, FreshInv, Unserved, LineInv, CloseInv, LeftInv,
            connVars, loopVars
<1>1. CASE Refuse \/ Begin \/ DialFail \/ Reset \/ Sleep
  BY <1>1 DEF Refuse, Begin, DialFail, OnceReturns, Reset, Sleep, AfterSleep
<1>2. ASSUME NEW k \in Conns,
             \/ LoopStep(k) \/ StartHandlers(k) \/ PeerDrop(k) \/ SignalClose(k)
             \/ RawClose(k) \/ EndHandlers(k) \/ Watch(k) \/ Forget(k)
      PROVE  ConnInv'
  <2>1. CASE DialOk(k)
    BY <2>1 DEF DialOk
  <2>2. CASE HandshakeFail(k)
    BY <2>2 DEF HandshakeFail, closeConn, OnceReturns
  <2>3. CASE HandshakeOk(k)
    BY <2>3 DEF HandshakeOk, sendHandshake, Wrote, StartWatcher
  <2>4. CASE Accept(k)
    BY <2>4 DEF Accept, Wrote
  <2>5. CASE ServeReturns(k)
    BY <2>5 DEF ServeReturns, AcceptFails, CloseListener, OnceReturns
  <2>6. CASE StartHandlers(k)
    BY <2>6 DEF StartHandlers
  <2>7. CASE PeerDrop(k)
    BY <2>7 DEF PeerDrop
  <2>8. CASE SignalClose(k)
    BY <2>8 DEF SignalClose
  <2>9. CASE RawClose(k)
    BY <2>9 DEF RawClose
  <2>10. CASE EndHandlers(k)
    BY <2>10 DEF EndHandlers
  <2>11. CASE Watch(k)
    BY <2>11 DEF Watch, CloseListener
  <2>12. CASE Forget(k)
    BY <2>12 DEF Forget, Gone
  <2> QED
    BY <1>2, <2>1, <2>2, <2>3, <2>4, <2>5, <2>6, <2>7, <2>8, <2>9, <2>10, <2>11, <2>12 DEF LoopStep
<1>3. CASE Terminated \/ UNCHANGED vars
  BY <1>3 DEF Terminated, vars
<1> QED
  BY <1>1, <1>2, <1>3 DEF Next
-----------------------------------------------------------------------------
(* The powers of two are natural numbers and double from one to the next:  *)
(* they count the subsets of 1..n, of which 1..n+1 has those with n + 1    *)
(* besides.                                                                *)
LEMMA PowersDouble ==
    ASSUME NEW n \in Nat
    PROVE  2^n \in Nat /\ 2^(n + 1) = 2 * 2^n
<1> DEFINE Old == SUBSET (1..n)
           New == {A \cup {n + 1} : A \in Old}
           add == [A \in Old |-> A \cup {n + 1}]
<1>1. \A m \in Nat : /\ IsFiniteSet(SUBSET (1..m))
                     /\ Cardinality(SUBSET (1..m)) = 2^m
                     /\ 2^m \in Nat
  <2> TAKE m \in Nat
  <2>1. IsFiniteSet(1..m) /\ Cardinality(1..m) = m
    BY FS_Interval
  <2> QED
    BY <2>1, FS_SUBSET, FS_CardinalityType
<1>2. n + 1 \notin 1..n
  OBVIOUS
<1>3. add \in Bijection(Old, New)
  <2>1. add \in [Old -> New] /\ \A B \in New : \E A \in Old : add[A] = B
    OBVIOUS
  <2>2. ASSUME NEW A \in Old, NEW B \in Old, add[A] = add[B]
        PROVE  A = B
    <3>1. A \cup {n + 1} = B \cup {n + 1}
      BY <2>2
    <3>2. n + 1 \notin A /\ n + 1 \notin B
      BY <1>2, Zenon
    <3>3. A = (A \cup {n + 1}) \ {n + 1} /\ B = (B \cup {n + 1}) \ {n + 1}
      BY <3>2
    <3> QED
      BY <3>1, <3>3, Zenon
  <2> QED
    BY <2>1, <2>2, Zenon DEF Bijection, Injection, Surjection, IsInjective
<1>4. IsFiniteSet(New) /\ Cardinality(New) = 2^n
  <2>1. ExistsBijection(Old, New)
    BY <1>3, Zenon DEF ExistsBijection
  <2>2. IsFiniteSet(Old) /\ Cardinality(Old) = 2^n
    BY <1>1
  <2> HIDE DEF Old, New
  <2> QED
    BY <2>1, <2>2, FS_Bijection, Zenon
<1>5. Old \cap New = {}
  BY <1>2
<1>6. SUBSET (1..(n + 1)) = Old \cup New
  <2>1. 1..(n + 1) = 1..n \cup {n + 1}
    OBVIOUS
  <2>2. ASSUME NEW B \in SUBSET (1..n \cup {n + 1})
        PROVE  B \in Old \cup New
    <3>1. B \ {n + 1} \in Old
      OBVIOUS
    <3>2. CASE n + 1 \in B
      <4>1. B = (B \ {n + 1}) \cup {n + 1}
        BY <3>2
      <4> QED
        BY <3>1, <4>1, Zenon
    <3>3. CASE n + 1 \notin B
      <4>1. B = B \ {n + 1}
        BY <3>3
      <4> QED
        BY <3>1, <4>1, Zenon
    <3> QED
      BY <3>2, <3>3
  <2>3. Old \cup New \subseteq SUBSET (1..n \cup {n + 1})
    OBVIOUS
  <2> QED
    BY <2>1, <2>2, <2>3, Zenon
<1>7. Cardinality(Old \cup New) = 2^n + 2^n
  <2>1. IsFiniteSet(Old) /\ Cardinality(Old) = 2^n /\ 2^n \in Nat
    BY <1>1
  <2>2. Cardinality(Old \cap New) = 0
    BY <1>5, FS_EmptySet, Zenon
  <2> HIDE DEF Old, New
  <2>3. Cardinality(Old \cup New)
          = Cardinality(Old) + Cardinality(New) - Cardinality(Old \cap New)
    BY <1>4, <2>1, FS_Union, Zenon
  <2> QED
    BY <1>4, <2>1, <2>2, <2>3
<1>8. 2^(n + 1) = Cardinality(SUBSET (1..(n + 1)))
  <2>1. n + 1 \in Nat
    OBVIOUS
  <2> QED
    BY <1>1, <2>1, Zenon
<1>9. 2^n \in Nat
  BY <1>1
<1>10. 2^(n + 1) = 2^n + 2^n
  BY <1>6, <1>7, <1>8, Zenon
<1> QED
  BY <1>9, <1>10
(* Doubling the n-th delay up to the cap gives the next one, also when     *)
(* the first delay is above the cap or the cap was already met.            *)
LEMMA DoubleIsNextBackoff ==
    ASSUME opts \in Options, NEW n \in Nat
    PROVE  Double(Backoff(n)) = Backoff(n + 1)
<1>1. initial \in Nat \ {0} /\ cap \in Nat \ {0}
  BY DelaysPositive
<1>2. PICK p \in Nat : p = initial * 2^n
  BY <1>1, PowersDouble
<1>3. initial * 2^(n + 1) = 2 * p
  BY <1>1, <1>2, PowersDouble
<1>4. n = 0 => p = initial
  BY <1>1, <1>2
<1>5. Backoff(n + 1) = IF 2 * p > cap THEN cap ELSE 2 * p
  BY <1>3 DEF Backoff
<1>6. Backoff(n) = IF n = 0 THEN initial ELSE IF p > cap THEN cap ELSE p
  BY <1>2 DEF Backoff
<1> QED
  BY <1>1, <1>2, <1>4, <1>5, <1>6 DEF Double

(* Only Reset and Sleep touch the delay, and they keep it and the count of *)
(* sleeps together.                                                        *)
LEMMA StepBackoff == TypeOK /\ BackoffInv /\ [Next]_vars => BackoffInv'
<1> SUFFICES ASSUME TypeOK, BackoffInv, [Next]_vars PROVE BackoffInv'
  OBVIOUS
<1>1. opts' = opts
  BY DEF Next, LoopStep, Refuse, Begin, DialFail, Reset, Sleep, Terminated, DialOk,
         HandshakeFail, HandshakeOk, Accept, ServeReturns, StartHandlers, PeerDrop,
         SignalClose, RawClose, EndHandlers, Watch, Forget, OnceReturns,
         loopVars, vars
<1>2. \A n : Backoff(n)' = Backoff(n)
  BY <1>1 DEF Backoff, initial, cap
<1>3. CASE Sleep
  <2>1. sleeps \in Nat /\ MaxSleeps \in Nat /\ opts \in Options
    BY SleepsAssumption DEF TypeOK
  <2>2. ASSUME sleeps' < MaxSleeps
        PROVE  delay' = Backoff(sleeps + 1) /\ sleeps' = sleeps + 1
    BY <1>3, <2>1, <2>2, DoubleIsNextBackoff DEF Sleep, BackoffInv
  <2> QED
    BY <1>2, <2>2 DEF BackoffInv
<1>4. CASE Reset
  <2>1. CASE connected
    BY <1>1, <1>4, <2>1 DEF Reset, ResetDelay, BackoffInv, Backoff, initial
  <2>2. CASE ~connected
    BY <1>2, <1>4, <2>2 DEF Reset, ResetDelay, BackoffInv
  <2> QED
    BY <2>1, <2>2
<1>5. CASE ~Sleep /\ ~Reset
  <2>1. delay' = delay /\ sleeps' = sleeps
    BY <1>5 DEF Next, LoopStep, Refuse, Begin, DialFail, Terminated, DialOk,
         HandshakeFail, HandshakeOk, Accept, ServeReturns, StartHandlers, PeerDrop,
         SignalClose, RawClose, EndHandlers, Watch, Forget, OnceReturns,
         loopVars, vars
  <2> QED
    BY <1>2, <2>1 DEF BackoffInv
<1> QED
  BY <1>3, <1>4, <1>5

(* The inductive invariant holds in every reachable state.                 *)
THEOREM RemoteInvariant == Spec => []RemoteInv
<1>1. RemoteInv /\ [Next]_vars => RemoteInv'
  BY StepTypes, StepConns, StepBackoff DEF RemoteInv, ConnInv
<1> QED
  BY <1>1, InitRemote, PTL DEF Spec

(* The variables of the phone-home loop keep their types and the delay     *)
(* stays positive, whatever the options are.                               *)
THEOREM RemoteTypeCorrect == Spec => []TypeOK
<1>1. RemoteInv => TypeOK
  BY DEF RemoteInv
<1> QED
  BY <1>1, RemoteInvariant, PTL

(* No gRPC frame precedes the identity line on any connection.             *)
THEOREM IdentityLineIsFirst == Spec => []HandshakeFirst
<1>1. RemoteInv => HandshakeFirst
  BY DEF RemoteInv, LineInv, HandshakeFirst
<1> QED
  BY <1>1, RemoteInvariant, PTL

(* Every sleep lasts what the failures since the last connection ask for,  *)
(* for every initial delay and every cap.                                  *)
THEOREM BackoffIsExact == Spec => []BackoffFollowsFailures
<1>1. RemoteInv => BackoffFollowsFailures
  BY DEF RemoteInv, BackoffInv, Backoff, BackoffFollowsFailures
<1> QED
  BY <1>1, RemoteInvariant, PTL
-----------------------------------------------------------------------------
(* The refinement of Connections under lifeBar.                            *)

(* The loop starts with no connection, as it promises.                     *)
LEMMA InitPromised == Init => Promised!Init
BY DEF Init, Promised!Init, lifeBar

(* While the loop dials, the close of every connection has begun.          *)
LEMMA DialsWhenClosing ==
    ASSUME RemoteInv, phase = "dial"
    PROVE  \A k \in Conns : lifeBar[k] # "open"
BY DEF RemoteInv, TypeOK, LoopInv, LeftInv, CloseInv, lifeBar

(* What the adapter sees of a connection changes with the net.Conn and     *)
(* with the transport's Close of it only.                                  *)
LEMMA LifeMoves ==
    ASSUME TypeOK, NEW k \in Conns, NEW r, NEW c,
           raw' = [raw EXCEPT ![k] = r], closeCall' = [closeCall EXCEPT ![k] = c]
    PROVE  lifeBar' = [lifeBar EXCEPT ![k] = IF c = "signalled" THEN "closing" ELSE r]
BY DEF TypeOK, lifeBar

LEMMA LifeStays ==
    ASSUME raw' = raw, closeCall' = closeCall
    PROVE  lifeBar' = lifeBar
BY DEF lifeBar

(* Every step of the loop, of gRPC or of the watcher is a step of the      *)
(* promise or leaves what the adapter sees alone.                          *)
LEMMA StepPromised ==
    RemoteInv /\ [Next]_vars => [Promised!Next]_(Promised!connectionVars)
<1> SUFFICES ASSUME RemoteInv, [Next]_vars
             PROVE  Promised!Next \/ UNCHANGED Promised!connectionVars
  OBVIOUS
<1>t. TypeOK
  BY DEF RemoteInv
<1> USE DEF RemoteInv, TypeOK, LoopInv, FreshInv, Unserved, LineInv, CloseInv, LeftInv,
            connVars, loopVars, Promised!Move, Promised!connectionVars
<1>1. CASE Refuse \/ Begin \/ DialFail \/ Reset \/ Sleep
  BY <1>1 DEF Refuse, Begin, DialFail, OnceReturns, Reset, Sleep, lifeBar
<1>2. ASSUME NEW k \in Conns,
             \/ LoopStep(k) \/ StartHandlers(k) \/ PeerDrop(k) \/ SignalClose(k)
             \/ RawClose(k) \/ EndHandlers(k) \/ Watch(k) \/ Forget(k)
      PROVE  Promised!Next \/ UNCHANGED Promised!connectionVars
  <2>1. CASE DialOk(k)
    <3>1. \A j \in Conns : lifeBar[j] # "open"
      BY <2>1, DialsWhenClosing DEF DialOk
    <3>2. lifeBar[k] = "none" /\ lifeBar' = [lifeBar EXCEPT ![k] = "open"]
      <4>1. closeCall[k] = "no" /\ closeCall' = [closeCall EXCEPT ![k] = "no"]
        BY <2>1 DEF DialOk
      <4>2. raw[k] = "none" /\ raw' = [raw EXCEPT ![k] = "open"]
        BY <2>1 DEF DialOk
      <4> HIDE DEF RemoteInv, TypeOK
      <4> QED
        BY <1>t, <4>1, <4>2, LifeMoves DEF lifeBar
    <3>3. Promised!Connect(k)
      BY <2>1, <3>1, <3>2 DEF DialOk, Promised!Connect
    <3> QED
      BY <3>3 DEF Promised!Next
  <2>2. CASE HandshakeFail(k)
    <3>1. lifeBar[k] = "open" /\ lifeBar' = [lifeBar EXCEPT ![k] = "closed"]
      <4>1. closeCall[k] = "no" /\ closeCall' = [closeCall EXCEPT ![k] = "no"]
        BY <2>2 DEF HandshakeFail, closeConn
      <4>2. raw[k] = "open" /\ raw' = [raw EXCEPT ![k] = "closed"]
        BY <2>2 DEF HandshakeFail, closeConn
      <4> HIDE DEF RemoteInv, TypeOK
      <4> QED
        BY <1>t, <4>1, <4>2, LifeMoves DEF lifeBar
    <3>2. Promised!Abort(k)
      BY <2>2, <3>1 DEF HandshakeFail, closeConn, Promised!Abort
    <3> QED
      BY <3>2 DEF Promised!Next
  <2>3. CASE HandshakeOk(k) \/ Accept(k) \/ ServeReturns(k) \/ PeerDrop(k)
             \/ Watch(k)
    <3>1. raw' = raw /\ closeCall' = closeCall /\ handlers' = handlers
      BY <2>3 DEF HandshakeOk, Accept, ServeReturns, PeerDrop, Watch
    <3> QED
      BY <3>1, LifeStays
  <2>4. CASE StartHandlers(k)
    <3>1. lifeBar[k] = "open" /\ lifeBar' = lifeBar
      BY <2>4 DEF StartHandlers, lifeBar
    <3>2. Promised!StartHandlers(k)
      BY <2>4, <3>1 DEF StartHandlers, Promised!StartHandlers
    <3> QED
      BY <3>2 DEF Promised!Next
  <2>5. CASE SignalClose(k)
    <3>1. lifeBar[k] = "open" /\ lifeBar' = [lifeBar EXCEPT ![k] = "closing"]
      <4>1. raw[k] = "open" /\ raw' = [raw EXCEPT ![k] = "open"]
        BY <2>5 DEF SignalClose
      <4>2. closeCall[k] = "no" /\ closeCall' = [closeCall EXCEPT ![k] = "signalled"]
        BY <2>5 DEF SignalClose
      <4> HIDE DEF RemoteInv, TypeOK
      <4> QED
        BY <1>t, <4>1, <4>2, LifeMoves DEF lifeBar
    <3>2. Promised!BeginClose(k)
      BY <2>5, <3>1 DEF SignalClose, Promised!BeginClose
    <3> QED
      BY <3>2 DEF Promised!Next
  <2>6. CASE RawClose(k)
    <3>1. lifeBar[k] = "closing" /\ lifeBar' = [lifeBar EXCEPT ![k] = "closed"]
      BY <2>6 DEF RawClose, lifeBar
    <3>2. Promised!FinishClose(k)
      BY <2>6, <3>1 DEF RawClose, Promised!FinishClose
    <3> QED
      BY <3>2 DEF Promised!Next
  <2>7. CASE EndHandlers(k)
    <3>1. lifeBar[k] = "closed" /\ lifeBar' = lifeBar
      BY <2>7 DEF EndHandlers, lifeBar
    <3>2. Promised!EndHandlers(k)
      BY <2>7, <3>1 DEF EndHandlers, Promised!EndHandlers
    <3> QED
      BY <3>2 DEF Promised!Next
  <2>8. CASE Forget(k)
    <3>1. lifeBar[k] = "closed" /\ lifeBar' = [lifeBar EXCEPT ![k] = "none"]
      BY <2>8 DEF Forget, Gone, lifeBar
    <3>2. Promised!Release(k)
      BY <2>8, <3>1 DEF Forget, Gone, Promised!Release
    <3> QED
      BY <3>2 DEF Promised!Next
  <2> QED
    BY <1>2, <2>1, <2>2, <2>3, <2>4, <2>5, <2>6, <2>7, <2>8 DEF LoopStep
<1>3. CASE Terminated \/ UNCHANGED vars
  BY <1>3 DEF Terminated, vars, lifeBar
<1> QED
  BY <1>1, <1>2, <1>3 DEF Next

(* ServeRemote implements the safety part of its promise: one connection   *)
(* at a time, the next only once the close of the last has begun, and      *)
(* handlers started over an open connection only.                          *)
THEOREM RemoteKeepsOneConnection == Spec => Promised!Spec
<1>1. Init => Promised!Init
  BY InitPromised
<1>2. RemoteInv /\ [Next]_vars => [Promised!Next]_(Promised!connectionVars)
  BY StepPromised
<1> QED
  BY <1>1, <1>2, RemoteInvariant, PTL DEF Spec, Promised!Spec
=============================================================================
