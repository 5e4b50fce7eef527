--------------------------- MODULE LogStreamProofs ---------------------------
(***************************************************************************)
(* Theorems about LogStream for any set of logging goroutines.             *)
(***************************************************************************)
EXTENDS LogStream, TLAPS

(* The mutex has at most one holder.                                       *)
MutexInv == \A v, w \in mu : v = w

(* The context is over only because the handler returned.                  *)
ContextInv == ctx = "over" => handler = "returned"

(* Before the handler started its goroutines none of them sends.           *)
StartInv == handler = "start" => \A w \in Senders : send[w] = "unborn"

(* What is in errCh is what the implementation returned; the handler that  *)
(* waits for the context has taken a nil from it.                          *)
ResultInv ==
    /\ errCh # "empty" => errCh = impl
    /\ handler = "waitCtx" => impl = "nil"
    /\ handler = "start" <=> impl = "unborn"

LogInv ==
    /\ TypeOK /\ MutexInv /\ StartInv /\ ResultInv
    /\ ContextInv /\ StreamKeptAlive /\ HandlerSpeaksForImpl

(* The initial state satisfies the invariant.                              *)
LEMMA InitLog == Init => LogInv
BY DEF Init, LogInv, TypeOK, MutexInv, StartInv, ResultInv, ContextInv, StreamKeptAlive,
       HandlerSpeaksForImpl, Senders, CtxDone

(* Every step of the handler, the implementation, a sender or the host     *)
(* preserves the invariant.                                                *)
LEMMA StepLog == LogInv /\ [Next]_vars => LogInv'
<1> SUFFICES ASSUME LogInv, [Next]_vars PROVE LogInv'
  OBVIOUS
<1> USE DEF LogInv, TypeOK, MutexInv, StartInv, ResultInv, ContextInv, StreamKeptAlive,
            HandlerSpeaksForImpl, CtxDone, To
<1>h. Heartbeat \in Senders /\ Writers \subseteq Senders
  BY DEF Senders
<1>1. CASE Start
  <2>1. send' = [w \in Senders |-> "rest"] /\ mu' = mu /\ ctx' = ctx /\ handler' = "waitImpl"
    BY <1>1 DEF Start
  <2>2. mu = {}
    <3>1. \A w \in Senders : send[w] # "send"
      BY <1>1 DEF Start
    <3> QED
      BY <3>1
  <2> QED
    BY <1>1, <1>h, <2>1, <2>2 DEF Start
<1>2. CASE TakeImplError
  BY <1>2 DEF TakeImplError, Propagate, HandlerReturns
<1>3. CASE HandlerSeesCancel
  BY <1>3 DEF HandlerSeesCancel, HandlerReturns
<1>4. CASE ImplReturn
  BY <1>4 DEF ImplReturn
<1>5. ASSUME NEW w \in Writers, WriterLine(w) \/ WriterStop(w) \/ WriterSent(w)
      PROVE  LogInv'
  <2>1. w # Heartbeat
    BY WritersAssumption
  <2>2. CASE WriterLine(w)
    BY <1>h, <2>1, <2>2 DEF WriterLine
  <2>3. CASE WriterStop(w)
    BY <1>h, <2>1, <2>3 DEF WriterStop
  <2>4. CASE WriterSent(w)
    BY <1>h, <2>1, <2>4 DEF WriterSent
  <2> QED
    BY <1>5, <2>2, <2>3, <2>4
<1>6. ASSUME NEW w \in Senders, Lock(w)
      PROVE  LogInv'
  BY <1>h, <1>6 DEF Lock, Unlocked
<1>7. CASE HbTick
  BY <1>h, <1>7 DEF HbTick
<1>8. CASE HbStop
  BY <1>h, <1>8 DEF HbStop
<1>9. CASE HbSent
  BY <1>h, <1>9 DEF HbSent
<1>10. CASE HostCancel
  BY <1>10 DEF HostCancel
<1>11. CASE Terminated \/ UNCHANGED vars
  BY <1>11 DEF Terminated, vars
<1> QED
  BY <1>1, <1>2, <1>3, <1>4, <1>5, <1>6, <1>7, <1>8, <1>9, <1>10, <1>11
  DEF Next, HandlerStep

(* The inductive invariant holds in every reachable state.                 *)
THEOREM LogInvariant == Spec => []LogInv
BY InitLog, StepLog, PTL DEF Spec

(* The variables of a Log stream and its senders keep their types, however *)
(* many goroutines the adapter logs from.                                  *)
THEOREM LogTypeCorrect == Spec => []TypeOK
<1>1. LogInv => TypeOK
  BY DEF LogInv
<1> QED
  BY <1>1, LogInvariant, PTL

(* No two goroutines are ever inside ServerStream.Send at once, however    *)
(* many goroutines the adapter logs from.                                  *)
THEOREM SendsAreSerial == Spec => []SerialSends
<1>1. LogInv => SerialSends
  BY DEF LogInv, TypeOK, MutexInv, SerialSends
<1> QED
  BY <1>1, LogInvariant, PTL

(* The stream ends only when the host tears it down or the implementation  *)
(* reports an error.                                                       *)
THEOREM StreamStaysAlive == Spec => []StreamKeptAlive
<1>1. LogInv => StreamKeptAlive
  BY DEF LogInv
<1> QED
  BY <1>1, LogInvariant, PTL

(* The handler returns only after the adapter's Log has returned, and with *)
(* exactly what that returned.                                             *)
THEOREM HandlerReportsImpl == Spec => []HandlerSpeaksForImpl
<1>1. LogInv => HandlerSpeaksForImpl
  BY DEF LogInv
<1> QED
  BY <1>1, LogInvariant, PTL
=============================================================================
