------------------------------ MODULE LogStream ------------------------------
(***************************************************************************)
(* One Log stream of the gRPC bridge (adapterhost/serve.go).  The handler  *)
(* grpcAdapterServer.Log starts the heartbeat that keeps the host from     *)
(* declaring an idle session crashed, and the adapter's own Log, which may *)
(* log from several goroutines (Writers).  All of them write to the stream *)
(* through one grpcLogEventServer, whose mutex serialises them, because    *)
(* ServerStream.Send is not goroutine-safe.                                *)
(***************************************************************************)
CONSTANTS
    Writers,   \* the goroutines the adapter logs from
    Heartbeat  \* the heartbeat goroutine, not one of them

ASSUME WritersAssumption == Heartbeat \notin Writers

VARIABLES
    ctx,      \* the stream context: "live", "cancelled" by the host, or "over"
              \* because the handler returned
    handler,  \* "start", "waitImpl", "waitCtx", "returned"
    result,   \* what the handler returned: "none", "nil", "err"
    impl,     \* the adapter's Log: "unborn", "run", or what it returned, "nil"
              \* or "err"
    errCh,    \* the buffered channel from impl.Log: "empty", "nil", "err"
    send,     \* where each sender is: "unborn", "rest", "lock", "send", "stopped"
    mu        \* the holders of grpcLogEventServer.mu

vars == <<ctx, handler, result, impl, errCh, send, mu>>

Senders == Writers \cup {Heartbeat}

CtxDone == ctx # "live"

Init ==
    /\ ctx = "live"
    /\ handler = "start"
    /\ result = "none"
    /\ impl = "unborn"
    /\ errCh = "empty"
    /\ send = [w \in Senders |-> "unborn"]
    /\ mu = {}

-----------------------------------------------------------------------------
(* The handler.                                                            *)

(* Start the heartbeat on the stream context, then the implementation.     *)
Start ==
    /\ handler = "start"
    /\ handler' = "waitImpl"
    /\ impl' = "run"
    /\ send' = [w \in Senders |-> "rest"]
    /\ UNCHANGED <<ctx, result, errCh, mu>>

(* The stream context ends when the handler returns.                       *)
HandlerReturns(value) ==
    /\ handler' = "returned"
    /\ result' = value
    /\ ctx' = IF CtxDone THEN ctx ELSE "over"

PropagateAll == TRUE    \* mutant: a nil return of the implementation ends the stream
PropagateNone == FALSE    \* mutant: the implementation's error is not looked at

Propagate == errCh = "err"

TakeImplErrorPolls ==    \* mutant: polls errCh and never turns to the context
    /\ handler = "waitImpl"
    /\ errCh' = "empty"
    /\ \/ Propagate /\ HandlerReturns(errCh)
       \/ ~Propagate /\ UNCHANGED <<handler, ctx, result>>
    /\ UNCHANGED <<impl, send, mu>>

(* Receive from errCh: an error is propagated, nil keeps the stream open.  *)
TakeImplError ==
    /\ handler = "waitImpl"
    /\ errCh # "empty"
    /\ errCh' = "empty"
    /\ \/ Propagate /\ HandlerReturns(errCh)
       \/ ~Propagate /\ handler' = "waitCtx" /\ UNCHANGED <<ctx, result>>
    /\ UNCHANGED <<impl, send, mu>>

HandlerSeesCancelEarly ==    \* mutant: selects on the context and errCh at once
    /\ handler \in {"waitImpl", "waitCtx"}
    /\ CtxDone
    /\ HandlerReturns("nil")
    /\ UNCHANGED <<impl, errCh, send, mu>>

(* The host tore the stream down.                                          *)
HandlerSeesCancel ==
    /\ handler = "waitCtx"
    /\ CtxDone
    /\ HandlerReturns("nil")
    /\ UNCHANGED <<impl, errCh, send, mu>>

-----------------------------------------------------------------------------
(* The adapter's Log: its goroutines log any number of lines, even after   *)
(* it has returned.                                                        *)

ImplReturn ==
    /\ impl = "run"
    /\ impl' \in {"nil", "err"}
    /\ errCh' = impl'
    /\ UNCHANGED <<ctx, handler, result, send, mu>>

To(w, place) == send' = [send EXCEPT ![w] = place]

WriterLine(w) ==
    /\ send[w] = "rest"
    /\ To(w, "lock")
    /\ UNCHANGED <<ctx, handler, result, impl, errCh, mu>>

WriterStop(w) ==
    /\ send[w] = "rest"
    /\ To(w, "stopped")
    /\ UNCHANGED <<ctx, handler, result, impl, errCh, mu>>

Unguarded == TRUE    \* mutant: sends on the raw stream

Unlocked == mu = {}

(* grpcLogEventServer.Send takes the mutex ...                             *)
Lock(w) ==
    /\ send[w] = "lock"
    /\ Unlocked
    /\ mu' = mu \cup {w}
    /\ To(w, "send")
    /\ UNCHANGED <<ctx, handler, result, impl, errCh>>

WriterSentKeepsLock(w) ==    \* mutant: a Send that fails returns without unlocking
    /\ send[w] = "send"
    /\ mu' = IF CtxDone THEN mu ELSE mu \ {w}
    /\ To(w, "rest")
    /\ UNCHANGED <<ctx, handler, result, impl, errCh>>

(* ... and releases it when stream.Send returns; the adapter may or may    *)
(* not go on after an error, which is an error for good: the context ended.*)
WriterSent(w) ==
    /\ send[w] = "send"
    /\ mu' = mu \ {w}
    /\ To(w, "rest")
    /\ UNCHANGED <<ctx, handler, result, impl, errCh>>

-----------------------------------------------------------------------------
(* The heartbeat: v2.RunHeartbeat ticks until the context it was given,    *)
(* the stream's, is done or a send fails.                                  *)

HbTickTryLock ==    \* mutant: skips a beat while another send is in progress
    /\ send[Heartbeat] = "rest"
    /\ mu = {}
    /\ To(Heartbeat, "lock")
    /\ UNCHANGED <<ctx, handler, result, impl, errCh, mu>>

HbTick ==
    /\ send[Heartbeat] = "rest"
    /\ To(Heartbeat, "lock")
    /\ UNCHANGED <<ctx, handler, result, impl, errCh, mu>>

HbStop ==
    /\ send[Heartbeat] = "rest"
    /\ CtxDone
    /\ To(Heartbeat, "stopped")
    /\ UNCHANGED <<ctx, handler, result, impl, errCh, mu>>

(* The heartbeat went out, or the send failed because the context ended.   *)
HbSent ==
    /\ send[Heartbeat] = "send"
    /\ mu' = mu \ {Heartbeat}
    /\ \/ To(Heartbeat, "rest")
       \/ CtxDone /\ To(Heartbeat, "stopped")
    /\ UNCHANGED <<ctx, handler, result, impl, errCh>>

-----------------------------------------------------------------------------
(* The host tears the stream down, or the connection breaks.               *)
HostCancel ==
    /\ ctx = "live"
    /\ ctx' = "cancelled"
    /\ UNCHANGED <<handler, result, impl, errCh, send, mu>>

(* Everyone has left.                                                      *)
Terminated ==
    /\ handler = "returned"
    /\ impl \in {"nil", "err"}
    /\ \A w \in Senders : send[w] = "stopped"
    /\ UNCHANGED vars

HandlerStep == Start \/ TakeImplError \/ HandlerSeesCancel

Next ==
    \/ HandlerStep \/ ImplReturn
    \/ \E w \in Writers : WriterLine(w) \/ WriterStop(w) \/ WriterSent(w)
    \/ \E w \in Senders : Lock(w)
    \/ HbTick \/ HbStop \/ HbSent
    \/ HostCancel \/ Terminated

Spec == Init /\ [][Next]_vars

(* The handler and the heartbeat run when they can.  A waiter on a Go      *)
(* mutex is not starved, hence the strong fairness on the lock; a Send     *)
(* returns because the host drains the stream or the context ends.  Of two *)
(* ready branches select takes each again and again.  The implementation   *)
(* may log for ever on a live context, but it respects cancellation: it    *)
(* returns and its goroutines stop once the context is done.               *)
Fairness ==
    /\ WF_vars(HandlerStep)
    /\ WF_vars(HbTick) /\ SF_vars(HbStop) /\ WF_vars(HbSent)
    /\ \A w \in Senders : SF_vars(Lock(w))
    /\ \A w \in Writers : WF_vars(WriterSent(w)) /\ SF_vars(WriterStop(w) /\ CtxDone)
    /\ WF_vars(ImplReturn /\ CtxDone)

FairSpec == Spec /\ Fairness

-----------------------------------------------------------------------------
(* The variables have their types, and grpcLogEventServer's mutex is held  *)
(* by exactly the goroutines that are inside stream.Send: no return from   *)
(* Send keeps it.                                                          *)
TypeOK ==
    /\ ctx \in {"live", "cancelled", "over"}
    /\ handler \in {"start", "waitImpl", "waitCtx", "returned"}
    /\ result \in {"none", "nil", "err"}
    /\ impl \in {"unborn", "run", "nil", "err"}
    /\ errCh \in {"empty", "nil", "err"}
    /\ send \in [Senders -> {"unborn", "rest", "lock", "send", "stopped"}]
    /\ mu = {w \in Senders : send[w] = "send"}

(* No two goroutines are inside ServerStream.Send at once, on an open      *)
(* stream or on one whose handler has returned.                            *)
SerialSends ==
    \A v, w \in Senders : send[v] = "send" /\ send[w] = "send" => v = w

(* The SDK owns the stream: it ends only when the host tears it down or    *)
(* the implementation reports an error, never because the implementation   *)
(* had nothing more to log.                                                *)
StreamKeptAlive ==
    handler = "returned" => ctx = "cancelled" \/ result = "err"

(* The handler speaks for the implementation: it never returns while the   *)
(* adapter's Log still runs on its stream, it returns the error Log        *)
(* returned, even when the host tears the stream down at the same moment,  *)
(* and a teardown after a nil return is not reported as an error.          *)
HandlerSpeaksForImpl == handler = "returned" => result = impl

(* While the stream is open heartbeats keep reaching the host, even when   *)
(* the implementation logs without pause.                                  *)
HeartbeatsContinue ==
    send[Heartbeat] = "rest" ~> (send[Heartbeat] = "send" \/ CtxDone)

(* Once the stream's context ends every goroutine of it ends.              *)
TeardownCompletes == CtxDone /\ handler # "start" ~> handler = "returned" /\ send[Heartbeat] = "stopped"

(* An error of the implementation ends the stream with that error.         *)
ErrorPropagated == errCh = "err" ~> result = "err"
=============================================================================
