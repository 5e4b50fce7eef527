----------------------------- MODULE ServeRemote -----------------------------
(***************************************************************************)
(* The phone-home loop (adapterhost/serve_remote.go): dial the host, send  *)
(* the identity line, serve gRPC on that one connection until it closes,   *)
(* and, with Reconnect, sleep and redial.                                  *)
(*                                                                         *)
(* Each connection has its own goroutines next to the loop: the gRPC       *)
(* server's accept loop on singleConnListener, its transport, the RPC      *)
(* handlers it runs on the adapter, and the watcher that turns the close   *)
(* of the connection into the close of the listener.  They may outlive the *)
(* turn of the loop that started them, so a connection occupies one of the *)
(* slots Conns until the last of them is gone.                             *)
(***************************************************************************)
EXTENDS Integers

CONSTANTS
    Conns,          \* slots for connections whose goroutines are alive
    Options,        \* the ServeRemoteOptions to run under; a delay that is not
                    \* positive stands for the default
    DefaultInitial, \* 1s
    DefaultMax,     \* 30s
    MaxSleeps       \* where the count of sleeps since the last connection saturates

(* Delays are int64 nanoseconds; doubling one of less than 2^62 of them    *)
(* (146 years) does not overflow, and no larger one is considered.         *)
ASSUME OptionsAssumption ==
    Options \subseteq [reconnect : BOOLEAN, initialDelay : Int, maxDelay : Int]
ASSUME DefaultsAssumption == DefaultInitial \in Nat \ {0} /\ DefaultMax \in Nat \ {0}
ASSUME SleepsAssumption == MaxSleeps \in Nat \ {0}

VARIABLES
    opts,      \* the options ServeRemote was called with
    phase,     \* the loop: "start", "dial", "handshake", "serve", "loop",
               \* "sleep" or "returned"
    conn,      \* the slot of the connection the loop is on, as a set of at most one
    connected, \* what serveRemoteOnce reported
    delay,     \* the next backoff
    sleeps,    \* sleeps since a connection was last established (history)
    \* per connection
    raw,       \* the net.Conn: "none", "open", "closed"
    peerGone,  \* connections whose peer has dropped
    wire,      \* what the adapter wrote first: "nothing", "handshake", "grpc"
    doneCh,    \* connections whose closeSignalConn.doneCh is closed
    closeCall, \* the transport's Close of the connection: "no", "signalled", "done"
    used,      \* the listeners whose connection was accepted
    lisClosed, \* connections whose singleConnListener.closed is closed
    watcher,   \* "none", "waiting", "exited"
    handlers   \* RPC handlers running on the adapter: "none", "running", "ended"

loopVars == <<opts, phase, conn, connected, delay, sleeps>>
connVars == <<raw, peerGone, wire, doneCh, closeCall, used, lisClosed, watcher, handlers>>
vars     == <<loopVars, connVars>>

initialUnchecked == opts.initialDelay    \* mutant: no default

initial == IF opts.initialDelay <= 0 THEN DefaultInitial ELSE opts.initialDelay
cap     == IF opts.maxDelay <= 0 THEN DefaultMax ELSE opts.maxDelay

Init ==
    /\ opts \in Options
    /\ phase = "start"
    /\ conn = {}
    /\ connected = FALSE
    /\ delay = initial
    /\ sleeps = 0
    /\ raw = [k \in Conns |-> "none"]
    /\ peerGone = {}
    /\ wire = [k \in Conns |-> "nothing"]
    /\ doneCh = {}
    /\ closeCall = [k \in Conns |-> "no"]
    /\ used = {}
    /\ lisClosed = {}
    /\ watcher = [k \in Conns |-> "none"]
    /\ handlers = [k \in Conns |-> "none"]

-----------------------------------------------------------------------------
(* The loop.                                                               *)

(* Missing options or host.                                                *)
Refuse ==
    /\ phase = "start"
    /\ phase' = "returned"
    /\ UNCHANGED <<opts, conn, connected, delay, sleeps, connVars>>

Begin ==
    /\ phase = "start"
    /\ phase' = "dial"
    /\ UNCHANGED <<opts, conn, connected, delay, sleeps, connVars>>

(* serveRemoteOnce returns: to the loop, or from ServeRemote.              *)
OnceReturns(ok) ==
    /\ phase' = IF opts.reconnect THEN "loop" ELSE "returned"
    /\ connected' = ok
    /\ conn' = {}
    /\ UNCHANGED <<opts, delay, sleeps>>

DialFail ==
    /\ phase = "dial"
    /\ OnceReturns(FALSE)
    /\ UNCHANGED connVars

DialOk(k) ==
    /\ phase = "dial"
    /\ raw[k] = "none"
    /\ phase' = "handshake"
    /\ conn' = {k}
    /\ raw' = [raw EXCEPT ![k] = "open"]
    /\ UNCHANGED <<opts, connected, delay, sleeps, peerGone, wire, doneCh, closeCall,
                   used, lisClosed, watcher, handlers>>

closeNothing(k) == UNCHANGED raw    \* mutant: the error path forgets the connection

closeConn(k) == raw' = [raw EXCEPT ![k] = "closed"]

(* conn.Write failed: close the bare connection.                           *)
HandshakeFail(k) ==
    /\ phase = "handshake"
    /\ k \in conn
    /\ closeConn(k)
    /\ OnceReturns(FALSE)
    /\ UNCHANGED <<peerGone, wire, doneCh, closeCall, used, lisClosed, watcher, handlers>>

Wrote(k, what) == wire' = [wire EXCEPT ![k] = IF @ = "nothing" THEN what ELSE @]

sendNothing(k) == UNCHANGED wire    \* mutant

sendHandshake(k) == Wrote(k, "handshake")

WatchNobody(k) == UNCHANGED watcher    \* mutant: no goroutine waits for the close

StartWatcher(k) == watcher' = [watcher EXCEPT ![k] = "waiting"]

(* The line is written; wrap the connection, start the watcher and Serve.  *)
HandshakeOk(k) ==
    /\ phase = "handshake"
    /\ k \in conn
    /\ sendHandshake(k)
    /\ phase' = "serve"
    /\ StartWatcher(k)
    /\ UNCHANGED <<opts, conn, connected, delay, sleeps, raw, peerGone, doneCh,
                   closeCall, used, lisClosed, handlers>>

(* singleConnListener.Close, under its mutex: a second call finds the      *)
(* channel closed and changes nothing.                                     *)
CloseListener(k) == lisClosed' = lisClosed \cup {k}

AcceptFailsAtOnce(k) == TRUE    \* mutant

AcceptFails(k) == k \in lisClosed

(* The second Accept of grpc.Server.Serve fails once the listener is       *)
(* closed; Serve closes the listener again on its way out, and waits       *)
(* neither for the transport nor for the handlers.                         *)
ServeReturns(k) ==
    /\ phase = "serve"
    /\ k \in conn /\ k \in used
    /\ AcceptFails(k)
    /\ CloseListener(k)
    /\ OnceReturns(TRUE)
    /\ UNCHANGED <<raw, peerGone, wire, doneCh, closeCall, used, watcher, handlers>>

NeverReset == delay    \* mutant

ResetDelay == IF connected THEN initial ELSE delay

(* An established connection resets the backoff.                           *)
Reset ==
    /\ phase = "loop"
    /\ phase' = "sleep"
    /\ delay' = ResetDelay
    /\ sleeps' = IF connected THEN 0 ELSE sleeps
    /\ UNCHANGED <<opts, conn, connected, connVars>>

Double(d) == IF 2 * d > cap THEN cap ELSE 2 * d

GiveUp == IF delay = cap THEN "returned" ELSE "dial"    \* mutant: ends at the cap

AfterSleep == "dial"

(* Sleep for delay, then double it up to the cap.                          *)
Sleep ==
    /\ phase = "sleep"
    /\ phase' = AfterSleep
    /\ delay' = Double(delay)
    /\ sleeps' = IF sleeps < MaxSleeps THEN sleeps + 1 ELSE sleeps
    /\ UNCHANGED <<opts, conn, connected, connVars>>

-----------------------------------------------------------------------------
(* The gRPC server on one connection, as serve_remote.go relies on it.     *)

(* The first Accept hands the connection to a transport, which writes its  *)
(* settings frame.                                                         *)
Accept(k) ==
    /\ phase = "serve"
    /\ k \in conn /\ k \notin used
    /\ used' = used \cup {k}
    /\ Wrote(k, "grpc")
    /\ UNCHANGED <<loopVars, raw, peerGone, doneCh, closeCall, lisClosed, watcher, handlers>>

(* The host opens a stream; its handler runs on the adapter.               *)
StartHandlers(k) ==
    /\ k \in used
    /\ closeCall[k] = "no"
    /\ handlers[k] = "none"
    /\ handlers' = [handlers EXCEPT ![k] = "running"]
    /\ UNCHANGED <<loopVars, raw, peerGone, wire, doneCh, closeCall, used, lisClosed, watcher>>

(* The peer drops the connection.                                          *)
PeerDrop(k) ==
    /\ raw[k] = "open"
    /\ k \notin peerGone
    /\ peerGone' = peerGone \cup {k}
    /\ UNCHANGED <<loopVars, raw, wire, doneCh, closeCall, used, lisClosed, watcher, handlers>>

(* The transport closes the connection: it read an error, or the host's    *)
(* first frames were no HTTP/2.  closeSignalConn.Close signals doneCh      *)
(* (sync.Once makes a second Close harmless) ...                           *)
SignalClose(k) ==
    /\ k \in used
    /\ closeCall[k] = "no"
    /\ closeCall' = [closeCall EXCEPT ![k] = "signalled"]
    /\ doneCh' = doneCh \cup {k}
    /\ UNCHANGED <<loopVars, raw, peerGone, wire, used, lisClosed, watcher, handlers>>

(* ... and then closes the net.Conn.                                       *)
RawClose(k) ==
    /\ closeCall[k] = "signalled"
    /\ closeCall' = [closeCall EXCEPT ![k] = "done"]
    /\ raw' = [raw EXCEPT ![k] = "closed"]
    /\ UNCHANGED <<loopVars, peerGone, wire, doneCh, used, lisClosed, watcher, handlers>>

(* After the connection is closed the transport cancels its streams, and   *)
(* their handlers return.                                                  *)
EndHandlers(k) ==
    /\ closeCall[k] = "done"
    /\ handlers[k] = "running"
    /\ handlers' = [handlers EXCEPT ![k] = "ended"]
    /\ UNCHANGED <<loopVars, raw, peerGone, wire, doneCh, closeCall, used, lisClosed, watcher>>

(* The watcher goroutine of serveRemoteOnce.                               *)
Watch(k) ==
    /\ watcher[k] = "waiting"
    /\ k \in doneCh
    /\ watcher' = [watcher EXCEPT ![k] = "exited"]
    /\ CloseListener(k)
    /\ UNCHANGED <<loopVars, raw, peerGone, wire, doneCh, closeCall, used, handlers>>

(* Nothing of the connection is left; its slot can be reused.              *)
Gone(k) ==
    /\ raw[k] = "closed"
    /\ k \notin conn
    /\ watcher[k] \in {"none", "exited"}
    /\ handlers[k] # "running"

Forget(k) ==
    /\ Gone(k)
    /\ raw' = [raw EXCEPT ![k] = "none"]
    /\ peerGone' = peerGone \ {k}
    /\ wire' = [wire EXCEPT ![k] = "nothing"]
    /\ doneCh' = doneCh \ {k}
    /\ closeCall' = [closeCall EXCEPT ![k] = "no"]
    /\ used' = used \ {k}
    /\ lisClosed' = lisClosed \ {k}
    /\ watcher' = [watcher EXCEPT ![k] = "none"]
    /\ handlers' = [handlers EXCEPT ![k] = "none"]
    /\ UNCHANGED loopVars

-----------------------------------------------------------------------------
LoopStep(k) ==
    \/ DialOk(k) \/ HandshakeFail(k) \/ HandshakeOk(k) \/ Accept(k) \/ ServeReturns(k)

(* ServeRemote returned and its connections are gone.                      *)
Terminated ==
    /\ phase = "returned"
    /\ \A k \in Conns : raw[k] = "none"
    /\ UNCHANGED vars

Next ==
    \/ Refuse \/ Begin \/ DialFail \/ Reset \/ Sleep
    \/ \E k \in Conns :
         \/ LoopStep(k) \/ StartHandlers(k) \/ PeerDrop(k) \/ SignalClose(k)
         \/ RawClose(k) \/ EndHandlers(k) \/ Watch(k) \/ Forget(k)
    \/ Terminated

Spec == Init /\ [][Next]_vars

(* The loop's goroutine, the watcher and gRPC's transport run when they    *)
(* can; the transport reads an error from a connection whose peer is gone; *)
(* handlers return once cancelled.  Nothing is assumed of the host: dials  *)
(* may fail for ever, a dial or the write of the identity line may block   *)
(* for ever, and an idle connection may stay for ever.                     *)
Fairness ==
    /\ WF_vars(Reset) /\ WF_vars(Sleep)
    /\ \A k \in Conns :
         /\ WF_vars(Accept(k) \/ ServeReturns(k))
         /\ WF_vars(Watch(k)) /\ WF_vars(RawClose(k)) /\ WF_vars(EndHandlers(k))
         /\ WF_vars(SignalClose(k) /\ k \in peerGone) /\ WF_vars(Forget(k))

FairSpec == Spec /\ Fairness

-----------------------------------------------------------------------------
(* The variables have their types; a delay is positive, so that the loop   *)
(* never spins on a host that refuses connections.                         *)
TypeOK ==
    /\ opts \in Options
    /\ phase \in {"start", "dial", "handshake", "serve", "loop", "sleep", "returned"}
    /\ conn \in SUBSET Conns
    /\ connected \in BOOLEAN
    /\ delay \in Nat \ {0}
    /\ sleeps \in 0..MaxSleeps
    /\ raw \in [Conns -> {"none", "open", "closed"}]
    /\ peerGone \subseteq Conns
    /\ wire \in [Conns -> {"nothing", "handshake", "grpc"}]
    /\ doneCh \subseteq Conns
    /\ closeCall \in [Conns -> {"no", "signalled", "done"}]
    /\ used \subseteq Conns
    /\ lisClosed \subseteq Conns
    /\ watcher \in [Conns -> {"none", "waiting", "exited"}]
    /\ handlers \in [Conns -> {"none", "running", "ended"}]

(* The first bytes on a connection are the identity line: no gRPC frame    *)
(* reaches the host before it.                                             *)
HandshakeFirst == \A k \in Conns : wire[k] # "grpc"

(* The connections as the adapter sees them.                               *)
lifeBar ==
    [k \in Conns |-> IF closeCall[k] = "signalled" THEN "closing" ELSE raw[k]]
Promised == INSTANCE Connections WITH life <- lifeBar

(* ServeRemote keeps its promise: whatever way a connection ends, the loop *)
(* redials only once its close has begun, its close is completed, and      *)
(* handlers are started over an open connection only                       *)
(* (serve_remote.go:104-128, 209-212).                                     *)
KeepsOneConnection == Promised!FairSpec

(* The n-th sleep after a connection lasts initial * 2^n, capped: the      *)
(* sleeps of failed dials grow, and one established connection resets them.*)
(* (Exact below the saturation of the count.)                              *)
BackoffFollowsFailures ==
    phase = "sleep" /\ sleeps < MaxSleeps =>
        delay = IF sleeps = 0 THEN initial
                ELSE IF initial * 2^sleeps > cap THEN cap ELSE initial * 2^sleeps

(* A connection the peer drops does not hold ServeRemote up: the loop      *)
(* leaves it.                                                              *)
DropEndsServe ==
    \A k \in Conns : (phase = "serve" /\ k \in conn /\ k \in peerGone) ~> k \notin conn

(* A connection the loop has left, after a failed handshake or because     *)
(* Serve returned, leaves nothing behind in a process that redials for     *)
(* ever: its net.Conn is closed, its watcher ends and its handlers return, *)
(* even while the next connection is served.                               *)
ConnectionsReleased ==
    \A k \in Conns : (raw[k] # "none" /\ k \notin conn) ~> raw[k] = "none"

(* With Reconnect the loop never gives up: after every failure it dials    *)
(* again.                                                                  *)
KeepsRedialling == phase \in {"loop", "sleep"} ~> phase = "dial"

-----------------------------------------------------------------------------
(* What a comment of serve_remote.go says and the code does not do: no     *)
(* sleep is longer than MaxDelay.                                          *)
DelayWithinMax == phase = "sleep" => delay <= cap
=============================================================================
