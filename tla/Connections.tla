----------------------------- MODULE Connections -----------------------------
(***************************************************************************)
(* What ServeRemote (adapterhost/serve_remote.go) promises the adapter it  *)
(* serves, without the loop, the handshake, the listener and the watcher:  *)
(* it keeps one connection at a time.  The next one is made only once the  *)
(* close of the last has begun, but while handlers of the last may still   *)
(* run, and several connections may be in that state.  Handlers are        *)
(* started over an open connection only; those of a closed connection are  *)
(* cancelled and return.                                                   *)
(***************************************************************************)
CONSTANT Conns

VARIABLES
    life,      \* "none", "open", "closing", "closed"
    handlers   \* of RPCs over the connection: "none", "running", "ended"

connectionVars == <<life, handlers>>

Init ==
    /\ life = [k \in Conns |-> "none"]
    /\ handlers = [k \in Conns |-> "none"]

Move(k, from, to) ==
    /\ life[k] = from
    /\ life' = [life EXCEPT ![k] = to]
    /\ UNCHANGED handlers

Connect(k) == (\A j \in Conns : life[j] # "open") /\ Move(k, "none", "open")

(* The connection could not be used.                                       *)
Abort(k) == handlers[k] = "none" /\ Move(k, "open", "closed")

StartHandlers(k) ==
    /\ life[k] = "open" /\ handlers[k] = "none"
    /\ handlers' = [handlers EXCEPT ![k] = "running"]
    /\ UNCHANGED life

BeginClose(k)  == Move(k, "open", "closing")
FinishClose(k) == Move(k, "closing", "closed")

EndHandlers(k) ==
    /\ life[k] = "closed" /\ handlers[k] = "running"
    /\ handlers' = [handlers EXCEPT ![k] = "ended"]
    /\ UNCHANGED life

Release(k) ==
    /\ life[k] = "closed" /\ handlers[k] # "running"
    /\ life' = [life EXCEPT ![k] = "none"]
    /\ handlers' = [handlers EXCEPT ![k] = "none"]

Next ==
    \E k \in Conns :
        \/ Connect(k) \/ Abort(k) \/ StartHandlers(k) \/ BeginClose(k) \/ FinishClose(k)
        \/ EndHandlers(k) \/ Release(k)

Spec == Init /\ [][Next]_connectionVars

FairSpec ==
    Spec /\ \A k \in Conns :
                WF_connectionVars(FinishClose(k)) /\ WF_connectionVars(EndHandlers(k))
=============================================================================
