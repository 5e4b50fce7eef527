-------------------------- MODULE ConcurrentExecute --------------------------
(***************************************************************************)
(* The concurrent-Execute conformance case and the adapter under test      *)
(* (adapterhost/conformance.go, specService.Execute in adapterhost/spec.go)*)
(*                                                                         *)
(* RunConcurrentExecuteConformance checks its script, hosts the adapter on *)
(* a loopback server, opens one session and drives every call of Calls     *)
(* concurrently on a stream of its own; when all have ended it judges each *)
(* call by the result its own stream delivered.                            *)
(*                                                                         *)
(* The adapter answers a call through the spec tier, whose author function *)
(* may return any result of the script (its own, or a sibling's through    *)
(* shared state), none, or an error.  On the calls in Custom the adapter   *)
(* is a hand-written Service that may send any of CustomMessages.          *)
(***************************************************************************)
EXTENDS ExecuteResults, FiniteSets

CONSTANTS
    Calls,          \* the concurrent calls
    MinCalls,       \* minConcurrentExecuteCalls
    Scripts,        \* the expected results a script may give, per call
    Custom,         \* calls answered by a hand-written Service
    CustomMessages, \* the messages such a Service may send
    MaxMessages,    \* bound on the messages it sends on one stream
    ChunkSize       \* spec.MaxChunkBytes

ASSUME CallsAssumption == IsFiniteSet(Calls) /\ Custom \subseteq Calls
ASSUME SizesAssumption ==
    MinCalls \in Nat \ {0} /\ MaxMessages \in Nat /\ ChunkSize \in Nat \ {0}
ASSUME ScriptsAssumption == \A w \in Scripts : \A c \in Calls : IsResult(w[c])
ASSUME MessagesAssumption == \A m \in CustomMessages : IsMessage(m)

VARIABLES
    \* the conformance case
    runner,    \* "start", "connect", "open", "drive", "pass", "fail"
    wants,     \* the expected result of each call
    held,      \* what the case has open: "listener", "server", "client"
    driver,    \* each driver goroutine: "idle", "recv", "err", "ok"
    got,       \* the result it joined
    cut,       \* the calls that ended on the client's side, whatever the adapter did
    \* the adapter
    handler,   \* Execute of each call: "idle", "run", "sending", "nil", "err"
    author,    \* what the author's function returned on the spec tier
    todo,      \* the messages Execute has still to send
    stream     \* the messages each stream carried

runnerVars  == <<runner, wants, held>>
driverVars  == <<driver, got, cut>>
adapterVars == <<handler, author, todo, stream>>
vars        == <<runnerVars, driverVars, adapterVars>>

NoResult == Result("none", <<>>)
Undecided == {"idle", "recv"}

Init ==
    /\ runner = "start"
    /\ wants \in Scripts
    /\ held = {}
    /\ driver = [c \in Calls |-> "idle"]
    /\ got = [c \in Calls |-> NoResult]
    /\ cut = {}
    /\ handler = [c \in Calls |-> "idle"]
    /\ author = [c \in Calls |-> NoResult]
    /\ todo = [c \in Calls |-> <<>>]
    /\ stream = [c \in Calls |-> <<>>]

-----------------------------------------------------------------------------
(* The conformance case.                                                   *)

(* verifyDistinctResults                                                   *)
Distinct == \A c, d \in Calls : SameExecuteResult(wants[c], wants[d]) => c = d

(* A script the case cannot use, or no loopback listener.                  *)
Refuse ==
    /\ runner = "start"
    /\ runner' = "fail"
    /\ UNCHANGED <<wants, held, driverVars, adapterVars>>

(* serveAdapterOnLoopback: listen, and serve the adapter in a goroutine.   *)
Listen ==
    /\ runner = "start"
    /\ Cardinality(Calls) >= MinCalls
    /\ Distinct
    /\ runner' = "connect"
    /\ held' = held \cup {"listener", "server"}
    /\ UNCHANGED <<wants, driverVars, adapterVars>>

leaveServer == UNCHANGED held    \* mutant: the error path forgets the server

stopServer == held' = held \ {"listener", "server"}

(* grpc.NewClient fails with the server already running: there is no stop  *)
(* function yet, so the error path stops it.                               *)
NewClientFails ==
    /\ runner = "connect"
    /\ runner' = "fail"
    /\ stopServer
    /\ UNCHANGED <<wants, driverVars, adapterVars>>

NewClientOk ==
    /\ runner = "connect"
    /\ runner' = "open"
    /\ held' = held \cup {"client"}
    /\ UNCHANGED <<wants, driverVars, adapterVars>>

(* The stop function of serveAdapterOnLoopback.                            *)
stop == held' = held \ {"client", "listener", "server"}

(* OpenSession fails or times out; the deferred stop runs.                 *)
OpenFail ==
    /\ runner = "open"
    /\ runner' = "fail"
    /\ stop
    /\ UNCHANGED <<wants, driverVars, adapterVars>>

OpenOk ==
    /\ runner = "open"
    /\ runner' = "drive"
    /\ UNCHANGED <<wants, held, driverVars, adapterVars>>

JudgeAsSet ==    \* mutant: compares the results of all calls, not call by call
    \A c \in Calls : driver[c] = "ok" /\ \E d \in Calls : SameExecuteResult(got[c], wants[d])

(* Every call got the result the script expects of it.                     *)
Judge == \A c \in Calls : driver[c] = "ok" /\ SameExecuteResult(got[c], wants[c])

(* wg.Wait, then the verdict; the deferred stop runs.                      *)
Verdict ==
    /\ runner = "drive"
    /\ \A c \in Calls : driver[c] \notin Undecided
    /\ runner' = IF Judge THEN "pass" ELSE "fail"
    /\ stop
    /\ UNCHANGED <<wants, driverVars, adapterVars>>

-----------------------------------------------------------------------------
(* driveConformanceExecute, one goroutine per call.                        *)

StartCall(c) ==
    /\ runner = "drive"
    /\ driver[c] = "idle"
    /\ driver' = [driver EXCEPT ![c] = "recv"]
    /\ handler' = [handler EXCEPT ![c] = "run"]
    /\ UNCHANGED <<runnerVars, got, cut, author, todo, stream>>

(* Recv reports EOF: everything the stream carried is joined.              *)
StreamEnds(c) ==
    /\ driver[c] = "recv"
    /\ handler[c] = "nil"
    /\ \/ /\ Accepts(stream[c])
          /\ driver' = [driver EXCEPT ![c] = "ok"]
          /\ got' = [got EXCEPT ![c] = Joined(stream[c])]
       \/ /\ ~Accepts(stream[c])
          /\ driver' = [driver EXCEPT ![c] = "err"]
          /\ got' = got
    /\ UNCHANGED <<runnerVars, cut, adapterVars>>

(* Execute cannot open its stream: the adapter never sees the call.        *)
ExecuteFails(c) ==
    /\ runner = "drive"
    /\ driver[c] = "idle"
    /\ driver' = [driver EXCEPT ![c] = "err"]
    /\ cut' = cut \cup {c}
    /\ UNCHANGED <<runnerVars, got, adapterVars>>

(* Recv reports the error Execute returned.                                *)
StreamFails(c) ==
    /\ driver[c] = "recv"
    /\ handler[c] = "err"
    /\ driver' = [driver EXCEPT ![c] = "err"]
    /\ UNCHANGED <<runnerVars, got, cut, adapterVars>>

RecvFailsNoDeadline(c) ==    \* mutant: the call's context has no deadline
    /\ driver[c] = "recv"
    /\ "server" \notin held
    /\ driver' = [driver EXCEPT ![c] = "err"]
    /\ cut' = cut \cup {c}
    /\ UNCHANGED <<runnerVars, got, adapterVars>>

(* Recv fails on the client's side, whatever Execute did or will do: the   *)
(* call's deadline passed, a message is larger than the client receives    *)
(* (4 MiB unless told otherwise), or the connection broke.  The deferred   *)
(* cancel ends the adapter's context.                                      *)
RecvFails(c) ==
    /\ driver[c] = "recv"
    /\ driver' = [driver EXCEPT ![c] = "err"]
    /\ cut' = cut \cup {c}
    /\ UNCHANGED <<runnerVars, got, adapterVars>>

-----------------------------------------------------------------------------
(* specService.Execute.                                                    *)

(* The author's function failed, returned no result, or outputs that do    *)
(* not marshal.                                                            *)
AuthorFails(c) ==
    /\ handler[c] = "run"
    /\ c \notin Custom
    /\ handler' = [handler EXCEPT ![c] = "err"]
    /\ UNCHANGED <<runnerVars, driverVars, author, todo, stream>>

AuthorReturns(c, r) ==
    /\ handler[c] = "run"
    /\ c \notin Custom
    /\ handler' = [handler EXCEPT ![c] = "sending"]
    /\ author' = [author EXCEPT ![c] = r]
    /\ todo' = [todo EXCEPT ![c] = Frame(r, ChunkSize)]
    /\ UNCHANGED <<runnerVars, driverVars, stream>>

SendNext(c) ==
    /\ handler[c] = "sending"
    /\ todo[c] # <<>>
    /\ stream' = [stream EXCEPT ![c] = Append(@, Head(todo[c]))]
    /\ todo' = [todo EXCEPT ![c] = Tail(@)]
    /\ UNCHANGED <<runnerVars, driverVars, handler, author>>

SendFailsSkips(c) ==    \* mutant: a failed Send is skipped
    /\ handler[c] = "sending"
    /\ todo[c] # <<>>
    /\ todo' = [todo EXCEPT ![c] = Tail(@)]
    /\ UNCHANGED <<runnerVars, driverVars, handler, author, stream>>

(* Send may fail at any fragment (the call's context or the connection is  *)
(* gone, the message does not encode): the remaining ones are not sent,    *)
(* and Execute returns the error.                                          *)
SendFails(c) ==
    /\ handler[c] = "sending"
    /\ todo[c] # <<>>
    /\ handler' = [handler EXCEPT ![c] = "err"]
    /\ UNCHANGED <<runnerVars, driverVars, author, todo, stream>>

SentAll(c) ==
    /\ handler[c] = "sending"
    /\ todo[c] = <<>>
    /\ handler' = [handler EXCEPT ![c] = "nil"]
    /\ UNCHANGED <<runnerVars, driverVars, author, todo, stream>>

(* A hand-written Service.                                                 *)
CustomSend(c, m) ==
    /\ handler[c] = "run"
    /\ c \in Custom
    /\ Len(stream[c]) < MaxMessages
    /\ stream' = [stream EXCEPT ![c] = Append(@, m)]
    /\ UNCHANGED <<runnerVars, driverVars, handler, author, todo>>

CustomReturn(c) ==
    /\ handler[c] = "run"
    /\ c \in Custom
    /\ \E value \in {"nil", "err"} : handler' = [handler EXCEPT ![c] = value]
    /\ UNCHANGED <<runnerVars, driverVars, author, todo, stream>>

-----------------------------------------------------------------------------
(* The case returned and no handler of the adapter is left.                *)
Terminated ==
    /\ runner \in {"pass", "fail"}
    /\ \A c \in Calls : handler[c] \in {"idle", "nil", "err"}
    /\ UNCHANGED vars

RunnerStep ==
    \/ Refuse \/ Listen \/ NewClientFails \/ NewClientOk \/ OpenFail \/ OpenOk \/ Verdict
DriverStep(c) ==
    \/ StartCall(c) \/ ExecuteFails(c) \/ StreamEnds(c) \/ StreamFails(c) \/ RecvFails(c)
AdapterStep(c) ==
    \/ AuthorFails(c) \/ SendNext(c) \/ SendFails(c) \/ SentAll(c) \/ CustomReturn(c)
    \/ \E d \in Calls : AuthorReturns(c, wants[d])
    \/ \E m \in CustomMessages : CustomSend(c, m)

Next ==
    \/ RunnerStep
    \/ \E c \in Calls : DriverStep(c) \/ AdapterStep(c)
    \/ Terminated

Spec == Init /\ [][Next]_vars

(* The case's own goroutines run and its deadlines fire; the adapter may   *)
(* hang anywhere.                                                          *)
FairSpec ==
    /\ Spec
    /\ WF_vars(RunnerStep)
    /\ \A c \in Calls : WF_vars(DriverStep(c))

-----------------------------------------------------------------------------
(* A pass is proof: every call's own stream delivered exactly the result   *)
(* expected of that call, and its Execute returned nil.  No lost,          *)
(* duplicated, reordered or swapped result passes.                         *)
VerdictSound ==
    runner = "pass" =>
        \A c \in Calls : handler[c] = "nil" /\ Delivers(stream[c], wants[c])

(* A case that had enough calls and judged them fails only for a cause:    *)
(* some Execute failed, some call ended on the client's side (its deadline,*)
(* a message above the receive limit, a broken connection: these fail an   *)
(* adapter that delivered, too), or some call did not deliver its result.  *)
VerdictComplete ==
    /\ runner = "fail" /\ Cardinality(Calls) >= MinCalls
    /\ \A c \in Calls : driver[c] \notin Undecided
    =>
        \E c \in Calls : \/ handler[c] = "err" \/ c \in cut
                         \/ ~Delivers(stream[c], wants[c])

(* An Execute of the spec tier that ends without an error has delivered    *)
(* exactly the one result its author returned, however the result was      *)
(* chunked and whichever Send failed, with one exception: Execute does not *)
(* look at the outcome, and a result without one that needs chunking       *)
(* cannot be joined (spec.go:550-565, conformance.go:303-306).             *)
SpecDeliversOneResult ==
    \A c \in Calls \ Custom : handler[c] = "nil" =>
        \/ Delivers(stream[c], author[c])
        \/ author[c].outcome = "" /\ Len(author[c].outputs) > ChunkSize /\ ~Accepts(stream[c])

(* However the case ends, nothing of it is left behind: the listener, the  *)
(* server and the client are closed on every path, also when the client    *)
(* could not be made after the server was started, and no driver goroutine *)
(* still reads a stream.                                                   *)
NothingLeftBehind ==
    runner \in {"pass", "fail"} => held = {} /\ \A c \in Calls : driver[c] # "recv"

(* The case returns, even if the adapter hangs on every call.              *)
CaseReturns == <>(runner \in {"pass", "fail"})
=============================================================================
