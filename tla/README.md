# Verification of the Criteria Go adapter SDK

TLA+ models of `github.com/brokenbots/criteria-go-adapter-sdk`, the TLC
configurations that check them on small instances and TLAPS proofs for
instances of any size. Every definition that models code is mapped to its lines
in `PROJECT.json`; paths below are relative to `src/adapterhost/`.

## The system

An adapter is a process that serves the protocol-v2 gRPC contract to a Criteria
host. The SDK stands between gRPC and the author's code, which is either a
hand-written `Service` (tier 2) or a `Spec` of functions (tier 1).

| Component | State | Operations | Interacts with | What is hard | What makes it correct |
|---|---|---|---|---|---|
| Tool-call bridge (`toolcall.go`) | pending map, unsupported-session cache, one entry per call | `CallAdapterTool` (blocking, any number of goroutines), `Permissions` dispatch loop (one per stream) | Execute stream (request), Permissions stream (reply), caller's context | deadline against late reply, `closeAll` releasing the mutex before it resolves, several streams on one bridge, chunked replies | one resolution per call, no lost or leaked call, a session written off only for cause, every call returns, also when its connection is lost |
| Log stream (`serve.go`, `spec.go`) | handler, heartbeat goroutine, sender mutex, error channel | `Log`, `Send`, heartbeat tick | adapter's `Log`, `v2.RunHeartbeat` | early nil return, sends after the handler returned, mutex contention | serial sends, heartbeats while the stream is open, complete teardown |
| Phone-home transport (`serve_remote.go`) | redial loop and delay; per connection a listener, a close signal, a watcher | `ServeRemote`, `serveRemoteOnce`, handshake, `Accept`/`Close` | `grpc.Server`, TCP/TLS peer | accept loop blocked on a dead connection, a dial that succeeds before a handshake that fails, goroutines of an old connection beside a new one, backoff edges | identity line first, one connection at a time, none leaked, redial for ever |
| Spec-tier Execute (`spec.go`) | none beyond the call | author function, marshal, chunk, send | `v2.ChunkExecuteResultOutputs` | a `Send` failing in mid-result | exactly one result or an error |
| Conformance case (`conformance.go`) | loopback listener, server and client, one driver per call, outcomes | script check, set-up, drive, reassemble, judge | adapter under test | interleaved calls, swapped/lost/duplicated results, hanging adapter, set-up failing half way | passes only right adapters, fails only for a cause, leaves nothing behind, returns |
| Unary RPCs and lifecycle verbs (`serve.go`, `spec.go`) | none | delegation, `Unimplemented` when unset | author's functions | advertised features against wired verbs | a verb answers iff it is wired |
| Permissionless default (`service.go`) | none beyond the stream | acknowledge every request with allow | Permissions stream | a failing acknowledgement, error classification | fails closed |
| Spec validation, Info (`spec.go`) | none | `validate`, `supportedFeaturesFromSpec`, `deriveInfo` | examples on disk | | rejects ambiguous specs |
| Manifest (`manifest.go`), strict mirror (`internal/strictmanifest`) | none | render Info, parse strictly | stdout, YAML | absence rules, ordering | what is emitted parses back |
| Secrets (`secrets.go`) | immutable maps | `Get`, `WithStepSecrets`, `SpawnEnv` | | override order, undeclared names | no undeclared secret leaves |
| Process entry (`serve.go`, `spec.go`, `handshake.go`) | none | `Serve`, `ServeSpec`, `ServeSpecRemote` | go-plugin, OS | | manifest or server, never both |

The components meet in two places. A phone-home adapter serves every connection
of its loop with one `Service` value, hence with one tool-call bridge, and
redials without waiting for the handlers of the connection before. A spec-tier
adapter takes its `Info`, its manifest, its verbs and its permission default from
one `Spec`, in different processes and at different times.

## Modules

**`ToolCallBridge`.** Callers (`Calls`) and dispatch loops (`Streams`) as
interleaved processes. Each critical section of `b.mu` is one action, and code
between two critical sections is split at the unlock: `CheckSession`,
`Register`, `Send`, its return (`SendOk`, `SendErr`), the two branches of `select`
(`Receive`, `CtxDone`), then `TakeGrant`, `CacheUnsupported` or `Drop`; on the loop's side
`RecvRequest`, `AckOk`/`AckErr`, `MarkGranted`, `RouteCancel`, `RouteResult`, and
`CloseAll` followed by one `ResolveClosed` per collected entry. Entry fields are
separate variables (`grant`, `fragments`, `cancelled`, `closedErr`, `closes`);
they keep their value after the entry left the map, as the caller's pointer
does. `closes` counts closes of the `done` channel, so a double close, a panic
in Go, shows. A request id is unique by construction (random or an atomic
counter) and is identified with its call. The host may grant, deny or answer
any request that was handed to the Execute stream, in any order, repeatedly and
on any open stream. Payloads are abstract: building one may fail (`BadArgs`),
decoding outputs may fail (`badOutputs`), and a fragment is its chunk header and
whether `call_error` is set. `JoinToolCallResultOutputs` lives in
criteria-adapter-proto and is modelled from its use (`Joinable`).

**`ToolCallContract`** states what the bridge promises a caller, without map,
mutex and loops; **`ToolCallRefinement`** gives the refinement mapping. An answer
is the close of `done`, not its collection by `closeAll`; a write-off is the
update of the cache.

**`LogStream`.** The handler, the heartbeat and any set of writers, which may
log on after `impl.Log` returned. `mu` is the set of holders of the sender's
mutex, so a missing lock is expressible. The context is `live`, `cancelled` by
the host or `over` because the handler returned. `impl` is where the
implementation's `Log` is and what it returned, so that the handler's result can
be compared with it (`HandlerSpeaksForImpl`).

**`ServeRemote`.** The loop, and per connection the raw `net.Conn`, the close
signal, the single-connection listener, the watcher and gRPC's part (accept
loop, transport, handlers) as the code relies on it: `Serve` returns when the
second `Accept` fails, closes the listener itself and waits neither for the
transport nor for the handlers. `doneCh` and the listener's channel are each closed
by guarded, idempotent code (a `sync.Once`, a check under the mutex), which is one
step. A connection whose handshake failed was handed to nobody and must be closed
by the loop (`closeConn`, `ConnectionsReleased`). `Conns` are slots; a slot is reused once nothing
of its connection is left (`Forget`, which models no code). Identity, token and
TLS are data and left out.

**`Connections`** states what all that comes to for the adapter: one open
connection at a time, the next one only once the close of the last has begun,
handlers over an open connection only, and closed connections whose handlers
return. `ServeRemote` implements it (`KeepsOneConnection`) under the mapping
`lifeBar`: a connection is closing from the signal on `doneCh` to the close of the
`net.Conn`, and otherwise what its `net.Conn` is.

**`RemoteToolCalls`** composes `Connections` with an instance of `ToolCallBridge`
whose streams are the connections: a call is issued by an Execute handler of a
connection (`via`), a connection carries one Permissions stream, and the handlers
of a connection have returned when its loop and its calls have. The loss of a
connection reaches the bridge as a failing `Send`, a failing `Recv` and a
cancelled context. Until then a `Send` may block: the host may withhold
flow-control credit and the bridge has not armed its deadline. Composing with the
abstract `Connections` and not with `ServeRemote` keeps the product small and is
justified by the refinement. A slot is not reused, so `Conns` bounds the number
of connections made.

**`ExecuteResults`** has the framing (`Frame`) and the reassembly (`Accepts`,
`Joined`) as operators, and `Delivers`, the reference definition of a correct
delivery. **`ExecuteResultsCheck`** compares the two on every stream up to a
bound. **`ConcurrentExecute`** composes them: the conformance case, one driver
per call, and an adapter that on some calls is the spec tier (whose author may
return any result of the script, a sibling's included, or fail or hang) and on
others a hand-written Service that sends anything. `held` is what the case has
open; its set-up may fail at the listener or, with the server already running, at
the client, and a call may end on the client's side whatever the adapter does:
its stream cannot be opened (`ExecuteFails`), or `Recv` fails on the deadline, the
receive limit or the connection (`RecvFails`). The case then fails an adapter that
did deliver, and `VerdictComplete` names that cause. The scripts include one with
a result without an outcome that needs chunking, the one result that the spec
tier sends and the reassembly refuses.

**`SpecAdapter`** is the life of one binary: started with or without
`--emit-manifest`, taken through `ServeSpec`, `Serve` or `ServeSpecRemote` to a
manifest, an exit code or a serving process, asked for `Info` and the five verbs,
stopped and started again, while its example files come and go. `ServeSpec` looks
for the flag before it calls `Serve`, which looks again: each check has phases of
its own. A write that fails leaves nothing or a truncated text on stdout. It is built on
four modules of operators: **`Maps`** (Go maps as functions of their keys),
**`SpecInfo`** (`validate`, features, `deriveInfo`,
with the keyed maps of the wire, where the last of a name wins), **`Manifest`**
(`buildManifestDoc`, whose objects lack the keys `omitempty` drops, and the strict
mirror's `Parse`, which fills absent keys and refuses unknown ones, and
`Validate`, whose regular expressions are sets of well-formed texts, for the two
parts of a platform as for names, versions, URLs and environments) and
**`Secrets`**. A serving process whose adapter has no permission
handler of its own runs the permissionless default on one stream after another.
A session hands the author's `OpenSession` handler its secrets; overlapping steps
lay their own over that view and ask for the environment of a child, which is a
function of names (`SpawnEnv` returns its pairs in the order of the request). The
protocol version of an `Info` is what `strconv.Atoi` reads in its text: one
integer or none. A `Spec` is a record in which text counts only by equality and emptiness,
a handler by being set, and a platform string by its parts; results that may be
errors are sets of at most one element. Secrets of a manifest come in the order
of a Go map and are a set.

Operators marked *mutant* are plausible bugs of the operator after them. They
are not part of any specification; each property of a passing run is shown to
fail under one of them.

## Runs

| Run | Instance | Distinct states | Shows |
|---|---|---|---|
| `bridge_streams` | 1 call, 2 streams, whole/error/first/last fragments, up to 3 per call | 51,299 | `TypeOK`, `ResolvedHasCause`, `ResolvedEntryFrozen`, `CallReturns`, `DyingStreamWakesCallers` |
| `bridge_calls` | 2 calls of one session, 2 streams, symmetric | 1,005,585 | `NoDoubleClose`, `NoLostCaller`, `NoLeak`, `CachedOnlyAfterBareGrant`, `ImplementsContract` |
| `bridge_partial_result` | 1 call | violation | `UnsupportedMeansNoResult` fails |
| `bridge_late_error` | 1 call | violation | `CallErrorIsTyped` fails |
| `log_stream` | 2 writers and the heartbeat | 536 | `TypeOK`, `SerialSends`, `StreamKeptAlive`, `HandlerSpeaksForImpl`, `HeartbeatsContinue`, `TeardownCompletes`, `ErrorPropagated` |
| `remote_loop` | 2 connection slots, four settings of the options | 30,756 | `TypeOK`, `HandshakeFirst`, `BackoffFollowsFailures`, `DropEndsServe`, `ConnectionsReleased`, `KeepsRedialling`, `KeepsOneConnection` |
| `remote_calls` | 1 call, 2 connections | 218,979 | `NoEntryOutlivesConnection`, `LostConnectionEndsHandlers` |
| `remote_closed_by_old` | 1 call, 2 connections | violation | `ClosedMeansNoReply` fails |
| `remote_backoff` | initial delay above the maximum | violation | `DelayWithinMax` fails |
| `execute_join` | every stream of up to 3 messages, 150 different messages | 3,397,651 | `JoinIsExact` |
| `conformance` | 3 calls (the minimum), 2 on the spec tier, results of two chunks, one of them without an outcome | 514,142 | `VerdictSound`, `VerdictComplete`, `SpecDeliversOneResult`, `NothingLeftBehind`, `CaseReturns` |
| `spec_process` | 32 binaries (entrypoints, both tiers, right and broken specs), 1 example file, 2 overlapping steps | 246,272 | `TypeOK`, `InfoLosesNothing`, `FeaturesHonest`, `ManifestOrService`, `PublishedMatchesInfo`, `EmitsPublishable`, `PermissionsFailClosed`, `ChildGetsItsCredentials` |

### Bounds

- Calls and streams: an entry is contended by its caller and the loops only, so
  one call and two loops show every race on it; two calls add the races on the
  session cache and a `closeAll` with several entries. The proofs lift the bound.
- `MaxFragments` bounds what a host sends for one call; three fragments include
  a complete two-chunk group and one message more.
- Two connection slots: the loop serves one connection while another drains;
  with all slots in use the loop waits for one, which the fairness of `Forget`
  ends. `MaxSleeps` saturates the history counter after the cap is reached for
  every option used.
- Two connections and one call in `remote_calls`: the call is of either
  connection, or starts on the old one while the new one is being served, and
  its entry is contended by the loops of both. More calls add nothing that a
  handler waits for but its own call.
- `MaxRequests` bounds the requests of one Permissions stream of the default; two
  show an acknowledgement lost, doubled or given the wrong id.
- Streams of three messages contain every pair of neighbours the reassembly
  compares and a chunk that is neither first nor last. In `conformance`, where the
  stream of the hand-written Service is one of three, `MaxMessages` is two: enough
  for a delivery in two chunks, a doubled result and a lost chunk. What longer
  streams add is the reassembly's matter.
- Binaries: one spec per check of `validate` that it fails, and valid ones with
  no, some and all verbs, an override of the feature list, an os-only platform, a
  platform whose os and arch the strict mirror refuses, a type the strict mirror refuses, a short version. Two steps and deliveries that
  overlap in one name show a value crossing from one step to another.
- `CHECK_DEADLOCK FALSE` is set for `execute_join` only, whose stream simply
  reaches its bound. Every other run checks deadlock; where a system may
  end, `Terminated` is its legal end.

### Fairness

- Bridge: goroutines that can run do run, a loop with work of its own does it.
  Nothing is assumed of the host, nor that any `Send` returns, of a request or of
  an acknowledgement: flow control may block either for ever, and the bridge arms
  its deadline only after the request was sent (`toolcall.go:282-306`). The two
  properties therefore exempt a call that stays in `Send` (`BlockedInSend`); that
  the loss of its connection frees it is `LostConnectionEndsHandlers`.
  `CallReturns` adds `Timers` (a context with a deadline ends);
  `DyingStreamWakesCallers` does without.
- Log: weak fairness of handler and heartbeat; strong fairness of the mutex,
  since Go's mutex does not starve a waiter; strong fairness of `HbStop`, since
  `select` between ticker and context takes each ready branch in the long run;
  and implementations respect cancellation, as `service.go:22-23` obliges them to.
- Remote: the loop, the watcher and the transport run; the transport notices a
  dropped peer; cancelled handlers return. Dials may fail for ever, a dial or the
  write of the identity line may block for ever (neither has a deadline), and a
  healthy connection may last for ever.
- Phone-home calls: goroutines that can run do run; gRPC completes the close of a
  connection, then cancels its contexts and fails what is being sent on it. The
  failure of `Recv` is strongly fair: what had arrived before the loss is still
  handed over, but it is finite, so a loop that keeps reading meets the error. No
  deadline expires by fairness, no `Send` on a live connection returns by
  fairness, and nothing is assumed of the host.
- Conformance: the case's goroutines run and its deadlines fire; the adapter may
  hang anywhere.

### Where code and comments disagree

- `bridge_partial_result`: at the deadline only `grant` is looked at. A granted
  call that already holds the first chunks of its result is reported as
  host_unsupported and the session is written off, while `toolcall.go:209-212`
  reserves that for a grant "with no tool_call_result within the call deadline".
- `bridge_late_error`: `routeResult` resolves on a `call_error` in any fragment,
  `finishToolCall` looks for it in the first one only. A `call_error` after a
  chunk becomes a reassembly error, not the typed failure of `toolcall.go:205-206`.
- `remote_closed_by_old`: `closeAll` "resolves every pending call; the Permissions
  stream is gone, so no reply can ever arrive" (`toolcall.go:494-495`). With one
  bridge per process and a loop that redials at once, the stream that is gone may
  be the old connection's: a call that waits on the new connection, whose stream is
  open, fails with `ErrPermissionsClosed`.
- `remote_backoff`: `MaxDelay` "caps the exponential backoff"
  (`serve_remote.go:52`), but the cap is applied after doubling, so an
  `InitialDelay` above it is slept in full.

## Proofs

Every invariant and every action property that a run checks is also a theorem,
for every value of the constants; so is the safety part of both refinements. The
assumptions are the named `ASSUME`s of the modules, which say that constants have
the types of the Go values they stand for. TLC evaluates them on every run.

**`ToolCallBridgeProofs`**, for any sets of calls, sessions and streams, any
messages and any bound on them (`SessionAssumption`, `FragmentAssumption`,
`BoundAssumption`).

- The type invariant is not inductive alone: `Drop` returns `ctxErr[c]`, which is
  an outcome only because a caller past the `Done` branch has an ended context.
  `TypeInv` adds that (`ExpiredInv`).
- The safety invariants follow from an ownership argument. An entry is owned by
  the map (`pending`), or by one `closeAll` that collected it (`closing[s]`), or
  by nobody; owners are disjoint; an owned entry is unresolved; an entry that
  nobody owns is resolved or was dropped by its own caller. Only an owner closes
  `done`, and giving the entry up goes with closing it. `BridgeInv` is the
  conjunction of these parts and is inductive (`BridgeInvariant`).
- From it: `TypeCorrect`, `NeverDoubleClose`, `AlwaysResolvedHasCause`,
  `NeverLostCaller`, `NeverLeak`, `WriteOffNeedsBareGrant` and the action property
  `ResolvedEntriesStayFrozen`.
- `BridgeImplementsContract`: `Spec => Contract!Spec` under the mapping of
  `ToolCallRefinement`. The mapped initial state is the contract's, and each
  action is a step of the contract or leaves its variables alone. The ownership
  invariant supplies what the contract's guards demand: an entry is answered at
  most once, and never after its call was taken as proof of an old host.

**`LogStreamProofs`**, for any set of writers (`WritersAssumption`: the heartbeat
is not one of them): a goroutine is inside `Send` iff it holds the mutex, the
mutex has at most one holder, the context is over only after the handler
returned, and `errCh` and then the handler's result hold what the implementation
returned. From this invariant: `LogTypeCorrect`, `SendsAreSerial`,
`StreamStaysAlive`, `HandlerReportsImpl`.

**`ServeRemoteProofs`**, for any number of connection slots, any options and any
default delays (`OptionsAssumption`, `DefaultsAssumption`, `SleepsAssumption`).
`RemoteInv` follows a connection through its life: the loop is on at most one
(`LoopInv`); nothing of a slot is touched before its connection exists, nor by
gRPC before it was handed the connection (`FreshInv`), which is after the identity
line (`LineInv`); `doneCh` is closed as the close of a connection begins, the
listener after that only, the `net.Conn` as it ends (`CloseInv`); and a connection
that the loop left has begun to close (`LeftInv`). `BackoffInv` ties the delay to
the count of sleeps in every phase, not in the sleeping one only as the property
does. From it: `RemoteTypeCorrect`, `IdentityLineIsFirst`,
`BackoffIsExact`, and `RemoteKeepsOneConnection`, which is `Connections` without its
fairness: `LeftInv` is what makes the next `Connect` legal.

**`RemoteToolCallsProofs`**, for any calls, sessions and connections
(`BridgeAssumption`). Each step of the composition is a step of the bridge or
leaves it alone (`CompositionKeepsBridge`), and the same for the connections
(`CompositionKeepsConnections`), so the bridge's theorems hold at the bridge of the
composition (`BridgeSafeAcrossReconnects`, `ContractKeptAcrossReconnects`).
`MapOutlivesNoConnection` adds `HandlerInv`: a call that is under way runs in a
handler that has not returned; by the ownership invariant a pending entry belongs
to such a call.

**`ExecuteResultsProofs`** is a library of lemmas on the framing and reassembly, for
outputs of any length, any chunk size and any number of messages: the chunks of a
result have the sizes they should (`ChunkBounds`), concatenate to it (`ChunksJoin`)
and are a delivery (`FrameDelivers`), and a stream is accepted exactly when it is
one (`AcceptedIsDelivered`, `DeliveredIsAccepted`). `FlattenSeq` is recursive; that
it satisfies its recursion on every sequence, and what it returns on chunks, are
inductions, done with a set in place of the library's operator parameter
(`NatSetInduction`). **`ExecuteResultsCheckProofs`** draws the conclusion,
`JoinAlwaysExact`.

**`ConcurrentExecuteProofs`**, for any finite set of calls, any scripts and any
messages of a hand-written Service (`CallsAssumption`, `SizesAssumption`,
`ScriptsAssumption`, `MessagesAssumption`). `CaseInv` follows a call from both ends:
what a spec-tier stream carried and what `Execute` has still to send make up the
frame of the author's result (`SendInv`); a driver that ended ok joined the whole
stream of an `Execute` that returned nil, one that ended in an error has a cause
(`DriverInv`); and the verdict is that of the drivers, taken when none still reads,
and what the case holds open follows its phase (`RunnerInv`). With the lemmas
on reassembly: `PassIsProof`, `FailIsEarned`, `SpecTierDelivers`, `CaseCleansUp`. The attempt to prove `SpecTierDelivers` for every script found
its one exception: `Execute` never looks at the outcome (`spec.go:550-565`), so an
author's result without one is delivered when it is small, and is sent in a form
that `joinExecuteResultFragments` refuses (`conformance.go:303-306`) when it needs
chunking. The property now names the exception and the scripts of the run include
it.

**`SpecAdapterProofs`**, for any binaries, specs, example files, command lines,
deliveries and overlapping steps (`BinariesAssumption`, `SpecsAssumption`,
`InfosAssumption`: specs and the answers of a `Service` have their Go types).
`AdapterInv` has a part for each part of the process. `ProcInv` ties phase, flag,
output and exit code; `DocInv` says that whatever was rendered, published or
answered comes from an `Info` the implementation gives for *some* set of readable
files; `AnswerInv` that a verb's answer follows its handler; `PermInv` that the
decisions of a Permissions stream are its requests but for the one in hand;
`SessionInv` that each view of secrets is made of what was sent with its own
session and step. From it: `AdapterTypeCorrect`, `AlwaysManifestOrService`,
`DefaultFailsClosed`, `ChildrenGetTheirCredentials`, `AnnouncedIsAnswered`. The
others add a fact about the operators: entries with unique names keep their values
when a list is keyed by name (`KeyedEntry`, for `InfoIsComplete`), and the strict
parser accepts the manifest of every `Info` and reads back what it says
(`ManifestRoundTrip`, where what `omitempty` drops is what an absent key stands for;
for `PublishedDescribesServed` and `WellFormedIsPublishable`).

Model-checked only: the liveness properties (`CallReturns`,
`DyingStreamWakesCallers`, `HeartbeatsContinue`, `TeardownCompletes`,
`ErrorPropagated`, `DropEndsServe`, `ConnectionsReleased`, `KeepsRedialling`, `LostConnectionEndsHandlers`,
`CaseReturns`) and the fairness in `KeepsOneConnection`, all of which rest on
fairness and are out of the prover's reach.

## Not modelled

- Contents of payloads, digests, error texts, YAML and JSON.
- TLS set-up (`LoadClientTLS`) and the choice between TCP and Unix sockets.
- go-plugin's process handshake.
- The example adapter (`examples/greeter`), which has no logic of the SDK.
- The vocabulary of field types: `spec.go:26-32` has `bool` and `list_string`, which
  the strict mirror refuses. Which of the two the host follows cannot be settled
  from this repository; `EmitsPublishable` takes the mirror's side.
- `int64` overflow of the delay, reached from delays of more than 146 years.
- Nil `*Secrets` receivers (`secrets.go:52-54, 85-87`): a step lays its secrets over
  the view of an open session, which is never nil.
- The seam through which tests swap the heartbeat runner.

## Plan

1. Done: bridge, contract and refinement; log stream; phone-home loop, its
   promise and the refinement; tool calls of a phone-home adapter; reassembly;
   conformance case; spec tier, process entry, permission default, manifest with
   the strict parser, and secrets; proofs of every invariant and action property
   of the runs.
2. Further theorems: action properties that follow from the invariants proved (a
   verdict, an answer or a write-off is never taken back); lemmas on `Joinable`,
   the bridge's counterpart of the reassembly.
