--------------------------- MODULE ToolCallBridge ---------------------------
(***************************************************************************)
(* The tool-call bridge of an adapter process (adapterhost/toolcall.go).   *)
(*                                                                         *)
(* Any number of goroutines block in CallAdapterTool, one per element of   *)
(* Calls, each issued from the Execute session SessionOf[c].  Any number   *)
(* of Permissions streams run the dispatch loop over the same bridge, one  *)
(* per element of Streams: the host reopens the stream after a reconnect,  *)
(* and nothing in the code makes the old loop end before the new one       *)
(* starts.  Callers and loops share the map `pending` and the cache        *)
(* `unsupportedSessions` under one mutex; every critical section of that   *)
(* mutex is one action here, and what the code does between two critical   *)
(* sections is split at the unlock.                                        *)
(*                                                                         *)
(* A request id is minted from crypto/rand or from an atomic counter, so   *)
(* ids never collide and a call stands for its own request id.             *)
(***************************************************************************)
EXTENDS Integers, Sequences

CONSTANTS
    Calls,        \* invocations of CallAdapterTool
    Sessions,     \* Execute session ids
    SessionOf,    \* the SessionID of each call
    Streams,      \* Permissions streams, each served by one dispatch loop
    Fragments,    \* the tool_call_result messages a host may send
    MaxFragments  \* bound on the fragments a host sends for one call

(* What the bridge looks at in a ToolCallResult: whether call_error is set *)
(* and the ToolCallResult.chunk header (all zero when chunk is nil).       *)
FragmentType ==
    [callError : BOOLEAN, chunked : BOOLEAN, seq : Nat, total : Nat, final : BOOLEAN]

ASSUME SessionAssumption == SessionOf \in [Calls -> Sessions]
ASSUME FragmentAssumption == Fragments \subseteq FragmentType
ASSUME BoundAssumption == MaxFragments \in Nat

VARIABLES
    \* the caller's goroutine
    pc,                   \* where the call is in CallAdapterTool
    ctxErr,               \* callCtx.Err(): "none" until the context is done
    armed,                \* the calls whose context carries a deadline
    ret,                  \* what CallAdapterTool returned
    \* the bridge
    pending,              \* the keys of b.pending
    unsupportedSessions,  \* the keys of b.unsupportedSessions
    \* the fields of pendingToolCall
    grant, fragments, cancelled,
    closedErr,            \* the calls whose entry.err is ErrPermissionsClosed
    closes,               \* how often entry.done was closed; twice panics
    \* the wire
    sent,                 \* permission.request events handed to the Execute stream
    \* the dispatch loops
    loop,                 \* where the loop is in Permissions / closeAll
    cur,                  \* the request id being ACKed, as a set of at most one
    closing               \* the entries closeAll collected and has not resolved

callerVars == <<pc, ctxErr, armed, ret>>
entryVars  == <<grant, fragments, cancelled, closedErr, closes>>
bridgeVars == <<pending, unsupportedSessions>>
loopVars   == <<loop, cur, closing>>
vars       == <<callerVars, bridgeVars, entryVars, sent, loopVars>>

Running == {"idle", "register", "send", "sending", "unsend", "wait",
            "expired", "cache", "drop"}
PCs     == Running \cup {"done"}
Outcomes == {"ok", "callErr", "badChunks", "badOutputs", "denied", "closed",
             "unsupported", "deadline", "canceled", "sendErr", "invalid", "badArgs"}
LoopStates == {"idle", "recv", "ack", "mark", "closing", "resolving", "ended"}

Init ==
    /\ pc = [c \in Calls |-> "idle"]
    /\ ctxErr = [c \in Calls |-> "none"]
    /\ armed \in SUBSET Calls           \* callers with a deadline of their own
    /\ ret = [c \in Calls |-> "none"]
    /\ pending = {}
    /\ unsupportedSessions = {}
    /\ grant = {}
    /\ fragments = [c \in Calls |-> <<>>]
    /\ cancelled = {}
    /\ closedErr = {}
    /\ closes = [c \in Calls |-> 0]
    /\ sent = {}
    /\ loop = [s \in Streams |-> "idle"]
    /\ cur = [s \in Streams |-> {}]
    /\ closing = [s \in Streams |-> {}]

-----------------------------------------------------------------------------
(* The caller: CallAdapterTool.                                            *)

Return(c, outcome) ==
    /\ pc' = [pc EXCEPT ![c] = "done"]
    /\ ret' = [ret EXCEPT ![c] = outcome]
    /\ UNCHANGED <<ctxErr, armed>>

Goto(c, label) ==
    /\ pc' = [pc EXCEPT ![c] = label]
    /\ UNCHANGED <<ctxErr, armed, ret>>

(* A nil context, a nil sink or a call that fails validate().              *)
Reject(c) ==
    /\ pc[c] = "idle"
    /\ Return(c, "invalid")
    /\ UNCHANGED <<bridgeVars, entryVars, sent, loopVars>>

(* sessionUnsupported, one critical section; a cached session fails fast   *)
(* without sending.                                                        *)
CheckSession(c) ==
    /\ pc[c] = "idle"
    /\ \/ SessionOf[c] \in unsupportedSessions /\ Return(c, "unsupported")
       \/ SessionOf[c] \notin unsupportedSessions /\ Goto(c, "register")
    /\ UNCHANGED <<bridgeVars, entryVars, sent, loopVars>>

(* buildToolCallPayload fails on arguments that are not a JSON object.     *)
BadArgs(c) ==
    /\ pc[c] = "register"
    /\ Return(c, "badArgs")
    /\ UNCHANGED <<bridgeVars, entryVars, sent, loopVars>>

(* Mint the id, build the payload, register a fresh entry.                 *)
Register(c) ==
    /\ pc[c] = "register"
    /\ Goto(c, "send")
    /\ pending' = pending \cup {c}
    /\ UNCHANGED <<unsupportedSessions, entryVars, sent, loopVars>>

(* sink.Send begins: from here on the host may answer, even before Send    *)
(* has returned.                                                           *)
Send(c) ==
    /\ pc[c] = "send"
    /\ Goto(c, "sending")
    /\ sent' = sent \cup {c}
    /\ UNCHANGED <<bridgeVars, entryVars, loopVars>>

NoTimeout(c) == UNCHANGED armed    \* mutant

(* A context that has no deadline gets one.                                *)
WithTimeout(c) == armed' = armed \cup {c}

(* Send returns nil; a context without a deadline gets the SDK's timeout.  *)
SendOk(c) ==
    /\ pc[c] = "sending"
    /\ pc' = [pc EXCEPT ![c] = "wait"]
    /\ WithTimeout(c)
    /\ UNCHANGED <<ctxErr, ret, bridgeVars, entryVars, sent, loopVars>>

(* Send returns an error.                                                  *)
SendErr(c) ==
    /\ pc[c] = "sending"
    /\ Goto(c, "unsend")
    /\ UNCHANGED <<bridgeVars, entryVars, sent, loopVars>>

removeNothing(c) == UNCHANGED pending    \* mutant

remove(c) == pending' = pending \ {c}

(* remove the entry and return the send error.                             *)
Unsend(c) ==
    /\ pc[c] = "unsend"
    /\ Return(c, "sendErr")
    /\ remove(c)
    /\ UNCHANGED <<unsupportedSessions, entryVars, sent, loopVars>>

(* v2.JoinToolCallResultOutputs accepts a complete chunk group: every      *)
(* message chunked, the totals agree with the count, each sequence number  *)
(* once, and only the last of them final.                                  *)
Joinable(frags) ==
    /\ \A i \in DOMAIN frags :
         /\ frags[i].chunked
         /\ frags[i].total = Len(frags)
         /\ frags[i].seq < Len(frags)
         /\ frags[i].final <=> (frags[i].seq = Len(frags) - 1)
    /\ \A i, j \in DOMAIN frags : frags[i].seq = frags[j].seq => i = j

(* The outcomes finishToolCall may return for a resolved entry.  Whether   *)
(* the reassembled bytes decode as a JSON object is left open.             *)
finishToolCall(c) ==
    IF c \in closedErr THEN {"closed"}
    ELSE IF c \in cancelled THEN {"denied"}
    ELSE LET first == fragments[c][1] IN
         IF first.callError THEN {"callErr"}
         ELSE IF \/ Len(fragments[c]) = 1 /\ ~first.chunked
                 \/ Joinable(fragments[c])
              THEN {"ok", "badOutputs"}
              ELSE {"badChunks"}

(* select takes the done branch.                                           *)
Receive(c) ==
    /\ pc[c] = "wait"
    /\ closes[c] > 0
    /\ \E outcome \in finishToolCall(c) : Return(c, outcome)
    /\ UNCHANGED <<bridgeVars, entryVars, sent, loopVars>>

DoneAlways(c) == TRUE    \* mutant

Done(c) == ctxErr[c] # "none"

(* select takes the callCtx.Done() branch; when both channels are ready    *)
(* the runtime picks either.                                               *)
CtxDone(c) ==
    /\ pc[c] = "wait"
    /\ Done(c)
    /\ Goto(c, "expired")
    /\ UNCHANGED <<bridgeVars, entryVars, sent, loopVars>>

BareGrantAnyCause(c) == c \in pending /\ c \in grant    \* mutant: cancelled callers too
BareGrantStale(c) == c \in grant /\ ctxErr[c] = "deadline"    \* mutant: not the map's entry

(* A bare grant was seen on the entry when the deadline passed; an entry   *)
(* no longer in the map reports none.                                      *)
BareGrant(c) == c \in pending /\ c \in grant /\ ctxErr[c] = "deadline"

(* takeGrant drops the entry.                                              *)
TakeGrant(c) ==
    /\ pc[c] = "expired"
    /\ Goto(c, IF BareGrant(c) THEN "cache" ELSE "drop")
    /\ pending' = pending \ {c}
    /\ UNCHANGED <<unsupportedSessions, entryVars, sent, loopVars>>

(* cacheUnsupported, then the typed host_unsupported failure.              *)
CacheUnsupported(c) ==
    /\ pc[c] = "cache"
    /\ Return(c, "unsupported")
    /\ unsupportedSessions' = unsupportedSessions \cup {SessionOf[c]}
    /\ UNCHANGED <<pending, entryVars, sent, loopVars>>

(* remove, then the error that wraps callCtx.Err().                        *)
Drop(c) ==
    /\ pc[c] = "drop"
    /\ Return(c, ctxErr[c])
    /\ remove(c)
    /\ UNCHANGED <<unsupportedSessions, entryVars, sent, loopVars>>

(* The environment ends a live context: its deadline passes, or its owner  *)
(* cancels it.  The first cause sticks.                                    *)
Expire(c) ==
    /\ pc[c] # "done"
    /\ c \in armed
    /\ ctxErr[c] = "none"
    /\ ctxErr' = [ctxErr EXCEPT ![c] = "deadline"]
    /\ UNCHANGED <<pc, armed, ret, bridgeVars, entryVars, sent, loopVars>>

Cancel(c) ==
    /\ pc[c] # "done"
    /\ ctxErr[c] = "none"
    /\ ctxErr' = [ctxErr EXCEPT ![c] = "canceled"]
    /\ UNCHANGED <<pc, armed, ret, bridgeVars, entryVars, sent, loopVars>>

Begin(c) == Reject(c) \/ CheckSession(c)

(* What a started call does on its own.                                    *)
Proceed(c) ==
    \/ BadArgs(c) \/ Register(c) \/ Send(c)
    \/ Unsend(c) \/ Receive(c) \/ CtxDone(c) \/ TakeGrant(c)
    \/ CacheUnsupported(c) \/ Drop(c)

(* A Send returns once the host's flow control lets the event out or the   *)
(* Execute stream dies; a host that stops reading keeps it for ever.       *)
SendReturns(c) == SendOk(c) \/ SendErr(c)

-----------------------------------------------------------------------------
(* The dispatch loop: Permissions.  The host answers what was sent to it,  *)
(* in any order, as often as it likes and on any open stream.  An event    *)
(* with an empty or unknown id changes nothing.                            *)

OpenStream(s) ==
    /\ loop[s] = "idle"
    /\ loop' = [loop EXCEPT ![s] = "recv"]
    /\ UNCHANGED <<callerVars, bridgeVars, entryVars, sent, cur, closing>>

RecvErrIgnored(s) == loop[s] = "recv" /\ UNCHANGED vars    \* mutant: reads on

(* Recv fails: EOF, cancellation or a broken connection; closeAll follows. *)
RecvErr(s) ==
    /\ loop[s] = "recv"
    /\ loop' = [loop EXCEPT ![s] = "closing"]
    /\ UNCHANGED <<callerVars, bridgeVars, entryVars, sent, cur, closing>>

(* An allow-grant arrives.                                                 *)
RecvRequest(s, c) ==
    /\ loop[s] = "recv"
    /\ c \in sent
    /\ loop' = [loop EXCEPT ![s] = "ack"]
    /\ cur' = [cur EXCEPT ![s] = {c}]
    /\ UNCHANGED <<callerVars, bridgeVars, entryVars, sent, closing>>

AckOk(s) ==
    /\ loop[s] = "ack"
    /\ loop' = [loop EXCEPT ![s] = "mark"]
    /\ UNCHANGED <<callerVars, bridgeVars, entryVars, sent, cur, closing>>

AckErr(s) ==
    /\ loop[s] = "ack"
    /\ loop' = [loop EXCEPT ![s] = "closing"]
    /\ cur' = [cur EXCEPT ![s] = {}]
    /\ UNCHANGED <<callerVars, bridgeVars, entryVars, sent, closing>>

(* markGranted: an entry that is gone by now is left alone.                *)
MarkGranted(s) ==
    /\ loop[s] = "mark"
    /\ grant' = grant \cup (cur[s] \cap pending)
    /\ loop' = [loop EXCEPT ![s] = "recv"]
    /\ cur' = [cur EXCEPT ![s] = {}]
    /\ UNCHANGED <<callerVars, bridgeVars, fragments, cancelled, closedErr,
                   closes, sent, closing>>

close(c) == closes' = [closes EXCEPT ![c] = @ + 1]

ResolveKeeps(c) == UNCHANGED pending /\ close(c)    \* mutant: the entry stays in the map

Resolve(c) == pending' = pending \ {c} /\ close(c)

RouteCancel(s, c) ==
    /\ loop[s] = "recv"
    /\ c \in sent
    /\ c \in pending
    /\ Resolve(c)
    /\ cancelled' = cancelled \cup {c}
    /\ UNCHANGED <<callerVars, unsupportedSessions, grant, fragments, closedErr,
                   sent, loopVars>>

(* A fragment resolves the call unless it is a non-final chunk.            *)
Resolves(f) == f.callError \/ ~f.chunked \/ f.final

RouteResult(s, c, f) ==
    /\ loop[s] = "recv"
    /\ c \in sent
    /\ c \in pending
    /\ Len(fragments[c]) < MaxFragments
    /\ fragments' = [fragments EXCEPT ![c] = Append(@, f)]
    /\ IF Resolves(f)
       THEN Resolve(c)
       ELSE UNCHANGED <<pending, closes>>
    /\ UNCHANGED <<callerVars, unsupportedSessions, grant, cancelled, closedErr,
                   sent, loopVars>>

CloseAllKeepsMap(s) ==    \* mutant: collects the entries but leaves them in the map
    /\ loop[s] = "closing"
    /\ loop' = [loop EXCEPT ![s] = "resolving"]
    /\ closing' = [closing EXCEPT ![s] = pending]
    /\ UNCHANGED <<callerVars, bridgeVars, entryVars, sent, cur>>

CloseAllForgets(s) ==    \* mutant: empties the map before collecting it
    /\ loop[s] = "closing"
    /\ loop' = [loop EXCEPT ![s] = "resolving"]
    /\ pending' = {}
    /\ UNCHANGED <<callerVars, unsupportedSessions, entryVars, sent, cur, closing>>

(* closeAll under the mutex: collect every entry and empty the map.        *)
CloseAll(s) ==
    /\ loop[s] = "closing"
    /\ loop' = [loop EXCEPT ![s] = "resolving"]
    /\ closing' = [closing EXCEPT ![s] = pending]
    /\ pending' = {}
    /\ UNCHANGED <<callerVars, unsupportedSessions, entryVars, sent, cur>>

FailNoErr(c)  == UNCHANGED closedErr /\ close(c)    \* mutant: entry.err is not set
FailNoWake(c) == closedErr' = closedErr \cup {c} /\ UNCHANGED closes    \* mutant

Fail(c) == closedErr' = closedErr \cup {c} /\ close(c)

(* closeAll after the unlock: one collected entry at a time.               *)
ResolveClosed(s, c) ==
    /\ loop[s] = "resolving"
    /\ c \in closing[s]
    /\ Fail(c)
    /\ closing' = [closing EXCEPT ![s] = @ \ {c}]
    /\ UNCHANGED <<callerVars, bridgeVars, grant, fragments, cancelled, sent,
                   loop, cur>>

EndStream(s) ==
    /\ loop[s] = "resolving"
    /\ closing[s] = {}
    /\ loop' = [loop EXCEPT ![s] = "ended"]
    /\ UNCHANGED <<callerVars, bridgeVars, entryVars, sent, cur, closing>>

(* The steps a loop takes on its own, without an event from the host.      *)
LoopStep(s) ==
    \/ MarkGranted(s) \/ CloseAll(s) \/ EndStream(s)
    \/ \E c \in Calls : ResolveClosed(s, c)

(* The Send of an ACK returns, if it does.                                 *)
AckReturns(s) == AckOk(s) \/ AckErr(s)

HostEvent(s) ==
    \/ OpenStream(s) \/ RecvErr(s)
    \/ \E c \in Calls : \/ RecvRequest(s, c) \/ RouteCancel(s, c)
                        \/ \E f \in Fragments : RouteResult(s, c, f)

-----------------------------------------------------------------------------
(* Every call has returned and every stream has ended.                     *)
Terminated ==
    /\ \A c \in Calls : pc[c] = "done"
    /\ \A s \in Streams : loop[s] = "ended"
    /\ UNCHANGED vars

Next ==
    \/ \E c \in Calls : \/ Begin(c) \/ Proceed(c) \/ SendReturns(c)
                        \/ Expire(c) \/ Cancel(c)
    \/ \E s \in Streams : LoopStep(s) \/ AckReturns(s) \/ HostEvent(s)
    \/ Terminated

Spec == Init /\ [][Next]_vars

(* Goroutines that can run do run, and a loop that has work of its own     *)
(* does it.  Nothing is assumed of the host: it may never answer, and it   *)
(* may stop reading, so no Send is assumed to return.                      *)
Scheduling ==
    /\ \A c \in Calls : WF_vars(Proceed(c))
    /\ \A s \in Streams : WF_vars(LoopStep(s))

(* A context with a deadline ends.  What needs it says so: FairSpec does   *)
(* not assume it.                                                          *)
Timers == \A c \in Calls : WF_vars(Expire(c))

FairSpec == Spec /\ Scheduling

-----------------------------------------------------------------------------
(* The variables have their types, and exactly the calls that returned     *)
(* have an outcome (the error of an ended context is never nil).           *)
TypeOK ==
    /\ pc \in [Calls -> PCs]
    /\ ctxErr \in [Calls -> {"none", "deadline", "canceled"}]
    /\ armed \subseteq Calls
    /\ ret \in [Calls -> Outcomes \cup {"none"}]
    /\ \A c \in Calls : ret[c] = "none" <=> pc[c] # "done"
    /\ pending \subseteq Calls
    /\ unsupportedSessions \subseteq Sessions
    /\ grant \subseteq Calls
    /\ fragments \in [Calls -> Seq(Fragments)]
    /\ cancelled \subseteq Calls
    /\ closedErr \subseteq Calls
    /\ closes \in [Calls -> Nat]
    /\ sent \subseteq Calls
    /\ loop \in [Streams -> LoopStates]
    /\ cur \in [Streams -> SUBSET Calls]
    /\ closing \in [Streams -> SUBSET Calls]

(* No entry's done channel is closed twice, which would panic the adapter  *)
(* process: routeCancel, routeResult and the closeAll of every stream      *)
(* compete for an entry, and the map decides which of them owns it.        *)
NoDoubleClose == \A c \in Calls : closes[c] <= 1

(* A resolved entry says why it was resolved: finishToolCall indexes       *)
(* fragments[0] of an entry that is neither failed nor cancelled, and the  *)
(* last fragment is then one that resolves the call.                       *)
ResolvedHasCause ==
    \A c \in Calls :
        closes[c] > 0 => \/ c \in closedErr \cup cancelled
                         \/ /\ fragments[c] # <<>>
                            /\ Resolves(fragments[c][Len(fragments[c])])

(* A caller blocked in select on an unresolved entry can still be woken by *)
(* a reply or by a dying stream: its entry is in the map, or in the hands  *)
(* of exactly the closeAll that is about to resolve it.                    *)
NoLostCaller ==
    \A c \in Calls :
        pc[c] = "wait" /\ closes[c] = 0 =>
            c \in pending \/ \E s \in Streams : c \in closing[s]

(* Whatever way CallAdapterTool returns, it leaves no entry in the map.    *)
NoLeak == \A c \in Calls : pc[c] = "done" => c \notin pending

(* A session is written off only by a call of that session that was        *)
(* granted, ran into its deadline (not a cancellation), and was never      *)
(* resolved: a denial, a result or a dying stream that wins the race       *)
(* against the deadline leaves the session usable.                         *)
CachedOnlyAfterBareGrant ==
    \A session \in unsupportedSessions :
        \E c \in Calls : /\ SessionOf[c] = session
                        /\ ret[c] = "unsupported"
                        /\ c \in grant
                        /\ ctxErr[c] = "deadline"
                        /\ closes[c] = 0

(* The caller reads an entry without the mutex once done is closed, so no  *)
(* loop may write to it from then on: a late, duplicated or reordered      *)
(* grant, denial or fragment is dropped.                                   *)
EntryFrozen(c) ==
    closes[c] > 0 => /\ fragments'[c] = fragments[c]
                     /\ closes'[c] = closes[c]
                     /\ c \in grant' <=> c \in grant
                     /\ c \in cancelled' <=> c \in cancelled
                     /\ c \in closedErr' <=> c \in closedErr
ResolvedEntryFrozen == [][\A c \in Calls : EntryFrozen(c)]_vars

(* The call stays for ever in sink.Send, which no deadline bounds: the     *)
(* SDK arms its own only after Send has returned.                          *)
BlockedInSend(c) == <>[](pc[c] = "sending")

(* A started call returns, whatever the host answers or fails to answer,   *)
(* unless the host lets it block in Send: every call waits under a         *)
(* deadline, its caller's or the SDK's own.                                *)
CallReturns ==
    Timers => \A c \in Calls :
                 (pc[c] # "idle" ~> pc[c] = "done") \/ BlockedInSend(c)

(* A stream that dies wakes every call pending at that moment, without the *)
(* help of any deadline; only a call blocked in Send does not see it.      *)
DyingStreamWakesCallers ==
    \A s \in Streams, c \in Calls :
        \/ loop[s] = "closing" /\ c \in pending ~> pc[c] = "done"
        \/ BlockedInSend(c)

-----------------------------------------------------------------------------
(* What the comments of toolcall.go say of the bridge and the code does    *)
(* not do.                                                                 *)

(* A sent call resolves to host_unsupported only if no tool_call_result    *)
(* came within its deadline.                                               *)
UnsupportedMeansNoResult ==
    \A c \in sent : ret[c] = "unsupported" => fragments[c] = <<>>

(* A host's call_error reaches the caller as the typed failure.            *)
CallErrorIsTyped ==
    \A c \in Calls : ret[c] = "badChunks" =>
        \A i \in DOMAIN fragments[c] : ~fragments[c][i].callError
=============================================================================
