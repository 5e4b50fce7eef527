---------------------- MODULE ConcurrentExecuteProofs ----------------------
(***************************************************************************)
(* The concurrent-Execute conformance case, for any number of calls, any   *)
(* script and any adapter: its verdict is right, and what the spec tier    *)
(* sends is one delivery of the author's result.                           *)
(*                                                                         *)
(* A call is followed from both ends.  On the adapter's side, what the     *)
(* stream carried and what Execute has still to send make up the frame of  *)
(* the author's result until Execute returns.  On the driver's side, a     *)
(* call that ended ok joined the whole stream of an Execute that returned  *)
(* nil, and a call that ended in an error has a cause.  An Execute that    *)
(* returned adds nothing to its stream, so both are still true when the    *)
(* verdict is given.                                                       *)
(***************************************************************************)
EXTENDS ConcurrentExecute, ExecuteResultsProofs, FiniteSetTheorems

Wanted   == {w[c] : w \in Scripts, c \in Calls}
Messages == CustomMessages \cup UNION {Range(Frame(r, ChunkSize)) : r \in Wanted}

(* What a script expects is a result, and so are the author's answers.     *)
LEMMA WantedIsResult ==
    ASSUME NEW r \in Wanted
    PROVE  \E S, out, o : out \in Seq(S) /\ r = Result(o, out)
<1>1. PICK w \in Scripts, c \in Calls : r = w[c]
  BY DEF Wanted
<1>2. IsResult(r)
  BY <1>1, ScriptsAssumption, Zenon
<1> QED
  BY <1>2, Zenon DEF IsResult

(* A sequence over a set is one over a larger set.                         *)
LEMMA SeqMonotone ==
    ASSUME NEW S, NEW T, S \subseteq T, NEW s \in Seq(S)
    PROVE  s \in Seq(T)
OBVIOUS

(* Every result of a script is framed into messages.                       *)
LEMMA WantedFrames ==
    /\ \A r \in Wanted : Frame(r, ChunkSize) \in Seq(Messages)
    /\ \A m \in Messages : IsMessage(m)
<1>1. ASSUME NEW r \in Wanted
      PROVE  /\ Frame(r, ChunkSize) \in Seq(Range(Frame(r, ChunkSize)))
             /\ \A m \in Range(Frame(r, ChunkSize)) : IsMessage(m)
  <2>1. PICK S, out, o : out \in Seq(S) /\ r = Result(o, out)
    BY WantedIsResult, Zenon
  <2>2. ChunkSize \in Nat \ {0}
    BY SizesAssumption
  <2> QED
    BY <2>1, <2>2, FrameMessages, Zenon
<1>2. ASSUME NEW r \in Wanted PROVE Frame(r, ChunkSize) \in Seq(Messages)
  <2>1. Range(Frame(r, ChunkSize)) \subseteq Messages
    BY Zenon DEF Messages
  <2> QED
    BY <1>1, <2>1, SeqMonotone
<1>3. \A m \in Messages : IsMessage(m)
  BY <1>1, MessagesAssumption, Zenon DEF Messages
<1> QED
  BY <1>2, <1>3, Zenon

-----------------------------------------------------------------------------
TypeInv ==
    /\ runner \in {"start", "connect", "open", "drive", "pass", "fail"}
    /\ wants \in Scripts
    /\ driver \in [Calls -> {"idle", "recv", "err", "ok"}]
    /\ handler \in [Calls -> {"idle", "run", "sending", "nil", "err"}]
    /\ DOMAIN got = Calls
    /\ author \in [Calls -> Wanted \cup {NoResult}]
    /\ todo \in [Calls -> Seq(Messages)]
    /\ stream \in [Calls -> Seq(Messages)]

(* What a driver's end says of the call.                                   *)
DriverInv ==
    \A c \in Calls :
        /\ driver[c] = "idle" => handler[c] = "idle"
        /\ driver[c] = "ok" =>
              handler[c] = "nil" /\ Accepts(stream[c]) /\ got[c] = Joined(stream[c])
        /\ driver[c] = "err" =>
              \/ handler[c] = "err" \/ c \in cut
              \/ handler[c] = "nil" /\ ~Accepts(stream[c])

(* What specService.Execute has sent, and has still to send.               *)
SendInv ==
    \A c \in Calls \ Custom :
        /\ handler[c] \in {"idle", "run"} => stream[c] = <<>>
        /\ handler[c] = "sending" =>
              author[c] \in Wanted /\ stream[c] \o todo[c] = Frame(author[c], ChunkSize)
        /\ handler[c] = "nil" =>
              author[c] \in Wanted /\ stream[c] = Frame(author[c], ChunkSize)

(* What the case has open in each phase; no call is driven before the    *)
(* session is open, and all have ended when they are judged.               *)
RunnerInv ==
    /\ runner = "start" => held = {}
    /\ runner = "connect" => held = {"listener", "server"}
    /\ held \subseteq {"client", "listener", "server"}
    /\ runner \in {"start", "connect", "open"} => \A c \in Calls : driver[c] = "idle"
    /\ runner = "pass" => Judge
    /\ runner = "fail" =>
          \/ \A c \in Calls : driver[c] = "idle"
          \/ (\A c \in Calls : driver[c] \notin Undecided) /\ ~Judge

CaseInv == TypeInv /\ DriverInv /\ SendInv /\ RunnerInv /\ NothingLeftBehind

USE DEF runnerVars, driverVars, adapterVars

(* The initial states satisfy the invariant.                               *)
LEMMA InitCaseInv == Init => CaseInv
  BY DEF Init, CaseInv, TypeInv, DriverInv, SendInv, RunnerInv, NothingLeftBehind, NoResult

(* The runner's steps keep the invariant.                                  *)
LEMMA RunnerKeeps == CaseInv /\ RunnerStep => CaseInv'
<1> SUFFICES ASSUME CaseInv, RunnerStep PROVE CaseInv'
  OBVIOUS
<1> USE DEF CaseInv, stop, stopServer
<1>1. UNCHANGED <<wants, driverVars, adapterVars>> /\ (Judge' <=> Judge)
  BY DEF RunnerStep, Refuse, Listen, NewClientFails, NewClientOk, OpenFail, OpenOk, Verdict, Judge
<1>2. TypeInv' /\ DriverInv' /\ SendInv'
  <2>1. runner' \in {"start", "connect", "open", "drive", "pass", "fail"}
    BY DEF RunnerStep, Refuse, Listen, NewClientFails, NewClientOk, OpenFail, OpenOk, Verdict
  <2> QED
    BY <1>1, <2>1 DEF TypeInv, DriverInv, SendInv
<1>3. RunnerInv' /\ NothingLeftBehind'
  <2> USE DEF RunnerInv, NothingLeftBehind
  <2>1. CASE Refuse    BY <1>1, <2>1 DEF Refuse
  <2>2. CASE Listen    BY <1>1, <2>2 DEF Listen
  <2>3. CASE NewClientFails  BY <1>1, <2>3 DEF NewClientFails
  <2>4. CASE NewClientOk     BY <1>1, <2>4 DEF NewClientOk
  <2>5. CASE OpenFail  BY <1>1, <2>5 DEF OpenFail
  <2>6. CASE OpenOk    BY <1>1, <2>6 DEF OpenOk
  <2>7. CASE Verdict   BY <1>1, <2>7 DEF Verdict, Undecided
  <2> QED  BY <2>1, <2>2, <2>3, <2>4, <2>5, <2>6, <2>7 DEF RunnerStep
<1> QED  BY <1>2, <1>3

(* A driver's steps keep the invariant.                                    *)
LEMMA DriverKeeps ==
    ASSUME NEW c \in Calls, CaseInv, DriverStep(c)
    PROVE  CaseInv'
<1> USE DEF CaseInv
<1>1. /\ UNCHANGED <<runner, wants, held, author, todo, stream>>
      /\ driver[c] \in Undecided
      /\ driver[c] = "idle" => runner = "drive"
      /\ \A d \in Calls \ {c} :
            driver'[d] = driver[d] /\ handler'[d] = handler[d] /\ got'[d] = got[d]
      /\ handler'[c] = handler[c] \/ (handler[c] = "idle" /\ handler'[c] = "run")
      /\ cut \subseteq cut'
  <2> USE DEF TypeInv, DriverInv, Undecided
  <2>1. CASE StartCall(c)    BY <2>1 DEF StartCall
  <2>2. CASE StreamEnds(c)   BY <2>2 DEF StreamEnds
  <2>3. CASE StreamFails(c)  BY <2>3 DEF StreamFails
  <2>4. CASE RecvFails(c)    BY <2>4 DEF RecvFails
  <2>5. CASE ExecuteFails(c) BY <2>5 DEF ExecuteFails
  <2> QED  BY <2>1, <2>2, <2>3, <2>4, <2>5 DEF DriverStep
<1>2. TypeInv'
  BY DEF DriverStep, StartCall, ExecuteFails, StreamEnds, StreamFails, RecvFails, TypeInv
<1>3. DriverInv'
  <2> USE DEF TypeInv, DriverInv
  <2>1. CASE StartCall(c)    BY <2>1 DEF StartCall
  <2>2. CASE StreamEnds(c)   BY <2>2 DEF StreamEnds
  <2>3. CASE StreamFails(c)  BY <2>3 DEF StreamFails
  <2>4. CASE RecvFails(c)    BY <2>4 DEF RecvFails
  <2>5. CASE ExecuteFails(c) BY <2>5 DEF ExecuteFails
  <2> QED  BY <2>1, <2>2, <2>3, <2>4, <2>5 DEF DriverStep
<1>4. SendInv'
  BY <1>1 DEF SendInv
<1>5. RunnerInv' /\ NothingLeftBehind'
  <2>1. runner = "drive"
    BY <1>1 DEF RunnerInv, TypeInv, Judge, Undecided
  <2> QED
    BY <1>1, <2>1 DEF RunnerInv, NothingLeftBehind
<1> QED  BY <1>2, <1>3, <1>4, <1>5

(* What is appended to a stream is what was next to be sent.               *)
LEMMA SentAndTodo ==
    ASSUME NEW S, NEW s \in Seq(S), NEW t \in Seq(S), t # <<>>
    PROVE  /\ Head(t) \in S /\ Tail(t) \in Seq(S) /\ Append(s, Head(t)) \in Seq(S)
           /\ Append(s, Head(t)) \o Tail(t) = s \o t
<1>1. Head(t) \in S /\ Tail(t) \in Seq(S) /\ Append(s, Head(t)) \in Seq(S)
  OBVIOUS
<1>2. Append(s, Head(t)) \o Tail(t) = s \o t
  <2>1. PICK h \in S, u \in Seq(S) : h = Head(t) /\ u = Tail(t)
    BY <1>1
  <2>3. t = <<h>> \o u
    <3>1. Len(t) = Len(<<h>> \o u) /\ \A i \in 1..Len(t) : t[i] = (<<h>> \o u)[i]
      BY <2>1
    <3> QED
      BY <3>1, SeqEqual
  <2>2. Append(s, h) \o u = s \o (<<h>> \o u)
    OBVIOUS
  <2> QED
    BY <2>1, <2>2, <2>3, Zenon
<1> QED
  BY <1>1, <1>2

(* A step of the adapter on call c leaves the case and the other calls     *)
(* alone, and Execute does not go on after it has returned.                *)
AdapterOnly(c) ==
    /\ UNCHANGED <<runnerVars, driverVars>>
    /\ handler[c] \in {"run", "sending"}
    /\ handler'[c] \in {"run", "sending", "nil", "err"}
    /\ \A d \in Calls \ {c} :
          /\ handler'[d] = handler[d] /\ author'[d] = author[d]
          /\ todo'[d] = todo[d] /\ stream'[d] = stream[d]
    /\ TypeInv'

(* What the adapter's steps change.                                        *)
LEMMA AdapterEffect ==
    ASSUME NEW c \in Calls, CaseInv, AdapterStep(c)
    PROVE  AdapterOnly(c) /\ SendInv'
<1> USE DEF CaseInv, TypeInv, SendInv, AdapterOnly
<1>1. CASE AuthorFails(c)   BY <1>1 DEF AuthorFails
<1>2. CASE SendNext(c)
  <2> DEFINE h == Head(todo[c])
             t == Tail(todo[c])
             s == Append(stream[c], h)
  <2>1. /\ h \in Messages /\ t \in Seq(Messages) /\ s \in Seq(Messages)
        /\ s \o t = stream[c] \o todo[c]
    BY <1>2, SentAndTodo DEF SendNext
  <2>2. stream' = [stream EXCEPT ![c] = s] /\ todo' = [todo EXCEPT ![c] = t]
    BY <1>2 DEF SendNext
  <2> HIDE DEF h, t, s
  <2>3. UNCHANGED <<runnerVars, driverVars, handler, author>> /\ handler[c] = "sending"
    BY <1>2 DEF SendNext
  <2>4. TypeInv'
    BY <2>1, <2>2, <2>3
  <2>5. AdapterOnly(c)
    BY <2>2, <2>3, <2>4
  <2>6. SendInv'
    BY <2>1, <2>2, <2>3
  <2> QED  BY <2>5, <2>6
<1>3. CASE SendFails(c)     BY <1>3 DEF SendFails
<1>4. CASE SentAll(c)
  <2>1. stream[c] \in Seq(Messages) /\ stream[c] \o <<>> = stream[c]
    OBVIOUS
  <2>2. stream[c] \o todo[c] = stream[c]
    BY <1>4, <2>1, Zenon DEF SentAll
  <2>3. c \notin Custom => author[c] \in Wanted /\ stream[c] = Frame(author[c], ChunkSize)
    BY <1>4, <2>2, Zenon DEF SentAll
  <2>4. UNCHANGED <<runnerVars, driverVars, author, todo, stream>>
    BY <1>4 DEF SentAll
  <2> HIDE DEF SendInv
  <2>5. AdapterOnly(c)
    BY <1>4, <2>4 DEF SentAll
  <2>6. handler'[c] = "nil"
    BY <1>4 DEF SentAll
  <2> QED  BY <2>3, <2>4, <2>5, <2>6 DEF SendInv
<1>5. CASE CustomReturn(c)  BY <1>5 DEF CustomReturn
<1>6. ASSUME NEW e \in Calls, AuthorReturns(c, wants[e])
      PROVE  AdapterOnly(c) /\ SendInv'
  <2>1. PICK r \in Wanted : r = wants[e]
    BY DEF Wanted
  <2>2. PICK frame \in Seq(Messages) : frame = Frame(r, ChunkSize)
    BY WantedFrames, Zenon
  <2>3. <<>> \o frame = frame
    OBVIOUS
  <2> QED  BY <1>6, <2>1, <2>2, <2>3 DEF AuthorReturns
<1>7. ASSUME NEW m \in CustomMessages, CustomSend(c, m)
      PROVE  AdapterOnly(c) /\ SendInv'
  <2>1. m \in Messages
    BY DEF Messages
  <2>2. Append(stream[c], m) \in Seq(Messages)
    BY <2>1
  <2> QED  BY <1>7, <2>2 DEF CustomSend
<1> QED  BY <1>1, <1>2, <1>3, <1>4, <1>5, <1>6, <1>7 DEF AdapterStep

(* The adapter's steps keep the invariant.                                 *)
LEMMA AdapterKeeps ==
    ASSUME NEW c \in Calls, CaseInv, AdapterStep(c)
    PROVE  CaseInv'
<1>1. AdapterOnly(c) /\ SendInv'
  BY AdapterEffect
<1>2. TypeInv' /\ DriverInv'
  BY <1>1 DEF AdapterOnly, CaseInv, DriverInv, TypeInv
<1>3. RunnerInv' /\ NothingLeftBehind'
  BY <1>1 DEF AdapterOnly, CaseInv, RunnerInv, NothingLeftBehind, Judge
<1> QED  BY <1>1, <1>2, <1>3 DEF CaseInv

(* Every step keeps the invariant.                                         *)
LEMMA NextCaseInv == CaseInv /\ [Next]_vars => CaseInv'
<1>1. ASSUME CaseInv, UNCHANGED vars PROVE CaseInv'
  BY <1>1 DEF vars, CaseInv, TypeInv, DriverInv, SendInv, RunnerInv, NothingLeftBehind, Judge
<1> QED
  BY <1>1, RunnerKeeps, DriverKeeps, AdapterKeeps DEF Next, Terminated

(* The invariant of the case, from which its properties follow.            *)
THEOREM CaseInvariant == Spec => []CaseInv
  BY InitCaseInv, NextCaseInv, PTL DEF Spec

-----------------------------------------------------------------------------
(* A sequence of messages is a stream.                                     *)
LEMMA MessagesMakeStream ==
    ASSUME NEW S, NEW s \in Seq(S), \A m \in S : IsMessage(m)
    PROVE  IsStream(s)
BY DEF IsStream, Range

(* Results with the same outcome and outputs are the same.                 *)
LEMMA JoinedEqual ==
    ASSUME NEW frags, NEW r \in Wanted, SameExecuteResult(Joined(frags), r)
    PROVE  Joined(frags) = r
<1>1. PICK S, out, o : out \in Seq(S) /\ r = Result(o, out)
  BY WantedIsResult, Zenon
<1>2. PICK p, q : Joined(frags) = Result(p, q)
  BY Zenon DEF Joined
<1>3. p = o /\ q = out
  BY ONLY <1>1, <1>2, SameExecuteResult(Joined(frags), r), ResultFields
     DEF SameExecuteResult
<1> QED
  BY <1>1, <1>2, <1>3, Zenon

(* Every stream carries messages, and what a call is to deliver is a       *)
(* result of the script.                                                   *)
LEMMA StreamsAreStreams ==
    ASSUME CaseInv, NEW c \in Calls
    PROVE  IsStream(stream[c]) /\ stream[c] \in Seq(Messages) /\ wants[c] \in Wanted
<1>1. stream[c] \in Seq(Messages) /\ wants[c] \in Wanted
  BY DEF CaseInv, TypeInv, Wanted
<1>2. IsStream(stream[c])
  BY <1>1, WantedFrames, MessagesMakeStream
<1> QED
  BY <1>1, <1>2

(* A pass is proof that every call's own stream delivered the result       *)
(* expected of that call and that its Execute returned nil, for any number *)
(* of calls, any script and any messages of a hand-written Service.        *)
THEOREM PassIsProof == Spec => []VerdictSound
<1>1. ASSUME CaseInv, runner = "pass", NEW c \in Calls
      PROVE  handler[c] = "nil" /\ Delivers(stream[c], wants[c])
  <2>1. /\ driver[c] = "ok" /\ SameExecuteResult(got[c], wants[c])
        /\ handler[c] = "nil" /\ Accepts(stream[c]) /\ got[c] = Joined(stream[c])
    BY <1>1, Zenon DEF CaseInv, RunnerInv, DriverInv, Judge
  <2>2. Delivers(stream[c], Joined(stream[c]))
    BY <1>1, <2>1, StreamsAreStreams, AcceptedIsDelivered, Zenon
  <2>3. Joined(stream[c]) = wants[c]
    BY <1>1, <2>1, StreamsAreStreams, JoinedEqual, Zenon
  <2> QED
    BY <2>1, <2>2, <2>3, Zenon
<1>2. CaseInv => VerdictSound
  BY <1>1, Zenon DEF VerdictSound
<1> QED
  BY <1>2, CaseInvariant, PTL

(* A case that had enough calls and judged them fails only an adapter that *)
(* earned it, or for an end of a call on the client's side.                *)
THEOREM FailIsEarned == Spec => []VerdictComplete
<1>1. ASSUME CaseInv, NEW c \in Calls, Delivers(stream[c], wants[c])
      PROVE  Accepts(stream[c]) /\ Joined(stream[c]) = wants[c]
  <2>1. PICK S, out, o : out \in Seq(S) /\ wants[c] = Result(o, out)
    BY <1>1, StreamsAreStreams, WantedIsResult, Zenon
  <2>2. stream[c] \in Seq(Messages) /\ Delivers(stream[c], Result(o, out))
    BY <1>1, <2>1, StreamsAreStreams, Zenon
  <2> QED
    BY <2>1, <2>2, DeliveredIsAccepted, Zenon
<1>2. ASSUME CaseInv, runner = "fail", Cardinality(Calls) >= MinCalls,
             \A c \in Calls : driver[c] \notin Undecided
      PROVE  \E c \in Calls : \/ handler[c] = "err" \/ c \in cut
                              \/ ~Delivers(stream[c], wants[c])
  <2>1. Calls # {}
    BY <1>2, FS_EmptySet, CallsAssumption, SizesAssumption
  <2>2. ~Judge
    BY <1>2, <2>1, Zenon DEF CaseInv, RunnerInv, Undecided
  <2>3. PICK c \in Calls : ~(driver[c] = "ok" /\ SameExecuteResult(got[c], wants[c]))
    BY <2>2, Zenon DEF Judge
  <2>4. driver[c] \in {"ok", "err"}
    BY <1>2 DEF CaseInv, TypeInv, Undecided
  <2>5. CASE driver[c] = "err"
    BY <1>1, <1>2, <2>5, Zenon DEF CaseInv, DriverInv
  <2>6. CASE driver[c] = "ok"
    <3>1. got[c] = Joined(stream[c])
      BY <1>2, <2>6, Zenon DEF CaseInv, DriverInv
    <3>2. Joined(stream[c]) # wants[c]
      BY <2>3, <2>6, <3>1, Zenon DEF SameExecuteResult
    <3> QED
      BY <1>1, <1>2, <3>2, Zenon
  <2> QED
    BY <2>4, <2>5, <2>6
<1>3. CaseInv => VerdictComplete
  BY <1>2, Zenon DEF VerdictComplete
<1> QED
  BY <1>3, CaseInvariant, PTL

(* However the result is chunked and whichever Send fails, an Execute of   *)
(* the spec tier that returns nil has delivered the author's one result;   *)
(* the only exception is a result that needs chunking and has no outcome.  *)
THEOREM SpecTierDelivers == Spec => []SpecDeliversOneResult
<1>1. ASSUME CaseInv, NEW c \in Calls \ Custom, handler[c] = "nil"
      PROVE  \/ Delivers(stream[c], author[c])
             \/ /\ author[c].outcome = "" /\ Len(author[c].outputs) > ChunkSize
                /\ ~Accepts(stream[c])
  <2>1. author[c] \in Wanted /\ stream[c] = Frame(author[c], ChunkSize)
    BY <1>1, Zenon DEF CaseInv, SendInv
  <2>2. PICK S, out, o : out \in Seq(S) /\ author[c] = Result(o, out)
    BY <2>1, WantedIsResult, Zenon
  <2>3. author[c].outcome = o /\ author[c].outputs = out
    BY ONLY <2>2, ResultFields
  <2>4. ChunkSize \in Nat \ {0}
    BY SizesAssumption
  <2>5. CASE o # "" \/ Len(out) <= ChunkSize
    BY <2>1, <2>2, <2>4, <2>5, FrameDelivers, Zenon
  <2>6. CASE o = "" /\ ~(Len(out) <= ChunkSize)
    <3>1. ~Accepts(stream[c])
      BY <2>1, <2>2, <2>4, <2>6, FrameRefused, Zenon
    <3>2. Len(out) > ChunkSize
      BY <2>2, <2>4, <2>6, LongIsNotEmpty, Zenon
    <3> QED
      BY <2>3, <2>6, <3>1, <3>2, Zenon
  <2> QED
    BY <2>5, <2>6, Zenon
<1>2. CaseInv => SpecDeliversOneResult
  BY <1>1, Zenon DEF SpecDeliversOneResult
<1> QED
  BY <1>2, CaseInvariant, PTL

(* However the case ends, with a client or without one, nothing it opened  *)
(* is left behind.                                                         *)
THEOREM CaseCleansUp == Spec => []NothingLeftBehind
  BY CaseInvariant, PTL DEF CaseInv
=============================================================================
