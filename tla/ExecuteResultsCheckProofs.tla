--------------------- MODULE ExecuteResultsCheckProofs ---------------------
(***************************************************************************)
(* joinExecuteResultFragments accepts exactly the deliveries, for streams  *)
(* of any length, with any outcomes, pieces and headers.                   *)
(***************************************************************************)
EXTENDS ExecuteResultsCheck, ExecuteResultsProofs

(* Every message a stream can carry has the fields of one.                 *)
LEMMA MessagesAreMessages == \A m \in Messages : IsMessage(m)
  BY WholeIsMessage, ChunkIsMessage, BoundAssumption DEF Messages

(* A stream only ever grows by messages.                                   *)
LEMMA StreamType == Spec => [](stream \in Seq(Messages))
<1>1. Init => stream \in Seq(Messages)
  BY DEF Init
<1>2. stream \in Seq(Messages) /\ [Recv]_stream => (stream \in Seq(Messages))'
  BY DEF Recv
<1> QED
  BY <1>1, <1>2, PTL DEF Spec

(* Whatever messages arrive on a stream, in whatever order and however     *)
(* many: joinExecuteResultFragments accepts the stream exactly when it     *)
(* delivers some result, and joins it to that result.                      *)
THEOREM JoinAlwaysExact == Spec => []JoinIsExact
<1>1. ASSUME stream \in Seq(Messages) PROVE JoinIsExact
  <2>1. IsStream(stream)
    BY <1>1, MessagesAreMessages DEF IsStream, Range
  <2>2. Accepts(stream) => Delivers(stream, Joined(stream))
    BY <2>1, AcceptedIsDelivered
  <2>3. ASSUME NEW r \in Results, Delivers(stream, r)
        PROVE  Accepts(stream) /\ Joined(stream) = r
    <3>1. PICK o, out : r = Result(o, out)
      BY ResultsAssumption
    <3> QED
      BY <1>1, <2>3, <3>1, DeliveredIsAccepted
  <2> QED
    BY <2>2, <2>3 DEF JoinIsExact
<1> QED
  BY <1>1, StreamType, PTL
=============================================================================
