------------------------- MODULE ExecuteResultsCheck -------------------------
(***************************************************************************)
(* joinExecuteResultFragments against its reference, on every sequence of  *)
(* messages up to a bound: a stream grows message by message, in any       *)
(* order, with any header.                                                 *)
(***************************************************************************)
EXTENDS ExecuteResults

CONSTANTS
    Outcomes,    \* outcomes a message may carry, "" among them
    Pieces,      \* outputs a message may carry
    Results,     \* the logical results a sender may mean
    MaxMessages  \* bound on the messages of one stream, and on chunk.total

ASSUME BoundAssumption == MaxMessages \in Nat
ASSUME ResultsAssumption == \A r \in Results : r = Result(r.outcome, r.outputs)

VARIABLE stream   \* the ExecuteResult messages received on one stream

Messages ==
    {Whole(Result(outcome, piece)) : outcome \in Outcomes, piece \in Pieces} \cup
    {Chunk(outcome, piece, seq, total, final) :
        outcome \in Outcomes, piece \in Pieces, seq \in 0..(MaxMessages - 1),
        total \in 0..MaxMessages, final \in BOOLEAN}

Init == stream = <<>>

(* driveConformanceExecute collects one more ExecuteResult.                *)
Recv ==
    /\ Len(stream) < MaxMessages
    /\ \E m \in Messages : stream' = Append(stream, m)

Spec == Init /\ [][Recv]_stream

(* A stream is accepted exactly when it delivers some result, and then it  *)
(* is joined to that result: no lost, duplicated, reordered or contradicted*)
(* message passes, and no correct delivery is refused.                     *)
JoinIsExact ==
    /\ Accepts(stream) => Delivers(stream, Joined(stream))
    /\ \A r \in Results : Delivers(stream, r) => Accepts(stream) /\ Joined(stream) = r
=============================================================================
