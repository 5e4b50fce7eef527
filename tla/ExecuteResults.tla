--------------------------- MODULE ExecuteResults ---------------------------
(***************************************************************************)
(* An ExecuteResult on the wire: how the spec tier frames one              *)
(* (specService.Execute, adapterhost/spec.go) and how the conformance case *)
(* reads one stream's messages back (joinExecuteResultFragments,           *)
(* adapterhost/conformance.go).                                            *)
(*                                                                         *)
(* A logical result is an outcome and outputs, a sequence of bytes.  A     *)
(* message carries an outcome, a piece of the outputs and a chunk header;  *)
(* an unchunked message has the zero header.  The outcome "" is unset.     *)
(***************************************************************************)
EXTENDS Integers, Sequences, SequencesExt

Result(outcome, outputs) == [outcome |-> outcome, outputs |-> outputs]

Whole(r) ==
    [outcome |-> r.outcome, outputs |-> r.outputs,
     chunked |-> FALSE, seq |-> 0, total |-> 0, final |-> FALSE]

Chunk(outcome, outputs, seq, total, final) ==
    [outcome |-> outcome, outputs |-> outputs,
     chunked |-> TRUE, seq |-> seq, total |-> total, final |-> final]

(* What a script may expect and what a message may be.                     *)
IsResult(r) ==
    r = Result(r.outcome, r.outputs) /\ r.outputs \in Seq(Range(r.outputs))

IsMessage(m) ==
    /\ m.chunked \in BOOLEAN /\ m.seq \in Nat /\ m.total \in Nat /\ m.final \in BOOLEAN
    /\ m = IF m.chunked THEN Chunk(m.outcome, m.outputs, m.seq, m.total, m.final)
           ELSE Whole(m)

-----------------------------------------------------------------------------
(* v2.ChunkExecuteResultOutputs: the outputs in pieces of at most size     *)
(* bytes, in order, the last one final, the outcome on each.               *)
ChunkExecuteResultOutputs(r, size) ==
    LET total == (Len(r.outputs) + size - 1) \div size
    IN  [i \in 1..total |->
            LET to == IF i * size < Len(r.outputs) THEN i * size ELSE Len(r.outputs)
            IN  Chunk(r.outcome, SubSeq(r.outputs, (i - 1) * size + 1, to),
                      i - 1, total, i = total)]

(* What specService.Execute sends for a result: one unchunked message when *)
(* it fits (v2.NeedsChunking), the chunks otherwise.                       *)
Frame(r, size) ==
    IF Len(r.outputs) <= size THEN <<Whole(r)>> ELSE ChunkExecuteResultOutputs(r, size)

-----------------------------------------------------------------------------
(* joinExecuteResultFragments, check by check.                             *)
Lost(frags) == frags = <<>>
Single(frags) == Len(frags) = 1 /\ ~frags[1].chunked
MixesWhole(frags) == \E i \in DOMAIN frags : ~frags[i].chunked
BadTotal(frags) ==
    \/ frags[1].total = 0 \/ frags[1].total # Len(frags)
    \/ \E i \in DOMAIN frags : frags[i].total # frags[1].total
BadOrder(frags) == \E i \in DOMAIN frags : frags[i].seq # i - 1
BadFinal(frags) ==
    \/ ~frags[Len(frags)].final
    \/ \E i \in 1..(Len(frags) - 1) : frags[i].final
BadOutcomeEach(frags) ==    \* mutant: wants the outcome on every fragment
    \/ frags[1].outcome = ""
    \/ \E i \in 2..Len(frags) : frags[i].outcome # frags[1].outcome

BadOutcome(frags) ==
    \/ frags[1].outcome = ""
    \/ \E i \in 2..Len(frags) : frags[i].outcome \notin {"", frags[1].outcome}

AcceptsAnyOrder(frags) ==    \* mutant: fragments are matched by sequence number only
    \/ Single(frags)
    \/ /\ ~Lost(frags) /\ ~MixesWhole(frags) /\ ~BadTotal(frags)
       /\ {frags[i].seq : i \in DOMAIN frags} = 0..(Len(frags) - 1)
       /\ \E i \in DOMAIN frags : frags[i].final
       /\ ~BadOutcome(frags)

(* The messages join to a result.                                          *)
Accepts(frags) ==
    \/ Single(frags)
    \/ /\ ~Lost(frags) /\ ~MixesWhole(frags) /\ ~BadTotal(frags)
       /\ ~BadOrder(frags) /\ ~BadFinal(frags) /\ ~BadOutcome(frags)

(* The result they join to: the outcome is read from the first message.    *)
Joined(frags) ==
    Result(frags[1].outcome,
           FlattenSeq([i \in DOMAIN frags |-> frags[i].outputs]))

(* sameExecuteResult                                                       *)
SameExecuteResult(a, b) == a.outcome = b.outcome /\ a.outputs = b.outputs

-----------------------------------------------------------------------------
(* The reference: frags is a delivery of r if it is r as one message, or   *)
(* r's outputs cut into consecutive pieces, numbered from 0 in the order   *)
(* they arrive, the last and only the last marked final, with r's outcome  *)
(* on the first and nothing that contradicts it after.                     *)
Delivers(frags, r) ==
    \/ frags = <<Whole(r)>>
    \/ /\ Len(frags) > 0 /\ r.outcome # ""
       /\ \A i \in DOMAIN frags :
            \E outcome \in IF i = 1 THEN {r.outcome} ELSE {"", r.outcome} :
               frags[i] = Chunk(outcome, frags[i].outputs, i - 1, Len(frags), i = Len(frags))
       /\ r.outputs = FlattenSeq([i \in DOMAIN frags |-> frags[i].outputs])
=============================================================================
