------------------------ MODULE ExecuteResultsProofs ------------------------
(***************************************************************************)
(* Theorems about the framing of an ExecuteResult, for outputs of any      *)
(* length, any chunk size and streams of any number of messages.           *)
(*                                                                         *)
(* FlattenSeq is a recursive function; that it is the function its         *)
(* recursion describes is an induction over the natural numbers, which is  *)
(* done here with a set for the predicate.                                 *)
(***************************************************************************)
EXTENDS ExecuteResults, SequenceTheorems, WellFoundedInduction, TLAPS

(* A set that has 0 and with every number the next has them all.           *)
LEMMA NatSetInduction ==
    ASSUME NEW S, 0 \in S, \A n \in Nat : n \in S => n + 1 \in S
    PROVE  Nat \subseteq S
<1> DEFINE Less    == OpToRel(<, Nat)
           Missing == Nat \ S
<1> SUFFICES ASSUME Missing # {} PROVE FALSE
  OBVIOUS
<1>1. IsWellFoundedOn(Less, Nat)
  BY NatLessThanWellFounded
<1>2. \A x, y \in Nat : y < x => <<y, x>> \in Less
  BY DEF OpToRel
<1> HIDE DEF Less
<1>3. \E x \in Missing : \A y \in Missing : ~(<<y, x>> \in Less)
  BY <1>1, WFMin
<1>4. PICK x \in Missing : \A y \in Missing : ~(<<y, x>> \in Less)
  BY <1>3
<1>5. x # 0 /\ x - 1 \in Nat /\ x - 1 < x
  BY <1>4
<1>6. x - 1 \in S
  BY <1>2, <1>4, <1>5
<1> QED
  BY <1>4, <1>5, <1>6

(* The recursion of FlattenSeq has one solution, so that whatever          *)
(* satisfies it is what FlattenSeq computes.                               *)
LEMMA FlattenIsSolution ==
    \A seqs, g :
        /\ Len(seqs) \in Nat \ {0}
        /\ g = [i \in 1..Len(seqs) |-> IF i = 1 THEN seqs[i] ELSE g[i - 1] \o seqs[i]]
        => FlattenSeq(seqs) = g[Len(seqs)]
<1>1. SUFFICES
        ASSUME NEW seqs, NEW g, Len(seqs) \in Nat \ {0},
               g = [i \in 1..Len(seqs) |-> IF i = 1 THEN seqs[i] ELSE g[i - 1] \o seqs[i]]
        PROVE  FlattenSeq(seqs) = g[Len(seqs)]
  OBVIOUS
<1> DEFINE n == Len(seqs)
           f == CHOOSE h : h = [i \in 1..n |-> IF i = 1 THEN seqs[i] ELSE h[i - 1] \o seqs[i]]
           F == [i \in 1..n |-> IF i = 1 THEN seqs[i] ELSE f[i - 1] \o seqs[i]]
           G == [i \in 1..n |-> IF i = 1 THEN seqs[i] ELSE g[i - 1] \o seqs[i]]
           Same == {m \in Nat : m \in 1..n => f[m] = g[m]}
<1>2. FlattenSeq(seqs) = f[n]
  BY <1>1 DEF FlattenSeq
<1>3. f = F /\ g = G
  BY <1>1
<1>4. n \in Nat \ {0}
  BY <1>1
<1> HIDE DEF f, n
<1>5. \A i \in 1..n : F[i] = IF i = 1 THEN seqs[i] ELSE f[i - 1] \o seqs[i]
  BY Zenon
<1>6. \A i \in 1..n : G[i] = IF i = 1 THEN seqs[i] ELSE g[i - 1] \o seqs[i]
  BY Zenon
<1> HIDE DEF F, G
<1>7. 0 \in Same
  OBVIOUS
<1>8. ASSUME NEW m \in Nat, m \in Same
      PROVE  m + 1 \in Same
  <2>1. CASE m + 1 \notin 1..n
    BY <2>1
  <2>2. CASE m = 0 /\ m + 1 \in 1..n
    BY <1>3, <1>5, <1>6, <2>2
  <2>3. CASE m # 0 /\ m + 1 \in 1..n
    <3>1. PICK i \in 1..n : i = m + 1 /\ i # 1 /\ i - 1 = m /\ f[i - 1] = g[i - 1]
      BY <1>4, <1>8, <2>3
    <3>2. F[i] = f[i - 1] \o seqs[i] /\ G[i] = g[i - 1] \o seqs[i]
      BY <1>5, <1>6, <3>1, Zenon
    <3>3. F[i] = G[i]
      BY <3>1, <3>2, Zenon
    <3>4. f[m + 1] = g[m + 1]
      BY <1>3, <3>1, <3>3, Zenon
    <3> QED
      BY <3>4
  <2> QED
    BY <2>1, <2>2, <2>3
<1>9. n \in Same
  <2> HIDE DEF Same
  <2> QED
    BY <1>4, <1>7, <1>8, NatSetInduction
<1> QED
  BY <1>2, <1>4, <1>9 DEF n
-----------------------------------------------------------------------------
(* The chunks of L bytes in pieces of size: there are n of them, all but   *)
(* the last are full, and the last ends where the outputs end.             *)
LEMMA ChunkBounds ==
    ASSUME NEW L \in Nat \ {0}, NEW size \in Nat \ {0}, NEW n,
           n = (L + size - 1) \div size
    PROVE  /\ n \in Nat \ {0}
           /\ \A i \in 1..n : (i - 1) * size \in Nat /\ (i - 1) * size < L
           /\ n * size >= L
           /\ L > size => n > 1
<1>1. n \in Nat /\ size * n <= L + size - 1 /\ L + size - 1 < size * n + size
  OBVIOUS
<1>2. n # 0
  BY <1>1
<1>3. ASSUME NEW i \in 1..n
      PROVE  (i - 1) * size \in Nat /\ (i - 1) * size < L
  <2>1. (i - 1) * size \in Nat
    BY <1>1
  <2>2. (n - i) * size >= 0
    BY <1>1
  <2>3. (i - 1) * size = size * n - size - (n - i) * size
    BY <1>1
  <2> QED
    BY <1>1, <2>1, <2>2, <2>3
<1>4. n * size >= L
  BY <1>1
<1>5. L > size => n > 1
  BY <1>1, <1>2, <1>4
<1> QED
  BY <1>1, <1>2, <1>3, <1>4, <1>5

(* Cutting outputs into pieces and joining them gives the outputs back.    *)
LEMMA ChunksJoin ==
    ASSUME NEW B, NEW out \in Seq(B), out # <<>>, NEW size \in Nat \ {0}, NEW outcome,
           NEW chunks, chunks = ChunkExecuteResultOutputs(Result(outcome, out), size)
    PROVE  FlattenSeq([i \in DOMAIN chunks |-> chunks[i].outputs]) = out
<1> DEFINE L == Len(out)
           n == (L + size - 1) \div size
           To(i) == IF i * size < L THEN i * size ELSE L
           pieces == [i \in 1..n |-> SubSeq(out, (i - 1) * size + 1, To(i))]
           g == [i \in 1..n |-> SubSeq(out, 1, To(i))]
<1>1. [i \in DOMAIN chunks |-> chunks[i].outputs] = pieces
  BY DEF ChunkExecuteResultOutputs, Chunk, Result
<1>2. L \in Nat \ {0}
  OBVIOUS
<1>3. /\ n \in Nat \ {0} /\ n * size >= L
      /\ \A i \in 1..n : (i - 1) * size \in Nat /\ (i - 1) * size < L
  BY <1>2, ChunkBounds
<1> HIDE DEF n
<1>4. Len(pieces) = n
  BY <1>3
<1>5. ASSUME NEW i \in 1..n
      PROVE  g[i] = IF i = 1 THEN pieces[i] ELSE g[i - 1] \o pieces[i]
  <2>1. To(i) \in Nat /\ To(i) <= L
    BY <1>2, <1>3
  <2>2. CASE i = 1
    <3>1. (i - 1) * size + 1 = 1
      BY <2>2
    <3>2. g[i] = SubSeq(out, 1, To(i)) /\ pieces[i] = SubSeq(out, (i - 1) * size + 1, To(i))
      BY Zenon
    <3> QED
      BY <2>2, <3>1, <3>2, Zenon
  <2>3. CASE i # 1
    <3>1. i - 1 \in 1..n /\ To(i - 1) = (i - 1) * size
      BY <1>3, <2>3
    <3>2. (i - 1) * size <= To(i)
      BY <1>3
    <3>3. SubSeq(out, 1, (i - 1) * size) \o SubSeq(out, (i - 1) * size + 1, To(i))
            = SubSeq(out, 1, To(i))
      <4>1. PICK a \in 0..L : a = (i - 1) * size
        BY <1>2, <1>3
      <4>2. PICK e \in a..L : e = To(i)
        BY <2>1, <3>2, <4>1
      <4>3. 1 \in 1..Len(out) + 1 /\ a \in 1 - 1..Len(out) /\ e \in a..Len(out)
        BY <1>2
      <4>4. SubSeq(out, 1, a) \o SubSeq(out, a + 1, e) = SubSeq(out, 1, e)
        BY <4>3, ConcatAdjacentSubSeq, Zenon
      <4> QED
        BY <4>1, <4>2, <4>4, Zenon
    <3> QED
      BY <2>3, <3>1, <3>3
  <2> QED
    BY <2>2, <2>3
<1>6. g[n] = out
  <2>1. To(n) = L
    BY <1>2, <1>3
  <2> QED
    BY <1>3, <2>1
<1>7. g = [i \in 1..n |-> IF i = 1 THEN pieces[i] ELSE g[i - 1] \o pieces[i]]
  BY <1>5, Zenon
<1> HIDE DEF g, pieces
<1>8. FlattenSeq(pieces) = g[n]
  BY <1>3, <1>4, <1>7, FlattenIsSolution, Zenon
<1> QED
  BY <1>1, <1>6, <1>8

(* One message's outputs are what they flatten to.                         *)
LEMMA FlattenOne ==
    ASSUME NEW seqs, Len(seqs) = 1
    PROVE  FlattenSeq(seqs) = seqs[1]
<1> DEFINE g == [i \in 1..1 |-> seqs[1]]
<1>1. g = [i \in 1..Len(seqs) |-> IF i = 1 THEN seqs[i] ELSE g[i - 1] \o seqs[i]]
  <2>1. \A i \in 1..1 : i = 1
    OBVIOUS
  <2> QED
    BY <2>1, Zenon
<1>2. Len(seqs) \in Nat \ {0} /\ g[Len(seqs)] = seqs[1]
  OBVIOUS
<1> HIDE DEF g
<1> QED
  BY <1>1, <1>2, FlattenIsSolution, Zenon

-----------------------------------------------------------------------------
(* A sequence of messages as a stream may carry them.                      *)
IsStream(frags) == frags \in Seq(Range(frags)) /\ \A i \in DOMAIN frags : IsMessage(frags[i])

(* An unchunked result and a chunk are messages.                           *)
LEMMA WholeIsMessage ==
    ASSUME NEW o, NEW out
    PROVE  IsMessage(Whole(Result(o, out)))
BY DEF IsMessage, Whole, Result

LEMMA ChunkIsMessage ==
    ASSUME NEW o, NEW out, NEW seq \in Nat, NEW total \in Nat, NEW final \in BOOLEAN
    PROVE  IsMessage(Chunk(o, out, seq, total, final))
BY DEF IsMessage, Chunk

(* Every accepted stream delivers the result it is joined to.              *)
LEMMA AcceptedIsDelivered ==
    ASSUME NEW frags, IsStream(frags), Accepts(frags)
    PROVE  Delivers(frags, Joined(frags))
<1> DEFINE outs == [i \in DOMAIN frags |-> frags[i].outputs]
<1>1. /\ frags \in Seq(Range(frags)) /\ Len(frags) \in Nat /\ DOMAIN frags = 1..Len(frags)
      /\ \A i \in DOMAIN frags : IsMessage(frags[i])
  BY DEF IsStream
<1>2. Joined(frags) = Result(frags[1].outcome, FlattenSeq(outs))
  BY DEF Joined
<1>3. CASE Single(frags)
  <2>1. Len(frags) = 1 /\ frags = <<frags[1]>> /\ Len(outs) = 1 /\ outs[1] = frags[1].outputs
    BY <1>1, <1>3 DEF Single
  <2>2. FlattenSeq(outs) = frags[1].outputs
    BY <2>1, FlattenOne
  <2>3. frags[1] = Whole(frags[1])
    BY <1>1, <1>3, <2>1 DEF Single, IsMessage
  <2>4. Whole(frags[1]) = Whole(Result(frags[1].outcome, frags[1].outputs))
    BY DEF Whole, Result
  <2> QED
    BY <1>2, <2>1, <2>2, <2>3, <2>4 DEF Delivers
<1>4. CASE ~Single(frags)
  <2> DEFINE r == Joined(frags)
  <2>1. /\ Len(frags) > 0
        /\ \A i \in DOMAIN frags : frags[i].chunked
        /\ \A i \in DOMAIN frags : frags[i].total = Len(frags)
        /\ \A i \in DOMAIN frags : frags[i].seq = i - 1
        /\ frags[Len(frags)].final /\ \A i \in 1..(Len(frags) - 1) : ~frags[i].final
        /\ frags[1].outcome # ""
        /\ \A i \in 2..Len(frags) : frags[i].outcome \in {"", frags[1].outcome}
    <3>1. /\ ~Lost(frags) /\ ~MixesWhole(frags) /\ ~BadTotal(frags)
          /\ ~BadOrder(frags) /\ ~BadFinal(frags) /\ ~BadOutcome(frags)
      BY <1>4 DEF Accepts
    <3>2. Len(frags) > 0
      BY <1>1, <3>1 DEF Lost
    <3>3. \A i \in DOMAIN frags : frags[i].chunked
      BY <3>1, Zenon DEF MixesWhole
    <3>4. \A i \in DOMAIN frags : frags[i].total = Len(frags)
      BY <3>1, Zenon DEF BadTotal
    <3>5. \A i \in DOMAIN frags : frags[i].seq = i - 1
      BY <3>1, Zenon DEF BadOrder
    <3>6. frags[Len(frags)].final /\ \A i \in 1..(Len(frags) - 1) : ~frags[i].final
      BY <3>1, Zenon DEF BadFinal
    <3>7. /\ frags[1].outcome # ""
          /\ \A i \in 2..Len(frags) : frags[i].outcome \in {"", frags[1].outcome}
      BY <3>1, Zenon DEF BadOutcome
    <3> QED
      BY <3>2, <3>3, <3>4, <3>5, <3>6, <3>7, Zenon
  <2>2. r.outcome = frags[1].outcome /\ r.outputs = FlattenSeq(outs)
    BY <1>2 DEF Result
  <2>3. ASSUME NEW i \in DOMAIN frags
        PROVE  \E outcome \in IF i = 1 THEN {r.outcome} ELSE {"", r.outcome} :
                 frags[i] = Chunk(outcome, frags[i].outputs, i - 1, Len(frags), i = Len(frags))
    <3>1. frags[i].final = (i = Len(frags))
      <4>1. frags[i].final \in BOOLEAN /\ (i # Len(frags) => i \in 1..(Len(frags) - 1))
        BY <1>1 DEF IsMessage
      <4> QED
        BY <2>1, <4>1, Zenon
    <3>2. frags[i] = Chunk(frags[i].outcome, frags[i].outputs, frags[i].seq,
                           frags[i].total, frags[i].final)
      BY <1>1, <2>1 DEF IsMessage
    <3>3. frags[i].outcome \in IF i = 1 THEN {r.outcome} ELSE {"", r.outcome}
      <4>1. i = 1 \/ i \in 2..Len(frags)
        BY <1>1
      <4> QED
        BY <2>1, <2>2, <4>1, Zenon
    <3>4. frags[i] = Chunk(frags[i].outcome, frags[i].outputs, i - 1, Len(frags),
                           i = Len(frags))
      BY <2>1, <3>1, <3>2, Zenon
    <3> QED
      BY <3>3, <3>4, Zenon
  <2> QED
    BY <2>1, <2>2, <2>3, Zenon DEF Delivers
<1> QED
  BY <1>3, <1>4

(* The fields of a result and of a chunk.                                  *)
LEMMA ResultFields ==
    ASSUME NEW o, NEW out
    PROVE  Result(o, out).outcome = o /\ Result(o, out).outputs = out
BY DEF Result

LEMMA ChunkFields ==
    ASSUME NEW m, NEW o, NEW out, NEW seq, NEW total, NEW final,
           m = Chunk(o, out, seq, total, final)
    PROVE  /\ m.outcome = o /\ m.outputs = out /\ m.chunked
           /\ m.seq = seq /\ m.total = total /\ m.final = final
BY DEF Chunk

(* Every delivery of a result is accepted and joined to that result.       *)
LEMMA DeliveredIsAccepted ==
    ASSUME NEW S, NEW frags \in Seq(S), NEW o, NEW out,
           Delivers(frags, Result(o, out))
    PROVE  Accepts(frags) /\ Joined(frags) = Result(o, out)
<1> DEFINE outs == [i \in DOMAIN frags |-> frags[i].outputs]
           whole == <<Whole(Result(o, out))>>
<1>1. Joined(frags) = Result(frags[1].outcome, FlattenSeq(outs))
  BY DEF Joined
<1>2. Result(o, out).outcome = o /\ Result(o, out).outputs = out
  BY ResultFields, Zenon
<1>3. CASE frags = whole
  <2>1. Len(whole) = 1 /\ whole[1] = Whole(Result(o, out)) /\ DOMAIN whole = 1..1
    OBVIOUS
  <2>2. /\ Whole(Result(o, out)).outcome = o /\ Whole(Result(o, out)).outputs = out
        /\ ~Whole(Result(o, out)).chunked
    BY <1>2 DEF Whole
  <2>3. Len(outs) = 1 /\ outs[1] = out
    BY <1>3, <2>1, <2>2
  <2>4. FlattenSeq(outs) = out
    BY <2>3, FlattenOne, Zenon
  <2>5. Single(frags) /\ frags[1].outcome = o
    BY <1>3, <2>1, <2>2, Zenon DEF Single
  <2> QED
    BY <1>1, <2>4, <2>5, Zenon DEF Accepts
<1>4. CASE frags # whole
  <2>1. /\ Len(frags) > 0 /\ o # "" /\ out = FlattenSeq(outs)
        /\ \A i \in DOMAIN frags :
             \E outcome \in IF i = 1 THEN {o} ELSE {"", o} :
                frags[i] = Chunk(outcome, frags[i].outputs, i - 1, Len(frags), i = Len(frags))
    <3> DEFINE r == Result(o, out)
    <3>1. r.outcome = o /\ r.outputs = out
      BY <1>2, Zenon
    <3>2. Delivers(frags, r) /\ frags # <<Whole(r)>>
      BY <1>4
    <3> HIDE DEF r
    <3> QED
      BY <3>1, <3>2, Zenon DEF Delivers
  <2>2. Len(frags) \in Nat \ {0}
    <3>1. Len(frags) > 0
      BY <2>1, Zenon
    <3> QED
      BY <3>1
  <2>3. ASSUME NEW i \in DOMAIN frags
        PROVE  /\ frags[i].chunked /\ frags[i].seq = i - 1
               /\ frags[i].total = Len(frags) /\ frags[i].final = (i = Len(frags))
               /\ frags[i].outcome \in IF i = 1 THEN {o} ELSE {"", o}
    <3>1. PICK outcome :
             /\ outcome \in IF i = 1 THEN {o} ELSE {"", o}
             /\ frags[i] = Chunk(outcome, frags[i].outputs, i - 1, Len(frags), i = Len(frags))
      BY <2>1, Zenon
    <3>2. PICK final : final = (i = Len(frags))
      BY Zenon
    <3>3. PICK outputs, seq, total :
             outputs = frags[i].outputs /\ seq = i - 1 /\ total = Len(frags)
      BY Zenon
    <3>4. frags[i] = Chunk(outcome, outputs, seq, total, final)
      BY <3>1, <3>2, <3>3, Zenon
    <3>5. /\ frags[i].chunked /\ frags[i].seq = seq /\ frags[i].total = total
          /\ frags[i].final = final /\ frags[i].outcome = outcome
      BY ONLY <3>4, ChunkFields
    <3> QED
      BY <3>1, <3>2, <3>3, <3>5, Zenon
  <2>4. ~Lost(frags) /\ ~MixesWhole(frags)
    <3>1. frags # <<>>
      BY <2>2
    <3> QED
      BY <2>3, <3>1, Zenon DEF Lost, MixesWhole
  <2>5. ~BadTotal(frags) /\ ~BadOrder(frags)
    <3>1. 1 \in DOMAIN frags /\ Len(frags) # 0
      BY <2>2
    <3> QED
      BY <2>3, <3>1, Zenon DEF BadTotal, BadOrder
  <2>6. ~BadFinal(frags)
    <3>1. Len(frags) \in DOMAIN frags
      BY <2>2
    <3>2. \A i \in 1..(Len(frags) - 1) : i \in DOMAIN frags /\ i # Len(frags)
      OBVIOUS
    <3> QED
      BY <2>3, <3>1, <3>2, Zenon DEF BadFinal
  <2>7. frags[1].outcome = o /\ ~BadOutcome(frags)
    <3>1. 1 \in DOMAIN frags /\ \A i \in 2..Len(frags) : i \in DOMAIN frags /\ i # 1
      BY <2>2
    <3>2. frags[1].outcome = o
      BY <2>3, <3>1, Zenon
    <3> QED
      BY <2>1, <2>3, <3>1, <3>2, Zenon DEF BadOutcome
  <2> QED
    BY <1>1, <2>1, <2>4, <2>5, <2>6, <2>7, Zenon DEF Accepts
<1> QED
  BY <1>3, <1>4

(* The length of a function on an initial interval.                        *)
LEMMA LenDomain ==
    ASSUME NEW s, NEW n \in Nat, DOMAIN s = 1..n
    PROVE  Len(s) = n
OBVIOUS

(* frags are n chunks with the headers of one delivery.                    *)
Numbered(frags, o, n) ==
    /\ Len(frags) = n /\ DOMAIN frags = 1..n
    /\ frags = [i \in 1..n |-> frags[i]]
    /\ \A i \in 1..n : frags[i] = Chunk(o, frags[i].outputs, i - 1, n, i = n)

(* The headers of the chunks of a result.                                  *)
LEMMA ChunksShape ==
    ASSUME NEW S, NEW out \in Seq(S), out # <<>>, NEW size \in Nat \ {0}, NEW o,
           NEW chunks, chunks = ChunkExecuteResultOutputs(Result(o, out), size)
    PROVE  \E n \in Nat \ {0} : Numbered(chunks, o, n)
<1>1. PICK n \in Nat \ {0} : n = (Len(out) + size - 1) \div size
  <2>1. Len(out) \in Nat \ {0}
    OBVIOUS
  <2> QED
    BY <2>1, ChunkBounds
<1>2. Result(o, out).outcome = o /\ Result(o, out).outputs = out
  BY ResultFields, Zenon
<1> DEFINE Piece(i) == SubSeq(out, (i - 1) * size + 1,
                              IF i * size < Len(out) THEN i * size ELSE Len(out))
           cut == [i \in 1..n |-> Chunk(o, Piece(i), i - 1, n, i = n)]
<1>3. chunks = cut
  BY <1>1, <1>2, Zenon DEF ChunkExecuteResultOutputs
<1> HIDE DEF Piece
<1>4. DOMAIN chunks = 1..n
  BY <1>3, Zenon
<1>5. ASSUME NEW i \in 1..n
      PROVE  chunks[i] = Chunk(o, chunks[i].outputs, i - 1, n, i = n)
  <2>1. chunks[i] = Chunk(o, Piece(i), i - 1, n, i = n)
    BY <1>3, Zenon
  <2>2. chunks[i].outputs = Piece(i)
    BY ONLY <2>1, ChunkFields
  <2> QED
    BY <2>1, <2>2, Zenon
<1>6. Len(chunks) = n
  <2>1. n \in Nat
    BY ONLY n \in Nat \ {0}
  <2> QED
    BY <1>4, <2>1, LenDomain, Zenon
<1>7. chunks = [i \in 1..n |-> chunks[i]]
  BY <1>3, Zenon
<1>8. Numbered(chunks, o, n)
  BY <1>4, <1>5, <1>6, <1>7, Zenon DEF Numbered
<1> QED
  BY ONLY n \in Nat \ {0}, <1>8

(* The chunks of a result with an outcome deliver it.                      *)
LEMMA ChunksDeliver ==
    ASSUME NEW S, NEW out \in Seq(S), out # <<>>, NEW size \in Nat \ {0}, NEW o, o # ""
    PROVE  Delivers(ChunkExecuteResultOutputs(Result(o, out), size), Result(o, out))
<1>1. PICK chunks : chunks = ChunkExecuteResultOutputs(Result(o, out), size)
  BY Zenon
<1>2. FlattenSeq([i \in DOMAIN chunks |-> chunks[i].outputs]) = out
  BY ONLY <1>1, out \in Seq(S), out # <<>>, size \in Nat \ {0}, ChunksJoin
<1>3. PICK n \in Nat \ {0} : Numbered(chunks, o, n)
  BY <1>1, ChunksShape, Zenon
<1>4. n > 0
  BY ONLY n \in Nat \ {0}
<1>5. Result(o, out).outcome = o /\ Result(o, out).outputs = out
  BY ResultFields, Zenon
<1>6. Delivers(chunks, Result(o, out))
  BY <1>2, <1>3, <1>4, <1>5, Zenon DEF Delivers, Numbered
<1> QED
  BY <1>1, <1>6, Zenon

(* Outputs that do not fit a chunk.                                        *)
LEMMA LongIsNotEmpty ==
    ASSUME NEW S, NEW out \in Seq(S), NEW size \in Nat, ~(Len(out) <= size)
    PROVE  out # <<>> /\ Len(out) > size
OBVIOUS

(* What the spec tier sends for a result delivers that result, whatever    *)
(* the chunk size; a result without an outcome does only if it fits one    *)
(* message.                                                                *)
LEMMA FrameDelivers ==
    ASSUME NEW S, NEW out \in Seq(S), NEW o, NEW size \in Nat \ {0},
           o # "" \/ Len(out) <= size
    PROVE  Delivers(Frame(Result(o, out), size), Result(o, out))
<1>1. Result(o, out).outputs = out
  BY ResultFields, Zenon
<1>2. CASE Len(out) <= size
  BY <1>1, <1>2, Zenon DEF Frame, Delivers
<1>3. CASE ~(Len(out) <= size)
  <2>1. out # <<>>
    BY <1>3, LongIsNotEmpty
  <2>2. Delivers(ChunkExecuteResultOutputs(Result(o, out), size), Result(o, out))
    BY <1>3, <2>1, ChunksDeliver, Zenon
  <2> QED
    BY <1>1, <1>3, <2>2, Zenon DEF Frame
<1> QED
  BY <1>2, <1>3

(* The messages of a frame.                                                *)
LEMMA FrameMessages ==
    ASSUME NEW S, NEW out \in Seq(S), NEW o, NEW size \in Nat \ {0}
    PROVE  /\ Frame(Result(o, out), size) \in Seq(Range(Frame(Result(o, out), size)))
           /\ \A m \in Range(Frame(Result(o, out), size)) : IsMessage(m)
<1>1. Result(o, out).outputs = out
  BY ResultFields, Zenon
<1>2. PICK frame : frame = Frame(Result(o, out), size)
  BY Zenon
<1>3. CASE Len(out) <= size
  <2>1. frame = <<Whole(Result(o, out))>>
    BY <1>1, <1>2, <1>3, Zenon DEF Frame
  <2>2. IsMessage(Whole(Result(o, out)))
    BY WholeIsMessage, Zenon
  <2>3. frame \in Seq(Range(frame)) /\ Range(frame) = {Whole(Result(o, out))}
    BY <2>1 DEF Range
  <2> QED
    BY <1>2, <2>2, <2>3, Zenon
<1>4. CASE ~(Len(out) <= size)
  <2>1. frame = ChunkExecuteResultOutputs(Result(o, out), size)
    BY <1>1, <1>2, <1>4, Zenon DEF Frame
  <2>2. out # <<>>
    BY <1>4, LongIsNotEmpty
  <2>3. PICK n \in Nat \ {0} : Numbered(frame, o, n)
    BY <2>1, <2>2, ChunksShape, Zenon
  <2>4. frame \in Seq(Range(frame))
    <3>1. frame = [i \in 1..n |-> frame[i]] /\ \A i \in 1..n : frame[i] \in Range(frame)
      BY <2>3, Zenon DEF Numbered, Range
    <3> QED
      BY ONLY n \in Nat \ {0}, <3>1, IsASeq
  <2>5. ASSUME NEW i \in 1..n PROVE IsMessage(frame[i])
    <3>1. i - 1 \in Nat /\ n \in Nat /\ (i = n) \in BOOLEAN
      BY ONLY n \in Nat \ {0}, i \in 1..n
    <3>2. frame[i] = Chunk(o, frame[i].outputs, i - 1, n, i = n)
      BY <2>3, Zenon DEF Numbered
    <3>3. IsMessage(Chunk(o, frame[i].outputs, i - 1, n, i = n))
      BY <3>1, ChunkIsMessage, Zenon
    <3> QED
      BY <3>2, <3>3, Zenon
  <2>6. ASSUME NEW m \in Range(frame) PROVE IsMessage(m)
    <3>1. PICK i \in DOMAIN frame : m = frame[i]
      BY Zenon DEF Range
    <3>2. DOMAIN frame = 1..n
      BY <2>3, Zenon DEF Numbered
    <3> QED
      BY <2>5, <3>1, <3>2, Zenon
  <2> QED
    BY <1>2, <2>4, <2>6, Zenon
<1> QED
  BY <1>3, <1>4

(* A result without an outcome that needs chunking is framed into a stream *)
(* that is refused.                                                        *)
LEMMA FrameRefused ==
    ASSUME NEW S, NEW out \in Seq(S), NEW size \in Nat \ {0}, ~(Len(out) <= size)
    PROVE  \A o : o = "" => ~Accepts(Frame(Result(o, out), size))
<1> SUFFICES ASSUME NEW o PROVE o = "" => ~Accepts(Frame(Result(o, out), size))
  OBVIOUS
<1>1. Result(o, out).outputs = out
  BY ResultFields, Zenon
<1>2. PICK frame : frame = ChunkExecuteResultOutputs(Result(o, out), size)
  BY Zenon
<1>3. PICK n \in Nat \ {0} : Numbered(frame, o, n)
  BY <1>2, ChunksShape, LongIsNotEmpty, Zenon
<1>4. frame[1] = Chunk(o, frame[1].outputs, 1 - 1, n, 1 = n)
  <2>1. 1 \in 1..n
    BY ONLY n \in Nat \ {0}
  <2> QED
    BY <1>3, <2>1, Zenon DEF Numbered
<1>5. frame[1].chunked /\ frame[1].outcome = o
  BY ONLY <1>4, ChunkFields
<1>6. o = "" => ~Accepts(frame)
  BY <1>5, Zenon DEF Accepts, Single, BadOutcome
<1> QED
  BY <1>1, <1>2, <1>6, Zenon DEF Frame
=============================================================================
