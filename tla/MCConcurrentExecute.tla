------------------------- MODULE MCConcurrentExecute -------------------------
(***************************************************************************)
(* Instances of ConcurrentExecute for TLC: three calls, the smallest case  *)
(* the code accepts.                                                       *)
(***************************************************************************)
EXTENDS ConcurrentExecute, TLC

CONSTANTS c1, c2, c3

R1 == Result("a", <<1, 2>>)    \* two chunks of one byte
R2 == Result("a", <<3>>)
R3 == Result("b", <<3>>)
R4 == Result("", <<3, 4>>)     \* chunked, without an outcome

MCScripts == {(c1 :> R1) @@ (c2 :> R2) @@ (c3 :> R3),
              (c1 :> R1) @@ (c2 :> R2) @@ (c3 :> R2),    \* not distinct
              (c1 :> R1) @@ (c2 :> R2) @@ (c3 :> R4)}

MCMessages == {Whole(R1), Chunk("a", <<1>>, 0, 2, FALSE), Chunk("", <<2>>, 1, 2, TRUE)}
=============================================================================
