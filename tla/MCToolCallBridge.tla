-------------------------- MODULE MCToolCallBridge --------------------------
(***************************************************************************)
(* Instances of ToolCallBridge for TLC.                                    *)
(***************************************************************************)
EXTENDS ToolCallRefinement, TLC

CONSTANT s1

Frag(err, chunked, seq, total, final) ==
    [callError |-> err, chunked |-> chunked, seq |-> seq, total |-> total, final |-> final]

Whole      == Frag(FALSE, FALSE, 0, 0, FALSE)
CallError  == Frag(TRUE,  FALSE, 0, 0, FALSE)
FirstOf2   == Frag(FALSE, TRUE,  0, 2, FALSE)
LastOf2    == Frag(FALSE, TRUE,  1, 2, TRUE)

AllFragments == {Whole, CallError, FirstOf2, LastOf2}

OneSession == [c \in Calls |-> s1]
WholeOnly  == {Whole}
Symmetry   == Permutations(Calls) \cup Permutations(Streams)
=============================================================================
