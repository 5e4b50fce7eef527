-------------------------------- MODULE Maps --------------------------------
(***************************************************************************)
(* Go maps, as functions of their keys, the way the SDK fills them.        *)
(***************************************************************************)
EXTENDS Naturals, Sequences

(* Copying the entries of f over those of g.                               *)
Overlay(f, g) ==
    [k \in DOMAIN f \cup DOMAIN g |-> IF k \in DOMAIN f THEN f[k] ELSE g[k]]

(* Storing the entries of seq under their names, in order: the last of a   *)
(* name wins.                                                              *)
Keyed(seq) ==
    LET named(n) == {i \in DOMAIN seq : seq[i].name = n}
        last(n)  == CHOOSE i \in named(n) : \A j \in named(n) : j <= i
    IN  [n \in {seq[i].name : i \in DOMAIN seq} |-> seq[last(n)]]
=============================================================================
