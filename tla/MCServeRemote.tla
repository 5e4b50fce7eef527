---------------------------- MODULE MCServeRemote ----------------------------
(***************************************************************************)
(* Instances of ServeRemote for TLC.                                       *)
(***************************************************************************)
EXTENDS ServeRemote

Opts(reconnect, initialDelay, maxDelay) ==
    [reconnect |-> reconnect, initialDelay |-> initialDelay, maxDelay |-> maxDelay]

(* Once, the default delays, an odd cap, a cap met at once.                *)
UsualOptions == {Opts(FALSE, 0, 0), Opts(TRUE, 0, 0), Opts(TRUE, 3, 20), Opts(TRUE, 5, 5)}

(* An initial delay above the maximum.                                     *)
SteepOptions == {Opts(TRUE, 60, 30)}
=============================================================================
