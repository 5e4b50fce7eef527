-------------------------- MODULE MCRemoteToolCalls --------------------------
(***************************************************************************)
(* Instances of RemoteToolCalls for TLC.                                   *)
(***************************************************************************)
EXTENDS RemoteToolCalls

CONSTANT s1

OneSession == [c \in Calls |-> s1]

WholeOnly ==
    {[callError |-> FALSE, chunked |-> FALSE, seq |-> 0, total |-> 0, final |-> FALSE]}
=============================================================================
