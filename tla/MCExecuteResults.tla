-------------------------- MODULE MCExecuteResults --------------------------
(***************************************************************************)
(* An instance of ExecuteResultsCheck for TLC.                             *)
(***************************************************************************)
EXTENDS ExecuteResultsCheck

MCOutcomes == {"", "a", "b"}
MCPieces   == {<<1>>, <<2>>}
MCResults  == {Result(outcome, outputs) :
                 outcome \in MCOutcomes, outputs \in {<<1>>, <<1, 2>>, <<2, 1, 2>>}}
=============================================================================
