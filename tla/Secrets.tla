------------------------------- MODULE Secrets -------------------------------
(***************************************************************************)
(* The view of its secrets an adapter works with (adapterhost/secrets.go): *)
(* the declared names and the delivered values, as functions of names.     *)
(***************************************************************************)
EXTENDS Maps, Sequences

NewSecrets(declared, resolved) == [declared |-> DOMAIN declared, values |-> resolved]

WithStepSecrets(s, step) == [s EXCEPT !.values = Overlay(step, s.values)]

(* The NAME=value pairs for a child process, whose environment is a        *)
(* function of names; no result if a name was not declared.                *)
SpawnEnv(s, names) ==
    LET asked == {names[i] : i \in DOMAIN names}
    IN  IF asked \subseteq s.declared
        THEN {[n \in asked \cap DOMAIN s.values |-> s.values[n]]}
        ELSE {}
==============================================================================
