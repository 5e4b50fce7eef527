--------------------------- MODULE MCSpecAdapter ---------------------------
(***************************************************************************)
(* An instance of SpecAdapter for TLC.                                     *)
(***************************************************************************)
EXTENDS SpecAdapter, TLC

FieldOf(name, type, default, sensitive) ==
    [name |-> name, type |-> type, required |-> TRUE, description |-> "d",
     default |-> default, sensitive |-> sensitive]
Fields(type) == <<FieldOf("x", type, "", FALSE), FieldOf("y", "number", "1", TRUE)>>
Handlers(set) == [h \in Verbs \cup {"Execute", "OpenSession", "Permissions"} |-> h \in set]
SecretNamed(n) == [name |-> n, description |-> n]

Usual ==
    [name |-> "greeter", version |-> "1.0.0", description |-> "d", sourceURL |-> "https://x",
     capabilities |-> {}, permissions |-> {"p"},
     platforms |-> << <<"linux", "amd64">> >>,
     schemas |-> [config |-> <<>>, input |-> Fields("string"), output |-> Fields("object")],
     secrets |-> <<SecretNamed("a"), SecretNamed("b")>>,
     examples |-> <<[name |-> "e", hcl |-> "text", file |-> ""],
                    [name |-> "f", hcl |-> "", file |-> "f.hcl"]>>,
     environments |-> {"*", "shell"}, image |-> "", features |-> {},
     handlers |-> Handlers({"Execute", "Pause", "Resume", "Snapshot", "Permissions"})]

WithExample(hcl, file) ==
    [Usual EXCEPT !.examples = <<[name |-> "e", hcl |-> hcl, file |-> file]>>]

ValidSpecs ==
    {Usual,
     [Usual EXCEPT !.handlers = Handlers({"Execute", "OpenSession", "Permissions"}),
              !.examples = <<>>],
     [Usual EXCEPT !.handlers = Handlers({"Execute"} \cup Verbs),
              !.secrets = <<>>],
     [Usual EXCEPT !.features = {{"restore"}}],
     [Usual EXCEPT !.platforms = << <<"linux">> >>],
     [Usual EXCEPT !.platforms = << <<"linux", "amd64">>, <<"Linux", "amd-64">> >>],
     [Usual EXCEPT !.schemas["input"] = Fields("bool")],
     [Usual EXCEPT !.version = "1", !.image = "img"]}

BrokenSpecs ==
    {[Usual EXCEPT !.name = ""], [Usual EXCEPT !.version = ""],
     [Usual EXCEPT !.handlers = Handlers(Verbs)],
     [Usual EXCEPT !.schemas["input"] = Fields("")],
     [Usual EXCEPT !.schemas["output"] =
         <<FieldOf("x", "string", "", FALSE), FieldOf("x", "number", "", FALSE)>>],
     [Usual EXCEPT !.secrets = <<SecretNamed("a"), [name |-> "a", description |-> "b"]>>],
     [Usual EXCEPT !.examples[1].name = ""],
     WithExample("text", "f.hcl"), WithExample("", "")}

BinaryOf(entry, impl, sp) == [entry |-> entry, impl |-> impl, spec |-> sp]

MCBinaries ==
    {BinaryOf("ServeSpec", "spec", sp) : sp \in ValidSpecs \cup BrokenSpecs}
    \cup {BinaryOf("ServeSpecRemote", "spec", sp) : sp \in {Usual} \cup BrokenSpecs}
    \cup {BinaryOf("Serve", impl, Usual) : impl \in Impls}
    \cup {BinaryOf("ServeSpec", "nil", Usual)}

ServiceInfo(protocol) ==
    CHOOSE i \in {[d EXCEPT !.protocol = protocol] : d \in deriveInfo(Usual, {"f.hcl"})} : TRUE
MCServiceInfos == {ServiceInfo({2}), ServiceInfo({}), ServiceInfo({1}), ServiceInfo({3})}

StepSymmetry == Permutations(Steps)

MCArgLists == {<<>>, <<"--emit-manifest">>, <<"-v", "--emit-manifest">>}

MCDeliveries == {<<>>, "a" :> 1, "a" :> 2, ("b" :> 1) @@ ("c" :> 1)}
MCNameLists  == {<<"a", "b">>, <<"b">>, <<"a", "c">>}
=============================================================================
