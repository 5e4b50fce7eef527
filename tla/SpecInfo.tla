------------------------------ MODULE SpecInfo ------------------------------
(***************************************************************************)
(* What the SDK derives from a Spec (adapterhost/spec.go): whether it is   *)
(* valid and the InfoResponse that describes it.                           *)
(*                                                                         *)
(* A Spec is a record.  Text is a value of which only equality and ""      *)
(* count; a handler is whether it is set; a platform string is the         *)
(* sequence of its parts between slashes; a protocol version is what       *)
(* strconv.Atoi reads in it; SupportedFeatures, which may be nil, is a set *)
(* of at most one set.  A result that may be an error is a set of at most  *)
(* one value, empty for the error.                                         *)
(***************************************************************************)
EXTENDS Maps, Sequences, SequencesExt, Functions

SchemaNames == {"config", "input", "output"}

(* The verbs an adapter may leave out and the features that announce them. *)
FeatureOf == [Pause |-> "pause", Resume |-> "resume", Snapshot |-> "snapshot",
              Restore |-> "restore", Inspect |-> "inspect"]
Verbs == DOMAIN FeatureOf

(* The Go types of a Spec and of an InfoResponse, where they matter.       *)
FieldKeys == {"type", "required", "description", "default", "sensitive"}

IsList(seq) == seq \in Seq(Range(seq))

IsField(f, keys) == f = [k \in keys |-> f[k]] /\ f.sensitive \in BOOLEAN

IsPlatforms(platforms) ==
    IsList(platforms) /\ \A i \in DOMAIN platforms : IsList(platforms[i])

IsSpec(spec) ==
    /\ \A s \in SchemaNames :
          /\ IsList(spec.schemas[s])
          /\ \A i \in DOMAIN spec.schemas[s] :
                IsField(spec.schemas[s][i], FieldKeys \cup {"name"})
    /\ IsList(spec.secrets) /\ IsList(spec.examples) /\ IsPlatforms(spec.platforms)

IsInfo(info) ==
    /\ \A s \in SchemaNames :
          /\ info.schemas[s] = [n \in DOMAIN info.schemas[s] |-> info.schemas[s][n]]
          /\ \A n \in DOMAIN info.schemas[s] : IsField(info.schemas[s][n], FieldKeys)
    /\ IsPlatforms(info.platforms)

Names(seq) == [i \in DOMAIN seq |-> seq[i].name]

validSchemaTypesOnly(schema) ==    \* mutant: duplicate names pass
    \A i \in DOMAIN schema : schema[i].type # ""

validSchema(schema) ==
    /\ IsInjective(Names(schema))
    /\ \A i \in DOMAIN schema : schema[i].type # ""

validExample(ex) == ex.name # "" /\ (ex.hcl = "") # (ex.file = "")

validate(spec) ==
    /\ spec.name # "" /\ spec.version # ""
    /\ spec.handlers["Execute"]
    /\ \A s \in SchemaNames : validSchema(spec.schemas[s])
    /\ IsInjective(Names(spec.secrets))
    /\ \A i \in DOMAIN spec.examples : validExample(spec.examples[i])

(* mutant: Restore rides on Snapshot, as the pair is declared together     *)
supportedFeaturesPaired(spec) ==
    IF spec.features # {} THEN UNION spec.features
    ELSE {FeatureOf[v] : v \in {w \in Verbs :
             spec.handlers[IF w = "Restore" THEN "Snapshot" ELSE w]}}

supportedFeaturesFromSpec(spec) ==
    IF spec.features # {} THEN UNION spec.features
    ELSE {FeatureOf[v] : v \in {w \in Verbs : spec.handlers[w]}}

(* The wire keys fields and secrets by name.                               *)
adapterSchemaProto(schema) ==
    LET fields == Keyed(schema)
    IN  [n \in DOMAIN fields |-> [k \in DOMAIN fields[n] \ {"name"} |-> fields[n][k]]]

secretMap(secrets) ==
    LET named == Keyed(secrets)
    IN  [n \in DOMAIN named |-> named[n].description]

(* Example files are read when Info is asked; files are the readable ones. *)
resolveExamples(spec, files) ==
    LET inline(ex) == [name |-> ex.name, hcl |-> IF ex.file # "" THEN ex.file ELSE ex.hcl]
    IN  IF \A i \in DOMAIN spec.examples : spec.examples[i].file \in files \cup {""}
        THEN {[i \in DOMAIN spec.examples |-> inline(spec.examples[i])]}
        ELSE {}

deriveInfo(spec, files) ==
    IF ~validate(spec) THEN {}
    ELSE {[name      |-> spec.name,
           version   |-> spec.version,
           description  |-> spec.description,
           sourceURL |-> spec.sourceURL,
           capabilities |-> spec.capabilities,
           platforms |-> spec.platforms,
           protocol  |-> {2},
           schemas   |-> [s \in SchemaNames |-> adapterSchemaProto(spec.schemas[s])],
           secrets   |-> secretMap(spec.secrets),
           permissions  |-> spec.permissions,
           environments |-> spec.environments,
           image     |-> spec.image,
           features  |-> supportedFeaturesFromSpec(spec),
           examples  |-> examples] : examples \in resolveExamples(spec, files)}
=============================================================================
