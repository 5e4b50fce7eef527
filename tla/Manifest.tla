------------------------------ MODULE Manifest ------------------------------
(***************************************************************************)
(* The adapter manifest: its rendering from an InfoResponse                *)
(* (adapterhost/manifest.go) and the strict parser that stands for the     *)
(* host's (internal/strictmanifest).  A JSON object is a function from its *)
(* keys, of which omitempty leaves some out; lists whose order is not      *)
(* looked at, or is that of a Go map and so arbitrary, are sets; an        *)
(* optional object is a set of at most one.                                *)
(***************************************************************************)
EXTENDS Maps, Sequences

(* The texts that match the regular expressions of the strict parser.      *)
CONSTANTS
    WellFormedNames, WellFormedVersions, WellFormedURLs, WellFormedEnvironments,
    WellFormedOSes, WellFormedArchs

SchemaTypesStrict == {"string", "number", "boolean", "object", "array"}

(* strings.Cut at the first slash: os before it, all the rest is arch.     *)
platformDoc(p) == [os |-> Head(p), arch |-> Tail(p)]

sdkProtocolVersionZero(read) ==    \* mutant: the zero value when malformed
    IF read = {} THEN 0 ELSE CHOOSE v \in read : TRUE

(* What was read; absent and malformed texts alike stand for 2.            *)
sdkProtocolVersion(read) == IF read = {} THEN 2 ELSE CHOOSE v \in read : TRUE

fieldDocInsensitive(f) ==    \* mutant: the taint mark is not copied
    [k \in DOMAIN f \ (IF f.default = "" THEN {"default", "sensitive"} ELSE {"sensitive"}) |-> f[k]]

(* An empty default and a false sensitive are omitted.                     *)
fieldDoc(f) ==
    LET omitted == (IF f.default = "" THEN {"default"} ELSE {})
                   \cup (IF f.sensitive THEN {} ELSE {"sensitive"})
    IN  [k \in DOMAIN f \ omitted |-> f[k]]

schemaFromProto(schema) == [fields |-> [n \in DOMAIN schema |-> fieldDoc(schema[n])]]

secretsFromMap(m) == {[name |-> n, description |-> m[n], required |-> TRUE] : n \in DOMAIN m}

containerImageDoc(image) ==
    IF image = "" THEN <<>>
    ELSE [container_image |-> {[ref |-> image, digest |-> ""]}]

manifestDoc(info) ==
    [schema_version       |-> 1,
     name                 |-> info.name,
     version              |-> info.version,
     description          |-> info.description,
     source_url           |-> info.sourceURL,
     capabilities         |-> info.capabilities,
     platforms            |-> [i \in DOMAIN info.platforms |-> platformDoc(info.platforms[i])],
     sdk_protocol_version |-> sdkProtocolVersion(info.protocol),
     config_schema        |-> schemaFromProto(info.schemas.config),
     input_schema         |-> schemaFromProto(info.schemas.input),
     output_schema        |-> schemaFromProto(info.schemas.output),
     secrets              |-> secretsFromMap(info.secrets),
     permissions          |-> info.permissions,
     compatible_environments |-> info.environments]

buildManifestDoc(info) == Overlay(containerImageDoc(info.image), manifestDoc(info))

-----------------------------------------------------------------------------
(* The strict parser.  Its structures, as the values their keys have when  *)
(* they are absent.                                                        *)
NoSchema   == [fields |-> <<>>]
NoField    == [type |-> "", required |-> FALSE, description |-> "", default |-> "",
               sensitive |-> FALSE]
NoPlatform == [os |-> "", arch |-> <<>>]
NoSecret   == [name |-> "", description |-> "", required |-> FALSE]
NoImage    == [ref |-> "", digest |-> ""]
NoManifest ==
    [schema_version |-> 0, name |-> "", version |-> "", description |-> "", source_url |-> "",
     capabilities |-> {}, platforms |-> <<>>, sdk_protocol_version |-> 0,
     config_schema |-> NoSchema, input_schema |-> NoSchema, output_schema |-> NoSchema,
     secrets |-> {}, permissions |-> {}, compatible_environments |-> {},
     container_image |-> {}]

Schemas == {"config_schema", "input_schema", "output_schema"}

Known(object, structure) == DOMAIN object \subseteq DOMAIN structure

DecodeSchema(s) == [fields |-> [n \in DOMAIN s.fields |-> Overlay(s.fields[n], NoField)]]

(* The decoded manifest; none if some object has an unknown key.           *)
Parse(doc) ==
    LET m == Overlay(doc, NoManifest)
        known == /\ Known(doc, NoManifest)
                 /\ \A i \in DOMAIN m.platforms : Known(m.platforms[i], NoPlatform)
                 /\ \A s \in Schemas :
                       /\ Known(m[s], NoSchema)
                       /\ \A n \in DOMAIN m[s].fields : Known(m[s].fields[n], NoField)
                 /\ \A s \in m.secrets : Known(s, NoSecret)
                 /\ \A image \in m.container_image : Known(image, NoImage)
    IN  IF known
        THEN {[k \in DOMAIN m |-> IF k \in Schemas THEN DecodeSchema(m[k]) ELSE m[k]]}
        ELSE {}

validateSchema(s) == \A n \in DOMAIN s.fields : s.fields[n].type \in SchemaTypesStrict

Validate(m) ==
    /\ m.schema_version = 1
    /\ m.name \in WellFormedNames
    /\ m.version \in WellFormedVersions
    /\ m.source_url \in WellFormedURLs
    /\ m.sdk_protocol_version = 2
    /\ m.platforms # <<>>
    /\ \A i \in DOMAIN m.platforms :
          /\ m.platforms[i].os \in WellFormedOSes
          /\ \E a \in WellFormedArchs : m.platforms[i].arch = <<a>>
    /\ \A s \in Schemas : validateSchema(m[s])
    /\ \A s \in m.secrets : s.name # ""
    /\ m.compatible_environments \subseteq {"*"} \cup WellFormedEnvironments
    /\ \A image \in m.container_image : image.ref # ""

Publishable(doc) == \E m \in Parse(doc) : Validate(m)
=============================================================================
