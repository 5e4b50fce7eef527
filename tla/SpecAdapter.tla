---------------------------- MODULE SpecAdapter ----------------------------
(***************************************************************************)
(* The life of an adapter binary: run once with --emit-manifest to publish *)
(* it, run to serve a host, stopped and run again, in any order            *)
(* (adapterhost/spec.go, serve.go, manifest.go, secrets.go).  What the     *)
(* binary prints when published and what the process says of itself when   *)
(* it serves come from different runs, between which example files may     *)
(* change.  A serving process opens a session with the host's secrets and  *)
(* executes steps that overlay their own.                                  *)
(***************************************************************************)
EXTENDS SpecInfo, Manifest, Secrets, Integers

CONSTANTS
    Binaries,     \* [entry, impl, spec]: the entrypoint main calls and with what
    ServiceInfos, \* what the Info of a hand-written Service may answer
    Files,        \* the example files
    ArgLists,     \* the command lines
    Deliveries,   \* name -> value: the secrets a host may send
    NameLists,    \* the names a step may ask an environment for
    Steps,        \* Execute calls that may overlap
    RequestIds,   \* the ids of permission requests
    MaxRequests   \* bound on the requests of one Permissions stream

Entries == {"Serve", "ServeSpec", "ServeSpecRemote"}
Impls   == {"spec",    \* a Spec, which serves all verbs, gated one by one
            "verbs",   \* a Service that implements OptionalVerbs
            "service", \* a Service that does not
            "nil"}

ASSUME BinariesAssumption == \A b \in Binaries :
    /\ b.entry \in Entries /\ b.impl \in Impls
    /\ b.entry # "Serve" => b.impl \in {"spec", "nil"}
ASSUME SpecsAssumption == \A b \in Binaries : b.impl = "spec" => IsSpec(b.spec)
ASSUME InfosAssumption == \A i \in ServiceInfos : IsInfo(i)
ASSUME DeliveriesAssumption == \A d \in Deliveries : DOMAIN d \subseteq STRING

VARIABLES
    binary,
    files,     \* the example files that can be read now
    published, \* the manifest of the last run that exited 0 with one, at most one
    \* the process
    phase,     \* where it is, one of Phases
    args,      \* os.Args[1:]
    rendered,  \* the manifest about to be written and its Info, at most one
    stdout,    \* what was written, {doc} or, of a write that failed half way, {}
    code,      \* the exit code
    \* the host's view of the process
    info,      \* the last InfoResponse, at most one
    answer,    \* the last answer of a verb, at most one
    perm,      \* the last Permissions stream, [at, asked, acked]: where its handler
               \* is, the ids of the requests it read and of the decisions it sent
    \* the session
    delivered, \* the secrets the host opened the session with, at most one
    session,   \* the author's view of them, at most one
    step,      \* per step, while it runs, [opened, given, view]: what the host sent
               \* with the session and with the step, and the author's view
    child      \* the last environment a running step asked for, at most one

procVars    == <<phase, args, rendered, stdout, code>>
hostVars    == <<info, answer, perm>>
sessionVars == <<delivered, session, step, child>>
vars        == <<binary, files, published, procVars, hostVars, sessionVars>>

spec == binary.spec

(* ServeSpec looks for the flag before it calls Serve, which looks again:  *)
(* "specFlag" and "specWrite" are in the first call of                     *)
(* runEmitManifestIfRequested, "flag" and "write" in the second.           *)
Phases == {"down", "main", "specFlag", "specWrite", "flag", "write", "serving", "exited"}

NoStream == [at |-> "none", asked |-> <<>>, acked |-> <<>>]

Init ==
    /\ binary \in Binaries /\ files \in SUBSET Files /\ published = {}
    /\ phase = "down" /\ args = <<>> /\ rendered = {} /\ stdout = <<>> /\ code = 0
    /\ info = {} /\ answer = {} /\ perm = NoStream
    /\ delivered = {} /\ session = {} /\ step = [k \in Steps |-> {}] /\ child = {}

(* Environment: files come and go; the process is started and stopped.     *)
FilesChange ==
    /\ files' \in SUBSET Files
    /\ UNCHANGED <<binary, published, procVars, hostVars, sessionVars>>

Launch ==
    /\ phase = "down" /\ phase' = "main"
    /\ args' \in ArgLists
    /\ UNCHANGED <<binary, files, published, rendered, stdout, code, hostVars, sessionVars>>

Stop ==
    /\ phase \in {"serving", "exited"} /\ phase' = "down"
    /\ args' = <<>> /\ rendered' = {} /\ stdout' = <<>> /\ code' = 0
    /\ info' = {} /\ answer' = {} /\ perm' = NoStream
    /\ delivered' = {} /\ session' = {} /\ step' = [k \in Steps |-> {}] /\ child' = {}
    /\ UNCHANGED <<binary, files, published>>

(***************************************************************************)
(* The entrypoints.                                                        *)
(***************************************************************************)
To(p) ==
    /\ phase' = p
    /\ UNCHANGED <<binary, files, published, args, rendered, stdout, code, hostVars, sessionVars>>

Exit(c) ==
    /\ phase' = "exited" /\ code' = c
    /\ UNCHANGED <<binary, files, published, args, rendered, stdout, hostVars, sessionVars>>

SpecService == binary.impl = "spec" /\ validate(spec)

ServeSpec ==
    /\ phase = "main" /\ binary.entry = "ServeSpec"
    /\ IF SpecService THEN To("specFlag") ELSE Exit(1)

(* Never looks at the command line.  The error is returned to main, which  *)
(* may exit with any code.                                                 *)
ServeSpecRemote ==
    /\ phase = "main" /\ binary.entry = "ServeSpecRemote"
    /\ IF SpecService THEN To("serving") ELSE \E c \in {0, 1} : Exit(c)

emitManifestRequested == \E i \in DOMAIN args : args[i] = "--emit-manifest"

(* Called by main, or by ServeSpec if the flag is not there.               *)
Serve ==
    /\ \/ phase = "main" /\ binary.entry = "Serve"
       \/ phase = "specFlag" /\ ~emitManifestRequested
    /\ To("flag")

(* The Info method of the implementation; a Service may also answer nil.   *)
Infos ==
    CASE binary.impl = "spec" -> {deriveInfo(spec, files)}
      [] binary.impl = "nil"  -> {{}}
      [] OTHER                -> {{}} \cup {{i} : i \in ServiceInfos}

ErrorOverlooked(result) == FALSE    \* mutant

Failed(result) == result = {}

(* runEmitManifestIfRequested, of ServeSpec or of Serve.                   *)
Render ==
    /\ phase \in {"specFlag", "flag"} /\ emitManifestRequested
    /\ \E result \in Infos :
          IF Failed(result) THEN Exit(1)
          ELSE /\ phase' = IF phase = "specFlag" THEN "specWrite" ELSE "write"
               /\ rendered' = {[info |-> i, doc |-> buildManifestDoc(i)] : i \in result}
               /\ UNCHANGED <<binary, files, published, args, stdout, code, hostVars, sessionVars>>

HandledDropsResult == IF phase = "specWrite" THEN "flag" ELSE "exited"    \* mutant

(* The flag was handled: ServeSpec and Serve both return to main.          *)
Handled == "exited"

Write ==
    /\ phase \in {"specWrite", "write"} /\ phase' = Handled
    /\ \E r \in rendered : stdout' = Append(stdout, {r.doc}) /\ published' = {r.doc}
    /\ UNCHANGED <<binary, files, args, rendered, code, hostVars, sessionVars>>

(* A write that fails leaves nothing or a truncated text.                  *)
WriteFails ==
    /\ phase \in {"specWrite", "write"} /\ phase' = "exited" /\ code' = 1
    /\ stdout' \in {stdout, Append(stdout, {})}
    /\ UNCHANGED <<binary, files, published, args, rendered, hostVars, sessionVars>>

(* go-plugin serves until the host kills the process; it gives up on a nil *)
(* implementation, for which GRPCServer fails.                             *)
PluginServe ==
    /\ phase = "flag" /\ ~emitManifestRequested
    /\ IF binary.impl = "nil" THEN Exit(0) ELSE To("serving")

(***************************************************************************)
(* The RPCs of a serving process.                                          *)
(***************************************************************************)
Info ==
    /\ phase = "serving"
    /\ info' \in Infos
    /\ UNCHANGED <<binary, files, published, procVars, answer, perm, sessionVars>>

(* A verb is answered by the author's function or is unimplemented.        *)
Wired(verb) ==
    CASE binary.impl = "spec"  -> spec.handlers[verb]
      [] binary.impl = "verbs" -> TRUE
      [] OTHER                 -> FALSE

Verb(verb) ==
    /\ phase = "serving"
    /\ \E reply \in IF Wired(verb) THEN {"ok", "error"} ELSE {"unimplemented"} :
          answer' = {[verb |-> verb, reply |-> reply]}
    /\ UNCHANGED <<binary, files, published, procVars, info, perm, sessionVars>>

(* The permissionless default, of a spec without a handler of its own or   *)
(* of a Service that embeds it.  It acknowledges every request, one with   *)
(* an empty id too; any other event changes nothing.                       *)
runUnimplementedPermissions ==
    \/ binary.impl = "service"
    \/ binary.impl = "spec" /\ ~spec.handlers["Permissions"]

Perm(from, to) ==
    /\ phase = "serving" /\ perm.at \in from
    /\ perm' = to
    /\ UNCHANGED <<binary, files, published, procVars, info, answer, sessionVars>>

PermOpen ==
    /\ runUnimplementedPermissions
    /\ Perm({"none", "normal", "error"}, [NoStream EXCEPT !.at = "recv"])

PermRequest(id) ==
    /\ Len(perm.asked) < MaxRequests
    /\ Perm({"recv"}, [perm EXCEPT !.at = "send", !.asked = Append(@, id)])

PermSent ==
    Perm({"send"}, [perm EXCEPT !.at = "recv", !.acked = Append(@, Last(perm.asked))])

PermSendFailsOpen == Perm({"send"}, [perm EXCEPT !.at = "normal"])    \* mutant

PermSendFails == Perm({"send"}, [perm EXCEPT !.at = "error"])

(* EOF and cancellation are the normal end; any other error is returned.   *)
PermRecvEnds == \E end \in {"normal", "error"} : Perm({"recv"}, [perm EXCEPT !.at = end])

(* The author's handler builds the view from the names declared and the    *)
(* values sent.                                                            *)
OpenSession(d) ==
    /\ phase = "serving" /\ binary.impl = "spec" /\ spec.handlers["OpenSession"]
    /\ delivered = {}
    /\ delivered' = {d}
    /\ session' = {NewSecrets(secretMap(spec.secrets), d)}
    /\ UNCHANGED <<binary, files, published, procVars, hostVars, step, child>>

StepOf(s, d) ==
    {[opened |-> o, given |-> d, view |-> WithStepSecrets(s, d)] : o \in delivered}

OverlaidInPlace(s, d) == session' = {WithStepSecrets(s, d)}    \* mutant

(* The overlay is a copy.                                                  *)
OverlaidOnCopy(s, d) == UNCHANGED session

(* Execute hands a step its secret inputs; the author lays them over the   *)
(* view of the open session.  A step may outlive the session.              *)
BeginStep(k, d) ==
    /\ phase = "serving" /\ session # {} /\ step[k] = {}
    /\ \E s \in session :
          step' = [step EXCEPT ![k] = StepOf(s, d)] /\ OverlaidOnCopy(s, d)
    /\ UNCHANGED <<binary, files, published, procVars, hostVars, delivered, child>>

Spawn(k, names) ==
    /\ phase = "serving"
    /\ \E st \in step[k] :
          child' = {[names |-> names, step |-> st, env |-> SpawnEnv(st.view, names)]}
    /\ UNCHANGED <<binary, files, published, procVars, hostVars, delivered, session, step>>

EndStep(k) ==
    /\ phase = "serving" /\ step[k] # {}
    /\ step' = [step EXCEPT ![k] = {}]
    /\ child' = {}
    /\ UNCHANGED <<binary, files, published, procVars, hostVars, delivered, session>>

CloseSession ==
    /\ phase = "serving" /\ session # {}
    /\ delivered' = {} /\ session' = {}
    /\ UNCHANGED <<binary, files, published, procVars, hostVars, step, child>>

Process == ServeSpec \/ ServeSpecRemote \/ Serve \/ Render \/ Write \/ WriteFails \/ PluginServe
Asked   == Info \/ \E v \in Verbs : Verb(v)
Permissions ==
    \/ PermOpen \/ PermSent \/ PermSendFails \/ PermRecvEnds
    \/ \E id \in RequestIds : PermRequest(id)
Session ==
    \/ \E d \in Deliveries : OpenSession(d)
    \/ \E k \in Steps :
          \/ \E d \in Deliveries : BeginStep(k, d)
          \/ \E names \in NameLists : Spawn(k, names)
          \/ EndStep(k)
    \/ CloseSession

Next == FilesChange \/ Launch \/ Stop \/ Process \/ Asked \/ Permissions \/ Session
Spec == Init /\ [][Next]_vars

TypeOK ==
    /\ binary \in Binaries /\ files \subseteq Files
    /\ phase \in Phases /\ args \in ArgLists \cup {<<>>}
    /\ phase \in {"specWrite", "write"} => rendered # {}
    /\ code \in {0, 1}
    /\ delivered \subseteq Deliveries /\ \A k \in Steps : \A st \in step[k] : st.given \in Deliveries

(* Whatever a valid spec declares reaches the host: every field with its   *)
(* type, every secret, every example with its payload.  Info keys fields   *)
(* and secrets by name, so this rests on the checks of validate            *)
(* (spec.go:329-348, 446-450).                                             *)
InfoLosesNothing ==
    binary.impl = "spec" => \A i \in info :
        /\ \A s \in SchemaNames : \A f \in ToSet(spec.schemas[s]) :
              Overlay([name |-> f.name], i.schemas[s][f.name]) = f
        /\ \A s \in ToSet(spec.secrets) : i.secrets[s.name] = s.description
        /\ Len(i.examples) = Len(spec.examples)
        /\ \A n \in DOMAIN spec.examples :
              i.examples[n].hcl \in {spec.examples[n].hcl, spec.examples[n].file} \ {""}

(* A feature the host was told of in Info is answered when it is asked     *)
(* for, and a verb that was not announced is unimplemented, unless the     *)
(* author overrides the list (spec.go:361-384, 614-622).                   *)
FeaturesHonest ==
    binary.impl = "spec" /\ spec.features = {} => \A i \in info, a \in answer :
        a.reply = "unimplemented" <=> FeatureOf[a.verb] \notin i.features

Flagged == "--emit-manifest" \in ToSet(args)

(* A spawned binary that was asked for its manifest never serves, and it   *)
(* exits 0 if and only if it printed one whole document and nothing more;  *)
(* one that was not asked prints nothing.  The flag is looked for twice,   *)
(* by ServeSpec and by Serve, and rendering or writing may fail, the       *)
(* latter after a part of the text (spec.go:733-738, serve.go:58-62,       *)
(* manifest.go:209-223).  The phone-home entrypoint ignores the flag and   *)
(* is exempt.                                                              *)
ManifestOrService ==
    /\ stdout # <<>> => Flagged
    /\ Len(stdout) <= 1
    /\ binary.entry # "ServeSpecRemote" /\ Flagged =>
          /\ phase # "serving"
          /\ phase = "exited" => (code = 0 <=> stdout # <<>> /\ {} \notin ToSet(stdout))

(* The manifest a binary was published with, read back by the strict       *)
(* parser, describes the adapter that a later run serves: same name,       *)
(* fields with their defaults and taint marks, secrets and image, though   *)
(* example files changed in between and empty values are omitted on the    *)
(* way (spec.go:400-409, manifest.go:123-194).                             *)
PublishedMatchesInfo ==
    binary.impl = "spec" => \A doc \in published, i \in info :
        \E m \in Parse(doc) :
            /\ m.name = i.name /\ m.version = i.version
            /\ m.config_schema.fields = i.schemas.config
            /\ m.input_schema.fields = i.schemas.input
            /\ m.output_schema.fields = i.schemas.output
            /\ {s.name : s \in m.secrets} = DOMAIN i.secrets
            /\ {image.ref : image \in m.container_image} = {i.image} \ {""}
            /\ m.permissions = i.permissions /\ Len(m.platforms) = Len(i.platforms)

(* What the strict parser asks of an adapter, stated on its Info.          *)
WellFormed(i) ==
    /\ i.name \in WellFormedNames /\ i.version \in WellFormedVersions
    /\ i.sourceURL \in WellFormedURLs /\ i.protocol \subseteq {2} /\ i.platforms # <<>>
    /\ \A n \in DOMAIN i.platforms :
          LET p == i.platforms[n]
          IN  Len(p) = 2 /\ p[1] \in WellFormedOSes /\ p[2] \in WellFormedArchs
    /\ \A s \in SchemaNames : \A f \in DOMAIN i.schemas[s] : i.schemas[s][f].type \in SchemaTypesStrict
    /\ "" \notin DOMAIN i.secrets
    /\ i.environments \subseteq {"*"} \cup WellFormedEnvironments

(* The manifest of a well-formed Info passes the strict parser, for a      *)
(* hand-written Service that leaves its protocol version blank or garbled  *)
(* too (manifest.go:161-168, strictmanifest.go:86-157).                   *)
EmitsPublishable == \A r \in rendered : WellFormed(r.info) => Publishable(r.doc)

(* The default fails closed: a Permissions stream that ended normally left *)
(* no request without its decision, and decisions answer the requests in   *)
(* order, each once and with its own id, also on a stream that is reopened *)
(* after an error (service.go:93-113).                                     *)
PermissionsFailClosed ==
    /\ IsPrefix(perm.acked, perm.asked)
    /\ perm.at \in {"recv", "normal"} => perm.acked = perm.asked

(* A child process gets exactly the credentials of the step that spawned   *)
(* it: each requested one that the host delivered, with the step's value   *)
(* before the session's, untouched by steps before or beside it; nothing   *)
(* at all if a requested name is not declared in Info (secrets.go:46-51,   *)
(* 79-84).                                                                 *)
ChildGetsItsCredentials ==
    \A c \in child :
        LET sent == Overlay(c.step.given, c.step.opened)
        IN  /\ c.env = {} <=> \E n \in ToSet(c.names) : n \notin ToSet(Names(spec.secrets))
            /\ \A e \in c.env :
                  /\ DOMAIN e = ToSet(c.names) \cap DOMAIN sent
                  /\ \A n \in DOMAIN e : e[n] = sent[n]
=============================================================================
