------------------------- MODULE SpecAdapterProofs -------------------------
(***************************************************************************)
(* Theorems about the life of an adapter binary, for every spec, command   *)
(* line, set of example files, delivery of secrets and number of steps.    *)
(*                                                                         *)
(* The steps of the process, of the RPCs, of a Permissions stream and of   *)
(* the session each change variables of their own, so the invariant has a  *)
(* part for each, and a step is shown to keep the part it touches.         *)
(***************************************************************************)
EXTENDS SpecAdapter, SequenceTheorems, TLAPS

USE DEF procVars, hostVars, sessionVars

(* Nobody rewrites the binary; only the process moves on, only an RPC      *)
(* answers the host, only the session handles secrets.                     *)
LEMMA NextTouches ==
    ASSUME Next
    PROVE  /\ UNCHANGED binary
           /\ FilesChange \/ Launch \/ Stop \/ Process \/ UNCHANGED <<published, procVars>>
           /\ Stop \/ Asked \/ UNCHANGED <<info, answer>>
           /\ Stop \/ Permissions \/ UNCHANGED perm
           /\ Stop \/ Session \/ UNCHANGED sessionVars
<1>1. CASE FilesChange  BY <1>1 DEF FilesChange
<1>2. CASE Launch       BY <1>2 DEF Launch
<1>3. CASE Stop         BY <1>3 DEF Stop
<1>4. CASE Process
  BY <1>4 DEF Process, ServeSpec, ServeSpecRemote, Serve, Render, Write, WriteFails,
              PluginServe, To, Exit
<1>5. CASE Asked        BY <1>5 DEF Asked, Info, Verb
<1>6. CASE Permissions
  BY <1>6 DEF Permissions, PermOpen, PermSent, PermSendFails, PermRecvEnds, PermRequest, Perm
<1>7. CASE Session
  BY <1>7 DEF Session, OpenSession, BeginStep, OverlaidOnCopy, Spawn, EndStep, CloseSession
<1> QED
  BY <1>1, <1>2, <1>3, <1>4, <1>5, <1>6, <1>7 DEF Next

-----------------------------------------------------------------------------
(* The process.  A manifest is on its way only in a run that was asked for *)
(* it, and only of an Info that the implementation may answer.             *)
Remote == binary.entry = "ServeSpecRemote"

Answerable(i) ==
    IF binary.impl = "spec" THEN \E fs \in SUBSET Files : i \in deriveInfo(spec, fs)
    ELSE i \in ServiceInfos

ProcInv ==
    /\ binary \in Binaries /\ files \subseteq Files
    /\ phase \in Phases
    /\ args \in ArgLists \cup {<<>>}
    /\ code \in {0, 1}
    /\ phase = "down" => args = <<>>
    /\ phase # "exited" => stdout = <<>>
    /\ phase \in {"down", "main", "specFlag", "specWrite", "flag", "write"} => code = 0
    /\ phase \in {"specFlag", "specWrite", "flag", "write"} => ~Remote
    /\ phase \in {"specWrite", "write"} => emitManifestRequested /\ rendered # {}
    /\ phase = "serving" => Remote \/ ~emitManifestRequested
    /\ phase = "exited" /\ stdout # <<>> =>
          /\ emitManifestRequested
          /\ Len(stdout) = 1 /\ DOMAIN stdout = {1}
          /\ code = 0 <=> stdout[1] # {}
    /\ phase = "exited" /\ stdout = <<>> => Remote \/ ~emitManifestRequested \/ code = 1

(* The flag, for the model's command line and for the property.            *)
LEMMA FlaggedIsRequested == Flagged <=> emitManifestRequested
  BY DEF Flagged, emitManifestRequested, ToSet

LEMMA ProcKept ==
    ASSUME ProcInv, Next
    PROVE  ProcInv'
<1> USE DEF ProcInv, Phases, Remote, emitManifestRequested
<1>0. UNCHANGED binary
  BY NextTouches
<1>1. CASE FilesChange  BY <1>0, <1>1 DEF FilesChange
<1>2. CASE Launch       BY <1>0, <1>2 DEF Launch
<1>3. CASE Stop         BY <1>0, <1>3 DEF Stop
<1>4. CASE Process
  <2> USE DEF To, Exit
  <2>1. CASE ServeSpec        BY <1>0, <2>1 DEF ServeSpec
  <2>2. CASE ServeSpecRemote  BY <1>0, <2>2 DEF ServeSpecRemote
  <2>3. CASE Serve            BY <1>0, <2>3 DEF Serve
  <2>4. CASE Render           BY <1>0, <2>4 DEF Render, Failed
  <2>5. CASE Write
    <3>1. PICK r \in rendered : stdout' = Append(<<>>, {r.doc})
      BY <2>5 DEF Write
    <3>2. stdout' = <<{r.doc}>> /\ {r.doc} # {}
      BY <3>1
    <3>3. Len(stdout') = 1 /\ DOMAIN stdout' = {1} /\ stdout'[1] # {} /\ stdout' # <<>>
      BY ONLY <3>2
    <3> QED  BY <1>0, <2>5, <3>3 DEF Write, Handled
  <2>6. CASE WriteFails
    <3>1. stdout' \in {<<>>, Append(<<>>, {})}
      BY <2>6 DEF WriteFails
    <3>2. CASE stdout' = <<>>
      BY <1>0, <2>6, <3>2 DEF WriteFails
    <3>3. CASE stdout' = Append(<<>>, {})
      <4>1. Len(stdout') = 1 /\ DOMAIN stdout' = {1} /\ stdout'[1] = {} /\ stdout' # <<>>
        BY ONLY <3>3
      <4> QED  BY <1>0, <2>6, <4>1 DEF WriteFails
    <3> QED  BY <3>1, <3>2, <3>3
  <2>7. CASE PluginServe      BY <1>0, <2>7 DEF PluginServe
  <2> QED  BY <1>4, <2>1, <2>2, <2>3, <2>4, <2>5, <2>6, <2>7 DEF Process
<1>5. CASE Asked \/ Permissions \/ Session
  <2>1. UNCHANGED <<published, procVars, files>>
    BY <1>5 DEF Asked, Info, Verb, Permissions, PermOpen, PermSent, PermSendFails, PermRecvEnds,
                PermRequest, Perm, Session, OpenSession, BeginStep, OverlaidOnCopy, Spawn,
                EndStep, CloseSession
  <2> QED  BY <1>0, <2>1
<1> QED  BY <1>1, <1>2, <1>3, <1>4, <1>5 DEF Next

-----------------------------------------------------------------------------
(* What the process says of itself, in a manifest or in an RPC.            *)
DocInv ==
    /\ \A r \in rendered : Answerable(r.info) /\ r.doc = buildManifestDoc(r.info)
    /\ \A doc \in published : \E i : Answerable(i) /\ doc = buildManifestDoc(i)
    /\ \A i \in info : Answerable(i)

AnswerInv ==
    binary.impl = "spec" => \A a \in answer :
        a.verb \in Verbs /\ (a.reply = "unimplemented" <=> ~spec.handlers[a.verb])

(* Whatever Info answers is answerable, from any files.                    *)
LEMMA InfosAnswerable ==
    ASSUME ProcInv, NEW result \in Infos, NEW i \in result
    PROVE  Answerable(i)
  BY DEF ProcInv, Infos, Answerable

LEMMA DocKept ==
    ASSUME ProcInv, DocInv, Next
    PROVE  DocInv'
<1>0. UNCHANGED binary
  BY NextTouches
<1>1. ASSUME NEW i PROVE Answerable(i)' <=> Answerable(i)
  BY <1>0 DEF Answerable, spec
<1> HIDE DEF Answerable
<1>2. CASE Render
  <2>1. PICK result \in Infos :
           rendered' = rendered \/ rendered' = {[info |-> i, doc |-> buildManifestDoc(i)] : i \in result}
    BY <1>2 DEF Render, Exit
  <2>2. UNCHANGED <<published, info>>
    BY <1>2 DEF Render, Exit
  <2> QED  BY <1>1, <2>1, <2>2, InfosAnswerable DEF DocInv
<1>3. CASE Write  BY <1>1, <1>3 DEF Write, DocInv
<1>4. CASE Info
  <2>1. info' \in Infos /\ UNCHANGED <<published, rendered>>
    BY <1>4 DEF Info
  <2> QED  BY <1>1, <2>1, InfosAnswerable DEF DocInv
<1>5. CASE Stop   BY <1>1, <1>5 DEF Stop, DocInv
<1>6. ASSUME ~Render, ~Write, ~Info, ~Stop
      PROVE  UNCHANGED <<published, rendered, info>>
  BY <1>6, NextTouches
  DEF FilesChange, Launch, Process, ServeSpec, ServeSpecRemote, Serve, WriteFails,
      PluginServe, To, Exit, Asked, Verb
<1>7. CASE UNCHANGED <<published, rendered, info>>
  BY <1>1, <1>7 DEF DocInv
<1> QED  BY <1>2, <1>3, <1>4, <1>5, <1>6, <1>7

LEMMA AnswerKept ==
    ASSUME AnswerInv, Next
    PROVE  AnswerInv'
<1>0. UNCHANGED binary
  BY NextTouches
<1>1. CASE Stop  BY <1>1 DEF Stop, AnswerInv
<1>2. CASE Info  BY <1>0, <1>2 DEF Info, AnswerInv, spec
<1>3. ASSUME NEW v \in Verbs, Verb(v) PROVE AnswerInv'
  <2>1. PICK reply \in IF Wired(v) THEN {"ok", "error"} ELSE {"unimplemented"} :
           answer' = {[verb |-> v, reply |-> reply]}
    BY <1>3 DEF Verb
  <2>2. binary.impl = "spec" => (Wired(v) <=> spec.handlers[v])
    BY DEF Wired
  <2> QED  BY <1>0, <2>1, <2>2 DEF AnswerInv, spec
<1>4. CASE UNCHANGED answer  BY <1>0, <1>4 DEF AnswerInv, spec
<1> QED  BY <1>1, <1>2, <1>3, <1>4, NextTouches DEF Asked

-----------------------------------------------------------------------------
(* A Permissions stream.  The decisions sent are the requests read, but    *)
(* for the one in hand.                                                    *)
PermInv ==
    /\ perm \in [at : {"none", "recv", "send", "normal", "error"},
                 asked : Seq(RequestIds), acked : Seq(RequestIds)]
    /\ \/ perm.acked = perm.asked
       \/ /\ perm.at \in {"send", "error"}
          /\ \E id \in RequestIds : perm.asked = Append(perm.acked, id)
    /\ perm.at = "send" => \E id \in RequestIds : perm.asked = Append(perm.acked, id)

LEMMA PermKept ==
    ASSUME PermInv, Next
    PROVE  PermInv'
<1> USE DEF PermInv, Perm
<1>1. CASE Stop          BY <1>1 DEF Stop, NoStream
<1>2. CASE PermOpen
  <2>1. perm' = [at |-> "recv", asked |-> <<>>, acked |-> <<>>]
    BY <1>2 DEF PermOpen, NoStream
  <2> QED  BY <2>1
<1>3. CASE PermSent
  <2>1. PICK id \in RequestIds : perm.asked = Append(perm.acked, id)
    BY <1>3 DEF PermSent
  <2>2. Last(perm.asked) = id
    BY <2>1 DEF Last
  <2>3. perm' = [perm EXCEPT !.at = "recv", !.acked = perm.asked]
    BY <1>3, <2>1, <2>2 DEF PermSent
  <2> QED  BY <2>3
<1>4. CASE PermSendFails BY <1>4 DEF PermSendFails
<1>5. CASE PermRecvEnds  BY <1>5 DEF PermRecvEnds
<1>6. ASSUME NEW id \in RequestIds, PermRequest(id) PROVE PermInv'
  <2>1. PICK a \in Seq(RequestIds) : perm = [at |-> "recv", asked |-> a, acked |-> a]
    BY <1>6 DEF PermRequest
  <2>2. perm' = [at |-> "send", asked |-> Append(a, id), acked |-> a]
    BY <1>6, <2>1 DEF PermRequest
  <2>3. Append(a, id) \in Seq(RequestIds)
    OBVIOUS
  <2> QED  BY <2>2, <2>3
<1>7. CASE UNCHANGED perm  BY <1>7
<1> QED  BY <1>1, <1>2, <1>3, <1>4, <1>5, <1>6, <1>7, NextTouches DEF Permissions

-----------------------------------------------------------------------------
(* The session and its steps.  Every view is the one the values sent with  *)
(* the session and with the step make, whatever other steps did.           *)
Opened(d) == NewSecrets(secretMap(spec.secrets), d)

RightView(st) == st.view = WithStepSecrets(Opened(st.opened), st.given)

SessionInv ==
    /\ delivered \subseteq Deliveries
    /\ session # {} => binary.impl = "spec"
    /\ \A d \in delivered, s \in session : s = Opened(d)
    /\ DOMAIN step = Steps
    /\ \A k \in Steps : \A st \in step[k] : st.given \in Deliveries /\ RightView(st)
    /\ \A c \in child : RightView(c.step) /\ c.env = SpawnEnv(c.step.view, c.names)

LEMMA SessionKept ==
    ASSUME SessionInv, Next
    PROVE  SessionInv'
<1>0. UNCHANGED <<binary, spec>>
  BY NextTouches DEF spec
<1>1. /\ \A d : Opened(d)' = Opened(d)
      /\ \A st : RightView(st)' <=> RightView(st)
  BY <1>0 DEF Opened, RightView
<1> USE DEF SessionInv
<1> HIDE DEF Opened, RightView
<1>2. CASE Stop          BY <1>2 DEF Stop
<1>3. ASSUME NEW d \in Deliveries, OpenSession(d) PROVE SessionInv'
  BY <1>0, <1>1, <1>3 DEF OpenSession, Opened
<1>4. ASSUME NEW k \in Steps, NEW d \in Deliveries, BeginStep(k, d) PROVE SessionInv'
  <2>1. PICK s \in session : step' = [step EXCEPT ![k] = StepOf(s, d)]
    BY <1>4 DEF BeginStep
  <2>2. \A st \in StepOf(s, d) : st.given \in Deliveries /\ RightView(st)
    BY DEF StepOf, RightView
  <2>3. UNCHANGED <<delivered, session, child>>
    BY <1>4 DEF BeginStep, OverlaidOnCopy
  <2> QED  BY <1>0, <1>1, <2>1, <2>2, <2>3
<1>5. ASSUME NEW k \in Steps, NEW names \in NameLists, Spawn(k, names) PROVE SessionInv'
  <2>1. PICK st \in step[k] :
           child' = {[names |-> names, step |-> st, env |-> SpawnEnv(st.view, names)]}
    BY <1>5 DEF Spawn
  <2>2. UNCHANGED <<delivered, session, step>>
    BY <1>5 DEF Spawn
  <2> QED  BY <1>0, <1>1, <2>1, <2>2
<1>6. ASSUME NEW k \in Steps, EndStep(k) PROVE SessionInv'
  BY <1>0, <1>1, <1>6 DEF EndStep
<1>7. CASE CloseSession  BY <1>0, <1>1, <1>7 DEF CloseSession
<1>8. CASE UNCHANGED sessionVars  BY <1>0, <1>1, <1>8
<1> QED  BY <1>2, <1>3, <1>4, <1>5, <1>6, <1>7, <1>8, NextTouches DEF Session

-----------------------------------------------------------------------------
AdapterInv == ProcInv /\ DocInv /\ AnswerInv /\ PermInv /\ SessionInv

LEMMA InitAdapterInv == Init => AdapterInv
  BY DEF Init, AdapterInv, ProcInv, Phases, DocInv, AnswerInv, PermInv, SessionInv, NoStream,
         emitManifestRequested

(* The invariant of the adapter's life.                                    *)
THEOREM AdapterInvariant == Spec => []AdapterInv
<1>1. AdapterInv /\ [Next]_vars => AdapterInv'
  <2>1. ASSUME AdapterInv, UNCHANGED vars PROVE AdapterInv'
    BY <2>1 DEF vars, AdapterInv, ProcInv, Remote, emitManifestRequested, DocInv, Answerable,
                AnswerInv, PermInv, SessionInv, Opened, RightView, spec
  <2> QED
    BY <2>1, ProcKept, DocKept, AnswerKept, PermKept, SessionKept DEF AdapterInv
<1> QED
  BY <1>1, InitAdapterInv, PTL DEF Spec

(* The type invariant.                                                     *)
THEOREM AdapterTypeCorrect == Spec => []TypeOK
<1>1. AdapterInv => TypeOK
  BY DEF AdapterInv, ProcInv, SessionInv, TypeOK
<1> QED
  BY <1>1, AdapterInvariant, PTL

(* A spawned binary prints one manifest or serves, never both, and its     *)
(* exit code says which.                                                   *)
THEOREM AlwaysManifestOrService == Spec => []ManifestOrService
<1>1. ASSUME AdapterInv PROVE ManifestOrService
  <2>1. CASE stdout = <<>>
    BY <1>1, <2>1, FlaggedIsRequested DEF AdapterInv, ProcInv, Phases, Remote, ManifestOrService
  <2>2. CASE stdout # <<>>
    <3>1. /\ phase = "exited" /\ emitManifestRequested /\ Len(stdout) = 1
          /\ DOMAIN stdout = {1} /\ (code = 0 <=> stdout[1] # {})
      BY <1>1, <2>2 DEF AdapterInv, ProcInv
    <3>2. {} \notin ToSet(stdout) <=> stdout[1] # {}
      BY <3>1, Zenon DEF ToSet
    <3> QED  BY <2>2, <3>1, <3>2, FlaggedIsRequested DEF ManifestOrService
  <2> QED  BY <2>1, <2>2
<1> QED
  BY <1>1, AdapterInvariant, PTL

(* The permissionless default never ends a stream normally with a request  *)
(* undecided, however many requests it read.                               *)
THEOREM DefaultFailsClosed == Spec => []PermissionsFailClosed
<1>1. ASSUME AdapterInv PROVE PermissionsFailClosed
  <2>1. PICK a, q \in Seq(RequestIds) : a = perm.acked /\ q = perm.asked
    BY <1>1 DEF AdapterInv, PermInv
  <2>2. a = q \/ \E id \in RequestIds : q = Append(a, id)
    BY <1>1, <2>1 DEF AdapterInv, PermInv
  <2>3. IsPrefix(a, q)
    BY <2>2 DEF IsPrefix
  <2>4. perm.at \in {"recv", "normal"} => a = q
    BY <1>1, <2>1 DEF AdapterInv, PermInv
  <2> QED  BY <2>1, <2>3, <2>4 DEF PermissionsFailClosed
<1> QED
  BY <1>1, AdapterInvariant, PTL

-----------------------------------------------------------------------------
(* Secrets and announced features.                                         *)

(* The keys of a keyed list are its names.                                 *)
LEMMA KeyedDomain ==
    ASSUME NEW seq
    PROVE  DOMAIN Keyed(seq) = ToSet(Names(seq))
  BY DEF Keyed, ToSet, Names

LEMMA SecretMapDomain ==
    ASSUME NEW secrets
    PROVE  DOMAIN secretMap(secrets) = ToSet(Names(secrets))
  BY KeyedDomain DEF secretMap

(* A child process gets the credentials of its own step, and none when a   *)
(* name it asks for was not declared, however the steps of a session       *)
(* overlap and whatever the host delivers.                                 *)
THEOREM ChildrenGetTheirCredentials == Spec => []ChildGetsItsCredentials
<1>1. ASSUME AdapterInv, NEW c \in child
      PROVE  LET sent == Overlay(c.step.given, c.step.opened)
             IN  /\ c.env = {} <=> \E n \in ToSet(c.names) : n \notin ToSet(Names(spec.secrets))
                 /\ \A e \in c.env :
                       /\ DOMAIN e = ToSet(c.names) \cap DOMAIN sent
                       /\ \A n \in DOMAIN e : e[n] = sent[n]
  <2> DEFINE sent == Overlay(c.step.given, c.step.opened)
             view == c.step.view
             asked == ToSet(c.names)
  <2>1. RightView(c.step) /\ c.env = SpawnEnv(view, c.names)
    BY <1>1 DEF AdapterInv, SessionInv
  <2>2. view.declared = DOMAIN secretMap(spec.secrets) /\ view.values = sent
    BY <2>1 DEF RightView, Opened, WithStepSecrets, NewSecrets
  <2> HIDE DEF sent, view
  <2>3. c.env = IF asked \subseteq view.declared
                THEN {[n \in asked \cap DOMAIN sent |-> sent[n]]} ELSE {}
    BY <2>1, <2>2 DEF SpawnEnv, ToSet
  <2> HIDE DEF asked
  <2>4. /\ c.env = {} <=> \E n \in asked : n \notin ToSet(Names(spec.secrets))
        /\ \A e \in c.env :
              /\ DOMAIN e = asked \cap DOMAIN sent
              /\ \A n \in DOMAIN e : e[n] = sent[n]
    <3> DEFINE D == ToSet(Names(spec.secrets))
               env == [n \in asked \cap DOMAIN sent |-> sent[n]]
    <3>1. c.env = IF asked \subseteq D THEN {env} ELSE {}
      BY <2>2, <2>3, SecretMapDomain, Zenon
    <3>2. DOMAIN env = asked \cap DOMAIN sent /\ \A n \in DOMAIN env : env[n] = sent[n]
      BY Zenon
    <3> HIDE DEF D, env
    <3>3. c.env = {} <=> \E n \in asked : n \notin D
      BY <3>1, Zenon
    <3> QED  BY <3>1, <3>2, <3>3, Zenon DEF D
  <2> QED  BY <2>4 DEF sent, asked
<1>2. AdapterInv => ChildGetsItsCredentials
  BY <1>1, Zenon DEF ChildGetsItsCredentials
<1> QED
  BY <1>2, AdapterInvariant, PTL

(* What Info is derived from.                                              *)
LEMMA DerivedInfo ==
    ASSUME NEW sp, NEW fs, NEW i \in deriveInfo(sp, fs)
    PROVE  /\ validate(sp) /\ i.examples \in resolveExamples(sp, fs)
           /\ i.name = sp.name /\ i.version = sp.version /\ i.image = sp.image
           /\ i.platforms = sp.platforms /\ i.permissions = sp.permissions
           /\ i.secrets = secretMap(sp.secrets)
           /\ i.schemas = [s \in SchemaNames |-> adapterSchemaProto(sp.schemas[s])]
           /\ i.features = supportedFeaturesFromSpec(sp)
  BY DEF deriveInfo

(* Unless the author overrides the list, the verbs announced in Info are   *)
(* exactly the verbs that are answered.                                    *)
THEOREM AnnouncedIsAnswered == Spec => []FeaturesHonest
<1>1. ASSUME AdapterInv, binary.impl = "spec", spec.features = {},
             NEW i \in info, NEW a \in answer
      PROVE  a.reply = "unimplemented" <=> FeatureOf[a.verb] \notin i.features
  <2>1. PICK fs : i \in deriveInfo(spec, fs)
    BY <1>1 DEF AdapterInv, DocInv, Answerable
  <2>2. i.features = {FeatureOf[v] : v \in {w \in Verbs : spec.handlers[w]}}
    <3>1. i.features = supportedFeaturesFromSpec(spec)
      BY <2>1, DerivedInfo, Zenon
    <3> QED  BY <1>1, <3>1, Zenon DEF supportedFeaturesFromSpec
  <2>3. \A v, w \in Verbs : FeatureOf[v] = FeatureOf[w] => v = w
    BY DEF FeatureOf, Verbs
  <2>4. a.verb \in Verbs /\ (a.reply = "unimplemented" <=> ~spec.handlers[a.verb])
    BY <1>1 DEF AdapterInv, AnswerInv
  <2> QED  BY <2>2, <2>3, <2>4
<1>2. AdapterInv => FeaturesHonest
  BY <1>1, Zenon DEF FeaturesHonest
<1> QED
  BY <1>2, AdapterInvariant, PTL

-----------------------------------------------------------------------------
(* Nothing a valid spec declares is lost in Info.                          *)

LEMMA ListDomain ==
    ASSUME NEW seq, IsList(seq)
    PROVE  Len(seq) \in Nat /\ DOMAIN seq = 1..Len(seq)
  BY DEF IsList

(* With unique names every entry is stored under its own.                  *)
LEMMA KeyedEntry ==
    ASSUME NEW seq, IsList(seq), IsInjective(Names(seq)), NEW i \in DOMAIN seq
    PROVE  seq[i].name \in DOMAIN Keyed(seq) /\ Keyed(seq)[seq[i].name] = seq[i]
<1> DEFINE n == seq[i].name
           named == {j \in DOMAIN seq : seq[j].name = n}
<1>1. \A j \in DOMAIN seq : seq[j].name = n => j = i
  BY DEF IsInjective, Names
<1>2. named = {i}
  BY <1>1, Zenon
<1>3. i <= i
  BY ListDomain
<1>4. (CHOOSE k \in named : \A j \in named : j <= k) = i
  BY <1>2, <1>3, Zenon
<1>5. n \in {seq[j].name : j \in DOMAIN seq}
  BY Zenon
<1> QED
  BY <1>4, <1>5, Zenon DEF Keyed

(* A declared field on the wire: all of it but the name.                   *)
LEMMA FieldOnWire ==
    ASSUME NEW schema, IsList(schema), validSchema(schema), NEW i \in DOMAIN schema,
           NEW f, f = schema[i], NEW wire, wire = adapterSchemaProto(schema)
    PROVE  f.name \in DOMAIN wire /\ wire[f.name] = [k \in DOMAIN f \ {"name"} |-> f[k]]
<1>1. IsInjective(Names(schema))
  BY Zenon DEF validSchema
<1>2. f.name \in DOMAIN Keyed(schema) /\ Keyed(schema)[f.name] = f
  BY <1>1, KeyedEntry, Zenon
<1> QED
  BY <1>2, Zenon DEF adapterSchemaProto

LEMMA NamePutBack ==
    ASSUME NEW f, IsField(f, FieldKeys \cup {"name"})
    PROVE  Overlay([name |-> f.name], [k \in DOMAIN f \ {"name"} |-> f[k]]) = f
  BY DEF IsField, FieldKeys, Overlay

(* Every field, secret and example that a valid spec declares is in the    *)
(* Info the host receives, with its type, its description and its payload. *)
THEOREM InfoIsComplete == Spec => []InfoLosesNothing
<1>1. ASSUME AdapterInv, binary.impl = "spec", NEW i \in info
      PROVE  /\ \A s \in SchemaNames : \A f \in ToSet(spec.schemas[s]) :
                   Overlay([name |-> f.name], i.schemas[s][f.name]) = f
             /\ \A s \in ToSet(spec.secrets) : i.secrets[s.name] = s.description
             /\ Len(i.examples) = Len(spec.examples)
             /\ \A n \in DOMAIN spec.examples :
                   i.examples[n].hcl \in {spec.examples[n].hcl, spec.examples[n].file} \ {""}
  <2>0. PICK fs : i \in deriveInfo(spec, fs)
    BY <1>1 DEF AdapterInv, DocInv, Answerable
  <2>1. IsSpec(spec) /\ validate(spec)
    BY <1>1, <2>0, SpecsAssumption, DerivedInfo DEF AdapterInv, ProcInv, spec
  <2>2. ASSUME NEW s \in SchemaNames, NEW f \in ToSet(spec.schemas[s])
        PROVE  Overlay([name |-> f.name], i.schemas[s][f.name]) = f
    <3> DEFINE schema == spec.schemas[s]
    <3>1. IsList(schema) /\ validSchema(schema)
      BY <2>1 DEF IsSpec, validate
    <3>2. PICK n \in DOMAIN schema : f = schema[n]
      BY DEF ToSet
    <3>3. IsField(f, FieldKeys \cup {"name"})
      BY <2>1, <3>2 DEF IsSpec
    <3>4. i.schemas[s] = adapterSchemaProto(schema)
      <4>1. i.schemas = [t \in SchemaNames |-> adapterSchemaProto(spec.schemas[t])]
        BY <2>0, DerivedInfo, Zenon
      <4> QED  BY <4>1, Zenon
    <3> HIDE DEF schema
    <3>5. i.schemas[s][f.name] = [k \in DOMAIN f \ {"name"} |-> f[k]]
      <4>1. PICK wire : wire = i.schemas[s] /\ wire = adapterSchemaProto(schema)
        BY <3>4, Zenon
      <4>2. wire[f.name] = [k \in DOMAIN f \ {"name"} |-> f[k]]
        BY ONLY <3>1, n \in DOMAIN schema, <3>2, <4>1, FieldOnWire
      <4> QED  BY <4>1, <4>2, Zenon
    <3> QED  BY <3>3, <3>5, NamePutBack, Zenon
  <2>3. ASSUME NEW s \in ToSet(spec.secrets)
        PROVE  i.secrets[s.name] = s.description
    <3>1. PICK n \in DOMAIN spec.secrets : s = spec.secrets[n]
      BY DEF ToSet
    <3>2. IsList(spec.secrets) /\ IsInjective(Names(spec.secrets))
      BY <2>1 DEF IsSpec, validate
    <3>3. s.name \in DOMAIN Keyed(spec.secrets) /\ Keyed(spec.secrets)[s.name] = s
      BY <3>1, <3>2, KeyedEntry, Zenon
    <3>4. i.secrets = secretMap(spec.secrets)
      BY <2>0, DerivedInfo, Zenon
    <3> QED  BY <3>3, <3>4, Zenon DEF secretMap
  <2>4. /\ Len(i.examples) = Len(spec.examples)
        /\ \A n \in DOMAIN spec.examples :
              i.examples[n].hcl \in {spec.examples[n].hcl, spec.examples[n].file} \ {""}
    <3> DEFINE ex == spec.examples
    <3>1. i.examples \in resolveExamples(spec, fs)
      BY <2>0, DerivedInfo, Zenon
    <3>2. i.examples = [n \in DOMAIN ex |->
             [name |-> ex[n].name, hcl |-> IF ex[n].file # "" THEN ex[n].file ELSE ex[n].hcl]]
      BY <3>1 DEF resolveExamples
    <3>3. Len(ex) \in Nat /\ DOMAIN ex = 1..Len(ex)
      BY <2>1, ListDomain DEF IsSpec
    <3>4. \A n \in DOMAIN ex : validExample(ex[n])
      BY <2>1 DEF validate
    <3> HIDE DEF ex
    <3>5. Len(i.examples) = Len(ex)
      <4>1. PICK exs, n : exs = i.examples /\ n = Len(ex)
        BY Zenon
      <4>2. DOMAIN exs = 1..n /\ n \in Nat
        BY <3>2, <3>3, <4>1, Zenon
      <4>3. Len(exs) = n
        BY ONLY <4>2
      <4> QED  BY <4>1, <4>3, Zenon
    <3>6. ASSUME NEW n \in DOMAIN ex
          PROVE  i.examples[n].hcl \in {ex[n].hcl, ex[n].file} \ {""}
      <4>1. i.examples[n].hcl = IF ex[n].file # "" THEN ex[n].file ELSE ex[n].hcl
        <5>1. PICK h : h = IF ex[n].file # "" THEN ex[n].file ELSE ex[n].hcl
          BY Zenon
        <5>2. PICK e, name : e = i.examples[n] /\ e = [name |-> name, hcl |-> h]
          BY <3>2, <5>1, Zenon
        <5>3. e.hcl = h
          BY ONLY <5>2
        <5> QED  BY <5>1, <5>2, <5>3, Zenon
      <4>2. (ex[n].hcl = "") # (ex[n].file = "")
        BY <3>4 DEF validExample
      <4> QED  BY <4>1, <4>2
    <3> QED  BY <3>5, <3>6 DEF ex
  <2> QED  BY <2>2, <2>3, <2>4, Zenon
<1>2. AdapterInv => InfoLosesNothing
  BY <1>1, Zenon DEF InfoLosesNothing
<1> QED
  BY <1>2, AdapterInvariant, PTL

-----------------------------------------------------------------------------
(* The manifest, written and read back.                                    *)

(* What omitempty leaves out of a field is what an absent key stands for.  *)
LEMMA FieldRoundTrip ==
    ASSUME NEW f, IsField(f, FieldKeys)
    PROVE  Known(fieldDoc(f), NoField) /\ Overlay(fieldDoc(f), NoField) = f
<1>1. f = [k \in FieldKeys |-> f[k]] /\ f.sensitive \in BOOLEAN
  BY DEF IsField
<1>2. DOMAIN NoField = FieldKeys /\ NoField.default = "" /\ NoField.sensitive = FALSE
  BY DEF NoField, FieldKeys
<1> DEFINE omitted == (IF f.default = "" THEN {"default"} ELSE {})
                      \cup (IF f.sensitive THEN {} ELSE {"sensitive"})
<1>3. fieldDoc(f) = [k \in FieldKeys \ omitted |-> f[k]]
  BY <1>1 DEF fieldDoc
<1>4. \A k \in omitted : NoField[k] = f[k]
  BY <1>1, <1>2
<1> HIDE DEF omitted
<1>5. Known(fieldDoc(f), NoField)
  BY <1>2, <1>3, Zenon DEF Known
<1>6. Overlay(fieldDoc(f), NoField)
        = [k \in FieldKeys |-> IF k \in FieldKeys \ omitted THEN f[k] ELSE NoField[k]]
  BY <1>2, <1>3 DEF Overlay
<1>7. Overlay(fieldDoc(f), NoField) = [k \in FieldKeys |-> f[k]]
  BY <1>4, <1>6
<1> QED
  BY <1>1, <1>5, <1>7, Zenon

(* A schema is read back as it was written.                                *)
LEMMA SchemaRoundTrip ==
    ASSUME NEW schema, schema = [n \in DOMAIN schema |-> schema[n]],
           \A n \in DOMAIN schema : IsField(schema[n], FieldKeys),
           NEW doc, doc = schemaFromProto(schema)
    PROVE  /\ Known(doc, NoSchema)
           /\ \A n \in DOMAIN doc.fields : Known(doc.fields[n], NoField)
           /\ DecodeSchema(doc) = [fields |-> schema]
<1>1. doc.fields = [n \in DOMAIN schema |-> fieldDoc(schema[n])]
  BY DEF schemaFromProto
<1>2. Known(doc, NoSchema)
  BY DEF schemaFromProto, Known, NoSchema
<1>3. \A n \in DOMAIN doc.fields : Known(doc.fields[n], NoField)
  BY <1>1, FieldRoundTrip, Zenon
<1>4. [n \in DOMAIN doc.fields |-> Overlay(doc.fields[n], NoField)]
        = [n \in DOMAIN schema |-> schema[n]]
  <2>1. DOMAIN doc.fields = DOMAIN schema
    BY <1>1, Zenon
  <2>2. ASSUME NEW n \in DOMAIN schema PROVE Overlay(doc.fields[n], NoField) = schema[n]
    <3>1. doc.fields[n] = fieldDoc(schema[n])
      BY <1>1, Zenon
    <3>2. Overlay(fieldDoc(schema[n]), NoField) = schema[n]
      BY FieldRoundTrip, Zenon
    <3> QED  BY <3>1, <3>2, Zenon
  <2> QED  BY <2>1, <2>2, Zenon
<1>5. DecodeSchema(doc) = [fields |-> schema]
  BY <1>4, Zenon DEF DecodeSchema
<1> QED
  BY <1>2, <1>3, <1>5, Zenon

(* What the strict parser makes of the manifest of an Info.                *)
Decoded(m, i) ==
    /\ m.schema_version = 1 /\ m.name = i.name /\ m.version = i.version
    /\ m.source_url = i.sourceURL /\ m.sdk_protocol_version = sdkProtocolVersion(i.protocol)
    /\ m.platforms = [n \in DOMAIN i.platforms |-> platformDoc(i.platforms[n])]
    /\ m.config_schema = [fields |-> i.schemas.config]
    /\ m.input_schema = [fields |-> i.schemas.input]
    /\ m.output_schema = [fields |-> i.schemas.output]
    /\ m.secrets = secretsFromMap(i.secrets)
    /\ m.permissions = i.permissions /\ m.compatible_environments = i.environments
    /\ m.container_image = IF i.image = "" THEN {} ELSE {[ref |-> i.image, digest |-> ""]}

LEMMA OverlayNothing ==
    ASSUME NEW g
    PROVE  Overlay(<<>>, g) = [k \in DOMAIN g |-> g[k]]
<1>1. DOMAIN <<>> = {}
  OBVIOUS
<1> QED
  BY <1>1 DEF Overlay

(* The keys that are written, over those that may be absent.               *)
LEMMA DocOverNone ==
    ASSUME NEW i, NEW doc, doc = buildManifestDoc(i), NEW m, m = Overlay(doc, NoManifest)
    PROVE  /\ DOMAIN doc \subseteq DOMAIN NoManifest /\ DOMAIN m = DOMAIN NoManifest
           /\ m.schema_version = 1 /\ m.name = i.name /\ m.version = i.version
           /\ m.source_url = i.sourceURL
           /\ m.sdk_protocol_version = sdkProtocolVersion(i.protocol)
           /\ m.platforms = [n \in DOMAIN i.platforms |-> platformDoc(i.platforms[n])]
           /\ m.config_schema = schemaFromProto(i.schemas.config)
           /\ m.input_schema = schemaFromProto(i.schemas.input)
           /\ m.output_schema = schemaFromProto(i.schemas.output)
           /\ m.secrets = secretsFromMap(i.secrets)
           /\ m.permissions = i.permissions /\ m.compatible_environments = i.environments
           /\ m.container_image
                = IF i.image = "" THEN {} ELSE {[ref |-> i.image, digest |-> ""]}
<1>1. CASE i.image = ""
  <2>1. doc = manifestDoc(i)
    <3>1. doc = [k \in DOMAIN manifestDoc(i) |-> manifestDoc(i)[k]]
      BY <1>1, OverlayNothing, Zenon DEF buildManifestDoc, containerImageDoc
    <3>2. manifestDoc(i) = [k \in DOMAIN manifestDoc(i) |-> manifestDoc(i)[k]]
      BY DEF manifestDoc
    <3> QED  BY <3>1, <3>2, Zenon
  <2>2. m = Overlay(manifestDoc(i), NoManifest)
    BY <2>1, Zenon
  <2>3. /\ DOMAIN manifestDoc(i) = DOMAIN NoManifest \ {"container_image"}
        /\ NoManifest.container_image = {} /\ "container_image" \in DOMAIN NoManifest
    BY ONLY DEF manifestDoc, NoManifest
  <2>4. DOMAIN doc \subseteq DOMAIN NoManifest /\ DOMAIN m = DOMAIN NoManifest
    BY ONLY <2>1, <2>2, <2>3 DEF Overlay
  <2>5. m.container_image = {}
    BY ONLY <2>2, <2>3 DEF Overlay
  <2>6. \A k \in DOMAIN manifestDoc(i) : m[k] = manifestDoc(i)[k]
    BY ONLY <2>2 DEF Overlay
  <2> QED
    BY <1>1, <2>4, <2>5, <2>6 DEF manifestDoc
<1>2. CASE i.image # ""
  BY <1>2 DEF buildManifestDoc, manifestDoc, containerImageDoc, Overlay, NoManifest
<1> QED
  BY <1>1, <1>2

(* The strict parser accepts the manifest of every Info and reads back     *)
(* what Info says.                                                         *)
LEMMA ManifestRoundTrip ==
    ASSUME NEW i, IsInfo(i)
    PROVE  \E m \in Parse(buildManifestDoc(i)) : Decoded(m, i)
<1> DEFINE doc == buildManifestDoc(i)
           o   == Overlay(doc, NoManifest)
           m   == [k \in DOMAIN o |-> IF k \in Schemas THEN DecodeSchema(o[k]) ELSE o[k]]
<1>1. /\ DOMAIN doc \subseteq DOMAIN NoManifest /\ DOMAIN o = DOMAIN NoManifest
      /\ o.schema_version = 1 /\ o.name = i.name /\ o.version = i.version
      /\ o.source_url = i.sourceURL
      /\ o.sdk_protocol_version = sdkProtocolVersion(i.protocol)
      /\ o.platforms = [n \in DOMAIN i.platforms |-> platformDoc(i.platforms[n])]
      /\ o.config_schema = schemaFromProto(i.schemas.config)
      /\ o.input_schema = schemaFromProto(i.schemas.input)
      /\ o.output_schema = schemaFromProto(i.schemas.output)
      /\ o.secrets = secretsFromMap(i.secrets)
      /\ o.permissions = i.permissions /\ o.compatible_environments = i.environments
      /\ o.container_image = IF i.image = "" THEN {} ELSE {[ref |-> i.image, digest |-> ""]}
  BY DocOverNone, Zenon
<1> HIDE DEF doc, o
<1>2. \A s \in SchemaNames :
         LET d == schemaFromProto(i.schemas[s])
         IN  /\ Known(d, NoSchema)
             /\ \A n \in DOMAIN d.fields : Known(d.fields[n], NoField)
             /\ DecodeSchema(d) = [fields |-> i.schemas[s]]
  <2> SUFFICES ASSUME NEW s \in SchemaNames, NEW d, d = schemaFromProto(i.schemas[s])
               PROVE  /\ Known(d, NoSchema)
                      /\ \A n \in DOMAIN d.fields : Known(d.fields[n], NoField)
                      /\ DecodeSchema(d) = [fields |-> i.schemas[s]]
    BY Zenon
  <2>1. /\ i.schemas[s] = [n \in DOMAIN i.schemas[s] |-> i.schemas[s][n]]
        /\ \A n \in DOMAIN i.schemas[s] : IsField(i.schemas[s][n], FieldKeys)
    BY Zenon DEF IsInfo
  <2> QED
    BY <2>1, SchemaRoundTrip, Zenon
<1>3. "config" \in SchemaNames /\ "input" \in SchemaNames /\ "output" \in SchemaNames
  BY DEF SchemaNames
<1>4. /\ Known(o.config_schema, NoSchema) /\ Known(o.input_schema, NoSchema)
      /\ Known(o.output_schema, NoSchema)
      /\ \A n \in DOMAIN o.config_schema.fields : Known(o.config_schema.fields[n], NoField)
      /\ \A n \in DOMAIN o.input_schema.fields : Known(o.input_schema.fields[n], NoField)
      /\ \A n \in DOMAIN o.output_schema.fields : Known(o.output_schema.fields[n], NoField)
      /\ DecodeSchema(o.config_schema) = [fields |-> i.schemas.config]
      /\ DecodeSchema(o.input_schema) = [fields |-> i.schemas.input]
      /\ DecodeSchema(o.output_schema) = [fields |-> i.schemas.output]
  BY <1>1, <1>2, <1>3, Zenon
<1>5. \A s \in Schemas :
         /\ Known(o[s], NoSchema)
         /\ \A n \in DOMAIN o[s].fields : Known(o[s].fields[n], NoField)
  BY <1>4, Zenon DEF Schemas
<1>6. \A n \in DOMAIN o.platforms : Known(o.platforms[n], NoPlatform)
  BY <1>1 DEF Known, NoPlatform, platformDoc
<1>7. \A s \in o.secrets : Known(s, NoSecret)
  BY <1>1 DEF Known, NoSecret, secretsFromMap
<1>8. \A image \in o.container_image : Known(image, NoImage)
  <2>1. Known([ref |-> i.image, digest |-> ""], NoImage)
    BY ONLY DEF Known, NoImage
  <2> QED  BY <1>1, <2>1, Zenon
<1>9. Known(doc, NoManifest)
  BY <1>1, Zenon DEF Known
<1>10. m \in Parse(doc)
  BY <1>5, <1>6, <1>7, <1>8, <1>9, Zenon DEF Parse, o
<1>11. \A k \in DOMAIN NoManifest : m[k] = IF k \in Schemas THEN DecodeSchema(o[k]) ELSE o[k]
  BY <1>1, Zenon
<1> HIDE DEF m
<1>12. /\ m.schema_version = o.schema_version /\ m.name = o.name /\ m.version = o.version
       /\ m.source_url = o.source_url /\ m.sdk_protocol_version = o.sdk_protocol_version
       /\ m.platforms = o.platforms /\ m.secrets = o.secrets
       /\ m.permissions = o.permissions
       /\ m.compatible_environments = o.compatible_environments
       /\ m.container_image = o.container_image
  BY ONLY <1>11 DEF NoManifest, Schemas
<1>13. /\ m.config_schema = DecodeSchema(o.config_schema)
       /\ m.input_schema = DecodeSchema(o.input_schema)
       /\ m.output_schema = DecodeSchema(o.output_schema)
  BY ONLY <1>11 DEF NoManifest, Schemas
<1>14. Decoded(m, i)
  BY <1>1, <1>4, <1>12, <1>13, Zenon DEF Decoded
<1> QED
  BY <1>10, <1>14, Zenon DEF doc

(* On the wire a field has every key but its name.                         *)
LEMMA WireFields ==
    ASSUME NEW schema, IsList(schema), validSchema(schema),
           \A j \in DOMAIN schema : IsField(schema[j], FieldKeys \cup {"name"}),
           NEW wire, wire = adapterSchemaProto(schema)
    PROVE  /\ wire = [n \in DOMAIN wire |-> wire[n]]
           /\ \A n \in DOMAIN wire : IsField(wire[n], FieldKeys)
<1>1. wire = [n \in DOMAIN wire |-> wire[n]]
  BY Zenon DEF adapterSchemaProto
<1>2. ASSUME NEW n \in DOMAIN wire PROVE IsField(wire[n], FieldKeys)
  <2>1. DOMAIN wire = {schema[j].name : j \in DOMAIN schema}
    BY Zenon DEF adapterSchemaProto, Keyed
  <2>2. PICK j \in DOMAIN schema : n = schema[j].name
    BY <1>2, <2>1, Zenon
  <2>3. PICK f : f = schema[j]
    BY Zenon
  <2>4. wire[n] = [k \in DOMAIN f \ {"name"} |-> f[k]]
    <3>1. wire[f.name] = [k \in DOMAIN f \ {"name"} |-> f[k]]
      BY ONLY IsList(schema), validSchema(schema), j \in DOMAIN schema, <2>3,
              wire = adapterSchemaProto(schema), FieldOnWire
    <3> QED  BY <2>2, <2>3, <3>1, Zenon
  <2>5. IsField(f, FieldKeys \cup {"name"})
    BY <2>3, Zenon
  <2>6. ASSUME NEW w, w = [k \in DOMAIN f \ {"name"} |-> f[k]]
        PROVE  IsField(w, FieldKeys)
    BY ONLY <2>5, <2>6 DEF IsField, FieldKeys
  <2> QED  BY <2>4, <2>6, Zenon
<1> QED
  BY <1>1, <1>2, Zenon

(* Every answer of Info, of a valid spec or of a Service, has the wire's   *)
(* types.                                                                  *)
LEMMA AnswerableIsInfo ==
    ASSUME ProcInv, NEW i, Answerable(i)
    PROVE  IsInfo(i)
<1>1. CASE binary.impl # "spec"
  BY <1>1, InfosAssumption DEF Answerable
<1>2. CASE binary.impl = "spec"
  <2>1. PICK fs : i \in deriveInfo(spec, fs)
    BY <1>2 DEF Answerable
  <2>2. IsSpec(spec) /\ validate(spec)
    BY <1>2, <2>1, SpecsAssumption, DerivedInfo DEF ProcInv, spec
  <2>3. /\ i.platforms = spec.platforms
        /\ i.schemas = [s \in SchemaNames |-> adapterSchemaProto(spec.schemas[s])]
    BY <2>1, DerivedInfo, Zenon
  <2>4. ASSUME NEW s \in SchemaNames
        PROVE  /\ i.schemas[s] = [n \in DOMAIN i.schemas[s] |-> i.schemas[s][n]]
               /\ \A n \in DOMAIN i.schemas[s] : IsField(i.schemas[s][n], FieldKeys)
    <3>1. i.schemas[s] = adapterSchemaProto(spec.schemas[s])
      BY <2>3, Zenon
    <3>2. /\ IsList(spec.schemas[s]) /\ validSchema(spec.schemas[s])
          /\ \A j \in DOMAIN spec.schemas[s] :
                IsField(spec.schemas[s][j], FieldKeys \cup {"name"})
      BY <2>2, Zenon DEF IsSpec, validate
    <3> QED  BY <3>1, <3>2, WireFields, Zenon
  <2>5. IsPlatforms(i.platforms)
    BY <2>2, <2>3, Zenon DEF IsSpec
  <2> QED  BY <2>4, <2>5, Zenon DEF IsInfo
<1> QED
  BY <1>1, <1>2

-----------------------------------------------------------------------------
(* The strict parser's checks, on what it decoded from a well-formed Info. *)

LEMMA ProtocolIsTwo ==
    ASSUME NEW read, read \subseteq {2}
    PROVE  sdkProtocolVersion(read) = 2
<1>1. read = {} \/ read = {2}
  BY Zenon
<1> QED
  BY <1>1 DEF sdkProtocolVersion

LEMMA TwoParts ==
    ASSUME NEW S, NEW p \in Seq(S), Len(p) = 2
    PROVE  Head(p) = p[1] /\ Tail(p) = <<p[2]>>
<1>1. p # <<>>
  OBVIOUS
<1>2. Len(Tail(p)) = 1 /\ Tail(p)[1] = p[2]
  BY <1>1, HeadTailProperties
<1>3. Tail(p) = <<p[2]>>
  <2>1. PICK t : t = Tail(p)
    BY Zenon
  <2>2. t \in Seq(S)
    BY <1>1, <2>1, HeadTailProperties, Zenon
  <2>3. PICK x : x = t[1] /\ x = p[2]
    BY <1>2, <2>1, Zenon
  <2>4. x \in S /\ Len(t) = 1
    <3>1. 2 \in 1..Len(p)
      BY ONLY Len(p) = 2
    <3>2. p[2] \in S
      BY <3>1, ElementOfSeq, Zenon
    <3> QED  BY <1>2, <2>1, <2>3, <3>2, Zenon
  <2>5. <<x>> \in Seq(S) /\ Len(<<x>>) = 1 /\ <<x>>[1] = x
    BY ONLY <2>4
  <2>6. \A i \in 1..Len(t) : t[i] = <<x>>[i]
    <3> SUFFICES ASSUME NEW i \in 1..Len(t) PROVE t[i] = <<x>>[i]
      OBVIOUS
    <3>1. i = 1
      BY ONLY <2>4, i \in 1..Len(t)
    <3> QED  BY <2>3, <2>5, <3>1, Zenon
  <2>7. t = <<x>>
    BY ONLY <2>2, <2>4, <2>5, <2>6, SeqEqual
  <2> QED  BY <2>1, <2>3, <2>7, Zenon
<1>4. Head(p) = p[1]
  BY <1>1
<1> QED
  BY <1>3, <1>4, Zenon

LEMMA NoElements ==
    ASSUME NEW S, NEW p \in Seq(S), DOMAIN p = {}
    PROVE  p = <<>>
<1>1. Len(p) \in Nat /\ DOMAIN p = 1..Len(p)
  OBVIOUS
<1>2. Len(p) = 0
  BY <1>1
<1> QED
  BY <1>2

(* A platform of two well-formed parts is an os and an arch.               *)
LEMMA PlatformValid ==
    ASSUME NEW p, IsList(p), Len(p) = 2, p[1] \in WellFormedOSes, p[2] \in WellFormedArchs,
           NEW d, d = platformDoc(p)
    PROVE  d.os \in WellFormedOSes /\ \E a \in WellFormedArchs : d.arch = <<a>>
<1>1. Head(p) = p[1] /\ Tail(p) = <<p[2]>>
  BY TwoParts, Zenon DEF IsList
<1>2. d.os = Head(p) /\ d.arch = Tail(p)
  BY ONLY d = platformDoc(p) DEF platformDoc
<1> QED
  BY <1>1, <1>2, Zenon

LEMMA DecodedIsValid ==
    ASSUME NEW i, IsInfo(i), WellFormed(i), NEW m, Decoded(m, i)
    PROVE  Validate(m)
<1>1. /\ m.schema_version = 1 /\ m.name \in WellFormedNames
      /\ m.version \in WellFormedVersions /\ m.source_url \in WellFormedURLs
      /\ m.compatible_environments \subseteq {"*"} \cup WellFormedEnvironments
  BY Zenon DEF Decoded, WellFormed
<1>2. m.sdk_protocol_version = 2
  BY ProtocolIsTwo, Zenon DEF Decoded, WellFormed
<1>3. m.platforms = [n \in DOMAIN i.platforms |-> platformDoc(i.platforms[n])]
  BY Zenon DEF Decoded
<1>4. m.platforms # <<>>
  <2>1. PICK ps : ps = i.platforms
    BY Zenon
  <2>2. IsList(ps) /\ ps # <<>>
    BY <2>1, Zenon DEF IsInfo, IsPlatforms, WellFormed
  <2>3. DOMAIN ps # {}
    BY <2>2, NoElements, Zenon DEF IsList
  <2>4. DOMAIN m.platforms # {}
    BY <1>3, <2>1, <2>3, Zenon
  <2>5. DOMAIN <<>> = {}
    BY ONLY TRUE
  <2> QED  BY <2>4, <2>5, Zenon
<1>5. ASSUME NEW n \in DOMAIN m.platforms
      PROVE  /\ m.platforms[n].os \in WellFormedOSes
             /\ \E a \in WellFormedArchs : m.platforms[n].arch = <<a>>
  <2>1. n \in DOMAIN i.platforms /\ m.platforms[n] = platformDoc(i.platforms[n])
    BY <1>3, <1>5, Zenon
  <2>2. /\ IsList(i.platforms[n])
        /\ Len(i.platforms[n]) = 2
        /\ i.platforms[n][1] \in WellFormedOSes /\ i.platforms[n][2] \in WellFormedArchs
    BY <2>1, Zenon DEF IsInfo, IsPlatforms, WellFormed
  <2> QED  BY <2>1, <2>2, PlatformValid, Zenon
<1>6. ASSUME NEW s \in Schemas PROVE validateSchema(m[s])
  <2>1. "config" \in SchemaNames /\ "input" \in SchemaNames /\ "output" \in SchemaNames
    BY ONLY DEF SchemaNames
  <2>2. PICK t \in SchemaNames : m[s] = [fields |-> i.schemas[t]]
    BY <1>6, <2>1, Zenon DEF Schemas, Decoded
  <2>3. \A f \in DOMAIN i.schemas[t] : i.schemas[t][f].type \in SchemaTypesStrict
    BY <2>2, Zenon DEF WellFormed
  <2>4. m[s].fields = i.schemas[t]
    BY <2>2
  <2> QED  BY <2>3, <2>4, Zenon DEF validateSchema
<1>7. ASSUME NEW s \in m.secrets PROVE s.name # ""
  <2>1. PICK n \in DOMAIN i.secrets :
           s = [name |-> n, description |-> i.secrets[n], required |-> TRUE]
    <3>1. m.secrets = secretsFromMap(i.secrets)
      BY Zenon DEF Decoded
    <3> QED  BY <1>7, <3>1, Zenon DEF secretsFromMap
  <2>2. s.name = n
    BY ONLY <2>1
  <2> QED  BY <2>1, <2>2, Zenon DEF WellFormed
<1>8. ASSUME NEW image \in m.container_image PROVE image.ref # ""
  <2>1. i.image # "" /\ image = [ref |-> i.image, digest |-> ""]
    BY <1>8, Zenon DEF Decoded
  <2>2. image.ref = i.image
    BY ONLY <2>1
  <2> QED  BY <2>1, <2>2, Zenon
<1> QED
  BY <1>1, <1>2, <1>4, <1>5, <1>6, <1>7, <1>8, Zenon DEF Validate

(* The manifest a process renders from a well-formed Info passes the       *)
(* strict parser, whatever the spec or the Service it comes from.          *)
THEOREM WellFormedIsPublishable == Spec => []EmitsPublishable
<1>1. ASSUME AdapterInv, NEW r \in rendered, WellFormed(r.info)
      PROVE  Publishable(r.doc)
  <2>1. Answerable(r.info) /\ r.doc = buildManifestDoc(r.info)
    BY <1>1, Zenon DEF AdapterInv, DocInv
  <2>2. IsInfo(r.info)
    BY <1>1, <2>1, AnswerableIsInfo, Zenon DEF AdapterInv
  <2>3. PICK m \in Parse(r.doc) : Decoded(m, r.info)
    BY <2>1, <2>2, ManifestRoundTrip, Zenon
  <2>4. Validate(m)
    BY <1>1, <2>2, <2>3, DecodedIsValid, Zenon
  <2> QED  BY <2>3, <2>4, Zenon DEF Publishable
<1>2. AdapterInv => EmitsPublishable
  BY <1>1, Zenon DEF EmitsPublishable
<1> QED
  BY <1>2, AdapterInvariant, PTL

LEMMA SecretNames ==
    ASSUME NEW f
    PROVE  {s.name : s \in secretsFromMap(f)} = DOMAIN f
<1>1. ASSUME NEW n PROVE [name |-> n, description |-> f[n], required |-> TRUE].name = n
  OBVIOUS
<1> QED
  BY <1>1, Zenon DEF secretsFromMap

LEMMA ImageRefs ==
    ASSUME NEW o, NEW images, images = IF o = "" THEN {} ELSE {[ref |-> o, digest |-> ""]}
    PROVE  {image.ref : image \in images} = {o} \ {""}
<1>1. [ref |-> o, digest |-> ""].ref = o
  BY ONLY TRUE
<1> QED
  BY <1>1, Zenon

(* What a binary was published with describes what any later run of it     *)
(* serves, whichever example files either run could read.                  *)
THEOREM PublishedDescribesServed == Spec => []PublishedMatchesInfo
<1>1. ASSUME AdapterInv, binary.impl = "spec", NEW doc \in published, NEW i \in info
      PROVE  \E m \in Parse(doc) :
                /\ m.name = i.name /\ m.version = i.version
                /\ m.config_schema.fields = i.schemas.config
                /\ m.input_schema.fields = i.schemas.input
                /\ m.output_schema.fields = i.schemas.output
                /\ {s.name : s \in m.secrets} = DOMAIN i.secrets
                /\ {image.ref : image \in m.container_image} = {i.image} \ {""}
                /\ m.permissions = i.permissions /\ Len(m.platforms) = Len(i.platforms)
  <2>1. PICK j : Answerable(j) /\ doc = buildManifestDoc(j)
    BY <1>1, Zenon DEF AdapterInv, DocInv
  <2>2. Answerable(i)
    BY <1>1, Zenon DEF AdapterInv, DocInv
  <2>3. PICK fs : i \in deriveInfo(spec, fs)
    BY <1>1, <2>2, Zenon DEF Answerable
  <2>4. PICK gs : j \in deriveInfo(spec, gs)
    BY <1>1, <2>1, Zenon DEF Answerable
  <2>5. /\ j.name = i.name /\ j.version = i.version /\ j.image = i.image
        /\ j.platforms = i.platforms /\ j.permissions = i.permissions
        /\ j.secrets = i.secrets /\ j.schemas = i.schemas
    <3> DEFINE Same(x) ==
                  /\ x.name = spec.name /\ x.version = spec.version /\ x.image = spec.image
                  /\ x.platforms = spec.platforms /\ x.permissions = spec.permissions
                  /\ x.secrets = secretMap(spec.secrets)
                  /\ x.schemas
                       = [s \in SchemaNames |-> adapterSchemaProto(spec.schemas[s])]
    <3>1. Same(i)
      BY <2>3, DerivedInfo, Zenon
    <3>2. Same(j)
      BY <2>4, DerivedInfo, Zenon
    <3> QED  BY <3>1, <3>2, Zenon
  <2>6. PICK m \in Parse(doc) : Decoded(m, j)
    BY <1>1, <2>1, AnswerableIsInfo, ManifestRoundTrip, Zenon DEF AdapterInv
  <2>7. /\ m.name = i.name /\ m.version = i.version /\ m.permissions = i.permissions
        /\ m.config_schema = [fields |-> i.schemas.config]
        /\ m.input_schema = [fields |-> i.schemas.input]
        /\ m.output_schema = [fields |-> i.schemas.output]
        /\ m.secrets = secretsFromMap(i.secrets)
        /\ m.platforms = [n \in DOMAIN i.platforms |-> platformDoc(i.platforms[n])]
        /\ m.container_image
             = IF i.image = "" THEN {} ELSE {[ref |-> i.image, digest |-> ""]}
    BY <2>5, <2>6, Zenon DEF Decoded
  <2>8. /\ m.config_schema.fields = i.schemas.config
        /\ m.input_schema.fields = i.schemas.input
        /\ m.output_schema.fields = i.schemas.output
    <3>1. ASSUME NEW x PROVE [fields |-> x].fields = x
      OBVIOUS
    <3> QED  BY <2>7, <3>1, Zenon
  <2>9. {s.name : s \in m.secrets} = DOMAIN i.secrets
    BY <2>7, SecretNames, Zenon
  <2>10. {image.ref : image \in m.container_image} = {i.image} \ {""}
    BY <2>7, ImageRefs, Zenon
  <2>11. Len(m.platforms) = Len(i.platforms)
    <3>1. PICK ps, qs : ps = i.platforms /\ qs = m.platforms
      BY Zenon
    <3>2. IsList(ps)
      BY <1>1, <2>2, <3>1, AnswerableIsInfo, Zenon DEF AdapterInv, IsInfo, IsPlatforms
    <3>3. DOMAIN qs = DOMAIN ps
      BY <2>7, <3>1, Zenon
    <3>4. Len(qs) = Len(ps)
      BY ONLY <3>2, <3>3, ListDomain
    <3> QED  BY <3>1, <3>4, Zenon
  <2> QED
    BY <2>6, <2>7, <2>8, <2>9, <2>10, <2>11, Zenon
<1>2. AdapterInv => PublishedMatchesInfo
  BY <1>1, Zenon DEF PublishedMatchesInfo
<1> QED
  BY <1>2, AdapterInvariant, PTL
=============================================================================
