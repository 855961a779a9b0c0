----------------------------- MODULE AppManifests -----------------------------
(***************************************************************************)
(* The cdk8s program (cdk8s/main.go, app.go, db.go): it reads app.yaml,    *)
(* lays app-$ENVIRONMENT.yaml over it, builds the application's Kubernetes *)
(* objects one after the other from one shared metadata value, and the     *)
(* cluster then acts on what it was given: a database server appears, its  *)
(* credentials appear in a secret, the pod starts, SchemaHero creates the  *)
(* table the video service queries.                                        *)
(*                                                                         *)
(* The Helm chart and the ytt templates render the same application from   *)
(* values of the same shape, with conditions of their own.                 *)
(*                                                                         *)
(* The generator is modelled step by step, a template as one step.  The    *)
(* cluster (Helm, Crossplane, External Secrets, SchemaHero, the kubelet)   *)
(* is external: it is modelled as what the objects name and expect of it.  *)
(* A Kubernetes name is a pair: what it is derived from, and the suffix    *)
(* the code appends.                                                       *)
(***************************************************************************)
EXTENDS Naturals, FiniteSets

CONSTANTS Tools,         \* what may render: cdk8s, helm or ytt
          Id,            \* the chart's id, "cncf-demo" (main.go:24)
          DbId,          \* db.id
          BaseFiles,     \* what app.yaml may hold
          OverlayFiles   \* what app-$ENVIRONMENT.yaml may hold

DbFlags == {"helm", "local", "google", "aws", "azure"}
Flags   == DbFlags \cup {"tls", "insecure", "schemahero"}

\* What reading a file gives: nothing, no YAML, or keys that are set.  A name
\* of "" is a key the file does not have.
Names == {"", Id, DbId, "renamed"}
File == [read : {"missing", "malformed", "ok"}, name : Names,
         on : SUBSET Flags, off : SUBSET Flags]

ASSUME ToolsAssumption == Tools \subseteq {"cdk8s", "helm", "ytt"}

\* Every file of values in the repository sets db.id.
ASSUME DbIdAssumption == DbId # ""

ASSUME FilesAssumption == BaseFiles \subseteq File /\ OverlayFiles \subseteq File

VARIABLES tool,          \* what renders: cdk8s, helm or ytt
          base, overlay, \* the two files of values
          stage,         \* the next thing the generator does
          values,        \* AppProps: the name and the flags that are true
          metadata,      \* labels of the ObjectMeta app.go:136 shares
          objects,       \* the objects built so far, by construct id
          applied,       \* the ones the cluster has been given
          secrets,       \* the keys of every secret in the cluster
          servers,       \* <<host, database>> pairs that accept connections
          running,       \* the application's pod has started
          tables         \* <<host, database>> pairs that have the table

genVars     == <<stage, values, metadata, objects>>
clusterVars == <<applied, secrets, servers, running, tables>>
inputVars   == <<tool, base, overlay>>
vars        == <<inputVars, genVars, clusterVars>>

Label(n) == <<"app.kubernetes.io/name", n>>
AppName  == Label(Id)
CertMark == <<"cert-manager.io/enabled", "true">>
IssuerMark == <<"cert-manager.io/cluster-issuer", "production">>

Value(x)  == [from |-> "value", name |-> x, key |-> ""]
Ref(s, k) == [from |-> "secret", name |-> s, key |-> k]
Plain(x)  == Value(<<x, "">>)

Anchor == "postgres-password"

\* What is called n, and what g adds to f; f keeps what it has.
Named(n, x) == [k \in {n} |-> x]
Nothing     == [k \in {} |-> {}]
With(f, g)  == [k \in DOMAIN f \cup DOMAIN g |-> IF k \in DOMAIN f THEN f[k] ELSE g[k]]

-----------------------------------------------------------------------------
(* main.go: the values.  A file that cannot be read is logged and leaves   *)
(* them as they were; one that is not YAML ends the program.               *)

setValues(file, v) ==
    IF file.read = "ok"
      THEN [name  |-> IF file.name = "" THEN v.name ELSE file.name,
            flags |-> (v.flags \ file.off) \cup file.on]
      ELSE v

\* The order NewCncfDemoChart and NewApp do things in; IngressBeforeService
\* is the same with the ingress built before the service.
IngressBeforeService == [base       |-> "overlay",
                         overlay    |-> "deployment",
                         deployment |-> "ingress",
                         ingress    |-> "service",
                         service    |-> "certificate",
                         certificate |-> "server",
                         server     |-> "schemahero",
                         schemahero |-> "applying"]

StepAfter == [base       |-> "overlay",
              overlay    |-> "deployment",
              deployment |-> "service",
              service    |-> "ingress",
              ingress    |-> "certificate",
              certificate |-> "server",
              server     |-> "schemahero",
              schemahero |-> "applying"]

At(s) == stage = s /\ stage' = StepAfter[s]

Read(s, file) ==
    /\ tool = "cdk8s" /\ stage = s
    /\ IF file.read = "malformed"
         THEN stage' = "failed" /\ UNCHANGED values
         ELSE stage' = StepAfter[s] /\ values' = setValues(file, values)
    /\ UNCHANGED <<inputVars, metadata, objects, clusterVars>>

ReadBase    == Read("base", base)
ReadOverlay == Read("overlay", overlay)

-----------------------------------------------------------------------------
(* db.go: what is said about the database, once for the container and once *)
(* for SchemaHero, each with its own order of asking the flags.            *)

NoEnv == [endpoint |-> Plain(""), user |-> Plain(""), pass |-> Plain(""),
          name |-> Plain(""), port |-> Plain("")]

OwnServer(host, name) ==
    [endpoint |-> Value(host), port |-> Plain("5432"), user |-> Plain("postgres"),
     pass |-> Ref(host, Anchor), name |-> Plain(name)]

CloudServer(name) ==
    LET s == <<DbId, "">>
    IN [endpoint |-> Ref(s, "endpoint"), port |-> Ref(s, "port"),
        user |-> Ref(s, "username"), pass |-> Ref(s, "password"),
        name |-> Plain(name)]

setDbEnvKeepingName(v) ==
    IF v.flags \cap DbFlags = {} THEN NoEnv
    ELSE IF "local" \in v.flags THEN OwnServer(<<DbId, "-postgresql">>, v.name)
    ELSE IF "helm" \in v.flags THEN OwnServer(<<v.name, "-postgresql">>, v.name)
    ELSE CloudServer(v.name)

setDbEnv(v) ==
    IF v.flags \cap DbFlags = {} THEN NoEnv
    ELSE IF "local" \in v.flags THEN OwnServer(<<DbId, "-postgresql">>, v.name)
    ELSE IF "helm" \in v.flags THEN OwnServer(<<v.name, "-postgresql">>, v.name)
    ELSE CloudServer(DbId)

getPostgresqlDatabase(v) ==
    LET cloud == [CloudServer(DbId) EXCEPT !.port = Plain("5432")]
        own   == <<DbId, "-password">>
    IN IF "helm" \in v.flags THEN OwnServer(<<v.name, "-postgresql">>, v.name)
       ELSE IF "local" \in v.flags THEN OwnServer(<<DbId, "-postgresql">>, v.name)
       ELSE IF "aws" \in v.flags
         THEN [cloud EXCEPT !.endpoint = Ref(own, "endpoint"),
                            !.user = Plain("masteruser"),
                            !.pass = Ref(own, "password")]
       ELSE cloud

TableByDbId(v) == [database |-> DbId]

\* The Table names its Database by appProps.Name; the Database is called id.
getPostgresqlTable(v) == [database |-> v.name]

\* The chart's init script creates "cncf-demo", whatever the release's name.
getPostgresqlHelm(v) == [release |-> <<v.name, "-postgresql">>, database |-> Id]

\* The claim lists no databases: that is left to the composition.
getPostgresqlCrossplane(v) ==
    [id |-> DbId, databases |-> Names,
     provider |-> CASE "google" \in v.flags -> "google"
                    [] "google" \notin v.flags /\ "aws" \in v.flags -> "aws"
                    [] v.flags \cap {"google", "aws"} = {} /\ "azure" \in v.flags -> "azure"
                    [] OTHER -> "local-k8s"]

getPostgresqlSecret == [name |-> <<DbId, "-password">>, keys |-> {"password"}]

getPostgresqlExternalSecret(v) ==
    [name  |-> <<DbId, "-password">>,
     store |-> CASE "google" \in v.flags -> "google"
                 [] "google" \notin v.flags /\ "azure" \in v.flags -> "azure"
                 [] v.flags \cap {"google", "azure"} = {} /\ "aws" \in v.flags -> "aws"
                 [] OTHER -> "none"]

-----------------------------------------------------------------------------
(* app.go: the objects.  jsii copies an object's properties when the       *)
(* object is made, so a later change of the metadata does not reach it.    *)

getDeploymentProps(v, m) == [selector |-> m, labels |-> m, env |-> setDbEnv(v)]
getServiceProps(m)       == [selector |-> m]

\* Under TLS the ingress replaces the labels of the metadata it was handed.
getIngressProps(v, m) ==
    [labels |-> IF "tls" \in v.flags THEN {AppName, CertMark} ELSE m,
     secrets |-> IF "tls" \in v.flags THEN {<<Id, "">>} ELSE {}]

getCertificate == [secret |-> <<Id, "">>]

Build(new) == objects' = With(objects, new)

Deployment ==
    /\ At("deployment")
    /\ Build(Named("deployment", getDeploymentProps(values, metadata)))
    /\ UNCHANGED <<inputVars, values, metadata, clusterVars>>

Service ==
    /\ At("service")
    /\ Build(Named("service", getServiceProps(metadata)))
    /\ UNCHANGED <<inputVars, values, metadata, clusterVars>>

Ingress ==
    /\ At("ingress")
    /\ Build(Named("ingress", getIngressProps(values, metadata)))
    /\ metadata' = getIngressProps(values, metadata).labels
    /\ UNCHANGED <<inputVars, values, clusterVars>>

Certificate ==
    /\ At("certificate")
    /\ Build(IF "tls" \in values.flags
               THEN Named("certificate", getCertificate) ELSE Nothing)
    /\ UNCHANGED <<inputVars, values, metadata, clusterVars>>

Claim(v) == Named("sqlClaim", getPostgresqlCrossplane(v))

Password(v) ==
    IF "insecure" \in v.flags
      THEN Named("secret", getPostgresqlSecret)
      ELSE Named("external-secret", getPostgresqlExternalSecret(v))

ServerObjectsAlwaysSecret(v) ==
    IF "helm" \in v.flags THEN Named("postgresql", getPostgresqlHelm(v))
    ELSE IF v.flags \cap DbFlags = {} THEN Nothing
    ELSE With(Claim(v), Password(v))

ServerObjects(v) ==
    IF "helm" \in v.flags THEN Named("postgresql", getPostgresqlHelm(v))
    ELSE IF v.flags \cap DbFlags = {} THEN Nothing
    ELSE IF "local" \in v.flags THEN Claim(v)
    ELSE With(Claim(v), Password(v))

Server ==
    /\ At("server")
    /\ Build(ServerObjects(values))
    /\ UNCHANGED <<inputVars, values, metadata, clusterVars>>

SchemaHero ==
    /\ At("schemahero")
    /\ Build(IF "schemahero" \in values.flags
               THEN With(Named("database", [id |-> Id, conn |-> getPostgresqlDatabase(values)]),
                         Named("table", getPostgresqlTable(values)))
               ELSE Nothing)
    /\ UNCHANGED <<inputVars, values, metadata, clusterVars>>

-----------------------------------------------------------------------------
(* helm/app/templates and ytt/resources: the same objects from the same    *)
(* values, without the order and the sharing of the program.               *)

\* The server of the flag helm: part of the chart, and installed beforehand
\* for ytt.  The chart names it after the application, as it supposes.
helmServer(v)   == <<IF tool = "helm" THEN v.name ELSE "postgresql",
                     IF tool = "helm" THEN "-postgresql" ELSE "">>
ownDatabase(v)  == IF tool = "helm" THEN DbId ELSE v.name
localServer     == <<DbId, "-postgresql">>

\* deployment.yaml
templateEnv(v) ==
    IF v.flags \cap DbFlags = {} THEN NoEnv
    ELSE IF "local" \in v.flags THEN OwnServer(localServer, ownDatabase(v))
    ELSE IF "helm" \in v.flags THEN OwnServer(helmServer(v), ownDatabase(v))
    ELSE CloudServer(DbId)

\* schemahero.yaml.  The chart takes a local server for one of its own.
cloudConnection(v) ==
    [CloudServer(DbId) EXCEPT
       !.port = Plain("5432"),
       !.user = IF "aws" \in v.flags THEN Plain("masteruser") ELSE @]

chartConnection(v) ==
    IF v.flags \cap DbFlags = {}
      THEN [NoEnv EXCEPT !.port = Plain("5432"), !.name = Plain(DbId)]
    ELSE IF v.flags \cap {"helm", "local"} # {}
      THEN OwnServer(helmServer(v), ownDatabase(v))
    ELSE cloudConnection(v)

yttConnection(v) ==
    IF "helm" \in v.flags THEN OwnServer(helmServer(v), ownDatabase(v))
    ELSE IF "local" \in v.flags THEN OwnServer(localServer, ownDatabase(v))
    ELSE cloudConnection(v)

\* The Database is called by the name; the Table looks for it by db.id.
templateSchemaHero(v) ==
    With(Named("database", [id   |-> v.name,
                            conn |-> IF tool = "helm" THEN chartConnection(v)
                                     ELSE yttConnection(v)]),
         Named("table", [database |-> DbId]))

\* The sub-chart is named by the release, cncf-demo in all documents; the init
\* scripts of the two servers create databases of different names.
templateServer(v) ==
    IF "helm" \in v.flags
      THEN Named("postgresql",
             IF tool = "helm"
               THEN [release |-> <<Id, "-postgresql">>, database |-> "cncf-demo-db-dev"]
               ELSE [release |-> <<"postgresql", "">>, database |-> "cncf-demo"])
    ELSE IF v.flags \cap DbFlags = {} THEN Nothing
    ELSE LET claim == [getPostgresqlCrossplane(v) EXCEPT !.databases = {DbId}]
         IN With(Named("sqlClaim", claim),
                 IF "local" \in v.flags THEN Nothing ELSE Password(v))

templateDeployment(v) == [selector |-> {Label(v.name)}, labels |-> {Label(v.name)},
                          env |-> templateEnv(v)]
templateService(v)    == [selector |-> {Label(v.name)}]
templateIngress(v)    == [labels |-> {Label(v.name)}
                                       \cup {IssuerMark : t \in v.flags \cap {"tls"}},
                          secrets |-> {<<v.name, "">> : t \in v.flags \cap {"tls"}}]
templateCertificate(v) ==
    IF "tls" \in v.flags THEN Named("certificate", [secret |-> <<v.name, "">>]) ELSE Nothing

templateApp(v) ==
    With(Named("deployment", templateDeployment(v)),
         With(Named("service", templateService(v)), Named("ingress", templateIngress(v))))

template(v) ==
    With(With(templateApp(v), templateCertificate(v)),
         With(templateServer(v),
              IF "schemahero" \in v.flags THEN templateSchemaHero(v) ELSE Nothing))

\* A second file of values is optional; one that cannot be read is an error.
Render ==
    /\ tool # "cdk8s" /\ stage = "base"
    /\ IF base.read = "ok" /\ overlay.read # "malformed"
         THEN /\ values' = setValues(overlay, setValues(base, [name |-> Id, flags |-> {}]))
              /\ objects' = template(values')
              /\ stage' = "applying"
         ELSE stage' = "failed" /\ UNCHANGED <<values, objects>>
    /\ UNCHANGED <<inputVars, metadata, clusterVars>>

-----------------------------------------------------------------------------
(* The cluster.  Objects arrive in any order once the program has written  *)
(* them; it writes nothing before it has built them all.                   *)

AddSecret(name, keys) == secrets' = With(Named(name, keys), secrets)

Resolves(x) == \/ x.from = "value"
               \/ x.name \in DOMAIN secrets /\ x.key \in secrets[x.name]

ResolvesAll(conn) == \A f \in DOMAIN conn : Resolves(conn[f])

Apply(o) ==
    /\ stage = "applying"
    /\ o \in DOMAIN objects \ applied
    /\ applied' = applied \cup {o}
    /\ IF o = "secret"
         THEN AddSecret(objects[o].name, objects[o].keys)
         ELSE UNCHANGED secrets
    /\ UNCHANGED <<inputVars, genVars, servers, running, tables>>

\* External Secrets copies the password out of the cloud's store.
SecretSynced ==
    /\ "external-secret" \in applied
    /\ objects["external-secret"].name \notin DOMAIN secrets
    /\ AddSecret(objects["external-secret"].name, {"password"})
    /\ UNCHANGED <<inputVars, genVars, applied, servers, running, tables>>

\* The chart makes its secret at once; the server and the database that its
\* init script creates come later.
HelmInstalled ==
    /\ "postgresql" \in applied
    /\ objects["postgresql"].release \notin DOMAIN secrets
    /\ AddSecret(objects["postgresql"].release, {Anchor})
    /\ UNCHANGED <<inputVars, genVars, applied, servers, running, tables>>

HelmReady ==
    /\ "postgresql" \in applied
    /\ LET h == objects["postgresql"]
           s == <<Value(h.release), h.database>>
       IN /\ h.release \in DOMAIN secrets
          /\ s \notin servers
          /\ servers' = servers \cup {s}
    /\ UNCHANGED <<inputVars, genVars, applied, secrets, running, tables>>

\* A local claim makes a server in the cluster, a cloud claim one whose
\* password must already be there; either publishes how to reach it.
ClaimReady ==
    /\ "sqlClaim" \in applied
    /\ LET c     == objects["sqlClaim"]
           own   == <<c.id, "-postgresql">>
           cloud == <<c.id, "">>
       IN IF c.provider = "local-k8s"
            THEN /\ own \notin DOMAIN secrets
                 /\ AddSecret(own, {Anchor})
                 /\ servers' = servers \cup {<<Value(own), d>> : d \in c.databases}
            ELSE /\ cloud \notin DOMAIN secrets
                 /\ Resolves(Ref(<<c.id, "-password">>, "password"))
                 /\ AddSecret(cloud, {"endpoint", "port", "username", "password"})
                 /\ servers' = servers \cup {<<Ref(cloud, "endpoint"), d>> : d \in c.databases}
    /\ UNCHANGED <<inputVars, genVars, applied, running, tables>>

CertificateIssued ==
    /\ "certificate" \in applied
    /\ objects["certificate"].secret \notin DOMAIN secrets
    /\ AddSecret(objects["certificate"].secret, {"tls.crt", "tls.key"})
    /\ UNCHANGED <<inputVars, genVars, applied, servers, running, tables>>

\* The kubelet starts a container once every secret key its environment
\* refers to is there.
PodStarts ==
    /\ "deployment" \in applied
    /\ ~running
    /\ ResolvesAll(objects["deployment"].env)
    /\ running' = TRUE
    /\ UNCHANGED <<inputVars, genVars, applied, secrets, servers, tables>>

\* SchemaHero finds the Table's Database by name, connects and creates it.
TableCreated ==
    /\ {"database", "table"} \subseteq applied
    /\ objects["table"].database = objects["database"].id
    /\ LET d == objects["database"].conn
           t == <<d.endpoint, d.name.name[1]>>
       IN /\ ResolvesAll(d)
          /\ t \in servers \ tables
          /\ tables' = tables \cup {t}
    /\ UNCHANGED <<inputVars, genVars, applied, secrets, servers, running>>

-----------------------------------------------------------------------------
\* With more than one flag the templates write a key of the claim, or of the
\* environment, twice: they are given at most one.
Init ==
    /\ tool \in Tools /\ base \in BaseFiles /\ overlay \in OverlayFiles
    /\ tool # "cdk8s" => Cardinality((base.on \cup overlay.on) \cap DbFlags) <= 1
    /\ stage = "base"
    /\ values = [name |-> "", flags |-> {}]
    /\ metadata = {AppName}
    /\ objects = Nothing
    /\ applied = {}
    /\ secrets = Nothing
    /\ servers = {}
    /\ running = FALSE
    /\ tables = {}

Generate == \/ ReadBase \/ ReadOverlay
            \/ Deployment \/ Service \/ Ingress \/ Certificate
            \/ Server \/ SchemaHero
            \/ Render

Cluster == \/ SecretSynced \/ HelmInstalled \/ HelmReady \/ ClaimReady
           \/ CertificateIssued \/ PodStarts \/ TableCreated

Next == \/ Generate
        \/ Cluster
        \/ \E o \in DOMAIN objects : Apply(o)

Spec == Init /\ [][Next]_vars

\* The generator is one sequential program; whoever applies its output, and
\* the controllers, keep retrying what they can do.
Fairness == /\ WF_vars(Generate)
            /\ WF_vars(Cluster)
            /\ WF_vars(\E o \in DOMAIN objects : Apply(o))

FairSpec == Spec /\ Fairness

-----------------------------------------------------------------------------
(* What comes of the values.  The server is asked for in ServerObjects, and *)
(* where it is is said twice, by functions that ask the flags in different *)
(* orders: one for the container, one for SchemaHero.                      *)

Asked(v) == v.flags \cap DbFlags

\* One place is meant by both.  For aws without a server of its own SchemaHero
\* gets other keys or another user (db.go:148, schemahero.yaml:29); a local
\* server is called by db.id, and after the application in the other function
\* when helm is set too (db.go:137) or when the chart renders
\* (schemahero.yaml:16).
Agreeing(v) ==
    /\ Asked(v) # {}
    /\ "aws" \in Asked(v) => Asked(v) \cap {"helm", "local"} # {}
    /\ "local" \in Asked(v) /\ (tool = "helm" \/ "helm" \in Asked(v)) =>
         tool # "ytt" /\ v.name = DbId

\* The secrets the container needs are made.  In the program local makes the
\* container look for a server nobody makes when another flag is set beside
\* it; the chart's own server is named by the release.
ServerFound(v) ==
    IF tool = "cdk8s"
      THEN "local" \in Asked(v) =>
             Asked(v) = {"local"} \/ ("helm" \in Asked(v) /\ v.name = DbId)
      ELSE tool = "helm" /\ "helm" \in Asked(v) => v.name = Id

\* The Table finds its Database, and the Database its server: the program
\* calls it by the chart's id and the templates by the name, where the Table
\* asks for the name and for db.id.
TableMade(v) ==
    /\ "schemahero" \in v.flags /\ Asked(v) # {}
    /\ IF tool = "cdk8s"
         THEN /\ v.name = Id
              /\ "local" \in Asked(v) => Asked(v) = {"local"}
              /\ "aws" \in Asked(v) => "helm" \in Asked(v)
         ELSE v.name = DbId /\ "helm" \notin Asked(v)

\* With db.id for a name, a template gives the TLS secret and the secret of the
\* cloud's claim one name: whichever is made first keeps the other out.
Contended(v) ==
    /\ tool # "cdk8s" /\ "tls" \in v.flags /\ v.name = DbId
    /\ Asked(v) # {} /\ Asked(v) \cap {"helm", "local"} = {}

\* The values, labels and objects are of the kinds the code builds: a failed
\* program has built nothing, and an ExternalSecret always names a store.
TypeOK ==
    /\ tool \in Tools /\ base \in File /\ overlay \in File
    /\ stage \in DOMAIN StepAfter \cup {"applying", "failed"}
    /\ values \in [name : Names, flags : SUBSET Flags]
    /\ metadata \in {{AppName}, {AppName, CertMark}}
    /\ applied \subseteq DOMAIN objects
    /\ stage = "failed" => objects = Nothing
    /\ "external-secret" \in DOMAIN objects =>
         objects["external-secret"].store \in {"google", "azure", "aws"}

\* Every selector picks the pods: getIngressProps rewrites the labels of the
\* metadata that the Deployment and the Service are built from, and neither's
\* selector may ask for a label the pod template was made without.
ServiceSelectsPods ==
    "deployment" \in DOMAIN objects =>
      LET pods == objects["deployment"].labels
      IN /\ objects["deployment"].selector \subseteq pods
         /\ "service" \in DOMAIN objects => objects["service"].selector \subseteq pods

\* The container and SchemaHero are sent to the same database of the same
\* server with the same credentials by exactly the values Agreeing describes:
\* any further combination on which setDbEnv and getPostgresqlDatabase, or
\* deployment.yaml and schemahero.yaml, part is one more mistake in them.
SameDatabase ==
    {"deployment", "database"} \subseteq DOMAIN objects =>
      LET app == objects["deployment"].env
          sh  == objects["database"].conn
      IN (\A f \in {"endpoint", "user", "pass", "name"} : app[f] = sh[f])
           <=> Agreeing(values)

\* SchemaHero makes no table but in the very database the pod's environment
\* names, also where the two connections differ: what it is told then names no
\* server.  Only helm and local together, in which each names one, are out.
TableWherePodLooks ==
    "deployment" \in DOMAIN objects /\ ~({"helm", "local"} \subseteq values.flags) =>
      LET app == objects["deployment"].env
      IN \A t \in tables : t = <<app.endpoint, app.name.name[1]>>

\* What the cluster has made of the values it was given.
ServedAs(v) ==
    /\ stage = "applying"
    /\ LET app == objects["deployment"].env
       IN /\ running <=> ServerFound(v)
          /\ objects["ingress"].secrets \subseteq DOMAIN secrets
          /\ <<app.endpoint, app.name.name[1]>> \in tables <=> TableMade(v)

\* Applied in any order, every set of values ends the same way: the pod starts,
\* and the table is in the database its environment names, for the values
\* described above and for no others; and the ingress finds its TLS secret.
AppServes == (stage = "applying" /\ ~Contended(values)) ~> []ServedAs(values)

-----------------------------------------------------------------------------
(* What the documents promise, and the three tools do not keep.            *)

\* Where SchemaHero is enabled, /videos is answered in the end: the pod runs
\* and finds its table (manuscript/db-production/cdk8s.md:55,
\* manuscript/db-schema/schemahero-helm.md:18, schemahero-carvel.md:22).
VideosAnswered ==
    (stage = "applying" /\ "schemahero" \in values.flags) ~>
      LET app == objects["deployment"].env
      IN running /\ <<app.endpoint, app.name.name[1]>> \in tables
=============================================================================
