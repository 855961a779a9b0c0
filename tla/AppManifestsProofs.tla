-------------------------- MODULE AppManifestsProofs --------------------------
(***************************************************************************)
(* Proofs about AppManifests for every pair of values files, rendered by   *)
(* the cdk8s program, the Helm chart or ytt, and applied in any order.     *)
(***************************************************************************)
EXTENDS AppManifests, TLAPS

USE FilesAssumption

\* Only the program goes through the stages, it has built nothing before the
\* Deployment, and until the ingress is built its metadata is as app.go:136
\* makes it.
StageInv ==
  /\ stage \notin {"base", "applying", "failed"} => tool = "cdk8s"
  /\ stage \in {"base", "overlay", "deployment", "failed"} => objects = Nothing
  /\ stage \in {"base", "overlay", "deployment", "service", "ingress"} =>
       metadata = {AppName}

\* What SchemaHero connects to.
Connection(v) == IF tool = "cdk8s" THEN getPostgresqlDatabase(v)
                 ELSE IF tool = "helm" THEN chartConnection(v)
                 ELSE yttConnection(v)

\* The objects of f are what the tool makes of the values.
Right(f) ==
  /\ "deployment" \in DOMAIN f =>
       f["deployment"] = IF tool = "cdk8s" THEN getDeploymentProps(values, {AppName})
                         ELSE templateDeployment(values)
  /\ "service" \in DOMAIN f =>
       f["service"] = IF tool = "cdk8s" THEN getServiceProps({AppName})
                      ELSE templateService(values)
  /\ "database" \in DOMAIN f => f["database"].conn = Connection(values)
  /\ "external-secret" \in DOMAIN f =>
       f["external-secret"].store \in {"google", "azure", "aws"}

BuiltInv == Right(objects)

\* Every table is one that the applied Database asked for.
TablesInv ==
  \A t \in tables :
    /\ "database" \in DOMAIN objects
    /\ t = <<objects["database"].conn.endpoint, objects["database"].conn.name.name[1]>>

AppInv == TypeOK /\ StageInv /\ BuiltInv /\ TablesInv
-----------------------------------------------------------------------------
Props == [name : Names, flags : SUBSET Flags]

LEMMA NamedIs ==
  ASSUME NEW n, NEW x
  PROVE  DOMAIN Named(n, x) = {n} /\ Named(n, x)[n] = x
BY DEF Named

LEMMA NothingIs == DOMAIN Nothing = {}
BY DEF Nothing

LEMMA WithIs ==
  ASSUME NEW f, NEW g
  PROVE  /\ DOMAIN With(f, g) = DOMAIN f \cup DOMAIN g
         /\ \A k \in DOMAIN f : With(f, g)[k] = f[k]
         /\ \A k \in DOMAIN g \ DOMAIN f : With(f, g)[k] = g[k]
BY DEF With

\* Reading a file gives a name the two files may hold, and known flags.
LEMMA SetValuesType ==
  ASSUME NEW file \in File, NEW v \in Props
  PROVE  setValues(file, v) \in Props
<1>1. /\ file.name \in Names /\ file.on \in SUBSET Flags
      /\ v.name \in Names /\ v.flags \in SUBSET Flags
  BY DEF File, Props
<1>2. CASE file.read = "ok"
  <2> DEFINE n == IF file.name = "" THEN v.name ELSE file.name
             f == (v.flags \ file.off) \cup file.on
  <2>1. n \in Names /\ f \in SUBSET Flags
    BY <1>1
  <2>2. setValues(file, v) = [name |-> n, flags |-> f]
    BY <1>2 DEF setValues
  <2> HIDE DEF n, f
  <2>3. QED
    BY <2>1, <2>2 DEF Props
<1>3. CASE file.read # "ok"
  BY <1>3 DEF setValues
<1>4. QED
  BY <1>2, <1>3

\* An ExternalSecret is made only of values that name a cloud.
LEMMA PasswordStore ==
  ASSUME NEW v \in Props, v.flags \cap DbFlags # {},
         "helm" \notin v.flags, "local" \notin v.flags
  PROVE  /\ DOMAIN Password(v) \subseteq {"secret", "external-secret"}
         /\ "external-secret" \in DOMAIN Password(v) =>
              Password(v)["external-secret"].store \in {"google", "azure", "aws"}
<1>1. "google" \in v.flags \/ "azure" \in v.flags \/ "aws" \in v.flags
  BY DEF DbFlags
<1>2. getPostgresqlExternalSecret(v).store \in {"google", "azure", "aws"}
  <2>1. CASE "google" \in v.flags
    BY <2>1 DEF getPostgresqlExternalSecret
  <2>2. CASE "google" \notin v.flags /\ "azure" \in v.flags
    BY <2>2 DEF getPostgresqlExternalSecret
  <2>3. CASE v.flags \cap {"google", "azure"} = {} /\ "aws" \in v.flags
    BY <2>3 DEF getPostgresqlExternalSecret
  <2>4. QED
    BY <1>1, <2>1, <2>2, <2>3
<1>3. CASE "insecure" \in v.flags
  <2>1. DOMAIN Password(v) = {"secret"}
    BY <1>3, NamedIs, Zenon DEF Password
  <2>2. QED
    BY <2>1
<1>4. CASE "insecure" \notin v.flags
  <2> DEFINE e == getPostgresqlExternalSecret(v)
             p == Named("external-secret", e)
  <2>1. Password(v) = p
    BY <1>4 DEF Password
  <2>2. DOMAIN p = {"external-secret"} /\ p["external-secret"] = e
    BY NamedIs, Zenon
  <2> HIDE DEF e, p
  <2>3. p["external-secret"].store \in {"google", "azure", "aws"}
    BY <1>2, <2>2 DEF e
  <2>4. QED
    BY <2>1, <2>2, <2>3
<1>5. QED
  BY <1>3, <1>4

ServerNames == {"postgresql", "sqlClaim", "secret", "external-secret"}

\* What is made for the server is not the application's or SchemaHero's.
MakesServer(f) ==
  /\ DOMAIN f \subseteq ServerNames
  /\ "external-secret" \in DOMAIN f =>
       f["external-secret"].store \in {"google", "azure", "aws"}

LEMMA NothingServes == MakesServer(Nothing)
BY NothingIs DEF MakesServer

LEMMA ClaimServes ==
  ASSUME NEW c, NEW p, DOMAIN p \subseteq {"secret", "external-secret"},
         "external-secret" \in DOMAIN p =>
           p["external-secret"].store \in {"google", "azure", "aws"}
  PROVE  MakesServer(With(Named("sqlClaim", c), p))
<1> DEFINE a == Named("sqlClaim", c)
           w == With(a, p)
<1>1. DOMAIN a = {"sqlClaim"}
  BY NamedIs
<1> HIDE DEF a
<1>2. /\ DOMAIN w = DOMAIN a \cup DOMAIN p
      /\ \A k \in DOMAIN p \ DOMAIN a : w[k] = p[k]
  BY SMT DEF With
<1> HIDE DEF w
<1>3. MakesServer(w)
  BY <1>1, <1>2 DEF MakesServer, ServerNames
<1>4. QED
  BY <1>3 DEF a, w

LEMMA ServerObjectsServe ==
  ASSUME NEW v \in Props
  PROVE  MakesServer(ServerObjects(v))
<1>1. CASE "helm" \in v.flags
  <2> DEFINE h == getPostgresqlHelm(v)
             p == Named("postgresql", h)
  <2>1. ServerObjects(v) = p
    BY <1>1 DEF ServerObjects
  <2>2. DOMAIN p = {"postgresql"}
    BY NamedIs, Zenon
  <2> HIDE DEF h, p
  <2>3. QED
    BY <2>1, <2>2 DEF MakesServer, ServerNames
<1>2. CASE "helm" \notin v.flags /\ v.flags \cap DbFlags = {}
  BY <1>2, NothingServes DEF ServerObjects
<1>3. CASE "helm" \notin v.flags /\ v.flags \cap DbFlags # {} /\ "local" \in v.flags
  <2> DEFINE c == getPostgresqlCrossplane(v)
             p == Named("sqlClaim", c)
  <2>1. ServerObjects(v) = p
    BY <1>3 DEF ServerObjects, Claim
  <2>2. DOMAIN p = {"sqlClaim"}
    BY NamedIs, Zenon
  <2> HIDE DEF c, p
  <2>3. QED
    BY <2>1, <2>2 DEF MakesServer, ServerNames
<1>4. CASE "helm" \notin v.flags /\ v.flags \cap DbFlags # {} /\ "local" \notin v.flags
  <2>1. ServerObjects(v) = With(Named("sqlClaim", getPostgresqlCrossplane(v)), Password(v))
    BY <1>4 DEF ServerObjects, Claim
  <2>2. QED
    BY <1>4, <2>1, PasswordStore, ClaimServes
<1>5. QED
  BY <1>1, <1>2, <1>3, <1>4

LEMMA TemplateServes ==
  ASSUME NEW v \in Props
  PROVE  MakesServer(templateServer(v))
<1>1. CASE "helm" \in v.flags
  <2> DEFINE h == IF tool = "helm"
                    THEN [release |-> <<Id, "-postgresql">>, database |-> "cncf-demo-db-dev"]
                    ELSE [release |-> <<"postgresql", "">>, database |-> "cncf-demo"]
  <2> DEFINE p == Named("postgresql", h)
  <2>1. templateServer(v) = p
    BY <1>1 DEF templateServer
  <2>2. DOMAIN p = {"postgresql"}
    BY NamedIs, Zenon
  <2> HIDE DEF h, p
  <2>3. QED
    BY <2>1, <2>2 DEF MakesServer, ServerNames
<1>2. CASE "helm" \notin v.flags /\ v.flags \cap DbFlags = {}
  BY <1>2, NothingServes DEF templateServer
<1>3. CASE "helm" \notin v.flags /\ v.flags \cap DbFlags # {}
  <2> DEFINE c == [getPostgresqlCrossplane(v) EXCEPT !.databases = {DbId}]
             g == IF "local" \in v.flags THEN Nothing ELSE Password(v)
  <2>1. templateServer(v) = With(Named("sqlClaim", c), g)
    BY <1>3 DEF templateServer
  <2>2. /\ DOMAIN g \subseteq {"secret", "external-secret"}
        /\ "external-secret" \in DOMAIN g =>
             g["external-secret"].store \in {"google", "azure", "aws"}
    <3>1. CASE "local" \in v.flags
      BY <3>1, NothingIs
    <3>2. CASE "local" \notin v.flags
      BY <1>3, <3>2, PasswordStore
    <3>3. QED
      BY <3>1, <3>2
  <2> HIDE DEF c, g
  <2>3. QED
    BY <2>1, <2>2, ClaimServes
<1>4. QED
  BY <1>1, <1>2, <1>3
-----------------------------------------------------------------------------
\* What a template renders: the deployment and the service of the values, and
\* the connection of the tool.
LEMMA TemplateIs ==
  ASSUME NEW v \in Props
  PROVE  /\ {"deployment", "service"} \subseteq DOMAIN template(v)
         /\ template(v)["deployment"] = templateDeployment(v)
         /\ template(v)["service"] = templateService(v)
         /\ "database" \in DOMAIN template(v) =>
              template(v)["database"].conn = IF tool = "helm" THEN chartConnection(v)
                                             ELSE yttConnection(v)
         /\ "external-secret" \in DOMAIN template(v) =>
              template(v)["external-secret"].store \in {"google", "azure", "aws"}
<1> DEFINE d == Named("deployment", templateDeployment(v))
           s == Named("service", templateService(v))
           i == Named("ingress", templateIngress(v))
           a == templateApp(v)
           c == templateCertificate(v)
           p == templateServer(v)
           h == IF "schemahero" \in v.flags THEN templateSchemaHero(v) ELSE Nothing
<1>1. /\ DOMAIN d = {"deployment"} /\ d["deployment"] = templateDeployment(v)
      /\ DOMAIN s = {"service"} /\ s["service"] = templateService(v)
      /\ DOMAIN i = {"ingress"}
  BY NamedIs
<1>2. a = With(d, With(s, i))
  BY DEF templateApp
<1>3. DOMAIN c \subseteq {"certificate"}
  BY NamedIs, NothingIs DEF templateCertificate
<1>4. MakesServer(p)
  BY TemplateServes
<1>5. /\ DOMAIN h \subseteq {"database", "table"}
      /\ "database" \in DOMAIN h =>
           h["database"].conn = IF tool = "helm" THEN chartConnection(v)
                                ELSE yttConnection(v)
  <2>1. CASE "schemahero" \in v.flags
    <3> DEFINE k == IF tool = "helm" THEN chartConnection(v) ELSE yttConnection(v)
               x == Named("database", [id |-> v.name, conn |-> k])
               y == Named("table", [database |-> DbId])
    <3>1. h = With(x, y)
      BY <2>1 DEF templateSchemaHero
    <3>2. /\ DOMAIN x = {"database"} /\ DOMAIN y = {"table"}
          /\ x["database"] = [id |-> v.name, conn |-> k]
      BY NamedIs
    <3>3. DOMAIN h = {"database", "table"} /\ h["database"] = x["database"]
      <4> HIDE DEF x, y, h
      <4>1. /\ DOMAIN With(x, y) = DOMAIN x \cup DOMAIN y
            /\ \A j \in DOMAIN x : With(x, y)[j] = x[j]
        BY WithIs, Zenon
      <4>2. QED
        BY <3>1, <3>2, <4>1
    <3> HIDE DEF k, x, h
    <3>4. DOMAIN h = {"database", "table"} /\ h["database"].conn = k
      BY <3>2, <3>3
    <3>5. QED
      BY <3>4 DEF k
  <2>2. CASE "schemahero" \notin v.flags
    BY <2>2, NothingIs
  <2>3. QED
    BY <2>1, <2>2
<1>6. template(v) = With(With(a, c), With(p, h))
  BY DEF template
<1> HIDE DEF d, s, i, a, c, p, h
<1>7. /\ DOMAIN a = {"deployment", "service", "ingress"}
      /\ a["deployment"] = d["deployment"] /\ a["service"] = s["service"]
  <2>1. DOMAIN With(s, i) = {"service", "ingress"} /\ With(s, i)["service"] = s["service"]
    <3>1. /\ DOMAIN With(s, i) = DOMAIN s \cup DOMAIN i
          /\ \A k \in DOMAIN s : With(s, i)[k] = s[k]
      BY WithIs, Zenon
    <3>2. QED
      BY <1>1, <3>1
  <2> DEFINE o == With(s, i)
  <2>2. a = With(d, o)
    BY <1>2
  <2>3. DOMAIN o = {"service", "ingress"} /\ o["service"] = s["service"]
    BY <2>1
  <2> HIDE DEF o
  <2>4. /\ DOMAIN With(d, o) = DOMAIN d \cup DOMAIN o
        /\ \A k \in DOMAIN d : With(d, o)[k] = d[k]
        /\ \A k \in DOMAIN o \ DOMAIN d : With(d, o)[k] = o[k]
    BY WithIs, Zenon
  <2>5. QED
    BY <1>1, <2>2, <2>3, <2>4
<1>8. /\ DOMAIN With(a, c) = DOMAIN a \cup DOMAIN c
      /\ With(a, c)["deployment"] = a["deployment"]
      /\ With(a, c)["service"] = a["service"]
  <2>1. /\ DOMAIN With(a, c) = DOMAIN a \cup DOMAIN c
        /\ \A k \in DOMAIN a : With(a, c)[k] = a[k]
    BY WithIs, Zenon
  <2>2. QED
    BY <1>7, <2>1
<1>9. /\ DOMAIN With(p, h) = DOMAIN p \cup DOMAIN h
      /\ "database" \in DOMAIN With(p, h) =>
           "database" \in DOMAIN h /\ With(p, h)["database"] = h["database"]
      /\ "external-secret" \in DOMAIN With(p, h) =>
           "external-secret" \in DOMAIN p /\ With(p, h)["external-secret"] = p["external-secret"]
  <2>1. /\ DOMAIN With(p, h) = DOMAIN p \cup DOMAIN h
        /\ \A k \in DOMAIN p : With(p, h)[k] = p[k]
        /\ \A k \in DOMAIN h \ DOMAIN p : With(p, h)[k] = h[k]
    BY WithIs, Zenon
  <2>2. "database" \notin DOMAIN p /\ "external-secret" \notin DOMAIN h
    BY <1>4, <1>5 DEF MakesServer, ServerNames
  <2>3. QED
    BY <2>1, <2>2
<1>10. /\ "deployment" \in DOMAIN With(a, c) /\ "service" \in DOMAIN With(a, c)
       /\ "database" \notin DOMAIN With(a, c) /\ "external-secret" \notin DOMAIN With(a, c)
  BY <1>3, <1>7, <1>8
<1> DEFINE m == With(a, c)
           n == With(p, h)
<1>11. /\ DOMAIN template(v) = DOMAIN m \cup DOMAIN n
       /\ \A k \in DOMAIN m : template(v)[k] = m[k]
       /\ \A k \in DOMAIN n \ DOMAIN m : template(v)[k] = n[k]
  <2> HIDE DEF m, n
  <2>1. template(v) = With(m, n)
    BY <1>6 DEF m, n
  <2>2. /\ DOMAIN With(m, n) = DOMAIN m \cup DOMAIN n
        /\ \A k \in DOMAIN m : With(m, n)[k] = m[k]
        /\ \A k \in DOMAIN n \ DOMAIN m : With(m, n)[k] = n[k]
    BY WithIs, Zenon
  <2>3. QED
    BY <2>1, <2>2
<1>12. /\ {"deployment", "service"} \subseteq DOMAIN template(v)
       /\ template(v)["deployment"] = templateDeployment(v)
       /\ template(v)["service"] = templateService(v)
  BY <1>1, <1>7, <1>8, <1>10, <1>11
<1>13. "database" \in DOMAIN template(v) =>
         "database" \in DOMAIN h /\ template(v)["database"] = h["database"]
  BY <1>9, <1>10, <1>11
<1>14. "external-secret" \in DOMAIN template(v) =>
         /\ "external-secret" \in DOMAIN p
         /\ template(v)["external-secret"] = p["external-secret"]
  BY <1>9, <1>10, <1>11
<1>15. QED
  BY <1>4, <1>5, <1>12, <1>13, <1>14 DEF MakesServer

\* What one tool made right stays so when right objects are added.
LEMMA WithRight ==
  ASSUME NEW f, NEW g, Right(f), Right(g)
  PROVE  Right(With(f, g))
<1> DEFINE w == With(f, g)
<1>1. /\ DOMAIN w = DOMAIN f \cup DOMAIN g
      /\ \A k \in DOMAIN f : w[k] = f[k]
      /\ \A k \in DOMAIN g \ DOMAIN f : w[k] = g[k]
  BY WithIs
<1> HIDE DEF w
<1>2. \A k \in DOMAIN w : \/ k \in DOMAIN f /\ w[k] = f[k]
                          \/ k \in DOMAIN g /\ w[k] = g[k]
  BY <1>1
<1>3. Right(w)
  BY <1>2 DEF Right
<1>4. QED
  BY <1>3 DEF w

\* The templates depend on the tool and on the values, and on nothing else.
LEMMA RenderedAlike ==
  ASSUME UNCHANGED <<tool, values>>
  PROVE  /\ templateDeployment(values)' = templateDeployment(values)
         /\ templateService(values)' = templateService(values)
         /\ Connection(values)' = Connection(values)
<1>1. templateDeployment(values)' = templateDeployment(values)
  BY DEF templateDeployment, templateEnv, helmServer, ownDatabase
<1>2. templateService(values)' = templateService(values)
  BY DEF templateService
<1>3. chartConnection(values)' = chartConnection(values)
  BY DEF chartConnection, helmServer, ownDatabase
<1>4. yttConnection(values)' = yttConnection(values)
  BY DEF yttConnection, helmServer, ownDatabase
<1>5. Connection(values)' = Connection(values)
  BY <1>3, <1>4 DEF Connection
<1>6. QED
  BY <1>1, <1>2, <1>5

\* An object added where the program has what it needs is right.
LEMMA BuildRight ==
  ASSUME BuiltInv, NEW new, Right(new), Build(new), UNCHANGED <<tool, values>>
  PROVE  BuiltInv'
<1>1. Right(With(objects, new))
  BY WithRight DEF BuiltInv
<1>2. Right(objects')
  BY <1>1 DEF Build
<1>3. /\ templateDeployment(values)' = templateDeployment(values)
      /\ templateService(values)' = templateService(values)
      /\ Connection(values)' = Connection(values)
  BY RenderedAlike
<1>4. QED
  BY <1>2, <1>3 DEF BuiltInv, Right
-----------------------------------------------------------------------------
LEMMA InitHolds ==
  ASSUME Init
  PROVE  AppInv
<1>1. tool \in Tools /\ base \in File /\ overlay \in File
  BY DEF Init
<1>2. values \in Props
  BY DEF Init, Props, Names
<1>3. objects = Nothing /\ DOMAIN objects = {}
  BY NothingIs DEF Init
<1>4. TypeOK
  BY <1>1, <1>2, <1>3 DEF Init, TypeOK, Props, StepAfter
<1>5. StageInv
  BY <1>3 DEF Init, StageInv
<1>6. BuiltInv
  BY <1>3 DEF BuiltInv, Right
<1>7. TablesInv
  BY DEF Init, TablesInv
<1>8. QED
  BY <1>4, <1>5, <1>6, <1>7 DEF AppInv

\* Reading the values builds nothing.
LEMMA ReadKeeps ==
  ASSUME AppInv, NEW s \in {"base", "overlay"}, NEW file \in File, Read(s, file)
  PROVE  AppInv'
<1>1. objects = Nothing /\ metadata = {AppName} /\ tool = "cdk8s"
  BY DEF AppInv, StageInv, Read
<1>2. DOMAIN objects' = {} /\ objects' = Nothing
  BY <1>1, NothingIs DEF Read, genVars
<1>3. values' \in Props /\ stage' \in {"overlay", "deployment", "failed"}
  <2>1. values \in Props
    BY DEF AppInv, TypeOK, Props
  <2>2. CASE file.read = "malformed"
    BY <2>1, <2>2 DEF Read
  <2>3. CASE file.read # "malformed"
    <3>1. values' = setValues(file, values) /\ stage' = StepAfter[s]
      BY <2>3 DEF Read
    <3>2. StepAfter[s] \in {"overlay", "deployment"}
      BY DEF StepAfter
    <3>3. values' \in Props
      BY <2>1, <3>1, SetValuesType
    <3>4. QED
      BY <3>1, <3>2, <3>3
  <2>4. QED
    BY <2>2, <2>3
<1>4. UNCHANGED <<inputVars, metadata, objects, clusterVars>>
  BY DEF Read
<1>5. TypeOK'
  <2>1. stage' \in DOMAIN StepAfter \cup {"applying", "failed"}
    BY <1>3 DEF StepAfter
  <2>2. QED
    BY <1>1, <1>2, <1>3, <1>4, <2>1 DEF AppInv, TypeOK, Props, inputVars, clusterVars
<1>6. StageInv'
  BY <1>1, <1>2, <1>3, <1>4 DEF StageInv, inputVars
<1>7. BuiltInv'
  BY <1>2 DEF BuiltInv, Right
<1>8. TablesInv'
  <2>1. tables = {}
    BY <1>1, NothingIs DEF AppInv, TablesInv
  <2>2. QED
    BY <1>4, <2>1 DEF TablesInv, clusterVars
<1>9. QED
  BY <1>5, <1>6, <1>7, <1>8 DEF AppInv

Building == {"deployment", "service", "ingress", "certificate", "server", "schemahero"}

\* A step that builds an object keeps the invariant when the object is right.
LEMMA BuildKeeps ==
  ASSUME AppInv, NEW s \in Building, At(s), NEW new, Right(new), Build(new),
         UNCHANGED <<inputVars, values, clusterVars>>,
         metadata' \in {{AppName}, {AppName, CertMark}},
         s \in {"deployment", "service"} => metadata' = {AppName}
  PROVE  AppInv'
<1>1. tool = "cdk8s" /\ stage = s /\ stage' = StepAfter[s]
  BY DEF At, AppInv, StageInv, Building
<1>2. /\ stage' \in {"service", "ingress", "certificate", "server", "schemahero", "applying"}
      /\ stage' \in {"service", "ingress"} => s \in {"deployment", "service"}
  BY <1>1 DEF StepAfter, Building
<1>3. /\ DOMAIN objects \subseteq DOMAIN objects'
      /\ \A k \in DOMAIN objects : objects'[k] = objects[k]
  <2> DEFINE w == With(objects, new)
  <2>1. /\ DOMAIN w = DOMAIN objects \cup DOMAIN new
        /\ \A k \in DOMAIN objects : w[k] = objects[k]
    BY SMT DEF With
  <2>2. objects' = w
    BY DEF Build
  <2> HIDE DEF w
  <2>3. QED
    BY <2>1, <2>2
<1>4. UNCHANGED <<tool, base, overlay, values, applied, tables>>
  BY DEF inputVars, clusterVars
<1>5. BuiltInv'
  BY <1>4, BuildRight DEF AppInv
<1>6. TypeOK'
  <2>1. "external-secret" \in DOMAIN objects' =>
          objects'["external-secret"].store \in {"google", "azure", "aws"}
    BY <1>5 DEF BuiltInv, Right
  <2>2. stage' \in DOMAIN StepAfter \cup {"applying", "failed"} /\ stage' # "failed"
    BY <1>2 DEF StepAfter
  <2>3. applied' \subseteq DOMAIN objects'
    BY <1>3, <1>4 DEF AppInv, TypeOK
  <2>4. /\ tool \in Tools /\ base \in File /\ overlay \in File
        /\ values \in [name : Names, flags : SUBSET Flags]
    BY DEF AppInv, TypeOK
  <2>5. QED
    BY <1>4, <2>1, <2>2, <2>3, <2>4 DEF TypeOK
<1>7. StageInv'
  BY <1>1, <1>2, <1>4 DEF StageInv
<1>8. TablesInv'
  <2>1. ASSUME NEW t \in tables'
        PROVE  /\ "database" \in DOMAIN objects'
               /\ t = <<objects'["database"].conn.endpoint,
                        objects'["database"].conn.name.name[1]>>
    <3>1. /\ "database" \in DOMAIN objects
          /\ t = <<objects["database"].conn.endpoint, objects["database"].conn.name.name[1]>>
      BY <1>4, <2>1 DEF AppInv, TablesInv
    <3>2. objects'["database"] = objects["database"]
      BY <1>3, <3>1
    <3>3. QED
      BY <1>3, <3>1, <3>2
  <2>2. QED
    BY <2>1 DEF TablesInv
<1>9. QED
  BY <1>5, <1>6, <1>7, <1>8 DEF AppInv

\* The six objects of the program, each right.
LEMMA NewAppKeeps ==
  ASSUME AppInv,
         Deployment \/ Service \/ Ingress \/ Certificate \/ Server \/ SchemaHero
  PROVE  AppInv'
<1>1. values \in Props /\ metadata \in {{AppName}, {AppName, CertMark}}
  BY DEF AppInv, TypeOK, Props
<1>2. CASE Deployment
  <2> DEFINE x == getDeploymentProps(values, metadata)
             new == Named("deployment", x)
  <2>1. /\ At("deployment") /\ Build(new) /\ UNCHANGED <<inputVars, values, clusterVars>>
        /\ metadata = {AppName} /\ metadata' = metadata /\ tool = "cdk8s"
    BY <1>2 DEF Deployment, At, AppInv, StageInv
  <2>2. DOMAIN new = {"deployment"} /\ new["deployment"] = x
    BY NamedIs
  <2>3. x = getDeploymentProps(values, {AppName})
    BY <2>1
  <2> HIDE DEF x, new
  <2>4. Right(new)
    BY <2>1, <2>2, <2>3 DEF Right
  <2>5. "deployment" \in Building
    BY DEF Building
  <2>6. QED
    BY <2>1, <2>4, <2>5, BuildKeeps
<1>3. CASE Service
  <2> DEFINE x == getServiceProps(metadata)
             new == Named("service", x)
  <2>1. /\ At("service") /\ Build(new) /\ UNCHANGED <<inputVars, values, clusterVars>>
        /\ metadata = {AppName} /\ metadata' = metadata /\ tool = "cdk8s"
    BY <1>3 DEF Service, At, AppInv, StageInv
  <2>2. DOMAIN new = {"service"} /\ new["service"] = x
    BY NamedIs
  <2>3. x = getServiceProps({AppName})
    BY <2>1
  <2> HIDE DEF x, new
  <2>4. Right(new)
    BY <2>1, <2>2, <2>3 DEF Right
  <2>5. "service" \in Building
    BY DEF Building
  <2>6. QED
    BY <2>1, <2>4, <2>5, BuildKeeps
<1>4. CASE Ingress
  <2> DEFINE x == getIngressProps(values, metadata)
             new == Named("ingress", x)
  <2>1. /\ At("ingress") /\ Build(new) /\ UNCHANGED <<inputVars, values, clusterVars>>
        /\ metadata' = x.labels
    BY <1>4 DEF Ingress
  <2>2. DOMAIN new = {"ingress"}
    BY NamedIs
  <2>3. x.labels \in {{AppName}, {AppName, CertMark}}
    BY <1>1 DEF getIngressProps
  <2> HIDE DEF x, new
  <2>4. Right(new)
    BY <2>2 DEF Right
  <2>5. "ingress" \in Building
    BY DEF Building
  <2>6. QED
    BY <2>1, <2>3, <2>4, <2>5, BuildKeeps
<1>5. CASE Certificate
  <2> DEFINE new == IF "tls" \in values.flags
                      THEN Named("certificate", getCertificate) ELSE Nothing
  <2>1. /\ At("certificate") /\ Build(new) /\ UNCHANGED <<inputVars, values, clusterVars>>
        /\ metadata' = metadata
    BY <1>5 DEF Certificate
  <2>2. DOMAIN new \subseteq {"certificate"}
    BY NamedIs, NothingIs
  <2> HIDE DEF new
  <2>3. Right(new)
    BY <2>2 DEF Right
  <2>4. "certificate" \in Building
    BY DEF Building
  <2>5. QED
    BY <1>1, <2>1, <2>3, <2>4, BuildKeeps
<1>6. CASE Server
  <2> DEFINE new == ServerObjects(values)
  <2>1. /\ At("server") /\ Build(new) /\ UNCHANGED <<inputVars, values, clusterVars>>
        /\ metadata' = metadata
    BY <1>6 DEF Server
  <2>2. MakesServer(new)
    BY <1>1, ServerObjectsServe
  <2> HIDE DEF new
  <2>3. Right(new)
    BY <2>2 DEF Right, MakesServer, ServerNames
  <2>4. "server" \in Building
    BY DEF Building
  <2>5. QED
    BY <1>1, <2>1, <2>3, <2>4, BuildKeeps
<1>7. CASE SchemaHero
  <2> DEFINE c == getPostgresqlDatabase(values)
             x == Named("database", [id |-> Id, conn |-> c])
             y == Named("table", getPostgresqlTable(values))
             new == IF "schemahero" \in values.flags THEN With(x, y) ELSE Nothing
  <2>1. /\ At("schemahero") /\ Build(new) /\ UNCHANGED <<inputVars, values, clusterVars>>
        /\ metadata' = metadata
    BY <1>7 DEF SchemaHero
  <2>2. tool = "cdk8s"
    BY <2>1 DEF At, AppInv, StageInv
  <2>3. DOMAIN x = {"database"} /\ x["database"] = [id |-> Id, conn |-> c]
        /\ DOMAIN y = {"table"}
    BY NamedIs
  <2>4. c = Connection(values)
    BY <2>2 DEF Connection
  <2> HIDE DEF c, x, y
  <2>5. Right(new)
    <3>1. CASE "schemahero" \in values.flags
      <4>1. DOMAIN new = DOMAIN x \cup DOMAIN y /\ \A k \in DOMAIN x : new[k] = x[k]
        BY <3>1, SMT DEF With
      <4> HIDE DEF new
      <4>2. DOMAIN new = {"database", "table"} /\ new["database"].conn = c
        BY <2>3, <4>1
      <4>3. QED
        BY <2>4, <4>2 DEF Right
    <3>2. CASE "schemahero" \notin values.flags
      <4>1. DOMAIN new = {}
        BY <3>2, NothingIs
      <4> HIDE DEF new
      <4>2. QED
        BY <4>1 DEF Right
    <3>3. QED
      BY <3>1, <3>2
  <2> HIDE DEF new
  <2>6. "schemahero" \in Building
    BY DEF Building
  <2>7. QED
    BY <1>1, <2>1, <2>5, <2>6, BuildKeeps
<1>8. QED
  BY <1>2, <1>3, <1>4, <1>5, <1>6, <1>7

\* A template renders everything at once from the values of both files.
LEMMA RenderKeeps ==
  ASSUME AppInv, Render
  PROVE  AppInv'
<1>1. /\ tool # "cdk8s" /\ stage = "base" /\ objects = Nothing /\ metadata = {AppName}
      /\ UNCHANGED <<tool, base, overlay, metadata, applied, tables>>
  BY DEF Render, AppInv, StageInv, inputVars, clusterVars
<1>2. DOMAIN objects = {} /\ applied = {} /\ tables = {}
  BY <1>1, NothingIs DEF AppInv, TypeOK, TablesInv
<1>3. /\ tool \in Tools /\ base \in File /\ overlay \in File /\ values \in Props
  BY DEF AppInv, TypeOK, Props
<1>4. CASE base.read = "ok" /\ overlay.read # "malformed"
  <2> DEFINE none == [name |-> Id, flags |-> {}]
             v == setValues(overlay, setValues(base, none))
             o == template(v)
  <2>1. none \in Props
    BY DEF Props, Names
  <2>2. v \in Props
    BY <1>3, <2>1, SetValuesType
  <2>3. values' = v /\ objects' = template(values') /\ stage' = "applying"
    BY <1>4 DEF Render
  <2>4. objects' = o
    BY <2>3
  <2> HIDE DEF v
  <2>5. /\ {"deployment", "service"} \subseteq DOMAIN o
        /\ o["deployment"] = templateDeployment(v)
        /\ o["service"] = templateService(v)
        /\ "database" \in DOMAIN o =>
             o["database"].conn = IF tool = "helm" THEN chartConnection(v)
                                  ELSE yttConnection(v)
        /\ "external-secret" \in DOMAIN o =>
             o["external-secret"].store \in {"google", "azure", "aws"}
    BY <2>2, TemplateIs
  <2> HIDE DEF o
  <2>6. /\ templateDeployment(values)' = templateDeployment(v)
        /\ templateService(values)' = templateService(v)
        /\ chartConnection(values)' = chartConnection(v)
        /\ yttConnection(values)' = yttConnection(v)
    BY <1>1, <2>3 DEF templateDeployment, templateEnv, templateService,
         chartConnection, yttConnection, helmServer, ownDatabase
  <2>7. BuiltInv'
    BY <1>1, <2>4, <2>5, <2>6 DEF BuiltInv, Right, Connection
  <2>8. TypeOK'
    <3>1. "external-secret" \in DOMAIN objects' =>
            objects'["external-secret"].store \in {"google", "azure", "aws"}
      BY <2>4, <2>5
    <3>2. QED
      BY <1>1, <1>2, <1>3, <2>2, <2>3, <3>1 DEF TypeOK, Props
  <2>9. StageInv' /\ TablesInv'
    BY <1>1, <1>2, <2>3 DEF StageInv, TablesInv
  <2>10. QED
    BY <2>7, <2>8, <2>9 DEF AppInv
<1>5. CASE ~(base.read = "ok" /\ overlay.read # "malformed")
  <2>1. stage' = "failed" /\ values' = values /\ objects' = objects
    BY <1>5 DEF Render
  <2>2. DOMAIN objects' = {}
    BY <1>2, <2>1
  <2>3. TypeOK'
    BY <1>1, <1>2, <1>3, <2>1, <2>2 DEF TypeOK, Props
  <2>4. StageInv' /\ BuiltInv' /\ TablesInv'
    BY <1>1, <1>2, <2>1, <2>2 DEF StageInv, BuiltInv, Right, TablesInv
  <2>5. QED
    BY <2>3, <2>4 DEF AppInv
<1>6. QED
  BY <1>4, <1>5

\* The cluster applies objects and acts on them; it changes none.
LEMMA ClusterKeeps ==
  ASSUME AppInv, Cluster \/ \E o \in DOMAIN objects : Apply(o)
  PROVE  AppInv'
<1>1. UNCHANGED <<tool, base, overlay, stage, values, metadata, objects>>
  BY DEF Cluster, Apply, SecretSynced, HelmInstalled, HelmReady, ClaimReady,
     CertificateIssued, PodStarts, TableCreated, inputVars, genVars
<1>2. applied \subseteq applied' /\ applied' \subseteq DOMAIN objects
  <2>1. applied \subseteq DOMAIN objects
    BY DEF AppInv, TypeOK
  <2>2. ASSUME NEW o \in DOMAIN objects, Apply(o)
        PROVE  applied \subseteq applied' /\ applied' \subseteq DOMAIN objects
    BY <2>1, <2>2 DEF Apply
  <2>3. Cluster => applied' = applied
    BY DEF Cluster, SecretSynced, HelmInstalled, HelmReady, ClaimReady,
       CertificateIssued, PodStarts, TableCreated
  <2>4. QED
    BY <2>1, <2>2, <2>3
<1>3. TypeOK'
  BY <1>1, <1>2 DEF AppInv, TypeOK
<1>4. StageInv'
  BY <1>1 DEF AppInv, StageInv
<1>5. BuiltInv'
  <2>1. /\ templateDeployment(values)' = templateDeployment(values)
        /\ templateService(values)' = templateService(values)
        /\ Connection(values)' = Connection(values)
    BY <1>1, RenderedAlike
  <2>2. QED
    BY <1>1, <2>1 DEF AppInv, BuiltInv, Right
<1>6. TablesInv'
  <2>1. CASE TableCreated
    <3> DEFINE c == objects["database"].conn
               t == <<c.endpoint, c.name.name[1]>>
    <3>1. "database" \in applied /\ tables' = tables \cup {t}
      BY <2>1 DEF TableCreated
    <3>2. "database" \in DOMAIN objects
      BY <3>1 DEF AppInv, TypeOK
    <3>3. \A u \in tables : u = t
      BY DEF AppInv, TablesInv
    <3>4. t' = t
      BY <1>1
    <3>5. \A u \in tables' : u = t'
      <4> HIDE DEF t
      <4>1. QED
        BY <3>1, <3>3, <3>4
    <3>6. QED
      BY <1>1, <3>2, <3>5 DEF TablesInv
  <2>2. CASE ~TableCreated
    <3>1. tables' = tables
      BY <2>2 DEF Cluster, Apply, SecretSynced, HelmInstalled, HelmReady, ClaimReady,
         CertificateIssued, PodStarts
    <3>2. QED
      BY <1>1, <3>1 DEF AppInv, TablesInv
  <2>3. QED
    BY <2>1, <2>2
<1>7. QED
  BY <1>3, <1>4, <1>5, <1>6 DEF AppInv

LEMMA StutterKeeps ==
  ASSUME AppInv, UNCHANGED vars
  PROVE  AppInv'
<1>1. /\ UNCHANGED <<tool, base, overlay, stage, values, metadata, objects>>
      /\ UNCHANGED <<applied, tables>>
  BY DEF vars, inputVars, genVars, clusterVars
<1>2. /\ templateDeployment(values)' = templateDeployment(values)
      /\ templateService(values)' = templateService(values)
      /\ Connection(values)' = Connection(values)
  BY <1>1, RenderedAlike
<1>3. QED
  BY <1>1, <1>2 DEF AppInv, TypeOK, StageInv, BuiltInv, Right, TablesInv
-----------------------------------------------------------------------------
LEMMA AppStep ==
  ASSUME AppInv, [Next]_vars
  PROVE  AppInv'
<1>1. CASE ReadBase
  <2>1. base \in File
    BY DEF AppInv, TypeOK
  <2>2. QED
    BY <1>1, <2>1, ReadKeeps DEF ReadBase
<1>2. CASE ReadOverlay
  <2>1. overlay \in File
    BY DEF AppInv, TypeOK
  <2>2. QED
    BY <1>2, <2>1, ReadKeeps DEF ReadOverlay
<1>3. CASE Deployment \/ Service \/ Ingress \/ Certificate \/ Server \/ SchemaHero
  BY <1>3, NewAppKeeps
<1>4. CASE Render
  BY <1>4, RenderKeeps
<1>5. CASE Cluster \/ \E o \in DOMAIN objects : Apply(o)
  BY <1>5, ClusterKeeps
<1>6. CASE UNCHANGED vars
  BY <1>6, StutterKeeps
<1>7. QED
  BY <1>1, <1>2, <1>3, <1>4, <1>5, <1>6 DEF Next, Generate

\* Whatever renders the values and in whatever order the objects are applied,
\* the objects stay what NewApp or the template makes of the final values.
THEOREM ManifestsInvariant == Spec => []AppInv
<1>1. Init => AppInv
  BY InitHolds
<1>2. AppInv /\ [Next]_vars => AppInv'
  BY AppStep
<1>3. QED
  BY <1>1, <1>2, PTL DEF Spec

\* The values, labels and objects are of the kinds the code builds, a failed
\* program has built nothing, and an ExternalSecret names a store.
THEOREM ManifestsTypeCorrect == Spec => []TypeOK
<1>1. AppInv => TypeOK
  BY DEF AppInv
<1>2. QED
  BY <1>1, ManifestsInvariant, PTL

\* The labels that getIngressProps puts into the shared metadata reach neither
\* the selectors nor the pods: NewApp builds both objects before.
THEOREM ServiceSelectsPodsCorrect == Spec => []ServiceSelectsPods
<1>1. AppInv => ServiceSelectsPods
  <2> SUFFICES ASSUME AppInv PROVE ServiceSelectsPods
    OBVIOUS
  <2>1. CASE tool = "cdk8s"
    BY <2>1 DEF AppInv, BuiltInv, Right, ServiceSelectsPods, getDeploymentProps,
       getServiceProps
  <2>2. CASE tool # "cdk8s"
    BY <2>2 DEF AppInv, BuiltInv, Right, ServiceSelectsPods, templateDeployment,
       templateService
  <2>3. QED
    BY <2>1, <2>2
<1>2. QED
  BY <1>1, ManifestsInvariant, PTL

\* A value is no reference, and two values, or two references, differ when what
\* they are derived from does.
LEMMA ValueNotRef ==
  ASSUME NEW x, NEW r, NEW k
  PROVE  Value(x) # Ref(r, k)
<1>1. Value(x).from = "value" /\ Ref(r, k).from = "secret"
  BY DEF Value, Ref
<1>2. QED
  BY <1>1

LEMMA PlainApart ==
  ASSUME NEW x, NEW y, x # y
  PROVE  Plain(x) # Plain(y)
<1>1. Plain(x).name = <<x, "">> /\ Plain(y).name = <<y, "">>
  BY DEF Plain, Value
<1>2. <<x, "">> # <<y, "">>
  OBVIOUS
<1>3. QED
  BY <1>1, <1>2

LEMMA RefApart ==
  ASSUME NEW r, NEW s, NEW k, r # s
  PROVE  Ref(r, k) # Ref(s, k)
<1>1. Ref(r, k).name = r /\ Ref(s, k).name = s
  BY DEF Ref
<1>2. QED
  BY <1>1

\* setDbEnv and getPostgresqlDatabase, and their counterparts in the templates,
\* agree on the values that Agreeing describes and on no others.
LEMMA EnvAgrees ==
  ASSUME NEW v \in Props, tool \in Tools
  PROVE  LET app == IF tool = "cdk8s" THEN setDbEnv(v) ELSE templateEnv(v)
             sh  == Connection(v)
         IN (\A f \in {"endpoint", "user", "pass", "name"} : app[f] = sh[f])
              <=> Agreeing(v)
<1>0. tool \in {"cdk8s", "helm", "ytt"}
  BY ToolsAssumption
<1> DEFINE app == IF tool = "cdk8s" THEN setDbEnv(v) ELSE templateEnv(v)
           sh  == Connection(v)
           same == \A f \in {"endpoint", "user", "pass", "name"} : app[f] = sh[f]
<1> SUFFICES same <=> Agreeing(v)
  OBVIOUS
<1> HIDE DEF app, sh
<1>1. CASE Asked(v) = {}
  <2>1. v.flags \cap DbFlags = {} /\ "helm" \notin v.flags /\ "local" \notin v.flags
        /\ "aws" \notin v.flags
    BY <1>1 DEF Asked, DbFlags
  <2>2. app = NoEnv
    BY <2>1 DEF app, setDbEnv, templateEnv
  <2>3. CASE tool = "helm"
    <3>1. sh = [NoEnv EXCEPT !.port = Plain("5432"), !.name = Plain(DbId)]
      BY <2>1, <2>3 DEF sh, Connection, chartConnection
    <3>2. app.name # sh.name
      <4>1. app.name = Plain("") /\ sh.name = Plain(DbId)
        BY <2>2, <3>1 DEF NoEnv
      <4>2. QED
        BY <4>1, PlainApart, DbIdAssumption
    <3>3. QED
      BY <1>1, <3>2 DEF Agreeing
  <2>4. CASE tool # "helm"
    <3>1. sh.endpoint = Ref(<<DbId, "">>, "endpoint")
      BY <2>1, <2>4, <1>0 DEF sh, Connection, getPostgresqlDatabase, yttConnection,
         cloudConnection, CloudServer
    <3>2. app.endpoint # sh.endpoint
      <4>1. app.endpoint = Value(<<"", "">>)
        BY <2>2 DEF NoEnv, Plain
      <4>2. QED
        BY <3>1, <4>1, ValueNotRef, Zenon
    <3>3. QED
      BY <1>1, <3>2 DEF Agreeing
  <2>5. QED
    BY <2>3, <2>4
<1>2. CASE "local" \in v.flags /\ "helm" \notin v.flags /\ tool # "helm"
  <2>1. app = OwnServer(localServer, v.name) /\ sh = OwnServer(localServer, v.name)
    BY <1>0, <1>2 DEF app, sh, setDbEnv, templateEnv, Connection, getPostgresqlDatabase,
       yttConnection, ownDatabase, localServer, DbFlags
  <2>2. Agreeing(v)
    BY <1>2 DEF Agreeing, Asked, DbFlags
  <2>3. QED
    BY <2>1, <2>2
<1>3. CASE "local" \in v.flags /\ (tool = "helm" \/ "helm" \in v.flags)
  <2> DEFINE h == IF tool = "ytt" THEN <<"postgresql", "">> ELSE <<v.name, "-postgresql">>
             d == IF tool = "helm" THEN DbId ELSE v.name
  <2>1. app = OwnServer(localServer, d) /\ sh = OwnServer(h, d)
    BY <1>0, <1>3 DEF app, sh, setDbEnv, templateEnv, Connection, getPostgresqlDatabase,
       yttConnection, chartConnection, ownDatabase, localServer, helmServer, DbFlags
  <2>2. Agreeing(v) <=> tool # "ytt" /\ v.name = DbId
    BY <1>3 DEF Agreeing, Asked, DbFlags
  <2>3. (tool # "ytt" /\ v.name = DbId) <=> h = localServer
    BY DEF localServer
  <2>4. same <=> h = localServer
    <3> HIDE DEF h, d
    <3>1. same => Value(localServer) = Value(h)
      BY <2>1 DEF OwnServer
    <3>2. Value(localServer) = Value(h) => h = localServer
      BY DEF Value
    <3>3. h = localServer => same
      BY <2>1
    <3>4. QED
      BY <3>1, <3>2, <3>3
  <2>5. QED
    BY <2>2, <2>3, <2>4
<1>4. CASE "local" \notin v.flags /\ "helm" \in v.flags
  <2>1. \E h, d : app = OwnServer(h, d) /\ sh = OwnServer(h, d)
    BY <1>0, <1>4 DEF app, sh, setDbEnv, templateEnv, Connection, getPostgresqlDatabase,
       yttConnection, chartConnection, ownDatabase, helmServer, DbFlags
  <2>2. Agreeing(v)
    BY <1>4 DEF Agreeing, Asked, DbFlags
  <2>3. QED
    BY <2>1, <2>2
<1>5. CASE "local" \notin v.flags /\ "helm" \notin v.flags /\ Asked(v) # {}
  <2>1. app = CloudServer(DbId)
    BY <1>5 DEF app, setDbEnv, templateEnv, Asked
  <2>2. Agreeing(v) <=> "aws" \notin v.flags
    BY <1>5 DEF Agreeing, Asked, DbFlags
  <2>3. CASE "aws" \in v.flags /\ tool = "cdk8s"
    <3>1. sh.endpoint = Ref(<<DbId, "-password">>, "endpoint")
      BY <1>5, <2>3 DEF sh, Connection, getPostgresqlDatabase, CloudServer
    <3>2. app.endpoint # sh.endpoint
      <4>1. app.endpoint = Ref(<<DbId, "">>, "endpoint")
        BY <2>1 DEF CloudServer
      <4>2. <<DbId, "">> # <<DbId, "-password">>
        OBVIOUS
      <4>3. QED
        BY <3>1, <4>1, <4>2, RefApart
    <3>3. QED
      BY <2>2, <2>3, <3>2
  <2>4. CASE "aws" \in v.flags /\ tool # "cdk8s"
    <3>1. sh.user = Plain("masteruser")
      BY <1>0, <1>5, <2>4 DEF sh, Connection, chartConnection, yttConnection,
         cloudConnection, CloudServer, Asked
    <3>2. app.user # sh.user
      <4>1. app.user = Ref(<<DbId, "">>, "username")
        BY <2>1 DEF CloudServer
      <4>2. sh.user = Value(<<"masteruser", "">>)
        BY <3>1 DEF Plain
      <4>3. QED
        BY <4>1, <4>2, ValueNotRef, Zenon
    <3>3. QED
      BY <2>2, <2>4, <3>2
  <2>5. CASE "aws" \notin v.flags
    <3>1. \A f \in {"endpoint", "user", "pass", "name"} : sh[f] = CloudServer(DbId)[f]
      BY <1>0, <1>5, <2>5 DEF sh, Connection, getPostgresqlDatabase, chartConnection,
         yttConnection, cloudConnection, CloudServer, Asked
    <3>2. QED
      BY <2>1, <2>2, <2>5, <3>1
  <2>6. QED
    BY <2>3, <2>4, <2>5
<1>6. QED
  BY <1>1, <1>2, <1>3, <1>4, <1>5

\* The container and SchemaHero are sent to one database of one server with
\* the same credentials for the values that Agreeing describes and for no
\* others, whichever tool renders them and whatever the names are.
THEOREM SameDatabaseCorrect == Spec => []SameDatabase
<1>1. AppInv => SameDatabase
  <2> SUFFICES ASSUME AppInv, {"deployment", "database"} \subseteq DOMAIN objects
               PROVE  (\A f \in {"endpoint", "user", "pass", "name"} :
                         objects["deployment"].env[f] = objects["database"].conn[f])
                        <=> Agreeing(values)
    BY DEF SameDatabase
  <2> DEFINE app == IF tool = "cdk8s" THEN setDbEnv(values) ELSE templateEnv(values)
             sh  == Connection(values)
  <2>1. objects["deployment"].env = app
    BY DEF AppInv, BuiltInv, Right, getDeploymentProps, templateDeployment
  <2>2. objects["database"].conn = sh
    BY DEF AppInv, BuiltInv, Right
  <2>3. (\A f \in {"endpoint", "user", "pass", "name"} : app[f] = sh[f])
          <=> Agreeing(values)
    BY EnvAgrees DEF AppInv, TypeOK, Props
  <2> HIDE DEF app, sh
  <2>4. QED
    BY <2>1, <2>2, <2>3
<1>2. QED
  BY <1>1, ManifestsInvariant, PTL
-----------------------------------------------------------------------------
(* A pod that has started can start again: its environment's secrets stay.  *)

PasswordName == <<DbId, "-password">>

\* What the secrets are called that the objects of f lead to.
Kinds(f) ==
  /\ "secret" \in DOMAIN f =>
       f["secret"].name = PasswordName /\ f["secret"].keys = {"password"}
  /\ "external-secret" \in DOMAIN f => f["external-secret"].name = PasswordName
  /\ "postgresql" \in DOMAIN f => f["postgresql"].release[2] # "-password"
  /\ "sqlClaim" \in DOMAIN f => f["sqlClaim"].id = DbId
  /\ "certificate" \in DOMAIN f => f["certificate"].secret[2] # "-password"

\* The password's secret holds the password, whoever made it.
PasswordInv ==
  PasswordName \in DOMAIN secrets => secrets[PasswordName] = {"password"}

PodCanRestart ==
  running => "deployment" \in DOMAIN objects /\ ResolvesAll(objects["deployment"].env)

PodInv == Kinds(objects) /\ PasswordInv /\ PodCanRestart

SecretObjects == {"secret", "external-secret", "postgresql", "sqlClaim", "certificate"}

LEMMA OtherKinds ==
  ASSUME NEW f, DOMAIN f \cap SecretObjects = {}
  PROVE  Kinds(f)
BY DEF Kinds, SecretObjects

LEMMA WithKinds ==
  ASSUME NEW f, NEW g, Kinds(f), Kinds(g)
  PROVE  Kinds(With(f, g))
<1> DEFINE w == With(f, g)
<1>1. /\ DOMAIN w = DOMAIN f \cup DOMAIN g
      /\ \A k \in DOMAIN f : w[k] = f[k]
      /\ \A k \in DOMAIN g \ DOMAIN f : w[k] = g[k]
  BY WithIs
<1> HIDE DEF w
<1>2. \A k \in DOMAIN w : \/ k \in DOMAIN f /\ w[k] = f[k]
                          \/ k \in DOMAIN g /\ w[k] = g[k]
  BY <1>1
<1>3. Kinds(w)
  BY <1>2 DEF Kinds
<1>4. QED
  BY <1>3 DEF w

LEMMA NothingKinds == Kinds(Nothing)
BY NothingIs DEF Kinds

LEMMA PasswordKinds ==
  ASSUME NEW v
  PROVE  Kinds(Password(v))
<1>1. CASE "insecure" \in v.flags
  <2> DEFINE e == getPostgresqlSecret
             p == Named("secret", e)
  <2>1. Password(v) = p
    BY <1>1 DEF Password
  <2>2. DOMAIN p = {"secret"} /\ p["secret"] = e
    BY NamedIs, Zenon
  <2>3. e.name = PasswordName /\ e.keys = {"password"}
    BY DEF getPostgresqlSecret, PasswordName
  <2> HIDE DEF e, p
  <2>4. QED
    BY <2>1, <2>2, <2>3 DEF Kinds
<1>2. CASE "insecure" \notin v.flags
  <2> DEFINE e == getPostgresqlExternalSecret(v)
             p == Named("external-secret", e)
  <2>1. Password(v) = p
    BY <1>2 DEF Password
  <2>2. DOMAIN p = {"external-secret"} /\ p["external-secret"] = e
    BY NamedIs, Zenon
  <2>3. e.name = PasswordName
    BY DEF getPostgresqlExternalSecret, PasswordName
  <2> HIDE DEF e, p
  <2>4. QED
    BY <2>1, <2>2, <2>3 DEF Kinds
<1>3. QED
  BY <1>1, <1>2

LEMMA NamedKinds ==
  ASSUME NEW x
  PROVE  /\ x.id = DbId => Kinds(Named("sqlClaim", x))
         /\ x.release[2] # "-password" => Kinds(Named("postgresql", x))
         /\ x.secret[2] # "-password" => Kinds(Named("certificate", x))
<1> DEFINE a == Named("sqlClaim", x)
           b == Named("postgresql", x)
           c == Named("certificate", x)
<1>1. /\ DOMAIN a = {"sqlClaim"} /\ a["sqlClaim"] = x
      /\ DOMAIN b = {"postgresql"} /\ b["postgresql"] = x
      /\ DOMAIN c = {"certificate"} /\ c["certificate"] = x
  BY NamedIs, Zenon
<1> HIDE DEF a, b, c
<1>2. /\ x.id = DbId => Kinds(a)
      /\ x.release[2] # "-password" => Kinds(b)
      /\ x.secret[2] # "-password" => Kinds(c)
  BY <1>1 DEF Kinds
<1>3. QED
  BY <1>2 DEF a, b, c

LEMMA ServerObjectsKinds ==
  ASSUME NEW v
  PROVE  Kinds(ServerObjects(v))
<1> DEFINE h == getPostgresqlHelm(v)
           c == getPostgresqlCrossplane(v)
<1>1. h.release[2] # "-password" /\ c.id = DbId
  BY DEF getPostgresqlHelm, getPostgresqlCrossplane
<1> HIDE DEF h, c
<1>2. Kinds(Named("postgresql", h)) /\ Kinds(Named("sqlClaim", c))
  BY <1>1, NamedKinds
<1>3. Kinds(With(Named("sqlClaim", c), Password(v)))
  BY <1>2, PasswordKinds, WithKinds
<1>4. QED
  BY <1>2, <1>3, NothingKinds DEF ServerObjects, Claim, h, c

LEMMA TemplateServerKinds ==
  ASSUME NEW v
  PROVE  Kinds(templateServer(v))
<1> DEFINE h == IF tool = "helm"
                  THEN [release |-> <<Id, "-postgresql">>, database |-> "cncf-demo-db-dev"]
                  ELSE [release |-> <<"postgresql", "">>, database |-> "cncf-demo"]
           c == [getPostgresqlCrossplane(v) EXCEPT !.databases = {DbId}]
           g == IF "local" \in v.flags THEN Nothing ELSE Password(v)
<1>1. templateServer(v) = IF "helm" \in v.flags THEN Named("postgresql", h)
                          ELSE IF v.flags \cap DbFlags = {} THEN Nothing
                          ELSE With(Named("sqlClaim", c), g)
  BY DEF templateServer
<1>2. h.release[2] # "-password" /\ c.id = DbId
  BY DEF getPostgresqlCrossplane
<1>3. Kinds(g)
  BY NothingKinds, PasswordKinds
<1> HIDE DEF h, c, g
<1>4. Kinds(Named("postgresql", h)) /\ Kinds(Named("sqlClaim", c))
  BY <1>2, NamedKinds
<1>5. Kinds(With(Named("sqlClaim", c), g))
  BY <1>3, <1>4, WithKinds
<1>6. QED
  BY <1>1, <1>4, <1>5, NothingKinds

LEMMA TemplateKinds ==
  ASSUME NEW v
  PROVE  Kinds(template(v))
<1> DEFINE a == templateApp(v)
           c == templateCertificate(v)
           p == templateServer(v)
           h == IF "schemahero" \in v.flags THEN templateSchemaHero(v) ELSE Nothing
<1>1. DOMAIN a = {"deployment", "service", "ingress"}
  <2> DEFINE d == templateDeployment(v)
             s == templateService(v)
             i == templateIngress(v)
  <2>1. a = With(Named("deployment", d), With(Named("service", s), Named("ingress", i)))
    BY DEF templateApp
  <2> HIDE DEF d, s, i
  <2>2. QED
    BY <2>1 DEF With, Named
<1>2. DOMAIN h \subseteq {"database", "table"}
  BY NothingIs DEF templateSchemaHero, With, Named
<1>3. Kinds(c)
  <2> DEFINE x == [secret |-> <<v.name, "">>]
  <2>1. c = IF "tls" \in v.flags THEN Named("certificate", x) ELSE Nothing
    BY DEF templateCertificate
  <2>2. x.secret[2] # "-password"
    OBVIOUS
  <2> HIDE DEF x
  <2>3. Kinds(Named("certificate", x))
    BY <2>2, NamedKinds
  <2>4. QED
    BY <2>1, <2>3, NothingKinds
<1>4. Kinds(p)
  BY TemplateServerKinds
<1>5. template(v) = With(With(a, c), With(p, h))
  BY DEF template
<1> HIDE DEF a, c, p, h
<1>6. Kinds(a) /\ Kinds(h)
  BY <1>1, <1>2, OtherKinds DEF SecretObjects
<1>7. Kinds(With(a, c)) /\ Kinds(With(p, h))
  BY <1>3, <1>4, <1>6, WithKinds
<1>8. QED
  BY <1>5, <1>7, WithKinds

\* What a step does to the objects: nothing, one more, or a whole template.
LEMMA ObjectsStep ==
  ASSUME AppInv, Kinds(objects), [Next]_vars
  PROVE  /\ Kinds(objects')
         /\ "deployment" \in DOMAIN objects =>
              /\ "deployment" \in DOMAIN objects'
              /\ objects'["deployment"] = objects["deployment"]
<1>1. ASSUME NEW new, Kinds(new), Build(new)
      PROVE  /\ Kinds(objects')
             /\ "deployment" \in DOMAIN objects =>
                  /\ "deployment" \in DOMAIN objects'
                  /\ objects'["deployment"] = objects["deployment"]
  <2> DEFINE w == With(objects, new)
  <2>1. objects' = w
    BY <1>1 DEF Build
  <2>2. Kinds(w)
    BY <1>1, WithKinds
  <2>3. /\ DOMAIN w = DOMAIN objects \cup DOMAIN new
        /\ \A k \in DOMAIN objects : w[k] = objects[k]
    BY SMT DEF With
  <2> HIDE DEF w
  <2>4. QED
    BY <2>1, <2>2, <2>3
<1>2. CASE Deployment \/ Service \/ Ingress
  <2>1. \A x : /\ DOMAIN Named("deployment", x) = {"deployment"}
               /\ DOMAIN Named("service", x) = {"service"}
               /\ DOMAIN Named("ingress", x) = {"ingress"}
    BY NamedIs, Zenon
  <2>2. \A x : /\ Kinds(Named("deployment", x)) /\ Kinds(Named("service", x))
               /\ Kinds(Named("ingress", x))
    <3> TAKE x
    <3> DEFINE d == Named("deployment", x)
               s == Named("service", x)
               i == Named("ingress", x)
    <3>1. DOMAIN d = {"deployment"} /\ DOMAIN s = {"service"} /\ DOMAIN i = {"ingress"}
      BY <2>1
    <3> HIDE DEF d, s, i
    <3>2. Kinds(d) /\ Kinds(s) /\ Kinds(i)
      BY <3>1, OtherKinds DEF SecretObjects
    <3>3. QED
      BY <3>2 DEF d, s, i
  <2>3. \/ Build(Named("deployment", getDeploymentProps(values, metadata)))
        \/ Build(Named("service", getServiceProps(metadata)))
        \/ Build(Named("ingress", getIngressProps(values, metadata)))
    BY <1>2 DEF Deployment, Service, Ingress
  <2>4. PICK new : Kinds(new) /\ Build(new)
    BY <2>2, <2>3
  <2>5. QED
    BY <1>1, <2>4
<1>3. CASE Certificate
  <2> DEFINE c == getCertificate
             new == IF "tls" \in values.flags THEN Named("certificate", c) ELSE Nothing
  <2>1. c.secret[2] # "-password" /\ Build(new)
    BY <1>3 DEF Certificate, getCertificate
  <2> HIDE DEF c
  <2>2. Kinds(new)
    BY <2>1, NamedKinds, NothingKinds
  <2>3. QED
    BY <1>1, <2>1, <2>2
<1>4. CASE Server
  BY <1>1, <1>4, ServerObjectsKinds DEF Server
<1>5. CASE SchemaHero
  <2> DEFINE x == Named("database", [id |-> Id, conn |-> getPostgresqlDatabase(values)])
             y == Named("table", getPostgresqlTable(values))
             new == IF "schemahero" \in values.flags THEN With(x, y) ELSE Nothing
  <2>1. Build(new)
    BY <1>5 DEF SchemaHero
  <2>2. DOMAIN x = {"database"} /\ DOMAIN y = {"table"}
    BY NamedIs, Zenon
  <2> HIDE DEF x, y
  <2>3. Kinds(x) /\ Kinds(y)
    BY <2>2, OtherKinds DEF SecretObjects
  <2>4. Kinds(With(x, y))
    BY <2>3, WithKinds
  <2>5. Kinds(new)
    BY <2>4, NothingKinds
  <2>6. QED
    BY <1>1, <2>1, <2>5
<1>6. CASE Render
  <2>1. stage = "base" /\ objects = Nothing /\ DOMAIN objects = {}
    BY <1>6, NothingIs DEF Render, AppInv, StageInv
  <2>2. objects' = template(values') \/ objects' = objects
    BY <1>6 DEF Render
  <2>3. Kinds(template(values'))
    BY TemplateKinds
  <2>4. QED
    BY <2>1, <2>2, <2>3
<1>7. CASE \/ ReadBase \/ ReadOverlay \/ Cluster \/ UNCHANGED vars
           \/ \E o \in DOMAIN objects : Apply(o)
  <2>1. objects' = objects
    BY <1>7 DEF ReadBase, ReadOverlay, Read, Cluster, Apply, SecretSynced,
       HelmInstalled, HelmReady, ClaimReady, CertificateIssued, PodStarts,
       TableCreated, vars, genVars
  <2>2. QED
    BY <2>1
<1>8. QED
  BY <1>2, <1>3, <1>4, <1>5, <1>6, <1>7 DEF Next, Generate

\* A secret that is added takes no key of another away, nor of its own.
Grown ==
  /\ PasswordInv'
  /\ \A n \in DOMAIN secrets : n \in DOMAIN secrets' /\ secrets[n] \subseteq secrets'[n]

LEMMA AddGrows ==
  ASSUME PasswordInv, NEW n, NEW keys, AddSecret(n, keys),
         n = PasswordName => keys = {"password"},
         n = PasswordName \/ n \notin DOMAIN secrets
  PROVE  Grown
<1> DEFINE s == With(Named(n, keys), secrets)
<1>1. /\ DOMAIN s = {n} \cup DOMAIN secrets /\ s[n] = keys
      /\ \A m \in DOMAIN secrets : m # n => s[m] = secrets[m]
  BY SMT DEF With, Named
<1>2. secrets' = s
  BY DEF AddSecret
<1> HIDE DEF s
<1>3. \A m \in DOMAIN secrets : m = n => secrets[m] = keys
  BY DEF PasswordInv
<1>4. PasswordInv'
  BY <1>1, <1>2 DEF PasswordInv
<1>5. QED
  BY <1>1, <1>2, <1>3, <1>4 DEF Grown

LEMMA SecretsStep ==
  ASSUME AppInv, Kinds(objects), PasswordInv, [Next]_vars
  PROVE  Grown
<1>1. applied \subseteq DOMAIN objects
  BY DEF AppInv, TypeOK
<1>2. ASSUME NEW o \in DOMAIN objects, Apply(o) PROVE Grown
  <2>1. CASE o = "secret"
    <3>1. AddSecret(objects[o].name, objects[o].keys)
      BY <1>2, <2>1 DEF Apply
    <3>2. objects[o].name = PasswordName /\ objects[o].keys = {"password"}
      BY <1>2, <2>1 DEF Kinds
    <3>3. QED
      BY <3>1, <3>2, AddGrows
  <2>2. CASE o # "secret"
    BY <1>2, <2>2 DEF Apply, Grown, PasswordInv
  <2>3. QED
    BY <2>1, <2>2
<1>3. CASE SecretSynced
  <2>1. /\ AddSecret(objects["external-secret"].name, {"password"})
        /\ objects["external-secret"].name \notin DOMAIN secrets
    BY <1>3 DEF SecretSynced
  <2>2. QED
    BY <2>1, AddGrows
<1>4. CASE HelmInstalled
  <2> DEFINE n == objects["postgresql"].release
  <2>1. AddSecret(n, {Anchor}) /\ n \notin DOMAIN secrets /\ "postgresql" \in DOMAIN objects
    BY <1>1, <1>4 DEF HelmInstalled
  <2>2. n # PasswordName
    <3>1. n[2] # "-password"
      BY <2>1 DEF Kinds
    <3> HIDE DEF n
    <3>2. QED
      BY <3>1 DEF PasswordName
  <2> HIDE DEF n
  <2>3. QED
    BY <2>1, <2>2, AddGrows
<1>5. CASE ClaimReady
  <2> DEFINE own   == <<objects["sqlClaim"].id, "-postgresql">>
             cloud == <<objects["sqlClaim"].id, "">>
             all   == {"endpoint", "port", "username", "password"}
  <2>1. \/ AddSecret(own, {Anchor}) /\ own \notin DOMAIN secrets
        \/ AddSecret(cloud, all) /\ cloud \notin DOMAIN secrets
    BY <1>5 DEF ClaimReady
  <2>2. own # PasswordName /\ cloud # PasswordName
    BY DEF PasswordName
  <2> HIDE DEF own, cloud, all
  <2>3. QED
    BY <2>1, <2>2, AddGrows
<1>6. CASE CertificateIssued
  <2> DEFINE n == objects["certificate"].secret
             k == {"tls.crt", "tls.key"}
  <2>1. AddSecret(n, k) /\ n \notin DOMAIN secrets /\ "certificate" \in DOMAIN objects
    BY <1>1, <1>6 DEF CertificateIssued
  <2>2. n # PasswordName
    <3>1. n[2] # "-password"
      BY <2>1 DEF Kinds
    <3> HIDE DEF n
    <3>2. QED
      BY <3>1 DEF PasswordName
  <2> HIDE DEF n, k
  <2>3. QED
    BY <2>1, <2>2, AddGrows
<1>7. CASE Generate \/ HelmReady \/ PodStarts \/ TableCreated \/ UNCHANGED vars
  <2>1. secrets' = secrets
    BY <1>7 DEF Generate, ReadBase, ReadOverlay, Read, Deployment, Service, Ingress,
       Certificate, Server, SchemaHero, Render, HelmReady, PodStarts, TableCreated,
       vars, clusterVars
  <2>2. QED
    BY <2>1 DEF Grown, PasswordInv
<1>8. QED
  BY <1>2, <1>3, <1>4, <1>5, <1>6, <1>7 DEF Next, Cluster

LEMMA PodStep ==
  ASSUME AppInv, PodInv, [Next]_vars
  PROVE  PodInv'
<1>1. Kinds(objects') /\ Grown
  BY ObjectsStep, SecretsStep DEF PodInv
<1>2. PodCanRestart'
  <2> SUFFICES ASSUME running' PROVE
          /\ "deployment" \in DOMAIN objects'
          /\ \A f \in DOMAIN objects'["deployment"].env :
               LET x == objects'["deployment"].env[f] IN
               \/ x.from = "value"
               \/ x.name \in DOMAIN secrets' /\ x.key \in secrets'[x.name]
    BY DEF PodCanRestart, ResolvesAll, Resolves
  <2>1. "deployment" \in DOMAIN objects /\ ResolvesAll(objects["deployment"].env)
    <3>1. CASE running
      BY <3>1 DEF PodInv, PodCanRestart
    <3>2. CASE ~running
      <4>1. PodStarts
        BY <3>2 DEF Next, Generate, ReadBase, ReadOverlay, Read, Deployment, Service,
           Ingress, Certificate, Server, SchemaHero, Render, Cluster, SecretSynced,
           HelmInstalled, HelmReady, ClaimReady, CertificateIssued, TableCreated,
           Apply, vars, clusterVars
      <4>2. QED
        BY <4>1 DEF PodStarts, AppInv, TypeOK
    <3>3. QED
      BY <3>1, <3>2
  <2>2. "deployment" \in DOMAIN objects' /\ objects'["deployment"] = objects["deployment"]
    BY <2>1, ObjectsStep DEF PodInv
  <2> DEFINE env == objects["deployment"].env
  <2>3. ASSUME NEW f \in DOMAIN env
        PROVE  \/ env[f].from = "value"
               \/ env[f].name \in DOMAIN secrets' /\ env[f].key \in secrets'[env[f].name]
    <3>1. Resolves(env[f])
      BY <2>1, <2>3 DEF ResolvesAll
    <3> DEFINE x == env[f]
    <3>2. x.from = "value" \/ (x.name \in DOMAIN secrets /\ x.key \in secrets[x.name])
      BY <3>1 DEF Resolves
    <3> HIDE DEF x
    <3>3. x.from = "value" \/ (x.name \in DOMAIN secrets' /\ x.key \in secrets'[x.name])
      BY <1>1, <3>2 DEF Grown
    <3>4. QED
      BY <3>3 DEF x
  <2>4. QED
    BY <2>2, <2>3
<1>3. QED
  BY <1>1, <1>2 DEF PodInv, Grown, Kinds

\* No order of the cluster's steps takes away or narrows a secret that the
\* environment of a started pod refers to: the kubelet can start it again.
THEOREM PodCanRestartCorrect == Spec => []PodCanRestart
<1>1. Init => PodInv
  BY NothingKinds, NothingIs DEF Init, PodInv, PasswordInv, PodCanRestart
<1>2. AppInv /\ PodInv /\ [Next]_vars => PodInv'
  BY PodStep
<1>3. PodInv => PodCanRestart
  BY DEF PodInv
<1>4. QED
  BY <1>1, <1>2, <1>3, ManifestsInvariant, PTL DEF Spec
-----------------------------------------------------------------------------
(* SchemaHero makes no table where the pod does not look.                   *)

\* A server of the chart is made where helm is set, a claim where another flag
\* is.
ServerFor(f, v) ==
  /\ "postgresql" \in DOMAIN f => "helm" \in v.flags
  /\ "sqlClaim" \in DOMAIN f => "helm" \notin v.flags /\ Asked(v) # {}

\* Where the servers of a claim are found.
ClaimHosts == {Value(<<DbId, "-postgresql">>), Ref(<<DbId, "">>, "endpoint")}

HostInv == \A s \in servers : \/ "postgresql" \in DOMAIN objects
                              \/ "sqlClaim" \in DOMAIN objects /\ s[1] \in ClaimHosts

ServerInv == /\ Kinds(objects)
             /\ ServerFor(objects, values)
             /\ HostInv
             /\ tables \subseteq servers

LEMMA WithServerFor ==
  ASSUME NEW v, NEW f, NEW g, ServerFor(f, v), ServerFor(g, v)
  PROVE  ServerFor(With(f, g), v)
<1> DEFINE w == With(f, g)
<1>1. DOMAIN w = DOMAIN f \cup DOMAIN g
  BY WithIs
<1> HIDE DEF w
<1>2. ServerFor(w, v)
  BY <1>1 DEF ServerFor
<1>3. QED
  BY <1>2 DEF w

LEMMA OtherServerFor ==
  ASSUME NEW v, NEW f, DOMAIN f \cap {"postgresql", "sqlClaim"} = {}
  PROVE  ServerFor(f, v)
BY DEF ServerFor

LEMMA ServersServerFor ==
  ASSUME NEW v \in Props
  PROVE  ServerFor(ServerObjects(v), v) /\ ServerFor(templateServer(v), v)
<1>1. \A x : /\ DOMAIN Named("postgresql", x) = {"postgresql"}
             /\ DOMAIN Named("sqlClaim", x) = {"sqlClaim"}
  BY NamedIs, Zenon
<1>2. CASE "helm" \in v.flags
  <2>1. \A x : ServerFor(Named("postgresql", x), v)
    <3> TAKE x
    <3> DEFINE n == Named("postgresql", x)
    <3>1. DOMAIN n = {"postgresql"}
      BY <1>1
    <3> HIDE DEF n
    <3>2. ServerFor(n, v)
      BY <1>2, <3>1 DEF ServerFor
    <3>3. QED
      BY <3>2 DEF n
  <2>2. /\ \E x : ServerObjects(v) = Named("postgresql", x)
        /\ \E x : templateServer(v) = Named("postgresql", x)
    BY <1>2 DEF ServerObjects, templateServer
  <2>3. QED
    BY <2>1, <2>2, Zenon
<1>3. CASE "helm" \notin v.flags /\ Asked(v) = {}
  <2>1. ServerObjects(v) = Nothing /\ templateServer(v) = Nothing
    BY <1>3 DEF ServerObjects, templateServer, Asked
  <2>2. ServerFor(Nothing, v)
    BY NothingIs, OtherServerFor
  <2>3. QED
    BY <2>1, <2>2
<1>4. CASE "helm" \notin v.flags /\ Asked(v) # {}
  <2>1. \A x : ServerFor(Named("sqlClaim", x), v)
    <3> TAKE x
    <3> DEFINE n == Named("sqlClaim", x)
    <3>1. DOMAIN n = {"sqlClaim"}
      BY <1>1
    <3> HIDE DEF n
    <3>2. ServerFor(n, v)
      BY <1>4, <3>1 DEF ServerFor
    <3>3. QED
      BY <3>2 DEF n
  <2>2. ServerFor(Nothing, v)
    BY NothingIs, OtherServerFor
  <2>3. "local" \notin v.flags => ServerFor(Password(v), v)
    BY <1>4, PasswordStore, OtherServerFor DEF Asked
  <2> DEFINE c == getPostgresqlCrossplane(v)
             d == [getPostgresqlCrossplane(v) EXCEPT !.databases = {DbId}]
             a == Named("sqlClaim", c)
             b == Named("sqlClaim", d)
             g == IF "local" \in v.flags THEN Nothing ELSE Password(v)
  <2>4. /\ ServerObjects(v) = IF "local" \in v.flags THEN a ELSE With(a, Password(v))
        /\ templateServer(v) = With(b, g)
    BY <1>4 DEF ServerObjects, templateServer, Asked, Claim
  <2>5. ServerFor(a, v) /\ ServerFor(b, v) /\ ServerFor(g, v)
    BY <2>1, <2>2, <2>3
  <2> HIDE DEF a, b
  <2>6. "local" \notin v.flags => ServerFor(With(a, Password(v)), v)
    BY <2>3, <2>5, WithServerFor
  <2>7. ServerFor(With(b, g), v)
    BY <2>5, WithServerFor
  <2>8. QED
    BY <2>4, <2>5, <2>6, <2>7
<1>5. QED
  BY <1>2, <1>3, <1>4

LEMMA TemplateServerFor ==
  ASSUME NEW v \in Props
  PROVE  ServerFor(template(v), v)
<1> DEFINE a == templateApp(v)
           c == templateCertificate(v)
           p == templateServer(v)
           h == IF "schemahero" \in v.flags THEN templateSchemaHero(v) ELSE Nothing
<1>1. DOMAIN a = {"deployment", "service", "ingress"}
  <2> DEFINE d == templateDeployment(v)
             s == templateService(v)
             i == templateIngress(v)
  <2>1. a = With(Named("deployment", d), With(Named("service", s), Named("ingress", i)))
    BY DEF templateApp
  <2> HIDE DEF d, s, i
  <2>2. QED
    BY <2>1 DEF With, Named
<1>2. DOMAIN h \subseteq {"database", "table"} /\ DOMAIN c \subseteq {"certificate"}
  BY NothingIs DEF templateSchemaHero, templateCertificate, With, Named
<1>3. ServerFor(p, v)
  BY ServersServerFor
<1>4. template(v) = With(With(a, c), With(p, h))
  BY DEF template
<1> HIDE DEF a, c, p, h
<1>5. ServerFor(a, v) /\ ServerFor(c, v) /\ ServerFor(h, v)
  BY <1>1, <1>2, OtherServerFor
<1>6. ServerFor(With(a, c), v) /\ ServerFor(With(p, h), v)
  BY <1>3, <1>5, WithServerFor
<1>7. QED
  BY <1>4, <1>6, WithServerFor

\* A step builds objects from values it does not change, or changes the values
\* before there are any.
LEMMA ServerForStep ==
  ASSUME AppInv, ServerFor(objects, values), [Next]_vars
  PROVE  /\ ServerFor(objects', values')
         /\ DOMAIN objects \subseteq DOMAIN objects'
<1>1. values \in Props /\ values' \in Props
  <2>1. AppInv'
    BY AppStep
  <2>2. QED
    BY <2>1 DEF AppInv, TypeOK, Props
<1>2. ASSUME NEW new, ServerFor(new, values), Build(new), values' = values
      PROVE  /\ ServerFor(objects', values')
             /\ DOMAIN objects \subseteq DOMAIN objects'
  <2> DEFINE w == With(objects, new)
  <2>1. objects' = w
    BY <1>2 DEF Build
  <2>2. ServerFor(w, values)
    BY <1>2, WithServerFor
  <2>3. DOMAIN w = DOMAIN objects \cup DOMAIN new
    BY WithIs
  <2> HIDE DEF w
  <2>4. QED
    BY <1>2, <2>1, <2>2, <2>3
<1>3. CASE Deployment \/ Service \/ Ingress \/ Certificate \/ SchemaHero
  <2>1. PICK new : /\ Build(new)
                   /\ DOMAIN new \subseteq {"deployment", "service", "ingress",
                                            "certificate", "database", "table"}
    <3>1. \A x : /\ DOMAIN Named("deployment", x) = {"deployment"}
                 /\ DOMAIN Named("service", x) = {"service"}
                 /\ DOMAIN Named("ingress", x) = {"ingress"}
                 /\ DOMAIN Named("certificate", x) = {"certificate"}
                 /\ DOMAIN Named("database", x) = {"database"}
                 /\ DOMAIN Named("table", x) = {"table"}
      BY NamedIs, Zenon
    <3>2. \A x, y : DOMAIN With(Named("database", x), Named("table", y))
                      = {"database", "table"}
      BY SMT DEF With, Named
    <3>3. \/ \E x : Build(Named("deployment", x))
          \/ \E x : Build(Named("service", x))
          \/ \E x : Build(Named("ingress", x))
          \/ \E x : Build(Named("certificate", x))
          \/ \E x, y : Build(With(Named("database", x), Named("table", y)))
          \/ Build(Nothing)
      BY <1>3 DEF Deployment, Service, Ingress, Certificate, SchemaHero
    <3>4. QED
      BY <3>1, <3>2, <3>3, NothingIs
  <2>2. ServerFor(new, values)
    BY <2>1, OtherServerFor
  <2>3. values' = values
    BY <1>3 DEF Deployment, Service, Ingress, Certificate, SchemaHero
  <2>4. QED
    BY <1>2, <2>1, <2>2, <2>3
<1>4. CASE Server
  <2>1. Build(ServerObjects(values)) /\ values' = values
    BY <1>4 DEF Server
  <2>2. ServerFor(ServerObjects(values), values)
    BY <1>1, ServersServerFor
  <2>3. QED
    BY <1>2, <2>1, <2>2
<1>5. CASE ReadBase \/ ReadOverlay \/ Render
  <2>1. objects = Nothing /\ DOMAIN objects = {}
    BY <1>5, NothingIs DEF ReadBase, ReadOverlay, Read, Render, AppInv, StageInv
  <2>2. objects' = template(values') \/ objects' = objects
    BY <1>5 DEF ReadBase, ReadOverlay, Read, Render
  <2>3. ServerFor(template(values'), values')
    BY <1>1, TemplateServerFor
  <2>4. QED
    BY <2>1, <2>2, <2>3, OtherServerFor
<1>6. CASE Cluster \/ UNCHANGED vars \/ \E o \in DOMAIN objects : Apply(o)
  BY <1>6 DEF Cluster, Apply, SecretSynced, HelmInstalled, HelmReady, ClaimReady,
     CertificateIssued, PodStarts, TableCreated, vars, genVars
<1>7. QED
  BY <1>3, <1>4, <1>5, <1>6 DEF Next, Generate

\* A server is the chart's or the claim's, and a table is made in one.
LEMMA ServerStep ==
  ASSUME AppInv, ServerInv, [Next]_vars
  PROVE  ServerInv'
<1>1. Kinds(objects')
  BY ObjectsStep DEF ServerInv
<1>2. /\ ServerFor(objects', values')
      /\ DOMAIN objects \subseteq DOMAIN objects'
  BY ServerForStep DEF ServerInv
<1>3. applied \subseteq DOMAIN objects
  BY DEF AppInv, TypeOK
<1>4. /\ servers \subseteq servers'
      /\ \A s \in servers' \ servers :
           \/ "postgresql" \in DOMAIN objects
           \/ "sqlClaim" \in DOMAIN objects /\ s[1] \in ClaimHosts
  <2>1. CASE HelmReady
    BY <1>3, <2>1 DEF HelmReady
  <2>2. CASE ClaimReady
    <3> DEFINE c   == objects["sqlClaim"]
               own == Value(<<c.id, "-postgresql">>)
               far == Ref(<<c.id, "">>, "endpoint")
    <3>1. "sqlClaim" \in DOMAIN objects
      BY <1>3, <2>2 DEF ClaimReady
    <3>2. c.id = DbId
      BY <3>1 DEF ServerInv, Kinds
    <3>3. \/ servers' = servers \cup {<<own, d>> : d \in c.databases}
          \/ servers' = servers \cup {<<far, d>> : d \in c.databases}
      BY <2>2 DEF ClaimReady
    <3>4. own \in ClaimHosts /\ far \in ClaimHosts
      BY <3>2 DEF ClaimHosts
    <3> HIDE DEF c, own, far
    <3>5. QED
      BY <3>1, <3>3, <3>4
  <2>3. CASE ~HelmReady /\ ~ClaimReady
    <3>1. servers' = servers
      BY <2>3 DEF Next, Generate, ReadBase, ReadOverlay, Read, Deployment, Service,
         Ingress, Certificate, Server, SchemaHero, Render, Cluster, SecretSynced,
         HelmInstalled, CertificateIssued, PodStarts, TableCreated, Apply, vars,
         clusterVars
    <3>2. QED
      BY <3>1
  <2>4. QED
    BY <2>1, <2>2, <2>3
<1>5. HostInv'
  BY <1>2, <1>4 DEF ServerInv, HostInv, ClaimHosts
<1>6. tables' \subseteq servers'
  <2>1. CASE TableCreated
    <3>1. tables' \subseteq servers \cup tables
      BY <2>1 DEF TableCreated
    <3>2. QED
      BY <1>4, <3>1 DEF ServerInv
  <2>2. CASE ~TableCreated
    <3>1. tables' = tables
      BY <2>2 DEF Next, Generate, ReadBase, ReadOverlay, Read, Deployment, Service,
         Ingress, Certificate, Server, SchemaHero, Render, Cluster, SecretSynced,
         HelmInstalled, HelmReady, ClaimReady, CertificateIssued, PodStarts, Apply,
         vars, clusterVars
    <3>2. QED
      BY <1>4, <3>1 DEF ServerInv
  <2>3. QED
    BY <2>1, <2>2
<1>7. QED
  BY <1>1, <1>2, <1>5, <1>6 DEF ServerInv

\* Where the two connections are not the same but for the user, SchemaHero is
\* told a host that no claim has.
LEMMA OtherHost ==
  ASSUME NEW v \in Props, tool \in Tools, "helm" \notin v.flags, Asked(v) # {},
         Connection(v).endpoint \in ClaimHosts
  PROVE  LET app == IF tool = "cdk8s" THEN setDbEnv(v) ELSE templateEnv(v)
         IN app.endpoint = Connection(v).endpoint /\ app.name = Connection(v).name
<1>0. tool \in {"cdk8s", "helm", "ytt"}
  BY ToolsAssumption
<1> DEFINE app == IF tool = "cdk8s" THEN setDbEnv(v) ELSE templateEnv(v)
           sh  == Connection(v)
<1> SUFFICES app.endpoint = sh.endpoint /\ app.name = sh.name
  OBVIOUS
<1> HIDE DEF app, sh
<1>1. CASE Agreeing(v)
  BY <1>1, EnvAgrees DEF app, sh
<1>2. CASE "local" \in v.flags /\ ~Agreeing(v)
  <2>1. tool = "helm" /\ v.name # DbId
    BY <1>0, <1>2 DEF Agreeing, Asked, DbFlags
  <2>2. sh.endpoint = Value(<<v.name, "-postgresql">>)
    BY <1>2, <2>1 DEF sh, Connection, chartConnection, OwnServer, helmServer, DbFlags
  <2>3. Value(<<v.name, "-postgresql">>) # Value(<<DbId, "-postgresql">>)
    <3>1. Value(<<v.name, "-postgresql">>).name[1] = v.name
          /\ Value(<<DbId, "-postgresql">>).name[1] = DbId
      BY DEF Value
    <3>2. QED
      BY <2>1, <3>1
  <2>4. Value(<<v.name, "-postgresql">>) # Ref(<<DbId, "">>, "endpoint")
    BY ValueNotRef, Zenon
  <2>5. QED
    BY <2>2, <2>3, <2>4 DEF ClaimHosts, sh
<1>3. CASE "local" \notin v.flags /\ ~Agreeing(v) /\ tool = "cdk8s"
  <2>1. "aws" \in v.flags
    BY <1>3 DEF Agreeing, Asked, DbFlags
  <2>2. sh.endpoint = Ref(<<DbId, "-password">>, "endpoint")
    BY <1>3, <2>1 DEF sh, Connection, getPostgresqlDatabase, CloudServer
  <2>3. Ref(<<DbId, "-password">>, "endpoint") # Ref(<<DbId, "">>, "endpoint")
    <3>1. <<DbId, "-password">> # <<DbId, "">>
      OBVIOUS
    <3>2. QED
      BY <3>1, RefApart
  <2>4. Value(<<DbId, "-postgresql">>) # Ref(<<DbId, "-password">>, "endpoint")
    BY ValueNotRef, Zenon
  <2>5. QED
    BY <2>2, <2>3, <2>4 DEF ClaimHosts, sh
<1>4. CASE "local" \notin v.flags /\ tool # "cdk8s"
  <2>1. app = CloudServer(DbId)
    BY <1>4 DEF app, templateEnv, Asked
  <2>2. /\ sh.endpoint = CloudServer(DbId).endpoint
        /\ sh.name = CloudServer(DbId).name
    BY <1>0, <1>4 DEF sh, Connection, chartConnection, yttConnection, cloudConnection,
       CloudServer, Asked
  <2>3. QED
    BY <2>1, <2>2
<1>5. QED
  BY <1>1, <1>2, <1>3, <1>4

\* SchemaHero makes no table but in the database the pod reads, in every order
\* in which the objects are applied and the servers get ready, and for every
\* set of values in which helm and local are not set together.
THEOREM TableWherePodLooksCorrect == Spec => []TableWherePodLooks
<1>1. Init => ServerInv
  <2>1. Init => Kinds(objects) /\ ServerFor(objects, values)
    BY NothingKinds, NothingIs, OtherServerFor DEF Init
  <2>2. QED
    BY <2>1 DEF Init, ServerInv, HostInv
<1>2. AppInv /\ ServerInv /\ [Next]_vars => ServerInv'
  BY ServerStep
<1>3. AppInv /\ ServerInv => TableWherePodLooks
  <2> SUFFICES ASSUME AppInv, ServerInv, "deployment" \in DOMAIN objects,
                      ~({"helm", "local"} \subseteq values.flags), NEW t \in tables
               PROVE  t = <<objects["deployment"].env.endpoint,
                            objects["deployment"].env.name.name[1]>>
    BY DEF TableWherePodLooks
  <2> DEFINE app == IF tool = "cdk8s" THEN setDbEnv(values) ELSE templateEnv(values)
             sh  == Connection(values)
  <2>1. objects["deployment"].env = app
    BY DEF AppInv, BuiltInv, Right, getDeploymentProps, templateDeployment
  <2>2. t = <<sh.endpoint, sh.name.name[1]>>
    BY DEF AppInv, TablesInv, BuiltInv, Right
  <2>3. values \in Props /\ tool \in Tools /\ t \in servers
    BY DEF AppInv, TypeOK, Props, ServerInv
  <2>4. app.endpoint = sh.endpoint /\ app.name = sh.name
    <3>1. CASE "postgresql" \in DOMAIN objects
      <4>1. "helm" \in values.flags /\ "local" \notin values.flags
        BY <3>1 DEF ServerInv, ServerFor
      <4>2. Agreeing(values)
        BY <4>1 DEF Agreeing, Asked, DbFlags
      <4>3. \A f \in {"endpoint", "user", "pass", "name"} : app[f] = sh[f]
        BY <2>3, <4>2, EnvAgrees
      <4> HIDE DEF app, sh
      <4>4. QED
        BY <4>3
    <3>2. CASE "postgresql" \notin DOMAIN objects
      <4>1. "sqlClaim" \in DOMAIN objects /\ t[1] \in ClaimHosts
        BY <2>3, <3>2 DEF ServerInv, HostInv
      <4>2. "helm" \notin values.flags /\ Asked(values) # {}
        BY <4>1 DEF ServerInv, ServerFor
      <4> HIDE DEF sh
      <4>3. sh.endpoint \in ClaimHosts
        BY <2>2, <4>1
      <4>4. QED
        BY <2>3, <4>2, <4>3, OtherHost DEF sh
    <3>3. QED
      BY <3>1, <3>2
  <2> HIDE DEF app, sh
  <2>5. QED
    BY <2>1, <2>2, <2>4
<1>4. QED
  BY <1>1, <1>2, <1>3, ManifestsInvariant, PTL DEF Spec
=============================================================================
