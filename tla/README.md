# Specifications of the CNCF demo application and its end-to-end tests

This directory holds TLA+ specifications of the programs in this repository:
the Go service, the end-to-end suites with the Crossplane compositions they
exercise, the programs and templates that generate the service's manifests, and
the workflow that releases it into an environment, up to the teardown of that
environment. TLC checks every specification on small instances; TLAPS proves
every invariant and action property those checks pass, and that the video
endpoints implement an abstract store, for every size of the instance.

To repeat a check: `tlc -config MCVideoService.cfg MCVideoService`; to repeat a
proof: `tlapm VideoServiceProofs.tla`. `PROJECT.json` lists the runs, the lines
each definition models, the hazards and the theorems.

## 1. Inventory

Most of the repository is documentation, third-party configuration and
generated code: of 68,000 lines of implementation, 66,900 are the Go types that
`cdk8s import` wrote into `cdk8s/imports`. The Go code written by hand has about
1,000 lines, nearly all of which are modelled; the rest of what is modelled is
YAML, templates and scripts. The repository's own logic is in these parts.

| Part | State it keeps | Operations | Talks to |
|---|---|---|---|
| **Video endpoints** `video.go`, `openfga.go` | the package variable `dbSession`, one connection pool per call of `getDB` | `GET /videos`, `POST /video`, `fgaCheck`, `getFgaClient`, `getDB` | OpenFGA (Check), Postgres (SELECT, INSERT), the client |
| **Server and other endpoints** `main.go`, `opentelemetry.go`, `root.go`, `ping.go`, `fibonacci.go` | the tracer provider `tp`, its queue of ended spans, the span stack of each request | start, `router.Run`, deferred `Shutdown`, `/`, `/ping`, `/fibonacci` | Jaeger or `traces.json`, another server (`/ping`) |
| **Compositions** `apis/v1alpha1` | composite resources (XRs) and the managed resources (MRs) they own | compose, copy names into the status, auto-ready | the Azure providers |
| **End-to-end suites** `tests/e2e`, `scripts/run-e2e-tests.sh`, `scripts/cleanup-test-resources.sh` | the step each suite is in | apply, assert, verify in Azure, delete, time out, clean up | the cluster, Azure |
| **Manifest generator** `cdk8s/{main,app,db}.go` | `AppProps`, one metadata value shared by several objects | read values, overlay, build each object | the cluster, which acts on what was built |
| **Helm chart, ytt templates** `helm/app`, `ytt` | none | render the same application from values | the cluster |
| **CI workflow** `workflows/` | a clone per run; the registry and the branch all runs share | checkout, tag, test, build, change the claim, push | GitHub, the registry, Argo CD |
| **Teardown** `dot.nu`, `scripts/crossplane.nu`, `scripts/kubernetes.nu` | where the script is | delete the claims, wait, delete cluster, project, repository | Git, Argo CD, Crossplane, cloud CLIs |
| Argo CD's application `argocd/apps-idp.yaml` | the claims in the cluster | make the cluster agree with the branch | the branch, Crossplane |
| Setup commands, `setup/`, Kustomize | none of their own | create demo environments | cloud CLIs |
| Policies, XRDs, other GitOps files | none | read by third-party controllers | |

What is hard in each of them, and what makes it correct:

- **Video endpoints.** Handlers interleave at each call that leaves the
  process. An INSERT can commit without the handler hearing of it; permissions
  change between the check and the statement; a malformed setting makes one
  request kill all others; each request opens a pool that nothing closes. They
  are correct if an acknowledged row is stored and listed, a refused one never
  appears, nothing is done for a user who was not allowed, each request is
  answered once, and the server's connections come back.
- **Tracing.** Spans are ended by deferred functions on every return and on a
  panic, one of them twice; they wait in a bounded queue that is only flushed
  if `main` returns. Correct means: no span stays open, none is queued twice,
  children leave before parents, failures are visible, and a clean exit loses
  nothing. `/fibonacci` must answer the right number in the arithmetic of `int`:
  an overflow is taken for right.
- **Suites and compositions.** The deletion of an XR goes on in the background
  through MRs and Azure while the next suite starts, with the same resource
  group; step timeouts and the cleanup script cut in anywhere. Correct means:
  nothing stays in Azure without somebody who will delete it, Ready means
  ready, and what a suite looks at was made for its own XR. That the XR itself
  is not one left over from an earlier run is more than the suites achieve.
- **Generator.** Two functions derive the database connection from five flags
  in different orders, and one function changes a value others were built from.
  Correct means: selectors select, and the container and SchemaHero are sent to
  one database that exists, in which the table appears. The chart and the ytt
  templates say the same things again, each with conditions of its own.
- **CI workflow.** Runs race with each other and with developers for one branch,
  and within a second for one tag; a task may be reported failed after it had
  its effect. Correct means: a claim names an image that exists, untested source
  never runs, a run that succeeded is released and never undone.
- **Teardown.** Argo CD, Crossplane and a late workflow act while the script
  removes what they work on; the script polls without a timeout and ignores some
  errors. Correct means: the cluster goes after the database it manages, the
  wait ends, and nothing is left.

`PROJECT.json` lists all of these hazards with the line where each bites and the
properties that cover it, or the reason why none does.

## 2. Modules

    VideoStore                abstract: what the video endpoints promise
      ^ implemented by
    VideoService              video.go, openfga.go
      VideoServiceProofs      invariant and safety theorems
      VideoServiceRefinement  VideoService implements VideoStore
      MCVideoService          instances for TLC
    RequestTracing            main.go, opentelemetry.go, root/ping/fibonacci.go
      RequestTracingProofs    invariant and safety theorems
      MCRequestTracing
    E2ESuites                 tests/e2e, apis/v1alpha1, scripts/*.sh
      E2ESuitesProofs         invariant and safety theorems
      MCE2ESuites
    AppManifests              cdk8s/, helm/app, ytt/
      AppManifestsProofs      invariant and safety theorems
      MCAppManifests
    ReleasePipeline           workflows/argo.yaml, workflows/dot.nu, argocd/apps-idp.yaml
      ReleasePipelineProofs   invariant, safety theorems, action properties
      MCReleasePipeline
      IdpLifecycle            dot.nu destroy idp, scripts/{crossplane,kubernetes}.nu,
                              composed with the pipeline, Argo CD and Crossplane
        IdpLifecycleProofs    extends the proofs of the pipeline
        MCIdpLifecycle

### VideoService

A request is in one of the steps `authorize`, `getDB`, `validate`, `query`
(statement not yet sent), `exec` (sent, waiting) or is `done` or `aborted`
(connection cut). Each return of the handlers is an action or a disjunct:
`FgaOff`, `FgaError`, `FgaAllow`, `FgaDeny`, `FgaPanic`, `FgaFatal` for
`fgaCheck` and the code right after it, `GetDBFails` and `Connect` for `getDB`,
`ValidationFails` and `Validate`, then `Query`, `QueryFails`, `Result` and
`ConnectionLost`. `FgaFatal` is `log.Fatal`: it ends every request.

`dbSession` is a variable of the model and `getDB` tests it, as the code does;
nothing assigns it, because `dbSession := pg.Connect(...)` declares a local
variable. The pools of different requests are therefore different.

Postgres is a table and a set of connections: a statement is `sent`, and is
then applied or rejected by a step of the server, also after its client is gone
(`backend` is then `orphan`). Authorisation tuples change at any time
(`ChangeTuple`). `held` and `before` are history variables: whether the user was
allowed at some moment since the request arrived, and which inserts had been
acknowledged when it arrived. Titles only matter as empty or not.

### VideoStore

A table and calls that insert or list, each at most once and atomically. A
reply `ok` means it happened, `refused` that it never will, `failed` or `lost`
promises nothing. `VideoService` maps a status of 200 to `ok`, 400 and 401 to
`refused`, 500 to `failed`, a cut connection to `lost`.

### RequestTracing

A request is a stack of calls: the otelgin middleware, the handler, and the
frames of `calculateFibonacci`. `Call` starts a frame and its span, `Return`
ends it and hands the result up, `Handled` is the rest of a handler, `Panic`
unwinds the stack and runs the deferred `End`s. Ending an ended span does
nothing. Because the handlers pass gin's context to `Start`, their spans are
roots of traces of their own, not children of the server span. The batch
processor drops a span when its queue is full. Numbers are two's-complement
integers of a width given by `Word`. The model covers one life of the process.
The spans of go-pg's query hook are not modelled, and a failed export is not
told from a successful one (the SDK drops the batch in both cases).

### E2ESuites

KUTTL's steps are actions of a suite (`Apply`, `AssertReady`, `Verify`,
`AssertDeleted`, `Timeout`); `Compose`, `CopyNames`, `SetReady`, `FinalizeXR`,
`Collect` are Crossplane and the garbage collector. The names and Ready are
written apart: the functions of the pipeline see the MRs as they were when it
started, and a deletion may come between. `Create`, `Observe`, `Delete`,
`FinalizeMR`, `Vanish` are the providers and Azure; `Script...` the commands of
the cleanup script, any of which may meet any state, and those it shields with
`|| true` may fail. A campaign says which suites each run is given: both, as
`run-e2e-tests.sh` does, or one, as the guide shows (`dev.md:1859`); a suite that
is not chosen is `skipped`. Both resource groups, of
different kinds and namespaces, manage the Azure group `crossplane-e2e-test-rg`.
The files are read as they are meant where KUTTL's own handling of them is a
matter of its version: `TestAssert` in `01-verify-azure.yaml` runs its commands,
`$patch: delete` deletes. A provider may delete a group that is not empty, but
only owes the deletion of an empty one. The setup has made the group
beforehand, with the tag `purpose`.

### AppManifests

The stages of `NewCncfDemoChart` and `NewApp` in their order (`StepAfter`): read
`app.yaml`, lay `app-$ENVIRONMENT.yaml` over it (a missing file changes nothing,
one that does not parse ends the program), then one object after the other from
the shared `metadata`, which `getIngressProps` replaces the labels of under TLS.
jsii copies properties when an object is created. `setDbEnv`,
`getPostgresqlDatabase` and the other functions of `db.go` keep their names and
the order of their conditions. The cluster is then given the objects in any
order. It is external, and does what the generated objects expect of it: the
chart creates its secret and, later, the database its init script names; a local
claim creates a server `<id>-postgresql`, a cloud claim waits for
`<id>-password` and publishes a secret `<id>`; claims create the databases they
list, or, as those of cdk8s list none, the ones their clients name.

`Render` is `helm template` or `ytt`: it reads the values and builds all objects in
one step, from `templateEnv`, `chartConnection`, `yttConnection` and the other
operators named for the template files. The server of the flag `helm` is part of
the chart; for ytt it is installed beforehand under the name `postgresql`, with
another init script. The claim and its password follow the same flags in all
three, so their operators are shared. With two database flags the templates
write a YAML key twice, so they are given one at most.

What comes of the values is said exactly: `Agreeing` are those for which the
container and SchemaHero are told the same connection, `ServerFound` those whose
pod starts, `TableMade` those whose table appears, `Contended` those with two
claims to one secret. A second instance has the values that the manuscript walks
its reader through; most of them are not among those (section 5).

### ReleasePipeline

The DAG is the record `Needs`; a task of run `i` is an action that is enabled when
what it needs is done. `GitCheckout` copies the branch into the run's clone,
`DateTag` reads the clock, `BuildImage` writes the registry under the tag,
`UpdateClaim` writes the tag into the clone's claim and fails if the claim is
gone, `GitPush` replaces the branch unless it has moved since the clone.
`BuildImage` and `GitPush` may be reported failed although they had their effect
(`Reported`); any task may fail without one (`TaskFails`); none is retried. The source is the number of commits that
changed it, `Broken` the states whose unit tests fail. `Sync` is Argo CD with
`prune`, `selfHeal` and `allowEmpty`, `Rollout` the Deployment that replaces its
pods once the image can be pulled. `RemoveApps` and `LoseCluster` are the two
ways a teardown touches the pipeline; alone they may happen at any time, and
`IdpLifecycle` says when they do.

### IdpLifecycle

`IdpLifecycle` extends `ReleasePipeline` by Crossplane (`Compose`, `Provision`,
`Remove`) and by the script. Each command of `main destroy idp` is an action or a
disjunct, in the script's order (`At`): `DeleteRepoClaim`, `GitPull`,
`EnterClone`, `PullAgain`, `PushDestroy`, `DeleteApplications`, `WaitEnds`, and the
deletions that differ by cloud (`Deletions`). The second pull merges what was
pushed meanwhile into the commit, or meets a conflict if the tag of the removed
claim was changed. `GitFails` skips the rest of the block `do --ignore-errors`;
`CommandFails` ends the script, as an error outside such a block does (that of
`cd cncf-demo-app`, too), and remembers in `fault` whether the command could have
worked. Deleting the Google
project deletes what is in it. The clouds are the three `main get hyperscaler`
offers. `seen` remembers whether the database was managed when the script started.

## 3. Runs

| Run | Properties | Instance | Shows |
|---|---|---|---|
| `video_env` | TypeOK, IInv, RefusedNeverStored, StatementWasAllowed, AnsweredOnce, AckedIsStored, ReadsSeeAcked, ConnectionsAccounted, EveryRequestEnds, ExhaustionEnds, StoreRefined | 2 requests for one id, 5 kinds of environment, 1 connection, 1 restart, fair | the checks in front of the database under every kind of configuration; races for the id and the connection, with crashes; requests end, connections come back, the abstract store is implemented |
| `video_session` | SessionReused | 2 requests | **violated**: `dbSession` is never assigned |
| `tracing` | TypeOK, NoSpanLeftOpen, ChildrenLeaveFirst, QueueAccounted, ServerErrorTraced, CleanExitSendsSpans, FibonacciCorrect, EveryRequestReturns, ShutdownEnds | 2 requests, numbers -1 to 3, 2-bit int, queue of 2, fair | span life cycle over all routes, panics, kills and shutdown; the recursion with overflow and dropped spans; requests return, the process ends |
| `e2e_suites` | TypeOK, NoOrphans, NamesBeforeReady, OwnResources, EventuallyClean | both suites once; each suite twice, with the cleanup script and a cluster lost once; fair | nothing in Azure is without an MR that will delete it, and Azure ends up clean whatever passed or failed; an XR of this run has MRs of this run, and its names are there |
| `e2e_fresh` | FreshResources | each suite twice | **violated**: step 00 of the second run passes on the deleted XR of the first |
| `e2e_isolation` | IsolatedSuites | both suites | **violated**: one suite deletes the group of the other |
| `e2e_cleanup` | CleanupComplete | both suites, cluster lost | **violated**: an object the lost cluster had left before the script listed resources is there when it reports success |
| `manifests` | TypeOK, ServiceSelectsPods, SameDatabase, TableWherePodLooks, AppServes | five first files (three names, missing, broken) and over them all 256 sets of flags (chart and ytt: at most one database), a missing and a broken file and one that takes a flag back; fair | exactly which values agree, start the pod and make its table; no table is made elsewhere |
| `manifests_documented` | VideosAnswered | the committed values and each documented destination, each tool | **violated**: with cdk8s and `aws` SchemaHero waits for a key no secret has; with the chart and ytt the Table names a Database that is called otherwise |
| `release` | ReleaseTypeOK, ClaimIsPullable, BrokenNeverLive, SuccessIsReleased, NeverRollsBack, RemovedStaysRemoved, ReleaseArrives | 2 runs, 2 seconds, 3 states of the source, the second broken, fair | what is deployed was tested, never gets older, and a run that succeeded reaches production |
| `destroy` | TypeOK, NoOrphanedDatabase, DestroyEnds | 3 clouds, 2 APIs, 1 run of the workflow, fair | the cluster goes after the database it manages, and the wait ends once the claims are out of the branch |
| `destroy_google` | DestroyComplete | Google | **violated**: the project is deleted before the cluster in it, the next command fails, the repository stays |

Each property of a passing run has a mutant in `PROJECT.json`: a plausible bug in
one definition, under which the same run finds the property violated. The
definitions of these bugs stand just before the ones they vary and are used by
nothing else.

**Bounds.** Two requests suffice for a race between any two steps; for three and
more the safety properties of the video endpoints are proved. One connection is
the smallest server that can be exhausted. Each request is sent once: a retry by
a client is another request. One restart lets a request before it meet one
after it. Two bits make the smallest `int` in which a Fibonacci number overflows
after some that do not (the parameter is not wrapped: it only gets smaller); a
queue of two spans is full at once.
`MaxRuns`, `Campaigns`, the single cleanup and the single lost cluster bound how
often people do things: a campaign of both suites has one of each of the two MRs
that share the group, one of the same suite twice meets leftovers under its own
names. The generator's flags are complete; the names are `cncf-demo`, another
one, and `db.id`, which the templates' Table needs. Two runs of the workflow get one tag or two within
two seconds; three states of the source put a broken one between two good ones.
One run of the workflow is enough to race with the push of the teardown.

**Deadlock.** `RequestTracing` stops when its process has ended, and `E2ESuites`,
`AppManifests`, `ReleasePipeline` and `IdpLifecycle` when everything is done; their configurations say so with
`CHECK_DEADLOCK FALSE`. `VideoService` never stops: tuples keep changing.

**Fairness.** Weak everywhere, and only on what runs by itself: the Go scheduler
runs every handler and the exporter; Postgres finishes each statement; a pool
reaps its idle connections; kubelet restarts containers; KUTTL's timeouts fire;
controllers keep reconciling; Argo CD polls its branch; the shell goes on with the
next command. Nobody has to send a request, change a tuple, kill the process,
start a suite, a workflow or a script, and no task of a workflow has to succeed.
The server that `/ping` asks may never answer, since `resty.New()` sets no timeout:
`EveryRequestReturns` says that the others return (`Waits` is the exception).

**What the release and teardown properties leave out.** With one tag for two
images (`Collided`) a slower build replaces the image of another run, so that
`SuccessIsReleased` and `NeverRollsBack` fail; `BrokenNeverLive` and `ClaimIsPullable`
hold even then. `ReleaseArrives` ends with the environment. `NoOrphanedDatabase` is
about the Crossplane API and a database that was managed when the script started:
with KubeVela the script deletes the applications by hand while Argo CD heals the
cluster, and a database nobody had managed yet may appear behind the last poll.
`DestroyEnds` needs both claims gone: if the push of the commit "Destroy" fails,
which the script ignores, the wait never ends, since Argo CD keeps the database.
Without these conditions TLC refutes the properties.

## 4. Proofs

Every invariant and every action property of a passing run is a theorem, for
every value of the constants the assumptions admit; `PROJECT.json` pairs them.
Each component has an inductive invariant made of named parts, one lemma per
action (or group of actions of one shape) and part that the action can disturb,
and theorems that follow from the invariant. TLC checked each inductive
invariant on the instances of section 3 before it was proved.

The assumptions on the constants are named ASSUMEs, which TLC evaluates in
every run. They say only what kinds of values the constants are, except for
`TracingAssumption`, which also defines the reference function `Fib` by its
recursion, and `DbIdAssumption`: the values name a database (`db.id` is not empty),
as every file of them in the repository does.

### VideoService

From `ServiceAssumption`, for every set of requests, users, ids and titles, every
set of environments and every number of connections and restarts:
`TypeCorrect`, `AnsweredOnceCorrect`, `AckedIsStoredCorrect`,
`RefusedNeverStoredCorrect`, `StatementWasAllowedCorrect`, `ReadsSeeAckedCorrect`,
`ConnectionsAccountedCorrect`; `SessionPrivate`: a pool serves only the request
that made it; `Refinement`: `Spec => Store!StoreSpec`.

None of the safety properties is inductive by itself. That a 200 means a stored
row, for instance, needs that a handler in `exec` has a statement the server
knows of, that an applied POST is the row under its id, that its id passed the
validation, and that no other statement can overwrite the row. `IInv` states
this as named parts: `HandlerInv` (how far a handler is decides what the server
knows of its statement), `AllowedInv` (a handler past `fgaCheck` was allowed,
and one that waits and would be allowed now is counted), `ArgumentInv` (only
validated ids reach the server), `RowInv` (applied inserts and rows correspond)
and `SessionInv` (`dbSession` stays None, so a pool and its connection have one
request each). The run `video_env` checks `IInv` too. The refinement maps
`stmt = "applied"` to `effect`: the server's step is the abstract `Insert` or
`List`, the handler's return the abstract `Reply`, `log.Fatal` and `Kill` are
`LoseAll`, and all others stutter.

### ReleasePipeline

From `ReleaseAssumption`, for every set of runs, every bound and every set of
broken states of the source: `ReleaseTypeCorrect`, `ClaimIsPullableCorrect`,
`BrokenNeverLiveCorrect`, `SuccessIsReleasedCorrect`, and the action properties
`NeverRollsBackCorrect` and `RemovedStaysRemovedCorrect`.

`PipelineInv` adds: `ProgressInv` (what a run has done says what it has: a tag, a
clone whose tests passed, a claim with its tag), `ClonesInv` (a clone is an
earlier branch, and is the branch if the commits are as many), `ImagesInv` (an
image was built by a run with its tag from source that passed the tests),
`ClaimsInv` (the claims in the branch, in each clone and in the cluster name
images) and `OrderInv` (without a collision of tags: pods, cluster and branch, in
this order, have source that does not get older). The heart of
`SuccessIsReleased` is the push: Git accepts it only if the branch has not moved,
so by `ClonesInv` the run's source is the newest, and by `OrderInv` its image is
what its tag names. `RemovedStaysRemoved` follows from the same fact about
`apps`.

### IdpLifecycle

`IdpLifecycleProofs` extends those proofs: every step of the environment is a step
the pipeline's lemmas are about (`LifecycleIsPipeline`), so `PipelineInv` holds
during a teardown too. `TeardownKeepsPipeline` states this for the pipeline's
five properties. From `LifecycleAssumption` besides: `LifecycleTypeCorrect` and
`NoOrphanedDatabaseCorrect`. The latter needs that a claim, once gone from the
branch and the cluster, cannot come back: `ClaimedInv` (a database that is
managed is claimed, or everything is unclaimed), `UnclaimedInv` (once the
database the script saw is not managed, nothing claims it), `WaitedInv` (it is
not managed after the wait) and `ClusterInv` (only the deletions after the wait
take the cluster, and a database exists only while it is managed).

### E2ESuites

From `SuitesAssumption`, for one suite or both in each of any number of runs, with
and without the cleanup script and a lost cluster: `SuitesTypeCorrect`,
`NoOrphansCorrect`, `NamesBeforeReadyCorrect`, `OwnResourcesCorrect`.

`OwnResources` is the hard one: names repeat from run to run, and the MRs of the
run before may still be there. It says of a suite that looks at an XR of its own
run that it looks at MRs of that run, also while the XR is being deleted by the
script. `XRInv` says that an XR nobody deletes is of this run and its suite uses
it, `MRInv` that the MRs a run finds are of earlier runs and one that is being
deleted is not of the XR that is there, `OwnedInv` that an XR that was seen Ready
keeps all its MRs until it is gone, `NamesInv` that it has its names as long. The
theorem does not say that the XR is of this run: TLC refutes that (`e2e_fresh`).

### RequestTracing

From `TracingAssumption` and `AskAssumption`, for every set of requests, width of
`int`, size of the queue and arguments that are ints: `TracingTypeCorrect`,
`FibonacciCorrectAlways`, `NoSpanLeftOpenCorrect`, `ChildrenLeaveFirstCorrect`,
`QueueAccountedCorrect`, `ServerErrorTracedCorrect`, `CleanExitSendsSpansCorrect`, and
the action property `SpanEndsOnceCorrect`: a span is ended once, sent at most
once, and keeps its parent and the error it ended with.

`TracingInv` describes the stack of a request: `StackInv` (the middleware, the
handler, calls of `calculateFibonacci`), `ResultsInv` (each call computes the next
argument of the one under it, and what has been returned are Fibonacci numbers),
`FramesInv` (the span of each call is open, and hangs under that of its caller),
`OpenInv` (an open span is that of a call that has not returned). `QueueInv` puts
children before parents in the queue, `PhaseInv` says what the end of the process
leaves, `FreshInv` that nothing of a request exists before it arrives, and
`AnswerInv` that a ping, whose server span ends before the middleware does,
never answers 500. `FibonacciCorrect` needs no induction over the argument: the
induction is over the steps of the recursion, each of which hands one right
number to the frame below. The lemmas describe each action by its shape (`CallMade`,
`Returned`, `Leaves`, `Exported`, ...), and each part of the invariant is
proved from the shapes.

### AppManifests

From `ToolsAssumption`, `FilesAssumption` (the two files are files of values) and
`DbIdAssumption`, for every pair of files and each of the three tools:
`ManifestsTypeCorrect`, `ServiceSelectsPodsCorrect`, `SameDatabaseCorrect`,
`TableWherePodLooksCorrect`; and `PodCanRestartCorrect`: no step takes away or
narrows a secret that a started pod refers to.

`AppInv` adds `StageInv` (only the program goes through the stages, and its
metadata is as it was made until the ingress is built), `BuiltInv` (each object is
what the tool makes of the values) and `TablesInv` (a table is one the Database
asked for). Both selectors then are of the metadata before the ingress.
`SameDatabase` is the lemma `EnvAgrees`: `setDbEnv` and `getPostgresqlDatabase`, and
their counterparts in the templates, agree on the values `Agreeing` describes and
on no others; no value is excluded. `TableWherePodLooks` holds where they disagree,
too, because a table needs a server under the host SchemaHero was told.
`ServerInv` says which there are: a chart's server only with the flag `helm`, a
claim's only without it and under two hosts (`ServerFor`, `HostInv`), and no table
outside a server. By `OtherHost` a connection to one of the two hosts is the
container's. `helm` with `local` is excluded: there each of them names a server
that may exist. `PodCanRestart` needs `PodInv`: the names of the other secrets are
apart from the password's (`Kinds`), which two different objects may make, but
with the same key (`PasswordInv`). This theorem and `SpanEndsOnce` state
properties no run lists; TLC found them true on the instances of `manifests` and
`tracing`.

### Only model-checked

- Liveness, which is out of the prover's reach: `EveryRequestEnds`,
  `ExhaustionEnds`, `EveryRequestReturns`, `ShutdownEnds`, `EventuallyClean`,
  `AppServes`, `ReleaseArrives`, `DestroyEnds`.
- The six properties that TLC refutes (section 5).

## 5. Findings

- `getDB` never reuses a session (`video.go:135` hides the variable of
  `video.go:16` that `video.go:96` tests).
- The two suites share a resource group, although the guide asks for isolated
  resources.
- A second run of a suite can pass its step 00 on the XR that the first has
  deleted and Crossplane has not removed: the name is the same, and it is still
  Ready (`00-assert.yaml:8`).
- The cleanup script searches for a tag nothing in the compositions sets, and so
  leaves what a lost cluster has left (`cleanup-test-resources.sh:20`).
- Of the twelve pairs of a tool and a destination that the manuscript leads to
  `curl .../videos`, nine never get the table (`manifests_documented`; TLC refutes
  `VideosAnswered` for each of the nine alone, and not for the other three):
  - in `cdk8s` with `aws`, SchemaHero is sent to the secret `<db.id>-password`, which
    has no endpoint, and the container to `<db.id>` (`db.go:148`);
  - in the chart a local server has two names (`deployment.yaml:43`,
    `schemahero.yaml:16`), and SchemaHero is given the one nobody makes;
  - in the chart and in ytt SchemaHero's Table names a Database by `db.id`
    (`schemahero.yaml:64`) that is called by the application's name, `cncf-demo` in
    all documents.
- On Google `dot.nu destroy idp` deletes the project, then fails to delete the
  cluster that went with it, and never deletes the repository (`dot.nu:63`).

Worth knowing besides: a suite passes as soon as its XR is gone, long before Azure
is clean, or as soon as `kubectl get` fails in step 02 for any reason
(`AssertDeleted`): its verdict says nothing of Azure, where `NoOrphans` and
`EventuallyClean` hold whether it passed or failed. A local database combined with
another flag in `cdk8s` makes the container look for a server that nobody makes
(`ServerFound`). A release of the chart that is called by its `db.id`, which is what
the Table wants, gives the certificate and a cloud's database one secret under TLS
(`Contended`).

## 6. Plan

Done, by importance: the video endpoints with their abstract store, tracing, the
suites, the generator, the pipeline, the teardown, the templates; the proofs of
all their safety properties. Next, proofs:

1. **RequestTracing**: an abstract life cycle of the spans of all requests, stated as
   a specification of its own, which the tracer implements (`SpanEndsOnce` is its
   step).
2. **E2ESuites**: the part of `EventuallyClean` that is a safety property: what is left in
   Azure after the last run has an MR that is being deleted.
3. **ReleasePipeline**: an abstract release log, of which only the newest entry is
   deployed, implemented by the pipeline when no tags collide.

### Not modelled

- Generated bindings: no logic.
- The setup commands and `setup/crossplane-e2e-setup.sh`: cloud CLIs called one
  after the other for one person; the committed setup script stops at its first
  step. Their result is the initial state of `E2ESuites` and `IdpLifecycle`.
- XRDs, policies, Kustomize and the GitOps files other than `apps-idp.yaml`: no
  operations of their own.
- Several XRs of one kind, whose storage accounts may collide
  (`composition.yaml:83`), and the rotation of the database password: the suites use
  one XR of each kind, and what rotates is outside the repository.
- FGA and OpenTelemetry settings of the manifests, progressive delivery, mesh and
  logging objects: nothing reads them back.
