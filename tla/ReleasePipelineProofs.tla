----------------------- MODULE ReleasePipelineProofs -----------------------
(***************************************************************************)
(* Proofs about ReleasePipeline for every set of runs, every bound and     *)
(* every set of broken states of the source.  The lemmas are about a       *)
(* PipelineStep, which includes the step a teardown adds, so that          *)
(* IdpLifecycleProofs can use them.                                        *)
(***************************************************************************)
EXTENDS ReleasePipeline, TLAPS

USE ReleaseAssumption

PipelineStep == [ReleaseNext \/ \E f \in Apps : DeleteClaim(f)]_releaseVars

\* How far a run is says what it has: a tag, a clone whose tests passed, a
\* claim with its tag.
Progressed(r) ==
  /\ "tag" \in r.done => r.tag # FIXME
  /\ "tests" \in r.done => "checkout" \in r.done /\ r.tree.source \notin Broken
  /\ "build" \in r.done => "tag" \in r.done /\ "tests" \in r.done
  /\ "gitops" \in r.done => "build" \in r.done /\ r.tree.tag = r.tag
  /\ "push" \in r.done => "gitops" \in r.done
  /\ r.state = "succeeded" => "push" \in r.done

ProgressInv == \A i \in Runs : Progressed(run[i])

\* A clone is an earlier state of the branch, and what else the branch may
\* change has changed if its number of commits has.
ClonesInv ==
  \A i \in Runs :
    /\ run[i].tree.commits <= branch.commits
    /\ run[i].tree.source <= branch.source
    /\ run[i].tree.commits = branch.commits =>
         /\ run[i].tree.source = branch.source
         /\ run[i].tree.apps = branch.apps

\* An image was built by a run with its tag from source that passed the tests.
ImagesInv ==
  /\ registry[FIXME] = 0
  /\ \A t \in 0..MaxSecond :
       /\ registry[t] \notin Broken /\ registry[t] <= branch.source
       /\ registry[t] # 0 =>
            \E i \in Runs : "build" \in run[i].done /\ run[i].tag = t
  /\ \A i \in Runs : "build" \in run[i].done => registry[run[i].tag] # 0

Pullable(t) == t # FIXME => registry[t] # 0

\* The claims in the branch, in every clone and in the cluster name images.
ClaimsInv ==
  /\ Pullable(branch.tag) /\ Pullable(deployed.tag)
  /\ \A i \in Runs : Pullable(run[i].tree.tag)

\* Without a collision an image stays what its run has built, and a push only
\* puts newer source in the place of older.
OrderInv ==
  ~Collided =>
    /\ \A i \in Runs :
         "build" \in run[i].done => registry[run[i].tag] = run[i].tree.source
    /\ live <= registry[deployed.tag]
    /\ registry[deployed.tag] <= registry[branch.tag]

PipelineInv ==
  /\ ReleaseTypeOK /\ ProgressInv /\ ClonesInv /\ ImagesInv /\ ClaimsInv
  /\ BrokenNeverLive /\ OrderInv /\ SuccessIsReleased
-----------------------------------------------------------------------------
RunRecord == [state : {"none", "running", "failed", "succeeded"},
              done : SUBSET Tasks, tag : 0..MaxSecond, tree : Tree]

\* The dependencies, one by one.
LEMMA TasksAre ==
  /\ Tasks = {"checkout", "tag", "tests", "build", "gitops", "push"}
  /\ Needs["tests"] = {"checkout"} /\ Needs["build"] = {"tag", "tests"}
  /\ Needs["gitops"] = {"build"} /\ Needs["push"] = {"gitops"}
BY DEF Tasks, Needs

\* Marking a task done changes nothing else of the run but its state.
LEMMA DoneShape ==
  ASSUME NEW r \in RunRecord, NEW t \in Tasks
  PROVE  /\ Done(r, t) \in RunRecord
         /\ Done(r, t).done = r.done \cup {t}
         /\ Done(r, t).tag = r.tag /\ Done(r, t).tree = r.tree
         /\ Done(r, t).state \in {r.state, "succeeded"}
         /\ Done(r, t).state = "succeeded" => r.state = "succeeded" \/ t = "push"
BY DEF Done, RunRecord

LEMMA ReportedShape ==
  ASSUME NEW r \in RunRecord, NEW q \in Reported(r)
  PROVE  /\ q \in RunRecord /\ q.done = r.done /\ q.tag = r.tag
         /\ q.tree = r.tree /\ q.state \in {r.state, "failed"}
BY DEF Reported, RunRecord

\* A run that changes is a run record, and the others stay as they are.
LEMMA RunChanges ==
  ASSUME ReleaseTypeOK, NEW i \in Runs, NEW r \in RunRecord,
         run' = [run EXCEPT ![i] = r]
  PROVE  /\ run' \in [Runs -> RunRecord] /\ run'[i] = r
         /\ \A j \in Runs : j # i => run'[j] = run[j]
BY DEF ReleaseTypeOK, RunRecord

LEMMA RunIsRecord ==
  ASSUME ReleaseTypeOK, NEW i \in Runs
  PROVE  run[i] \in RunRecord
BY DEF ReleaseTypeOK, RunRecord

\* What each task does to its run.
TaskShape(i, t, tag, tree) ==
  /\ run' \in [Runs -> RunRecord]
  /\ \A j \in Runs : j # i => run'[j] = run[j]
  /\ run'[i].done = run[i].done \cup {t}
  /\ run'[i].tag = tag /\ run'[i].tree = tree
  /\ run'[i].state = "succeeded" => t = "push"

LEMMA GitCheckoutShape ==
  ASSUME ReleaseTypeOK, NEW i \in Runs, GitCheckout(i)
  PROVE  TaskShape(i, "checkout", run[i].tag, branch)
<1> DEFINE r == [run[i] EXCEPT !.tree = branch]
<1>1. r \in RunRecord /\ r.state = "running"
  BY RunIsRecord DEF RunRecord, ReleaseTypeOK, GitCheckout, Ready
<1>2. r.done = run[i].done /\ r.tag = run[i].tag /\ r.tree = branch
  BY RunIsRecord DEF RunRecord
<1>3. run' = [run EXCEPT ![i] = Done(r, "checkout")]
  BY DEF GitCheckout, ReleaseTypeOK
<1> HIDE DEF r
<1>4. /\ Done(r, "checkout") \in RunRecord
      /\ Done(r, "checkout").done = run[i].done \cup {"checkout"}
      /\ Done(r, "checkout").tag = run[i].tag
      /\ Done(r, "checkout").tree = branch
      /\ Done(r, "checkout").state # "succeeded"
  BY <1>1, <1>2, TasksAre, DoneShape
<1>5. QED
  BY <1>3, <1>4, RunChanges DEF TaskShape

LEMMA DateTagShape ==
  ASSUME ReleaseTypeOK, NEW i \in Runs, DateTag(i)
  PROVE  TaskShape(i, "tag", second, run[i].tree)
<1> DEFINE r == [run[i] EXCEPT !.tag = second]
<1>1. r \in RunRecord /\ r.state = "running"
  <2>1. run[i] \in RunRecord /\ run[i].state = "running"
    BY RunIsRecord DEF DateTag, Ready
  <2>2. second \in 0..MaxSecond
    BY DEF ReleaseTypeOK
  <2>3. QED
    BY <2>1, <2>2 DEF RunRecord
<1>2. r.done = run[i].done /\ r.tag = second /\ r.tree = run[i].tree
  BY RunIsRecord DEF RunRecord
<1>3. run' = [run EXCEPT ![i] = Done(r, "tag")]
  BY DEF DateTag, ReleaseTypeOK
<1> HIDE DEF r
<1>4. /\ Done(r, "tag") \in RunRecord
      /\ Done(r, "tag").done = run[i].done \cup {"tag"}
      /\ Done(r, "tag").tag = second
      /\ Done(r, "tag").tree = run[i].tree
      /\ Done(r, "tag").state # "succeeded"
  BY <1>1, <1>2, TasksAre, DoneShape
<1>5. QED
  BY <1>3, <1>4, RunChanges DEF TaskShape

LEMMA RunTestsShape ==
  ASSUME ReleaseTypeOK, NEW i \in Runs, RunTests(i)
  PROVE  TaskShape(i, "tests", run[i].tag, run[i].tree)
<1>1. run[i] \in RunRecord /\ run[i].state = "running"
  BY RunIsRecord DEF RunTests, Ready
<1>2. run' = [run EXCEPT ![i] = Done(run[i], "tests")]
  BY DEF RunTests, ReleaseTypeOK
<1>3. /\ Done(run[i], "tests") \in RunRecord
      /\ Done(run[i], "tests").done = run[i].done \cup {"tests"}
      /\ Done(run[i], "tests").tag = run[i].tag
      /\ Done(run[i], "tests").tree = run[i].tree
      /\ Done(run[i], "tests").state # "succeeded"
  BY <1>1, TasksAre, DoneShape
<1>4. QED
  BY <1>2, <1>3, RunChanges DEF TaskShape

LEMMA BuildImageShape ==
  ASSUME ReleaseTypeOK, NEW i \in Runs, BuildImage(i)
  PROVE  TaskShape(i, "build", run[i].tag, run[i].tree)
<1>1. run[i] \in RunRecord /\ run[i].state = "running"
  BY RunIsRecord DEF BuildImage, Ready
<1>2. PICK r \in Reported(run[i]) : run' = [run EXCEPT ![i] = Done(r, "build")]
  BY DEF BuildImage
<1>3. /\ r \in RunRecord /\ r.done = run[i].done /\ r.tag = run[i].tag
      /\ r.tree = run[i].tree /\ r.state # "succeeded"
  BY <1>1, ReportedShape
<1>4. /\ Done(r, "build") \in RunRecord
      /\ Done(r, "build").done = run[i].done \cup {"build"}
      /\ Done(r, "build").tag = run[i].tag /\ Done(r, "build").tree = run[i].tree
      /\ Done(r, "build").state # "succeeded"
  BY <1>3, TasksAre, DoneShape
<1>5. QED
  BY <1>2, <1>4, RunChanges DEF TaskShape

LEMMA UpdateClaimShape ==
  ASSUME ReleaseTypeOK, NEW i \in Runs, UpdateClaim(i)
  PROVE  TaskShape(i, "gitops", run[i].tag,
                   [run[i].tree EXCEPT !.tag = run[i].tag])
<1> DEFINE r == [run[i] EXCEPT !.tree.tag = run[i].tag]
<1>1. run[i] \in RunRecord /\ run[i].state = "running"
  BY RunIsRecord DEF UpdateClaim, Ready
<1>2. r.done = run[i].done /\ r.tag = run[i].tag /\ r.state = "running"
  BY <1>1 DEF RunRecord
<1>3. r.tree = [run[i].tree EXCEPT !.tag = run[i].tag]
  BY <1>1 DEF RunRecord
<1>4. [run[i].tree EXCEPT !.tag = run[i].tag] \in Tree
  BY <1>1 DEF RunRecord, Tree
<1>5. r \in RunRecord
  BY <1>1, <1>4 DEF RunRecord
<1>6. run' = [run EXCEPT ![i] = Done(r, "gitops")]
  BY DEF UpdateClaim, ReleaseTypeOK
<1> HIDE DEF r
<1>7. /\ Done(r, "gitops") \in RunRecord
      /\ Done(r, "gitops").done = run[i].done \cup {"gitops"}
      /\ Done(r, "gitops").tag = run[i].tag
      /\ Done(r, "gitops").tree = r.tree
      /\ Done(r, "gitops").state # "succeeded"
  BY <1>2, <1>5, TasksAre, DoneShape
<1>8. QED
  BY <1>3, <1>6, <1>7, RunChanges DEF TaskShape

LEMMA GitPushShape ==
  ASSUME ReleaseTypeOK, NEW i \in Runs, GitPush(i)
  PROVE  TaskShape(i, "push", run[i].tag, run[i].tree)
<1>1. run[i] \in RunRecord /\ run[i].state = "running"
  BY RunIsRecord DEF GitPush, Ready
<1>2. PICK r \in Reported(run[i]) : run' = [run EXCEPT ![i] = Done(r, "push")]
  BY DEF GitPush
<1>3. /\ r \in RunRecord /\ r.done = run[i].done /\ r.tag = run[i].tag
      /\ r.tree = run[i].tree
  BY <1>1, ReportedShape
<1>4. /\ Done(r, "push") \in RunRecord
      /\ Done(r, "push").done = run[i].done \cup {"push"}
      /\ Done(r, "push").tag = run[i].tag /\ Done(r, "push").tree = run[i].tree
  BY <1>3, TasksAre, DoneShape
<1>5. QED
  BY <1>2, <1>4, RunChanges DEF TaskShape

\* Submit and TaskFails only change the state of the run.
LEMMA StateShape ==
  ASSUME ReleaseTypeOK, NEW i \in Runs, Submit(i) \/ TaskFails(i)
  PROVE  /\ run' \in [Runs -> RunRecord]
         /\ \A j \in Runs : j # i => run'[j] = run[j]
         /\ run'[i].done = run[i].done /\ run'[i].tag = run[i].tag
         /\ run'[i].tree = run[i].tree /\ run'[i].state # "succeeded"
<1> DEFINE q(s) == [run[i] EXCEPT !.state = s]
<1>1. PICK s \in {"running", "failed"} : run' = [run EXCEPT ![i].state = s]
  BY DEF Submit, TaskFails
<1>2. /\ q(s) \in RunRecord /\ q(s).done = run[i].done
      /\ q(s).tag = run[i].tag /\ q(s).tree = run[i].tree /\ q(s).state = s
  BY RunIsRecord DEF RunRecord
<1>3. run' = [run EXCEPT ![i] = q(s)]
  BY <1>1 DEF ReleaseTypeOK
<1> HIDE DEF q
<1>4. QED
  BY <1>1, <1>2, <1>3, RunChanges

\* Every step is a task, changes the state of a run, or leaves the runs alone.
LEMMA RunSteps ==
  ASSUME ReleaseTypeOK, PipelineStep
  PROVE  \/ \E i \in Runs : Submit(i) \/ Task(i)
         \/ UNCHANGED run /\ (Sync \/ Rollout \/ PodsStop \/ LoseCluster
                              \/ \E f \in Apps : DeleteClaim(f))
         \/ UNCHANGED run /\ (Tick \/ Develop \/ RemoveApps)
         \/ UNCHANGED releaseVars
<1>1. CASE ReleaseNext
  BY <1>1 DEF ReleaseNext, Deliver, Sync, Rollout, PodsStop, Tick, Develop,
              RemoveApps, LoseCluster
<1>2. CASE \E f \in Apps : DeleteClaim(f)
  BY <1>2 DEF DeleteClaim
<1>3. QED
  BY <1>1, <1>2 DEF PipelineStep

\* No step breaks the types.
LEMMA TypeStep == ReleaseTypeOK /\ PipelineStep => ReleaseTypeOK'
<1> SUFFICES ASSUME ReleaseTypeOK, PipelineStep PROVE ReleaseTypeOK'
  OBVIOUS
<1>1. ASSUME NEW i \in Runs, Submit(i) \/ Task(i) PROVE ReleaseTypeOK'
  <2>1. run' \in [Runs -> RunRecord]
    BY <1>1, StateShape, GitCheckoutShape, DateTagShape, RunTestsShape,
       BuildImageShape, UpdateClaimShape, GitPushShape DEF Task, TaskShape
  <2>2. UNCHANGED <<second, deployed, live, up>>
    BY <1>1 DEF Submit, Task, GitCheckout, DateTag, RunTests, BuildImage,
                UpdateClaim, GitPush, TaskFails
  <2>3. run[i].tree \in Tree /\ run[i].tag \in 0..MaxSecond
    BY RunIsRecord DEF RunRecord
  <2>4. registry' \in [0..MaxSecond -> 0..MaxSource]
    <3>1. CASE BuildImage(i)
      BY <2>3, <3>1 DEF BuildImage, ReleaseTypeOK, Tree
    <3>2. CASE ~BuildImage(i)
      BY <1>1, <3>2 DEF Submit, Task, GitCheckout, DateTag, RunTests,
                        UpdateClaim, GitPush, TaskFails, ReleaseTypeOK
    <3>3. QED
      BY <3>1, <3>2
  <2>5. branch' \in Tree
    <3>1. CASE GitPush(i)
      <4>1. branch' \in {branch, [run[i].tree EXCEPT !.commits = @ + 1]}
        BY <3>1 DEF GitPush
      <4>2. [run[i].tree EXCEPT !.commits = @ + 1] \in Tree
        BY <2>3 DEF Tree
      <4>3. QED
        BY <4>1, <4>2 DEF ReleaseTypeOK
    <3>2. CASE ~GitPush(i)
      BY <1>1, <3>2 DEF Submit, Task, GitCheckout, DateTag, RunTests,
                        BuildImage, UpdateClaim, TaskFails, ReleaseTypeOK
    <3>3. QED
      BY <3>1, <3>2
  <2>6. QED
    BY <2>1, <2>2, <2>4, <2>5 DEF ReleaseTypeOK, RunRecord
<1>2. CASE UNCHANGED run /\ (Sync \/ Rollout \/ PodsStop \/ LoseCluster
                             \/ \E f \in Apps : DeleteClaim(f))
  <2>1. deployed' \in [apps : SUBSET Apps, tag : 0..MaxSecond]
    <3>1. CASE Sync
      BY <3>1 DEF Sync, ReleaseTypeOK, Tree
    <3>2. CASE Rollout \/ PodsStop
      BY <3>2 DEF Rollout, PodsStop, ReleaseTypeOK
    <3>3. CASE LoseCluster
      BY <3>3 DEF LoseCluster, ReleaseTypeOK
    <3>4. CASE \E f \in Apps : DeleteClaim(f)
      BY <3>4 DEF DeleteClaim, ReleaseTypeOK
    <3>5. QED
      BY <1>2, <3>1, <3>2, <3>3, <3>4
  <2>2. live' \in 0..MaxSource
    BY <1>2 DEF Sync, Rollout, PodsStop, LoseCluster, DeleteClaim,
                ReleaseTypeOK
  <2>3. UNCHANGED <<second, branch, registry>> /\ up' \in BOOLEAN
    BY <1>2 DEF Sync, Rollout, PodsStop, LoseCluster, DeleteClaim,
                ReleaseTypeOK
  <2>4. QED
    BY <1>2, <2>1, <2>2, <2>3 DEF ReleaseTypeOK
<1>3. CASE UNCHANGED run /\ (Tick \/ Develop \/ RemoveApps)
  <2>1. second' \in 1..MaxSecond
    BY <1>3 DEF Tick, Develop, RemoveApps, ReleaseTypeOK
  <2>2. branch' \in Tree
    <3>1. CASE Tick
      BY <3>1 DEF Tick, ReleaseTypeOK
    <3> branch \in Tree
      BY DEF ReleaseTypeOK
    <3>2. CASE Develop
      <4>1. branch.commits + 1 \in Nat /\ branch.source + 1 \in 1..MaxSource
        BY <3>2 DEF Develop, Tree
      <4>2. QED
        BY <3>2, <4>1 DEF Develop, Tree
    <3>3. CASE RemoveApps
      <4>1. branch.commits + 1 \in Nat
        BY DEF Tree
      <4>2. QED
        BY <3>3, <4>1 DEF RemoveApps, Tree
    <3>4. QED
      BY <1>3, <3>1, <3>2, <3>3
  <2>3. UNCHANGED <<registry, deployed, live, up>>
    BY <1>3 DEF Tick, Develop, RemoveApps
  <2>4. QED
    BY <1>3, <2>1, <2>2, <2>3 DEF ReleaseTypeOK
<1>4. CASE UNCHANGED releaseVars
  BY <1>4 DEF releaseVars, ReleaseTypeOK
<1>5. QED
  BY <1>1, <1>2, <1>3, <1>4, RunSteps

\* A run only advances along the dependencies.
LEMMA ProgressStep ==
  ReleaseTypeOK /\ ProgressInv /\ PipelineStep => ProgressInv'
<1> SUFFICES ASSUME ReleaseTypeOK, ProgressInv, PipelineStep
             PROVE  ProgressInv'
  OBVIOUS
<1>1. ASSUME NEW i \in Runs, Submit(i) \/ Task(i)
      PROVE  ProgressInv'
  <2> DEFINE r == run[i]
             q == run'[i]
  <2>1. Progressed(r)
    BY DEF ProgressInv
  <2>2. \A j \in Runs : j # i => run'[j] = run[j]
    BY <1>1, StateShape, GitCheckoutShape, DateTagShape, RunTestsShape,
       BuildImageShape, UpdateClaimShape, GitPushShape DEF Task, TaskShape
  <2>3. Progressed(q)
    <3>1. CASE Submit(i) \/ TaskFails(i)
      <4>1. /\ q.done = r.done /\ q.tag = r.tag
            /\ q.tree = r.tree /\ q.state # "succeeded"
        BY <3>1, StateShape
      <4> HIDE DEF q, r
      <4>2. QED
        BY <2>1, <4>1 DEF Progressed
    <3>2. CASE GitCheckout(i)
      <4>1. /\ q.done = r.done \cup {"checkout"} /\ q.tag = r.tag
            /\ q.tree = branch /\ q.state # "succeeded"
            /\ "checkout" \notin r.done
        BY <3>2, GitCheckoutShape DEF TaskShape, GitCheckout, Ready
      <4> HIDE DEF q, r
      <4>2. QED
        BY <2>1, <4>1 DEF Progressed
    <3>3. CASE DateTag(i)
      <4>1. /\ q.done = r.done \cup {"tag"} /\ q.tag = second
            /\ q.tree = r.tree /\ q.state # "succeeded"
            /\ "tag" \notin r.done
        BY <3>3, DateTagShape DEF TaskShape, DateTag, Ready
      <4>2. second # FIXME
        BY DEF ReleaseTypeOK, FIXME
      <4> HIDE DEF q, r
      <4>3. QED
        BY <2>1, <4>1, <4>2 DEF Progressed
    <3>4. CASE RunTests(i)
      <4>1. /\ q.done = r.done \cup {"tests"} /\ q.tag = r.tag
            /\ q.tree = r.tree /\ q.state # "succeeded"
            /\ r.tree.source \notin Broken /\ "checkout" \in r.done
        BY <3>4, RunTestsShape, TasksAre DEF TaskShape, RunTests, Ready
      <4> HIDE DEF q, r
      <4>2. QED
        BY <2>1, <4>1 DEF Progressed
    <3>5. CASE BuildImage(i)
      <4>1. /\ q.done = r.done \cup {"build"} /\ q.tag = r.tag
            /\ q.tree = r.tree /\ q.state # "succeeded"
            /\ "tag" \in r.done /\ "tests" \in r.done
        BY <3>5, BuildImageShape, TasksAre DEF TaskShape, BuildImage, Ready
      <4> HIDE DEF q, r
      <4>2. QED
        BY <2>1, <4>1 DEF Progressed
    <3>6. CASE UpdateClaim(i)
      <4>1. /\ q.done = r.done \cup {"gitops"} /\ q.tag = r.tag
            /\ q.tree = [r.tree EXCEPT !.tag = r.tag] /\ q.state # "succeeded"
            /\ "build" \in r.done
        BY <3>6, UpdateClaimShape, TasksAre DEF TaskShape, UpdateClaim, Ready
      <4>2. q.tree.source = r.tree.source /\ q.tree.tag = r.tag
        BY <4>1, RunIsRecord DEF RunRecord, Tree
      <4> HIDE DEF q, r
      <4>3. QED
        BY <2>1, <4>1, <4>2 DEF Progressed
    <3>7. CASE GitPush(i)
      <4>1. /\ q.done = r.done \cup {"push"} /\ q.tag = r.tag
            /\ q.tree = r.tree /\ "gitops" \in r.done
        BY <3>7, GitPushShape, TasksAre DEF TaskShape, GitPush, Ready
      <4> HIDE DEF q, r
      <4>2. QED
        BY <2>1, <4>1 DEF Progressed
    <3>8. QED
      BY <1>1, <3>1, <3>2, <3>3, <3>4, <3>5, <3>6, <3>7 DEF Task
  <2>4. QED
    BY <2>2, <2>3 DEF ProgressInv
<1>2. CASE UNCHANGED run
  BY <1>2 DEF ProgressInv
<1>3. QED
  BY <1>1, <1>2, RunSteps DEF releaseVars

\* What a run has done stays done, and its tag and the source it has cloned
\* stay what they are.
LEMMA RunKeeps ==
  ASSUME ReleaseTypeOK, PipelineStep, NEW j \in Runs
  PROVE  /\ run[j].done \subseteq run'[j].done
         /\ "tag" \in run[j].done => run'[j].tag = run[j].tag
         /\ "checkout" \in run[j].done =>
              run'[j].tree.source = run[j].tree.source
         /\ "build" \in run'[j].done =>
              "build" \in run[j].done \/ BuildImage(j)
         /\ run'[j].state = "succeeded" => Succeeded(j) \/ GitPush(j)
<1>1. ASSUME NEW i \in Runs, Submit(i) \/ Task(i), j # i
      PROVE  run'[j] = run[j]
  BY <1>1, StateShape, GitCheckoutShape, DateTagShape, RunTestsShape,
     BuildImageShape, UpdateClaimShape, GitPushShape DEF Task, TaskShape
<1>2. ASSUME Submit(j) \/ TaskFails(j)
      PROVE  /\ run'[j].done = run[j].done /\ run'[j].tag = run[j].tag
             /\ run'[j].tree = run[j].tree /\ run'[j].state # "succeeded"
  BY <1>2, StateShape
<1>3. ASSUME GitCheckout(j)
      PROVE  /\ run'[j].done = run[j].done \cup {"checkout"}
             /\ run'[j].tag = run[j].tag /\ run'[j].state # "succeeded"
             /\ "checkout" \notin run[j].done
  BY <1>3, GitCheckoutShape DEF TaskShape, GitCheckout, Ready
<1>4. ASSUME DateTag(j)
      PROVE  /\ run'[j].done = run[j].done \cup {"tag"}
             /\ run'[j].tree = run[j].tree /\ run'[j].state # "succeeded"
             /\ "tag" \notin run[j].done
  BY <1>4, DateTagShape DEF TaskShape, DateTag, Ready
<1>5. ASSUME RunTests(j)
      PROVE  /\ run'[j].done = run[j].done \cup {"tests"}
             /\ run'[j].tag = run[j].tag /\ run'[j].tree = run[j].tree
             /\ run'[j].state # "succeeded"
  BY <1>5, RunTestsShape DEF TaskShape
<1>6. ASSUME BuildImage(j)
      PROVE  /\ run'[j].done = run[j].done \cup {"build"}
             /\ run'[j].tag = run[j].tag /\ run'[j].tree = run[j].tree
             /\ run'[j].state # "succeeded"
  BY <1>6, BuildImageShape DEF TaskShape
<1>7. ASSUME UpdateClaim(j)
      PROVE  /\ run'[j].done = run[j].done \cup {"gitops"}
             /\ run'[j].tag = run[j].tag
             /\ run'[j].tree.source = run[j].tree.source
             /\ run'[j].state # "succeeded"
  <2>1. run'[j].tree = [run[j].tree EXCEPT !.tag = run[j].tag]
    BY <1>7, UpdateClaimShape DEF TaskShape
  <2>2. run'[j].tree.source = run[j].tree.source
    BY <2>1, RunIsRecord DEF RunRecord, Tree
  <2>3. QED
    BY <1>7, <2>2, UpdateClaimShape DEF TaskShape
<1>8. ASSUME GitPush(j)
      PROVE  /\ run'[j].done = run[j].done \cup {"push"}
             /\ run'[j].tag = run[j].tag /\ run'[j].tree = run[j].tree
  BY <1>8, GitPushShape DEF TaskShape
<1>9. ASSUME Submit(j) \/ Task(j)
      PROVE  \/ Submit(j) \/ TaskFails(j) \/ GitCheckout(j) \/ DateTag(j)
             \/ RunTests(j) \/ BuildImage(j) \/ UpdateClaim(j) \/ GitPush(j)
  BY <1>9 DEF Task
<1>10. run'[j] = run[j] \/ Submit(j) \/ Task(j)
  BY <1>1, RunSteps DEF releaseVars
<1>11. QED
  BY <1>2, <1>3, <1>4, <1>5, <1>6, <1>7, <1>8, <1>9, <1>10 DEF Succeeded

\* The clone of a run is new, or what it was but for the tag in its claim.
LEMMA CloneStep ==
  ASSUME ReleaseTypeOK, PipelineStep, NEW j \in Runs
  PROVE  \/ run'[j].tree = branch /\ branch' = branch
         \/ /\ run'[j].tree.commits = run[j].tree.commits
            /\ run'[j].tree.source = run[j].tree.source
            /\ run'[j].tree.apps = run[j].tree.apps
            /\ \/ run'[j].tree.tag = run[j].tree.tag
               \/ run'[j].tree.tag = run[j].tag /\ "build" \in run[j].done
<1>1. ASSUME NEW i \in Runs, Submit(i) \/ Task(i), j # i
      PROVE  run'[j] = run[j]
  BY <1>1, StateShape, GitCheckoutShape, DateTagShape, RunTestsShape,
     BuildImageShape, UpdateClaimShape, GitPushShape DEF Task, TaskShape
<1>2. ASSUME Submit(j) \/ Task(j), ~GitCheckout(j), ~UpdateClaim(j)
      PROVE  run'[j].tree = run[j].tree
  BY <1>2, StateShape, DateTagShape, RunTestsShape, BuildImageShape,
     GitPushShape DEF Task, TaskShape
<1>3. ASSUME GitCheckout(j)
      PROVE  run'[j].tree = branch /\ branch' = branch
  BY <1>3, GitCheckoutShape DEF TaskShape, GitCheckout
<1>4. ASSUME UpdateClaim(j)
      PROVE  /\ run'[j].tree = [run[j].tree EXCEPT !.tag = run[j].tag]
             /\ run[j].tree \in Tree /\ "build" \in run[j].done
  BY <1>4, UpdateClaimShape, RunIsRecord, TasksAre
     DEF TaskShape, RunRecord, UpdateClaim, Ready
<1>5. run'[j] = run[j] \/ Submit(j) \/ Task(j)
  BY <1>1, RunSteps DEF releaseVars
<1>6. CASE UpdateClaim(j)
  BY <1>4, <1>6 DEF Tree
<1>7. QED
  BY <1>2, <1>3, <1>5, <1>6

\* The branch only moves forward, and a step that adds no commit changes
\* nothing.  The push of a clone in which the applications are is refused
\* once they were removed.
LEMMA BranchStep ==
  ASSUME ReleaseTypeOK, ClonesInv, PipelineStep
  PROVE  \/ branch' = branch
         \/ /\ branch'.commits = branch.commits + 1
            /\ branch'.source >= branch.source
            /\ branch'.apps \subseteq branch.apps
<1>1. ASSUME NEW i \in Runs, GitPush(i)
      PROVE  \/ branch' = branch
             \/ /\ branch'.commits = branch.commits + 1
                /\ branch'.source >= branch.source
                /\ branch'.apps \subseteq branch.apps
  <2>1. run[i].tree \in Tree /\ branch \in Tree
    BY RunIsRecord DEF RunRecord, ReleaseTypeOK
  <2>2. run[i].tree.source = branch.source /\ run[i].tree.apps = branch.apps
    BY <1>1 DEF GitPush, ClonesInv
  <2>3. CASE branch' = [run[i].tree EXCEPT !.commits = @ + 1]
    <3>1. /\ branch'.commits = run[i].tree.commits + 1
          /\ branch'.source = run[i].tree.source
          /\ branch'.apps = run[i].tree.apps
      BY <2>1, <2>3 DEF Tree
    <3>2. branch.source \in Nat
      BY <2>1 DEF Tree
    <3>3. QED
      BY <1>1, <2>2, <3>1, <3>2 DEF GitPush
  <2>4. QED
    BY <1>1, <2>3 DEF GitPush
<1>2. ASSUME Develop \/ RemoveApps
      PROVE  /\ branch'.commits = branch.commits + 1
             /\ branch'.source >= branch.source
             /\ branch'.apps \subseteq branch.apps
  <2>1. branch \in Tree
    BY DEF ReleaseTypeOK
  <2>2. CASE Develop
    BY <2>1, <2>2 DEF Develop, Tree
  <2>3. CASE RemoveApps
    BY <2>1, <2>3 DEF RemoveApps, Tree
  <2>4. QED
    BY <1>2, <2>2, <2>3
<1>3. ASSUME NEW i \in Runs, Submit(i) \/ Task(i), ~GitPush(i)
      PROVE  branch' = branch
  BY <1>3 DEF Submit, Task, GitCheckout, DateTag, RunTests, BuildImage,
              UpdateClaim, TaskFails
<1>4. ASSUME \/ Sync \/ Rollout \/ PodsStop \/ LoseCluster \/ Tick
             \/ \E f \in Apps : DeleteClaim(f)
      PROVE  branch' = branch
  BY <1>4 DEF Sync, Rollout, PodsStop, LoseCluster, Tick, DeleteClaim
<1>5. QED
  BY <1>1, <1>2, <1>3, <1>4, RunSteps DEF releaseVars

\* A clone stays an earlier state of the branch.
LEMMA ClonesStep ==
  ReleaseTypeOK /\ ClonesInv /\ PipelineStep => ClonesInv'
<1> SUFFICES ASSUME ReleaseTypeOK, ClonesInv, PipelineStep, NEW j \in Runs
             PROVE  /\ run'[j].tree.commits <= branch'.commits
                    /\ run'[j].tree.source <= branch'.source
                    /\ run'[j].tree.commits = branch'.commits =>
                         /\ run'[j].tree.source = branch'.source
                         /\ run'[j].tree.apps = branch'.apps
  BY DEF ClonesInv
<1>1. /\ branch.commits \in Nat /\ branch.source \in Nat
      /\ branch'.commits \in Nat /\ branch'.source \in Nat
      /\ run[j].tree.commits \in Nat /\ run[j].tree.source \in Nat
  <2>1. branch \in Tree /\ branch' \in Tree
    BY TypeStep DEF ReleaseTypeOK
  <2>2. run[j].tree \in Tree
    BY RunIsRecord DEF RunRecord
  <2>3. QED
    BY <2>1, <2>2 DEF Tree
<1>2. /\ run[j].tree.commits <= branch.commits
      /\ run[j].tree.source <= branch.source
      /\ run[j].tree.commits = branch.commits =>
           /\ run[j].tree.source = branch.source
           /\ run[j].tree.apps = branch.apps
  BY DEF ClonesInv
<1>3. QED
  BY <1>1, <1>2, CloneStep, BranchStep

\* The ranges of what the numbers of the model are compared with.
LEMMA Ranges ==
  ASSUME ReleaseTypeOK
  PROVE  /\ branch.tag \in 0..MaxSecond /\ branch.source \in 1..MaxSource
         /\ deployed.tag \in 0..MaxSecond
         /\ registry \in [0..MaxSecond -> 0..MaxSource]
         /\ live \in 0..MaxSource /\ second \in 1..MaxSecond
         /\ branch.commits \in Nat
         /\ \A i \in Runs : /\ run[i].tag \in 0..MaxSecond
                            /\ run[i].tree.tag \in 0..MaxSecond
                            /\ run[i].tree.source \in 1..MaxSource
<1>1. branch \in Tree
  BY DEF ReleaseTypeOK
<1>2. \A i \in Runs : run[i].tree \in Tree /\ run[i].tag \in 0..MaxSecond
  BY RunIsRecord DEF RunRecord
<1>3. QED
  BY <1>1, <1>2 DEF ReleaseTypeOK, Tree

\* Sources and images are numbers, and a source is never the missing image.
LEMMA Sources ==
  ASSUME ReleaseTypeOK
  PROVE  /\ \A t \in 0..MaxSecond : registry[t] \in Nat
         /\ registry[branch.tag] \in Nat /\ registry[deployed.tag] \in Nat
         /\ live \in Nat
         /\ \A i \in Runs : run[i].tree.source \in Nat \ {0}
<1>1. \A t \in 0..MaxSecond : registry[t] \in 0..MaxSource
  BY Ranges
<1>2. \A n \in 0..MaxSource : n \in Nat
  OBVIOUS
<1>3. \A t \in 0..MaxSecond : registry[t] \in Nat
  BY <1>1, <1>2
<1>4. live \in Nat
  BY <1>2, Ranges
<1>5. \A n \in 1..MaxSource : n \in Nat \ {0}
  OBVIOUS
<1>6. \A i \in Runs : run[i].tree.source \in Nat \ {0}
  BY <1>5, Ranges
<1>7. QED
  BY <1>3, <1>4, <1>6, Ranges

\* Only a build changes the registry: under its tag, to the source it tested.
LEMMA RegistryStep ==
  ASSUME ReleaseTypeOK, ProgressInv, PipelineStep
  PROVE  \/ registry' = registry
         \/ \E i \in Runs :
              /\ BuildImage(i) /\ branch' = branch
              /\ "build" \notin run[i].done /\ "build" \in run'[i].done
              /\ "tag" \in run[i].done /\ "checkout" \in run[i].done
              /\ run[i].tag # FIXME /\ run'[i].tag = run[i].tag
              /\ run[i].tree.source \notin Broken
              /\ registry' = [registry EXCEPT ![run[i].tag]
                                                = run[i].tree.source]
<1>1. ASSUME NEW i \in Runs, BuildImage(i)
      PROVE  /\ BuildImage(i) /\ branch' = branch
             /\ "build" \notin run[i].done /\ "build" \in run'[i].done
             /\ "tag" \in run[i].done /\ "checkout" \in run[i].done
             /\ run[i].tag # FIXME /\ run'[i].tag = run[i].tag
             /\ run[i].tree.source \notin Broken
             /\ registry' = [registry EXCEPT ![run[i].tag]
                                               = run[i].tree.source]
  <2>1. /\ "build" \notin run[i].done /\ "tag" \in run[i].done
        /\ "tests" \in run[i].done
    BY <1>1, TasksAre DEF BuildImage, Ready
  <2>2. Progressed(run[i])
    BY DEF ProgressInv
  <2>3. "build" \in run'[i].done /\ run'[i].tag = run[i].tag
    BY <1>1, BuildImageShape DEF TaskShape
  <2>4. QED
    BY <1>1, <2>1, <2>2, <2>3 DEF BuildImage, Progressed
<1>2. ASSUME NEW i \in Runs, Submit(i) \/ Task(i), ~BuildImage(i)
      PROVE  registry' = registry
  BY <1>2 DEF Submit, Task, GitCheckout, DateTag, RunTests, GitPush,
              UpdateClaim, TaskFails
<1>3. ASSUME \/ Sync \/ Rollout \/ PodsStop \/ LoseCluster \/ Tick
             \/ Develop \/ RemoveApps \/ \E f \in Apps : DeleteClaim(f)
      PROVE  registry' = registry
  BY <1>3 DEF Sync, Rollout, PodsStop, LoseCluster, Tick, Develop,
              RemoveApps, DeleteClaim
<1>4. QED
  BY <1>1, <1>2, <1>3, RunSteps DEF releaseVars

\* An image that can be pulled never disappears.
LEMMA ImagesStay ==
  ASSUME ReleaseTypeOK, ProgressInv, PipelineStep, NEW t \in 0..MaxSecond,
         registry[t] # 0
  PROVE  registry'[t] # 0
<1>1. CASE registry' = registry
  BY <1>1
<1>2. ASSUME NEW i \in Runs,
             registry' = [registry EXCEPT ![run[i].tag] = run[i].tree.source]
      PROVE  registry'[t] # 0
  BY <1>2, Ranges
<1>3. QED
  BY <1>1, <1>2, RegistryStep

\* Every image stays a tested one, and newer source is never in an image
\* before it is in the branch.
LEMMA ImagesStep ==
  /\ ReleaseTypeOK /\ ProgressInv /\ ClonesInv /\ ImagesInv
  /\ PipelineStep
  => ImagesInv'
<1> SUFFICES ASSUME ReleaseTypeOK, ProgressInv, ClonesInv, ImagesInv,
                    PipelineStep
             PROVE  ImagesInv'
  OBVIOUS
<1>1. branch.source \in Nat /\ branch'.source \in Nat
      /\ branch'.source >= branch.source
  <2>1. branch \in Tree /\ branch' \in Tree
    BY TypeStep DEF ReleaseTypeOK
  <2>2. QED
    BY <2>1, BranchStep DEF Tree
<1>2. ASSUME NEW i \in Runs, "build" \in run'[i].done
      PROVE  registry'[run'[i].tag] # 0
  <2>1. CASE BuildImage(i)
    <3>1. run'[i].tag = run[i].tag
      BY <2>1, BuildImageShape DEF TaskShape
    <3>2. registry'[run[i].tag] = run[i].tree.source
      BY <2>1, Ranges DEF BuildImage
    <3>3. run[i].tree.source # 0
      BY Sources
    <3>4. QED
      BY <3>1, <3>2, <3>3
  <2>2. CASE "build" \in run[i].done
    <3>1. run'[i].tag = run[i].tag
      BY <2>2, RunKeeps DEF ProgressInv, Progressed
    <3>2. registry[run[i].tag] # 0
      BY <2>2 DEF ImagesInv
    <3>3. QED
      BY <3>1, <3>2, Ranges, ImagesStay
  <2>3. QED
    BY <1>2, <2>1, <2>2, RunKeeps
<1>3. ASSUME NEW t \in 0..MaxSecond, registry'[t] = registry[t]
      PROVE  /\ registry'[t] \notin Broken /\ registry'[t] <= branch'.source
             /\ registry'[t] # 0 =>
                  \E i \in Runs : "build" \in run'[i].done /\ run'[i].tag = t
  <2>1. registry[t] \in Nat
    BY Ranges
  <2>2. /\ registry[t] \notin Broken /\ registry[t] <= branch.source
        /\ registry[t] # 0 =>
             \E i \in Runs : "build" \in run[i].done /\ run[i].tag = t
    BY DEF ImagesInv
  <2>3. \A i \in Runs : "build" \in run[i].done =>
          "build" \in run'[i].done /\ run'[i].tag = run[i].tag
    BY RunKeeps DEF ProgressInv, Progressed
  <2>4. QED
    BY <1>1, <1>3, <2>1, <2>2, <2>3
<1>4. CASE registry' = registry
  BY <1>2, <1>3, <1>4 DEF ImagesInv
<1>5. ASSUME NEW i \in Runs, "build" \in run'[i].done,
             run[i].tag # FIXME, run'[i].tag = run[i].tag,
             run[i].tree.source \notin Broken, branch' = branch,
             registry' = [registry EXCEPT ![run[i].tag] = run[i].tree.source]
      PROVE  ImagesInv'
  <2>1. registry'[FIXME] = 0
    BY <1>5, Ranges DEF ImagesInv, FIXME
  <2>2. \A t \in 0..MaxSecond : t # run[i].tag => registry'[t] = registry[t]
    BY <1>5, Ranges
  <2>3. registry'[run[i].tag] = run[i].tree.source
    BY <1>5, Ranges
  <2>4. run[i].tree.source <= branch.source
    BY DEF ClonesInv
  <2>5. QED
    BY <1>2, <1>3, <1>5, <2>1, <2>2, <2>3, <2>4 DEF ImagesInv
<1>6. QED
  BY <1>4, <1>5, RegistryStep

\* Only a push changes the claim in the branch, to that of its clone.
LEMMA BranchTagStep ==
  ASSUME ReleaseTypeOK, PipelineStep
  PROVE  \/ branch'.tag = branch.tag
         \/ \E i \in Runs : GitPush(i) /\ branch'.tag = run[i].tree.tag
<1>1. ASSUME NEW i \in Runs, GitPush(i)
      PROVE  branch'.tag = branch.tag \/ branch'.tag = run[i].tree.tag
  <2>1. run[i].tree \in Tree
    BY RunIsRecord DEF RunRecord
  <2>2. QED
    BY <1>1, <2>1 DEF GitPush, Tree
<1>2. ASSUME Develop \/ RemoveApps PROVE branch'.tag = branch.tag
  <2>1. branch \in Tree
    BY DEF ReleaseTypeOK
  <2>2. QED
    BY <1>2, <2>1 DEF Develop, RemoveApps, Tree
<1>3. ASSUME NEW i \in Runs, Submit(i) \/ Task(i), ~GitPush(i)
      PROVE  branch' = branch
  BY <1>3 DEF Submit, Task, GitCheckout, DateTag, RunTests, BuildImage,
              UpdateClaim, TaskFails
<1>4. ASSUME \/ Sync \/ Rollout \/ PodsStop \/ LoseCluster \/ Tick
             \/ \E f \in Apps : DeleteClaim(f)
      PROVE  branch' = branch
  BY <1>4 DEF Sync, Rollout, PodsStop, LoseCluster, Tick, DeleteClaim
<1>5. QED
  BY <1>1, <1>2, <1>3, <1>4, RunSteps DEF releaseVars

\* The cluster gets its claim from the branch and its pods from the registry.
LEMMA ClusterStep ==
  ASSUME ReleaseTypeOK, PipelineStep
  PROVE  /\ \/ deployed'.tag = deployed.tag
            \/ deployed'.tag = branch.tag /\ branch' = branch
         /\ \/ live' = live \/ live' = 0
            \/ live' = registry[deployed.tag] /\ deployed' = deployed
<1>1. ASSUME NEW f \in Apps, DeleteClaim(f)
      PROVE  deployed'.tag = deployed.tag /\ live' = live
  BY <1>1 DEF DeleteClaim, ReleaseTypeOK
<1>2. ASSUME LoseCluster PROVE deployed'.tag = deployed.tag /\ live' = 0
  BY <1>2 DEF LoseCluster, ReleaseTypeOK
<1>3. ASSUME Sync
      PROVE  deployed'.tag = branch.tag /\ branch' = branch /\ live' = live
  BY <1>3 DEF Sync
<1>4. ASSUME NEW i \in Runs, Submit(i) \/ Task(i)
      PROVE  deployed' = deployed /\ live' = live
  BY <1>4 DEF Submit, Task, GitCheckout, DateTag, RunTests, BuildImage,
              UpdateClaim, GitPush, TaskFails
<1>5. ASSUME Tick \/ Develop \/ RemoveApps
      PROVE  deployed' = deployed /\ live' = live
  BY <1>5 DEF Tick, Develop, RemoveApps
<1>6. ASSUME Rollout \/ PodsStop
      PROVE  deployed' = deployed /\ live' \in {0, registry[deployed.tag]}
  BY <1>6 DEF Rollout, PodsStop
<1>7. QED
  BY <1>1, <1>2, <1>3, <1>4, <1>5, <1>6, RunSteps DEF releaseVars

\* Every claim stays pullable: a claim gets its tag from another one, or from
\* a run that has built its image.
LEMMA ClaimsStep ==
  /\ ReleaseTypeOK /\ ProgressInv /\ ImagesInv /\ ClaimsInv /\ PipelineStep
  => ClaimsInv'
<1> SUFFICES ASSUME ReleaseTypeOK, ProgressInv, ImagesInv, ClaimsInv,
                    PipelineStep
             PROVE  ClaimsInv'
  OBVIOUS
<1>1. \A t \in 0..MaxSecond : Pullable(t) => Pullable(t)'
  BY ImagesStay DEF Pullable
<1>2. Pullable(branch.tag)' 
  <2>1. branch'.tag = branch.tag \/ \E i \in Runs : branch'.tag = run[i].tree.tag
    BY BranchTagStep
  <2>2. QED
    BY <1>1, <2>1, Ranges DEF ClaimsInv, Pullable
<1>3. Pullable(deployed.tag)'
  <2>1. deployed'.tag \in {branch.tag, deployed.tag}
    BY ClusterStep
  <2>2. QED
    BY <1>1, <2>1, Ranges DEF ClaimsInv, Pullable
<1>4. ASSUME NEW j \in Runs PROVE Pullable(run[j].tree.tag)'
  <2>1. \/ run'[j].tree.tag = branch.tag
        \/ run'[j].tree.tag = run[j].tree.tag
        \/ run'[j].tree.tag = run[j].tag /\ "build" \in run[j].done
    BY CloneStep
  <2>2. "build" \in run[j].done => Pullable(run[j].tag)
    BY DEF ImagesInv, Pullable
  <2>3. QED
    BY <1>1, <2>1, <2>2, Ranges DEF ClaimsInv, Pullable
<1>5. QED
  BY <1>2, <1>3, <1>4 DEF ClaimsInv

\* A collision is for ever.
LEMMA CollidedStays ==
  ASSUME ReleaseTypeOK, PipelineStep, Collided
  PROVE  Collided'
<1>1. PICK i, j \in Runs : /\ i # j /\ run[i].tag = run[j].tag
                           /\ "tag" \in run[i].done \cap run[j].done
  BY DEF Collided
<1>2. /\ run'[i].tag = run[i].tag /\ run'[j].tag = run[j].tag
      /\ "tag" \in run'[i].done \cap run'[j].done
  BY <1>1, RunKeeps
<1>3. QED
  BY <1>1, <1>2 DEF Collided

\* Without a collision no build replaces an image.
LEMMA ImagesAreKept ==
  ASSUME ReleaseTypeOK, ProgressInv, ImagesInv, PipelineStep, ~Collided,
         NEW t \in 0..MaxSecond, Pullable(t)
  PROVE  registry'[t] = registry[t]
<1>1. CASE registry' = registry
  BY <1>1
<1>2. ASSUME NEW i \in Runs, "build" \notin run[i].done,
             "tag" \in run[i].done, run[i].tag # FIXME,
             registry' = [registry EXCEPT ![run[i].tag] = run[i].tree.source]
      PROVE  registry'[t] = registry[t]
  <2>1. SUFFICES ASSUME run[i].tag = t PROVE FALSE
    BY <1>2, Ranges
  <2>2. registry[t] # 0
    BY <1>2, <2>1 DEF Pullable
  <2>3. PICK o \in Runs : "build" \in run[o].done /\ run[o].tag = t
    BY <2>2 DEF ImagesInv
  <2>4. "tag" \in run[o].done
    BY <2>3 DEF ProgressInv, Progressed
  <2>5. QED
    BY <1>2, <2>1, <2>3, <2>4 DEF Collided
<1>3. QED
  BY <1>1, <1>2, RegistryStep

\* A push without collision puts into the claim the image of the newest source.
LEMMA PushIsNewest ==
  ASSUME ReleaseTypeOK, ProgressInv, ClonesInv, OrderInv, ~Collided,
         NEW i \in Runs, GitPush(i)
  PROVE  /\ branch'.tag = run[i].tag /\ registry' = registry
         /\ registry[run[i].tag] = branch.source
         /\ run[i].tree.source = branch.source
<1>1. /\ "gitops" \in run[i].done /\ "build" \in run[i].done
      /\ run[i].tree.tag = run[i].tag
  BY TasksAre DEF GitPush, Ready, ProgressInv, Progressed
<1>2. registry[run[i].tag] = run[i].tree.source
  BY <1>1 DEF OrderInv
<1>3. run[i].tree.source = branch.source
  BY DEF GitPush, ClonesInv
<1>4. run[i].tree \in Tree
  BY RunIsRecord DEF RunRecord
<1>5. branch'.tag = run[i].tree.tag
  BY <1>4 DEF GitPush, Tree
<1>6. QED
  BY <1>1, <1>2, <1>3, <1>5 DEF GitPush

\* The image the branch claims is never replaced by one of older source.
LEMMA ClaimAdvances ==
  ASSUME ReleaseTypeOK, ProgressInv, ClonesInv, ImagesInv, ClaimsInv, OrderInv,
         PipelineStep, ~Collided
  PROVE  registry'[branch'.tag] >= registry[branch.tag]
<1>1. CASE branch'.tag = branch.tag
  BY <1>1, ImagesAreKept, Ranges DEF ClaimsInv
<1>2. ASSUME NEW i \in Runs, GitPush(i)
      PROVE  registry'[branch'.tag] >= registry[branch.tag]
  BY <1>2, PushIsNewest, Ranges DEF ImagesInv
<1>3. QED
  BY <1>1, <1>2, BranchTagStep

\* Images, pods, cluster and branch stay in order.
LEMMA OrderStep ==
  /\ ReleaseTypeOK /\ ProgressInv /\ ClonesInv /\ ImagesInv /\ ClaimsInv
  /\ OrderInv /\ PipelineStep
  => OrderInv'
<1> SUFFICES ASSUME ReleaseTypeOK, ProgressInv, ClonesInv, ImagesInv,
                    ClaimsInv, OrderInv, PipelineStep, ~Collided'
             PROVE  /\ \A i \in Runs : "build" \in run'[i].done =>
                         registry'[run'[i].tag] = run'[i].tree.source
                    /\ live' <= registry'[deployed'.tag]
                    /\ registry'[deployed'.tag] <= registry'[branch'.tag]
  BY DEF OrderInv
<1>1. ~Collided
  BY CollidedStays
<1>2. ASSUME NEW i \in Runs, "build" \in run'[i].done
      PROVE  registry'[run'[i].tag] = run'[i].tree.source
  <2>1. CASE BuildImage(i)
    <3>1. run'[i].tag = run[i].tag /\ run'[i].tree = run[i].tree
      BY <2>1, BuildImageShape DEF TaskShape
    <3>2. registry'[run[i].tag] = run[i].tree.source
      BY <2>1, Ranges DEF BuildImage
    <3>3. QED
      BY <3>1, <3>2
  <2>2. CASE "build" \in run[i].done
    <3>1. /\ run'[i].tag = run[i].tag
          /\ run'[i].tree.source = run[i].tree.source
      BY <2>2, RunKeeps DEF ProgressInv, Progressed
    <3>2. /\ registry[run[i].tag] = run[i].tree.source
          /\ Pullable(run[i].tag)
      BY <1>1, <2>2 DEF OrderInv, ImagesInv, Pullable
    <3>3. QED
      BY <1>1, <3>1, <3>2, ImagesAreKept, Ranges
  <2>3. QED
    BY <1>2, <2>1, <2>2, RunKeeps
<1>3. /\ registry'[deployed.tag] = registry[deployed.tag]
      /\ registry'[branch.tag] = registry[branch.tag]
      /\ registry'[branch'.tag] >= registry[branch.tag]
  BY <1>1, ImagesAreKept, ClaimAdvances, Ranges DEF ClaimsInv
<1>4. /\ live <= registry[deployed.tag]
      /\ registry[deployed.tag] <= registry[branch.tag]
  BY <1>1 DEF OrderInv
<1>5. /\ registry[deployed.tag] \in Nat /\ registry[branch.tag] \in Nat
      /\ live \in Nat
  BY Sources
<1>6. registry'[branch'.tag] \in Nat
  <2>1. branch' \in Tree /\ registry' \in [0..MaxSecond -> 0..MaxSource]
    BY TypeStep DEF ReleaseTypeOK
  <2>2. branch'.tag \in 0..MaxSecond
    BY <2>1 DEF Tree
  <2>3. QED
    BY <2>1, <2>2
<1>7. QED
  BY <1>2, <1>3, <1>4, <1>5, <1>6, ClusterStep

\* What a run has released stays released.
LEMMA SuccessStep ==
  /\ ReleaseTypeOK /\ ProgressInv /\ ClonesInv /\ ImagesInv /\ ClaimsInv
  /\ OrderInv /\ SuccessIsReleased /\ PipelineStep
  => SuccessIsReleased'
<1> SUFFICES ASSUME ReleaseTypeOK, ProgressInv, ClonesInv, ImagesInv,
                    ClaimsInv, OrderInv, SuccessIsReleased, PipelineStep,
                    ~Collided', NEW i \in Runs, run'[i].state = "succeeded"
             PROVE  registry'[branch'.tag] >= run'[i].tree.source
  BY DEF SuccessIsReleased, Succeeded
<1>1. ~Collided
  BY CollidedStays
<1>2. registry[branch.tag] \in Nat /\ run[i].tree.source \in Nat
  BY Sources
<1>3. registry'[branch'.tag] \in Nat
  <2>1. branch' \in Tree /\ registry' \in [0..MaxSecond -> 0..MaxSource]
    BY TypeStep DEF ReleaseTypeOK
  <2>2. branch'.tag \in 0..MaxSecond
    BY <2>1 DEF Tree
  <2>3. QED
    BY <2>1, <2>2
<1>4. CASE Succeeded(i)
  <2>1. "checkout" \in run[i].done
    BY <1>4 DEF ProgressInv, Progressed, Succeeded
  <2>2. run'[i].tree.source = run[i].tree.source
    BY <2>1, RunKeeps
  <2>3. registry[branch.tag] >= run[i].tree.source
    BY <1>1, <1>4 DEF SuccessIsReleased
  <2>4. QED
    BY <1>1, <1>2, <1>3, <2>2, <2>3, ClaimAdvances
<1>5. CASE GitPush(i)
  <2>1. run'[i].tree = run[i].tree
    BY <1>5, GitPushShape DEF TaskShape
  <2>2. QED
    BY <1>1, <1>2, <1>5, <2>1, PushIsNewest
<1>6. QED
  BY <1>4, <1>5, RunKeeps

LEMMA PipelineInvInit == ReleaseInit => PipelineInv
<1> SUFFICES ASSUME ReleaseInit PROVE PipelineInv
  OBVIOUS
<1>1. /\ branch \in Tree /\ branch.commits = 1 /\ branch.source = 1
      /\ branch.tag = FIXME
  BY DEF ReleaseInit, Tree, FIXME, Apps
<1>2. \A i \in Runs : run[i] = NoRun(branch)
  BY DEF ReleaseInit
<1>3. /\ NoRun(branch).state = "none" /\ NoRun(branch).done = {}
      /\ NoRun(branch).tag = FIXME /\ NoRun(branch).tree = branch
      /\ NoRun(branch) \in RunRecord
  BY <1>1 DEF NoRun, RunRecord, FIXME
<1>4. ReleaseTypeOK
  BY <1>1, <1>2, <1>3 DEF ReleaseTypeOK, ReleaseInit, RunRecord, FIXME
<1>5. ProgressInv
  BY <1>2, <1>3 DEF ProgressInv, Progressed
<1>6. ClonesInv
  <2>1. \A i \in Runs : run[i].tree = branch
    BY <1>2, <1>3
  <2>2. branch.commits <= branch.commits /\ branch.source <= branch.source
    BY <1>1
  <2>3. QED
    BY <2>1, <2>2 DEF ClonesInv
<1>7. ImagesInv
  BY <1>1, <1>2, <1>3 DEF ImagesInv, ReleaseInit, FIXME
<1>8. ClaimsInv
  BY <1>1, <1>2, <1>3 DEF ClaimsInv, Pullable, ReleaseInit
<1>9. BrokenNeverLive
  BY DEF BrokenNeverLive, ReleaseInit
<1>10. OrderInv
  BY <1>1, <1>2, <1>3 DEF OrderInv, ReleaseInit, FIXME
<1>11. SuccessIsReleased
  BY <1>2, <1>3 DEF SuccessIsReleased, Succeeded
<1>12. QED
  BY <1>4, <1>5, <1>6, <1>7, <1>8, <1>9, <1>10, <1>11 DEF PipelineInv

LEMMA PipelineInvStep == PipelineInv /\ PipelineStep => PipelineInv'
<1> SUFFICES ASSUME PipelineInv, PipelineStep PROVE PipelineInv'
  OBVIOUS
<1> USE DEF PipelineInv
<1>1. /\ ReleaseTypeOK' /\ ProgressInv' /\ ClonesInv' /\ ImagesInv'
      /\ ClaimsInv' /\ OrderInv' /\ SuccessIsReleased'
  BY TypeStep, ProgressStep, ClonesStep, ImagesStep, ClaimsStep, OrderStep,
     SuccessStep
<1>2. BrokenNeverLive'
  BY ClusterStep, Ranges DEF BrokenNeverLive, ImagesInv
<1>3. QED
  BY <1>1, <1>2

\* Pods are only replaced by pods of the same or newer source.
LEMMA NeverBack ==
  PipelineInv /\ PipelineStep /\ ~Collided' /\ live' # 0 => live' >= live
<1> SUFFICES ASSUME PipelineInv, PipelineStep, ~Collided', live' # 0
             PROVE  live' >= live
  OBVIOUS
<1>1. ReleaseTypeOK
  BY DEF PipelineInv
<1>2. live <= registry[deployed.tag]
  BY <1>1, CollidedStays DEF PipelineInv, OrderInv
<1>3. QED
  BY <1>1, <1>2, ClusterStep, Ranges
-----------------------------------------------------------------------------
\* The inductive invariant holds in every reachable state.
THEOREM PipelineInvariant == ReleaseSpec => []PipelineInv
<1>1. [ReleaseNext]_releaseVars => PipelineStep
  BY DEF PipelineStep
<1>2. QED
  BY <1>1, PipelineInvInit, PipelineInvStep, PTL DEF ReleaseSpec

\* Every variable keeps its type.
THEOREM ReleaseTypeCorrect == ReleaseSpec => []ReleaseTypeOK
<1>1. PipelineInv => ReleaseTypeOK
  BY DEF PipelineInv
<1>2. QED
  BY <1>1, PipelineInvariant, PTL

\* Whatever fails half way (argo.yaml), the claim in the branch names an image.
THEOREM ClaimIsPullableCorrect == ReleaseSpec => []ClaimIsPullable
<1>1. PipelineInv => ClaimIsPullable
  BY DEF PipelineInv, ClaimsInv, Pullable, ClaimIsPullable
<1>2. QED
  BY <1>1, PipelineInvariant, PTL

\* Source that fails its tests never runs, however many runs race.
THEOREM BrokenNeverLiveCorrect == ReleaseSpec => []BrokenNeverLive
<1>1. PipelineInv => BrokenNeverLive
  BY DEF PipelineInv
<1>2. QED
  BY <1>1, PipelineInvariant, PTL

\* Without a collision of tags a run that succeeded has released its source.
THEOREM SuccessIsReleasedCorrect == ReleaseSpec => []SuccessIsReleased
<1>1. PipelineInv => SuccessIsReleased
  BY DEF PipelineInv
<1>2. QED
  BY <1>1, PipelineInvariant, PTL

\* Without a collision of tags production never goes back to older source.
THEOREM NeverRollsBackCorrect == ReleaseSpec => NeverRollsBack
<1>1. PipelineInv /\ [ReleaseNext]_releaseVars
        => [~Collided' /\ live' # 0 => live' >= live]_releaseVars
  BY NeverBack DEF PipelineStep
<1>2. QED
  BY <1>1, PipelineInvariant, PTL DEF ReleaseSpec, NeverRollsBack

\* Applications removed from the branch are never brought back by a run.
THEOREM RemovedStaysRemovedCorrect == ReleaseSpec => RemovedStaysRemoved
<1>1. PipelineInv /\ [ReleaseNext]_releaseVars
        => [branch.apps = {} => branch'.apps = {}]_releaseVars
  BY BranchStep DEF PipelineStep, PipelineInv
<1>2. QED
  BY <1>1, PipelineInvariant, PTL DEF ReleaseSpec, RemovedStaysRemoved
=============================================================================
