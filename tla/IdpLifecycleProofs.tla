------------------------- MODULE IdpLifecycleProofs -------------------------
(***************************************************************************)
(* Proofs about IdpLifecycle for every choice of clouds and APIs, every    *)
(* set of runs and every bound.  A step of the lifecycle is a step of the  *)
(* pipeline, so the pipeline's invariant holds during a teardown too.      *)
(***************************************************************************)
EXTENDS IdpLifecycle, ReleasePipelineProofs

USE LifecycleAssumption

\* With the Crossplane API only Argo CD changes the claims while the cluster
\* is there: a database was claimed, and if it is not any more, the branch has
\* no claims either.
ClaimedInv ==
  api = "crossplane" /\ up /\ (seen \/ "db" \in managed) =>
    "db" \in deployed.apps \/ (branch.apps = {} /\ deployed.apps = {})

\* Once the database the script saw is not managed, nothing claims it.
UnclaimedInv ==
  api = "crossplane" /\ seen /\ "db" \notin managed =>
    branch.apps = {} /\ deployed.apps = {}

\* It is not managed after the wait.
WaitedInv ==
  api = "crossplane" /\ seen /\ script \in {"delete", "done"} =>
    "db" \notin managed

\* Only the deletions after the wait take the cluster.
ClusterInv ==
  /\ script \notin {"delete", "stopped", "done"} => up
  /\ database => "db" \in managed

LifecycleInv ==
  /\ PipelineInv /\ TypeOK /\ ClaimedInv /\ UnclaimedInv /\ WaitedInv
  /\ ClusterInv /\ NoOrphanedDatabase
-----------------------------------------------------------------------------
Things == {"project", "addon", "nodegroup", "cluster", "group", "repo"}

\* The steps, without the nesting of Next.
LEMMA LifecycleSteps ==
  ASSUME [Next]_vars
  PROVE  \/ Deliver /\ UNCHANGED <<hyperscaler, api, cloudVars, scriptVars>>
         \/ Provision
         \/ \E c \in Composable : Compose(c) \/ Remove(c)
         \/ DeleteRepoClaim \/ EnterClone \/ GitPull \/ PullAgain
         \/ PushDestroy \/ GitFails
         \/ DeleteApplication("db", "oamDb", "oamApp")
         \/ DeleteApplication("app", "oamApp", "wait")
         \/ WaitEnds \/ DeleteNext \/ CommandFails
         \/ UNCHANGED vars
BY DEF Next, ScriptStep, DeleteApplications

\* Every step of the lifecycle is one the pipeline's lemmas are about.
LEMMA LifecycleIsPipeline ==
  ASSUME [Next]_vars
  PROVE  PipelineStep
<1>1. ASSUME NEW f \in Apps, NEW a, NEW b, DeleteApplication(f, a, b)
      PROVE  PipelineStep
  BY <1>1 DEF DeleteApplication, PipelineStep
<1>2. CASE Deliver
  BY <1>2 DEF PipelineStep, ReleaseNext
<1>3. CASE PushDestroy
  BY <1>3 DEF PushDestroy, PipelineStep, ReleaseNext
<1>4. CASE DeleteNext
  BY <1>4 DEF DeleteNext, PipelineStep, ReleaseNext
<1>5. CASE \/ Provision \/ DeleteRepoClaim \/ EnterClone \/ GitPull \/ PullAgain
           \/ GitFails \/ WaitEnds \/ CommandFails \/ \E c \in Composable : Compose(c) \/ Remove(c)
  BY <1>5 DEF Provision, DeleteRepoClaim, EnterClone, GitPull, PullAgain,
              GitFails, WaitEnds, CommandFails, Compose, Remove, PipelineStep
<1>6. CASE UNCHANGED vars
  BY <1>6 DEF vars, PipelineStep
<1>7. QED
  BY <1>1, <1>2, <1>3, <1>4, <1>5, <1>6, LifecycleSteps DEF Apps

\* The commands after the wait are deletions of the six things.
LEMMA DeletionsType ==
  ASSUME NEW h \in Hyperscalers
  PROVE  Deletions[h] \in Seq(Things)
<1>1. h \in {"google", "aws", "azure"}
  OBVIOUS
<1>2. CASE h = "google"
  BY <1>2 DEF Deletions, Things
<1>3. CASE h = "aws"
  BY <1>3 DEF Deletions, Things
<1>4. CASE h = "azure"
  BY <1>4 DEF Deletions, Things
<1>5. QED
  BY <1>1, <1>2, <1>3, <1>4

\* No step breaks the types.
LEMMA LifecycleTypeStep == TypeOK /\ [Next]_vars => TypeOK'
<1> SUFFICES ASSUME TypeOK, [Next]_vars PROVE TypeOK'
  OBVIOUS
<1> USE DEF cloudVars, scriptVars
<1>1. ReleaseTypeOK'
  BY LifecycleIsPipeline, TypeStep DEF TypeOK
<1>2. api' = api => Composable' = Composable
  BY DEF Composable
<1>3. CASE Deliver /\ UNCHANGED <<hyperscaler, api, cloudVars, scriptVars>>
  BY <1>1, <1>2, <1>3 DEF TypeOK
<1>4. CASE Provision
  BY <1>1, <1>2, <1>4 DEF TypeOK, Provision
<1>5. ASSUME NEW c \in Composable, Compose(c) \/ Remove(c) PROVE TypeOK'
  BY <1>1, <1>2, <1>5 DEF TypeOK, Compose, Remove
<1>6. CASE DeleteRepoClaim
  <2>1. repoClaim' \in BOOLEAN
    BY <1>6 DEF TypeOK, DeleteRepoClaim
  <2>2. seen' \in BOOLEAN
    BY <1>6 DEF DeleteRepoClaim
  <2>3. QED
    BY <1>1, <1>2, <1>6, <2>1, <2>2 DEF TypeOK, DeleteRepoClaim, At
<1>7. CASE EnterClone \/ GitPull \/ PullAgain
  <2>1. branch \in Tree
    BY DEF TypeOK, ReleaseTypeOK
  <2>2. QED
    BY <1>1, <1>2, <1>7, <2>1 DEF TypeOK, EnterClone, GitPull, PullAgain, At
<1>8. CASE PushDestroy \/ GitFails
  BY <1>1, <1>2, <1>8 DEF TypeOK, PushDestroy, GitFails, At
<1>9. CASE \/ DeleteApplication("db", "oamDb", "oamApp")
           \/ DeleteApplication("app", "oamApp", "wait")
  BY <1>1, <1>2, <1>9 DEF TypeOK, DeleteApplication, At
<1>10. CASE WaitEnds
  <2>1. left' \in Seq(Things)
    BY <1>10, DeletionsType DEF TypeOK, WaitEnds
  <2>2. QED
    BY <1>1, <1>2, <1>10, <2>1 DEF TypeOK, WaitEnds, At, Things
<1>11. CASE DeleteNext
  <2>1. Head(left) \in Things /\ Tail(left) \in Seq(Things)
    BY <1>11 DEF TypeOK, DeleteNext, Things
  <2>2. QED
    BY <1>1, <1>2, <1>11, <2>1 DEF TypeOK, DeleteNext, Things
<1>12. CASE CommandFails
  <2>1. fault' \in BOOLEAN
    BY <1>12 DEF CommandFails, Deletable
  <2>2. QED
    BY <1>1, <1>2, <1>12, <2>1 DEF TypeOK, CommandFails
<1>13. CASE UNCHANGED vars
  BY <1>1, <1>2, <1>13 DEF TypeOK, vars
<1>14. QED
  BY <1>3, <1>4, <1>5, <1>6, <1>7, <1>8, <1>9, <1>10, <1>11, <1>12, <1>13,
     LifecycleSteps

\* With the Crossplane API nothing is deleted by hand.
LEMMA CrossplaneStep ==
  ASSUME api = "crossplane", [Next]_vars
  PROVE  [ReleaseNext]_releaseVars
<1>1. ASSUME NEW f, NEW a, NEW b, DeleteApplication(f, a, b)
      PROVE  [ReleaseNext]_releaseVars
  BY <1>1 DEF DeleteApplication
<1>2. CASE Deliver
  BY <1>2 DEF ReleaseNext
<1>3. CASE PushDestroy
  BY <1>3 DEF PushDestroy, ReleaseNext
<1>4. CASE DeleteNext
  BY <1>4 DEF DeleteNext, ReleaseNext
<1>5. CASE \/ Provision \/ DeleteRepoClaim \/ EnterClone \/ GitPull \/ PullAgain
           \/ GitFails \/ WaitEnds \/ CommandFails \/ \E c \in Composable : Compose(c) \/ Remove(c)
  BY <1>5 DEF Provision, DeleteRepoClaim, EnterClone, GitPull, PullAgain,
              GitFails, WaitEnds, CommandFails, Compose, Remove
<1>6. CASE UNCHANGED vars
  BY <1>6 DEF vars
<1>7. QED
  BY <1>1, <1>2, <1>3, <1>4, <1>5, <1>6, LifecycleSteps

\* Then only Argo CD changes the claims, as long as the cluster is there.
LEMMA ClaimsOfCluster ==
  ASSUME [ReleaseNext]_releaseVars
  PROVE  /\ \/ up' = up /\ deployed'.apps = deployed.apps
            \/ up' = up /\ deployed'.apps = branch.apps /\ branch' = branch
            \/ LoseCluster
         /\ up' => up
<1>1. ASSUME Sync
      PROVE  up' = up /\ deployed'.apps = branch.apps /\ branch' = branch
  BY <1>1 DEF Sync
<1>2. ASSUME NEW i \in Runs, Submit(i) \/ Task(i)
      PROVE  deployed' = deployed /\ up' = up
  BY <1>2 DEF Submit, Task, GitCheckout, DateTag, RunTests, BuildImage,
              UpdateClaim, GitPush, TaskFails
<1>3. ASSUME Tick \/ Develop \/ RemoveApps \/ Rollout \/ PodsStop
      PROVE  deployed' = deployed /\ up' = up
  BY <1>3 DEF Tick, Develop, RemoveApps, Rollout, PodsStop
<1>4. ASSUME LoseCluster PROVE ~up'
  BY <1>4 DEF LoseCluster
<1>5. QED
  BY <1>1, <1>2, <1>3, <1>4 DEF releaseVars, ReleaseNext, Deliver

\* What a step may do to the managed database, the cluster and the script.
Ended == {"delete", "stopped", "done"}

CloudStep ==
  /\ api' = api
  /\ \/ seen' = seen
     \/ /\ script = "idle" /\ seen' = ("db" \in managed)
        /\ UNCHANGED <<managed, releaseVars>>
  /\ "db" \in managed' => \/ "db" \in managed
                          \/ UNCHANGED releaseVars /\ "db" \in deployed.apps
  /\ "db" \in managed /\ "db" \notin managed' =>
       up /\ UNCHANGED releaseVars /\ "db" \notin deployed.apps /\ ~database'
  /\ database' => database \/ (up /\ "db" \in managed')
  /\ script' \in {"delete", "done"} =>
       script' = script \/ script = "delete" \/ managed' = {}
  /\ script \in Ended => script' \in Ended
  /\ up /\ ~up' => script = "delete" /\ script' \in Ended

LEMMA CloudStepHolds ==
  ASSUME TypeOK, [Next]_vars
  PROVE  CloudStep
<1> USE DEF CloudStep, Ended, cloudVars, scriptVars
<1> /\ database \in BOOLEAN /\ seen \in BOOLEAN /\ up \in BOOLEAN
    /\ database' \in BOOLEAN /\ seen' \in BOOLEAN /\ up' \in BOOLEAN
  BY LifecycleTypeStep DEF TypeOK, ReleaseTypeOK
<1>1. CASE Deliver /\ UNCHANGED <<hyperscaler, api, cloudVars, scriptVars>>
  <2>1. up' = up
    BY <1>1 DEF Deliver, Submit, Task, GitCheckout, DateTag, RunTests,
                BuildImage, UpdateClaim, GitPush, TaskFails, Sync, Rollout,
                PodsStop, Tick, Develop
  <2>2. QED
    BY <1>1, <2>1
<1>2. CASE Provision
  BY <1>2 DEF Provision, releaseVars
<1>3. ASSUME NEW c \in Composable, Compose(c) PROVE CloudStep
  BY <1>3 DEF Compose, Claimed, releaseVars
<1>4. ASSUME NEW c \in Composable, Remove(c) PROVE CloudStep
  <2>1. database' => database
    BY <1>4 DEF Remove, TypeOK
  <2>2. "db" \in managed /\ "db" \notin managed' => c = "db"
    BY <1>4 DEF Remove
  <2>3. c = "db" => "db" \notin deployed.apps /\ ~database'
    BY <1>4 DEF Remove, Claimed
  <2>4. QED
    BY <1>4, <2>1, <2>2, <2>3 DEF Remove, releaseVars
<1>5. CASE DeleteRepoClaim
  BY <1>5 DEF DeleteRepoClaim, At, releaseVars
<1>6. CASE EnterClone \/ GitPull \/ PullAgain \/ GitFails \/ WaitEnds \/ CommandFails
  BY <1>6 DEF EnterClone, GitPull, PullAgain, GitFails, WaitEnds, CommandFails, At,
              releaseVars
<1>7. CASE PushDestroy
  BY <1>7 DEF PushDestroy, RemoveApps, At
<1>8. CASE \/ DeleteApplication("db", "oamDb", "oamApp")
           \/ DeleteApplication("app", "oamApp", "wait")
  BY <1>8 DEF DeleteApplication, DeleteClaim, At, releaseVars
<1>9. CASE DeleteNext
  <2>1. database' => database
    BY <1>9 DEF DeleteNext, TypeOK
  <2>2. script = "delete" /\ script' \in {"delete", "done"}
    BY <1>9 DEF DeleteNext
  <2>3. UNCHANGED <<api, seen, managed>>
    BY <1>9 DEF DeleteNext
  <2>4. QED
    BY <2>1, <2>2, <2>3
<1>10. CASE UNCHANGED vars
  BY <1>10 DEF vars, releaseVars
<1>11. QED
  BY <1>1, <1>2, <1>3, <1>4, <1>5, <1>6, <1>7, <1>8, <1>9, <1>10,
     LifecycleSteps

\* The invariant of the teardown is kept.
LEMMA LifecycleInvStep == LifecycleInv /\ [Next]_vars => LifecycleInv'
<1> SUFFICES ASSUME LifecycleInv, [Next]_vars PROVE LifecycleInv'
  OBVIOUS
<1> USE DEF LifecycleInv
<1>1. PipelineInv' /\ TypeOK'
  BY LifecycleIsPipeline, PipelineInvStep, LifecycleTypeStep
<1>2. CloudStep
  BY CloudStepHolds
<1>3. /\ branch.apps \in {{}, Apps} /\ "db" \in Apps
      /\ branch'.apps \subseteq branch.apps
  <2>1. branch \in Tree /\ ClonesInv /\ ReleaseTypeOK
    BY DEF PipelineInv, ReleaseTypeOK
  <2>2. branch'.apps \subseteq branch.apps
    BY <2>1, LifecycleIsPipeline, BranchStep
  <2>3. QED
    BY <2>1, <2>2 DEF Tree, Apps
<1>4. ASSUME api = "crossplane", up',
             \/ "db" \in deployed.apps
             \/ branch.apps = {} /\ deployed.apps = {}
      PROVE  \/ "db" \in deployed'.apps
             \/ branch'.apps = {} /\ deployed'.apps = {}
  <2>1. ~LoseCluster
    BY <1>4 DEF LoseCluster
  <2>2. QED
    BY <1>3, <1>4, <2>1, CrossplaneStep, ClaimsOfCluster
<1>5. ClaimedInv'
  <2> SUFFICES ASSUME api' = "crossplane", up', seen' \/ "db" \in managed'
               PROVE  \/ "db" \in deployed'.apps
                      \/ branch'.apps = {} /\ deployed'.apps = {}
    BY DEF ClaimedInv
  <2>1. api = "crossplane"
    BY <1>2 DEF CloudStep
  <2>2. up
    BY <2>1, CrossplaneStep, ClaimsOfCluster
  <2>3. seen \/ "db" \in managed \/ "db" \in deployed.apps
    <3>1. "db" \in managed' => "db" \in managed \/ "db" \in deployed.apps
      BY <1>2 DEF CloudStep
    <3>2. seen' => seen \/ "db" \in managed
      BY <1>2 DEF CloudStep
    <3>3. QED
      BY <3>1, <3>2
  <2>4. QED
    BY <1>4, <2>1, <2>2, <2>3 DEF ClaimedInv
<1>6. UnclaimedInv'
  <2> SUFFICES ASSUME api' = "crossplane", seen', "db" \notin managed'
               PROVE  branch'.apps = {} /\ deployed'.apps = {}
    BY DEF UnclaimedInv
  <2>1. api = "crossplane" /\ seen
    BY <1>2 DEF CloudStep
  <2>2. CASE "db" \in managed
    <3>1. up /\ UNCHANGED releaseVars /\ "db" \notin deployed.apps
      BY <1>2, <2>2 DEF CloudStep
    <3>2. QED
      BY <2>1, <3>1 DEF ClaimedInv, releaseVars
  <2>3. CASE "db" \notin managed
    <3>1. branch.apps = {} /\ deployed.apps = {}
      BY <2>1, <2>3 DEF UnclaimedInv
    <3>2. LoseCluster => deployed'.apps = {}
      BY DEF LoseCluster, TypeOK, ReleaseTypeOK
    <3>3. QED
      BY <1>3, <2>1, <3>1, <3>2, CrossplaneStep, ClaimsOfCluster
  <2>4. QED
    BY <2>2, <2>3
<1>7. WaitedInv'
  <2> SUFFICES ASSUME api' = "crossplane", seen',
                      script' \in {"delete", "done"}, "db" \in managed'
               PROVE  FALSE
    BY DEF WaitedInv
  <2>1. api = "crossplane" /\ script \in {"delete", "done"} /\ seen
    <3>1. managed' # {}
      OBVIOUS
    <3>2. script \in {"delete", "done"}
      BY <1>2, <3>1 DEF CloudStep
    <3>3. seen' = seen
      BY <1>2, <3>2 DEF CloudStep
    <3>4. QED
      BY <1>2, <3>2, <3>3 DEF CloudStep
  <2>2. "db" \notin managed /\ deployed.apps = {}
    BY <2>1 DEF WaitedInv, UnclaimedInv
  <2>3. QED
    BY <1>2, <2>2 DEF CloudStep
<1>8. ClusterInv'
  BY <1>2 DEF ClusterInv, CloudStep, Ended
<1>9. NoOrphanedDatabase'
  <2> SUFFICES ASSUME api' = "crossplane", seen', ~up', database'
               PROVE  FALSE
    BY DEF NoOrphanedDatabase
  <2>1. CASE up
    <3>1. script = "delete" /\ api = "crossplane" /\ seen
      BY <1>2, <2>1 DEF CloudStep
    <3>2. "db" \notin managed /\ deployed.apps = {}
      BY <3>1 DEF WaitedInv, UnclaimedInv
    <3>3. "db" \notin managed' /\ ~database
      BY <1>2, <3>2 DEF CloudStep, ClusterInv
    <3>4. QED
      BY <1>2, <3>3 DEF CloudStep
  <2>2. CASE ~up
    <3>1. seen /\ api = "crossplane" /\ database
      BY <1>2, <2>2 DEF CloudStep, ClusterInv
    <3>2. QED
      BY <2>2, <3>1 DEF NoOrphanedDatabase
  <2>3. QED
    BY <2>1, <2>2
<1>10. QED
  BY <1>1, <1>5, <1>6, <1>7, <1>8, <1>9

LEMMA LifecycleInvInit == Init => LifecycleInv
<1> SUFFICES ASSUME Init PROVE LifecycleInv
  OBVIOUS
<1>1. PipelineInv /\ ReleaseTypeOK
  BY PipelineInvInit DEF Init, PipelineInv
<1>2. TypeOK
  <2>1. left \in Seq(Things) /\ clone \in Tree
    BY <1>1 DEF Init, ReleaseTypeOK
  <2>2. /\ repoClaim \in BOOLEAN /\ database \in BOOLEAN /\ seen \in BOOLEAN
        /\ fault \in BOOLEAN
    BY DEF Init
  <2>3. managed = {} /\ gone = {} /\ script = "idle"
    BY DEF Init
  <2>4. hyperscaler \in Hyperscalers /\ api \in Apis
    BY DEF Init
  <2>5. QED
    BY <1>1, <2>1, <2>2, <2>3, <2>4 DEF TypeOK, Things
<1>3. ClaimedInv /\ UnclaimedInv /\ WaitedInv /\ NoOrphanedDatabase
  BY DEF ClaimedInv, UnclaimedInv, WaitedInv, NoOrphanedDatabase, Init
<1>4. ClusterInv
  BY DEF ClusterInv, Init, ReleaseInit
<1>5. QED
  BY <1>1, <1>2, <1>3, <1>4 DEF LifecycleInv
-----------------------------------------------------------------------------
\* The inductive invariant holds in every reachable state.
THEOREM LifecycleInvariant == Spec => []LifecycleInv
BY LifecycleInvInit, LifecycleInvStep, PTL DEF Spec

\* Every variable keeps its type.
THEOREM LifecycleTypeCorrect == Spec => []TypeOK
<1>1. LifecycleInv => TypeOK
  BY DEF LifecycleInv
<1>2. QED
  BY <1>1, LifecycleInvariant, PTL

\* With the Crossplane API "destroy idp" does not lose the cluster before the
\* database it manages (crossplane.nu: main delete crossplane).
THEOREM NoOrphanedDatabaseCorrect == Spec => []NoOrphanedDatabase
<1>1. LifecycleInv => NoOrphanedDatabase
  BY DEF LifecycleInv
<1>2. QED
  BY <1>1, LifecycleInvariant, PTL

\* A teardown, whenever it starts, breaks no promise of the release pipeline.
THEOREM TeardownKeepsPipeline ==
  Spec => /\ [](ClaimIsPullable /\ BrokenNeverLive /\ SuccessIsReleased)
          /\ NeverRollsBack /\ RemovedStaysRemoved
<1>1. LifecycleInv => ClaimIsPullable /\ BrokenNeverLive /\ SuccessIsReleased
  BY DEF LifecycleInv, PipelineInv, ClaimsInv, Pullable, ClaimIsPullable
<1>2. LifecycleInv /\ [Next]_vars
        => [~Collided' /\ live' # 0 => live' >= live]_releaseVars
  BY LifecycleIsPipeline, NeverBack DEF LifecycleInv
<1>3. LifecycleInv /\ [Next]_vars
        => [branch.apps = {} => branch'.apps = {}]_releaseVars
  BY LifecycleIsPipeline, BranchStep DEF LifecycleInv, PipelineInv
<1>4. QED
  BY <1>1, <1>2, <1>3, LifecycleInvariant, PTL
     DEF Spec, NeverRollsBack, RemovedStaysRemoved
=============================================================================
