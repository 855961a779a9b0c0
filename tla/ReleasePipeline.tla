--------------------------- MODULE ReleasePipeline ---------------------------
(***************************************************************************)
(* How a commit reaches production.  A run of workflows/argo.yaml clones   *)
(* the default branch, tests and builds it, pushes an image whose tag is   *)
(* the time, writes the tag into apps/silly-demo.yaml (workflows/dot.nu)   *)
(* and pushes that, without rebasing.  Argo CD makes the cluster agree     *)
(* with the directory apps of the branch (argocd/apps-idp.yaml), and the   *)
(* Deployment pulls the image.  Several runs may be under way, developers  *)
(* commit meanwhile, and the environment may be torn down: see             *)
(* IdpLifecycle, which says by whom.  Git, the registry, Argo and the      *)
(* kubelet are external.                                                   *)
(*                                                                         *)
(* A state of the source is the number of commits that changed it.         *)
(***************************************************************************)
EXTENDS Naturals

CONSTANTS
  Runs,       \* the submissions of the workflow
  MaxSecond,  \* bound: the seconds the clock shows
  MaxSource,  \* bound: the states of the source
  Broken      \* the states of the source whose unit tests fail

ASSUME ReleaseAssumption ==
  /\ MaxSecond \in Nat \ {0} /\ MaxSource \in Nat \ {0}
  /\ Broken \subseteq 1..MaxSource

VARIABLES
  second,    \* what date prints
  branch,    \* the default branch: commits, source, files in apps, tag
  registry,  \* registry[t]: the source the image with tag t was built from
  run,       \* run[i]: its state, the tasks it has done, its tag, its clone
  deployed,  \* the claims in the cluster: files of apps, tag
  live,      \* the source the application's pods run, 0 if there are none
  up         \* whether the cluster is there

releaseVars == <<second, branch, registry, run, deployed, live, up>>

\* The tasks of the DAG and their dependencies.  Variants: build-image does
\* not wait for the tests; gitops does not wait for the image.
NeedsNoTests == [checkout |-> {}, tag |-> {}, tests |-> {"checkout"},
                 build |-> {"checkout", "tag"}, gitops |-> {"build"},
                 push |-> {"gitops"}]
NeedsNoImage == [checkout |-> {}, tag |-> {}, tests |-> {"checkout"},
                 build |-> {"tag", "tests"}, gitops |-> {"checkout", "tag"},
                 push |-> {"gitops"}]

Needs == [checkout |-> {}, tag |-> {}, tests |-> {"checkout"},
          build |-> {"tag", "tests"}, gitops |-> {"build"},
          push |-> {"gitops"}]
Tasks == DOMAIN Needs

\* The tag of crossplane/app.yaml; there is no such image.
FIXME == 0
Apps == {"app", "db"}
Tree == [commits : Nat, source : 1..MaxSource, apps : {{}, Apps},
         tag : 0..MaxSecond]
NoRun(tree) == [state |-> "none", done |-> {}, tag |-> FIXME, tree |-> tree]

ReleaseInit ==
  /\ second = 1
  /\ branch = [commits |-> 1, source |-> 1, apps |-> Apps, tag |-> FIXME]
  /\ registry = [t \in 0..MaxSecond |-> 0]
  /\ run = [i \in Runs |-> NoRun(branch)]
  /\ deployed = [apps |-> {}, tag |-> FIXME]
  /\ live = 0
  /\ up = TRUE
-----------------------------------------------------------------------------
(***************************************************************************)
(* A run of the workflow.  No task is retried; the first that fails ends   *)
(* the run.                                                                *)
(***************************************************************************)
Submit(i) ==
  /\ up /\ run[i].state = "none"
  /\ run' = [run EXCEPT ![i].state = "running"]
  /\ UNCHANGED <<second, branch, registry, deployed, live, up>>

Ready(i, t) == /\ up /\ run[i].state = "running"
               /\ t \notin run[i].done /\ Needs[t] \subseteq run[i].done

Done(r, t) == [r EXCEPT !.done = @ \cup {t},
                        !.state = IF @ = "failed" \/ t # "push" THEN @
                                  ELSE "succeeded"]

\* The pod of a task may be lost after the command has had its effect.
Reported(r) == {r, [r EXCEPT !.state = "failed"]}

GitCheckout(i) ==
  /\ Ready(i, "checkout")
  /\ run' = [run EXCEPT ![i] = Done([@ EXCEPT !.tree = branch], "checkout")]
  /\ UNCHANGED <<second, branch, registry, deployed, live, up>>

DateTag(i) ==
  /\ Ready(i, "tag")
  /\ run' = [run EXCEPT ![i] = Done([@ EXCEPT !.tag = second], "tag")]
  /\ UNCHANGED <<second, branch, registry, deployed, live, up>>

RunTests(i) ==
  /\ Ready(i, "tests") /\ run[i].tree.source \notin Broken
  /\ run' = [run EXCEPT ![i] = Done(@, "tests")]
  /\ UNCHANGED <<second, branch, registry, deployed, live, up>>

\* Kaniko pushes the image, over another one with this tag.
BuildImage(i) ==
  /\ Ready(i, "build")
  /\ registry' = [registry EXCEPT ![run[i].tag] = run[i].tree.source]
  /\ \E r \in Reported(run[i]) : run' = [run EXCEPT ![i] = Done(r, "build")]
  /\ UNCHANGED <<second, branch, deployed, live, up>>

\* Variant: a claim that is not in the clone is written anew.
UpdateClaimAnew(i) ==
  /\ Ready(i, "gitops")
  /\ run' = [run EXCEPT ![i] = Done([@ EXCEPT !.tree.tag = run[i].tag,
                                              !.tree.apps = @ \cup {"app"}],
                                    "gitops")]
  /\ UNCHANGED <<second, branch, registry, deployed, live, up>>

\* Variant: the tag is written where nothing reads it.
UpdateClaimElsewhere(i) ==
  /\ Ready(i, "gitops") /\ "app" \in run[i].tree.apps
  /\ run' = [run EXCEPT ![i] = Done(@, "gitops")]
  /\ UNCHANGED <<second, branch, registry, deployed, live, up>>

\* open fails if the claim is not in the clone.
UpdateClaim(i) ==
  /\ Ready(i, "gitops") /\ "app" \in run[i].tree.apps
  /\ run' = [run EXCEPT ![i] = Done([@ EXCEPT !.tree.tag = run[i].tag],
                                    "gitops")]
  /\ UNCHANGED <<second, branch, registry, deployed, live, up>>

\* Variant: git push --force.
GitPushForced(i) ==
  /\ Ready(i, "push")
  /\ branch' = [run[i].tree EXCEPT !.commits = branch.commits + 1]
  /\ \E r \in Reported(run[i]) : run' = [run EXCEPT ![i] = Done(r, "push")]
  /\ UNCHANGED <<second, registry, deployed, live, up>>

\* GitHub refuses a push onto a branch that has moved since the clone.  With
\* nothing to commit the push is an empty one: git commit fails unnoticed.
GitPush(i) ==
  /\ Ready(i, "push") /\ run[i].tree.commits = branch.commits
  /\ branch' = IF run[i].tree = branch THEN branch
               ELSE [run[i].tree EXCEPT !.commits = @ + 1]
  /\ \E r \in Reported(run[i]) : run' = [run EXCEPT ![i] = Done(r, "push")]
  /\ UNCHANGED <<second, registry, deployed, live, up>>

\* Any task may fail, and those whose conditions above do not hold must.
TaskFails(i) ==
  /\ up /\ run[i].state = "running"
  /\ run' = [run EXCEPT ![i].state = "failed"]
  /\ UNCHANGED <<second, branch, registry, deployed, live, up>>

Task(i) == \/ GitCheckout(i) \/ DateTag(i) \/ RunTests(i) \/ BuildImage(i)
           \/ UpdateClaim(i) \/ GitPush(i) \/ TaskFails(i)
-----------------------------------------------------------------------------
(***************************************************************************)
(* The cluster.                                                            *)
(***************************************************************************)
\* Variant: Argo CD without prune.
SyncKeeps ==
  /\ up
  /\ deployed' = [apps |-> deployed.apps \cup branch.apps, tag |-> branch.tag]
  /\ UNCHANGED <<second, branch, registry, run, live, up>>

\* Argo CD with selfHeal, prune and allowEmpty.
Sync ==
  /\ up
  /\ deployed' = [apps |-> branch.apps, tag |-> branch.tag]
  /\ UNCHANGED <<second, branch, registry, run, live, up>>

\* The pods of the new tag replace the old ones when they can be pulled.
Rollout ==
  /\ up /\ "app" \in deployed.apps /\ registry[deployed.tag] # 0
  /\ live' = registry[deployed.tag]
  /\ UNCHANGED <<second, branch, registry, run, deployed, up>>

PodsStop ==
  /\ up /\ "app" \notin deployed.apps /\ live' = 0
  /\ UNCHANGED <<second, branch, registry, run, deployed, up>>
-----------------------------------------------------------------------------
(***************************************************************************)
(* Time, developers, and the steps of a teardown.                          *)
(***************************************************************************)
Tick ==
  /\ second < MaxSecond /\ second' = second + 1
  /\ UNCHANGED <<branch, registry, run, deployed, live, up>>

Develop ==
  /\ branch.source < MaxSource
  /\ branch' = [branch EXCEPT !.source = @ + 1, !.commits = @ + 1]
  /\ UNCHANGED <<second, registry, run, deployed, live, up>>

\* A commit without apps/*.yaml is pushed.
RemoveApps ==
  /\ branch.apps # {}
  /\ branch' = [branch EXCEPT !.apps = {}, !.commits = @ + 1]
  /\ UNCHANGED <<second, registry, run, deployed, live, up>>

\* By hand; IdpLifecycle says when.
DeleteClaim(f) ==
  /\ deployed' = [deployed EXCEPT !.apps = @ \ {f}]
  /\ UNCHANGED <<second, branch, registry, run, live, up>>

LoseCluster ==
  /\ up' = FALSE /\ live' = 0 /\ deployed' = [deployed EXCEPT !.apps = {}]
  /\ UNCHANGED <<second, branch, registry, run>>

Deliver == \/ \E i \in Runs : Submit(i) \/ Task(i)
           \/ Sync \/ Rollout \/ PodsStop \/ Tick \/ Develop

ReleaseNext == Deliver \/ RemoveApps \/ LoseCluster

ReleaseSpec == ReleaseInit /\ [][ReleaseNext]_releaseVars

\* Argo CD polls the branch, and pods that can be replaced are.
ReleaseFairness == WF_releaseVars(Sync) /\ WF_releaseVars(Rollout)

ReleaseFairSpec == ReleaseSpec /\ ReleaseFairness
-----------------------------------------------------------------------------
ReleaseTypeOK ==
  /\ second \in 1..MaxSecond
  /\ branch \in Tree
  /\ registry \in [0..MaxSecond -> 0..MaxSource]
  /\ run \in [Runs -> [state : {"none", "running", "failed", "succeeded"},
                       done : SUBSET Tasks, tag : 0..MaxSecond, tree : Tree]]
  /\ deployed \in [apps : SUBSET Apps, tag : 0..MaxSecond]
  /\ live \in 0..MaxSource
  /\ up \in BOOLEAN

Succeeded(i) == run[i].state = "succeeded"

\* Two runs were given their tag in the same second (argo.yaml:80).
Collided == \E i, j \in Runs : /\ i # j /\ run[i].tag = run[j].tag
                               /\ "tag" \in run[i].done \cap run[j].done

\* Whatever tasks failed half way, the claim in the branch, once a run has
\* changed it, names an image that can be pulled.
ClaimIsPullable ==
  branch.tag # FIXME => registry[branch.tag] # 0

\* Source whose tests fail never runs in production, even if two runs race
\* for one tag.
BrokenNeverLive == live \notin Broken

\* A run that succeeded has released its source, or a later one was: no other
\* run's push, based on an older clone, has undone it.  With one tag for two
\* images that is not so: the slower build replaces the image of the other.
SuccessIsReleased ==
  ~Collided => \A i \in Runs :
    Succeeded(i) => registry[branch.tag] >= run[i].tree.source

\* The application never goes back to older source, whichever run finishes
\* first, unless two runs share a tag.
NeverRollsBack ==
  [][~Collided' /\ live' # 0 => live' >= live]_releaseVars

\* Once the applications are removed from the branch, no run that cloned it
\* before, or finds it without them, brings them back.
RemovedStaysRemoved ==
  [][branch.apps = {} => branch'.apps = {}]_releaseVars

\* What a run that succeeded has built, or later source, gets into production,
\* unless two runs had one tag or the environment is taken down.
ReleaseArrives ==
  \A i \in Runs : Succeeded(i) ~>
    \/ live >= run[i].tree.source
    \/ Collided \/ ~up \/ branch.apps = {}
=============================================================================
