----------------------------- MODULE IdpLifecycle -----------------------------
(***************************************************************************)
(* The environment the release pipeline works in, and its end: Crossplane  *)
(* makes what the claims in the cluster ask for, and "./dot.nu destroy     *)
(* idp" takes everything down (dot.nu, crossplane.nu, kubernetes.nu) while *)
(* workflows may be running and Argo CD keeps the cluster as the branch    *)
(* says.  The script runs its commands in order; the error of one ends it, *)
(* or the block "do --ignore-errors" it is in.  Crossplane, KubeVela and   *)
(* the clouds are external.                                                *)
(***************************************************************************)
EXTENDS ReleasePipeline, Sequences

CONSTANTS
  Hyperscalers,  \* of google, aws, azure
  Apis           \* of crossplane, kubevela

ASSUME LifecycleAssumption ==
  Hyperscalers \subseteq {"google", "aws", "azure"} /\
  Apis \subseteq {"crossplane", "kubevela"}

VARIABLES
  hyperscaler, api,  \* chosen during the setup
  repoClaim,  \* whether the claim of crossplane/repo.yaml is there
  managed,    \* the claims whose managed resources exist
  database,   \* whether the database server exists in the cloud
  script,     \* where the script is
  left,       \* the commands that remain after the wait
  clone,      \* the branch when the script last pulled it
  seen,       \* whether the database was managed when the script started
  gone,       \* what the script has deleted
  fault       \* whether a command failed although it could have worked

scriptVars == <<script, left, clone, seen, gone, fault>>
cloudVars == <<repoClaim, managed, database>>
vars == <<releaseVars, hyperscaler, api, cloudVars, scriptVars>>

\* Variant: the network that only upcloud has.
DeletionsWithNetwork ==
  [google |-> <<"project", "cluster", "project", "repo">>,
   aws    |-> <<"addon", "nodegroup", "cluster", "repo">>,
   azure  |-> <<"cluster", "group", "network", "repo">>]

\* The deletions of dot.nu:61-71 and kubernetes.nu:141-208, in order.
Deletions ==
  [google |-> <<"project", "cluster", "project", "repo">>,
   aws    |-> <<"addon", "nodegroup", "cluster", "repo">>,
   azure  |-> <<"cluster", "group", "repo">>]

Init ==
  /\ ReleaseInit
  /\ hyperscaler \in Hyperscalers /\ api \in Apis
  /\ repoClaim = TRUE /\ managed = {} /\ database = FALSE
  /\ script = "idle" /\ left = <<>> /\ clone = branch /\ seen = FALSE
  /\ gone = {} /\ fault = FALSE
-----------------------------------------------------------------------------
(***************************************************************************)
(* Crossplane.  The claim of the application only has managed resources if *)
(* it is an AppClaim; KubeVela makes the Deployment itself.                *)
(***************************************************************************)
Claimed(c) == IF c = "repo" THEN repoClaim ELSE c \in deployed.apps
Composable == {"repo", "db"} \cup (IF api = "crossplane" THEN {"app"} ELSE {})

Compose(c) ==
  /\ up /\ Claimed(c) /\ managed' = managed \cup {c}
  /\ UNCHANGED <<releaseVars, hyperscaler, api, repoClaim, database, scriptVars>>

Provision ==
  /\ up /\ "db" \in managed /\ database' = TRUE
  /\ UNCHANGED <<releaseVars, hyperscaler, api, repoClaim, managed, scriptVars>>

\* A managed resource goes after its claim and what it manages.  (The
\* repository on GitHub stays; the script deletes it itself.)
Remove(c) ==
  /\ up /\ c \in managed /\ ~Claimed(c)
  /\ managed' = managed \ {c}
  /\ database' = (database /\ c # "db")
  /\ UNCHANGED <<releaseVars, hyperscaler, api, repoClaim, scriptVars>>
-----------------------------------------------------------------------------
(***************************************************************************)
(* ./dot.nu destroy idp                                                    *)
(***************************************************************************)
At(from, to) == script = from /\ script' = to

\* kubectl delete --filename crossplane/repo.yaml
DeleteRepoClaim ==
  /\ At("idle", "enter") /\ repoClaim' \in {FALSE, repoClaim}
  /\ seen' = ("db" \in managed)
  /\ UNCHANGED <<releaseVars, hyperscaler, api, managed, database, left, clone,
                 gone, fault>>

\* cd cncf-demo-app, outside the blocks: without the clone the script ends.
EnterClone ==
  /\ At("enter", "pull")
  /\ UNCHANGED <<releaseVars, hyperscaler, api, cloudVars, left, clone, seen,
                 gone, fault>>

GitPull ==
  /\ At("pull", "merge") /\ clone' = branch
  /\ UNCHANGED <<releaseVars, hyperscaler, api, cloudVars, left, seen, gone,
                 fault>>

\* apps/*.yaml has been removed and the removal committed.  A branch that has
\* moved meanwhile is merged, unless the claim was changed that the commit
\* removes (or git is not told how to merge: GitFails).
PullAgain ==
  /\ At("merge", "push") /\ branch.tag = clone.tag /\ clone' = branch
  /\ UNCHANGED <<releaseVars, hyperscaler, api, cloudVars, left, seen, gone,
                 fault>>

\* The push is refused if the branch has moved again.
PushDestroy ==
  /\ At("push", "oamDb") /\ branch.commits = clone.commits /\ RemoveApps
  /\ UNCHANGED <<hyperscaler, api, cloudVars, left, clone, seen, gone, fault>>

\* Any command of the block fails; the rest of the block is skipped.
GitFails ==
  /\ script \in {"pull", "merge", "push"} /\ script' = "oamDb"
  /\ UNCHANGED <<releaseVars, hyperscaler, api, cloudVars, left, clone, seen,
                 gone, fault>>

\* kubectl delete application.core.oam.dev: with the Crossplane API there is
\* no such resource.  The error is ignored, as any other.
DeleteApplication(f, from, to) ==
  /\ At(from, to)
  /\ \/ api = "kubevela" /\ DeleteClaim(f)
     \/ UNCHANGED releaseVars
  /\ UNCHANGED <<hyperscaler, api, cloudVars, left, clone, seen, gone, fault>>

DeleteApplications == \/ DeleteApplication("db", "oamDb", "oamApp")
                      \/ DeleteApplication("app", "oamApp", "wait")

\* Variant: nobody waits.
NoWait ==
  /\ At("wait", "delete") /\ left' = Deletions[hyperscaler]
  /\ UNCHANGED <<releaseVars, hyperscaler, api, cloudVars, clone, seen, gone,
                 fault>>

\* main delete crossplane, until kubectl get managed lists nothing.
WaitEnds ==
  /\ At("wait", "delete") /\ managed = {} /\ left' = Deletions[hyperscaler]
  /\ UNCHANGED <<releaseVars, hyperscaler, api, cloudVars, clone, seen, gone,
                 fault>>

\* What a deletion needs: the thing itself, and the project it is in.
Deletable(x) == /\ x \notin gone
                /\ x \in {"project", "cluster"} => "project" \notin gone

\* Deleting the project deletes what is in it.  No nodes, no controllers.
DeleteNext ==
  /\ script = "delete" /\ left # <<>> /\ Deletable(Head(left))
  /\ gone' = gone \cup {Head(left)} /\ left' = Tail(left)
  /\ script' = IF Tail(left) = <<>> THEN "done" ELSE "delete"
  /\ database' = (database /\ Head(left) # "project")
  /\ IF Head(left) \in {"project", "nodegroup", "cluster"} THEN LoseCluster
     ELSE UNCHANGED releaseVars
  /\ UNCHANGED <<hyperscaler, api, repoClaim, managed, clone, seen, fault>>

\* An error outside the blocks ends the script.
CommandFails ==
  /\ script \in {"enter", "wait", "delete"} /\ script' = "stopped"
  /\ fault' = (script # "delete" \/ Deletable(Head(left)))
  /\ UNCHANGED <<releaseVars, hyperscaler, api, cloudVars, left, clone, seen,
                 gone>>

ScriptStep == EnterClone \/ GitPull \/ PullAgain \/ PushDestroy \/ GitFails
              \/ DeleteApplications \/ WaitEnds \/ DeleteNext \/ CommandFails

Next ==
  \/ Deliver /\ UNCHANGED <<hyperscaler, api, cloudVars, scriptVars>>
  \/ Provision
  \/ \E c \in Composable : Compose(c) \/ Remove(c)
  \/ DeleteRepoClaim \/ ScriptStep

Spec == Init /\ [][Next]_vars

\* Argo CD's fairness, Crossplane's and the providers' where they delete,
\* and the shell's, which goes on with its next command.  A command may fail,
\* but kubectl get does not have to.
Fairness ==
  /\ ReleaseFairness
  /\ \A c \in {"repo", "db", "app"} : WF_vars(Remove(c))
  /\ WF_vars(EnterClone \/ GitPull \/ GitFails \/ DeleteApplications \/ WaitEnds)
  /\ WF_vars(DeleteNext) /\ WF_vars(script = "delete" /\ CommandFails)

FairSpec == Spec /\ Fairness
-----------------------------------------------------------------------------
TypeOK ==
  /\ ReleaseTypeOK
  /\ hyperscaler \in Hyperscalers /\ api \in Apis
  /\ repoClaim \in BOOLEAN /\ managed \subseteq Composable
  /\ database \in BOOLEAN
  /\ script \in {"idle", "enter", "pull", "merge", "push", "oamDb", "oamApp",
                 "wait", "delete", "stopped", "done"}
  /\ left \in Seq({"project", "addon", "nodegroup", "cluster", "group", "repo"})
  /\ clone \in Tree /\ seen \in BOOLEAN /\ fault \in BOOLEAN
  /\ gone \subseteq {"project", "addon", "nodegroup", "cluster", "group", "repo"}

\* With the Crossplane API, the cluster goes only after the database that it
\* managed when the script started, though the polls read what the controllers
\* have made so far, and whether or not the deletion of the claims could be
\* pushed.  (KubeVela's applications are deleted by hand, and Argo CD may bring
\* one back after the last poll.)
NoOrphanedDatabase == api = "crossplane" /\ seen /\ ~up => ~database

\* The wait for the managed resources, which has no timeout, ends if the
\* claims could be removed from the branch and the cluster.
DestroyEnds ==
  script = "wait" /\ branch.apps = {} /\ ~repoClaim
    ~> script \in {"stopped", "done"}

\* "Destroys the IDP chapter" (dot.nu:19): when the script has ended, and no
\* command failed that could have worked, the repository is gone, and so is the
\* cluster or the project it was in.
DestroyComplete ==
  script \in {"stopped", "done"} /\ ~fault =>
    "repo" \in gone /\ gone \cap {"cluster", "project"} # {}
=============================================================================
