----------------------------- MODULE E2ESuites -----------------------------
(***************************************************************************)
(* The end-to-end suites (tests/e2e), the compositions they exercise       *)
(* (apis/v1alpha1) and the cleanup script.  KUTTL applies a composite      *)
(* resource (XR), waits until it is Ready, looks at its managed resources  *)
(* (MRs) and at Azure, deletes the XR and waits until it is gone.          *)
(* Meanwhile Crossplane composes MRs and writes the status of the XR, the  *)
(* providers make Azure agree with the MRs, and the garbage collector      *)
(* deletes the MRs of an XR that is gone.  Each of them acts on what it    *)
(* last saw, in its own time.  KUTTL, Crossplane, the providers and Azure  *)
(* are external: they are modelled by what the manifests ask of them.      *)
(***************************************************************************)
EXTENDS Naturals

CONSTANTS
  Suites,       \* the test directories that are run: storage, postgres
  MaxRuns,      \* bound: how often the suites are run
  Campaigns,    \* the suites each of these runs is given: all of them by
                \* scripts/run-e2e-tests.sh, one by hand (dev.md:1859), or none
  MayClean,     \* the campaigns in which the cleanup script may run, once
  MayLose       \* the campaigns in which the cluster may be lost, once

ASSUME SuitesAssumption ==
  /\ Suites \subseteq {"storage", "postgres"}
  /\ MaxRuns \in Nat \ {0} /\ Campaigns \subseteq [1..MaxRuns -> SUBSET Suites]
  /\ MayClean \subseteq Campaigns /\ MayLose \subseteq Campaigns

\* The order of kuttl-test.yaml, whose "parallel" is 1.
Before(s) == IF s = "postgres" THEN {"storage"} \cap Suites ELSE {}

\* The resources a composition composes, and the Azure object each manages:
\* both resource groups have the external name crossplane-e2e-test-rg.
Composes(s) == IF s = "storage" THEN {"clusterGroup", "account"}
               ELSE {"namespacedGroup", "server", "database"}
Resources == UNION {Composes(s) : s \in Suites}
SuiteOf(k) == CHOOSE s \in Suites : k \in Composes(s)
Groups == {"clusterGroup", "namespacedGroup"}
ObjectOf(k) == IF k \in Groups THEN "group" ELSE k
Objects == {ObjectOf(k) : k \in Resources}
ObjectsOf(s) == {ObjectOf(k) : k \in Composes(s)}

\* What an object is inside of, all the way up.
Inside(o) == CASE o = "group" -> {}
               [] o = "database" -> {"group", "server"}
               [] OTHER -> {"group"}

\* The MRs another one refers to: resourceGroupNameRef and serverIdSelector.
\* The account names its group without a reference.
Refers(k) == CASE k = "server" -> {"namespacedGroup"}
               [] k = "database" -> {"server"}
               [] OTHER -> {}

\* The MR whose external name the composition copies into the status.
Named(s) == IF s = "storage" THEN {"account"} ELSE {"server", "database"}

\* The tags an object has: those in its composition, or, for a group made by
\* step 12 of the setup, "purpose".
TagsOf(k) == IF k \in Groups \cup {"account"} THEN {"managedBy", "environment"}
             ELSE {}

\* The MRs that leave their object in Azure when they are deleted: no
\* composition sets a deletionPolicy.  Variant: the ones that hold data do.
KeptWithData == {"account", "server", "database"}

Kept == {}

VARIABLES
  campaign, \* the suites of each run
  run,    \* how often the suites were run
  step,   \* step[s]: the KUTTL step suite s is in
  xr,     \* xr[s]: the XR of the suite: state, the run it is of, its status
          \* and whether the last reconcile saw all its MRs Ready
  mr,     \* mr[k]: the managed resource: state, the run of its owner, Ready
  azure,  \* azure[o]: the object in Azure
  tags,   \* tags[o]: its tags
  script, \* where scripts/cleanup-test-resources.sh is
  lost    \* whether the cluster was lost

vars == <<campaign, run, step, xr, mr, azure, tags, script, lost>>

NoXR == [state |-> "absent", run |-> 0, ready |-> FALSE, named |-> FALSE,
         seen |-> FALSE]
NoMR == [state |-> "absent", run |-> 0, ready |-> FALSE]
Finished == {"passed", "failed", "skipped"}

\* The n-th run: where the suites are, those it is given and the others.
Chosen(n) ==
  [s \in Suites |-> IF s \in campaign[n] THEN "waiting" ELSE "skipped"]

\* The setup has created the resource group.
Init ==
  /\ campaign \in Campaigns
  /\ run = 1
  /\ step = Chosen(1)
  /\ xr = [s \in Suites |-> NoXR]
  /\ mr = [k \in Resources |-> NoMR]
  /\ azure = [o \in Objects |-> IF o = "group" THEN "present" ELSE "absent"]
  /\ tags = [o \in Objects |->
               IF o = "group" THEN {"environment", "purpose"} ELSE {}]
  /\ script = "idle"
  /\ lost = FALSE
-----------------------------------------------------------------------------
(***************************************************************************)
(* KUTTL.                                                                  *)
(***************************************************************************)
\* Variant: "$patch: delete" is taken for a field like any other.
DeletedByPatch(x) == x

\* kubectl delete, or a delete step: Crossplane removes the XR later.
Deleted(x) == IF x.state = "absent" THEN x ELSE [x EXCEPT !.state = "deleting"]

\* Step 00.  Applying over an XR that is being deleted changes nothing.
Apply(s) ==
  /\ step[s] = "waiting" /\ \A t \in Before(s) : step[t] \in Finished
  /\ step' = [step EXCEPT ![s] = "00"]
  /\ xr' = [xr EXCEPT ![s] =
       IF @.state = "absent" THEN [NoXR EXCEPT !.state = "present", !.run = run]
       ELSE @]
  /\ UNCHANGED <<campaign, run, mr, azure, tags, script, lost>>

\* 00-assert: the XR is Synced and Ready.
AssertReady(s) ==
  /\ step[s] = "00" /\ xr[s].ready
  /\ step' = [step EXCEPT ![s] = "01"]
  /\ UNCHANGED <<campaign, run, xr, mr, azure, tags, script, lost>>

\* Step 01: the MRs are Ready (the storage suite does not ask for its group),
\* the status has the names, and Azure has objects of these names.  Then step
\* 02 deletes the XR.
Verify(s) ==
  /\ step[s] = "01" /\ xr[s].named
  /\ \A k \in Composes(s) \ (IF s = "storage" THEN Groups ELSE {}) :
       mr[k].state # "absent" /\ mr[k].ready
  /\ \A k \in Named(s) : azure[ObjectOf(k)] = "present"
  /\ step' = [step EXCEPT ![s] = "02"]
  /\ xr' = [xr EXCEPT ![s] = Deleted(@)]
  /\ UNCHANGED <<campaign, run, mr, azure, tags, script, lost>>

\* 02-assert: "kubectl get" fails, because the XR is gone or because the
\* command cannot be answered.
AssertDeleted(s) ==
  /\ step[s] = "02"
  /\ step' = [step EXCEPT ![s] = "passed"]
  /\ UNCHANGED <<campaign, run, xr, mr, azure, tags, script, lost>>

\* The timeout of a step; KUTTL then deletes what it has applied.
Timeout(s) ==
  /\ step[s] \in {"00", "01", "02"}
  /\ step' = [step EXCEPT ![s] = "failed"]
  /\ xr' = [xr EXCEPT ![s] = Deleted(@)]
  /\ UNCHANGED <<campaign, run, mr, azure, tags, script, lost>>

LastRun == run = MaxRuns \/ campaign[run + 1] = {}

\* KUTTL is started again.
RunAgain ==
  /\ ~LastRun /\ \A s \in Suites : step[s] \in Finished
  /\ run' = run + 1
  /\ step' = Chosen(run + 1)
  /\ UNCHANGED <<campaign, xr, mr, azure, tags, script, lost>>
-----------------------------------------------------------------------------
(***************************************************************************)
(* Crossplane and the garbage collector.                                   *)
(***************************************************************************)
Owned(k, s) == mr[k].state # "absent" /\ mr[k].run = xr[s].run

\* Variant: the composed resource has no owner.
ComposeUnowned(k) ==
  /\ xr[SuiteOf(k)].state = "present" /\ mr[k].state = "absent"
  /\ mr' = [mr EXCEPT ![k].state = "live"]
  /\ UNCHANGED <<campaign, run, step, xr, azure, tags, script, lost>>

\* A composed resource whose name is taken by an MR of another owner cannot be
\* applied.
Compose(k) ==
  /\ xr[SuiteOf(k)].state = "present" /\ mr[k].state = "absent"
  /\ mr' = [mr EXCEPT ![k] =
              [NoMR EXCEPT !.state = "live", !.run = xr[SuiteOf(k)].run]]
  /\ UNCHANGED <<campaign, run, step, xr, azure, tags, script, lost>>

\* Variant: auto-ready that does not wait for every composed resource.
CopyNamesEarly(s) ==
  /\ xr[s].state = "present"
  /\ xr' = [xr EXCEPT
       ![s].seen = \A k \in Composes(s) : Owned(k, s) => mr[k].ready,
       ![s].named = @ \/ \A k \in Named(s) : Owned(k, s)]
  /\ UNCHANGED <<campaign, run, step, mr, azure, tags, script, lost>>

\* A reconcile looks at the MRs: auto-ready makes the XR Ready when all of them
\* are, and the patches copy the names.  Crossplane writes what the patches
\* have put into the status ...
CopyNames(s) ==
  /\ xr[s].state = "present"
  /\ xr' = [xr EXCEPT
       ![s].seen = \A k \in Composes(s) : Owned(k, s) /\ mr[k].ready,
       ![s].named = @ \/ \A k \in Named(s) : Owned(k, s)]
  /\ UNCHANGED <<campaign, run, step, mr, azure, tags, script, lost>>

\* Variant: the condition is written for what the MRs are by then.
SetReadyAnew(s) ==
  /\ xr[s].state = "present"
  /\ xr' = [xr EXCEPT
       ![s].ready = \A k \in Composes(s) : Owned(k, s) /\ mr[k].ready]
  /\ UNCHANGED <<campaign, run, step, mr, azure, tags, script, lost>>

\* ... and then the condition, both for what the reconcile saw.
SetReady(s) ==
  /\ xr[s].state = "present"
  /\ xr' = [xr EXCEPT ![s].ready = xr[s].seen]
  /\ UNCHANGED <<campaign, run, step, mr, azure, tags, script, lost>>

FinalizeXR(s) ==
  /\ xr[s].state = "deleting"
  /\ xr' = [xr EXCEPT ![s] = NoXR]
  /\ UNCHANGED <<campaign, run, step, mr, azure, tags, script, lost>>

\* The owner of the MR is gone.
Collect(k) ==
  /\ mr[k].state = "live" /\ xr[SuiteOf(k)].run # mr[k].run
  /\ mr' = [mr EXCEPT ![k].state = "deleting", ![k].ready = FALSE]
  /\ UNCHANGED <<campaign, run, step, xr, azure, tags, script, lost>>
-----------------------------------------------------------------------------
(***************************************************************************)
(* The providers and Azure.                                                *)
(***************************************************************************)
\* The provider creates what it does not find.
Create(k) ==
  /\ mr[k].state = "live" /\ azure[ObjectOf(k)] = "absent"
  /\ \A o \in Inside(ObjectOf(k)) : azure[o] = "present"
  /\ \A j \in Refers(k) : mr[j].state # "absent"
  /\ azure' = [azure EXCEPT ![ObjectOf(k)] = "present"]
  /\ tags' = [tags EXCEPT ![ObjectOf(k)] = TagsOf(k)]
  /\ UNCHANGED <<campaign, run, step, xr, mr, script, lost>>

\* It takes over what it finds, gives it its tags, and reports it.
Observe(k) ==
  /\ mr[k].state = "live"
  /\ mr' = [mr EXCEPT ![k].ready = azure[ObjectOf(k)] # "absent"]
  /\ tags' = IF azure[ObjectOf(k)] = "present"
             THEN [tags EXCEPT ![ObjectOf(k)] = TagsOf(k)] ELSE tags
  /\ UNCHANGED <<campaign, run, step, xr, azure, script, lost>>

\* An MR that is being deleted deletes its object ...  (A provider may be
\* configured to refuse while a group is not empty: see Fairness.)
Delete(k) ==
  /\ mr[k].state = "deleting" /\ k \notin Kept
  /\ azure[ObjectOf(k)] = "present"
  /\ azure' = [azure EXCEPT ![ObjectOf(k)] = "deleting"]
  /\ UNCHANGED <<campaign, run, step, xr, mr, tags, script, lost>>

\* ... and goes when it does not find it any more.
FinalizeMR(k) ==
  /\ mr[k].state = "deleting"
  /\ azure[ObjectOf(k)] = "absent" \/ k \in Kept
  /\ mr' = [mr EXCEPT ![k] = NoMR]
  /\ UNCHANGED <<campaign, run, step, xr, azure, tags, script, lost>>

\* A deletion takes its time in Azure, and takes what is inside along.
Vanish(o) ==
  /\ azure[o] = "deleting"
  /\ LET gone == {p \in Objects : p = o \/ o \in Inside(p)} IN
       /\ azure' = [p \in Objects |-> IF p \in gone THEN "absent" ELSE azure[p]]
       /\ tags' = [p \in Objects |-> IF p \in gone THEN {} ELSE tags[p]]
  /\ UNCHANGED <<campaign, run, step, xr, mr, script, lost>>

\* The cluster is deleted and set up anew, with nothing of the tests in it.
LoseCluster ==
  /\ campaign \in MayLose /\ ~lost /\ lost' = TRUE
  /\ step' = [s \in Suites |-> "failed"]
  /\ xr' = [s \in Suites |-> NoXR]
  /\ mr' = [k \in Resources |-> NoMR]
  /\ UNCHANGED <<campaign, run, azure, tags, script>>
-----------------------------------------------------------------------------
(***************************************************************************)
(* The cleanup script.                                                     *)
(***************************************************************************)
Gone(s) == s \in Suites => xr[s].state # "deleting"

\* kubectl delete xpostgresqldatabase waits until the XR is gone.
ScriptStart ==
  /\ campaign \in MayClean /\ script = "idle" /\ script' = "postgres"
  /\ xr' = [s \in Suites |->
               IF s = "postgres" THEN Deleted(xr[s]) ELSE xr[s]]
  /\ UNCHANGED <<campaign, run, step, mr, azure, tags, lost>>

\* set -e: the script stops if its first command or "az resource list" fails.
ScriptStops ==
  /\ script \in {"postgres", "storage"} /\ script' = "stopped"
  /\ UNCHANGED <<campaign, run, step, xr, mr, azure, tags, lost>>

\* kubectl delete xstorageaccount: "|| true" goes on if it fails, before the
\* request or while it waits for the XR to go.
ScriptStorage ==
  /\ script = "postgres" /\ Gone("postgres")
  /\ script' = "storage"
  /\ \/ xr' = [s \in Suites |-> IF s = "storage" THEN Deleted(xr[s]) ELSE xr[s]]
     \/ UNCHANGED xr
  /\ UNCHANGED <<campaign, run, step, mr, azure, tags, lost>>

\* az resource list --tag purpose=e2e-testing; a group is not a resource, and
\* a database goes with its server.
Listed == Objects \cap {"account", "server"}
Tagged == {o \in Listed : azure[o] = "present" /\ "purpose" \in tags[o]}

\* After 30 seconds, in which anything or nothing may have happened.  xargs
\* tries every object and fails if one deletion does.
ScriptOrphans ==
  /\ script = "storage"
  /\ \E deleted \in SUBSET Tagged :
       /\ script' = IF deleted = Tagged THEN "done" ELSE "stopped"
       /\ azure' = [o \in Objects |->
                      IF o \in deleted THEN "deleting" ELSE azure[o]]
  /\ UNCHANGED <<campaign, run, step, xr, mr, tags, lost>>

CleanupStep == ScriptStorage \/ ScriptStops \/ ScriptOrphans

Kuttl(s) == AssertReady(s) \/ Verify(s) \/ AssertDeleted(s) \/ Timeout(s)
Crossplane(s) == CopyNames(s) \/ SetReady(s) \/ FinalizeXR(s)
Provider(k) == Create(k) \/ Observe(k) \/ Delete(k) \/ FinalizeMR(k)

Next ==
  \/ \E s \in Suites : Apply(s) \/ Kuttl(s) \/ Crossplane(s)
  \/ \E k \in Resources : Compose(k) \/ Collect(k) \/ Provider(k)
  \/ \E o \in Objects : Vanish(o)
  \/ RunAgain \/ LoseCluster \/ ScriptStart \/ CleanupStep

Spec == Init /\ [][Next]_vars

(***************************************************************************)
(* Fairness: KUTTL's timeouts, the reconcile loops of Crossplane and the   *)
(* providers, the garbage collector, and Azure.  The providers owe the     *)
(* deletion of a group only when it is empty.  Nobody has to start the     *)
(* suites or the script.                                                   *)
(***************************************************************************)
DeleteEmpty(k) ==
  /\ k \in Groups => \A o \in Objects \ {"group"} : azure[o] = "absent"
  /\ Delete(k)

Fairness ==
  /\ \A s \in Suites : WF_vars(Kuttl(s)) /\ WF_vars(FinalizeXR(s))
  /\ \A k \in Resources : WF_vars(Collect(k)) /\ WF_vars(DeleteEmpty(k))
                          /\ WF_vars(FinalizeMR(k))
  /\ \A o \in Objects : WF_vars(Vanish(o))

FairSpec == Spec /\ Fairness
-----------------------------------------------------------------------------
\* Types; an XR or MR that exists belongs to a run.
TypeOK ==
  /\ campaign \in Campaigns /\ run \in 1..MaxRuns
  /\ step \in [Suites -> {"waiting", "00", "01", "02"} \cup Finished]
  /\ xr \in [Suites -> {NoXR} \cup
               [state : {"present", "deleting"}, run : 1..MaxRuns,
                ready : BOOLEAN, named : BOOLEAN, seen : BOOLEAN]]
  /\ mr \in [Resources -> {NoMR} \cup
               [state : {"live", "deleting"}, run : 1..MaxRuns,
                ready : BOOLEAN]]
  /\ azure \in [Objects -> {"absent", "present", "deleting"}]
  /\ tags \in [Objects -> SUBSET {"managedBy", "environment", "purpose"}]
  /\ script \in {"idle", "postgres", "storage", "done", "stopped"}
  /\ lost \in BOOLEAN

\* Unless the cluster was lost, an object in Azure that was made, or taken
\* over, for a suite has an MR that will delete it, although two MRs share the
\* group and each of them may find it gone, or made again, at any time.
Responsible(o) == {k \in Resources : ObjectOf(k) = o /\ mr[k].state # "absent"}
Orphans == {o \in Objects : azure[o] # "absent" /\ "purpose" \notin tags[o] /\
                            Responsible(o) = {}}
NoOrphans == ~lost => Orphans = {}

\* The names 01-verify-azure reads from the status are there when the XR is
\* Ready, although Crossplane writes the two apart and the MRs change between.
NamesBeforeReady == \A s \in Suites : xr[s].ready => xr[s].named

\* While the XR a suite looks at in step 01 is that of its own run, also when
\* the cleanup script has just deleted it, its MRs are of that run as well and
\* are not being deleted: no MR the run before left under the same name is
\* taken for one of them.
OwnResources ==
  \A s \in Suites : step[s] = "01" /\ xr[s].run = run =>
    \A k \in Composes(s) : mr[k].state = "live" /\ mr[k].run = run

\* Step 00 waits for the XR this run has applied ("Wait until the XR reconciles
\* successfully", 00-assert.yaml:6), not for one an earlier run has deleted.
FreshResources ==
  [][\A s \in Suites : step[s] = "00" /\ step'[s] = "01" =>
       xr[s].state = "present" /\ xr[s].run = run]_vars

\* After the last run everything the suites made goes from Azure, also the
\* group that one suite deletes while the other one uses it and what an earlier
\* run has left, unless the cluster is lost.
EventuallyClean ==
  (LastRun /\ \A s \in Suites : step[s] \in Finished)
    ~> lost \/ \A o \in Objects : azure[o] = "absent" \/ "purpose" \in tags[o]

\* What a suite uses and sees Ready stays in Azure until the suite deletes its
\* XR ("Isolate test resources", testing-layer-3-e2e-kuttl.md:47).
IsolatedSuites ==
  [][\A s \in Suites : xr[s].state = "present" /\ xr'[s].state = "present" =>
       \A k \in Composes(s) :
         mr[k].ready /\ azure[ObjectOf(k)] = "present" =>
           azure'[ObjectOf(k)] = "present"]_vars

\* A script that ends well has deleted every resource that had nobody to
\* delete it when the script looked ("Clean up any orphaned Azure resources",
\* cleanup-test-resources.sh:17).
CleanupComplete ==
  [][script = "storage" /\ script' = "done" =>
       \A o \in Listed : azure[o] = "present" /\ Responsible(o) = {} =>
         azure'[o] # "present"]_vars
=============================================================================
