--------------------------- MODULE E2ESuitesProofs ---------------------------
(***************************************************************************)
(* Proofs about E2ESuites for both suites or one in each run, every number *)
(* of runs, with and without the cleanup script and a loss of the cluster. *)
(***************************************************************************)
EXTENDS E2ESuites, TLAPS

USE SuitesAssumption

\* An XR that nobody deletes is of this run, and its suite uses it.
XRInv ==
  \A s \in Suites : xr[s].state = "present" =>
    xr[s].run = run /\ step[s] \in {"00", "01"}

\* The MRs a run finds when it starts are of earlier runs, and an MR that is
\* being deleted is of an XR that is gone.
MRInv ==
  \A s \in Suites : \A k \in Composes(s) :
    /\ mr[k].run <= run
    /\ step[s] = "waiting" => mr[k].run < run
    /\ mr[k].state = "deleting" /\ xr[s].state # "absent" =>
         mr[k].run # xr[s].run

\* An XR whose MRs were all seen Ready has them until it is gone.
OwnedInv ==
  \A s \in Suites :
    xr[s].state # "absent" /\ (xr[s].ready \/ xr[s].seen \/ step[s] = "01") =>
      \A k \in Composes(s) : Owned(k, s)

\* A reconcile that saw all MRs Ready has copied the names.
NamesInv == \A s \in Suites : xr[s].ready \/ xr[s].seen => xr[s].named

SuitesInv ==
  TypeOK /\ NoOrphans /\ NamesInv /\ XRInv /\ MRInv /\ OwnedInv
-----------------------------------------------------------------------------
XRs == {NoXR} \cup [state : {"present", "deleting"}, run : 1..MaxRuns,
                    ready : BOOLEAN, named : BOOLEAN, seen : BOOLEAN]
MRs == {NoMR} \cup [state : {"live", "deleting"}, run : 1..MaxRuns,
                    ready : BOOLEAN]

\* The resources of a suite are those of no other.
LEMMA ResourcesOfSuites ==
  /\ \A s \in Suites : \A k \in Composes(s) : k \in Resources /\ SuiteOf(k) = s
  /\ \A k \in Resources : SuiteOf(k) \in Suites /\ k \in Composes(SuiteOf(k))
<1>1. \A s \in Suites : \A k \in Composes(s) : k \in Resources
  BY DEF Resources
<1>2. \A s, t \in Suites : \A k \in Composes(s) \cap Composes(t) : s = t
  BY DEF Composes
<1>3. \A k \in Resources : \E s \in Suites : k \in Composes(s)
  BY DEF Resources
<1>4. \A k \in Resources : SuiteOf(k) \in Suites /\ k \in Composes(SuiteOf(k))
  BY <1>3 DEF SuiteOf
<1>5. QED
  BY <1>1, <1>2, <1>4

LEMMA ObjectsOfResources == \A k \in Resources : ObjectOf(k) \in Objects
BY DEF Objects

LEMMA NamedAreComposed == \A s \in Suites : Named(s) \subseteq Composes(s)
BY DEF Named, Composes

LEMMA TagsType ==
  ASSUME NEW k
  PROVE  TagsOf(k) \in SUBSET {"managedBy", "environment"}
BY DEF TagsOf

LEMMA XRType ==
  ASSUME NEW x \in XRs
  PROVE  /\ x.state \in {"absent", "present", "deleting"}
         /\ x.run \in 0..MaxRuns
         /\ x.ready \in BOOLEAN /\ x.named \in BOOLEAN /\ x.seen \in BOOLEAN
         /\ x.state = "absent" => x = NoXR
         /\ x.state # "absent" => x.run \in 1..MaxRuns
<1>1. CASE x = NoXR
  BY <1>1 DEF NoXR
<1>2. CASE x # NoXR
  <2>1. /\ x.state \in {"present", "deleting"} /\ x.run \in 1..MaxRuns
        /\ x.ready \in BOOLEAN /\ x.named \in BOOLEAN /\ x.seen \in BOOLEAN
    BY <1>2 DEF XRs
  <2>2. QED
    BY <2>1
<1>3. QED
  BY <1>1, <1>2

LEMMA MRType ==
  ASSUME NEW m \in MRs
  PROVE  /\ m.state \in {"absent", "live", "deleting"}
         /\ m.run \in 0..MaxRuns /\ m.ready \in BOOLEAN
         /\ m.state = "absent" => m = NoMR
         /\ m.state # "absent" => m.run \in 1..MaxRuns
<1>1. CASE m = NoMR
  BY <1>1 DEF NoMR
<1>2. CASE m # NoMR
  <2>1. /\ m.state \in {"live", "deleting"} /\ m.run \in 1..MaxRuns
        /\ m.ready \in BOOLEAN
    BY <1>2 DEF MRs
  <2>2. QED
    BY <2>1
<1>3. QED
  BY <1>1, <1>2

\* A deletion leaves an XR as it was but for its state.
LEMMA DeletedShape ==
  ASSUME NEW x \in XRs
  PROVE  /\ Deleted(x) \in XRs /\ Deleted(x).state # "present"
         /\ Deleted(x).ready = x.ready /\ Deleted(x).named = x.named
         /\ Deleted(x).seen = x.seen /\ Deleted(x).run = x.run
         /\ Deleted(x).state = "absent" <=> x.state = "absent"
<1>1. CASE x.state = "absent"
  BY <1>1, XRType DEF Deleted
<1>2. CASE x.state # "absent"
  BY <1>2, XRType DEF Deleted, XRs, NoXR
<1>3. QED
  BY <1>1, <1>2

\* What may happen to an XR.
SeesReady(s) == \A k \in Composes(s) : Owned(k, s) /\ mr[k].ready
HasNames(s) == xr[s].named \/ \A k \in Named(s) : Owned(k, s)

XRChanges(s) ==
  \/ xr'[s] = xr[s]
  \/ xr'[s] = Deleted(xr[s])
  \/ xr'[s] = NoXR
  \/ /\ Apply(s) /\ xr[s].state = "absent"
     /\ xr'[s] = [state |-> "present", run |-> run, ready |-> FALSE,
                  named |-> FALSE, seen |-> FALSE]
  \/ /\ CopyNames(s) /\ xr[s].state = "present"
     /\ xr'[s] = [state |-> "present", run |-> xr[s].run, ready |-> xr[s].ready,
                  named |-> HasNames(s), seen |-> SeesReady(s)]
  \/ /\ SetReady(s) /\ xr[s].state = "present"
     /\ xr'[s] = [state |-> "present", run |-> xr[s].run, ready |-> xr[s].seen,
                  named |-> xr[s].named, seen |-> xr[s].seen]

\* What may happen to an MR.
MRChanges(k) ==
  \/ mr'[k] = mr[k]
  \/ LoseCluster /\ mr'[k] = NoMR
  \/ FinalizeMR(k) /\ mr[k].state = "deleting" /\ mr'[k] = NoMR
  \/ Compose(k) /\ mr'[k] = [state |-> "live", run |-> xr[SuiteOf(k)].run,
                             ready |-> FALSE]
  \/ Collect(k) /\ mr'[k] = [state |-> "deleting", run |-> mr[k].run,
                             ready |-> FALSE]
  \/ /\ Observe(k) /\ mr[k].state = "live"
     /\ mr'[k] = [state |-> "live", run |-> mr[k].run,
                  ready |-> azure[ObjectOf(k)] # "absent"]

LEMMA XRSteps ==
  ASSUME TypeOK, [Next]_vars, NEW s \in Suites
  PROVE  XRChanges(s)
<1> xr \in [Suites -> XRs]
  BY DEF TypeOK, XRs
<1>1. ASSUME NEW t \in Suites, Apply(t) PROVE XRChanges(s)
  <2>1. CASE t = s
    <3>1. CASE xr[s].state = "absent"
      <4>1. xr'[s] = [NoXR EXCEPT !.state = "present", !.run = run]
        BY <1>1, <2>1, <3>1 DEF Apply
      <4>2. QED
        BY <1>1, <2>1, <3>1, <4>1 DEF XRChanges, NoXR
    <3>2. CASE xr[s].state # "absent"
      BY <1>1, <2>1, <3>2 DEF Apply, XRChanges
    <3>3. QED
      BY <3>1, <3>2
  <2>2. CASE t # s
    BY <1>1, <2>2 DEF Apply, XRChanges
  <2>3. QED
    BY <2>1, <2>2
<1>2. ASSUME NEW t \in Suites, Verify(t) \/ Timeout(t) PROVE XRChanges(s)
  BY <1>2 DEF Verify, Timeout, XRChanges
<1>3. ASSUME NEW t \in Suites, CopyNames(t) \/ SetReady(t) PROVE XRChanges(s)
  <2>1. CASE t = s
    <3>1. xr[s].state = "present" /\ xr[s] # NoXR
      BY <1>3, <2>1 DEF CopyNames, SetReady, NoXR
    <3>2. xr[s] \in [state : {"present", "deleting"}, run : 1..MaxRuns,
                     ready : BOOLEAN, named : BOOLEAN, seen : BOOLEAN]
      BY <3>1 DEF XRs
    <3>3. CASE CopyNames(s)
      <4>1. xr'[s] = [xr[s] EXCEPT !.seen = SeesReady(s), !.named = HasNames(s)]
        BY <3>3 DEF CopyNames, SeesReady, HasNames
      <4>2. QED
        BY <3>1, <3>2, <3>3, <4>1 DEF XRChanges
    <3>4. CASE SetReady(s)
      <4>1. xr'[s] = [xr[s] EXCEPT !.ready = xr[s].seen]
        BY <3>4 DEF SetReady
      <4>2. QED
        BY <3>1, <3>2, <3>4, <4>1 DEF XRChanges
    <3>5. QED
      BY <1>3, <2>1, <3>3, <3>4
  <2>2. CASE t # s
    BY <1>3, <2>2 DEF CopyNames, SetReady, XRChanges
  <2>3. QED
    BY <2>1, <2>2
<1>4. ASSUME NEW t \in Suites, FinalizeXR(t) PROVE XRChanges(s)
  BY <1>4 DEF FinalizeXR, XRChanges
<1>5. CASE LoseCluster \/ ScriptStart \/ ScriptStorage
  BY <1>5 DEF LoseCluster, ScriptStart, ScriptStorage, XRChanges
<1>6. CASE xr' = xr
  BY <1>6 DEF XRChanges
<1>7. ASSUME NEW t \in Suites, AssertReady(t) \/ AssertDeleted(t)
      PROVE  xr' = xr
  BY <1>7 DEF AssertReady, AssertDeleted
<1>8. ASSUME NEW k \in Resources, Compose(k) \/ Collect(k) \/ Provider(k)
      PROVE  xr' = xr
  BY <1>8 DEF Compose, Collect, Provider, Create, Observe, Delete, FinalizeMR
<1>9. ASSUME NEW o \in Objects, Vanish(o) PROVE xr' = xr
  BY <1>9 DEF Vanish
<1>10. CASE RunAgain \/ ScriptStops \/ ScriptOrphans
  BY <1>6, <1>10 DEF RunAgain, ScriptStops, ScriptOrphans
<1>11. CASE UNCHANGED vars
  BY <1>6, <1>11 DEF vars
<1>12. QED
  BY <1>1, <1>2, <1>3, <1>4, <1>5, <1>6, <1>7, <1>8, <1>9, <1>10, <1>11
     DEF Next, Kuttl, Crossplane, CleanupStep

LEMMA MRSteps ==
  ASSUME TypeOK, [Next]_vars, NEW k \in Resources
  PROVE  MRChanges(k)
<1> mr \in [Resources -> MRs]
  BY DEF TypeOK, MRs
<1>1. ASSUME NEW j \in Resources, Compose(j) PROVE MRChanges(k)
  BY <1>1 DEF Compose, MRChanges, NoMR
<1>2. ASSUME NEW j \in Resources, Collect(j) \/ Observe(j) PROVE MRChanges(k)
  <2>1. CASE j = k
    <3>1. mr[k] \in [state : {"live", "deleting"}, run : 1..MaxRuns,
                     ready : BOOLEAN]
      BY <1>2, <2>1 DEF Collect, Observe, MRs, NoMR
    <3>2. CASE Collect(k)
      BY <3>1, <3>2 DEF Collect, MRChanges
    <3>3. CASE Observe(k)
      BY <3>1, <3>3 DEF Observe, MRChanges
    <3>4. QED
      BY <1>2, <2>1, <3>2, <3>3
  <2>2. CASE j # k
    BY <1>2, <2>2 DEF Collect, Observe, MRChanges
  <2>3. QED
    BY <2>1, <2>2
<1>3. ASSUME NEW j \in Resources, FinalizeMR(j) PROVE MRChanges(k)
  BY <1>3 DEF FinalizeMR, MRChanges
<1>4. CASE LoseCluster
  BY <1>4 DEF LoseCluster, MRChanges
<1>5. ASSUME NEW j \in Resources, Create(j) \/ Delete(j) PROVE mr' = mr
  BY <1>5 DEF Create, Delete
<1>6. ASSUME NEW s \in Suites, Apply(s) \/ Kuttl(s) \/ Crossplane(s)
      PROVE  mr' = mr
  BY <1>6 DEF Apply, Kuttl, Crossplane, AssertReady, Verify, AssertDeleted,
              Timeout, CopyNames, SetReady, FinalizeXR
<1>7. ASSUME NEW o \in Objects, Vanish(o) PROVE mr' = mr
  BY <1>7 DEF Vanish
<1>8. ASSUME RunAgain \/ ScriptStart \/ CleanupStep PROVE mr' = mr
  BY <1>8 DEF RunAgain, ScriptStart, CleanupStep, ScriptStorage, ScriptStops,
              ScriptOrphans
<1>9. mr' = mr => MRChanges(k)
  BY DEF MRChanges
<1>10. QED
  BY <1>1, <1>2, <1>3, <1>4, <1>5, <1>6, <1>7, <1>8, <1>9
     DEF Next, Provider, vars

\* What may happen to the number of runs, and to the step of a suite.
RunAgainOf(s) ==
  /\ run < MaxRuns /\ run' = run + 1 /\ xr' = xr /\ mr' = mr
  /\ step[s] \in Finished /\ step'[s] \in {"waiting", "skipped"}

StepChanges(s) ==
  \/ RunAgainOf(s)
  \/ /\ run' = run
     /\ \/ step'[s] = step[s]
        \/ step[s] = "waiting" /\ step'[s] = "00"
        \/ /\ step[s] = "00" /\ step'[s] = "01" /\ xr[s].ready
           /\ xr' = xr /\ mr' = mr
        \/ step[s] = "02" /\ step'[s] = "passed" /\ xr' = xr
        \/ step'[s] \in {"02", "failed"} /\ xr'[s].state # "present"

LEMMA StepSteps ==
  ASSUME TypeOK, [Next]_vars, NEW s \in Suites
  PROVE  StepChanges(s)
<1> /\ xr \in [Suites -> XRs]
    /\ step \in [Suites -> {"waiting", "00", "01", "02"} \cup Finished]
  BY DEF TypeOK, XRs
<1>1. ASSUME NEW t \in Suites, Apply(t) PROVE StepChanges(s)
  BY <1>1 DEF Apply, StepChanges
<1>2. ASSUME NEW t \in Suites, AssertReady(t) PROVE StepChanges(s)
  BY <1>2 DEF AssertReady, StepChanges
<1>3. ASSUME NEW t \in Suites, Verify(t) \/ Timeout(t) PROVE StepChanges(s)
  <2>1. CASE t = s
    <3>1. xr'[s] = Deleted(xr[s])
      BY <1>3, <2>1 DEF Verify, Timeout
    <3>2. xr'[s].state # "present"
      BY <3>1, DeletedShape
    <3>3. step'[s] \in {"02", "failed"} /\ run' = run
      BY <1>3, <2>1 DEF Verify, Timeout
    <3>4. QED
      BY <3>2, <3>3 DEF StepChanges
  <2>2. CASE t # s
    BY <1>3, <2>2 DEF Verify, Timeout, StepChanges
  <2>3. QED
    BY <2>1, <2>2
<1>4. ASSUME NEW t \in Suites, AssertDeleted(t) PROVE StepChanges(s)
  BY <1>4 DEF AssertDeleted, StepChanges
<1>5. CASE RunAgain
  <2>1. run < MaxRuns
    BY <1>5 DEF RunAgain, LastRun, TypeOK
  <2>2. step'[s] \in {"waiting", "skipped"}
    BY <1>5 DEF RunAgain, Chosen
  <2>3. QED
    BY <1>5, <2>1, <2>2 DEF RunAgain, StepChanges, RunAgainOf
<1>6. CASE LoseCluster
  BY <1>6 DEF LoseCluster, StepChanges, NoXR
<1>7. UNCHANGED <<run, step>> => StepChanges(s)
  BY DEF StepChanges
<1>8. ASSUME NEW t \in Suites, CopyNames(t) \/ SetReady(t) \/ FinalizeXR(t)
      PROVE  UNCHANGED <<run, step>>
  BY <1>8 DEF CopyNames, SetReady, FinalizeXR
<1>9. ASSUME NEW k \in Resources, Compose(k) \/ Collect(k) \/ Provider(k)
      PROVE  UNCHANGED <<run, step>>
  BY <1>9 DEF Compose, Collect, Provider, Create, Observe, Delete, FinalizeMR
<1>10. ASSUME NEW o \in Objects, Vanish(o) PROVE UNCHANGED <<run, step>>
  BY <1>10 DEF Vanish
<1>11. ASSUME ScriptStart \/ CleanupStep PROVE UNCHANGED <<run, step>>
  BY <1>11 DEF ScriptStart, CleanupStep, ScriptStorage, ScriptStops,
               ScriptOrphans
<1>12. QED
  BY <1>1, <1>2, <1>3, <1>4, <1>5, <1>6, <1>7, <1>8, <1>9, <1>10, <1>11
     DEF Next, Kuttl, Crossplane, vars

\* No step breaks the types.
LEMMA TypeStep == TypeOK /\ [Next]_vars => TypeOK'
<1> SUFFICES ASSUME TypeOK, [Next]_vars PROVE TypeOK'
  OBVIOUS
<1> DEFINE Xr == xr' = [s \in Suites |-> xr'[s]]
           Mr == mr' = [k \in Resources |-> mr'[k]]
           Other == /\ campaign' \in Campaigns /\ run' \in 1..MaxRuns
                    /\ step' \in [Suites -> {"waiting", "00", "01", "02"}
                                            \cup Finished]
                    /\ azure' \in [Objects -> {"absent", "present", "deleting"}]
                    /\ tags' \in [Objects -> SUBSET {"managedBy", "environment",
                                                     "purpose"}]
                    /\ script' \in {"idle", "postgres", "storage", "done",
                                    "stopped"}
                    /\ lost' \in BOOLEAN
<1>1. ASSUME NEW s \in Suites, Apply(s) \/ Kuttl(s) \/ Crossplane(s)
      PROVE  Xr /\ Mr /\ Other
  BY <1>1 DEF TypeOK, Apply, Kuttl, Crossplane, AssertReady, Verify,
              AssertDeleted, Timeout, CopyNames, SetReady, FinalizeXR, Finished
<1>2. ASSUME NEW k \in Resources, Compose(k) \/ Collect(k) \/ Provider(k)
      PROVE  Xr /\ Mr /\ Other
  <2>1. CASE Compose(k) \/ Collect(k) \/ Delete(k) \/ FinalizeMR(k)
    BY <2>1 DEF TypeOK, Compose, Collect, Delete, FinalizeMR
  <2>2. CASE Create(k) \/ Observe(k)
    BY <2>2, TagsType DEF TypeOK, Create, Observe
  <2>3. QED
    BY <1>2, <2>1, <2>2 DEF Provider
<1>3. ASSUME NEW o \in Objects, Vanish(o) PROVE Xr /\ Mr /\ Other
  BY <1>3 DEF TypeOK, Vanish
<1>4. ASSUME RunAgain PROVE Xr /\ Mr /\ Other
  <2>1. run + 1 \in 1..MaxRuns
    BY <1>4 DEF TypeOK, RunAgain, LastRun
  <2>2. QED
    BY <1>4, <2>1 DEF TypeOK, RunAgain, Chosen, Finished
<1>5. ASSUME LoseCluster PROVE Xr /\ Mr /\ Other
  BY <1>5 DEF TypeOK, LoseCluster, Finished
<1>6. ASSUME ScriptStart PROVE Xr /\ Mr /\ Other
  BY <1>6 DEF TypeOK, ScriptStart
<1>7. ASSUME ScriptStorage PROVE Xr /\ Mr /\ Other
  BY <1>7 DEF TypeOK, ScriptStorage
<1>8. ASSUME ScriptStops PROVE Xr /\ Mr /\ Other
  BY <1>8 DEF TypeOK, ScriptStops
<1>9. ASSUME ScriptOrphans PROVE Xr /\ Mr /\ Other
  BY <1>9 DEF TypeOK, ScriptOrphans
<1>10. ASSUME UNCHANGED vars PROVE Xr /\ Mr /\ Other
  BY <1>10 DEF TypeOK, vars
<1>11. Xr /\ Mr /\ Other
  <2> HIDE DEF Xr, Mr, Other
  <2>1. QED
    BY <1>1, <1>2, <1>3, <1>4, <1>5, <1>6, <1>7, <1>8, <1>9, <1>10
       DEF Next, CleanupStep
<1>12. ASSUME NEW s \in Suites PROVE xr'[s] \in XRs
  <2>1. xr[s] \in XRs /\ NoXR \in XRs /\ run \in 1..MaxRuns
    BY DEF TypeOK, XRs
  <2>2. Deleted(xr[s]) \in XRs
    BY <2>1, DeletedShape
  <2>3. [state |-> "present", run |-> run, ready |-> FALSE, named |-> FALSE,
         seen |-> FALSE] \in XRs
    BY <2>1 DEF XRs
  <2>4. ASSUME xr[s].state = "present", NEW a \in BOOLEAN, NEW b \in BOOLEAN,
               NEW c \in BOOLEAN
        PROVE  [state |-> "present", run |-> xr[s].run, ready |-> a, named |-> b,
                seen |-> c] \in XRs
    <3>1. xr[s].run \in 1..MaxRuns
      BY <2>1, <2>4, XRType
    <3>2. QED
      BY <3>1 DEF XRs
  <2>5. /\ xr[s].ready \in BOOLEAN /\ xr[s].named \in BOOLEAN
        /\ xr[s].seen \in BOOLEAN
    BY <2>1, XRType
  <2>6. SeesReady(s) \in BOOLEAN /\ HasNames(s) \in BOOLEAN
    BY <2>5 DEF SeesReady, HasNames
  <2>7. xr[s].state = "present" =>
          /\ [state |-> "present", run |-> xr[s].run, ready |-> xr[s].ready,
              named |-> HasNames(s), seen |-> SeesReady(s)] \in XRs
          /\ [state |-> "present", run |-> xr[s].run, ready |-> xr[s].seen,
              named |-> xr[s].named, seen |-> xr[s].seen] \in XRs
    BY <2>4, <2>5, <2>6
  <2>8. QED
    BY <2>1, <2>2, <2>3, <2>7, XRSteps DEF XRChanges
<1>13. ASSUME NEW k \in Resources PROVE mr'[k] \in MRs
  <2>1. mr[k] \in MRs /\ NoMR \in MRs
    BY DEF TypeOK, MRs
  <2>2. CASE Compose(k)
    <3>1. xr[SuiteOf(k)] \in XRs
      BY ResourcesOfSuites DEF TypeOK, XRs
    <3>2. xr[SuiteOf(k)].run \in 1..MaxRuns
      BY <2>2, <3>1, XRType DEF Compose
    <3>3. mr'[k] = [NoMR EXCEPT !.state = "live", !.run = xr[SuiteOf(k)].run]
      BY <2>2 DEF Compose, TypeOK
    <3>4. QED
      BY <3>2, <3>3 DEF NoMR, MRs
  <2>3. CASE Collect(k) \/ Observe(k)
    <3>1. mr[k].run \in 1..MaxRuns /\ mr[k].ready \in BOOLEAN
          /\ mr[k].state # "absent"
      BY <2>1, <2>3, MRType DEF Collect, Observe
    <3>2. mr[k] \in [state : {"live", "deleting"}, run : 1..MaxRuns,
                     ready : BOOLEAN]
      BY <2>1, <3>1 DEF MRs, NoMR
    <3>3. CASE Collect(k)
      BY <3>2, <3>3 DEF Collect, TypeOK, MRs
    <3>4. CASE Observe(k)
      BY <3>2, <3>4 DEF Observe, TypeOK, MRs
    <3>5. QED
      BY <2>3, <3>3, <3>4
  <2>4. CASE ~Compose(k) /\ ~Collect(k) /\ ~Observe(k)
    BY <2>1, <2>4, MRSteps DEF MRChanges
  <2>5. QED
    BY <2>2, <2>3, <2>4
<1>14. QED
  BY <1>11, <1>12, <1>13 DEF TypeOK, XRs, MRs

\* An object that is there was there, with these tags, or a live MR has made
\* it or taken it over in this step.
LEMMA AzureSteps ==
  ASSUME TypeOK, [Next]_vars, NEW o \in Objects
  PROVE  \/ azure'[o] = "absent"
         \/ azure[o] # "absent" /\ tags'[o] = tags[o]
         \/ \E k \in Resources : ObjectOf(k) = o /\ mr'[k].state # "absent"
<1> DEFINE Same == azure[o] # "absent" /\ tags'[o] = tags[o]
           Made == \E k \in Resources :
                     ObjectOf(k) = o /\ mr'[k].state # "absent"
           Goal == azure'[o] = "absent" \/ Same \/ Made
<1>1. UNCHANGED <<azure, tags>> => Goal
  OBVIOUS
<1>2. ASSUME NEW k \in Resources, Create(k) PROVE Goal
  <2>1. CASE ObjectOf(k) = o
    BY <1>2, <2>1 DEF Create
  <2>2. CASE ObjectOf(k) # o
    BY <1>2, <2>2 DEF Create, TypeOK
  <2>3. QED
    BY <2>1, <2>2
<1>3. ASSUME NEW k \in Resources, Observe(k) PROVE Goal
  <2>1. CASE ObjectOf(k) = o
    <3>1. mr[k] \in MRs /\ mr[k] # NoMR
      BY <1>3 DEF Observe, TypeOK, MRs, NoMR
    <3>2. mr'[k].state = mr[k].state
      BY <1>3, <3>1 DEF Observe, TypeOK, MRs
    <3>3. QED
      BY <1>3, <2>1, <3>2 DEF Observe
  <2>2. CASE ObjectOf(k) # o
    BY <1>3, <2>2 DEF Observe, TypeOK
  <2>3. QED
    BY <2>1, <2>2
<1>4. ASSUME NEW k \in Resources, Delete(k) PROVE Goal
  BY <1>4 DEF Delete, TypeOK
<1>5. ASSUME NEW p \in Objects, Vanish(p) PROVE Goal
  BY <1>5 DEF Vanish
<1>6. ASSUME ScriptOrphans PROVE Goal
  BY <1>6 DEF ScriptOrphans, Tagged
<1>7. ASSUME NEW s \in Suites, Apply(s) \/ Kuttl(s) \/ Crossplane(s)
      PROVE  UNCHANGED <<azure, tags>>
  BY <1>7 DEF Apply, Kuttl, Crossplane, AssertReady, Verify, AssertDeleted,
              Timeout, CopyNames, SetReady, FinalizeXR
<1>8. ASSUME NEW k \in Resources, Compose(k) \/ Collect(k) \/ FinalizeMR(k)
      PROVE  UNCHANGED <<azure, tags>>
  BY <1>8 DEF Compose, Collect, FinalizeMR
<1>9. ASSUME \/ RunAgain \/ LoseCluster \/ ScriptStart \/ ScriptStorage
             \/ ScriptStops
      PROVE  UNCHANGED <<azure, tags>>
  BY <1>9 DEF RunAgain, LoseCluster, ScriptStart, ScriptStorage, ScriptStops
<1>10. Goal
  <2> HIDE DEF Goal
  <2>1. QED
    BY <1>1, <1>2, <1>3, <1>4, <1>5, <1>6, <1>7, <1>8, <1>9
       DEF Next, Provider, CleanupStep, vars
<1>11. QED
  BY <1>10

\* The MR of an object that is there does not go, unless with the cluster.
LEMMA NoOrphansStep == TypeOK /\ NoOrphans /\ [Next]_vars => NoOrphans'
<1> SUFFICES ASSUME TypeOK, NoOrphans, [Next]_vars, ~lost', NEW o \in Objects,
                    azure'[o] # "absent", "purpose" \notin tags'[o]
             PROVE  \E k \in Resources :
                      ObjectOf(k) = o /\ mr'[k].state # "absent"
  BY DEF NoOrphans, Orphans, Responsible
<1>1. ~lost /\ ~LoseCluster
  <2>1. ~LoseCluster
    BY DEF LoseCluster
  <2>2. lost' = lost
    BY <2>1 DEF Next, vars, Apply, Kuttl, Crossplane, AssertReady, Verify,
           AssertDeleted, Timeout, CopyNames, SetReady, FinalizeXR, Compose, Collect,
           Provider, Create, Observe, Delete, FinalizeMR, Vanish, RunAgain,
           ScriptStart, CleanupStep, ScriptStorage, ScriptStops, ScriptOrphans
  <2>3. QED
    BY <2>1, <2>2
<1>2. SUFFICES ASSUME azure[o] # "absent", "purpose" \notin tags[o]
               PROVE  \E k \in Resources :
                        ObjectOf(k) = o /\ mr'[k].state # "absent"
  BY AzureSteps
<1>3. PICK k \in Resources : ObjectOf(k) = o /\ mr[k].state # "absent"
  BY <1>1, <1>2 DEF NoOrphans, Orphans, Responsible
<1>4. ~FinalizeMR(k)
  BY <1>2, <1>3 DEF FinalizeMR, Kept
<1>5. CASE mr'[k] = mr[k]
  BY <1>3, <1>5
<1>6. CASE mr'[k] # mr[k]
  <2>1. MRChanges(k)
    BY MRSteps
  <2>2. \/ mr'[k] = [state |-> "live", run |-> xr[SuiteOf(k)].run,
                      ready |-> FALSE]
        \/ mr'[k] = [state |-> "deleting", run |-> mr[k].run, ready |-> FALSE]
        \/ mr'[k] = [state |-> "live", run |-> mr[k].run,
                      ready |-> azure[ObjectOf(k)] # "absent"]
    BY <1>1, <1>4, <1>6, <2>1, Zenon DEF MRChanges
  <2>3. QED
    BY <1>3, <2>2
<1>7. QED
  BY <1>5, <1>6

\* What a reconcile has seen it has copied the names of.
LEMMA NamesStep == TypeOK /\ NamesInv /\ [Next]_vars => NamesInv'
<1> SUFFICES ASSUME TypeOK, NamesInv, [Next]_vars, NEW s \in Suites,
                    xr'[s].ready \/ xr'[s].seen
             PROVE  xr'[s].named
  BY DEF NamesInv
<1>1. xr[s] \in XRs /\ (xr[s].ready \/ xr[s].seen => xr[s].named)
  BY DEF TypeOK, XRs, NamesInv
<1>2. CASE xr'[s] = xr[s] \/ xr'[s] = Deleted(xr[s])
  BY <1>1, <1>2, DeletedShape
<1>3. CASE \/ xr'[s] = NoXR
           \/ xr'[s] = [state |-> "present", run |-> run, ready |-> FALSE,
                        named |-> FALSE, seen |-> FALSE]
  BY <1>3 DEF NoXR
<1>4. CASE xr'[s] = [state |-> "present", run |-> xr[s].run,
                     ready |-> xr[s].ready, named |-> HasNames(s),
                     seen |-> SeesReady(s)]
  <2>1. xr[s].named \/ SeesReady(s)
    BY <1>1, <1>4
  <2>2. SeesReady(s) => \A k \in Named(s) : Owned(k, s)
    BY NamedAreComposed DEF SeesReady
  <2>3. HasNames(s)
    BY <2>1, <2>2 DEF HasNames
  <2>4. QED
    BY <1>4, <2>3
<1>5. CASE xr'[s] = [state |-> "present", run |-> xr[s].run,
                     ready |-> xr[s].seen, named |-> xr[s].named,
                     seen |-> xr[s].seen]
  BY <1>1, <1>5
<1>6. QED
  BY <1>2, <1>3, <1>4, <1>5, XRSteps DEF XRChanges

\* An XR is made once in a run, and no run starts while one is in use.
LEMMA XRInvStep == TypeOK /\ XRInv /\ [Next]_vars => XRInv'
<1> SUFFICES ASSUME TypeOK, XRInv, [Next]_vars, NEW s \in Suites,
                    xr'[s].state = "present"
             PROVE  xr'[s].run = run' /\ step'[s] \in {"00", "01"}
  BY DEF XRInv
<1>1. xr[s] \in XRs /\ XRChanges(s) /\ StepChanges(s)
  BY XRSteps, StepSteps DEF TypeOK, XRs
<1>2. xr[s].state = "present" => xr[s].run = run /\ step[s] \in {"00", "01"}
  BY DEF XRInv
<1>3. CASE Apply(s)
  <2>1. step'[s] = "00" /\ run' = run
    BY <1>3 DEF Apply, TypeOK
  <2>2. CASE xr[s].state = "absent"
    BY <1>3, <2>1, <2>2 DEF Apply, TypeOK, NoXR
  <2>3. CASE xr[s].state # "absent"
    BY <1>2, <1>3, <2>1, <2>3 DEF Apply, TypeOK
  <2>4. QED
    BY <2>2, <2>3
<1>4. CASE ~Apply(s)
  <2>1. xr[s].state = "present" /\ xr'[s].run = xr[s].run
    BY <1>1, <1>4, DeletedShape DEF XRChanges, NoXR
  <2>2. ~RunAgainOf(s)
    BY <1>2, <2>1 DEF RunAgainOf, Finished
  <2>3. QED
    BY <1>1, <1>2, <2>1, <2>2 DEF StepChanges
<1>5. QED
  BY <1>3, <1>4

\* An MR is made by an XR of its run.
LEMMA MRInvStep == TypeOK /\ XRInv /\ MRInv /\ [Next]_vars => MRInv'
<1> SUFFICES ASSUME TypeOK, XRInv, MRInv, [Next]_vars, NEW s \in Suites,
                    NEW k \in Composes(s)
             PROVE  /\ mr'[k].run <= run'
                    /\ step'[s] = "waiting" => mr'[k].run < run'
                    /\ mr'[k].state = "deleting" /\ xr'[s].state # "absent" =>
                         mr'[k].run # xr'[s].run
  BY DEF MRInv
<1>1. k \in Resources /\ SuiteOf(k) = s
  BY ResourcesOfSuites
<1>2. XRChanges(s) /\ StepChanges(s) /\ MRChanges(k)
  BY <1>1, XRSteps, StepSteps, MRSteps
<1>3. /\ xr[s] \in XRs /\ mr[k] \in MRs /\ mr[k].run \in Nat
      /\ run \in Nat \ {0} /\ run' \in {run, run + 1}
  <2>1. xr[s] \in XRs /\ mr[k] \in MRs
    BY <1>1 DEF TypeOK, XRs, MRs
  <2>2. QED
    BY <1>2, <2>1, MRType DEF StepChanges, RunAgainOf, TypeOK
<1>4. /\ mr[k].run <= run /\ (step[s] = "waiting" => mr[k].run < run)
      /\ mr[k].state = "deleting" /\ xr[s].state # "absent" =>
           mr[k].run # xr[s].run
  BY DEF MRInv
<1>5. xr[s].state = "present" => xr[s].run = run /\ step[s] \in {"00", "01"}
  BY DEF XRInv
<1>6. CASE RunAgainOf(s)
  BY <1>3, <1>4, <1>6 DEF RunAgainOf
<1>7. CASE ~RunAgainOf(s)
  <2>1. run' = run /\ (step'[s] = "waiting" => step[s] = "waiting")
    BY <1>2, <1>7 DEF StepChanges
  <2>2. CASE mr'[k] = mr[k]
    <3>1. xr'[s].state # "absent" =>
            \/ xr[s].state # "absent" /\ xr'[s].run = xr[s].run
            \/ step[s] = "waiting" /\ xr'[s].run = run
      <4>1. Apply(s) => step[s] = "waiting"
        BY DEF Apply
      <4>2. QED
        BY <1>2, <1>3, <4>1, DeletedShape DEF XRChanges, NoXR
    <3>2. QED
      BY <1>3, <1>4, <2>1, <2>2, <3>1
  <2>3. CASE mr'[k] = NoMR
    BY <1>3, <2>1, <2>3 DEF NoMR
  <2>4. CASE Compose(k)
    <3>1. /\ mr'[k] = [state |-> "live", run |-> run, ready |-> FALSE]
          /\ step[s] \in {"00", "01"}
      BY <1>1, <1>5, <2>4 DEF Compose, TypeOK, NoMR
    <3>2. QED
      BY <1>3, <2>1, <3>1
  <2>5. CASE Collect(k) /\ mr'[k] = [state |-> "deleting", run |-> mr[k].run,
                                     ready |-> FALSE]
    <3>1. xr[s].run # mr[k].run /\ xr' = xr
      BY <1>1, <2>5 DEF Collect
    <3>2. QED
      BY <1>3, <1>4, <2>1, <2>5, <3>1
  <2>6. CASE mr'[k] = [state |-> "live", run |-> mr[k].run,
                       ready |-> azure[ObjectOf(k)] # "absent"]
    BY <1>3, <1>4, <2>1, <2>6
  <2>7. QED
    BY <1>2, <2>2, <2>3, <2>4, <2>5, <2>6 DEF MRChanges
<1>8. QED
  BY <1>6, <1>7

\* An MR of the XR that is there is not deleted.
LEMMA OwnedInvStep ==
  TypeOK /\ XRInv /\ MRInv /\ OwnedInv /\ [Next]_vars => OwnedInv'
<1> SUFFICES ASSUME TypeOK, XRInv, MRInv, OwnedInv, [Next]_vars,
                    NEW s \in Suites, xr'[s].state # "absent",
                    xr'[s].ready \/ xr'[s].seen \/ step'[s] = "01",
                    NEW k \in Composes(s)
             PROVE  Owned(k, s)'
  BY DEF OwnedInv
<1>1. k \in Resources /\ SuiteOf(k) = s
  BY ResourcesOfSuites
<1>2. XRChanges(s) /\ StepChanges(s) /\ MRChanges(k)
  BY <1>1, XRSteps, StepSteps, MRSteps
<1>3. xr[s] \in XRs /\ mr[k] \in MRs
  BY <1>1 DEF TypeOK, XRs, MRs
<1>4. ~(Apply(s) /\ xr[s].state = "absent")
  <2>1. ASSUME Apply(s), xr[s].state = "absent" PROVE FALSE
    <3>1. step'[s] = "00"
      BY <2>1 DEF Apply, TypeOK
    <3>2. xr'[s] = [NoXR EXCEPT !.state = "present", !.run = run]
      BY <2>1 DEF Apply, TypeOK
    <3>3. xr'[s].ready = FALSE /\ xr'[s].seen = FALSE
      BY <3>2 DEF NoXR
    <3>4. QED
      BY <3>1, <3>3
  <2>2. QED
    BY <2>1
<1>5. xr[s].state # "absent" /\ xr'[s].run = xr[s].run
  BY <1>2, <1>3, <1>4, DeletedShape DEF XRChanges, NoXR
<1>6. Owned(k, s)
  <2>1. CASE xr[s].ready \/ xr[s].seen \/ step[s] = "01"
    BY <1>5, <2>1 DEF OwnedInv
  <2>2. CASE ~xr[s].ready /\ ~xr[s].seen /\ step[s] # "01"
    <3>1. step'[s] # "01"
      BY <1>2, <2>2 DEF StepChanges, RunAgainOf, Finished
    <3>2. xr'[s].ready \/ xr'[s].seen
      BY <3>1
    <3>3. xr'[s] # xr[s] /\ xr'[s] # Deleted(xr[s]) /\ xr'[s] # NoXR
      BY <1>3, <2>2, <3>2, DeletedShape DEF NoXR
    <3>4. \/ xr'[s] = [state |-> "present", run |-> xr[s].run,
                       ready |-> xr[s].ready, named |-> HasNames(s),
                       seen |-> SeesReady(s)]
          \/ xr'[s] = [state |-> "present", run |-> xr[s].run,
                       ready |-> xr[s].seen, named |-> xr[s].named,
                       seen |-> xr[s].seen]
      BY <1>2, <1>4, <3>3 DEF XRChanges
    <3>5. SeesReady(s)
      BY <2>2, <3>2, <3>4
    <3>6. QED
      BY <3>5 DEF SeesReady
  <2>3. QED
    BY <2>1, <2>2
<1>7. mr[k].state = "live" /\ mr[k].run = xr[s].run
  <2>1. mr[k].state # "absent" /\ mr[k].run = xr[s].run
    BY <1>6 DEF Owned
  <2>2. mr[k].state # "deleting"
    BY <1>5, <2>1 DEF MRInv
  <2>3. QED
    BY <1>3, <2>1, <2>2, MRType
<1>8. mr'[k].state # "absent" /\ mr'[k].run = mr[k].run
  <2>1. ~Compose(k) /\ ~Collect(k) /\ ~FinalizeMR(k)
    BY <1>1, <1>7 DEF Compose, Collect, FinalizeMR
  <2>2. ~LoseCluster
    BY DEF LoseCluster, NoXR
  <2>3. \/ mr'[k] = mr[k]
        \/ mr'[k] = [state |-> "live", run |-> mr[k].run,
                     ready |-> azure[ObjectOf(k)] # "absent"]
    BY <1>2, <2>1, <2>2 DEF MRChanges
  <2>4. QED
    BY <1>7, <2>3
<1>9. QED
  BY <1>5, <1>7, <1>8 DEF Owned

LEMMA SuitesInvInit == Init => SuitesInv
<1> SUFFICES ASSUME Init PROVE SuitesInv
  OBVIOUS
<1>1. /\ \A s \in Suites : xr[s] = NoXR /\ step[s] \in {"waiting", "skipped"}
      /\ \A k \in Resources : mr[k] = NoMR
      /\ run = 1
  BY DEF Init, Chosen
<1>2. TypeOK
  <2>1. run \in 1..MaxRuns
    BY <1>1, SuitesAssumption
  <2>2. step \in [Suites -> {"waiting", "00", "01", "02"} \cup Finished]
    BY DEF Init, Chosen, Finished
  <2>3. NoXR \in XRs
    BY SuitesAssumption DEF NoXR, XRs
  <2>4. NoMR \in MRs
    BY SuitesAssumption DEF NoMR, MRs
  <2>5. xr \in [Suites -> XRs] /\ mr \in [Resources -> MRs]
    BY <2>3, <2>4 DEF Init
  <2>6. QED
    BY <2>1, <2>2, <2>5 DEF Init, TypeOK, XRs, MRs
<1>3. NoOrphans
  BY DEF Init, NoOrphans, Orphans
<1>4. NamesInv /\ XRInv /\ OwnedInv
  <2>1. NoXR.state = "absent" /\ ~NoXR.ready /\ ~NoXR.seen
    BY DEF NoXR
  <2>2. QED
    BY <1>1, <2>1 DEF NamesInv, XRInv, OwnedInv
<1>5. MRInv
  BY <1>1, ResourcesOfSuites DEF MRInv, NoMR
<1>6. QED
  BY <1>2, <1>3, <1>4, <1>5 DEF SuitesInv

LEMMA SuitesInvStep == SuitesInv /\ [Next]_vars => SuitesInv'
BY TypeStep, NoOrphansStep, NamesStep, XRInvStep, MRInvStep, OwnedInvStep
   DEF SuitesInv
-----------------------------------------------------------------------------
\* The inductive invariant holds in every reachable state.
THEOREM SuitesInvariant == Spec => []SuitesInv
BY SuitesInvInit, SuitesInvStep, PTL DEF Spec

\* Every variable keeps its type; an XR or MR that exists belongs to a run.
THEOREM SuitesTypeCorrect == Spec => []TypeOK
<1>1. SuitesInv => TypeOK
  BY DEF SuitesInv
<1>2. QED
  BY <1>1, SuitesInvariant, PTL

\* Nothing the suites made in Azure is without an MR, unless the cluster was
\* lost, although both suites manage the one resource group.
THEOREM NoOrphansCorrect == Spec => []NoOrphans
<1>1. SuitesInv => NoOrphans
  BY DEF SuitesInv
<1>2. QED
  BY <1>1, SuitesInvariant, PTL

\* The names that 01-verify-azure reads are there when the XR is Ready, although
\* they and the condition are written one after the other.
THEOREM NamesBeforeReadyCorrect == Spec => []NamesBeforeReady
<1>1. SuitesInv => NamesBeforeReady
  BY DEF SuitesInv, NamesInv, NamesBeforeReady
<1>2. QED
  BY <1>1, SuitesInvariant, PTL

\* As long as the XR a suite looks at is of its own run, deleted or not, so are
\* the MRs it looks at, however many runs left theirs before.
THEOREM OwnResourcesCorrect == Spec => []OwnResources
<1>1. SuitesInv => OwnResources
  <2> SUFFICES ASSUME SuitesInv, NEW s \in Suites, step[s] = "01",
                      xr[s].run = run, NEW k \in Composes(s)
               PROVE  mr[k].state = "live" /\ mr[k].run = run
    BY DEF OwnResources
  <2>1. xr[s].state # "absent"
    <3>1. xr[s] \in XRs /\ run # 0
      BY SuitesAssumption DEF SuitesInv, TypeOK, XRs
    <3>2. QED
      BY <3>1, XRType DEF NoXR
  <2>2. mr[k].state # "absent" /\ mr[k].run = xr[s].run
    BY <2>1 DEF SuitesInv, OwnedInv, Owned
  <2>3. mr[k].state # "deleting"
    BY <2>1, <2>2 DEF SuitesInv, MRInv
  <2>4. mr[k] \in MRs
    BY ResourcesOfSuites DEF SuitesInv, TypeOK, MRs
  <2>5. QED
    BY <2>2, <2>3, <2>4, MRType
<1>2. QED
  BY <1>1, SuitesInvariant, PTL
=============================================================================
