-------------------------- MODULE PolarionRelease ---------------------------
(* report polarion-release prepares a pre-release version in Polarion: the   *)
(* release, its milestone and a test run marked as template, each created    *)
(* when it is not there.  Runs for several builds of one release, and runs   *)
(* that are repeated, meet what the others have left.                        *)
EXTENDS Naturals

CONSTANTS
    Preparers,      \* the runs of the command
    Builds,         \* the versions, a release and a build each
    NoBuild,        \* the build of a version that is no pre-release
    BuildOf,        \* the version a run is given
    ReleaseOf,      \* the PolarionReleaseId of a version
    PolarionTries

Releases == {ReleaseOf[b] : b \in Builds}

ASSUME PolarionAssumption ==
    /\ NoBuild \notin Builds
    /\ BuildOf \in [Preparers -> Builds \union {NoBuild}]
    /\ DOMAIN ReleaseOf = Builds
    /\ PolarionTries \in Nat

VARIABLES
    releases, milestones,  \* the plans there are
    testRun,               \* of a milestone: "none", "plain" or "template"
    ppc, ptries,
    untold                 \* milestones whose test run was created by a run that
                           \* could not mark it

pvars == <<releases, milestones, testRun, ppc, ptries, untold>>

Steps == <<"getRelease", "createRelease", "getMilestone", "createMilestone",
           "getTestRun", "createTestRun", "updateTestRun">>
Calls == {Steps[k] : k \in DOMAIN Steps}

PolarionInit ==
    /\ releases = {} /\ milestones = {}
    /\ testRun = [b \in Builds |-> "none"]
    /\ ppc = [r \in Preparers |-> IF BuildOf[r] = NoBuild THEN "done" ELSE "getRelease"]
    /\ ptries = [r \in Preparers |-> 1]
    /\ untold = {}

PGoto(r, where) == ppc' = [ppc EXCEPT ![r] = where]
Rel(r) == ReleaseOf[BuildOf[r]]

GetRelease(r) ==
    /\ ppc[r] = "getRelease"
    /\ PGoto(r, IF Rel(r) \in releases THEN "getMilestone" ELSE "createRelease")
    /\ UNCHANGED <<releases, milestones, testRun, ptries, untold>>

\* Mutant of creteRelease: the run goes on without waiting for the release.
creteReleaseLater(r) ==
    /\ ppc[r] = "createRelease"
    /\ PGoto(r, "getMilestone")
    /\ \E now \in BOOLEAN : releases' = IF now THEN releases \union {Rel(r)} ELSE releases
    /\ UNCHANGED <<milestones, testRun, ptries, untold>>

(* Polarion answers a second creation of one id with a fault.  The reply to  *)
(* the first may be lost, and the run fails with the plan created.           *)
creteRelease(r) ==
    /\ ppc[r] = "createRelease" /\ Rel(r) \notin releases
    /\ releases' = releases \union {Rel(r)}
    /\ \E where \in {"getMilestone", "failed"} : PGoto(r, where)
    /\ UNCHANGED <<milestones, testRun, ptries, untold>>

GetMilestone(r) ==
    /\ ppc[r] = "getMilestone"
    /\ PGoto(r, IF BuildOf[r] \in milestones THEN "getTestRun" ELSE "createMilestone")
    /\ UNCHANGED <<releases, milestones, testRun, ptries, untold>>

creteMilestone(r) ==
    /\ ppc[r] = "createMilestone" /\ BuildOf[r] \notin milestones
    /\ milestones' = milestones \union {BuildOf[r]}
    /\ \E where \in {"getTestRun", "failed"} : PGoto(r, where)
    /\ UNCHANGED <<releases, testRun, ptries, untold>>

GetTestRun(r) ==
    /\ ppc[r] = "getTestRun"
    /\ PGoto(r, IF testRun[BuildOf[r]] # "none" THEN "done" ELSE "createTestRun")
    /\ UNCHANGED <<releases, milestones, testRun, ptries, untold>>

\* Mutant of createTestRunTemplate: the run reports success before the update.
createTestRunOnly(r) ==
    /\ ppc[r] = "createTestRun" /\ testRun[BuildOf[r]] = "none"
    /\ testRun' = [testRun EXCEPT ![BuildOf[r]] = "plain"]
    /\ PGoto(r, "done")
    /\ UNCHANGED <<releases, milestones, ptries, untold>>

createTestRunTemplate(r) ==
    /\ ppc[r] = "createTestRun" /\ testRun[BuildOf[r]] = "none"
    /\ testRun' = [testRun EXCEPT ![BuildOf[r]] = "plain"]
    /\ \/ PGoto(r, "updateTestRun") /\ UNCHANGED untold
       \/ PGoto(r, "failed") /\ untold' = untold \union {BuildOf[r]}
    /\ UNCHANGED <<releases, milestones, ptries>>

(* The result of the update is not looked at.                                *)
UpdateTestRun(r) ==
    /\ ppc[r] = "updateTestRun"
    /\ \/ testRun' = [testRun EXCEPT ![BuildOf[r]] = "template"] /\ UNCHANGED untold
       \/ untold' = untold \union {BuildOf[r]} /\ UNCHANGED testRun
    /\ PGoto(r, "done")
    /\ UNCHANGED <<releases, milestones, ptries>>

(* A call fails, the server answers with a fault, or the process is killed.  *)
PolarionFails(r) ==
    /\ ppc[r] \in Calls
    /\ PGoto(r, "failed")
    /\ untold' = IF ppc[r] = "updateTestRun" THEN untold \union {BuildOf[r]} ELSE untold
    /\ UNCHANGED <<releases, milestones, testRun, ptries>>

PolarionAgain(r) ==
    /\ ppc[r] = "failed" /\ ptries[r] < PolarionTries
    /\ PGoto(r, "getRelease")
    /\ ptries' = [ptries EXCEPT ![r] = @ + 1]
    /\ UNCHANGED <<releases, milestones, testRun, untold>>

PolarionNext == \E r \in Preparers :
    \/ GetRelease(r) \/ creteRelease(r) \/ GetMilestone(r) \/ creteMilestone(r)
    \/ GetTestRun(r) \/ createTestRunTemplate(r) \/ UpdateTestRun(r)
    \/ PolarionFails(r) \/ PolarionAgain(r)

PolarionSpec == PolarionInit /\ [][PolarionNext]_pvars

----------------------------------------------------------------------------
PolarionTypeOK ==
    /\ releases \subseteq Releases /\ milestones \subseteq Builds
    /\ testRun \in [Builds -> {"none", "plain", "template"}]
    /\ ppc \in [Preparers -> Calls \union {"done", "failed"}]
    /\ ptries \in [Preparers -> Nat]
    /\ untold \subseteq Builds

(* No milestone without its release and no test run without its milestone,   *)
(* whichever call of whichever run failed; and a run that reports success    *)
(* has all three.                                                            *)
MilestoneHasRelease ==
    /\ \A b \in milestones : ReleaseOf[b] \in releases
    /\ \A b \in Builds : testRun[b] # "none" => b \in milestones
    /\ \A r \in Preparers :
           ppc[r] = "done" /\ BuildOf[r] # NoBuild => testRun[BuildOf[r]] # "none"

(* A test run that is no template has one of two explanations: the run that  *)
(* created it is about to mark it, or it never will be (its update was lost, *)
(* or its creator failed in between; every later run takes it for done).     *)
TemplateMarked ==
    \A b \in Builds :
        testRun[b] = "plain" =>
            \/ b \in untold
            \/ \E r \in Preparers : BuildOf[r] = b /\ ppc[r] = "updateTestRun"

----------------------------------------------------------------------------
Reached ==
    \A r \in Preparers : BuildOf[r] # NoBuild =>
        /\ ppc[r] \in {"getMilestone", "createMilestone", "getTestRun", "createTestRun",
                       "updateTestRun", "done"} => Rel(r) \in releases
        /\ ppc[r] \in {"getTestRun", "createTestRun", "updateTestRun", "done"} =>
               BuildOf[r] \in milestones
        /\ ppc[r] = "updateTestRun" => testRun[BuildOf[r]] # "none"
Idle == \A r \in Preparers : BuildOf[r] = NoBuild => ppc[r] = "done"

PolarionInv ==
    /\ PolarionTypeOK /\ Reached /\ Idle /\ MilestoneHasRelease /\ TemplateMarked
=============================================================================
