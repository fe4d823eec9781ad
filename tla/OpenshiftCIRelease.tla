------------------------- MODULE OpenshiftCIRelease -------------------------
(* release openshift-ci-release makes sure of the release branch of the      *)
(* operator and then adds its configuration to the release repository of     *)
(* OpenShift, through a branch of a fork.  A patch release needs neither.    *)
EXTENDS GitHost

CIQuietly(j) == quiet' = quiet \union {j} /\ Goto(j, "done")
CIGoto(j, where) == pc' = [pc EXCEPT ![j] = where]

DoIntlyOperatorUpdate(j) ==
    /\ At(j, "ci", "clone")
    /\ \/ IsPatchRelease(JobOf[j].version) /\ CIQuietly(j)
       \/ /\ ~IsPatchRelease(JobOf[j].version)
          /\ CloneToTmpDir(j, "operator")
          /\ CIGoto(j, "branch") /\ UNCHANGED <<work, quiet>>
    /\ UNCHANGED <<team, heads, pulls, tries, acts, merges, temp>>

(* A checkout can fail for a branch that is there; creating it then fails    *)
(* too, and the error is dropped: the first part counts as done.             *)
EnsureReleaseBranch(j) ==
    /\ At(j, "ci", "branch")
    /\ \/ CIGoto(j, "fork") /\ UNCHANGED work
       \/ Creates(j, OwnBranch(j), Main) /\ CIGoto(j, "pushBranch")
    /\ UNCHANGED <<team, heads, pulls, clone, tries, acts, quiet, merges, temp>>

PushReleaseBranch(j) ==
    /\ At(j, "ci", "pushBranch")
    /\ PushBranch(j, "operator", OwnBranch(j), work[j])
    /\ \E where \in {"fork", "failed"} : Goto(j, where)
    /\ UNCHANGED <<team, pulls, tries, acts, quiet, merges, temp>>

DoOpenShiftReleaseUpdate(j) ==
    /\ At(j, "ci", "fork")
    /\ CloneToTmpDir(j, "fork")
    /\ work' = [work EXCEPT ![j] = {}]
    /\ CIGoto(j, "pull")
    /\ UNCHANGED <<team, heads, pulls, tries, acts, quiet, merges, temp>>

(* CreateAndPull brings the local main up to that of the upstream.  A pull   *)
(* that has nothing to bring is an error.                                    *)
CreateAndPull(j) ==
    /\ At(j, "ci", "pull")
    /\ clone[j][Main] \subseteq heads["upstream"][Main]
    /\ clone[j][Main] # heads["upstream"][Main]
    /\ clone' = [clone EXCEPT ![j][Main] = heads["upstream"][Main]]
    /\ CIGoto(j, "edit")
    /\ UNCHANGED <<team, heads, pulls, work, tries, acts, quiet, merges, temp>>

(* The two edits write what depends on the version and on the flavour only:  *)
(* nothing changes when the last commit on the branch is one for both.       *)
Configured(commits, j) == {c \in commits : c.kind = "ci" /\ c.name = OwnBranch(j)}
SameFlavour(c, j) == JobOf[c.by].version.olm = JobOf[j].version.olm

(* Again an error of the second checkout is dropped, and here the run ends.  *)
EditConfiguration(j) ==
    /\ At(j, "ci", "edit")
    /\ LET local == clone[j][OwnBranch(j)]
           base == IF local # {} THEN local ELSE clone[j][Main]
       IN  \/ CIQuietly(j)
           \/ /\ \/ Configured(base, j) = {}
                 \/ \E c \in Configured(base, j) : ~SameFlavour(c, j)
              /\ work' = [work EXCEPT ![j] = base \union {CommitOf("ci", j, <<>>)}]
              /\ CIGoto(j, "push") /\ UNCHANGED <<clone, quiet>>
    /\ UNCHANGED <<team, heads, pulls, tries, acts, merges, temp>>

PushConfiguration(j) ==
    /\ At(j, "ci", "push")
    /\ PushBranch(j, "fork", OwnBranch(j), work[j])
    /\ \E where \in {"find", "failed"} : Goto(j, where)
    /\ UNCHANGED <<team, pulls, tries, acts, quiet, merges, temp>>

CIPull(j) ==
    /\ \/ /\ At(j, "ci", "find")
          /\ FindPull(j, "upstream", FALSE, "open")
          /\ UNCHANGED pulls
       \/ At(j, "ci", "open") /\ OpenPull(j, "upstream")
    /\ UNCHANGED <<team, heads, tries, acts, quiet, merges, temp>>
=============================================================================
