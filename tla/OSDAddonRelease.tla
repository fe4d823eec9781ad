-------------------------- MODULE OSDAddonRelease ---------------------------
(* release osd-addon copies the bundle of a version into a branch of the     *)
(* managed-tenants repository, pushes it to a fork and asks GitLab for a     *)
(* merge request, without looking for one first.                             *)
EXTENDS GitHost

(* Stage, edge and stable are the channels the command knows; a pre-release  *)
(* needs a channel that allows it.                                           *)
Accepted(job) ==
    /\ job.channel \in {"stage", "edge", "stable"}
    /\ IsPreRelease(job.version) => job.allowPreRelease

newOSDAddonReleaseCmd(j) ==
    /\ At(j, "addon", "clone")
    /\ CloneToTmpDir(j, "bundles")
    /\ pc' = [pc EXCEPT ![j] = "copy"]
    /\ UNCHANGED <<team, heads, pulls, work, tries, acts, quiet, merges, temp>>

(* The commit is made even if the copy has changed nothing.                  *)
CommitBundle(j) ==
    /\ At(j, "addon", "copy")
    /\ Accepted(JobOf[j])
    /\ clone[j][OwnBranch(j)] = {}
    /\ work' = [work EXCEPT ![j] = clone[j][Main] \union {CommitOf("addon", j, <<>>)}]
    /\ pc' = [pc EXCEPT ![j] = "push"]
    /\ UNCHANGED <<team, heads, pulls, clone, tries, acts, quiet, merges, temp>>

(* The branch of an earlier run that is still in the fork refuses the push.  *)
PushBundle(j) ==
    /\ At(j, "addon", "push")
    /\ PushBranch(j, "bundlesFork", OwnBranch(j), work[j])
    /\ \E where \in {"open", "failed"} : Goto(j, where)
    /\ UNCHANGED <<team, pulls, tries, acts, quiet, merges, temp>>

(* With a lost reply, or a failed return to main, the run fails and the      *)
(* merge request is there.                                                   *)
CreateMergeRequest(j) ==
    /\ At(j, "addon", "open")
    /\ OpenPull(j, "bundles")
    /\ UNCHANGED <<team, heads, tries, acts, quiet, merges, temp>>
=============================================================================
