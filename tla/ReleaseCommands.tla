-------------------------- MODULE ReleaseCommands ---------------------------
(* release create-release pushes a branch that prepares a version and opens  *)
(* its pull request; release merge-release finds the pull request later, in  *)
(* a process of its own, and merges it.  A call that is refused is a call    *)
(* that fails.                                                               *)
EXTENDS GitHost

CloneForRelease(j) ==
    /\ At(j, "create", "clone")
    /\ CloneToTmpDir(j, "operator")
    /\ pc' = [pc EXCEPT ![j] = "script"]
    /\ UNCHANGED <<team, heads, pulls, work, tries, acts, quiet, merges, temp>>

(* The branch must be new.  The script may find nothing left to change when  *)
(* the main branch has the release already; without a change nothing is      *)
(* pushed.                                                                   *)
Released(commits, j) == \E c \in commits : c.kind = "prepare" /\ c.name = OwnBranch(j)

runReleaseScript(j) ==
    /\ At(j, "create", "script")
    /\ clone[j][OwnBranch(j)] = {}
    /\ \/ /\ work' = [work EXCEPT ![j] = clone[j][Main] \union {CommitOf("prepare", j, <<>>)}]
          /\ pc' = [pc EXCEPT ![j] = "push"]
       \/ /\ Released(clone[j][Main], j)
          /\ work' = [work EXCEPT ![j] = clone[j][Main]]
          /\ pc' = [pc EXCEPT ![j] = "find"]
    /\ UNCHANGED <<team, heads, pulls, clone, tries, acts, quiet, merges, temp>>

(* The reply to a push may be lost: the run fails with the branch pushed.    *)
commitAndPushChanges(j) ==
    /\ At(j, "create", "push")
    /\ PushAll(j, "operator")
    /\ \E where \in {"find", "failed"} : Goto(j, where)
    /\ UNCHANGED <<team, pulls, tries, acts, quiet, merges, temp>>

\* Mutant of createPRIfNotExists: a run that finds no pull request is content.
FindOnly(j) ==
    /\ \/ /\ At(j, "create", "find")
          /\ FindPull(j, "operator", TRUE, "done")
          /\ UNCHANGED pulls
       \/ At(j, "create", "open") /\ OpenPull(j, "operator")
    /\ UNCHANGED <<team, heads, tries, acts, quiet, merges, temp>>

createPRIfNotExists(j) ==
    /\ \/ /\ At(j, "create", "find")
          /\ FindPull(j, "operator", TRUE, "open")
          /\ UNCHANGED pulls
       \/ At(j, "create", "open") /\ OpenPull(j, "operator")
    /\ UNCHANGED <<team, heads, tries, acts, quiet, merges, temp>>

----------------------------------------------------------------------------
(* merge-release: list, get, and merge what was open when it was read.       *)
DoMergeRelease(j) ==
    /\ At(j, "merge", "clone")
    /\ \E hits \in findPRForRelease("operator", OwnBranch(j), FALSE) :
           /\ Cardinality(hits) = 1
           /\ merges' = [merges EXCEPT ![j] = CHOOSE i \in hits : TRUE]
    /\ Goto(j, "get")
    /\ UNCHANGED <<team, heads, pulls, tries, acts, quiet, temp>>

\* Mutant of GetPull: a closed pull request is as good as a merged one.
GetClosed(j) ==
    /\ At(j, "merge", "get")
    /\ Goto(j, IF pulls[merges[j]].state = "open" THEN "merge" ELSE "done")
    /\ UNCHANGED <<team, heads, pulls, tries, acts, quiet, merges, temp>>

(* A closed one, and one that is not (known to be) mergeable, ends the run.  *)
GetPull(j) ==
    /\ At(j, "merge", "get")
    /\ \/ pulls[merges[j]].state = "merged" /\ Goto(j, "done")
       \/ pulls[merges[j]].state = "open" /\ Goto(j, "merge")
    /\ UNCHANGED <<team, heads, pulls, tries, acts, quiet, merges, temp>>

mergePR(j) ==
    /\ At(j, "merge", "merge")
    /\ pulls[merges[j]].state = "open"
    /\ MergedInto(merges[j])
    /\ \E where \in Ended : Goto(j, where)
    /\ UNCHANGED <<team, tries, acts, quiet, merges, temp>>
=============================================================================
