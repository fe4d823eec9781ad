---------------------------- MODULE ReleaseFlow -----------------------------
(* The release commands at work on the same repositories, with the people    *)
(* who merge, close and delete beside them.                                  *)
EXTENDS ReleaseCommands, ProdsecManifest, OpenshiftCIRelease, OSDAddonRelease

ASSUME FlowAssumption ==
    /\ Teams \subseteq SUBSET Jobs
    /\ MaxTries \in [Jobs -> Nat] /\ MaxActs \in Nat
    /\ OldManifest \in Seq(STRING)
    /\ \A j \in Jobs :
           /\ JobOf[j].cmd \in {"create", "merge", "prodsec", "ci", "addon"}
           /\ JobOf[j].cmd = "prodsec" => JobOf[j].manifest \in Seq(STRING)

Init == HostInit

Step(j) ==
    \/ CloneForRelease(j) \/ runReleaseScript(j) \/ commitAndPushChanges(j)
    \/ createPRIfNotExists(j)
    \/ DoMergeRelease(j) \/ GetPull(j) \/ mergePR(j)
    \/ CloneForManifest(j) \/ runManifestScript(j) \/ SaveManifest(j)
    \/ RestoreManifest(j) \/ PushManifest(j) \/ ManifestPull(j)
    \/ DoIntlyOperatorUpdate(j) \/ EnsureReleaseBranch(j) \/ PushReleaseBranch(j)
    \/ DoOpenShiftReleaseUpdate(j) \/ CreateAndPull(j) \/ EditConfiguration(j)
    \/ PushConfiguration(j) \/ CIPull(j)
    \/ newOSDAddonReleaseCmd(j) \/ CommitBundle(j) \/ PushBundle(j) \/ CreateMergeRequest(j)

Next == People \/ \E j \in Jobs : Step(j) \/ CallFails(j) \/ Again(j)

Spec == Init /\ [][Next]_flow

----------------------------------------------------------------------------
Target(j) == [create |-> "operator", prodsec |-> "operator", merge |-> "operator",
              ci |-> "upstream", addon |-> "bundles"][JobOf[j].cmd]

Succeeded(j) == j \in team /\ pc[j] = "done"

Commit == [kind: {"root", "people", "prepare", "manifest", "ci", "addon"}, name: Names,
           by: Jobs \union {"people"}, n: Nat, file: Seq(STRING)]
Pull == [repo: {"operator", "upstream", "bundles"}, name: Names,
         state: {"open", "merged", "closed"}]
Places == {"idle", "clone", "script", "save", "restore", "branch", "pushBranch", "fork", "pull", "edit",
           "copy", "push", "find", "open", "get", "merge", "done", "failed"}

FlowTypeOK ==
    /\ team \subseteq Jobs
    /\ heads \in [Repos -> [Names -> SUBSET Commit]] /\ \A r \in Repos : heads[r][Main] # {}
    /\ pulls \in Seq(Pull)
    /\ pc \in [Jobs -> Places] /\ \A j \in Jobs \ team : pc[j] = "idle"
    /\ clone \in [Jobs -> [Names -> SUBSET Commit]] /\ work \in [Jobs -> SUBSET Commit]
    /\ \A j \in Jobs : pc[j] \in Ended \union {"idle"} => clone[j] = NoClone /\ work[j] = {}
    /\ tries \in [Jobs -> Nat] /\ acts \in 0..MaxActs
    /\ quiet \subseteq {j \in Jobs : JobOf[j].cmd \in {"prodsec", "ci"}}
    /\ merges \in [Jobs -> Nat] /\ \A j \in Jobs : merges[j] \in {0} \union DOMAIN pulls
    /\ temp \in [file: Seq(STRING), copied: [Jobs -> Seq(STRING)], mixed: SUBSET Jobs]

(* A run that reports success, and does not end early for want of a change   *)
(* (or over a dropped error), leaves a pull request from its branch; while   *)
(* the pull request is open, its branch holds a commit made for it.          *)
DoneHasPull ==
    \A j \in team : Succeeded(j) /\ j \notin quiet /\ JobOf[j].cmd # "merge" =>
        \E i \in DOMAIN pulls :
            /\ pulls[i].repo = Target(j) /\ pulls[i].name = OwnBranch(j)
            /\ pulls[i].state = "open" => \E c \in Content(i) : c.name = OwnBranch(j)

(* Runs for one version do not mix: what a branch holds beyond the main      *)
(* branch of its repository was committed by one run.  The configuration     *)
(* branches are the exception, they are built on again.                      *)
OneRunPerBranch ==
    \A r \in {"operator", "upstream", "bundles"}, n \in Names \ {Main} :
        LET own == {c \in heads[HeadRepo(r)][n] \ heads[r][Main] :
                        c.name = n /\ c.kind # "ci"}
        IN  \A c, d \in own : c = d

(* merge-release reports success only when the release is on the main        *)
(* branch, whoever merged the pull request.                                  *)
MergedIsReleased ==
    \A j \in team : Succeeded(j) /\ JobOf[j].cmd = "merge" =>
        /\ pulls[merges[j]].state = "merged"
        /\ Released(heads["operator"][Main], j)

(* However the copies of several runs overlap, stop or fail, every line of a *)
(* manifest that is pushed stands where one of the runs, or the manifest     *)
(* that was there, has it; and the pushed manifest begins with the whole one *)
(* its run generated unless another run wrote to the temporary file between  *)
(* this run's two copies or during one of them.                              *)
Generators == {j \in team : JobOf[j].cmd = "prodsec"}
Manifests == {OldManifest} \union {JobOf[j].manifest : j \in Generators}
Drawn(file) == \A k \in DOMAIN file : \E m \in Manifests : k \in DOMAIN m /\ file[k] = m[k]
StartsWith(file, head) ==
    Len(head) <= Len(file) /\ \A k \in DOMAIN head : file[k] = head[k]
Pushed == UNION {heads["operator"][n] : n \in Names}

ManifestKept ==
    \A c \in {d \in Pushed : d.kind = "manifest"} :
        /\ Drawn(c.file)
        /\ c.by \in temp.mixed \/ StartsWith(c.file, JobOf[c.by].manifest)

----------------------------------------------------------------------------
(* The inductive invariant.  First, what a commit is: people commit to main, *)
(* a run to its own branch; a manifest was kept.                             *)
KindOf(j) == [create |-> "prepare", prodsec |-> "manifest", ci |-> "ci", addon |-> "addon",
              merge |-> "none"][JobOf[j].cmd]

Made(c) ==
    \/ c.kind \in {"root", "people"} /\ c.name = Main
    \/ /\ c.by \in team /\ c.name = OwnBranch(c.by) /\ c.kind = KindOf(c.by)
       /\ c.kind = "manifest" =>
              /\ Drawn(c.file)
              /\ c.by \in temp.mixed \/ StartsWith(c.file, JobOf[c.by].manifest)

WellMade ==
    /\ \A r \in Repos, n \in Names : \A c \in heads[r][n] : Made(c)
    /\ \A j \in Jobs, n \in Names : \A c \in clone[j][n] : Made(c)
    /\ \A j \in Jobs : \A c \in work[j] : Made(c)

(* The temporary file: a copy that no one wrote into is found there.         *)
CopySound(j) ==
    LET copied == temp.copied[j]
        new == JobOf[j].manifest
    IN  /\ Drawn(copied)
        /\ pc[j] = "save" => StartsWith(new, copied) /\ Len(copied) <= Len(temp.file)
        /\ j \notin temp.mixed => StartsWith(temp.file, copied)
        /\ pc[j] = "restore" /\ j \notin temp.mixed => StartsWith(temp.file, new)

TempKept ==
    /\ Drawn(temp.file)
    /\ \A j \in Jobs : pc[j] \in {"save", "restore"} => CopySound(j)

(* A branch with a pull request to come has a commit made for it.            *)
Home(j) == HeadRepo(Target(j))
HasOwn(branches, n) == branches[n] # {} => \E c \in branches[n] : c.name = n
OnlyCI(commits) == \A c \in commits : c.kind \in {"root", "people", "ci"}

BranchesNamed ==
    /\ \A j \in Jobs : HasOwn(heads[Home(j)], OwnBranch(j))
    /\ \A r \in {"fork", "upstream"}, n \in Names : OnlyCI(heads[r][n])

(* Pull requests come from the branches of runs; an open one has its branch  *)
(* and is the only one from there; what was merged is on main.               *)
PullsSound ==
    /\ \A i \in DOMAIN pulls :
           \E j \in team : pulls[i].repo = Target(j) /\ pulls[i].name = OwnBranch(j)
    /\ \A i \in DOMAIN pulls : pulls[i].state = "open" => Content(i) # {}
    /\ \A i, k \in DOMAIN pulls :
           /\ pulls[i].state = "open" /\ pulls[k].state = "open"
           /\ pulls[i].repo = pulls[k].repo /\ pulls[i].name = pulls[k].name
           => i = k
    /\ \A i \in DOMAIN pulls :
           pulls[i].state = "merged" =>
               \E c \in heads[pulls[i].repo][Main] : c.name = pulls[i].name

(* What a run holds between its calls.  ByOne: beyond main there is at most  *)
(* one commit for the branch.                                                *)
ByOne(commits, n, main) ==
    \A c, d \in {e \in commits \ main : e.name = n /\ e.kind # "ci"} : c = d

CloneSound(j) ==
    /\ JobOf[j].cmd \in {"create", "prodsec"} =>
           /\ clone[j][Main] \subseteq heads["operator"][Main]
           /\ \A n \in Names \ {Main} : ByOne(clone[j][n], n, heads["operator"][Main])
           /\ \A i \in Jobs : Home(i) = "operator" => HasOwn(clone[j], OwnBranch(i))
    /\ JobOf[j].cmd = "ci" /\ pc[j] = "branch" =>
           clone[j][Main] \subseteq heads["operator"][Main]
    /\ JobOf[j].cmd = "ci" /\ pc[j] \in {"pull", "edit", "push"} =>
           \A n \in Names : OnlyCI(clone[j][n])
    /\ JobOf[j].cmd = "addon" => clone[j][Main] \subseteq heads["bundles"][Main]

WorkSound(j) ==
    /\ JobOf[j].cmd = "ci" /\ pc[j] = "pushBranch" => work[j] \subseteq heads["operator"][Main]
    /\ pc[j] = "push" =>
           /\ \E c \in work[j] : c.name = OwnBranch(j)
           /\ JobOf[j].cmd = "ci" => OnlyCI(work[j])
           /\ JobOf[j].cmd # "ci" => ByOne(work[j], OwnBranch(j), heads[Target(j)][Main])

PullKnown(j) ==
    /\ JobOf[j].cmd = "merge" /\ pc[j] \in {"get", "merge", "done"} =>
           /\ merges[j] \in DOMAIN pulls
           /\ pulls[merges[j]].repo = "operator" /\ pulls[merges[j]].name = OwnBranch(j)
           /\ pc[j] = "done" => pulls[merges[j]].state = "merged"
    /\ JobOf[j].cmd # "merge" /\ pc[j] = "done" /\ j \notin quiet =>
           \E i \in DOMAIN pulls : pulls[i].repo = Target(j) /\ pulls[i].name = OwnBranch(j)

RunsSound == \A j \in Jobs : CloneSound(j) /\ WorkSound(j) /\ PullKnown(j)

FlowInv ==
    /\ FlowTypeOK /\ WellMade /\ TempKept /\ BranchesNamed /\ PullsSound /\ RunsSound
    /\ OneRunPerBranch
=============================================================================
