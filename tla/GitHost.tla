------------------------------ MODULE GitHost -------------------------------
(* What the release commands share: the repositories on GitHub and GitLab,   *)
(* their pull requests, the people who work on them, and for every run of a  *)
(* command the clone it works in.  A branch is the set of the commits that   *)
(* are reachable from its head, and {} when there is no such branch: a push  *)
(* is a fast forward when it adds to that set.                               *)
EXTENDS Versions, FiniteSets

CONSTANTS
    Jobs,       \* the runs of the commands
    JobOf,      \* what a run is asked for
    Teams,      \* the sets of runs that may be under way together
    OldManifest,\* the manifest in the repository at the beginning, as lines
    MaxTries,   \* how often each run is started
    MaxActs     \* what people do to the repositories

VARIABLES
    team,     \* the runs that take part
    heads,    \* per repository and name: the commits of the branch
    pulls,    \* the pull requests, the oldest first
    pc,       \* where a run is
    clone,    \* its local branches
    work,     \* the commits of the branch it has checked out
    tries,    \* how often it was started
    acts,     \* how much people have done
    quiet,    \* runs that succeed without a pull request
    merges,   \* what merge-release told GitHub to merge, per run
    temp      \* the temporary file of the manifest command: its lines, what each
              \* run's copy has copied, the runs whose copies another wrote into

flow == <<team, heads, pulls, pc, clone, work, tries, acts, quiet, merges, temp>>

Main == <<"main">>
Repos == {"operator", "fork", "upstream", "bundles", "bundlesFork"}

(* The branch a run works on.                                                *)
OwnBranch(j) ==
    LET job == JobOf[j]
    IN  CASE job.cmd \in {"create", "merge"} -> PrepareReleaseBranchName(job.version)
          [] job.cmd = "prodsec" /\ job.type = "master" -> <<"master-manifest", job.version.olm>>
          [] job.cmd = "prodsec" /\ job.type # "master" ->
                 PrepareProdsecManifestBranchName(job.version)
          [] job.cmd = "ci" -> ReleaseBranchName(job.version)
          [] OTHER -> <<"addon", job.channel, job.version>>

Names == {Main} \union {OwnBranch(j) : j \in Jobs}
             \union {ReleaseBranchName(JobOf[j].version) : j \in Jobs}

Root == [kind |-> "root", name |-> Main, by |-> "people", n |-> 0, file |-> <<>>]
CommitOf(kind, j, file) ==
    [kind |-> kind, name |-> OwnBranch(j), by |-> j, n |-> tries[j], file |-> file]

\* What the upstream of the fork may already be ahead by.
Ahead == [Root EXCEPT !.kind = "people", !.n = MaxActs]

NoClone == [n \in Names |-> {}]
Ended == {"done", "failed"}

HostInit ==
    /\ team \in Teams
    /\ \E ahead \in SUBSET {Ahead} :
           /\ ahead # {} => team # {} /\ \A j \in team : JobOf[j].cmd = "ci"
           /\ heads = [r \in Repos |-> [n \in Names |->
                         IF n # Main THEN {} ELSE IF r = "upstream" THEN {Root} \union ahead
                         ELSE {Root}]]
    /\ pulls = <<>>
    /\ pc = [j \in Jobs |-> IF j \in team THEN "clone" ELSE "idle"]
    /\ clone = [j \in Jobs |-> NoClone] /\ work = [j \in Jobs |-> {}]
    /\ tries = [j \in Jobs |-> 1] /\ acts = 0
    /\ quiet = {} /\ merges = [j \in Jobs |-> 0]
    /\ temp = [file |-> <<>>, copied |-> [j \in Jobs |-> <<>>], mixed |-> {}]

----------------------------------------------------------------------------
(* A run goes on; the temporary directory is forgotten when it ends.         *)
Forget(f, j, none, where) == IF where \in Ended THEN [f EXCEPT ![j] = none] ELSE f

Goto(j, where) ==
    /\ pc' = [pc EXCEPT ![j] = where]
    /\ clone' = Forget(clone, j, NoClone, where)
    /\ work' = Forget(work, j, {}, where)

At(j, cmd, where) == j \in team /\ JobOf[j].cmd = cmd /\ pc[j] = where

(* CloneToTmpDir fetches refs/*:refs/*: every branch there is becomes a      *)
(* local one.                                                                *)
CloneToTmpDir(j, repo) == clone' = [clone EXCEPT ![j] = heads[repo]]

(* Checkout with Create from the branch that is checked out.                 *)
Creates(j, name, from) ==
    /\ clone[j][name] = {}
    /\ work' = [work EXCEPT ![j] = clone[j][from]]

\* Mutant of FastForward: a push is forced.
AnyUpdate(old, new) == TRUE

FastForward(old, new) == old \subseteq new

(* A push of one branch, the local commits to the remote one.                *)
PushBranch(j, repo, name, commits) ==
    /\ FastForward(heads[repo][name], commits) /\ heads[repo][name] # commits
    /\ heads' = [heads EXCEPT ![repo][name] = commits]

(* A push without refspecs: every local branch goes to its remote one, and   *)
(* one of them that is no fast forward refuses the push.                     *)
LocalBranches(j) == [clone[j] EXCEPT ![OwnBranch(j)] = work[j]]

PushAll(j, repo) ==
    LET local == LocalBranches(j)
    IN  /\ \A n \in Names : local[n] # {} => FastForward(heads[repo][n], local[n])
        /\ heads' = [heads EXCEPT ![repo] =
                        [n \in Names |-> IF local[n] # {} THEN local[n] ELSE heads[repo][n]]]

----------------------------------------------------------------------------
(* Pull requests to the main branch of a repository.                         *)
HeadRepo(repo) == IF repo = "upstream" THEN "fork"
                  ELSE IF repo = "bundles" THEN "bundlesFork" ELSE repo

OpenPulls(repo, name) ==
    {i \in DOMAIN pulls : pulls[i].repo = repo /\ pulls[i].name = name /\ pulls[i].state = "open"}

Content(i) == heads[HeadRepo(pulls[i].repo)][pulls[i].name]

(* The host refuses a second open one for the same branches, one without a   *)
(* branch and one without commits.                                           *)
CreatePull(j, repo, name) ==
    /\ OpenPulls(repo, name) = {}
    /\ ~ heads[HeadRepo(repo)][name] \subseteq heads[repo][Main]
    /\ pulls' = Append(pulls, [repo |-> repo, name |-> name, state |-> "open"])

(* findPRForRelease: none, one, or several.  A list filtered by the full     *)
(* name of the base branch may come back empty.                              *)
findPRForRelease(repo, name, fullName) ==
    {OpenPulls(repo, name)} \union IF fullName THEN {{}} ELSE {}

(* createPRIfNotExists, in its three versions: look for the pull request,    *)
(* and create it in a later call.                                            *)
FindPull(j, repo, fullName, next) ==
    \E hits \in findPRForRelease(repo, OwnBranch(j), fullName) :
        Goto(j, IF hits = {} THEN next ELSE IF Cardinality(hits) = 1 THEN "done" ELSE "failed")

OpenPull(j, repo) ==
    /\ CreatePull(j, repo, OwnBranch(j))
    /\ \E where \in Ended : Goto(j, where)

MergedInto(i) ==
    LET p == pulls[i]
        merged == [heads EXCEPT ![p.repo][Main] = @ \union Content(i)]
    IN  /\ heads' = IF p.repo = "bundles" THEN [merged EXCEPT !["bundlesFork"][p.name] = {}]
                    ELSE merged
        /\ pulls' = [pulls EXCEPT ![i].state = "merged"]

----------------------------------------------------------------------------
(* What people do: commit to a main branch, merge and close pull requests,   *)
(* delete the branch of one.                                                 *)
PeopleCommit ==
    \E repo \in {"operator", "upstream"} :
        heads' = [heads EXCEPT ![repo][Main] = @ \union
                     {[Root EXCEPT !.kind = "people", !.n = acts]}]

PeopleClose == \E i \in DOMAIN pulls :
    /\ pulls[i].state = "open"
    /\ \/ MergedInto(i)
       \/ pulls' = [pulls EXCEPT ![i].state = "closed"] /\ UNCHANGED heads

PeopleDelete == \E i \in DOMAIN pulls :
    LET repo == HeadRepo(pulls[i].repo)
        name == pulls[i].name
    IN  /\ heads[repo][name] # {}
        /\ heads' = [heads EXCEPT ![repo][name] = {}]
        /\ pulls' = [k \in DOMAIN pulls |->
                        IF k \in OpenPulls(pulls[i].repo, name)
                        THEN [pulls[k] EXCEPT !.state = "closed"] ELSE pulls[k]]

People ==
    /\ acts < MaxActs /\ acts' = acts + 1
    /\ (PeopleCommit /\ UNCHANGED pulls) \/ PeopleClose \/ PeopleDelete
    /\ UNCHANGED <<team, pc, clone, work, tries, quiet, merges, temp>>

(* Every call may fail, and the process may be killed.                       *)
CallFails(j) ==
    /\ j \in team /\ pc[j] \notin Ended
    /\ Goto(j, "failed")
    /\ UNCHANGED <<team, heads, pulls, tries, acts, quiet, merges, temp>>

Again(j) ==
    /\ j \in team /\ pc[j] \in Ended /\ tries[j] < MaxTries[j]
    /\ Goto(j, "clone")
    /\ tries' = [tries EXCEPT ![j] = @ + 1]
    /\ quiet' = quiet \ {j} /\ merges' = [merges EXCEPT ![j] = 0]
    /\ UNCHANGED <<team, heads, pulls, acts, temp>>
=============================================================================
