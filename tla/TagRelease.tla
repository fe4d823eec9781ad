----------------------------- MODULE TagRelease -----------------------------
(***************************************************************************)
(* Tagging a release: `release tag-release-repo` creates the git tag of a  *)
(* version at the HEAD of the branch, `release tag-release` gives the same *)
(* tag to the images of quay.io that were built from the HEAD it reads, or *)
(* promotes the images of the last candidate when the version is final.    *)
(* The two are separate pipeline steps; meanwhile people merge to the      *)
(* branch and OpenShift CI rebuilds the branch's images. Nothing is locked *)
(* and every remote call is a step of its own.                             *)
(*                                                                         *)
(* Commits of the branch are numbered; 0 stands for "no tag", "no image".  *)
(* A candidate X.Y.Z-rcN is its number N and the final X.Y.Z is 0.         *)
(***************************************************************************)
EXTENDS Naturals, Sequences

CONSTANTS
  Candidates,  \* numbers of the release candidates
  Repos,       \* image repositories
  Sources,     \* image tags that CI moves with the branch ("master", ...)
  Fixed,       \* tags written out in --quayRepos, as in repo:latest-staging
  Own,         \* the tag of an entry of --quayRepos that names none
  Job,         \* the commands that are run and their options, by job
  Freeze,      \* whether merges stop while a version is half tagged
  MaxCommits   \* bound: commits of the branch

Final == 0
Versions == Candidates \cup {Final}
Tags == Versions \cup Sources \cup Fixed
Commits == 1..MaxCommits
Entry == [repo: Repos, tag: Fixed \cup {Own}]
Command == [cmd: {"repo", "images"}, ver: Versions, entries: Seq(Entry),
            source: Sources, wait: BOOLEAN]
Jobs == DOMAIN Job
Ver(j) == Job[j].ver
Entries(j) == Job[j].entries
TagsOwn(j, r) ==
  /\ Job[j].cmd = "images"
  /\ \E i \in DOMAIN Entries(j) : Entries(j)[i] = [repo |-> r, tag |-> Own]

ASSUME TagAssumption ==
  /\ Candidates \subseteq 1..99 /\ MaxCommits \in Nat \ {0}
  /\ (Sources \cup Fixed) \cap Versions = {} /\ Sources \cap Fixed = {}
  /\ Own \notin Tags
  /\ Job \in [Jobs -> Command] /\ Freeze \in BOOLEAN
  \* the images of one repository and version come from one tag of CI
  /\ \A j, k \in Jobs, r \in Repos :
       TagsOwn(j, r) /\ TagsOwn(k, r) /\ Ver(j) = Ver(k) => Job[j].source = Job[k].source

VARIABLES
  head,    \* the commit the branch points to
  gitTag,  \* the commit each version's git tag points to
  image,   \* image[r][t]: the commit the image r:t was built from
  pc,      \* where each command is
  passed,  \* whether its last run returned without an error
  sha,     \* the commit it has read and works for
  src,     \* the image tag it copies from
  at,      \* the entry of --quayRepos it is at
  ok       \* whether every entry so far succeeded in this attempt

world == <<head, gitTag, image>>
choice == <<sha, src>>
progress == <<at, ok>>
vars == <<world, pc, passed, choice, progress>>

Running == {"readTag", "create", "readRCs", "inspect", "mirror", "attempted"}

Init ==
  /\ head = 1
  /\ gitTag = [v \in Versions |-> 0]
  /\ image = [r \in Repos |-> [t \in Tags |-> 0]]
  /\ pc = [j \in Jobs |-> "idle"] /\ passed = [j \in Jobs |-> FALSE]
  /\ sha = [j \in Jobs |-> 0] /\ src = [j \in Jobs |-> Job[j].source]
  /\ at = [j \in Jobs |-> 1] /\ ok = [j \in Jobs |-> TRUE]

Goto(j, l) == pc' = [pc EXCEPT ![j] = l] /\ UNCHANGED passed

\* The locals end with the command; sha stays as a record of what it was for.
Return(j, success) ==
  /\ pc' = [pc EXCEPT ![j] = "idle"]
  /\ passed' = [passed EXCEPT ![j] = success]
  /\ src' = [src EXCEPT ![j] = Job[j].source]
  /\ at' = [at EXCEPT ![j] = 1] /\ ok' = [ok EXCEPT ![j] = TRUE]
  /\ UNCHANGED sha

(***************************************************************************)
(* Names. GetRefs returns the refs that start with the given name, so that *)
(* rc1 finds rc10 as well; candidates compare as strings, rc9 > rc10.      *)
(***************************************************************************)
HasPrefix(v, w) == v = w \/ v = Final \/ v = w \div 10
Tagged(v) == gitTag[v] # 0
GetRefs(v) == {w \in Versions : Tagged(w) /\ HasPrefix(v, w)}

ExactRef(v) == {w \in GetRefs(v) : w = v}

RCRefs == {c \in Candidates : Tagged(c)}
NameKey(c) == IF c < 10 THEN 100 * c ELSE 100 * (c \div 10) + (c % 10) + 1
MostRecentRC == CHOOSE c \in RCRefs : \A d \in RCRefs : NameKey(d) <= NameKey(c)

(***************************************************************************)
(* The world around the commands.                                          *)
(***************************************************************************)
OwnRepos(v) == {r \in Repos : \E j \in Jobs : Ver(j) = v /\ TagsOwn(j, r)}
Begun(v) ==
  \/ Tagged(v) \/ \E r \in Repos : image[r][v] # 0
  \/ \E j \in Jobs : Ver(j) = v /\ pc[j] # "idle"
Complete(v) ==
  /\ Tagged(v) /\ \A r \in OwnRepos(v) : image[r][v] # 0
  /\ \A j \in Jobs : Ver(j) = v => pc[j] = "idle"

Commit ==
  /\ head < MaxCommits
  /\ Freeze => \A v \in Versions : Begun(v) => Complete(v)
  /\ head' = head + 1
  /\ UNCHANGED <<gitTag, image, pc, passed, choice, progress>>

\* CI builds a commit of the branch; builds of old commits do not overtake
\* newer ones.
Build(r, s) ==
  /\ \E c \in (image[r][s] + 1)..head : image' = [image EXCEPT ![r][s] = c]
  /\ UNCHANGED <<head, gitTag, pc, passed, choice, progress>>

(***************************************************************************)
(* Both commands begin by reading the branch. A command may be run again.  *)
(***************************************************************************)
\* Mutant of ReadHead: a command that is run again works for the old commit.
ReadHeadOnce(j) ==
  /\ pc[j] = "idle"
  /\ Freeze => ~Complete(Ver(j))
  /\ pc' = [pc EXCEPT ![j] = IF Job[j].cmd = "repo" THEN "readTag" ELSE "readRCs"]
  /\ passed' = [passed EXCEPT ![j] = FALSE]
  /\ sha' = [sha EXCEPT ![j] = IF @ = 0 THEN head ELSE @]
  /\ UNCHANGED <<world, src, progress>>

ReadHead(j) ==
  /\ pc[j] = "idle"
  /\ Freeze => ~Complete(Ver(j))
  /\ pc' = [pc EXCEPT ![j] = IF Job[j].cmd = "repo" THEN "readTag" ELSE "readRCs"]
  /\ passed' = [passed EXCEPT ![j] = FALSE]
  /\ sha' = [sha EXCEPT ![j] = head]
  /\ UNCHANGED <<world, src, progress>>

\* A failing call, or a kill, ends the command where it is.
Fail(j) ==
  /\ pc[j] # "idle"
  /\ Return(j, FALSE)
  /\ UNCHANGED world

(***************************************************************************)
(* tag-release-repo: an existing tag is kept and must be the right one.    *)
(***************************************************************************)
ReadTag(j) ==
  /\ pc[j] = "readTag"
  /\ IF ExactRef(Ver(j)) = {} THEN Goto(j, "create") /\ UNCHANGED <<choice, progress>>
     ELSE \E v \in ExactRef(Ver(j)) :
            Return(j, gitTag[v] = sha[j])
  /\ UNCHANGED world

\* Mutant of CreateRef: the ref is set, whether it exists or not.
SetRef(j) ==
  /\ pc[j] = "create"
  /\ gitTag' = [gitTag EXCEPT ![Ver(j)] = sha[j]]
  /\ \E answered \in BOOLEAN : Return(j, answered)
  /\ UNCHANGED <<head, image>>

\* GitHub refuses to create a ref that exists; the reply may be lost.
CreateRef(j) ==
  /\ pc[j] = "create"
  /\ \/ /\ ~Tagged(Ver(j))
        /\ gitTag' = [gitTag EXCEPT ![Ver(j)] = sha[j]]
        /\ \E answered \in BOOLEAN : Return(j, answered)
     \/ /\ Tagged(Ver(j)) /\ Return(j, FALSE) /\ UNCHANGED gitTag
  /\ UNCHANGED <<head, image>>

(***************************************************************************)
(* tag-release: which commit, from which tag.                              *)
(***************************************************************************)
NewAttempt(j) ==
  /\ Goto(j, "inspect")
  /\ at' = [at EXCEPT ![j] = 1] /\ ok' = [ok EXCEPT ![j] = TRUE]

PromotesRC(j) == Ver(j) = Final /\ RCRefs # {}

ReadRCs(j) ==
  /\ pc[j] = "readRCs"
  /\ IF Entries(j) = <<>>
     THEN Return(j, TRUE)
     ELSE /\ NewAttempt(j)
          /\ src' = [src EXCEPT ![j] = IF PromotesRC(j) THEN MostRecentRC ELSE Job[j].source]
          /\ sha' = [sha EXCEPT ![j] = IF PromotesRC(j) THEN gitTag[MostRecentRC] ELSE @]
  /\ UNCHANGED world

(***************************************************************************)
(* One attempt visits every entry, whatever became of the earlier ones:    *)
(* the image is inspected, then copied by name.                            *)
(***************************************************************************)
Repo(j) == Entries(j)[at[j]].repo
Dst(j) == IF Entries(j)[at[j]].tag = Own THEN Ver(j) ELSE Entries(j)[at[j]].tag

\* Mutant of NextEntry: the last entry decides.
NextEntryLastWins(j, success) ==
  /\ ok' = [ok EXCEPT ![j] = success]
  /\ IF at[j] = Len(Entries(j))
     THEN Goto(j, "attempted") /\ UNCHANGED at
     ELSE Goto(j, "inspect") /\ at' = [at EXCEPT ![j] = @ + 1]

NextEntry(j, success) ==
  /\ ok' = [ok EXCEPT ![j] = @ /\ success]
  /\ IF at[j] = Len(Entries(j))
     THEN Goto(j, "attempted") /\ UNCHANGED at
     ELSE Goto(j, "inspect") /\ at' = [at EXCEPT ![j] = @ + 1]

\* Mutant of Inspect: the commit of the image is not compared.
InspectExists(j) ==
  /\ pc[j] = "inspect"
  /\ image[Repo(j)][src[j]] # 0
  /\ Goto(j, "mirror")
  /\ UNCHANGED <<world, choice, progress>>

Inspect(j) ==
  /\ pc[j] = "inspect"
  /\ image[Repo(j)][src[j]] = sha[j]
  /\ Goto(j, "mirror")
  /\ UNCHANGED <<world, choice, progress>>

\* No such image, one of another commit, or the registry fails.
EntryFails(j) ==
  /\ pc[j] \in {"inspect", "mirror"}
  /\ NextEntry(j, FALSE)
  /\ UNCHANGED <<world, choice>>

\* The whole attempt fails when the token file cannot be written.
AttemptFails(j) ==
  /\ pc[j] = "inspect" /\ at[j] = 1
  /\ Goto(j, "attempted")
  /\ ok' = [ok EXCEPT ![j] = FALSE]
  /\ UNCHANGED <<world, choice, at>>

Mirror(j) ==
  /\ pc[j] = "mirror"
  /\ image' = [image EXCEPT ![Repo(j)][Dst(j)] = image[Repo(j)][src[j]]]
  /\ NextEntry(j, TRUE)
  /\ UNCHANGED <<head, gitTag, choice>>

\* Without --wait a failed attempt returns the err of an earlier call: nil.
EndAttempt(j) ==
  /\ pc[j] = "attempted"
  /\ ok[j] \/ ~Job[j].wait
  /\ Return(j, TRUE)
  /\ UNCHANGED world

\* With --wait it is repeated, until wait.Poll times out.
Again(j) ==
  /\ pc[j] = "attempted" /\ ~ok[j] /\ Job[j].wait
  /\ NewAttempt(j)
  /\ UNCHANGED <<world, choice>>

TimeOut(j) ==
  /\ pc[j] = "attempted" /\ ~ok[j] /\ Job[j].wait
  /\ Return(j, FALSE)
  /\ UNCHANGED world

RepoStep(j) == ReadTag(j) \/ CreateRef(j)
ImageStep(j) ==
  \/ ReadRCs(j) \/ Inspect(j) \/ EntryFails(j) \/ AttemptFails(j)
  \/ Mirror(j) \/ EndAttempt(j) \/ Again(j) \/ TimeOut(j)

Next ==
  \/ Commit
  \/ \E r \in Repos, s \in Sources : Build(r, s)
  \/ \E j \in Jobs : ReadHead(j) \/ Fail(j) \/ RepoStep(j) \/ ImageStep(j)

Spec == Init /\ [][Next]_vars
-----------------------------------------------------------------------------
TypeOK ==
  /\ head \in Commits
  /\ gitTag \in [Versions -> 0..MaxCommits]
  /\ image \in [Repos -> [Tags -> 0..MaxCommits]]
  /\ pc \in [Jobs -> Running \cup {"idle"}]
  /\ passed \in [Jobs -> BOOLEAN]
  /\ sha \in [Jobs -> 0..MaxCommits]
  /\ src \in [Jobs -> Tags]
  /\ at \in [Jobs -> Nat \ {0}] /\ ok \in [Jobs -> BOOLEAN]

\* A tag-release-repo that returns without an error has its version tagged at
\* the commit it read, whichever commands for the same version ran beside it:
\* createGitTag compares what it finds and does not overwrite.
GitTagIsTruthful ==
  \A j \in Jobs : Job[j].cmd = "repo" /\ passed[j] => gitTag[Ver(j)] = sha[j]

\* A tag-release of a candidate that was told to wait and returns without an
\* error leaves, for every entry of --quayRepos that gets the version's own tag,
\* the image with that tag at its commit or at a later one, although other
\* commands and CI move the images between its steps. (A tag that an entry
\* writes out is shared by all versions, and a slower command for an older one
\* may move it back.)
WaitedForImages ==
  \A j \in Jobs :
    /\ Job[j].cmd = "images" /\ Job[j].wait /\ Ver(j) \in Candidates /\ passed[j]
    => \A i \in DOMAIN Entries(j) :
         Entries(j)[i].tag = Own => image[Entries(j)[i].repo][Ver(j)] >= sha[j]

\* The git tag of a candidate and its images stand for the same commit: "Also
\* create the same tag for the image that is built from the same commit"
\* (help text of tag-release).
SameCommit ==
  \A c \in Candidates, r \in Repos :
    Tagged(c) /\ image[r][c] # 0 => image[r][c] = gitTag[c]

\* The images of a final release were built from a commit that carries a git
\* tag of the release: a candidate's, or its own.
FinalIsTagged ==
  \A r \in Repos :
    Tagged(Final) /\ image[r][Final] # 0
    => \E v \in Versions : Tagged(v) /\ gitTag[v] = image[r][Final]

\* The candidate that a final release promotes is the last one, "the most
\* recent one based on it's name" (comment in getGitRef).
MostRecentIsLast == \A c \in RCRefs : c <= MostRecentRC

-----------------------------------------------------------------------------
(* The inductive invariant behind the properties. *)

\* Nothing stands for a commit that is not there yet, a command is where its
\* name allows, and it copies from CI's tag or, promoting, from a candidate.
Sound ==
  /\ \A r \in Repos, t \in Tags : image[r][t] <= head
  /\ \A v \in Versions : gitTag[v] <= head
  /\ \A j \in Jobs :
       /\ sha[j] \in 0..head /\ (pc[j] # "idle" \/ passed[j] => sha[j] # 0)
       /\ pc[j] \in {"readTag", "create"} => Job[j].cmd = "repo"
       /\ pc[j] \in {"readRCs", "inspect", "mirror", "attempted"} => Job[j].cmd = "images"
       /\ pc[j] \in {"inspect", "mirror", "attempted"} => at[j] \in DOMAIN Entries(j)
       /\ passed[j] => pc[j] = "idle"
       /\ src[j] # Job[j].source =>
            /\ Ver(j) = Final /\ pc[j] \in {"inspect", "mirror", "attempted"}
            /\ src[j] \in Candidates /\ Tagged(src[j]) /\ sha[j] = gitTag[src[j]]

\* A candidate's image is never ahead of the CI image it is copied from, which
\* only moves forward: a stale check errs towards newer commits.
NotAhead ==
  /\ \A j \in Jobs, r \in Repos :
       TagsOwn(j, r) /\ Ver(j) \in Candidates => image[r][Ver(j)] <= image[r][Job[j].source]
  /\ \A j \in Jobs :
       pc[j] = "mirror" => image[Repo(j)][src[j]] # 0
                           /\ (src[j] \in Sources => image[Repo(j)][src[j]] >= sha[j])

\* What a command has copied stays copied.
Copied(j, i) ==
  Entries(j)[i].tag = Own => image[Entries(j)[i].repo][Ver(j)] >= sha[j]
CopiedSoFar ==
  \A j \in Jobs : Ver(j) \in Candidates /\ ok[j] =>
    /\ pc[j] \in {"inspect", "mirror"} => \A i \in 1..(at[j] - 1) : Copied(j, i)
    /\ pc[j] = "attempted" => \A i \in DOMAIN Entries(j) : Copied(j, i)

\* While merges are held back, everything of a version in progress is at HEAD.
AtHead ==
  Freeze =>
    /\ \A j \in Jobs : pc[j] # "idle" /\ src[j] \in Sources => sha[j] = head
    /\ \A v \in Versions : ~Complete(v) => gitTag[v] \in {0, head}
    /\ \A c \in Candidates, r \in Repos : ~Complete(c) => image[r][c] \in {0, head}
    /\ \A r \in Repos : image[r][Final] # 0 =>
         \/ \E v \in Versions : Tagged(v) /\ gitTag[v] = image[r][Final]
         \/ ~Complete(Final) /\ image[r][Final] = head
    /\ SameCommit

IndInv ==
  /\ TypeOK /\ Sound /\ NotAhead /\ CopiedSoFar /\ AtHead
  /\ GitTagIsTruthful /\ WaitedForImages
=============================================================================
