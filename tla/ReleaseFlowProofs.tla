------------------------- MODULE ReleaseFlowProofs --------------------------
(* The release commands and the people beside them, for any number of runs   *)
(* in any teams, any versions, manifests and number of attempts.             *)
EXTENDS ReleaseFlow, SequenceTheorems, FiniteSetTheorems, TLAPS

(* The first part of a name tells the command it belongs to.                 *)
Tag(j) == CASE JobOf[j].cmd \in {"create", "merge"} -> "prepare"
            [] JobOf[j].cmd = "prodsec" /\ JobOf[j].type = "master" -> "master-manifest"
            [] JobOf[j].cmd = "prodsec" /\ JobOf[j].type # "master" -> "manifest"
            [] JobOf[j].cmd = "ci" -> "release"
            [] OTHER -> "addon"

LEMMA TagOfName == \A j \in Jobs : OwnBranch(j)[1] = Tag(j)
<1>1. SUFFICES ASSUME NEW j \in Jobs PROVE OwnBranch(j)[1] = Tag(j)
    OBVIOUS
<1>2. JobOf[j].cmd \in {"create", "merge", "prodsec", "ci", "addon"}
    BY FlowAssumption
<1> QED
    BY <1>2 DEF OwnBranch, Tag, PrepareReleaseBranchName, PrepareProdsecManifestBranchName,
        ReleaseBranchName

LEMMA NamesApart ==
    /\ \A j \in Jobs : OwnBranch(j) \in Names \ {Main}
    /\ \A i, j \in Jobs :
           OwnBranch(i) = OwnBranch(j) =>
               /\ JobOf[i].cmd = "ci" <=> JobOf[j].cmd = "ci"
               /\ JobOf[i].cmd \in {"create", "merge"} <=> JobOf[j].cmd \in {"create", "merge"}
<1>1. \A j \in Jobs : Tag(j) # "main" /\ OwnBranch(j)[1] # Main[1]
    BY TagOfName, FlowAssumption DEF Tag, Main
<1>2. \A i, j \in Jobs : Tag(i) = Tag(j) =>
               /\ JobOf[i].cmd = "ci" <=> JobOf[j].cmd = "ci"
               /\ JobOf[i].cmd \in {"create", "merge"} <=> JobOf[j].cmd \in {"create", "merge"}
    BY FlowAssumption DEF Tag
<1> QED BY <1>1, <1>2, TagOfName DEF Names

LEMMA Homes ==
    \A j \in Jobs :
        /\ Target(j) \in {"operator", "upstream", "bundles"} /\ Home(j) \in Repos
        /\ JobOf[j].cmd \in {"create", "prodsec", "merge"} <=> Target(j) = "operator"
        /\ JobOf[j].cmd = "ci" <=> Target(j) = "upstream"
        /\ JobOf[j].cmd = "addon" <=> Target(j) = "bundles"
        /\ Target(j) = "operator" <=> Home(j) = "operator"
        /\ Target(j) = "upstream" <=> Home(j) = "fork"
        /\ Target(j) = "bundles" <=> Home(j) = "bundlesFork"
BY FlowAssumption DEF Target, Home, HeadRepo, Repos

LEMMA Kinds ==
    \A j \in Jobs :
        /\ KindOf(j) \in {"prepare", "manifest", "ci", "addon", "none"}
        /\ KindOf(j) = "manifest" => JobOf[j].cmd = "prodsec"
        /\ KindOf(j) = "none" <=> JobOf[j].cmd = "merge"
        /\ JobOf[j].cmd = "create" => KindOf(j) = "prepare"
BY FlowAssumption DEF KindOf

LEMMA TeamIsJobs == FlowTypeOK => team \subseteq Jobs
BY DEF FlowTypeOK

----------------------------------------------------------------------------
(* What a step of the run j may change of the runs.                          *)
Moves(j) ==
    /\ j \in team /\ UNCHANGED team
    /\ pc' \in [Jobs -> Places] /\ pc'[j] # "idle"
    /\ clone' \in [Jobs -> [Names -> SUBSET Commit]] /\ work' \in [Jobs -> SUBSET Commit]
    /\ pc'[j] \in Ended => clone'[j] = NoClone /\ work'[j] = {}
    /\ \A n \in Names : \A c \in clone'[j][n] : Made(c)
    /\ \A c \in work'[j] : Made(c)
    /\ \A i \in Jobs \ {j} : pc'[i] = pc[i] /\ clone'[i] = clone[i] /\ work'[i] = work[i]

Keeps(j) ==
    /\ tries' \in [Jobs -> Nat] /\ acts' \in 0..MaxActs
    /\ merges' \in [Jobs -> Nat] /\ \A i \in Jobs \ {j} : merges'[i] = merges[i]
    /\ merges'[j] \in {0} \union DOMAIN pulls
    /\ \A i \in Jobs \ {j} : i \in quiet' <=> i \in quiet
    /\ quiet' \subseteq {i \in Jobs : JobOf[i].cmd \in {"prodsec", "ci"}}

(* What may become of the repositories under a run's feet.                   *)
Grows ==
    /\ \A r \in Repos : heads[r][Main] \subseteq heads'[r][Main]
    /\ DOMAIN pulls \subseteq DOMAIN pulls'
    /\ \A i \in DOMAIN pulls :
           /\ pulls'[i].repo = pulls[i].repo /\ pulls'[i].name = pulls[i].name
           /\ pulls[i].state = "merged" => pulls'[i].state = "merged"

TempType == temp \in [file: Seq(STRING), copied: [Jobs -> Seq(STRING)], mixed: SUBSET Jobs]

LEMMA ManifestsStay == ASSUME UNCHANGED team PROVE Manifests' = Manifests
BY DEF Manifests, Generators

LEMMA MadeStays ==
    ASSUME UNCHANGED team, temp.mixed \subseteq temp'.mixed
    PROVE  \A c : Made(c) => Made(c)'
BY ManifestsStay DEF Drawn, Made, StartsWith

(* No one begins a copy, and the temporary file is as it was.                *)
LEMMA TempStays ==
    ASSUME TempKept, UNCHANGED <<team, temp>>,
           \A i \in Jobs : pc'[i] \in {"save", "restore"} => pc'[i] = pc[i]
    PROVE  TempKept'
BY ManifestsStay DEF Drawn, TempKept, CopySound, StartsWith

LEMMA NoCloneIsEmpty ==
    NoClone \in [Names -> SUBSET Commit] /\ Main \in Names /\ \A n \in Names : NoClone[n] = {}
BY DEF NoClone, Names

LEMMA GotoMoves ==
    ASSUME FlowTypeOK, WellMade, NEW j \in team, NEW where \in Places \ {"idle"}, Goto(j, where),
           UNCHANGED team
    PROVE  /\ Moves(j) /\ pc'[j] = where
           /\ clone'[j] \in {clone[j], NoClone} /\ work'[j] \in {work[j], {}}
           /\ where \notin Ended => clone' = clone /\ work' = work
BY NoCloneIsEmpty DEF FlowTypeOK, WellMade, Goto, Forget, Moves, Ended, Places

(* The other runs keep what they hold.                                       *)
LEMMA OthersSound ==
    ASSUME FlowTypeOK, RunsSound, Grows, NEW i \in Jobs, pc'[i] = pc[i], clone'[i] = clone[i],
           work'[i] = work[i], merges'[i] = merges[i], i \in quiet' <=> i \in quiet
    PROVE  CloneSound(i)' /\ WorkSound(i)' /\ PullKnown(i)'
<1>1. /\ {"operator", "bundles", Target(i)} \subseteq Repos
      /\ CloneSound(i) /\ WorkSound(i) /\ PullKnown(i)
    BY Homes DEF RunsSound, Repos
<1>2. CloneSound(i)'
    BY <1>1 DEF CloneSound, Grows, ByOne, HasOwn, OnlyCI, Home, Target, HeadRepo
<1>3. WorkSound(i)'
    BY <1>1 DEF WorkSound, Grows, ByOne, OnlyCI, Target
<1>4. PullKnown(i)'
    BY <1>1 DEF PullKnown, Grows, Target
<1> QED BY <1>2, <1>3, <1>4

(* Where a run holds nothing new, it holds what it held.                     *)
LEMMA GotoSound ==
    ASSUME FlowTypeOK, RunsSound, Grows, NEW j \in team, clone'[j] \in {clone[j], NoClone},
           pc'[j] \notin {"branch", "pull", "edit", "push", "pushBranch"}
    PROVE  CloneSound(j)' /\ WorkSound(j)'
<1>1. /\ {"operator", "bundles"} \subseteq Repos /\ CloneSound(j)
    BY Homes DEF RunsSound, Repos, FlowTypeOK
<1>2. CloneSound(j)'
    <2>1. CASE clone'[j] = clone[j]
        BY <1>1, <2>1 DEF CloneSound, Grows, ByOne, HasOwn, OnlyCI, Home, Target, HeadRepo
    <2>2. CASE clone'[j] = NoClone
        BY <1>1, <2>2, NoCloneIsEmpty, NamesApart
           DEF CloneSound, ByOne, HasOwn, OnlyCI, Home, Target, HeadRepo
    <2> QED BY <2>1, <2>2
<1>3. WorkSound(j)'
    BY DEF WorkSound
<1> QED BY <1>2, <1>3

LEMMA TypeStep ==
    ASSUME FlowTypeOK, NEW j \in Jobs, Moves(j), Keeps(j), DOMAIN pulls \subseteq DOMAIN pulls',
           heads' \in [Repos -> [Names -> SUBSET Commit]], \A r \in Repos : heads'[r][Main] # {},
           pulls' \in Seq(Pull), TempType'
    PROVE  FlowTypeOK'
<1>1. NoClone' = NoClone
    BY DEF NoClone
<1>2. \A i \in Jobs \ team' : pc'[i] = "idle"
    BY DEF FlowTypeOK, Moves
<1>3. \A i \in Jobs : pc'[i] \in Ended \union {"idle"} => clone'[i] = NoClone /\ work'[i] = {}
    BY DEF FlowTypeOK, Moves
<1>4. \A i \in Jobs : merges'[i] \in {0} \union DOMAIN pulls'
    BY DEF FlowTypeOK, Keeps
<1>5. team' \subseteq Jobs /\ pc' \in [Jobs -> Places] /\ work' \in [Jobs -> SUBSET Commit]
      /\ clone' \in [Jobs -> [Names -> SUBSET Commit]]
    BY DEF FlowTypeOK, Moves
<1> QED
    BY <1>1, <1>2, <1>3, <1>4, <1>5 DEF FlowTypeOK, Keeps, TempType

LEMMA QuietStep ==
    ASSUME FlowInv, NEW j \in Jobs, Moves(j), Keeps(j), UNCHANGED <<heads, pulls>>,
           TempKept', TempType', temp.mixed \subseteq temp'.mixed,
           CloneSound(j)', WorkSound(j)', PullKnown(j)'
    PROVE  FlowInv'
<1>1. FlowTypeOK'
    <2>1. /\ heads' \in [Repos -> [Names -> SUBSET Commit]] /\ \A r \in Repos : heads'[r][Main] # {}
          /\ pulls' \in Seq(Pull) /\ DOMAIN pulls \subseteq DOMAIN pulls'
        BY DEF FlowInv, FlowTypeOK
    <2>2. FlowTypeOK
        BY DEF FlowInv
    <2> QED BY <2>1, <2>2, TypeStep
<1>2. WellMade'
    <2>1. \A c : Made(c) => Made(c)'
        BY MadeStays DEF Moves
    <2>2. /\ \A i \in Jobs, n \in Names : \A c \in clone'[i][n] : Made(c)
          /\ \A i \in Jobs : \A c \in work'[i] : Made(c)
        BY DEF FlowInv, WellMade, Moves
    <2> QED BY <2>1, <2>2 DEF FlowInv, WellMade
<1>3. BranchesNamed' /\ OneRunPerBranch'
    BY DEF FlowInv, BranchesNamed, OneRunPerBranch, HasOwn, OnlyCI, Home, Target, HeadRepo
<1>6. PullsSound'
    BY DEF FlowInv, PullsSound, Moves, Target, HeadRepo, Content
<1>4. Grows
    BY DEF Grows
<1>5. RunsSound'
    BY <1>4, OthersSound DEF FlowInv, RunsSound, Moves, Keeps
<1> QED BY <1>1, <1>2, <1>3, <1>5, <1>6 DEF FlowInv


(* A run that only goes on.                                                  *)
LEMMA KeepsAll ==
    ASSUME FlowTypeOK, NEW j \in Jobs, UNCHANGED <<tries, acts, quiet, merges>>
    PROVE  Keeps(j)
BY DEF FlowTypeOK, Keeps

Restful == Places \ {"idle", "save", "restore", "branch", "pull", "edit", "push", "pushBranch"}

LEMMA GotoStep ==
    ASSUME FlowInv, NEW j \in team, NEW where \in Restful, Goto(j, where), Keeps(j),
           UNCHANGED <<team, heads, pulls, temp>>, PullKnown(j)'
    PROVE  FlowInv'
<1>1. FlowTypeOK /\ WellMade /\ RunsSound /\ TempKept /\ j \in Jobs /\ Grows
    BY DEF FlowInv, FlowTypeOK, Grows
<1>2. Moves(j) /\ pc'[j] = where /\ clone'[j] \in {clone[j], NoClone}
    BY <1>1, GotoMoves DEF Restful
<1>3. CloneSound(j)' /\ WorkSound(j)'
    BY <1>1, <1>2, GotoSound DEF Restful
<1>4. TempKept'
    BY <1>1, <1>2, TempStays DEF Moves, Restful
<1>5. TempType'
    BY <1>1 DEF FlowTypeOK, TempType
<1> QED BY <1>1, <1>2, <1>3, <1>4, <1>5, QuietStep

(* A run that stays in its directory: the manifest is in nobody's way.       *)
LEMMA LocalStep ==
    ASSUME FlowInv, NEW j \in team, Moves(j), Keeps(j), UNCHANGED <<heads, pulls, temp>>,
           pc'[j] \notin {"save", "restore"}, CloneSound(j)', WorkSound(j)', PullKnown(j)'
    PROVE  FlowInv'
<1>1. FlowTypeOK /\ TempKept /\ j \in Jobs
    BY DEF FlowInv, FlowTypeOK
<1>2. TempKept'
    BY <1>1, TempStays DEF Moves
<1>3. TempType'
    BY <1>1 DEF FlowTypeOK, TempType
<1> QED BY <1>1, <1>2, <1>3, QuietStep

LEMMA CommitMade ==
    ASSUME FlowTypeOK, NEW j \in team, NEW kind, NEW file \in Seq(STRING),
           kind = KindOf(j), JobOf[j].cmd # "merge",
           kind = "manifest" =>
               Drawn(file) /\ (j \in temp.mixed \/ StartsWith(file, JobOf[j].manifest))
    PROVE  /\ CommitOf(kind, j, file) \in Commit /\ Made(CommitOf(kind, j, file))
           /\ CommitOf(kind, j, file).name = OwnBranch(j) /\ CommitOf(kind, j, file).kind = kind
<1>1. j \in Jobs /\ tries[j] \in Nat /\ OwnBranch(j) \in Names
    BY NamesApart DEF FlowTypeOK
<1>2. kind \in {"prepare", "manifest", "ci", "addon"}
    BY <1>1, FlowAssumption DEF KindOf
<1> QED BY <1>1, <1>2 DEF CommitOf, Commit, Made

LEMMA PlainCommit ==
    ASSUME FlowTypeOK, NEW j \in team, NEW kind,
           \/ JobOf[j].cmd = "create" /\ kind = "prepare"
           \/ JobOf[j].cmd = "ci" /\ kind = "ci"
           \/ JobOf[j].cmd = "addon" /\ kind = "addon"
    PROVE  /\ CommitOf(kind, j, <<>>) \in Commit /\ Made(CommitOf(kind, j, <<>>))
           /\ CommitOf(kind, j, <<>>).name = OwnBranch(j)
           /\ CommitOf(kind, j, <<>>).kind = kind
<1>1. kind = KindOf(j) /\ kind # "manifest" /\ JobOf[j].cmd # "merge"
    BY DEF KindOf
<1>2. <<>> \in Seq(STRING)
    OBVIOUS
<1> HIDE DEF KindOf
<1> QED BY <1>1, <1>2, CommitMade

(* A snapshot of the operator's repository is sound when it is taken.        *)
LEMMA CloneStep ==
    ASSUME FlowInv, NEW j \in team, NEW repo \in Repos, NEW where \in Places,
           CloneToTmpDir(j, repo), pc' = [pc EXCEPT ![j] = where],
           \/ where = "script" /\ repo = "operator" /\ JobOf[j].cmd \in {"create", "prodsec"}
           \/ where = "copy" /\ repo = "bundles" /\ JobOf[j].cmd = "addon"
           \/ where = "branch" /\ repo = "operator" /\ JobOf[j].cmd = "ci"
           \/ where = "pull" /\ repo = "fork" /\ JobOf[j].cmd = "ci",
           work' \in [Jobs -> SUBSET Commit], work'[j] \in {work[j], {}},
           \A i \in Jobs \ {j} : work'[i] = work[i],
           UNCHANGED <<team, heads, pulls, tries, acts, quiet, merges, temp>>
    PROVE  FlowInv'
<1>1. FlowTypeOK /\ WellMade /\ BranchesNamed /\ OneRunPerBranch /\ j \in Jobs
    BY DEF FlowInv, FlowTypeOK
<1>2. /\ clone' \in [Jobs -> [Names -> SUBSET Commit]] /\ clone'[j] = heads[repo]
      /\ \A i \in Jobs \ {j} : clone'[i] = clone[i]
      /\ pc' \in [Jobs -> Places] /\ pc'[j] = where /\ \A i \in Jobs \ {j} : pc'[i] = pc[i]
    BY <1>1 DEF FlowTypeOK, CloneToTmpDir
<1>3. Moves(j)
    BY <1>1, <1>2 DEF Moves, WellMade, Ended
<1>4. CloneSound(j)'
    <2>1. CASE JobOf[j].cmd \in {"create", "prodsec"}
        <3>1. \A n \in Names \ {Main} : ByOne(heads["operator"][n], n, heads["operator"][Main])
            BY <1>1 DEF OneRunPerBranch, ByOne, HeadRepo
        <3>2. \A i \in Jobs : Home(i) = "operator" => HasOwn(heads["operator"], OwnBranch(i))
            BY <1>1 DEF BranchesNamed
        <3> QED BY <1>2, <2>1, <3>1, <3>2 DEF CloneSound, ByOne, HasOwn, Home, HeadRepo, Target
    <2>2. CASE JobOf[j].cmd = "ci"
        BY <1>1, <1>2, <2>2 DEF CloneSound, BranchesNamed, OnlyCI
    <2>3. CASE JobOf[j].cmd = "addon"
        BY <1>2, <2>3 DEF CloneSound
    <2> QED BY <2>1, <2>2, <2>3
<1>5. WorkSound(j)' /\ PullKnown(j)' /\ Keeps(j)
    BY <1>1, <1>2, KeepsAll DEF WorkSound, PullKnown
<1> QED BY <1>2, <1>3, <1>4, <1>5, LocalStep

(* A run makes its commit.                                                   *)
LEMMA WorkStep ==
    ASSUME FlowInv, NEW j \in team, NEW commits \in SUBSET Commit, NEW where \in Places,
           work' = [work EXCEPT ![j] = commits], pc' = [pc EXCEPT ![j] = where],
           \A c \in commits : Made(c),
           JobOf[j].cmd # "merge", where \notin {"idle", "done", "failed", "save", "restore"},
           JobOf[j].cmd = "ci" =>
               where \notin {"branch", "pull", "edit"} /\ (where = "push" => pc[j] = "edit"),
           WorkSound(j)',
           UNCHANGED <<team, heads, pulls, clone, tries, acts, quiet, merges, temp>>
    PROVE  FlowInv'
<1>1. FlowTypeOK /\ WellMade /\ RunsSound /\ j \in Jobs
    BY DEF FlowInv, FlowTypeOK
<1>2. /\ work' \in [Jobs -> SUBSET Commit] /\ work'[j] = commits
      /\ pc' \in [Jobs -> Places] /\ pc'[j] = where
      /\ \A i \in Jobs \ {j} : pc'[i] = pc[i] /\ work'[i] = work[i]
    BY <1>1 DEF FlowTypeOK
<1>3. Moves(j)
    BY <1>1, <1>2 DEF Moves, WellMade, Ended, FlowTypeOK
<1>4. CloneSound(j)'
    BY <1>1, <1>2 DEF RunsSound, CloneSound, ByOne, HasOwn, Home, HeadRepo, Target
<1>5. PullKnown(j)' /\ Keeps(j)
    BY <1>1, <1>2, KeepsAll DEF PullKnown
<1> QED BY <1>2, <1>3, <1>4, <1>5, LocalStep

----------------------------------------------------------------------------
(* The steps that leave the repositories alone, command by command.          *)
LEMMA InTeam == ASSUME FlowTypeOK, NEW j \in Jobs, NEW cmd, NEW where, At(j, cmd, where)
                PROVE  j \in team /\ JobOf[j].cmd = cmd /\ pc[j] = where
BY DEF At

LEMMA FindPullStep ==
    ASSUME FlowInv, NEW j \in team, NEW full \in BOOLEAN, NEW next \in Restful \ {"done"},
           JobOf[j].cmd # "merge", FindPull(j, Target(j), full, next),
           UNCHANGED <<team, heads, pulls, tries, acts, quiet, merges, temp>>
    PROVE  FlowInv'
<1>1. FlowTypeOK /\ j \in Jobs
    BY DEF FlowInv, FlowTypeOK
<1>2. PICK hits \in findPRForRelease(Target(j), OwnBranch(j), full) :
          Goto(j, IF hits = {} THEN next ELSE IF Cardinality(hits) = 1 THEN "done" ELSE "failed")
    BY DEF FindPull
<1>3. PICK where \in Restful :
          /\ Goto(j, where)
          /\ where = "done" => hits # {}
    BY <1>2 DEF Restful, Places
<1>4. pc'[j] = where
    BY <1>1, <1>3 DEF Goto, FlowTypeOK
<1>5. where = "done" =>
          \E i \in DOMAIN pulls : pulls[i].repo = Target(j) /\ pulls[i].name = OwnBranch(j)
    BY <1>3, <1>2 DEF findPRForRelease, OpenPulls
<1>6. PullKnown(j)'
    BY <1>4, <1>5 DEF PullKnown, Target
<1> QED BY <1>1, <1>3, <1>6, KeepsAll, GotoStep

LEMMA CreateQuiet ==
    ASSUME FlowInv, NEW j \in Jobs,
           \/ CloneForRelease(j) \/ runReleaseScript(j)
           \/ /\ At(j, "create", "find") /\ FindPull(j, "operator", TRUE, "open")
              /\ UNCHANGED <<team, heads, pulls, tries, acts, quiet, merges, temp>>
    PROVE  FlowInv'
<1>0. FlowTypeOK /\ RunsSound /\ WellMade
    BY DEF FlowInv
<1>1. CASE CloneForRelease(j)
    BY <1>0, <1>1, CloneStep DEF CloneForRelease, At, Places, FlowTypeOK, Repos
<1>2. CASE runReleaseScript(j)
    <2>1. /\ j \in team /\ JobOf[j].cmd = "create" /\ CloneSound(j) /\ Main \in Names
          /\ clone[j][Main] \subseteq Commit /\ \A c \in clone[j][Main] : Made(c)
        <3>1. At(j, "create", "script")
            BY <1>2 DEF runReleaseScript
        <3> QED BY <1>0, <3>1, NoCloneIsEmpty DEF At, RunsSound, FlowTypeOK, WellMade
    <2>2. PICK own, where :
              /\ \/ own = {} /\ where = "find"
                 \/ own = {CommitOf("prepare", j, <<>>)} /\ where = "push"
              /\ work' = [work EXCEPT ![j] = clone[j][Main] \union own]
              /\ pc' = [pc EXCEPT ![j] = where]
        <3>1. CASE /\ work' = [work EXCEPT ![j] = clone[j][Main] \union
                                  {CommitOf("prepare", j, <<>>)}]
                   /\ pc' = [pc EXCEPT ![j] = "push"]
            BY <3>1
        <3>2. CASE /\ work' = [work EXCEPT ![j] = clone[j][Main]]
                   /\ pc' = [pc EXCEPT ![j] = "find"]
            <4>1. clone[j][Main] \union {} = clone[j][Main]
                OBVIOUS
            <4>2. work' = [work EXCEPT ![j] = clone[j][Main] \union {}]
                BY <3>2, <4>1, Zenon
            <4> QED BY <3>2, <4>2
        <3> QED BY <1>2, <3>1, <3>2 DEF runReleaseScript
    <2>3. \A c \in own : c \in Commit /\ Made(c) /\ c.name = OwnBranch(j)
        BY <1>0, <2>1, <2>2, PlainCommit
    <2>4. WorkSound(j)'
        <3>1. /\ pc'[j] = where /\ work'[j] = clone[j][Main] \union own
              /\ heads' = heads /\ Target(j) = "operator"
            BY <1>0, <1>2, <2>1, <2>2, Homes DEF FlowTypeOK, runReleaseScript
        <3>2. ByOne(work'[j], OwnBranch(j), heads["operator"][Main])
            BY <2>1, <2>2, <3>1 DEF ByOne, CloneSound
        <3> QED BY <2>1, <2>2, <2>3, <3>1, <3>2 DEF WorkSound, Target, ByOne
    <2> DEFINE commits == clone[j][Main] \union own
    <2>5. commits \in SUBSET Commit /\ \A c \in commits : Made(c)
        BY <2>1, <2>3
    <2>6. where \in Places /\ where \notin {"idle", "done", "failed", "save", "restore"}
        BY <2>2 DEF Places
    <2>7. UNCHANGED <<team, heads, pulls, clone, tries, acts, quiet, merges, temp>>
        BY <1>2 DEF runReleaseScript
    <2>8. work' = [work EXCEPT ![j] = commits] /\ pc' = [pc EXCEPT ![j] = where]
        BY <2>2
    <2> HIDE DEF commits
    <2> QED
        BY <2>1, <2>4, <2>5, <2>6, <2>7, <2>8, WorkStep
<1>3. CASE /\ At(j, "create", "find") /\ FindPull(j, "operator", TRUE, "open")
           /\ UNCHANGED <<team, heads, pulls, tries, acts, quiet, merges, temp>>
    BY <1>3, FindPullStep, Homes DEF At, Restful, Places
<1> QED BY <1>1, <1>2, <1>3

LEMMA MergeQuiet ==
    ASSUME FlowInv, NEW j \in Jobs, DoMergeRelease(j) \/ GetPull(j)
    PROVE  FlowInv'
<1>0. FlowTypeOK /\ RunsSound
    BY DEF FlowInv
<1>1. CASE DoMergeRelease(j)
    <2>1. PICK hits \in findPRForRelease("operator", OwnBranch(j), FALSE) :
              /\ Cardinality(hits) = 1
              /\ merges' = [merges EXCEPT ![j] = CHOOSE i \in hits : TRUE]
        BY <1>1 DEF DoMergeRelease
    <2>2. hits = OpenPulls("operator", OwnBranch(j)) /\ hits # {}
        BY <2>1, FS_EmptySet DEF findPRForRelease
    <2>3. /\ merges'[j] \in DOMAIN pulls
          /\ pulls[merges'[j]].repo = "operator" /\ pulls[merges'[j]].name = OwnBranch(j)
        BY <1>0, <2>1, <2>2 DEF OpenPulls, FlowTypeOK
    <2>4. Keeps(j)
        BY <1>0, <1>1, <2>1, <2>3 DEF Keeps, FlowTypeOK, DoMergeRelease
    <2>5. PullKnown(j)'
        <3>1. pc'[j] = "get" /\ pulls' = pulls /\ JobOf[j].cmd = "merge"
            BY <1>0, <1>1 DEF DoMergeRelease, Goto, FlowTypeOK, At
        <3> QED BY <2>3, <3>1 DEF PullKnown
    <2> QED BY <1>1, <2>4, <2>5, GotoStep DEF DoMergeRelease, At, Restful, Places
<1>2. CASE GetPull(j)
    <2>1. PICK where \in {"done", "merge"} :
              Goto(j, where) /\ (where = "done" => pulls[merges[j]].state = "merged")
        BY <1>2 DEF GetPull
    <2>2. PullKnown(j)'
        BY <1>0, <1>2, <2>1 DEF RunsSound, PullKnown, GetPull, Goto, FlowTypeOK, At
    <2> QED BY <1>0, <1>2, <2>1, <2>2, KeepsAll, GotoStep DEF GetPull, At, Restful, Places
<1> QED BY <1>1, <1>2

LEMMA AddonQuiet ==
    ASSUME FlowInv, NEW j \in Jobs, newOSDAddonReleaseCmd(j) \/ CommitBundle(j)
    PROVE  FlowInv'
<1>0. FlowTypeOK /\ RunsSound /\ WellMade
    BY DEF FlowInv
<1>1. CASE newOSDAddonReleaseCmd(j)
    BY <1>0, <1>1, CloneStep DEF newOSDAddonReleaseCmd, At, Places, FlowTypeOK, Repos
<1>2. CASE CommitBundle(j)
    <2>1. /\ j \in team /\ JobOf[j].cmd = "addon" /\ CloneSound(j) /\ Main \in Names
          /\ clone[j][Main] \subseteq Commit /\ \A c \in clone[j][Main] : Made(c)
        BY <1>0, <1>2, NoCloneIsEmpty DEF CommitBundle, At, RunsSound, FlowTypeOK, WellMade
    <2> DEFINE own == CommitOf("addon", j, <<>>)
    <2>2. own \in Commit /\ Made(own) /\ own.name = OwnBranch(j)
        BY <1>0, <2>1, PlainCommit
    <2>3. /\ pc'[j] = "push" /\ work'[j] = clone[j][Main] \union {own}
          /\ heads' = heads /\ Target(j) = "bundles"
        BY <1>0, <1>2, <2>1, Homes DEF FlowTypeOK, CommitBundle
    <2>4. ByOne(work'[j], OwnBranch(j), heads["bundles"][Main])
        BY <2>1, <2>3 DEF ByOne, CloneSound
    <2>5. WorkSound(j)'
        BY <2>1, <2>2, <2>3, <2>4 DEF WorkSound, Target, ByOne
    <2> DEFINE commits == clone[j][Main] \union {own}
    <2>6. commits \in SUBSET Commit /\ \A c \in commits : Made(c)
        BY <2>1, <2>2
    <2>7. /\ work' = [work EXCEPT ![j] = commits] /\ pc' = [pc EXCEPT ![j] = "push"]
          /\ UNCHANGED <<team, heads, pulls, clone, tries, acts, quiet, merges, temp>>
        BY <1>2 DEF CommitBundle
    <2> HIDE DEF commits, own
    <2> QED BY <2>1, <2>5, <2>6, <2>7, WorkStep DEF Places
<1> QED BY <1>1, <1>2

----------------------------------------------------------------------------
(* What a copy does to a file.                                               *)
LEMMA ManifestKinds ==
    ASSUME FlowTypeOK, NEW j \in Jobs, JobOf[j].cmd = "prodsec"
    PROVE  /\ JobOf[j].manifest \in Seq(STRING) /\ OldManifest \in Seq(STRING)
           /\ Drawn(OldManifest) /\ (j \in team => Drawn(JobOf[j].manifest))
BY FlowAssumption DEF Drawn, Manifests, Generators

LEMMA LinesOf == \A S : \A file \in Seq(S) : Len(file) \in Nat /\ DOMAIN file = 1..Len(file)
BY LenProperties

LEMMA AppendIs ==
    ASSUME NEW S, NEW file \in Seq(S), NEW line \in S
    PROVE  /\ Append(file, line) \in Seq(S)
           /\ Len(Append(file, line)) = Len(file) + 1
           /\ DOMAIN Append(file, line) = 1..(Len(file) + 1) /\ DOMAIN file = 1..Len(file)
           /\ \A i \in DOMAIN file : Append(file, line)[i] = file[i]
           /\ Append(file, line)[Len(file) + 1] = line
<1>1. Append(file, line) \in Seq(S) /\ Len(Append(file, line)) = Len(file) + 1
    OBVIOUS
<1>2. DOMAIN Append(file, line) = 1..(Len(file) + 1) /\ DOMAIN file = 1..Len(file)
    BY <1>1, LinesOf
<1>3. /\ \A i \in 1..Len(file) : Append(file, line)[i] = file[i]
      /\ Append(file, line)[Len(file) + 1] = line
    BY AppendProperties
<1> QED BY <1>1, <1>2, <1>3

LEMMA PutIs ==
    ASSUME NEW file \in Seq(STRING), NEW line \in STRING, NEW k \in 1..(Len(file) + 1)
    PROVE  /\ Put(file, k, line) \in Seq(STRING)
           /\ Len(Put(file, k, line)) >= Len(file) /\ Len(Put(file, k, line)) >= k
           /\ DOMAIN Put(file, k, line) = DOMAIN file \union {k}
           /\ Put(file, k, line)[k] = line
<1>1. CASE k \in DOMAIN file
    <2>1. [file EXCEPT ![k] = line] \in Seq(STRING)
          /\ Len([file EXCEPT ![k] = line]) = Len(file)
        BY <1>1
    <2> QED BY <1>1, <2>1, LenProperties DEF Put
<1>2. CASE k \notin DOMAIN file
    <2>1. k = Len(file) + 1 /\ Len(file) \in Nat /\ DOMAIN file = 1..Len(file)
        BY <1>2, LenProperties
    <2>2. Put(file, k, line) = Append(file, line)
        BY <1>2 DEF Put
    <2>3. DOMAIN Append(file, line) = DOMAIN file \union {k} /\ Len(Append(file, line)) = Len(file) + 1
        BY <2>1, AppendProperties, LenProperties
    <2>4. Append(file, line) \in Seq(STRING)
        BY AppendIs
    <2>5. Append(file, line)[Len(file) + 1] = line
        BY AppendProperties
    <2>6. Append(file, line)[k] = line
        BY <2>1, <2>5
    <2>7. Len(Append(file, line)) >= Len(file) /\ Len(Append(file, line)) >= k
        BY <2>1, <2>3
    <2> QED BY <2>2, <2>3, <2>4, <2>6, <2>7, Zenon
<1> QED BY <1>1, <1>2

LEMMA CopyKeeps ==
    ASSUME NEW new \in Seq(STRING), NEW old \in Seq(STRING), Drawn(new), Drawn(old)
    PROVE  /\ copyManifestFile(new, old) \in Seq(STRING)
           /\ StartsWith(copyManifestFile(new, old), new)
           /\ Drawn(copyManifestFile(new, old))
<1> DEFINE rest == SubSeq(old, Len(new) + 1, Len(old))
           file == new \o rest
<1>1. /\ rest \in Seq(STRING) /\ Len(rest) = IF Len(old) > Len(new) THEN Len(old) - Len(new) ELSE 0
      /\ \A i \in 1..Len(rest) : rest[i] = old[Len(new) + i]
    OBVIOUS
<1> HIDE DEF rest
<1>2. /\ file \in Seq(STRING) /\ Len(file) = Len(new) + Len(rest)
      /\ \A i \in 1..Len(new) : file[i] = new[i]
      /\ \A i \in 1..Len(file) : i > Len(new) => file[i] = rest[i - Len(new)]
    BY <1>1
<1> HIDE DEF file
<1>3. StartsWith(file, new)
    BY <1>1, <1>2, LinesOf DEF StartsWith
<1>4. ASSUME NEW i \in DOMAIN file
      PROVE  \E m \in Manifests : i \in DOMAIN m /\ file[i] = m[i]
    <2>1. CASE i <= Len(new)
        <3>1. i \in DOMAIN new /\ file[i] = new[i]
            BY <1>2, <1>4, <2>1, LinesOf
        <3> QED BY <3>1 DEF Drawn
    <2>2. CASE i > Len(new)
        <3>1. /\ i \in 1..Len(file) /\ Len(file) = Len(new) + Len(rest)
              /\ Len(new) \in Nat /\ Len(rest) \in Nat /\ Len(old) \in Nat
            BY <1>1, <1>2, <1>4, LinesOf
        <3>2. i \in Nat /\ i - Len(new) \in 1..Len(rest)
            BY <2>2, <3>1
        <3>3. file[i] = rest[i - Len(new)]
            BY <1>2, <2>2, <3>1
        <3>4. Len(rest) = Len(old) - Len(new) /\ i \in 1..Len(old)
            BY <1>1, <3>1, <3>2
        <3>5. Len(new) + (i - Len(new)) = i
            BY <3>1, <3>2
        <3>6. file[i] = old[i]
            BY <1>1, <3>2, <3>3, <3>5
        <3>7. i \in DOMAIN old
            BY <3>4, LinesOf
        <3> QED BY <3>6, <3>7 DEF Drawn
    <2> QED BY <1>2, <1>4, <2>1, <2>2
<1>5. Drawn(file)
    BY <1>4 DEF Drawn
<1> QED BY <1>2, <1>3, <1>5 DEF copyManifestFile, file, rest

LEMMA StartsOn ==
    ASSUME NEW a \in Seq(STRING), NEW b \in Seq(STRING), NEW c \in Seq(STRING),
           StartsWith(a, b), StartsWith(b, c)
    PROVE  StartsWith(a, c)
BY DEF StartsWith

(* A line of the first copy, as far as the files go.                         *)
LEMMA LineCopied ==
    ASSUME NEW new \in Seq(STRING), NEW old \in Seq(STRING), NEW done \in Seq(STRING),
           NEW k \in DOMAIN new, k = Len(done) + 1, Len(done) <= Len(old),
           StartsWith(new, done), Drawn(new), Drawn(old), Drawn(done)
    PROVE  LET file == Put(old, k, new[k])
               more == Append(done, new[k])
           IN  /\ file \in Seq(STRING) /\ more \in Seq(STRING)
               /\ Len(old) <= Len(file) /\ Len(more) <= Len(file)
               /\ Drawn(file) /\ Drawn(more) /\ StartsWith(new, more)
               /\ StartsWith(old, done) => StartsWith(file, more)
<1> DEFINE line == new[k]
           file == Put(old, k, line)
           more == Append(done, line)
<1>1. line \in STRING /\ k \in 1..(Len(old) + 1) /\ k \in Nat
    BY LinesOf
<1> HIDE DEF line
<1>2. /\ file \in Seq(STRING) /\ Len(file) >= Len(old) /\ Len(file) >= k
    BY <1>1, PutIs
<1>3. DOMAIN file = DOMAIN old \union {k} /\ file[k] = line
    BY <1>1, PutIs
<1>4. ASSUME NEW i \in DOMAIN old \ {k} PROVE file[i] = old[i]
    <2>1. CASE k \in DOMAIN old
        BY <1>4, <2>1 DEF Put
    <2>2. CASE k \notin DOMAIN old
        <3>1. file = Append(old, line)
            BY <2>2 DEF Put
        <3> HIDE DEF file
        <3>2. i \in 1..Len(old)
            BY <1>4, LinesOf
        <3>3. Append(old, line)[i] = old[i]
            BY <1>1, <3>2, AppendProperties
        <3> QED BY <3>1, <3>3
    <2> QED BY <2>1, <2>2
<1>5. more \in Seq(STRING) /\ Len(more) = k
    BY <1>1, AppendIs
<1>6. DOMAIN more = 1..k /\ DOMAIN done = 1..(k - 1) /\ DOMAIN old = 1..Len(old)
    BY <1>1, <1>5, LinesOf
<1>7. (\A i \in DOMAIN done : more[i] = done[i]) /\ more[k] = line
    <2>1. ASSUME NEW i \in 1..Len(done) PROVE more[i] = done[i]
        BY <1>1, <2>1, AppendProperties
    <2>2. more[Len(done) + 1] = line
        BY <1>1, AppendProperties
    <2>3. DOMAIN done = 1..Len(done)
        BY LinesOf
    <2> HIDE DEF more
    <2> QED BY <2>1, <2>2, <2>3
<1> HIDE DEF file, more
<1>8. \E m \in Manifests : k \in DOMAIN m /\ line = m[k]
    BY DEF Drawn, line
<1>9. ASSUME NEW i \in DOMAIN file
      PROVE  (i \in DOMAIN old /\ file[i] = old[i]) \/ (i = k /\ file[i] = line)
    <2>1. CASE i = k
        BY <1>3, <2>1
    <2>2. CASE i # k
        BY <1>3, <1>4, <1>9, <2>2
    <2> QED BY <2>1, <2>2
<1>10. ASSUME NEW i \in DOMAIN more
       PROVE  (i \in DOMAIN done /\ more[i] = done[i]) \/ (i = k /\ more[i] = line)
    <2>1. CASE i = k
        BY <1>7, <2>1
    <2>2. CASE i # k
        <3>1. i \in 1..(k - 1)
            BY <1>1, <1>6, <1>10, <2>2
        <3> QED BY <1>6, <1>7, <3>1
    <2> QED BY <2>1, <2>2
<1>11. Drawn(file) /\ Drawn(more)
    BY <1>8, <1>9, <1>10, Zenon DEF Drawn
<1>12. StartsWith(new, more)
    <2>1. /\ Len(more) <= Len(new) /\ new[k] = line
          /\ \A i \in DOMAIN done : new[i] = done[i]
        BY <1>1, <1>5, LinesOf DEF StartsWith, line
    <2> QED BY <1>10, <2>1, Zenon DEF StartsWith
<1>13. ASSUME StartsWith(old, done) PROVE StartsWith(file, more)
    <2>1. \A i \in DOMAIN done : i # k /\ i \in DOMAIN old /\ old[i] = done[i]
        BY <1>1, <1>6, <1>13 DEF StartsWith
    <2>2. \A i \in DOMAIN done : file[i] = done[i]
        BY <1>4, <2>1
    <2>3. Len(more) <= Len(file)
        BY <1>2, <1>5
    <2> QED BY <1>3, <1>10, <2>2, <2>3, Zenon DEF StartsWith
<1> QED
    BY <1>1, <1>2, <1>5, <1>11, <1>12, <1>13, LinesOf DEF file, more, line

(* One line of the first copy: the other runs that copy are mixed from here. *)
LEMMA SaveLine ==
    ASSUME FlowInv, NEW j \in team, JobOf[j].cmd = "prodsec", pc[j] = "save",
           NEW k, k = Len(temp.copied[j]) + 1, k \in DOMAIN JobOf[j].manifest,
           temp' = [temp EXCEPT !.file = Put(@, k, JobOf[j].manifest[k]),
                                !.copied[j] = Append(@, JobOf[j].manifest[k]),
                                !.mixed = @ \union Copying(j)],
           UNCHANGED <<pc, team>>
    PROVE  TempKept' /\ TempType' /\ temp.mixed \subseteq temp'.mixed
<1> DEFINE new == JobOf[j].manifest
           old == temp.file
           done == temp.copied[j]
           file == Put(old, k, new[k])
           more == Append(done, new[k])
<1>1. /\ FlowTypeOK /\ TempKept /\ j \in Jobs /\ TempType
    BY DEF FlowInv, FlowTypeOK, TempType
<1>2. /\ new \in Seq(STRING) /\ Drawn(new)
      /\ old \in Seq(STRING) /\ Drawn(old) /\ done \in Seq(STRING)
      /\ CopySound(j)
    BY <1>1, ManifestKinds DEF TempKept, TempType
<1>3. /\ Drawn(done) /\ StartsWith(new, done) /\ Len(done) <= Len(old)
      /\ j \notin temp.mixed => StartsWith(old, done)
    BY <1>2 DEF CopySound
<1>4. /\ temp'.file = file /\ temp'.mixed = temp.mixed \union Copying(j)
      /\ temp'.copied = [temp.copied EXCEPT ![j] = more]
    BY <1>1 DEF TempType
<1>5. /\ file \in Seq(STRING) /\ more \in Seq(STRING)
      /\ Len(old) <= Len(file) /\ Len(more) <= Len(file)
      /\ Drawn(file) /\ Drawn(more) /\ StartsWith(new, more)
      /\ j \notin temp.mixed => StartsWith(file, more)
    <2>1. k = Len(done) + 1 /\ k \in DOMAIN new
        OBVIOUS
    <2> HIDE DEF new, old, done
    <2> QED BY <1>2, <1>3, <2>1, LineCopied
<1> HIDE DEF file, more
<1>6. TempType'
    <2>1. Copying(j) \subseteq Jobs /\ temp'.mixed \in SUBSET Jobs
        BY <1>1, <1>4 DEF Copying, FlowTypeOK, TempType
    <2>2. temp'.copied \in [Jobs -> Seq(STRING)]
        BY <1>1, <1>4, <1>5 DEF TempType
    <2>3. temp' = [file |-> temp'.file, copied |-> temp'.copied, mixed |-> temp'.mixed]
        BY <1>1 DEF TempType
    <2> QED BY <1>4, <1>5, <2>1, <2>2, <2>3 DEF TempType
<1>7. CopySound(j)'
    <2>1. temp'.copied[j] = more /\ temp.mixed \subseteq temp'.mixed /\ pc'[j] = "save"
        BY <1>1, <1>4 DEF TempType
    <2> QED BY <1>4, <1>5, <2>1, ManifestsStay DEF Drawn, CopySound, StartsWith
<1>8. ASSUME NEW i \in Jobs \ {j}, pc'[i] \in {"save", "restore"}
      PROVE  CopySound(i)'
    <2>1. i \in team /\ i \in Copying(j) /\ i \in temp'.mixed /\ temp'.copied[i] = temp.copied[i]
          /\ pc'[i] = pc[i]
        BY <1>1, <1>4, <1>8 DEF FlowTypeOK, Copying, TempType
    <2>2. CopySound(i)
        BY <1>1, <1>8, <2>1 DEF TempKept
    <2>3. Len(temp.copied[i]) <= Len(old) => Len(temp.copied[i]) <= Len(file)
        BY <1>1, <1>2, <1>5 DEF TempType
    <2> QED BY <1>4, <2>1, <2>2, <2>3, ManifestsStay DEF Drawn, CopySound, StartsWith
<1>9. TempKept'
    <2>1. Drawn(temp.file)'
        BY <1>4, <1>5, ManifestsStay DEF Drawn
    <2> QED BY <1>7, <1>8, <2>1 DEF TempKept
<1> QED BY <1>4, <1>6, <1>9

(* A run that turns to another copy, or is done with both.                   *)
LEMMA NextCopy ==
    ASSUME FlowInv, NEW j \in team, JobOf[j].cmd = "prodsec",
           temp' = [temp EXCEPT !.copied[j] = <<>>], UNCHANGED team,
           \A i \in Jobs \ {j} : pc'[i] = pc[i],
           pc'[j] = "restore" => pc[j] = "save" /\ Len(temp.copied[j]) + 1 \notin DOMAIN JobOf[j].manifest
    PROVE  TempKept' /\ TempType' /\ temp.mixed \subseteq temp'.mixed
<1>1. /\ FlowTypeOK /\ TempKept /\ j \in Jobs /\ TempType
    BY DEF FlowInv, FlowTypeOK, TempType
<1>2. <<>> \in Seq(STRING) /\ Len(<<>>) = 0 /\ DOMAIN <<>> = {}
    OBVIOUS
<1>3. /\ temp'.file = temp.file /\ temp'.mixed = temp.mixed /\ temp'.copied[j] = <<>>
      /\ \A i \in Jobs \ {j} : temp'.copied[i] = temp.copied[i]
    BY <1>1 DEF TempType
<1>4. TempType'
    BY <1>1, <1>2 DEF TempType
<1>5. ASSUME NEW i \in Jobs \ {j}, pc'[i] \in {"save", "restore"}
      PROVE  CopySound(i)'
    <2>1. CopySound(i) /\ pc'[i] = pc[i]
        BY <1>1, <1>5 DEF TempKept
    <2> QED BY <1>3, <2>1, ManifestsStay DEF Drawn, CopySound, StartsWith
<1>6. ASSUME pc'[j] = "restore", j \notin temp.mixed
      PROVE  StartsWith(temp.file, JobOf[j].manifest)
    <2>1. /\ StartsWith(JobOf[j].manifest, temp.copied[j]) /\ StartsWith(temp.file, temp.copied[j])
          /\ JobOf[j].manifest \in Seq(STRING) /\ temp.copied[j] \in Seq(STRING)
          /\ temp.file \in Seq(STRING)
        BY <1>1, <1>6, ManifestKinds DEF TempKept, CopySound, TempType
    <2>2. Len(temp.copied[j]) = Len(JobOf[j].manifest)
        BY <1>6, <2>1 DEF StartsWith
    <2> QED BY <2>1, <2>2 DEF StartsWith
<1>7. CopySound(j)'
    <2>1. Drawn(<<>>)' /\ StartsWith(JobOf[j].manifest, <<>>) /\ StartsWith(temp.file, <<>>)
          /\ Len(<<>>) <= Len(temp.file)
        BY <1>1, <1>2, ManifestKinds DEF Drawn, StartsWith, TempType
    <2> QED BY <1>3, <1>6, <2>1 DEF CopySound, StartsWith
<1>8. TempKept'
    BY <1>1, <1>3, <1>5, <1>7, ManifestsStay DEF Drawn, TempKept
<1> QED BY <1>3, <1>4, <1>8

LEMMA RestoreLine ==
    ASSUME FlowInv, NEW j \in team, JobOf[j].cmd = "prodsec", pc[j] = "restore",
           NEW k, k = Len(temp.copied[j]) + 1, k \in DOMAIN temp.file,
           temp' = [temp EXCEPT !.copied[j] = Append(@, temp.file[k])],
           UNCHANGED <<pc, team>>
    PROVE  TempKept' /\ TempType' /\ temp.mixed \subseteq temp'.mixed
<1> DEFINE done == temp.copied[j]
           more == Append(done, temp.file[k])
<1>1. /\ FlowTypeOK /\ TempKept /\ j \in Jobs /\ TempType
    BY DEF FlowInv, FlowTypeOK, TempType
<1>2. /\ CopySound(j) /\ Drawn(temp.file) /\ Drawn(done)
      /\ temp.file \in Seq(STRING) /\ done \in Seq(STRING) /\ temp.file[k] \in STRING
    BY <1>1 DEF TempKept, TempType, CopySound
<1>3. /\ more \in Seq(STRING) /\ Len(more) = k /\ DOMAIN more = 1..k /\ DOMAIN done = 1..(k - 1)
      /\ \A i \in DOMAIN done : more[i] = done[i]
      /\ more[k] = temp.file[k] /\ k \in Nat
    BY <1>2, AppendIs
<1>4. /\ temp'.file = temp.file /\ temp'.mixed = temp.mixed
      /\ temp'.copied = [temp.copied EXCEPT ![j] = more]
    BY <1>1 DEF TempType
<1> HIDE DEF done, more
<1>5. TempType'
    BY <1>1, <1>3, <1>4 DEF TempType
<1>6. Drawn(more)
    BY <1>2, <1>3 DEF Drawn
<1>7. j \notin temp.mixed => StartsWith(temp.file, more)
    <2>1. j \notin temp.mixed => StartsWith(temp.file, done)
        BY <1>2 DEF CopySound, done
    <2> QED BY <1>2, <1>3, <2>1 DEF StartsWith
<1>8. CopySound(j)'
    <2>1. pc'[j] = "restore" /\ temp'.copied[j] = more
        BY <1>1, <1>4 DEF TempType
    <2>2. j \notin temp.mixed => StartsWith(temp.file, JobOf[j].manifest)
        BY <1>2 DEF CopySound
    <2>3. Drawn(temp.copied[j])'
        BY <1>6, <2>1, ManifestsStay DEF Drawn
    <2> QED BY <1>4, <1>7, <2>1, <2>2, <2>3 DEF CopySound, StartsWith
<1>9. ASSUME NEW i \in Jobs \ {j}, pc'[i] \in {"save", "restore"}
      PROVE  CopySound(i)'
    <2>1. CopySound(i) /\ temp'.copied[i] = temp.copied[i]
        BY <1>1, <1>4, <1>9 DEF TempKept, TempType
    <2> QED BY <1>4, <2>1, ManifestsStay DEF Drawn, CopySound, StartsWith
<1>10. TempKept'
    BY <1>1, <1>4, <1>8, <1>9, ManifestsStay DEF Drawn, TempKept
<1> QED BY <1>4, <1>5, <1>10

(* A step within a copy moves nothing but the copy.                          *)
LEMMA StayStep ==
    ASSUME FlowInv, NEW j \in team, pc[j] # "idle",
           UNCHANGED <<team, heads, pulls, pc, clone, work, tries, acts, quiet, merges>>,
           TempKept', TempType', temp.mixed \subseteq temp'.mixed
    PROVE  FlowInv'
<1>1. FlowTypeOK /\ RunsSound /\ WellMade /\ j \in Jobs
    BY DEF FlowInv, FlowTypeOK
<1>2. Grows /\ Keeps(j)
    BY <1>1, KeepsAll DEF Grows
<1>3. CloneSound(j)' /\ WorkSound(j)' /\ PullKnown(j)'
    BY <1>1, <1>2, OthersSound
<1>4. Moves(j)
    BY <1>1 DEF Moves, FlowTypeOK, WellMade
<1> QED BY <1>1, <1>2, <1>3, <1>4, QuietStep

LEMMA ManifestQuiet ==
    ASSUME FlowInv, NEW j \in Jobs,
           \/ CloneForManifest(j) \/ runManifestScript(j) \/ SaveManifest(j) \/ RestoreManifest(j)
           \/ /\ At(j, "prodsec", "find") /\ FindPull(j, "operator", TRUE, "open")
              /\ UNCHANGED <<team, heads, pulls, tries, acts, quiet, merges, temp>>
    PROVE  FlowInv'
<1>0. FlowTypeOK /\ RunsSound /\ WellMade /\ TempKept
    BY DEF FlowInv
<1>1. CASE CloneForManifest(j)
    BY <1>0, <1>1, CloneStep DEF CloneForManifest, At, Places, FlowTypeOK, Repos
<1>2. CASE /\ At(j, "prodsec", "find") /\ FindPull(j, "operator", TRUE, "open")
           /\ UNCHANGED <<team, heads, pulls, tries, acts, quiet, merges, temp>>
    BY <1>2, FindPullStep, Homes DEF At, Restful, Places
<1>3. ASSUME At(j, "prodsec", pc[j]), Quietly(j),
             UNCHANGED <<team, heads, pulls, tries, acts, merges, temp>>
      PROVE  FlowInv'
    <2>1. Keeps(j)
        BY <1>0, <1>3 DEF Keeps, FlowTypeOK, Quietly, At
    <2>2. PullKnown(j)'
        BY <1>0, <1>3 DEF PullKnown, Quietly, At
    <2> QED BY <1>3, <2>1, <2>2, GotoStep DEF Quietly, At, Restful, Places
<1>4. CASE runManifestScript(j)
    <2>0. j \in Generators /\ j \in team /\ JobOf[j].cmd = "prodsec" /\ pc[j] = "script"
        BY <1>4 DEF runManifestScript, At, Generators
    <2>1. CASE Quietly(j) /\ UNCHANGED temp
        BY <1>3, <1>4, <2>0, <2>1 DEF runManifestScript, At
    <2>2. CASE /\ temp' = [temp EXCEPT !.copied[j] = <<>>]
               /\ Goto(j, "save") /\ UNCHANGED quiet
        <3>1. UNCHANGED <<team, heads, pulls, tries, acts, merges, quiet>>
            BY <1>4, <2>2 DEF runManifestScript
        <3>2. Moves(j) /\ pc'[j] = "save" /\ clone'[j] \in {clone[j], NoClone}
            BY <1>0, <2>0, <2>2, <3>1, GotoMoves DEF Places
        <3>3. CloneSound(j)' /\ WorkSound(j)' /\ PullKnown(j)' /\ Keeps(j)
            BY <1>0, <2>0, <3>1, <3>2, GotoSound, KeepsAll DEF PullKnown, Grows
        <3>4. TempKept' /\ TempType' /\ temp.mixed \subseteq temp'.mixed
            BY <2>0, <2>2, <3>1, <3>2, NextCopy DEF Moves
        <3> QED BY <3>1, <3>2, <3>3, <3>4, QuietStep
    <2> QED BY <1>4, <2>1, <2>2 DEF runManifestScript
<1>5. CASE SaveManifest(j)
    <2> DEFINE k == Len(temp.copied[j]) + 1
    <2>0. /\ j \in team /\ JobOf[j].cmd = "prodsec" /\ pc[j] = "save"
          /\ UNCHANGED <<team, heads, pulls, tries, acts, quiet, merges>>
        BY <1>5 DEF SaveManifest, At
    <2>1. CASE /\ k \in DOMAIN JobOf[j].manifest /\ UNCHANGED <<pc, clone, work>>
               /\ temp' = [temp EXCEPT !.file = Put(@, k, JobOf[j].manifest[k]),
                                       !.copied[j] = Append(@, JobOf[j].manifest[k]),
                                       !.mixed = @ \union Copying(j)]
        <3>1. TempKept' /\ TempType' /\ temp.mixed \subseteq temp'.mixed
            BY <2>0, <2>1, SaveLine
        <3> QED BY <2>0, <2>1, <3>1, StayStep
    <2>2. CASE /\ k \notin DOMAIN JobOf[j].manifest /\ Goto(j, "restore")
               /\ temp' = [temp EXCEPT !.copied[j] = <<>>]
        <3>1. Moves(j) /\ pc'[j] = "restore" /\ clone'[j] \in {clone[j], NoClone}
            BY <1>0, <2>0, <2>2, GotoMoves DEF Places
        <3>2. CloneSound(j)' /\ WorkSound(j)' /\ PullKnown(j)' /\ Keeps(j)
            BY <1>0, <2>0, <3>1, GotoSound, KeepsAll DEF PullKnown, Grows
        <3>3. TempKept' /\ TempType' /\ temp.mixed \subseteq temp'.mixed
            BY <2>0, <2>2, <3>1, NextCopy DEF Moves
        <3> QED BY <2>0, <3>1, <3>2, <3>3, QuietStep
    <2> HIDE DEF k
    <2>3. \/ /\ k \in DOMAIN JobOf[j].manifest /\ UNCHANGED <<pc, clone, work>>
             /\ temp' = [temp EXCEPT !.file = Put(@, k, JobOf[j].manifest[k]),
                                     !.copied[j] = Append(@, JobOf[j].manifest[k]),
                                     !.mixed = @ \union Copying(j)]
          \/ /\ k \notin DOMAIN JobOf[j].manifest /\ Goto(j, "restore")
             /\ temp' = [temp EXCEPT !.copied[j] = <<>>]
        BY <1>5 DEF SaveManifest, k
    <2> QED BY <2>1, <2>2, <2>3
<1>6. CASE RestoreManifest(j)
    <2> DEFINE k == Len(temp.copied[j]) + 1
    <2>0. /\ j \in team /\ JobOf[j].cmd = "prodsec" /\ pc[j] = "restore"
          /\ At(j, "prodsec", pc[j])
          /\ UNCHANGED <<team, heads, pulls, tries, acts, merges>>
        BY <1>6 DEF RestoreManifest, At
    <2>1. CASE /\ k \in DOMAIN temp.file /\ UNCHANGED <<pc, clone, work, quiet>>
               /\ temp' = [temp EXCEPT !.copied[j] = Append(@, temp.file[k])]
        <3>1. TempKept' /\ TempType' /\ temp.mixed \subseteq temp'.mixed
            BY <2>0, <2>1, RestoreLine
        <3> QED BY <2>0, <2>1, <3>1, StayStep
    <2>2. CASE /\ k \notin DOMAIN temp.file /\ Quietly(j)
               /\ temp' = [temp EXCEPT !.copied[j] = <<>>]
        <3>1. Moves(j) /\ pc'[j] = "done" /\ clone'[j] \in {clone[j], NoClone}
            BY <1>0, <2>0, <2>2, GotoMoves DEF Places, Quietly
        <3>2. CloneSound(j)' /\ WorkSound(j)'
            BY <1>0, <2>0, <3>1, GotoSound DEF Grows
        <3>3. PullKnown(j)' /\ Keeps(j)
            BY <1>0, <2>0, <2>2 DEF PullKnown, Quietly, Keeps, FlowTypeOK
        <3>4. TempKept' /\ TempType' /\ temp.mixed \subseteq temp'.mixed
            BY <2>0, <2>2, <3>1, NextCopy DEF Moves
        <3> QED BY <2>0, <3>1, <3>2, <3>3, <3>4, QuietStep
    <2>3. ASSUME NEW old \in Existing(j), k \notin DOMAIN temp.file,
                 work' = [work EXCEPT ![j] = clone[j][Main] \union
                             {CommitOf("manifest", j, copyManifestFile(temp.copied[j], old))}],
                 pc' = [pc EXCEPT ![j] = "push"],
                 temp' = [temp EXCEPT !.copied[j] = <<>>],
                 UNCHANGED <<clone, quiet>>
          PROVE  FlowInv'
        <3> DEFINE got == temp.copied[j]
                   file == copyManifestFile(got, old)
                   own == CommitOf("manifest", j, file)
                   commits == clone[j][Main] \union {own}
        <3>1. /\ CloneSound(j) /\ Main \in Names /\ Target(j) = "operator"
              /\ clone[j][Main] \subseteq Commit /\ \A c \in clone[j][Main] : Made(c)
            BY <1>0, <2>0, NoCloneIsEmpty, Homes, TeamIsJobs DEF RunsSound, FlowTypeOK, WellMade
        <3>2. /\ j \in Jobs /\ CopySound(j) /\ Drawn(got) /\ got \in Seq(STRING)
              /\ temp.file \in Seq(STRING) /\ JobOf[j].manifest \in Seq(STRING)
            BY <1>0, <2>0, ManifestKinds DEF TempKept, FlowTypeOK, CopySound
        <3>3. j \notin temp.mixed => StartsWith(got, JobOf[j].manifest)
            <4>1. SUFFICES ASSUME j \notin temp.mixed PROVE StartsWith(got, JobOf[j].manifest)
                OBVIOUS
            <4>2. StartsWith(temp.file, got) /\ StartsWith(temp.file, JobOf[j].manifest)
                BY <2>0, <3>2, <4>1 DEF CopySound
            <4>3. Len(got) = Len(temp.file)
                BY <2>3, <3>2, <4>2 DEF StartsWith
            <4> QED BY <3>2, <4>2, <4>3 DEF StartsWith
        <3>4. old \in Seq(STRING) /\ Drawn(old)
            <4>1. CASE old = OldManifest
                BY <1>0, <2>0, <3>2, <4>1, ManifestKinds
            <4>2. CASE \E c \in clone[j][Main] : c.kind = "manifest" /\ old = c.file
                BY <3>1, <4>2 DEF Made, Commit
            <4> QED BY <2>3, <4>1, <4>2 DEF Existing
        <3> HIDE DEF got
        <3>5. file \in Seq(STRING) /\ Drawn(file) /\ StartsWith(file, got)
            BY <3>2, <3>4, CopyKeeps
        <3>6. "manifest" = KindOf(j) /\ JobOf[j].cmd # "merge"
            BY <2>0 DEF KindOf
        <3> HIDE DEF file
        <3>7. j \in temp.mixed \/ StartsWith(file, JobOf[j].manifest)
            BY <3>2, <3>3, <3>5, StartsOn
        <3>8. own \in Commit /\ Made(own) /\ own.name = OwnBranch(j)
            BY <1>0, <2>0, <3>5, <3>6, <3>7, CommitMade
        <3> HIDE DEF own
        <3>9. commits \in SUBSET Commit /\ \A c \in commits : Made(c)
            BY <3>1, <3>8
        <3>10. work' = [work EXCEPT ![j] = commits] /\ pc'[j] = "push" /\ work'[j] = commits
            BY <1>0, <2>0, <2>3, <3>2 DEF FlowTypeOK, own, file, got
        <3>11. ByOne(work'[j], OwnBranch(j), heads["operator"][Main])
            BY <2>0, <3>1, <3>10 DEF ByOne, CloneSound
        <3>12. WorkSound(j)'
            BY <2>0, <3>1, <3>8, <3>10, <3>11 DEF WorkSound, Target, ByOne
        <3> HIDE DEF commits
        <3>13. Moves(j) /\ Keeps(j)
            BY <1>0, <2>0, <2>3, <3>2, <3>9, <3>10, KeepsAll DEF Moves, WellMade, Ended, FlowTypeOK, Places
        <3>14. CloneSound(j)' /\ PullKnown(j)'
            BY <2>0, <2>3, <3>1, <3>10 DEF CloneSound, PullKnown
        <3>15. TempKept' /\ TempType' /\ temp.mixed \subseteq temp'.mixed
            BY <2>0, <2>3, <3>10, <3>13, NextCopy DEF Moves
        <3> QED BY <2>0, <3>2, <3>12, <3>13, <3>14, <3>15, QuietStep
    <2>4. ASSUME k \notin DOMAIN temp.file
          PROVE  \E old \in Existing(j) :
                  /\ temp' = [temp EXCEPT !.copied[j] = <<>>]
                  /\ \/ Quietly(j)
                     \/ /\ work' = [work EXCEPT ![j] = clone[j][Main] \union
                               {CommitOf("manifest", j, copyManifestFile(temp.copied[j], old))}]
                        /\ pc' = [pc EXCEPT ![j] = "push"]
                        /\ UNCHANGED <<clone, quiet>>
        BY <1>6, <2>4 DEF RestoreManifest
    <2>5. k \in DOMAIN temp.file =>
              /\ UNCHANGED <<pc, clone, work, quiet>>
              /\ temp' = [temp EXCEPT !.copied[j] = Append(@, temp.file[k])]
        BY <1>6 DEF RestoreManifest
    <2> HIDE DEF k
    <2> QED BY <2>1, <2>2, <2>3, <2>4, <2>5
<1> QED BY <1>1, <1>2, <1>4, <1>5, <1>6

----------------------------------------------------------------------------
(* The release branch and the configuration of the CI.                       *)
LEMMA QuietlyStep ==
    ASSUME FlowInv, NEW j \in team, JobOf[j].cmd = "ci", CIQuietly(j),
           UNCHANGED <<team, heads, pulls, tries, acts, merges, temp>>
    PROVE  FlowInv'
<1>1. FlowTypeOK /\ j \in Jobs
    BY DEF FlowInv, FlowTypeOK
<1>2. Keeps(j)
    BY <1>1 DEF Keeps, FlowTypeOK, CIQuietly
<1>3. PullKnown(j)'
    BY DEF PullKnown, CIQuietly
<1> QED BY <1>2, <1>3, GotoStep DEF CIQuietly, Restful, Places

LEMMA CIQuiet ==
    ASSUME FlowInv, NEW j \in Jobs,
           \/ DoIntlyOperatorUpdate(j) \/ EnsureReleaseBranch(j)
           \/ DoOpenShiftReleaseUpdate(j) \/ CreateAndPull(j) \/ EditConfiguration(j)
           \/ /\ At(j, "ci", "find") /\ FindPull(j, "upstream", FALSE, "open")
              /\ UNCHANGED <<team, heads, pulls, tries, acts, quiet, merges, temp>>
    PROVE  FlowInv'
<1>0. /\ FlowTypeOK /\ RunsSound /\ WellMade /\ BranchesNamed
      /\ j \in team /\ JobOf[j].cmd = "ci" /\ Main \in Names /\ OwnBranch(j) \in Names
    <2>1. FlowTypeOK /\ RunsSound /\ WellMade /\ BranchesNamed /\ Main \in Names
        BY NoCloneIsEmpty DEF FlowInv
    <2>2. j \in team /\ JobOf[j].cmd = "ci"
        BY DEF DoIntlyOperatorUpdate, EnsureReleaseBranch, DoOpenShiftReleaseUpdate,
               CreateAndPull, EditConfiguration, At
    <2> QED BY <2>1, <2>2, NamesApart
<1>1. /\ CloneSound(j)
      /\ \A n \in Names : clone[j][n] \in SUBSET Commit /\ \A c \in clone[j][n] : Made(c)
    BY <1>0 DEF RunsSound, FlowTypeOK, WellMade
<1>2. CASE DoIntlyOperatorUpdate(j)
    <2>1. CASE CIQuietly(j)
        BY <1>0, <1>2, <2>1, QuietlyStep DEF DoIntlyOperatorUpdate
    <2>2. CASE /\ CloneToTmpDir(j, "operator") /\ CIGoto(j, "branch") /\ UNCHANGED <<work, quiet>>
        <3>1. "operator" \in Repos /\ "branch" \in Places
            BY DEF Repos, Places
        <3>2. work' \in [Jobs -> SUBSET Commit] /\ work' = work
            BY <1>0, <2>2 DEF FlowTypeOK
        <3>3. UNCHANGED <<team, heads, pulls, tries, acts, quiet, merges, temp>>
            BY <1>2, <2>2 DEF DoIntlyOperatorUpdate
        <3> QED BY <1>0, <2>2, <3>1, <3>2, <3>3, CloneStep DEF CIGoto
    <2> QED BY <1>2, <2>1, <2>2 DEF DoIntlyOperatorUpdate
<1>3. CASE EnsureReleaseBranch(j)
    <2>1. /\ pc[j] = "branch" /\ clone[j][Main] \subseteq heads["operator"][Main]
          /\ UNCHANGED <<team, heads, pulls, clone, tries, acts, quiet, merges, temp>>
        BY <1>0, <1>1, <1>3 DEF EnsureReleaseBranch, At, CloneSound
    <2>2. CASE CIGoto(j, "fork") /\ UNCHANGED work
        <3>1. work[j] \in SUBSET Commit /\ (\A c \in work[j] : Made(c))
              /\ work' = [work EXCEPT ![j] = work[j]]
            BY <1>0, <2>2 DEF FlowTypeOK, WellMade
        <3>2. WorkSound(j)'
            BY <1>0, <2>2 DEF WorkSound, CIGoto, FlowTypeOK
        <3> QED BY <1>0, <2>1, <2>2, <3>1, <3>2, WorkStep DEF CIGoto, Places
    <2>3. CASE Creates(j, OwnBranch(j), Main) /\ CIGoto(j, "pushBranch")
        <3>1. WorkSound(j)'
            BY <1>0, <2>1, <2>3 DEF WorkSound, CIGoto, FlowTypeOK, Creates
        <3> QED BY <1>0, <1>1, <2>1, <2>3, <3>1, WorkStep DEF CIGoto, Creates, Places
    <2> QED BY <1>3, <2>2, <2>3 DEF EnsureReleaseBranch
<1>4. CASE DoOpenShiftReleaseUpdate(j)
    <2>1. "fork" \in Repos /\ "pull" \in Places
        BY DEF Repos, Places
    <2>2. work' \in [Jobs -> SUBSET Commit] /\ work'[j] = {}
          /\ \A i \in Jobs \ {j} : work'[i] = work[i]
        BY <1>0, <1>4 DEF FlowTypeOK, DoOpenShiftReleaseUpdate
    <2> QED BY <1>0, <1>4, <2>1, <2>2, CloneStep DEF DoOpenShiftReleaseUpdate, CIGoto
<1>5. CASE CreateAndPull(j)
    <2>1. /\ pc[j] = "pull" /\ clone' = [clone EXCEPT ![j][Main] = heads["upstream"][Main]]
          /\ pc' = [pc EXCEPT ![j] = "edit"] /\ j \in Jobs
          /\ UNCHANGED <<team, heads, pulls, work, tries, acts, quiet, merges, temp>>
        BY <1>5 DEF CreateAndPull, At, CIGoto
    <2>2. /\ heads["upstream"][Main] \in SUBSET Commit
          /\ \A c \in heads["upstream"][Main] : Made(c) /\ c.kind \in {"root", "people", "ci"}
        BY <1>0 DEF FlowTypeOK, WellMade, BranchesNamed, OnlyCI, Repos
    <2>3. clone' \in [Jobs -> [Names -> SUBSET Commit]] /\ pc' \in [Jobs -> Places]
        BY <1>0, <2>1, <2>2 DEF FlowTypeOK, Places
    <2>4. /\ \A n \in Names : clone'[j][n] \in {clone[j][n], heads["upstream"][Main]}
          /\ \A i \in Jobs \ {j} : clone'[i] = clone[i] /\ pc'[i] = pc[i]
          /\ pc'[j] = "edit"
        BY <1>0, <2>1 DEF FlowTypeOK
    <2>5. Moves(j)
        <3>1. \A n \in Names : \A c \in clone'[j][n] : Made(c)
            BY <1>1, <2>2, <2>4
        <3> QED BY <1>0, <2>1, <2>3, <2>4, <3>1 DEF Moves, FlowTypeOK, WellMade, Ended
    <2>6. CloneSound(j)'
        <3>1. \A n \in Names : OnlyCI(clone'[j][n])
            BY <1>0, <1>1, <2>1, <2>2, <2>4 DEF CloneSound, OnlyCI
        <3> QED BY <1>0, <2>4, <3>1 DEF CloneSound, OnlyCI
    <2>7. WorkSound(j)' /\ PullKnown(j)' /\ Keeps(j)
        BY <1>0, <2>1, <2>4, KeepsAll DEF WorkSound, PullKnown
    <2> QED BY <1>0, <2>1, <2>4, <2>5, <2>6, <2>7, LocalStep
<1>6. CASE EditConfiguration(j)
    <2> DEFINE base == IF clone[j][OwnBranch(j)] # {} THEN clone[j][OwnBranch(j)]
                       ELSE clone[j][Main]
               own == CommitOf("ci", j, <<>>)
               commits == base \union {own}
    <2>1. pc[j] = "edit" /\ UNCHANGED <<team, heads, pulls, tries, acts, merges, temp>>
        BY <1>6 DEF EditConfiguration, At
    <2>2. CASE CIQuietly(j)
        BY <1>0, <2>1, <2>2, QuietlyStep
    <2>3. CASE /\ work' = [work EXCEPT ![j] = commits]
               /\ CIGoto(j, "push") /\ UNCHANGED <<clone, quiet>>
        <3>1. base \in SUBSET Commit /\ (\A c \in base : Made(c)) /\ OnlyCI(base)
            BY <1>0, <1>1, <2>1 DEF CloneSound
        <3>2. own \in Commit /\ Made(own) /\ own.name = OwnBranch(j) /\ own.kind = "ci"
            BY <1>0, PlainCommit
        <3> HIDE DEF base, own
        <3>3. commits \in SUBSET Commit /\ (\A c \in commits : Made(c)) /\ OnlyCI(commits)
            BY <3>1, <3>2 DEF OnlyCI
        <3>4. work'[j] = commits /\ pc'[j] = "push" /\ pc' = [pc EXCEPT ![j] = "push"]
            BY <1>0, <2>3 DEF FlowTypeOK, CIGoto
        <3>5. WorkSound(j)'
            BY <1>0, <3>2, <3>3, <3>4 DEF WorkSound, OnlyCI
        <3> HIDE DEF commits
        <3> QED BY <1>0, <2>1, <2>3, <3>3, <3>4, <3>5, WorkStep DEF Places
    <2> QED BY <1>6, <2>2, <2>3 DEF EditConfiguration
<1>7. CASE /\ At(j, "ci", "find") /\ FindPull(j, "upstream", FALSE, "open")
           /\ UNCHANGED <<team, heads, pulls, tries, acts, quiet, merges, temp>>
    BY <1>0, <1>7, FindPullStep, Homes DEF Restful, Places
<1> QED BY <1>2, <1>3, <1>4, <1>5, <1>6, <1>7

LEMMA FailOrRetry ==
    ASSUME FlowInv, NEW j \in Jobs, CallFails(j) \/ Again(j)
    PROVE  FlowInv'
<1>0. FlowTypeOK /\ RunsSound
    BY DEF FlowInv
<1>1. CASE CallFails(j)
    <2>1. j \in team /\ Goto(j, "failed") /\ Keeps(j)
          /\ UNCHANGED <<team, heads, pulls, tries, acts, quiet, merges, temp>>
        BY <1>0, <1>1, KeepsAll DEF CallFails
    <2>2. PullKnown(j)'
        BY <1>0, <2>1 DEF PullKnown, Goto, FlowTypeOK
    <2> QED BY <2>1, <2>2, GotoStep DEF Restful, Places
<1>2. CASE Again(j)
    <2>1. j \in team /\ Goto(j, "clone") /\ UNCHANGED <<team, heads, pulls, acts, temp>>
          /\ tries' = [tries EXCEPT ![j] = @ + 1]
          /\ quiet' = quiet \ {j} /\ merges' = [merges EXCEPT ![j] = 0]
        BY <1>2 DEF Again
    <2>2. Keeps(j)
        BY <1>0, <2>1 DEF Keeps, FlowTypeOK
    <2>3. PullKnown(j)'
        BY <1>0, <2>1 DEF PullKnown, Goto, FlowTypeOK
    <2> QED BY <2>1, <2>2, <2>3, GotoStep DEF Restful, Places
<1> QED BY <1>1, <1>2

----------------------------------------------------------------------------
(* The pushes.  They take no commit from a branch.                           *)
Adds(j) ==
    \A r \in Repos, n \in Names :
        /\ heads[r][n] \subseteq heads'[r][n]
        /\ heads[r][n] = {} /\ heads'[r][n] # {} => n = OwnBranch(j) \/ heads'[r][n] = clone[j][n]

LEMMA PushStep ==
    ASSUME FlowInv, NEW j \in team, NEW where \in Restful \ {"done"}, Goto(j, where),
           JobOf[j].cmd # "merge", Adds(j),
           heads' \in [Repos -> [Names -> SUBSET Commit]],
           \A r \in Repos, n \in Names : \A c \in heads'[r][n] : Made(c),
           BranchesNamed', OneRunPerBranch',
           UNCHANGED <<team, pulls, tries, acts, quiet, merges, temp>>
    PROVE  FlowInv'
<1>1. FlowTypeOK /\ WellMade /\ RunsSound /\ TempKept /\ PullsSound /\ j \in Jobs /\ Main \in Names
    BY NoCloneIsEmpty DEF FlowInv, FlowTypeOK
<1>2. Grows
    BY <1>1 DEF Grows, Adds
<1>3. Moves(j) /\ pc'[j] = where /\ clone'[j] \in {clone[j], NoClone} /\ Keeps(j)
    BY <1>1, GotoMoves, KeepsAll DEF Restful
<1>4. CloneSound(j)' /\ WorkSound(j)'
    BY <1>1, <1>2, <1>3, GotoSound DEF Restful
<1>5. PullKnown(j)'
    BY <1>3 DEF PullKnown
<1>6. RunsSound'
    BY <1>1, <1>2, <1>3, <1>4, <1>5, OthersSound DEF RunsSound, Moves, Keeps
<1>7. TempKept'
    BY <1>1, <1>3, TempStays DEF Moves, Restful
<1>8. FlowTypeOK'
    <2>1. /\ pulls' \in Seq(Pull) /\ DOMAIN pulls \subseteq DOMAIN pulls'
          /\ TempType'
          /\ \A r \in Repos : heads'[r][Main] # {}
        BY <1>1, <1>2 DEF FlowTypeOK, TempType, Grows
    <2> QED BY <1>1, <1>3, <2>1, TypeStep
<1>9. WellMade'
    BY <1>1, <1>3, MadeStays DEF WellMade, Moves
<1>10. PullsSound'
    <2>1. \A i \in DOMAIN pulls :
              /\ HeadRepo(pulls[i].repo) \in Repos /\ pulls[i].repo \in Repos
              /\ pulls[i].name \in Names
        <3>1. \A i \in DOMAIN pulls : pulls[i] \in Pull
            BY <1>1 DEF FlowTypeOK
        <3> QED BY <3>1 DEF Pull, HeadRepo, Repos
    <2>2. \A i \in DOMAIN pulls : Content(i) \subseteq Content(i)'
        BY <2>1 DEF Content, Adds, HeadRepo
    <2> QED BY <1>1, <1>2, <2>1, <2>2 DEF PullsSound, Grows, Target, HeadRepo
<1> QED BY <1>6, <1>7, <1>8, <1>9, <1>10 DEF FlowInv

(* A push of every local branch to the repository of the operator.           *)
LEMMA PushAllStep ==
    ASSUME FlowInv, NEW j \in team, JobOf[j].cmd \in {"create", "prodsec"}, pc[j] = "push",
           PushAll(j, "operator"), NEW where \in {"find", "failed"}, Goto(j, where),
           UNCHANGED <<team, pulls, tries, acts, quiet, merges, temp>>
    PROVE  FlowInv' /\ Adds(j)
<1> DEFINE local == LocalBranches(j)
           own == OwnBranch(j)
           old == heads["operator"]
<1>1. /\ FlowTypeOK /\ WellMade /\ BranchesNamed /\ OneRunPerBranch /\ CloneSound(j) /\ WorkSound(j)
      /\ j \in Jobs /\ own \in Names \ {Main} /\ Main \in Names /\ Target(j) = "operator"
    BY NamesApart, Homes, NoCloneIsEmpty DEF FlowInv, FlowTypeOK, RunsSound
<1>2. /\ clone[j] \in [Names -> SUBSET Commit] /\ work[j] \in SUBSET Commit
      /\ "operator" \in Repos /\ heads \in [Repos -> [Names -> SUBSET Commit]]
      /\ old \in [Names -> SUBSET Commit]
      /\ \A n \in Names : \A c \in clone[j][n] : Made(c)
      /\ \A c \in work[j] : Made(c)
      /\ \A r \in Repos, n \in Names : \A c \in heads[r][n] : Made(c)
    BY <1>1 DEF FlowTypeOK, WellMade, Repos
<1>3. \A n \in Names : local[n] = IF n = own THEN work[j] ELSE clone[j][n]
    BY <1>1, <1>2 DEF LocalBranches
<1>4. \A n \in Names : local[n] # {} => old[n] \subseteq local[n]
    BY DEF PushAll, FastForward
<1>5. /\ heads' = [heads EXCEPT !["operator"] =
                      [n \in Names |-> IF local[n] # {} THEN local[n] ELSE old[n]]]
    BY DEF PushAll
<1> HIDE DEF local
<1>6. /\ \A n \in Names : heads'["operator"][n] = IF local[n] # {} THEN local[n] ELSE old[n]
      /\ \A r \in Repos \ {"operator"} : heads'[r] = heads[r]
    BY <1>2, <1>5
<1>7. heads' \in [Repos -> [Names -> SUBSET Commit]]
    <2>1. \A n \in Names : local[n] \in SUBSET Commit /\ old[n] \in SUBSET Commit
        BY <1>2, <1>3
    <2>2. [n \in Names |-> IF local[n] # {} THEN local[n] ELSE old[n]] \in [Names -> SUBSET Commit]
        BY <2>1
    <2> QED BY <1>2, <1>5, <2>2
<1>8. \A r \in Repos, n \in Names : \A c \in heads'[r][n] : Made(c)
    <2>1. \A n \in Names : \A c \in heads'["operator"][n] : Made(c)
        <3>1. SUFFICES ASSUME NEW n \in Names, NEW c \in heads'["operator"][n] PROVE Made(c)
            OBVIOUS
        <3>2. c \in work[j] \/ c \in clone[j][n] \/ c \in old[n]
            BY <1>3, <1>6, <3>1
        <3> QED BY <1>2, <3>2
    <2> QED BY <1>2, <1>6, <2>1
<1>9. Adds(j)
    <2>1. \A n \in Names : old[n] \subseteq heads'["operator"][n]
        BY <1>4, <1>6
    <2>2. \A n \in Names : old[n] = {} /\ heads'["operator"][n] # {} =>
              n = own \/ heads'["operator"][n] = clone[j][n]
        BY <1>3, <1>6
    <2>3. \A r \in Repos \ {"operator"}, n \in Names : heads'[r][n] = heads[r][n]
        BY <1>6
    <2>4. SUFFICES ASSUME NEW r \in Repos, NEW n \in Names
                   PROVE  /\ heads[r][n] \subseteq heads'[r][n]
                          /\ heads[r][n] = {} /\ heads'[r][n] # {} =>
                                 n = own \/ heads'[r][n] = clone[j][n]
        BY DEF Adds
    <2>5. CASE r = "operator"
        BY <2>1, <2>2, <2>5
    <2>6. CASE r # "operator"
        BY <2>3, <2>6
    <2> QED BY <2>5, <2>6
<1>10. heads'["operator"][Main] = old[Main]
    BY <1>1, <1>3, <1>4, <1>6 DEF CloneSound
<1>11. BranchesNamed'
    <2>1. \A i \in Jobs : HasOwn(heads'[Home(i)], OwnBranch(i))
        <3>1. SUFFICES ASSUME NEW i \in Jobs PROVE HasOwn(heads'[Home(i)], OwnBranch(i))
            OBVIOUS
        <3>2. Home(i) \in Repos /\ OwnBranch(i) \in Names /\ HasOwn(heads[Home(i)], OwnBranch(i))
            BY <1>1, Homes, NamesApart DEF BranchesNamed
        <3>3. CASE Home(i) # "operator"
            BY <1>6, <3>2, <3>3
        <3>4. CASE Home(i) = "operator"
            <4>1. HasOwn(clone[j], OwnBranch(i))
                BY <1>1, <3>4 DEF CloneSound
            <4>2. \E c \in work[j] : c.name = own
                BY <1>1 DEF WorkSound
            <4> QED BY <1>3, <1>6, <3>2, <3>4, <4>1, <4>2 DEF HasOwn
        <3> QED BY <3>3, <3>4
    <2>2. \A r \in {"fork", "upstream"} : heads'[r] = heads[r]
        BY <1>6 DEF Repos
    <2> QED BY <1>1, <2>1, <2>2 DEF BranchesNamed, HasOwn, OnlyCI, Home, Target, HeadRepo
<1>12. OneRunPerBranch'
    <2>1. \A n \in Names \ {Main} : ByOne(heads'["operator"][n], n, old[Main])
        <3>1. \A n \in Names \ {Main} : ByOne(clone[j][n], n, old[Main])
            BY <1>1 DEF CloneSound
        <3>2. \A n \in Names \ {Main} : ByOne(old[n], n, old[Main])
            BY <1>1 DEF OneRunPerBranch, ByOne, HeadRepo
        <3>3. ByOne(work[j], own, old[Main])
            BY <1>1 DEF WorkSound
        <3> QED BY <1>3, <1>6, <3>1, <3>2, <3>3
    <2>2. \A r \in {"fork", "upstream", "bundles", "bundlesFork"} : heads'[r] = heads[r]
        BY <1>6 DEF Repos
    <2> QED BY <1>1, <1>10, <2>1, <2>2 DEF OneRunPerBranch, ByOne, HeadRepo
<1>13. where \in Restful \ {"done"} /\ JobOf[j].cmd # "merge"
    BY DEF Restful, Places
<1> HIDE DEF own, old
<1> QED BY <1>7, <1>8, <1>9, <1>11, <1>12, <1>13, PushStep

(* A push of one branch.                                                     *)
LEMMA PushOneStep ==
    ASSUME FlowInv, NEW j \in team, NEW repo \in Repos, JobOf[j].cmd # "merge",
           PushBranch(j, repo, OwnBranch(j), work[j]), NEW where \in Restful \ {"done"},
           Goto(j, where), UNCHANGED <<team, pulls, tries, acts, quiet, merges, temp>>,
           \/ repo = "operator" /\ JobOf[j].cmd = "ci" /\ pc[j] = "pushBranch"
           \/ repo = "fork" /\ JobOf[j].cmd = "ci" /\ pc[j] = "push"
           \/ repo = "bundlesFork" /\ JobOf[j].cmd = "addon" /\ pc[j] = "push"
    PROVE  FlowInv' /\ Adds(j)
<1> DEFINE own == OwnBranch(j)
<1>1. /\ FlowTypeOK /\ WellMade /\ BranchesNamed /\ OneRunPerBranch /\ WorkSound(j)
      /\ j \in Jobs /\ own \in Names \ {Main} /\ Main \in Names
    BY NamesApart, NoCloneIsEmpty DEF FlowInv, FlowTypeOK, RunsSound
<1>2. /\ work[j] \in SUBSET Commit /\ heads \in [Repos -> [Names -> SUBSET Commit]]
      /\ \A c \in work[j] : Made(c)
      /\ \A r \in Repos, n \in Names : \A c \in heads[r][n] : Made(c)
    BY <1>1 DEF FlowTypeOK, WellMade
<1>3. heads[repo][own] \subseteq work[j] /\ heads' = [heads EXCEPT ![repo][own] = work[j]]
    BY DEF PushBranch, FastForward
<1>4. /\ heads' \in [Repos -> [Names -> SUBSET Commit]] /\ heads'[repo][own] = work[j]
      /\ \A r \in Repos, n \in Names : r # repo \/ n # own => heads'[r][n] = heads[r][n]
    BY <1>1, <1>2, <1>3
<1>5. \A r \in Repos, n \in Names : \A c \in heads'[r][n] : Made(c)
    <2>1. SUFFICES ASSUME NEW r \in Repos, NEW n \in Names, NEW c \in heads'[r][n] PROVE Made(c)
        OBVIOUS
    <2>2. CASE r = repo /\ n = own
        BY <1>2, <1>4, <2>2
    <2> QED BY <1>2, <1>4, <2>2
<1>6. Adds(j)
    <2>1. SUFFICES ASSUME NEW r \in Repos, NEW n \in Names
                   PROVE  /\ heads[r][n] \subseteq heads'[r][n]
                          /\ heads[r][n] = {} /\ heads'[r][n] # {} =>
                                 n = own \/ heads'[r][n] = clone[j][n]
        BY DEF Adds
    <2>2. CASE r = repo /\ n = own
        BY <1>3, <1>4, <2>2
    <2> QED BY <1>4, <2>2
<1>7. BranchesNamed'
    <2>1. \A i \in Jobs : HasOwn(heads'[Home(i)], OwnBranch(i))
        <3>1. SUFFICES ASSUME NEW i \in Jobs PROVE HasOwn(heads'[Home(i)], OwnBranch(i))
            OBVIOUS
        <3>2. Home(i) \in Repos /\ OwnBranch(i) \in Names /\ HasOwn(heads[Home(i)], OwnBranch(i))
            BY <1>1, Homes, NamesApart DEF BranchesNamed
        <3>3. CASE Home(i) = repo /\ OwnBranch(i) = own
            <4>1. repo # "operator"
                BY <1>1, <3>3, Homes, NamesApart
            <4>2. \E c \in work[j] : c.name = own
                BY <1>1, <4>1 DEF WorkSound
            <4> QED BY <1>4, <3>3, <4>2 DEF HasOwn
        <3> QED BY <1>4, <3>2, <3>3 DEF HasOwn
    <2>2. \A r \in {"fork", "upstream"}, n \in Names : OnlyCI(heads'[r][n])
        <3>1. SUFFICES ASSUME NEW r \in {"fork", "upstream"}, NEW n \in Names
                       PROVE  OnlyCI(heads'[r][n])
            OBVIOUS
        <3>2. r \in Repos /\ OnlyCI(heads[r][n])
            BY <1>1 DEF BranchesNamed, Repos
        <3>3. CASE r = repo /\ n = own
            BY <1>1, <1>4, <3>3 DEF WorkSound
        <3> QED BY <1>4, <3>2, <3>3
    <2> QED BY <2>1, <2>2 DEF BranchesNamed, HasOwn, OnlyCI, Home, Target, HeadRepo
<1>8. OneRunPerBranch'
    <2>1. SUFFICES ASSUME NEW r \in {"operator", "upstream", "bundles"}, NEW n \in Names \ {Main}
                   PROVE  ByOne(heads'[HeadRepo(r)][n], n, heads'[r][Main])
        BY DEF OneRunPerBranch, ByOne, HeadRepo
    <2>2. /\ HeadRepo(r) \in Repos /\ heads'[r][Main] = heads[r][Main]
          /\ ByOne(heads[HeadRepo(r)][n], n, heads[r][Main])
        BY <1>1, <1>4 DEF OneRunPerBranch, ByOne, HeadRepo, Repos
    <2>3. CASE HeadRepo(r) = repo /\ n = own
        <3>1. CASE repo = "operator"
            <4>1. r = "operator" /\ work[j] \subseteq heads["operator"][Main]
                BY <1>1, <2>3, <3>1 DEF HeadRepo, WorkSound
            <4> QED BY <1>4, <2>2, <2>3, <4>1 DEF ByOne
        <3>2. CASE repo = "fork"
            <4>1. \A c \in work[j] : c.kind \in {"root", "people", "ci"} /\ Made(c)
                BY <1>1, <1>2, <3>2 DEF WorkSound, OnlyCI
            <4>2. \A c \in work[j] : c.kind # "ci" => c.name = Main
                BY <1>1, <4>1, Kinds, TeamIsJobs DEF Made
            <4> QED BY <1>4, <2>3, <4>2 DEF ByOne
        <3>3. CASE repo = "bundlesFork"
            <4>1. r = "bundles" /\ Target(j) = "bundles"
                BY <1>1, <2>3, <3>3, Homes DEF HeadRepo
            <4>2. ByOne(work[j], own, heads["bundles"][Main])
                BY <1>1, <3>3, <4>1 DEF WorkSound
            <4> QED BY <1>4, <2>2, <2>3, <4>1, <4>2
        <3> QED BY <3>1, <3>2, <3>3
    <2>4. CASE ~ (HeadRepo(r) = repo /\ n = own)
        BY <1>4, <2>2, <2>4
    <2> QED BY <2>3, <2>4
<1> HIDE DEF own
<1> QED BY <1>4, <1>5, <1>6, <1>7, <1>8, PushStep

----------------------------------------------------------------------------
(* A new pull request: the host has seen to it that it is the only open one, *)
(* and that its branch is there.                                             *)
LEMMA OpenPullStep ==
    ASSUME FlowInv, NEW j \in team, JobOf[j].cmd # "merge", OpenPull(j, Target(j)),
           UNCHANGED <<team, heads, tries, acts, quiet, merges, temp>>
    PROVE  FlowInv'
<1> DEFINE new == [repo |-> Target(j), name |-> OwnBranch(j), state |-> "open"]
<1>0. PICK last : last = Len(pulls) + 1
    OBVIOUS
<1>1. /\ FlowTypeOK /\ WellMade /\ RunsSound /\ TempKept /\ BranchesNamed /\ PullsSound
      /\ OneRunPerBranch /\ j \in Jobs
    BY DEF FlowInv, FlowTypeOK
<1>2. PICK where \in Ended : Goto(j, where)
    BY DEF OpenPull
<1>3. /\ pulls \in Seq(Pull) /\ new \in Pull /\ pulls' = Append(pulls, new)
    BY <1>1, Homes, NamesApart DEF OpenPull, CreatePull, FlowTypeOK, Pull
<1> HIDE DEF new
<1>4. /\ pulls' \in Seq(Pull) /\ DOMAIN pulls' = DOMAIN pulls \union {last}
      /\ last \notin DOMAIN pulls /\ pulls'[last] = new
      /\ \A i \in DOMAIN pulls : pulls'[i] = pulls[i]
    BY <1>0, <1>3
<1>5. new.repo = Target(j) /\ new.name = OwnBranch(j) /\ new.state = "open"
    BY DEF new
<1>6. Grows
    BY <1>4 DEF Grows
<1>7. Moves(j) /\ pc'[j] = where /\ clone'[j] \in {clone[j], NoClone} /\ Keeps(j)
    BY <1>1, <1>2, GotoMoves, KeepsAll DEF Ended, Places
<1>8. CloneSound(j)' /\ WorkSound(j)'
    BY <1>1, <1>2, <1>6, <1>7, GotoSound DEF Ended
<1>9. PullKnown(j)'
    BY <1>4, <1>5 DEF PullKnown, Target
<1>10. RunsSound'
    BY <1>1, <1>6, <1>7, <1>8, <1>9, OthersSound DEF RunsSound, Moves, Keeps
<1>11. TempKept'
    BY <1>1, <1>2, <1>7, TempStays DEF Moves, Ended
<1>12. FlowTypeOK'
    <2>1. /\ heads' \in [Repos -> [Names -> SUBSET Commit]] /\ \A r \in Repos : heads'[r][Main] # {}
          /\ TempType'
        BY <1>1 DEF FlowTypeOK, TempType
    <2> QED BY <1>1, <1>4, <1>7, <2>1, TypeStep
<1>13. WellMade'
    BY <1>1, <1>7, MadeStays DEF WellMade, Moves
<1>14. BranchesNamed' /\ OneRunPerBranch'
    BY <1>1 DEF BranchesNamed, OneRunPerBranch, HasOwn, OnlyCI, Home, Target, HeadRepo
<1>15. PullsSound'
    <2>1. heads[HeadRepo(Target(j))][OwnBranch(j)] # {} /\ OpenPulls(Target(j), OwnBranch(j)) = {}
        BY DEF OpenPull, CreatePull
    <2>2. \A i \in DOMAIN pulls' : \E k \in team' :
              pulls'[i].repo = Target(k)' /\ pulls'[i].name = OwnBranch(k)
        BY <1>1, <1>4, <1>5 DEF PullsSound, Target
    <2>3. \A i \in DOMAIN pulls' : pulls'[i].state = "open" => Content(i)' # {}
        <3>1. \A i \in DOMAIN pulls : Content(i)' = Content(i)
            BY <1>4 DEF Content, HeadRepo
        <3>2. Content(last)' = heads[HeadRepo(Target(j))][OwnBranch(j)]
            BY <1>4, <1>5 DEF Content, HeadRepo
        <3> QED BY <1>1, <1>4, <2>1, <3>1, <3>2 DEF PullsSound
    <2>4. \A i \in DOMAIN pulls :
              ~ (pulls[i].repo = Target(j) /\ pulls[i].name = OwnBranch(j) /\ pulls[i].state = "open")
        BY <2>1 DEF OpenPulls
    <2>5. \A i, k \in DOMAIN pulls' :
              /\ pulls'[i].state = "open" /\ pulls'[k].state = "open"
              /\ pulls'[i].repo = pulls'[k].repo /\ pulls'[i].name = pulls'[k].name
              => i = k
        BY <1>1, <1>4, <1>5, <2>4 DEF PullsSound
    <2>6. \A i \in DOMAIN pulls' :
              pulls'[i].state = "merged" =>
                  \E c \in heads'[pulls'[i].repo][Main] : c.name = pulls'[i].name
        BY <1>1, <1>4, <1>5 DEF PullsSound
    <2> QED BY <2>2, <2>3, <2>5, <2>6 DEF PullsSound
<1> QED BY <1>10, <1>11, <1>12, <1>13, <1>14, <1>15 DEF FlowInv

----------------------------------------------------------------------------
(* What merges, commits and deletions do to the repositories.  The main      *)
(* branches grow by commits of their own or of a branch that is merged; the  *)
(* other branches stay or go.                                                *)
Settles ==
    /\ heads' \in [Repos -> [Names -> SUBSET Commit]]
    /\ \A r \in Repos : heads[r][Main] \subseteq heads'[r][Main]
    /\ \A r \in Repos, n \in Names \ {Main} : heads'[r][n] \in {heads[r][n], {}}
    /\ \A r \in Repos, n \in Names : \A c \in heads'[r][n] : Made(c)
    /\ \A r \in {"fork", "upstream"} : OnlyCI(heads'[r][Main])

Resolves ==
    /\ pulls' \in Seq(Pull) /\ DOMAIN pulls' = DOMAIN pulls
    /\ \A i \in DOMAIN pulls :
           /\ pulls'[i].repo = pulls[i].repo /\ pulls'[i].name = pulls[i].name
           /\ pulls'[i].state \in {pulls[i].state, "merged", "closed"}
           /\ pulls[i].state = "merged" => pulls'[i].state = "merged"
           /\ pulls'[i].state = "open" => Content(i)' = Content(i)
           /\ pulls'[i].state = "merged" /\ pulls[i].state # "merged" =>
                  \E c \in heads'[pulls[i].repo][Main] : c.name = pulls[i].name

LEMMA HostStep ==
    ASSUME FlowInv, Settles, Resolves, UNCHANGED team
    PROVE  /\ Grows /\ BranchesNamed' /\ OneRunPerBranch' /\ PullsSound'
           /\ \A r \in Repos : heads'[r][Main] # {}
<1>1. /\ FlowTypeOK /\ BranchesNamed /\ OneRunPerBranch /\ PullsSound
    BY DEF FlowInv
<1>2. Grows /\ \A r \in Repos : heads'[r][Main] # {}
    BY <1>1 DEF Grows, Settles, Resolves, FlowTypeOK
<1>3. BranchesNamed'
    <2>1. \A i \in Jobs : HasOwn(heads'[Home(i)], OwnBranch(i))
        BY <1>1, Homes, NamesApart DEF BranchesNamed, HasOwn, Settles
    <2>2. \A r \in {"fork", "upstream"}, n \in Names : OnlyCI(heads'[r][n])
        <3>1. SUFFICES ASSUME NEW r \in {"fork", "upstream"}, NEW n \in Names
                       PROVE  OnlyCI(heads'[r][n])
            OBVIOUS
        <3>2. r \in Repos /\ OnlyCI(heads[r][n])
            BY <1>1 DEF BranchesNamed, Repos
        <3>3. CASE n = Main
            BY <3>3 DEF Settles
        <3>4. CASE n # Main
            BY <3>2, <3>4 DEF Settles, OnlyCI
        <3> QED BY <3>3, <3>4
    <2> QED BY <2>1, <2>2 DEF BranchesNamed, HasOwn, OnlyCI, Home, Target, HeadRepo
<1>4. OneRunPerBranch'
    <2>1. SUFFICES ASSUME NEW r \in {"operator", "upstream", "bundles"}, NEW n \in Names \ {Main}
                   PROVE  ByOne(heads'[HeadRepo(r)][n], n, heads'[r][Main])
        BY DEF OneRunPerBranch, ByOne, HeadRepo
    <2>2. /\ HeadRepo(r) \in Repos /\ r \in Repos
          /\ ByOne(heads[HeadRepo(r)][n], n, heads[r][Main])
        BY <1>1 DEF OneRunPerBranch, ByOne, HeadRepo, Repos
    <2>3. heads'[HeadRepo(r)][n] \subseteq heads[HeadRepo(r)][n]
          /\ heads[r][Main] \subseteq heads'[r][Main]
        BY <2>2 DEF Settles
    <2> QED BY <2>2, <2>3 DEF ByOne
<1>5. PullsSound'
    <2>1. \A i \in DOMAIN pulls : pulls[i] \in Pull /\ pulls[i].repo \in Repos
        <3>1. \A i \in DOMAIN pulls : pulls[i] \in Pull
            BY <1>1 DEF FlowTypeOK
        <3> QED BY <3>1 DEF Pull, Repos
    <2>2. \A i \in DOMAIN pulls' : \E k \in team' :
              pulls'[i].repo = Target(k)' /\ pulls'[i].name = OwnBranch(k)
        BY <1>1 DEF PullsSound, Target, Resolves
    <2>3. \A i \in DOMAIN pulls' : pulls'[i].state = "open" => pulls[i].state = "open"
        BY DEF Resolves
    <2>4. \A i \in DOMAIN pulls' : pulls'[i].state = "open" => Content(i)' # {}
        BY <1>1, <2>3 DEF PullsSound, Resolves
    <2>5. \A i, k \in DOMAIN pulls' :
              /\ pulls'[i].state = "open" /\ pulls'[k].state = "open"
              /\ pulls'[i].repo = pulls'[k].repo /\ pulls'[i].name = pulls'[k].name
              => i = k
        BY <1>1, <2>3 DEF PullsSound, Resolves
    <2>6. \A i \in DOMAIN pulls' :
              pulls'[i].state = "merged" =>
                  \E c \in heads'[pulls'[i].repo][Main] : c.name = pulls'[i].name
        BY <1>1, <2>1 DEF PullsSound, Resolves, Settles
    <2> QED BY <2>2, <2>4, <2>5, <2>6 DEF PullsSound
<1> QED BY <1>2, <1>3, <1>4, <1>5

LEMMA PullHome ==
    ASSUME FlowTypeOK, PullsSound, BranchesNamed, NEW i \in DOMAIN pulls
    PROVE  /\ pulls[i] \in Pull
           /\ pulls[i].repo \in Repos /\ HeadRepo(pulls[i].repo) \in Repos
           /\ pulls[i].name \in Names \ {Main}
           /\ HasOwn(heads[HeadRepo(pulls[i].repo)], pulls[i].name)
           /\ \A k \in DOMAIN pulls :
                  HeadRepo(pulls[i].repo) = HeadRepo(pulls[k].repo) => pulls[i].repo = pulls[k].repo
<1>1. PICK j \in team : pulls[i].repo = Target(j) /\ pulls[i].name = OwnBranch(j)
    BY DEF PullsSound
<1>2. j \in Jobs
    BY TeamIsJobs
<1>3. \A k \in DOMAIN pulls : pulls[k] \in Pull
    BY DEF FlowTypeOK
<1>4. HasOwn(heads[HeadRepo(pulls[i].repo)], pulls[i].name)
    BY <1>1, <1>2 DEF BranchesNamed, Home
<1> QED BY <1>1, <1>2, <1>3, <1>4, NamesApart DEF Pull, Repos, HeadRepo

LEMMA MergedIntoStep ==
    ASSUME FlowInv, NEW i \in DOMAIN pulls, pulls[i].state = "open", MergedInto(i)
    PROVE  Settles /\ Resolves /\ pulls'[i].state = "merged"
<1> DEFINE repo == pulls[i].repo
           name == pulls[i].name
           home == HeadRepo(pulls[i].repo)
           merged == [heads EXCEPT ![repo][Main] = @ \union Content(i)]
<1>1. /\ FlowTypeOK /\ BranchesNamed /\ WellMade /\ PullsSound /\ Content(i) # {} /\ Main \in Names
      /\ heads \in [Repos -> [Names -> SUBSET Commit]] /\ pulls \in Seq(Pull)
    BY NoCloneIsEmpty DEF FlowInv, PullsSound, FlowTypeOK
<1>2. /\ repo \in Repos /\ home \in Repos /\ name \in Names \ {Main} /\ HasOwn(heads[home], name)
      /\ Content(i) = heads[home][name] /\ pulls[i] \in Pull
    BY <1>1, PullHome DEF Content
<1>3. /\ heads' = IF repo = "bundles" THEN [merged EXCEPT ![home][name] = {}] ELSE merged
      /\ pulls' = [pulls EXCEPT ![i].state = "merged"]
    BY DEF MergedInto, HeadRepo
<1> HIDE DEF repo, name, home
<1>4. /\ heads' \in [Repos -> [Names -> SUBSET Commit]]
      /\ heads'[repo][Main] = heads[repo][Main] \union Content(i)
      /\ \A r \in Repos \ {repo} : heads'[r][Main] = heads[r][Main]
      /\ \A r \in Repos, n \in Names \ {Main} : r # home \/ n # name => heads'[r][n] = heads[r][n]
      /\ heads'[home][name] = IF repo = "bundles" THEN {} ELSE heads[home][name]
    <2>1. Content(i) \in SUBSET Commit
        BY <1>1, <1>2
    <2>2. /\ merged \in [Repos -> [Names -> SUBSET Commit]]
          /\ merged[repo][Main] = heads[repo][Main] \union Content(i)
          /\ \A r \in Repos \ {repo} : merged[r][Main] = heads[r][Main]
          /\ \A r \in Repos, n \in Names \ {Main} : merged[r][n] = heads[r][n]
        BY <1>1, <1>2, <2>1
    <2> HIDE DEF merged
    <2> QED BY <1>1, <1>2, <1>3, <2>2
<1>5. /\ pulls' \in Seq(Pull) /\ DOMAIN pulls' = DOMAIN pulls /\ pulls'[i].state = "merged"
      /\ pulls'[i].repo = repo /\ pulls'[i].name = name
      /\ \A k \in DOMAIN pulls \ {i} : pulls'[k] = pulls[k]
    <2>1. \A k \in DOMAIN pulls : pulls[k] \in Pull
        BY <1>1
    <2>2. [pulls[i] EXCEPT !.state = "merged"] \in Pull
        BY <2>1 DEF Pull
    <2>3. pulls' = [pulls EXCEPT ![i] = [pulls[i] EXCEPT !.state = "merged"]]
        BY <1>3
    <2> QED BY <1>1, <2>1, <2>2, <2>3 DEF Pull, repo, name
<1>6. Settles
    <2>1. \A r \in Repos : heads[r][Main] \subseteq heads'[r][Main]
        BY <1>4
    <2>2. \A r \in Repos, n \in Names \ {Main} : heads'[r][n] \in {heads[r][n], {}}
        BY <1>4
    <2>3. \A r \in Repos, n \in Names : \A c \in heads'[r][n] : Made(c)
        <3>1. SUFFICES ASSUME NEW r \in Repos, NEW n \in Names, NEW c \in heads'[r][n] PROVE Made(c)
            OBVIOUS
        <3>2. c \in heads[r][n] \/ c \in heads[home][name]
            BY <1>2, <1>4
        <3> QED BY <1>1, <1>2, <3>2 DEF WellMade
    <2>4. \A r \in {"fork", "upstream"} : OnlyCI(heads'[r][Main])
        <3>1. repo = "upstream" => home = "fork"
            BY DEF home, repo, HeadRepo
        <3>2. repo # "fork"
            BY <1>2 DEF Pull, repo
        <3> QED BY <1>1, <1>2, <1>4, <3>1, <3>2 DEF BranchesNamed, OnlyCI, Repos
    <2> QED BY <1>4, <2>1, <2>2, <2>3, <2>4 DEF Settles
<1>7. Resolves
    <2>1. \E c \in heads'[repo][Main] : c.name = name
        BY <1>1, <1>2, <1>4 DEF HasOwn
    <2>2. ASSUME NEW k \in DOMAIN pulls, pulls'[k].state = "open" PROVE Content(k)' = Content(k)
        <3>1. k # i /\ pulls'[k] = pulls[k]
            BY <1>5, <2>2
        <3>2. ~ (HeadRepo(pulls[k].repo) = home /\ pulls[k].name = name)
            BY <1>1, <2>2, <3>1, PullHome DEF PullsSound, home, name
        <3>3. HeadRepo(pulls[k].repo) \in Repos /\ pulls[k].name \in Names \ {Main}
            BY <1>1, PullHome
        <3> QED BY <1>4, <3>1, <3>2, <3>3 DEF Content, HeadRepo
    <2> QED BY <1>5, <2>1, <2>2 DEF Resolves, repo, name
<1> QED BY <1>5, <1>6, <1>7

LEMMA UntouchedPulls ==
    ASSUME FlowTypeOK, UNCHANGED pulls,
           \A r \in Repos, n \in Names \ {Main} : heads'[r][n] = heads[r][n],
           PullsSound, BranchesNamed
    PROVE  Resolves
<1>1. pulls' \in Seq(Pull) /\ DOMAIN pulls' = DOMAIN pulls
    BY DEF FlowTypeOK
<1>2. \A i \in DOMAIN pulls : Content(i)' = Content(i)
    BY PullHome DEF Content, HeadRepo
<1> QED BY <1>1, <1>2 DEF Resolves

LEMMA PeopleSettle ==
    ASSUME FlowInv, (PeopleCommit /\ UNCHANGED pulls) \/ PeopleClose \/ PeopleDelete
    PROVE  Settles /\ Resolves
<1>1. /\ FlowTypeOK /\ BranchesNamed /\ WellMade /\ PullsSound /\ Main \in Names
      /\ heads \in [Repos -> [Names -> SUBSET Commit]] /\ pulls \in Seq(Pull)
    BY NoCloneIsEmpty DEF FlowInv, FlowTypeOK
<1>2. CASE PeopleCommit /\ UNCHANGED pulls
    <2> DEFINE new == [Root EXCEPT !.kind = "people", !.n = acts]
    <2>1. PICK repo \in {"operator", "upstream"} :
              heads' = [heads EXCEPT ![repo][Main] = heads[repo][Main] \union {new}]
        BY <1>2 DEF PeopleCommit
    <2>2. new \in Commit /\ Made(new) /\ new.kind = "people"
        <3>1. acts \in Nat
            BY <1>1, FlowAssumption DEF FlowTypeOK
        <3>2. <<>> \in Seq(STRING)
            OBVIOUS
        <3> QED BY <1>1, <3>1, <3>2 DEF Root, Commit, Made
    <2> HIDE DEF new
    <2>3. /\ heads' \in [Repos -> [Names -> SUBSET Commit]] /\ repo \in Repos
          /\ heads'[repo][Main] = heads[repo][Main] \union {new}
          /\ \A r \in Repos, n \in Names : r # repo \/ n # Main => heads'[r][n] = heads[r][n]
        BY <1>1, <2>1, <2>2 DEF Repos
    <2>4. \A r \in Repos, n \in Names : \A c \in heads'[r][n] : c \in heads[r][n] \/ c = new
        BY <2>3
    <2>5. Settles
        <3>1. \A r \in Repos, n \in Names : \A c \in heads'[r][n] : Made(c)
            BY <1>1, <2>2, <2>4 DEF WellMade
        <3>2. \A r \in {"fork", "upstream"} : OnlyCI(heads'[r][Main])
            BY <1>1, <2>2, <2>4 DEF BranchesNamed, OnlyCI, Repos
        <3>3. \A r \in Repos : heads[r][Main] \subseteq heads'[r][Main]
            BY <1>1, <2>3
        <3>4. \A r \in Repos, n \in Names \ {Main} : heads'[r][n] = heads[r][n]
            BY <2>3
        <3> QED BY <2>3, <3>1, <3>2, <3>3, <3>4 DEF Settles
    <2> QED BY <1>1, <1>2, <2>3, <2>5, UntouchedPulls
<1>3. CASE PeopleClose
    <2>1. PICK i \in DOMAIN pulls :
              /\ pulls[i].state = "open"
              /\ \/ MergedInto(i)
                 \/ pulls' = [pulls EXCEPT ![i].state = "closed"] /\ UNCHANGED heads
        BY <1>3 DEF PeopleClose
    <2>2. CASE MergedInto(i)
        BY <2>1, <2>2, MergedIntoStep
    <2>3. CASE pulls' = [pulls EXCEPT ![i].state = "closed"] /\ UNCHANGED heads
        <3>1. \A k \in DOMAIN pulls : pulls[k] \in Pull
            BY <1>1
        <3>2. [pulls[i] EXCEPT !.state = "closed"] \in Pull
            BY <3>1 DEF Pull
        <3>3. pulls' = [pulls EXCEPT ![i] = [pulls[i] EXCEPT !.state = "closed"]]
            BY <2>3
        <3>4. /\ pulls' \in Seq(Pull) /\ DOMAIN pulls' = DOMAIN pulls /\ pulls'[i].state = "closed"
              /\ pulls'[i].repo = pulls[i].repo /\ pulls'[i].name = pulls[i].name
              /\ \A k \in DOMAIN pulls \ {i} : pulls'[k] = pulls[k]
            BY <1>1, <3>1, <3>2, <3>3 DEF Pull
        <3>5. Settles
            BY <1>1, <2>3 DEF Settles, WellMade, BranchesNamed
        <3>6. \A k \in DOMAIN pulls : Content(k)' = Content(k)
            BY <2>3, <3>4 DEF Content, HeadRepo
        <3> QED BY <2>1, <3>4, <3>5, <3>6 DEF Resolves
    <2> QED BY <2>1, <2>2, <2>3
<1>4. CASE PeopleDelete
    <2> DEFINE shut(k) == [pulls[k] EXCEPT !.state = "closed"]
    <2>1. PICK i \in DOMAIN pulls :
              /\ heads' = [heads EXCEPT ![HeadRepo(pulls[i].repo)][pulls[i].name] = {}]
              /\ pulls' = [k \in DOMAIN pulls |->
                              IF k \in OpenPulls(pulls[i].repo, pulls[i].name)
                              THEN shut(k) ELSE pulls[k]]
        BY <1>4 DEF PeopleDelete
    <2>2. PICK home \in Repos, name \in Names \ {Main} :
              /\ home = HeadRepo(pulls[i].repo) /\ name = pulls[i].name
              /\ heads' = [heads EXCEPT ![home][name] = {}]
        BY <1>1, <2>1, PullHome
    <2>3. /\ heads' \in [Repos -> [Names -> SUBSET Commit]] /\ heads'[home][name] = {}
          /\ \A r \in Repos, n \in Names : r # home \/ n # name => heads'[r][n] = heads[r][n]
        BY <1>1, <2>2
    <2>4. Settles
        <3>1. \A r \in Repos, n \in Names : heads'[r][n] \subseteq heads[r][n]
            BY <2>3
        <3>2. \A r \in Repos, n \in Names : \A c \in heads'[r][n] : Made(c)
            BY <1>1, <3>1 DEF WellMade
        <3>3. \A r \in {"fork", "upstream"} : OnlyCI(heads'[r][Main])
            BY <1>1, <3>1 DEF BranchesNamed, OnlyCI, Repos
        <3> QED BY <1>1, <2>2, <2>3, <3>2, <3>3 DEF Settles
    <2>5. \A k \in DOMAIN pulls : pulls[k] \in Pull
        BY <1>1
    <2>6. \A k \in DOMAIN pulls :
              /\ shut(k) \in Pull /\ shut(k).repo = pulls[k].repo /\ shut(k).name = pulls[k].name
              /\ shut(k).state = "closed"
        BY <2>5 DEF Pull
    <2>7. pulls' \in Seq(Pull) /\ DOMAIN pulls' = DOMAIN pulls
        <3>1. DOMAIN pulls = 1..Len(pulls) /\ Len(pulls) \in Nat
            BY <1>1
        <3>2. \A k \in 1..Len(pulls) : pulls'[k] \in Pull
            BY <2>1, <2>5, <2>6, <3>1
        <3>3. pulls' \in [1..Len(pulls) -> Pull]
            BY <2>1, <3>1, <3>2
        <3> QED BY <3>1, <3>3
    <2>8. ASSUME NEW k \in DOMAIN pulls
          PROVE  /\ pulls'[k].repo = pulls[k].repo /\ pulls'[k].name = pulls[k].name
                 /\ \/ pulls'[k] = pulls[k] /\ k \notin OpenPulls(pulls[i].repo, pulls[i].name)
                    \/ pulls[k].state = "open" /\ pulls'[k].state = "closed"
        BY <2>1, <2>6 DEF OpenPulls
    <2>9. ASSUME NEW k \in DOMAIN pulls, pulls'[k].state = "open" PROVE Content(k)' = Content(k)
        <3>1. pulls'[k] = pulls[k] /\ k \notin OpenPulls(pulls[i].repo, pulls[i].name)
            BY <2>8, <2>9
        <3>2. ~ (HeadRepo(pulls[k].repo) = home /\ pulls[k].name = name)
            BY <1>1, <2>2, <2>9, <3>1, PullHome DEF OpenPulls
        <3>3. HeadRepo(pulls[k].repo) \in Repos /\ pulls[k].name \in Names \ {Main}
            BY <1>1, PullHome
        <3> QED BY <2>3, <3>1, <3>2, <3>3 DEF Content, HeadRepo
    <2> HIDE DEF shut
    <2>10. Resolves
        BY <2>7, <2>8, <2>9 DEF Resolves
    <2> QED BY <2>4, <2>10
<1> QED BY <1>2, <1>3, <1>4

LEMMA PeopleStep == ASSUME FlowInv, People PROVE FlowInv'
<1>1. /\ FlowTypeOK /\ WellMade /\ TempKept /\ RunsSound
      /\ UNCHANGED <<team, pc, clone, work, tries, quiet, merges, temp>>
      /\ acts < MaxActs /\ acts' = acts + 1
    BY DEF FlowInv, People
<1>2. Settles /\ Resolves
    BY PeopleSettle DEF People
<1>3. Grows /\ BranchesNamed' /\ OneRunPerBranch' /\ PullsSound'
      /\ \A r \in Repos : heads'[r][Main] # {}
    BY <1>1, <1>2, HostStep
<1>4. FlowTypeOK'
    <2>1. acts' \in 0..MaxActs
        BY <1>1, FlowAssumption DEF FlowTypeOK
    <2>2. NoClone' = NoClone
        BY DEF NoClone
    <2>3. \A j \in Jobs : pc[j] \in Ended \union {"idle"} => clone[j] = NoClone /\ work[j] = {}
        BY <1>1 DEF FlowTypeOK
    <2>4. heads' \in [Repos -> [Names -> SUBSET Commit]] /\ pulls' \in Seq(Pull)
          /\ DOMAIN pulls' = DOMAIN pulls
        BY <1>2 DEF Settles, Resolves
    <2> QED BY <1>1, <1>3, <2>1, <2>2, <2>3, <2>4 DEF FlowTypeOK
<1>5. WellMade'
    BY <1>1, <1>2, MadeStays DEF WellMade, Settles
<1>6. TempKept'
    BY <1>1, TempStays
<1>7. RunsSound'
    BY <1>1, <1>3, OthersSound DEF RunsSound
<1> QED BY <1>3, <1>4, <1>5, <1>6, <1>7 DEF FlowInv

LEMMA MergeStep ==
    ASSUME FlowInv, NEW j \in Jobs, mergePR(j)
    PROVE  FlowInv' /\ Adds(j)
<1>1. /\ FlowTypeOK /\ WellMade /\ TempKept /\ RunsSound
      /\ UNCHANGED <<team, tries, acts, quiet, merges, temp>>
      /\ j \in team /\ JobOf[j].cmd = "merge" /\ pc[j] = "merge"
    BY DEF FlowInv, mergePR, At
<1>2. PICK i : i = merges[j]
    OBVIOUS
<1>3. /\ i \in DOMAIN pulls /\ pulls[i].repo = "operator" /\ pulls[i].name = OwnBranch(j)
      /\ pulls[i].state = "open" /\ MergedInto(i)
    BY <1>1, <1>2 DEF RunsSound, PullKnown, mergePR
<1>4. Settles /\ Resolves /\ pulls'[i].state = "merged"
    BY <1>3, MergedIntoStep
<1>5. Grows /\ BranchesNamed' /\ OneRunPerBranch' /\ PullsSound'
      /\ \A r \in Repos : heads'[r][Main] # {}
    BY <1>1, <1>4, HostStep
<1>6. PICK where \in Ended : Goto(j, where)
    BY DEF mergePR
<1>7. Moves(j) /\ pc'[j] = where /\ clone'[j] \in {clone[j], NoClone} /\ Keeps(j)
    BY <1>1, <1>6, GotoMoves, KeepsAll DEF Ended, Places
<1>8. CloneSound(j)' /\ WorkSound(j)'
    BY <1>1, <1>5, <1>7, GotoSound DEF Ended
<1>9. PullKnown(j)'
    BY <1>1, <1>2, <1>3, <1>4 DEF PullKnown, Resolves
<1>10. RunsSound'
    BY <1>1, <1>5, <1>7, <1>8, <1>9, OthersSound DEF RunsSound, Moves, Keeps
<1>11. TempKept'
    BY <1>1, <1>7, TempStays DEF Moves, Ended
<1>12. FlowTypeOK'
    <2>1. /\ pulls' \in Seq(Pull) /\ DOMAIN pulls \subseteq DOMAIN pulls'
          /\ heads' \in [Repos -> [Names -> SUBSET Commit]]
          /\ TempType'
        BY <1>1, <1>4 DEF Settles, Resolves, FlowTypeOK, TempType
    <2> QED BY <1>1, <1>5, <1>7, <2>1, TypeStep
<1>13. WellMade'
    BY <1>1, <1>4, <1>7, MadeStays DEF WellMade, Moves, Settles
<1>14. Adds(j)
    <2>1. Main \in Names /\ heads \in [Repos -> [Names -> SUBSET Commit]]
          /\ "operator" \in Repos /\ OwnBranch(j) \in Names
        BY <1>1, NoCloneIsEmpty, NamesApart DEF FlowTypeOK, Repos
    <2>2. heads' = [heads EXCEPT !["operator"][Main] = heads["operator"][Main] \union Content(i)]
        BY <1>3 DEF MergedInto
    <2>3. /\ heads'["operator"][Main] = heads["operator"][Main] \union Content(i)
          /\ \A r \in Repos, n \in Names :
                 r # "operator" \/ n # Main => heads'[r][n] = heads[r][n]
        BY <2>1, <2>2
    <2>4. heads["operator"][Main] # {}
        BY <1>1, <2>1 DEF FlowTypeOK
    <2>5. \A r \in Repos, n \in Names :
              /\ heads[r][n] \subseteq heads'[r][n]
              /\ heads[r][n] = {} => heads'[r][n] = {}
        BY <2>3, <2>4
    <2> QED BY <2>5 DEF Adds
<1> QED BY <1>5, <1>10, <1>11, <1>12, <1>13, <1>14 DEF FlowInv

----------------------------------------------------------------------------
(* Every step, and what follows from the invariant.                          *)
LEMMA AddsNothing ==
    ASSUME UNCHANGED heads, NEW j PROVE Adds(j)
BY DEF Adds

LEMMA RunStep ==
    ASSUME FlowInv, NEW j \in Jobs, Step(j) \/ CallFails(j) \/ Again(j)
    PROVE  FlowInv' /\ j \in team /\ Adds(j)
<1>0. FlowTypeOK /\ {"find", "failed", "open", "fork"} \subseteq Restful \ {"done"}
    BY DEF FlowInv, Restful, Places
<1>1. CASE CallFails(j) \/ Again(j)
    BY <1>1, FailOrRetry, AddsNothing DEF CallFails, Again
<1>2. CASE CloneForRelease(j) \/ runReleaseScript(j)
    BY <1>2, CreateQuiet, AddsNothing DEF CloneForRelease, runReleaseScript, At
<1>3. CASE commitAndPushChanges(j)
    BY <1>3, PushAllStep DEF commitAndPushChanges, At
<1>4. CASE createPRIfNotExists(j)
    <2>1. CASE At(j, "create", "find")
        BY <1>4, <2>1, CreateQuiet, AddsNothing DEF createPRIfNotExists, At
    <2>2. CASE At(j, "create", "open")
        BY <1>4, <2>2, OpenPullStep, Homes, AddsNothing DEF createPRIfNotExists, At
    <2> QED BY <1>4, <2>1, <2>2 DEF createPRIfNotExists
<1>5. CASE DoMergeRelease(j) \/ GetPull(j)
    BY <1>5, MergeQuiet, AddsNothing DEF DoMergeRelease, GetPull, At
<1>6. CASE mergePR(j)
    BY <1>6, MergeStep DEF mergePR, At
<1>7. CASE CloneForManifest(j) \/ runManifestScript(j) \/ SaveManifest(j) \/ RestoreManifest(j)
    BY <1>7, ManifestQuiet, AddsNothing
       DEF CloneForManifest, runManifestScript, SaveManifest, RestoreManifest, At
<1>8. CASE PushManifest(j)
    BY <1>8, PushAllStep DEF PushManifest, At
<1>9. CASE ManifestPull(j)
    <2>1. CASE At(j, "prodsec", "find")
        BY <1>9, <2>1, ManifestQuiet, AddsNothing DEF ManifestPull, At
    <2>2. CASE At(j, "prodsec", "open")
        BY <1>9, <2>2, OpenPullStep, Homes, AddsNothing DEF ManifestPull, At
    <2> QED BY <1>9, <2>1, <2>2 DEF ManifestPull
<1>10. CASE \/ DoIntlyOperatorUpdate(j) \/ EnsureReleaseBranch(j)
            \/ DoOpenShiftReleaseUpdate(j) \/ CreateAndPull(j) \/ EditConfiguration(j)
    BY <1>10, CIQuiet, AddsNothing
       DEF DoIntlyOperatorUpdate, EnsureReleaseBranch, DoOpenShiftReleaseUpdate, CreateAndPull,
           EditConfiguration, At
<1>11. CASE PushReleaseBranch(j)
    <2>1. "operator" \in Repos /\ j \in team /\ JobOf[j].cmd = "ci" /\ pc[j] = "pushBranch"
        BY <1>11 DEF PushReleaseBranch, At, Repos
    <2> QED BY <1>0, <1>11, <2>1, PushOneStep DEF PushReleaseBranch
<1>12. CASE PushConfiguration(j)
    <2>1. "fork" \in Repos /\ j \in team /\ JobOf[j].cmd = "ci" /\ pc[j] = "push"
        BY <1>12 DEF PushConfiguration, At, Repos
    <2> QED BY <1>0, <1>12, <2>1, PushOneStep DEF PushConfiguration
<1>13. CASE CIPull(j)
    <2>1. CASE At(j, "ci", "find")
        BY <1>13, <2>1, CIQuiet, AddsNothing DEF CIPull, At
    <2>2. CASE At(j, "ci", "open")
        BY <1>13, <2>2, OpenPullStep, Homes, AddsNothing DEF CIPull, At
    <2> QED BY <1>13, <2>1, <2>2 DEF CIPull
<1>14. CASE newOSDAddonReleaseCmd(j) \/ CommitBundle(j)
    BY <1>14, AddonQuiet, AddsNothing DEF newOSDAddonReleaseCmd, CommitBundle, At
<1>15. CASE PushBundle(j)
    <2>1. "bundlesFork" \in Repos /\ j \in team /\ JobOf[j].cmd = "addon" /\ pc[j] = "push"
        BY <1>15 DEF PushBundle, At, Repos
    <2> QED BY <1>0, <1>15, <2>1, PushOneStep DEF PushBundle
<1>16. CASE CreateMergeRequest(j)
    BY <1>16, OpenPullStep, Homes, AddsNothing DEF CreateMergeRequest, At
<1> QED
    BY <1>1, <1>2, <1>3, <1>4, <1>5, <1>6, <1>7, <1>8, <1>9, <1>10, <1>11, <1>12, <1>13, <1>14,
       <1>15, <1>16 DEF Step

LEMMA FlowInit == ASSUME Init PROVE FlowInv
<1>1. /\ team \subseteq Jobs /\ pulls = <<>> /\ acts = 0 /\ quiet = {}
      /\ pc = [j \in Jobs |-> IF j \in team THEN "clone" ELSE "idle"]
      /\ clone = [j \in Jobs |-> NoClone] /\ work = [j \in Jobs |-> {}]
      /\ tries = [j \in Jobs |-> 1] /\ merges = [j \in Jobs |-> 0]
      /\ temp = [file |-> <<>>, copied |-> [j \in Jobs |-> <<>>], mixed |-> {}]
    BY FlowAssumption DEF Init, HostInit
<1>2. PICK ahead \in SUBSET {Ahead} :
          heads = [r \in Repos |-> [n \in Names |->
                      IF n # Main THEN {} ELSE IF r = "upstream" THEN {Root} \union ahead
                      ELSE {Root}]]
    BY DEF Init, HostInit
<1>3. <<>> \in Seq(STRING) /\ <<>> \in Seq(Pull) /\ Len(<<>>) = 0 /\ DOMAIN <<>> = {}
    OBVIOUS
<1>4. \A c \in {Root, Ahead} : c \in Commit /\ Made(c) /\ c.kind \in {"root", "people"}
    <2>1. Main \in Names /\ MaxActs \in Nat
        BY NoCloneIsEmpty, FlowAssumption
    <2>2. Root \in Commit /\ Made(Root) /\ Root.kind = "root"
        BY <1>3, <2>1 DEF Root, Commit, Made
    <2>3. Ahead \in Commit /\ Made(Ahead) /\ Ahead.kind = "people"
        BY <1>3, <2>1 DEF Ahead, Root, Commit, Made
    <2> QED BY <2>2, <2>3
<1>5. /\ heads \in [Repos -> [Names -> SUBSET Commit]]
      /\ \A r \in Repos, n \in Names : heads[r][n] \subseteq {Root, Ahead}
      /\ \A r \in Repos : heads[r][Main] # {}
      /\ \A r \in Repos, n \in Names \ {Main} : heads[r][n] = {}
    <2>1. Main \in Names
        BY NoCloneIsEmpty
    <2> HIDE DEF Root, Ahead, Commit
    <2>2. \A r \in Repos, n \in Names :
              heads[r][n] = IF n # Main THEN {} ELSE IF r = "upstream" THEN {Root} \union ahead
                            ELSE {Root}
        BY <1>2
    <2>3. \A r \in Repos, n \in Names : heads[r][n] \in SUBSET Commit
        BY <1>4, <2>2
    <2>4. heads \in [Repos -> [Names -> SUBSET Commit]]
        BY <1>2, <2>2, <2>3
    <2> QED BY <2>1, <2>2, <2>4
<1>6. FlowTypeOK
    <2>1. pc \in [Jobs -> Places] /\ tries \in [Jobs -> Nat] /\ merges \in [Jobs -> Nat]
        BY <1>1 DEF Places
    <2>2. clone \in [Jobs -> [Names -> SUBSET Commit]] /\ work \in [Jobs -> SUBSET Commit]
        BY <1>1, NoCloneIsEmpty
    <2>3. TempType /\ acts \in 0..MaxActs
        BY <1>1, <1>3, FlowAssumption DEF TempType
    <2> QED BY <1>1, <1>3, <1>5, <2>1, <2>2, <2>3 DEF FlowTypeOK, TempType
<1>7. WellMade
    BY <1>1, <1>4, <1>5, NoCloneIsEmpty DEF WellMade
<1>8. TempKept
    BY <1>1, <1>3 DEF TempKept, Drawn
<1>9. BranchesNamed
    <2>1. \A j \in Jobs : HasOwn(heads[Home(j)], OwnBranch(j))
        BY <1>5, Homes, NamesApart DEF HasOwn
    <2>2. \A r \in {"fork", "upstream"}, n \in Names : OnlyCI(heads[r][n])
        BY <1>4, <1>5 DEF OnlyCI, Repos
    <2> QED BY <2>1, <2>2 DEF BranchesNamed
<1>10. PullsSound
    BY <1>1, <1>3 DEF PullsSound
<1>11. OneRunPerBranch
    <2>1. \A r \in {"operator", "upstream", "bundles"} : HeadRepo(r) \in Repos
        BY DEF HeadRepo, Repos
    <2> QED BY <1>5, <2>1 DEF OneRunPerBranch
<1>12. RunsSound
    <2>1. SUFFICES ASSUME NEW j \in Jobs PROVE CloneSound(j) /\ WorkSound(j) /\ PullKnown(j)
        BY DEF RunsSound
    <2>2. clone[j] = NoClone /\ work[j] = {} /\ pc[j] \in {"idle", "clone"}
        BY <1>1
    <2>3. CloneSound(j)
        BY <2>2, NoCloneIsEmpty, NamesApart DEF CloneSound, ByOne, HasOwn
    <2> QED BY <2>2, <2>3 DEF WorkSound, PullKnown
<1> QED BY <1>6, <1>7, <1>8, <1>9, <1>10, <1>11, <1>12 DEF FlowInv

LEMMA FlowStep == ASSUME FlowInv, [Next]_flow PROVE FlowInv'
<1>1. CASE UNCHANGED flow
    <2>1. FlowTypeOK' <=> FlowTypeOK
        BY <1>1 DEF flow, FlowTypeOK, NoClone
    <2>2. WellMade => WellMade'
        BY <1>1, MadeStays DEF flow, WellMade
    <2>3. TempKept => TempKept'
        BY <1>1, TempStays DEF flow
    <2>4. /\ BranchesNamed' <=> BranchesNamed
          /\ OneRunPerBranch' <=> OneRunPerBranch
        BY <1>1 DEF flow, BranchesNamed, OneRunPerBranch, HasOwn, OnlyCI, Home, Target, HeadRepo
    <2>5. PullsSound' <=> PullsSound
        BY <1>1 DEF flow, PullsSound, Content, Target, HeadRepo
    <2>6. RunsSound' <=> RunsSound
        <3>1. \A j : /\ CloneSound(j)' <=> CloneSound(j)
                     /\ WorkSound(j)' <=> WorkSound(j)
                     /\ PullKnown(j)' <=> PullKnown(j)
            BY <1>1 DEF flow, CloneSound, WorkSound, PullKnown, ByOne, HasOwn, OnlyCI, Home,
               Target, HeadRepo
        <3> QED BY <3>1 DEF RunsSound
    <2> QED BY <2>1, <2>2, <2>3, <2>4, <2>5, <2>6 DEF FlowInv
<1>2. CASE People
    BY <1>2, PeopleStep
<1>3. ASSUME NEW j \in Jobs, Step(j) \/ CallFails(j) \/ Again(j) PROVE FlowInv'
    BY <1>3, RunStep
<1> QED BY <1>1, <1>2, <1>3 DEF Next

(* The runs and the people never leave the inductive invariant of the model: *)
(* commits are what their makers made them, every branch and every pull      *)
(* request has its run, and what a run holds is what it cloned.              *)
THEOREM FlowInvariant == Spec => []FlowInv
<1>1. Init => FlowInv
    BY FlowInit
<1>2. FlowInv /\ [Next]_flow => FlowInv'
    BY FlowStep
<1> QED BY <1>1, <1>2, PTL DEF Spec

(* The state keeps its types: a run at rest has no clone, a run that was     *)
(* told which pull request to merge was told one that exists.                *)
THEOREM FlowTypeCorrect == Spec => []FlowTypeOK
<1>1. FlowInv => FlowTypeOK
    BY DEF FlowInv
<1> QED BY <1>1, FlowInvariant, PTL

(* A branch holds the work of one run: create-release, the manifest and the  *)
(* addon command refuse a branch that is there, and a push of a clone that   *)
(* has fallen behind is no fast forward (commitAndPushChanges).              *)
THEOREM OneRunPerBranchCorrect == Spec => []OneRunPerBranch
<1>1. FlowInv => OneRunPerBranch
    BY DEF FlowInv
<1> QED BY <1>1, FlowInvariant, PTL

(* A run that ends well and not quietly leaves a pull request, with a commit *)
(* of its branch in it as long as it is open (createPRIfNotExists).          *)
THEOREM DoneHasPullCorrect == Spec => []DoneHasPull
<1>1. ASSUME FlowInv, NEW j \in team, Succeeded(j), j \notin quiet, JobOf[j].cmd # "merge"
      PROVE  \E i \in DOMAIN pulls :
                 /\ pulls[i].repo = Target(j) /\ pulls[i].name = OwnBranch(j)
                 /\ pulls[i].state = "open" => \E c \in Content(i) : c.name = OwnBranch(j)
    <2>1. j \in Jobs /\ PullKnown(j) /\ PullsSound /\ HasOwn(heads[Home(j)], OwnBranch(j))
        BY <1>1 DEF FlowInv, FlowTypeOK, RunsSound, BranchesNamed
    <2>2. PICK i \in DOMAIN pulls : pulls[i].repo = Target(j) /\ pulls[i].name = OwnBranch(j)
        BY <1>1, <2>1 DEF PullKnown, Succeeded
    <2>3. pulls[i].state = "open" => Content(i) # {}
        BY <2>1 DEF PullsSound
    <2>4. Content(i) = heads[Home(j)][OwnBranch(j)]
        BY <2>2 DEF Content, Home
    <2> QED BY <2>1, <2>2, <2>3, <2>4 DEF HasOwn
<1>2. FlowInv => DoneHasPull
    BY <1>1 DEF DoneHasPull
<1> QED BY <1>2, FlowInvariant, PTL

(* merge-release reports a merge only when a commit that prepares the        *)
(* release is on the main branch of the operator (DoMergeRelease).           *)
THEOREM MergedIsReleasedCorrect == Spec => []MergedIsReleased
<1>1. ASSUME FlowInv, NEW j \in team, Succeeded(j), JobOf[j].cmd = "merge"
      PROVE  pulls[merges[j]].state = "merged" /\ Released(heads["operator"][Main], j)
    <2>1. /\ j \in Jobs /\ PullKnown(j) /\ PullsSound /\ WellMade /\ FlowTypeOK
          /\ Main \in Names /\ "operator" \in Repos
        BY <1>1, NoCloneIsEmpty DEF FlowInv, FlowTypeOK, RunsSound, Repos
    <2>2. /\ merges[j] \in DOMAIN pulls /\ pulls[merges[j]].state = "merged"
          /\ pulls[merges[j]].repo = "operator" /\ pulls[merges[j]].name = OwnBranch(j)
        BY <1>1, <2>1 DEF PullKnown, Succeeded
    <2>3. PICK c \in heads["operator"][Main] : c.name = OwnBranch(j)
        BY <2>1, <2>2 DEF PullsSound
    <2>4. Made(c) /\ c \in Commit
        BY <2>1 DEF WellMade, FlowTypeOK
    <2>5. c.by \in Jobs /\ OwnBranch(c.by) = OwnBranch(j) /\ c.kind = KindOf(c.by)
        BY <2>1, <2>3, <2>4, NamesApart, TeamIsJobs DEF Made
    <2>6. JobOf[c.by].cmd \in {"create", "merge"} /\ c.kind # "none"
        BY <1>1, <2>1, <2>4, <2>5, NamesApart DEF Commit
    <2>7. c.kind = "prepare"
        BY <2>5, <2>6, Kinds
    <2> QED BY <2>2, <2>3, <2>7 DEF Released
<1>2. FlowInv => MergedIsReleased
    BY <1>1 DEF MergedIsReleased
<1> QED BY <1>2, FlowInvariant, PTL

(* What the copies of the manifest through the shared temporary file keep,   *)
(* without truncation, a line at a time and stopped anywhere                 *)
(* (copyManifestFile).                                                       *)
THEOREM ManifestKeptCorrect == Spec => []ManifestKept
<1>1. ASSUME FlowInv, NEW c \in Pushed, c.kind = "manifest"
      PROVE  Drawn(c.file) /\ (c.by \in temp.mixed \/ StartsWith(c.file, JobOf[c.by].manifest))
    BY <1>1 DEF FlowInv, WellMade, Pushed, Repos, Made
<1>2. FlowInv => ManifestKept
    BY <1>1 DEF ManifestKept
<1> QED BY <1>2, FlowInvariant, PTL
=============================================================================
