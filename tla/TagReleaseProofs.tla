-------------------------- MODULE TagReleaseProofs --------------------------
(***************************************************************************)
(* The safety of release tagging, for any number of versions, commands,    *)
(* repositories and commits: IndInv is inductive and implies the           *)
(* properties of TagRelease. What is stated under Freeze assumes that      *)
(* merges stop while a version is half tagged.                             *)
(***************************************************************************)
EXTENDS TagRelease, WellFoundedInduction, TLAPS

(***************************************************************************)
(* The most recent candidate exists: names have a greatest element.        *)
(***************************************************************************)
Smaller == {p \in Nat \X Nat : p[1] < p[2]}

LEMMA LeastNat ==
  ASSUME NEW T \in SUBSET Nat, T # {}
  PROVE  \E x \in T : \A y \in T : x <= y
<1>1. IsWellFoundedOn(Smaller, Nat)
  BY NatLessThanWellFounded DEF OpToRel, Smaller
<1>2. PICK x \in T : \A y \in T : <<y, x>> \notin Smaller
  BY <1>1, WFMin
<1>3. ASSUME NEW y \in T, ~(x <= y) PROVE FALSE
  <2>1. y < x /\ <<y, x>> \in Nat \X Nat BY <1>3
  <2>2. <<y, x>> \in Smaller BY <2>1 DEF Smaller
  <2> QED BY <1>2, <2>2
<1> QED BY <1>3

LEMMA NameKeyBound ==
  ASSUME NEW c \in Candidates PROVE NameKey(c) \in 0..1000
<1>1. c \in 1..99 BY TagAssumption
<1>2. c \div 10 \in 0..9 /\ c % 10 \in 0..9 BY <1>1
<1> QED BY <1>1, <1>2 DEF NameKey

LEMMA Greatest ==
  ASSUME NEW S \in SUBSET (0..1000), S # {}
  PROVE  \E x \in S : \A y \in S : y <= x
<1> DEFINE T == {t \in 0..1000 : 1000 - t \in S}
<1>1. ASSUME NEW y \in S PROVE 1000 - y \in T
  <2>1. y \in 0..1000 OBVIOUS
  <2>2. 1000 - y \in 0..1000 /\ 1000 - (1000 - y) = y BY <2>1
  <2> QED BY <2>2
<1>2. T \in SUBSET Nat OBVIOUS
<1>3. ASSUME NEW t \in T PROVE t \in Int /\ 1000 - t \in S OBVIOUS
<1> HIDE DEF T
<1>4. T # {}
  <2>1. PICK y : y \in S OBVIOUS
  <2> QED BY <1>1, <2>1
<1>5. PICK t \in T : \A u \in T : t <= u BY <1>2, <1>4, LeastNat
<1>6. ASSUME NEW y \in S PROVE y <= 1000 - t
  <2>1. y \in Int OBVIOUS
  <2>2. 1000 - y \in T BY <1>1
  <2>3. t <= 1000 - y BY <1>5, <2>2
  <2>4. t \in Int BY <1>3
  <2> QED BY <2>1, <2>3, <2>4
<1> QED BY <1>3, <1>6

LEMMA MostRecentIsGreatest ==
  ASSUME RCRefs # {}
  PROVE  MostRecentRC \in RCRefs /\ \A d \in RCRefs : NameKey(d) <= NameKey(MostRecentRC)
<1> DEFINE S == {NameKey(c) : c \in RCRefs}
<1>1. S \in SUBSET (0..1000) BY NameKeyBound DEF RCRefs
<1>2. S # {} OBVIOUS
<1>3. PICK x \in S : \A y \in S : y <= x
  <2> HIDE DEF S
  <2> QED BY <1>1, <1>2, Greatest
<1>4. PICK c \in RCRefs : x = NameKey(c) OBVIOUS
<1>5. \A d \in RCRefs : NameKey(d) <= NameKey(c) BY <1>3, <1>4
<1> QED BY <1>5 DEF MostRecentRC

LEMMA MostRecentRCIsTagged ==
  ASSUME RCRefs # {} PROVE MostRecentRC \in Candidates /\ Tagged(MostRecentRC)
BY MostRecentIsGreatest DEF RCRefs

(***************************************************************************)
(* IndInv, split into what it says of the world and of each command.       *)
(***************************************************************************)
JobFacts(j) ==
  /\ Ver(j) \in Versions /\ Entries(j) \in Seq(Entry)
  /\ Job[j].cmd \in {"repo", "images"} /\ Job[j].wait \in BOOLEAN
  /\ Job[j].source \in Sources /\ Job[j].source \in Tags

LEMMA JobType == ASSUME NEW j \in Jobs PROVE JobFacts(j)
<1>1. Job[j] \in Command BY TagAssumption
<1> QED BY <1>1 DEF JobFacts, Ver, Entries, Command, Tags

LEMMA Disjoint ==
  /\ \A s \in Sources : s \notin Versions /\ s \notin Candidates /\ s \in Tags
  /\ \A v \in Versions : v \in Tags /\ v \notin Sources /\ v \notin Fixed
  /\ \A c \in Candidates : c # Final /\ c \in Versions /\ c \in Tags
  /\ Versions = Candidates \cup {Final}
BY TagAssumption DEF Versions, Tags, Final

WorldOK ==
  /\ \A r \in Repos, t \in Tags : image[r][t] <= head
  /\ \A v \in Versions : gitTag[v] <= head
  /\ \A j \in Jobs, r \in Repos :
       TagsOwn(j, r) /\ Ver(j) \in Candidates => image[r][Ver(j)] <= image[r][Job[j].source]

ReleaseOK ==
  Freeze =>
    /\ \A v \in Versions : ~Complete(v) => gitTag[v] \in {0, head}
    /\ \A c \in Candidates, r \in Repos : ~Complete(c) => image[r][c] \in {0, head}
    /\ \A r \in Repos : image[r][Final] # 0 =>
         \/ \E v \in Versions : Tagged(v) /\ gitTag[v] = image[r][Final]
         \/ ~Complete(Final) /\ image[r][Final] = head
    /\ SameCommit

Placed(j) ==
  /\ sha[j] \in 0..head /\ (pc[j] # "idle" \/ passed[j] => sha[j] # 0)
  /\ pc[j] \in {"readTag", "create"} => Job[j].cmd = "repo"
  /\ pc[j] \in {"readRCs", "inspect", "mirror", "attempted"} => Job[j].cmd = "images"
  /\ pc[j] \in {"inspect", "mirror", "attempted"} => at[j] \in DOMAIN Entries(j)
  /\ passed[j] => pc[j] = "idle"
  /\ src[j] # Job[j].source =>
       /\ Ver(j) = Final /\ pc[j] \in {"inspect", "mirror", "attempted"}
       /\ src[j] \in Candidates /\ Tagged(src[j]) /\ sha[j] = gitTag[src[j]]
  /\ pc[j] = "mirror" => image[Repo(j)][src[j]] # 0
                         /\ (src[j] \in Sources => image[Repo(j)][src[j]] >= sha[j])
  /\ Freeze => (pc[j] # "idle" /\ src[j] \in Sources => sha[j] = head)

HasCopied(j) ==
  /\ Ver(j) \in Candidates /\ ok[j] =>
       /\ pc[j] \in {"inspect", "mirror"} => \A i \in 1..(at[j] - 1) : Copied(j, i)
       /\ pc[j] = "attempted" => \A i \in DOMAIN Entries(j) : Copied(j, i)
  /\ Job[j].cmd = "images" /\ Job[j].wait /\ Ver(j) \in Candidates /\ passed[j]
     => \A i \in DOMAIN Entries(j) : Copied(j, i)

Truthful(j) == Job[j].cmd = "repo" /\ passed[j] => gitTag[Ver(j)] = sha[j]

LEMMA IndInvSplit ==
  IndInv <=> TypeOK /\ WorldOK /\ ReleaseOK
             /\ \A j \in Jobs : Placed(j) /\ HasCopied(j) /\ Truthful(j)
BY DEF IndInv, Sound, NotAhead, CopiedSoFar, AtHead, GitTagIsTruthful, WaitedForImages,
       WorldOK, ReleaseOK, Placed, HasCopied, Truthful, Copied

LEMMA IndInvSplitPrimed ==
  IndInv' <=> TypeOK' /\ WorldOK' /\ ReleaseOK'
              /\ \A j \in Jobs : Placed(j)' /\ HasCopied(j)' /\ Truthful(j)'
BY DEF IndInv, Sound, NotAhead, CopiedSoFar, AtHead, GitTagIsTruthful, WaitedForImages,
       WorldOK, ReleaseOK, Placed, HasCopied, Truthful, Copied

(***************************************************************************)
(* What a step of one command leaves alone.                                *)
(***************************************************************************)
WorldType ==
  /\ head \in Commits
  /\ gitTag \in [Versions -> 0..MaxCommits]
  /\ image \in [Repos -> [Tags -> 0..MaxCommits]]
LocalType ==
  /\ pc \in [Jobs -> Running \cup {"idle"}] /\ passed \in [Jobs -> BOOLEAN]
  /\ sha \in [Jobs -> 0..MaxCommits] /\ src \in [Jobs -> Tags]
  /\ at \in [Jobs -> Nat \ {0}] /\ ok \in [Jobs -> BOOLEAN]

LEMMA TypeSplit == TypeOK <=> WorldType /\ LocalType
BY DEF TypeOK, WorldType, LocalType

LEMMA TypeSplitPrimed == TypeOK' <=> WorldType' /\ LocalType'
BY DEF TypeOK, WorldType, LocalType

Same(k) ==
  /\ pc'[k] = pc[k] /\ passed'[k] = passed[k] /\ sha'[k] = sha[k]
  /\ src'[k] = src[k] /\ at'[k] = at[k] /\ ok'[k] = ok[k]
OthersSame(j) == \A k \in Jobs \ {j} : Same(k)

LEMMA ReturnEffect ==
  ASSUME LocalType, NEW j \in Jobs, NEW b \in BOOLEAN, Return(j, b)
  PROVE  /\ LocalType' /\ OthersSame(j)
         /\ pc'[j] = "idle" /\ passed'[j] = b /\ sha' = sha
         /\ src'[j] = Job[j].source /\ ok'[j] = TRUE
<1>1. Job[j].source \in Tags BY JobType DEF JobFacts
<1>2. OthersSame(j) BY DEF LocalType, Return, OthersSame, Same
<1>3. LocalType' BY <1>1 DEF LocalType, Return
<1> QED BY <1>2, <1>3 DEF LocalType, Return

LEMMA GotoEffect ==
  ASSUME LocalType, NEW j \in Jobs, NEW l \in Running, Goto(j, l)
  PROVE  /\ pc' \in [Jobs -> Running \cup {"idle"}] /\ passed' = passed
         /\ pc'[j] = l /\ \A k \in Jobs \ {j} : pc'[k] = pc[k]
BY DEF LocalType, Goto

LEMMA NewAttemptEffect ==
  ASSUME LocalType, NEW j \in Jobs, NewAttempt(j)
  PROVE  /\ pc' \in [Jobs -> Running \cup {"idle"}] /\ passed' = passed
         /\ pc'[j] = "inspect" /\ \A k \in Jobs \ {j} : pc'[k] = pc[k]
         /\ at' \in [Jobs -> Nat \ {0}] /\ ok' \in [Jobs -> BOOLEAN]
         /\ at'[j] = 1
         /\ \A k \in Jobs \ {j} : at'[k] = at[k] /\ ok'[k] = ok[k]
<1>1. "inspect" \in Running BY DEF Running
<1> QED BY <1>1, GotoEffect DEF NewAttempt, LocalType

LEMMA NextEntryEffect ==
  ASSUME LocalType, NEW j \in Jobs, NEW b \in BOOLEAN, NextEntry(j, b), UNCHANGED choice
  PROVE  /\ LocalType' /\ OthersSame(j)
         /\ passed' = passed /\ sha' = sha /\ src' = src
         /\ ok'[j] = (ok[j] /\ b)
         /\ \/ at[j] = Len(Entries(j)) /\ pc'[j] = "attempted" /\ at' = at
            \/ at[j] # Len(Entries(j)) /\ pc'[j] = "inspect" /\ at'[j] = at[j] + 1
<1> USE DEF LocalType, choice
<1>1. "inspect" \in Running /\ "attempted" \in Running BY DEF Running
<1>2. ok' \in [Jobs -> BOOLEAN] /\ ok'[j] = (ok[j] /\ b) /\ \A k \in Jobs \ {j} : ok'[k] = ok[k]
  BY DEF NextEntry
<1>3. CASE at[j] = Len(Entries(j))
  <2>1. Goto(j, "attempted") /\ at' = at BY <1>3 DEF NextEntry
  <2> QED BY <1>1, <1>2, <1>3, <2>1, GotoEffect DEF OthersSame, Same
<1>4. CASE at[j] # Len(Entries(j))
  <2>1. Goto(j, "inspect") /\ at' = [at EXCEPT ![j] = @ + 1] BY <1>4 DEF NextEntry
  <2>2. at' \in [Jobs -> Nat \ {0}] /\ at'[j] = at[j] + 1 /\ \A k \in Jobs \ {j} : at'[k] = at[k]
    BY <2>1
  <2> QED BY <1>1, <1>2, <1>4, <2>1, <2>2, GotoEffect DEF OthersSame, Same
<1> QED BY <1>3, <1>4

(***************************************************************************)
(* A version that is complete stays complete while merges are held back.   *)
(***************************************************************************)
LEMMA CompleteStays ==
  ASSUME NEW j \in Jobs, LocalType, gitTag' = gitTag, image' = image, OthersSame(j),
         pc'[j] = "idle" \/ pc[j] # "idle", NEW v \in Versions, Complete(v)
  PROVE  Complete(v)'
<1>1. ASSUME NEW k \in Jobs, Ver(k) = v PROVE pc'[k] = "idle"
  <2>1. pc[k] = "idle" BY <1>1 DEF Complete
  <2> QED BY <2>1 DEF OthersSame, Same
<1> QED BY <1>1 DEF Complete, Tagged, OwnRepos

(***************************************************************************)
(* A step that leaves the world alone preserves IndInv if it does so for   *)
(* the command that takes it.                                              *)
(***************************************************************************)
LEMMA OtherJob ==
  ASSUME NEW k \in Jobs, Same(k), head' = head, gitTag' = gitTag, image' = image,
         Placed(k), HasCopied(k), Truthful(k)
  PROVE  Placed(k)' /\ HasCopied(k)' /\ Truthful(k)'
BY DEF Same, Placed, HasCopied, Truthful, Copied, Repo, Tagged

LEMMA QuietStep ==
  ASSUME NEW j \in Jobs, IndInv, UNCHANGED world, OthersSame(j), LocalType',
         Placed(j)', HasCopied(j)', Truthful(j)',
         Freeze => \A v \in Versions : Complete(v) => Complete(v)'
  PROVE  IndInv'
<1>1. head' = head /\ gitTag' = gitTag /\ image' = image BY DEF world
<1>2. TypeOK' BY <1>1, IndInvSplit, TypeSplit, TypeSplitPrimed DEF WorldType
<1>3. WorldOK' BY <1>1, IndInvSplit DEF WorldOK
<1>4. ASSUME NEW k \in Jobs PROVE Placed(k)' /\ HasCopied(k)' /\ Truthful(k)'
  BY <1>1, OtherJob, IndInvSplit DEF OthersSame
<1>5. ReleaseOK'
  <2>1. SUFFICES ASSUME Freeze
                 PROVE  /\ \A v \in Versions : ~Complete(v)' => gitTag'[v] \in {0, head'}
                        /\ \A c \in Candidates, r \in Repos : ~Complete(c)' => image'[r][c] \in {0, head'}
                        /\ \A r \in Repos : image'[r][Final] # 0 =>
                             \/ \E v \in Versions : Tagged(v)' /\ gitTag'[v] = image'[r][Final]
                             \/ ~Complete(Final)' /\ image'[r][Final] = head'
                        /\ SameCommit'
    BY DEF ReleaseOK
  <2>2. ReleaseOK BY IndInvSplit
  <2>3. \A v \in Versions : Complete(v) => Complete(v)' BY <2>1
  <2>4. SameCommit' BY <1>1, <2>1, <2>2 DEF ReleaseOK, SameCommit, Tagged
  <2>5. ASSUME NEW r \in Repos, image'[r][Final] # 0
        PROVE  \/ \E v \in Versions : Tagged(v)' /\ gitTag'[v] = image'[r][Final]
               \/ ~Complete(Final)' /\ image'[r][Final] = head'
    <3>1. CASE \E v \in Versions : Tagged(v) /\ gitTag[v] = image[r][Final]
      BY <3>1, <1>1 DEF Tagged
    <3>2. CASE ~Complete(Final) /\ image[r][Final] = head
      <4>1. Final \in Versions BY Disjoint
      <4>2. gitTag[Final] \in {0, head} BY <3>2, <4>1, <2>1, <2>2 DEF ReleaseOK
      <4>3. CASE Complete(Final)'
        <5>1. gitTag'[Final] # 0 BY <4>3 DEF Complete, Tagged
        <5> QED BY <5>1, <4>1, <4>2, <1>1, <3>2 DEF Tagged
      <4> QED BY <4>3, <1>1, <3>2
    <3> QED BY <1>1, <2>1, <2>2, <2>5, <3>1, <3>2 DEF ReleaseOK
  <2> QED BY <1>1, <2>1, <2>2, <2>3, <2>4, <2>5, Disjoint DEF ReleaseOK
<1> QED BY <1>2, <1>3, <1>4, <1>5, IndInvSplitPrimed

(***************************************************************************)
(* The steps that change nothing but the command that takes them.          *)
(***************************************************************************)
LEMMA ReturnStep ==
  ASSUME IndInv, NEW j \in Jobs, NEW b \in BOOLEAN, Return(j, b), UNCHANGED world,
         pc[j] # "idle",
         b /\ Job[j].cmd = "repo" => gitTag[Ver(j)] = sha[j],
         b /\ Job[j].cmd = "images" /\ Job[j].wait /\ Ver(j) \in Candidates
           => \A i \in DOMAIN Entries(j) : Copied(j, i)
  PROVE  IndInv'
<1>1. LocalType /\ Placed(j) BY IndInvSplit, TypeSplit
<1>2. /\ LocalType' /\ OthersSame(j)
      /\ pc'[j] = "idle" /\ passed'[j] = b /\ sha' = sha
      /\ src'[j] = Job[j].source /\ ok'[j] = TRUE
  BY <1>1, ReturnEffect
<1>3. head' = head /\ gitTag' = gitTag /\ image' = image BY DEF world
<1>4. Placed(j)' BY <1>1, <1>2, <1>3 DEF Placed
<1>5. HasCopied(j)' BY <1>2, <1>3 DEF HasCopied, Copied
<1>6. Truthful(j)' BY <1>2, <1>3 DEF Truthful
<1>7. \A v \in Versions : Complete(v) => Complete(v)' BY <1>1, <1>2, <1>3, CompleteStays
<1> QED BY <1>2, <1>4, <1>5, <1>6, <1>7, QuietStep

LEMMA FailStep == ASSUME IndInv, NEW j \in Jobs, Fail(j) PROVE IndInv'
BY ReturnStep DEF Fail

LEMMA ReadHeadStep == ASSUME IndInv, NEW j \in Jobs, ReadHead(j) PROVE IndInv'
<1> USE DEF ReadHead, choice, progress
<1>1. LocalType /\ WorldType /\ Placed(j) BY IndInvSplit, TypeSplit
<1>2. head' = head /\ gitTag' = gitTag /\ image' = image BY DEF world
<1>3. head \in 0..MaxCommits /\ head # 0
  BY <1>1, TagAssumption DEF WorldType, Commits
<1>4. LocalType' /\ OthersSame(j)
  BY <1>1, <1>3 DEF LocalType, OthersSame, Same, Running
<1>5. /\ pc'[j] = IF Job[j].cmd = "repo" THEN "readTag" ELSE "readRCs"
      /\ passed'[j] = FALSE /\ sha'[j] = head /\ src'[j] = src[j]
  BY <1>1 DEF LocalType
<1>6. src[j] = Job[j].source BY <1>1 DEF Placed
<1>7. Placed(j)' BY <1>2, <1>3, <1>5, <1>6, JobType, Disjoint DEF Placed, JobFacts
<1>8. HasCopied(j)' /\ Truthful(j)' BY <1>5 DEF HasCopied, Truthful
<1>9. ASSUME Freeze, NEW v \in Versions, Complete(v) PROVE Complete(v)'
  <2>1. Ver(j) # v BY <1>9
  <2>2. ASSUME NEW k \in Jobs, Ver(k) = v PROVE pc'[k] = "idle"
    BY <1>4, <1>9, <2>1, <2>2 DEF Complete, OthersSame, Same
  <2> QED BY <1>2, <1>9, <2>2 DEF Complete, Tagged, OwnRepos
<1> QED BY <1>4, <1>7, <1>8, <1>9, QuietStep

LEMMA ReadTagStep == ASSUME IndInv, NEW j \in Jobs, ReadTag(j) PROVE IndInv'
<1>1. LocalType /\ Placed(j) BY IndInvSplit, TypeSplit
<1>2. Job[j].cmd = "repo" BY <1>1 DEF Placed, ReadTag
<1>3. CASE ExactRef(Ver(j)) = {}
  <2>1. Goto(j, "create") /\ UNCHANGED choice /\ UNCHANGED progress /\ UNCHANGED world
    BY <1>3 DEF ReadTag
  <2>2. "create" \in Running BY DEF Running
  <2>3. /\ pc' \in [Jobs -> Running \cup {"idle"}] /\ passed' = passed
        /\ pc'[j] = "create" /\ \A k \in Jobs \ {j} : pc'[k] = pc[k]
    BY <1>1, <2>1, <2>2, GotoEffect
  <2>4. sha' = sha /\ src' = src /\ at' = at /\ ok' = ok BY <2>1 DEF choice, progress
  <2>5. LocalType' /\ OthersSame(j) BY <1>1, <2>3, <2>4 DEF LocalType, OthersSame, Same
  <2>6. head' = head /\ gitTag' = gitTag /\ image' = image BY <2>1 DEF world
  <2>7. pc[j] = "readTag" BY DEF ReadTag
  <2>8. Placed(j)' BY <1>1, <1>2, <2>3, <2>4, <2>6, <2>7 DEF Placed
  <2>9. HasCopied(j)' /\ Truthful(j)'
    BY <1>1, <1>2, <2>3, <2>4, <2>6, <2>7 DEF HasCopied, Truthful, Placed
  <2>10. \A v \in Versions : Complete(v) => Complete(v)'
    BY <1>1, <2>5, <2>6, <2>7, CompleteStays
  <2> QED BY <2>1, <2>5, <2>8, <2>9, <2>10, QuietStep
<1>4. CASE ExactRef(Ver(j)) # {}
  <2>1. PICK v \in ExactRef(Ver(j)) : Return(j, gitTag[v] = sha[j]) BY <1>4 DEF ReadTag
  <2>2. v = Ver(j) BY DEF ExactRef
  <2> QED BY <1>2, <2>1, <2>2, ReturnStep DEF ReadTag
<1> QED BY <1>3, <1>4

LEMMA ReadRCsStep == ASSUME IndInv, NEW j \in Jobs, ReadRCs(j) PROVE IndInv'
<1>1. LocalType /\ WorldType /\ WorldOK /\ Placed(j) BY IndInvSplit, TypeSplit
<1>2. Job[j].cmd = "images" /\ pc[j] = "readRCs" BY <1>1 DEF Placed, ReadRCs
<1>3. CASE Entries(j) = <<>>
  <2>1. Return(j, TRUE) /\ UNCHANGED world BY <1>3 DEF ReadRCs
  <2>2. \A i \in DOMAIN Entries(j) : Copied(j, i) BY <1>3
  <2> QED BY <1>2, <2>1, <2>2, ReturnStep
<1>4. CASE Entries(j) # <<>>
  <2>1. NewAttempt(j) /\ UNCHANGED world BY <1>4 DEF ReadRCs
  <2>2. /\ pc' \in [Jobs -> Running \cup {"idle"}] /\ passed' = passed
        /\ pc'[j] = "inspect" /\ \A k \in Jobs \ {j} : pc'[k] = pc[k]
        /\ at' \in [Jobs -> Nat \ {0}] /\ ok' \in [Jobs -> BOOLEAN]
        /\ at'[j] = 1
        /\ \A k \in Jobs \ {j} : at'[k] = at[k] /\ ok'[k] = ok[k]
    BY <1>1, <2>1, NewAttemptEffect
  <2>3. /\ src' = [src EXCEPT ![j] = IF PromotesRC(j) THEN MostRecentRC ELSE Job[j].source]
        /\ sha' = [sha EXCEPT ![j] = IF PromotesRC(j) THEN gitTag[MostRecentRC] ELSE sha[j]]
    BY <1>1, <1>4 DEF ReadRCs, LocalType
  <2>4. PromotesRC(j) => /\ Ver(j) = Final /\ MostRecentRC \in Candidates
                         /\ Tagged(MostRecentRC) /\ MostRecentRC \in Versions
                         /\ MostRecentRC \in Tags /\ gitTag[MostRecentRC] \in 0..MaxCommits
                         /\ gitTag[MostRecentRC] <= head
    BY <1>1, MostRecentRCIsTagged, Disjoint DEF PromotesRC, WorldType, WorldOK
  <2>5. JobFacts(j) BY JobType
  <2>6. LocalType' BY <1>1, <2>2, <2>3, <2>4, <2>5 DEF LocalType, JobFacts
  <2>7. OthersSame(j) BY <1>1, <2>2, <2>3 DEF OthersSame, Same, LocalType
  <2>8. head' = head /\ gitTag' = gitTag /\ image' = image BY <2>1 DEF world
  <2>9. 1 \in DOMAIN Entries(j) BY <1>4, <2>5 DEF JobFacts
  <2>10. Placed(j)'
    <3>1. CASE PromotesRC(j)
      <4>1. src'[j] = MostRecentRC /\ sha'[j] = gitTag[MostRecentRC]
        BY <1>1, <2>3, <3>1 DEF LocalType
      <4>2. src'[j] \notin Sources BY <2>4, <3>1, <4>1, Disjoint
      <4>3. sha'[j] \in 0..head BY <1>1, <2>4, <3>1, <4>1 DEF WorldType, Commits
      <4> QED BY <1>1, <1>2, <2>2, <2>4, <2>8, <2>9, <3>1, <4>1, <4>2, <4>3 DEF Placed, Tagged
    <3>2. CASE ~PromotesRC(j)
      <4>1. src'[j] = Job[j].source /\ sha'[j] = sha[j] BY <1>1, <2>3, <3>2 DEF LocalType
      <4>2. src[j] = Job[j].source BY <1>1, <1>2 DEF Placed
      <4> QED BY <1>1, <1>2, <2>2, <2>8, <2>9, <4>1, <4>2 DEF Placed
    <3> QED BY <3>1, <3>2
  <2>11. HasCopied(j)'
    <3>1. 1..(at'[j] - 1) = {} BY <2>2
    <3>2. passed'[j] = FALSE BY <1>1, <1>2, <2>2 DEF Placed, LocalType
    <3> QED BY <2>2, <3>1, <3>2 DEF HasCopied
  <2>12. Truthful(j)' BY <1>2 DEF Truthful
  <2>13. \A v \in Versions : Complete(v) => Complete(v)'
    BY <1>1, <1>2, <2>7, <2>8, CompleteStays
  <2> QED BY <2>1, <2>6, <2>7, <2>10, <2>11, <2>12, <2>13, QuietStep
<1> QED BY <1>3, <1>4

LEMMA InspectStep == ASSUME IndInv, NEW j \in Jobs, Inspect(j) PROVE IndInv'
<1>1. LocalType /\ WorldType /\ Placed(j) /\ HasCopied(j) /\ Truthful(j)
  BY IndInvSplit, TypeSplit
<1>2. pc[j] = "inspect" /\ image[Repo(j)][src[j]] = sha[j] /\ Goto(j, "mirror")
      /\ UNCHANGED world /\ UNCHANGED choice /\ UNCHANGED progress
  BY DEF Inspect
<1>3. "mirror" \in Running BY DEF Running
<1>4. /\ pc' \in [Jobs -> Running \cup {"idle"}] /\ passed' = passed
      /\ pc'[j] = "mirror" /\ \A k \in Jobs \ {j} : pc'[k] = pc[k]
  BY <1>1, <1>2, <1>3, GotoEffect
<1>5. sha' = sha /\ src' = src /\ at' = at /\ ok' = ok BY <1>2 DEF choice, progress
<1>6. head' = head /\ gitTag' = gitTag /\ image' = image BY <1>2 DEF world
<1>7. LocalType' /\ OthersSame(j) BY <1>1, <1>4, <1>5 DEF LocalType, OthersSame, Same
<1>8. Placed(j)'
  <2>1. image[Repo(j)][src[j]] >= sha[j] BY <1>1, <1>2 DEF LocalType
  <2>2. sha[j] # 0 BY <1>1, <1>2 DEF Placed
  <2> QED BY <1>1, <1>2, <1>4, <1>5, <1>6, <2>1, <2>2 DEF Placed, Repo, Tagged
<1>9. HasCopied(j)' BY <1>1, <1>2, <1>4, <1>5, <1>6 DEF HasCopied, Copied
<1>10. Truthful(j)' BY <1>1, <1>4, <1>5, <1>6 DEF Truthful
<1>11. \A v \in Versions : Complete(v) => Complete(v)'
  BY <1>1, <1>2, <1>6, <1>7, CompleteStays
<1> QED BY <1>2, <1>7, <1>8, <1>9, <1>10, <1>11, QuietStep

LEMMA NextEntryStep ==
  ASSUME IndInv, NEW j \in Jobs, NextEntry(j, FALSE), UNCHANGED world, UNCHANGED choice,
         pc[j] \in {"inspect", "mirror"}
  PROVE  IndInv'
<1>1. LocalType /\ Placed(j) /\ HasCopied(j) BY IndInvSplit, TypeSplit
<1>2. /\ LocalType' /\ OthersSame(j)
      /\ passed' = passed /\ sha' = sha /\ src' = src
      /\ ok'[j] = (ok[j] /\ FALSE)
      /\ \/ at[j] = Len(Entries(j)) /\ pc'[j] = "attempted" /\ at' = at
         \/ at[j] # Len(Entries(j)) /\ pc'[j] = "inspect" /\ at'[j] = at[j] + 1
  BY <1>1, NextEntryEffect
<1>3. head' = head /\ gitTag' = gitTag /\ image' = image BY DEF world
<1>4. Entries(j) \in Seq(Entry) BY JobType DEF JobFacts
<1>5. at[j] \in DOMAIN Entries(j) BY <1>1 DEF Placed
<1>6. at'[j] \in DOMAIN Entries(j)
  BY <1>2, <1>4, <1>5
<1>7. Placed(j)' BY <1>1, <1>2, <1>3, <1>6 DEF Placed, Tagged
<1>8. HasCopied(j)' BY <1>1, <1>2 DEF HasCopied, Placed
<1>9. Truthful(j)' BY <1>1, <1>2, <1>3 DEF Truthful, Placed
<1>10. \A v \in Versions : Complete(v) => Complete(v)'
  BY <1>1, <1>2, <1>3, CompleteStays
<1> QED BY <1>2, <1>7, <1>8, <1>9, <1>10, QuietStep

LEMMA EntryFailsStep == ASSUME IndInv, NEW j \in Jobs, EntryFails(j) PROVE IndInv'
BY NextEntryStep DEF EntryFails

LEMMA AttemptFailsStep == ASSUME IndInv, NEW j \in Jobs, AttemptFails(j) PROVE IndInv'
<1>1. LocalType /\ Placed(j) /\ HasCopied(j) BY IndInvSplit, TypeSplit
<1>2. pc[j] = "inspect" /\ Goto(j, "attempted") /\ ok' = [ok EXCEPT ![j] = FALSE]
      /\ UNCHANGED world /\ UNCHANGED choice /\ at' = at
  BY DEF AttemptFails
<1>3. "attempted" \in Running BY DEF Running
<1>4. /\ pc' \in [Jobs -> Running \cup {"idle"}] /\ passed' = passed
      /\ pc'[j] = "attempted" /\ \A k \in Jobs \ {j} : pc'[k] = pc[k]
  BY <1>1, <1>2, <1>3, GotoEffect
<1>5. sha' = sha /\ src' = src BY <1>2 DEF choice
<1>6. head' = head /\ gitTag' = gitTag /\ image' = image BY <1>2 DEF world
<1>7. LocalType' /\ OthersSame(j) BY <1>1, <1>2, <1>4, <1>5 DEF LocalType, OthersSame, Same
<1>8. ok'[j] = FALSE BY <1>1, <1>2 DEF LocalType
<1>9. Placed(j)' BY <1>1, <1>2, <1>4, <1>5, <1>6 DEF Placed, Tagged
<1>10. HasCopied(j)' /\ Truthful(j)'
  BY <1>1, <1>2, <1>4, <1>5, <1>8 DEF HasCopied, Truthful, Placed
<1>11. \A v \in Versions : Complete(v) => Complete(v)'
  BY <1>1, <1>2, <1>6, <1>7, CompleteStays
<1> QED BY <1>2, <1>7, <1>9, <1>10, <1>11, QuietStep

LEMMA EndAttemptStep == ASSUME IndInv, NEW j \in Jobs, EndAttempt(j) PROVE IndInv'
<1>1. Placed(j) /\ HasCopied(j) BY IndInvSplit
<1>2. pc[j] = "attempted" /\ (ok[j] \/ ~Job[j].wait) /\ Return(j, TRUE) /\ UNCHANGED world
  BY DEF EndAttempt
<1>3. Job[j].cmd = "images" BY <1>1, <1>2 DEF Placed
<1>4. Job[j].wait /\ Ver(j) \in Candidates => \A i \in DOMAIN Entries(j) : Copied(j, i)
  BY <1>1, <1>2 DEF HasCopied
<1> QED BY <1>2, <1>3, <1>4, ReturnStep

LEMMA TimeOutStep == ASSUME IndInv, NEW j \in Jobs, TimeOut(j) PROVE IndInv'
BY ReturnStep DEF TimeOut

LEMMA AgainStep == ASSUME IndInv, NEW j \in Jobs, Again(j) PROVE IndInv'
<1>1. LocalType /\ Placed(j) /\ HasCopied(j) BY IndInvSplit, TypeSplit
<1>2. pc[j] = "attempted" /\ ~ok[j] /\ NewAttempt(j) /\ UNCHANGED world /\ UNCHANGED choice
  BY DEF Again
<1>3. /\ pc' \in [Jobs -> Running \cup {"idle"}] /\ passed' = passed
      /\ pc'[j] = "inspect" /\ \A k \in Jobs \ {j} : pc'[k] = pc[k]
      /\ at' \in [Jobs -> Nat \ {0}] /\ ok' \in [Jobs -> BOOLEAN]
      /\ at'[j] = 1
      /\ \A k \in Jobs \ {j} : at'[k] = at[k] /\ ok'[k] = ok[k]
  BY <1>1, <1>2, NewAttemptEffect
<1>4. sha' = sha /\ src' = src BY <1>2 DEF choice
<1>5. head' = head /\ gitTag' = gitTag /\ image' = image BY <1>2 DEF world
<1>6. LocalType' /\ OthersSame(j) BY <1>1, <1>3, <1>4 DEF LocalType, OthersSame, Same
<1>7. 1 \in DOMAIN Entries(j)
  <2>1. Entries(j) \in Seq(Entry) BY JobType DEF JobFacts
  <2> QED BY <1>1, <1>2, <2>1 DEF Placed
<1>8. Placed(j)' BY <1>1, <1>2, <1>3, <1>4, <1>5, <1>7 DEF Placed, Tagged
<1>9. HasCopied(j)' /\ Truthful(j)'
  <2>1. 1..(at'[j] - 1) = {} BY <1>3
  <2>2. passed'[j] = FALSE BY <1>1, <1>2, <1>3 DEF Placed, LocalType
  <2> QED BY <1>3, <2>1, <2>2 DEF HasCopied, Truthful
<1>10. \A v \in Versions : Complete(v) => Complete(v)'
  BY <1>1, <1>2, <1>5, <1>6, CompleteStays
<1> QED BY <1>2, <1>6, <1>8, <1>9, <1>10, QuietStep

(***************************************************************************)
(* The steps that change the world.                                        *)
(***************************************************************************)
LEMMA CommitStep == ASSUME IndInv, Commit PROVE IndInv'
<1>1. WorldType /\ LocalType /\ WorldOK /\ ReleaseOK BY IndInvSplit, TypeSplit
<1>2. /\ head' = head + 1 /\ gitTag' = gitTag /\ image' = image /\ pc' = pc /\ passed' = passed
      /\ sha' = sha /\ src' = src /\ at' = at /\ ok' = ok
  BY DEF Commit, choice, progress
<1>3. head' \in Commits BY <1>1, TagAssumption DEF Commit, WorldType, Commits
<1>4. WorldType' /\ LocalType' BY <1>1, <1>2, <1>3 DEF WorldType, LocalType
<1>5. TypeOK' BY <1>4, TypeSplitPrimed
<1>6. head \in Nat /\ \A n \in Nat : n <= head => n <= head'
  BY <1>1, <1>2 DEF WorldType, Commits
<1>7. WorldOK' BY <1>1, <1>2, <1>6 DEF WorldOK, WorldType
<1>8. ASSUME NEW v \in Versions PROVE Complete(v)' <=> Complete(v)
  BY <1>2 DEF Complete, Tagged, OwnRepos
<1>9. Freeze => \A v \in Versions : ~Complete(v) => ~Begun(v) BY DEF Commit
<1>10. ASSUME NEW j \in Jobs PROVE Placed(j)' /\ HasCopied(j)' /\ Truthful(j)'
  <2>1. Placed(j) /\ HasCopied(j) /\ Truthful(j) BY IndInvSplit
  <2>2. sha'[j] \in 0..head' BY <1>2, <1>6, <2>1 DEF Placed
  <2>3. Freeze => pc[j] = "idle"
    <3>1. SUFFICES ASSUME Freeze, pc[j] # "idle" PROVE FALSE OBVIOUS
    <3>2. Ver(j) \in Versions BY JobType DEF JobFacts
    <3>3. Begun(Ver(j)) /\ ~Complete(Ver(j)) BY <3>1 DEF Begun, Complete
    <3> QED BY <1>9, <3>1, <3>2, <3>3
  <2>4. Placed(j)' BY <1>2, <2>1, <2>2, <2>3 DEF Placed, Repo, Tagged
  <2>5. HasCopied(j)' /\ Truthful(j)' BY <1>2, <2>1 DEF HasCopied, Truthful, Copied
  <2> QED BY <2>4, <2>5
<1>11. ReleaseOK'
  <2>1. SUFFICES ASSUME Freeze
                 PROVE  /\ \A v \in Versions : ~Complete(v)' => gitTag'[v] \in {0, head'}
                        /\ \A c \in Candidates, r \in Repos : ~Complete(c)' => image'[r][c] \in {0, head'}
                        /\ \A r \in Repos : image'[r][Final] # 0 =>
                             \/ \E v \in Versions : Tagged(v)' /\ gitTag'[v] = image'[r][Final]
                             \/ ~Complete(Final)' /\ image'[r][Final] = head'
                        /\ SameCommit'
    BY DEF ReleaseOK
  <2>2. ASSUME NEW v \in Versions, ~Complete(v)
        PROVE  gitTag[v] = 0 /\ \A r \in Repos : image[r][v] = 0
    BY <1>9, <2>1, <2>2 DEF Begun, Tagged
  <2>3. SameCommit' BY <1>1, <1>2, <2>1 DEF ReleaseOK, SameCommit, Tagged
  <2>4. ASSUME NEW r \in Repos, image'[r][Final] # 0
        PROVE  \E v \in Versions : Tagged(v)' /\ gitTag'[v] = image'[r][Final]
    <3>1. Complete(Final) BY <1>2, <2>2, <2>4, Disjoint
    <3> QED BY <1>1, <1>2, <2>1, <2>4, <3>1 DEF ReleaseOK, Tagged
  <2> QED BY <1>2, <1>8, <2>2, <2>3, <2>4, Disjoint
<1> QED BY <1>5, <1>7, <1>10, <1>11, IndInvSplitPrimed

LEMMA BuildStep ==
  ASSUME IndInv, NEW r \in Repos, NEW s \in Sources, Build(r, s) PROVE IndInv'
<1>1. WorldType /\ LocalType /\ WorldOK /\ ReleaseOK BY IndInvSplit, TypeSplit
<1>2. PICK n \in (image[r][s] + 1)..head : image' = [image EXCEPT ![r][s] = n] BY DEF Build
<1>3. /\ head' = head /\ gitTag' = gitTag /\ pc' = pc /\ passed' = passed
      /\ sha' = sha /\ src' = src /\ at' = at /\ ok' = ok
  BY DEF Build, choice, progress
<1>4. s \in Tags /\ s \notin Versions BY Disjoint
<1>5. n \in 0..MaxCommits /\ n <= head /\ n # 0 /\ image[r][s] <= n
  BY <1>1, <1>2, <1>4, TagAssumption DEF WorldType, Commits
<1>6. /\ image' \in [Repos -> [Tags -> 0..MaxCommits]] /\ image'[r][s] = n
      /\ \A q \in Repos, t \in Tags : q # r \/ t # s => image'[q][t] = image[q][t]
  BY <1>1, <1>2, <1>4, <1>5 DEF WorldType
<1>7. \A q \in Repos, v \in Versions : image'[q][v] = image[q][v] BY <1>4, <1>6, Disjoint
<1>8. \A q \in Repos, t \in Tags : image[q][t] <= image'[q][t] /\ image'[q][t] <= head
  <2>1. SUFFICES ASSUME NEW q \in Repos, NEW t \in Tags
                 PROVE  image[q][t] <= image'[q][t] /\ image'[q][t] <= head
    OBVIOUS
  <2>2. CASE q = r /\ t = s BY <1>5, <1>6, <2>2
  <2>3. CASE q # r \/ t # s
    <3>1. image'[q][t] = image[q][t] BY <1>6, <2>3
    <3>2. image[q][t] <= head /\ image[q][t] \in Nat BY <1>1 DEF WorldOK, WorldType
    <3> QED BY <3>1, <3>2
  <2> QED BY <2>2, <2>3
<1>9. WorldType' /\ LocalType' BY <1>1, <1>3, <1>6 DEF WorldType, LocalType
<1>10. TypeOK' BY <1>9, TypeSplitPrimed
<1>11. WorldOK'
  <2>1. ASSUME NEW j \in Jobs, NEW q \in Repos, TagsOwn(j, q), Ver(j) \in Candidates
        PROVE  image'[q][Ver(j)] <= image'[q][Job[j].source]
    <3>1. image[q][Ver(j)] <= image[q][Job[j].source] BY <1>1, <2>1 DEF WorldOK
    <3>2. image'[q][Ver(j)] = image[q][Ver(j)] /\ Ver(j) \in Tags BY <1>7, <2>1, Disjoint
    <3>3. Job[j].source \in Tags BY JobType DEF JobFacts
    <3>4. image[q][Job[j].source] <= image'[q][Job[j].source] BY <1>8, <3>3
    <3>5. image[q][Ver(j)] \in Nat /\ image[q][Job[j].source] \in Nat
          /\ image'[q][Job[j].source] \in Nat
      BY <1>1, <1>6, <3>2, <3>3 DEF WorldType
    <3> QED BY <3>1, <3>2, <3>4, <3>5
  <2> QED BY <1>1, <1>3, <1>8, <2>1 DEF WorldOK
<1>12. \A v \in Versions : Complete(v)' <=> Complete(v)
  BY <1>3, <1>7 DEF Complete, Tagged, OwnRepos
<1>13. ASSUME NEW j \in Jobs PROVE Placed(j)' /\ HasCopied(j)' /\ Truthful(j)'
  <2>1. Placed(j) /\ HasCopied(j) /\ Truthful(j) BY IndInvSplit
  <2>2. JobFacts(j) BY JobType
  <2>3. ASSUME pc[j] = "mirror"
        PROVE  /\ image'[Repo(j)][src[j]] # 0
               /\ src[j] \in Sources => image'[Repo(j)][src[j]] >= sha[j]
    <3>1. at[j] \in DOMAIN Entries(j) BY <2>1, <2>3 DEF Placed
    <3>2. Entries(j)[at[j]] \in Entry BY <2>2, <3>1 DEF JobFacts
    <3>3. Repo(j) \in Repos BY <3>2 DEF Repo, Entry
    <3>4. src[j] \in Tags BY <1>1 DEF LocalType
    <3>5. image[Repo(j)][src[j]] <= image'[Repo(j)][src[j]] BY <1>8, <3>3, <3>4
    <3>6. image[Repo(j)][src[j]] \in Nat /\ image'[Repo(j)][src[j]] \in Nat /\ sha[j] \in Nat
      BY <1>1, <1>6, <3>3, <3>4 DEF WorldType, LocalType
    <3> QED BY <2>1, <2>3, <3>5, <3>6 DEF Placed
  <2>4. Placed(j)' BY <1>3, <2>1, <2>3 DEF Placed, Repo, Tagged
  <2>5. ASSUME NEW i \in DOMAIN Entries(j), Copied(j, i) PROVE Copied(j, i)'
    <3>1. Entries(j)[i] \in Entry BY <2>2 DEF JobFacts
    <3>2. Entries(j)[i].repo \in Repos BY <3>1 DEF Entry
    <3> QED BY <1>3, <1>7, <2>2, <2>5, <3>2 DEF Copied, JobFacts
  <2>6. HasCopied(j)'
    <3>1. pc[j] \in {"inspect", "mirror"} => \A i \in 1..(at[j] - 1) : i \in DOMAIN Entries(j)
      BY <2>1, <2>2 DEF Placed, JobFacts
    <3> QED BY <1>3, <2>1, <2>5, <3>1 DEF HasCopied
  <2>7. Truthful(j)' BY <1>3, <2>1 DEF Truthful
  <2> QED BY <2>4, <2>6, <2>7
<1>14. ReleaseOK'
  <2>1. SameCommit => SameCommit' BY <1>3, <1>7, Disjoint DEF SameCommit, Tagged
  <2> QED BY <1>1, <1>3, <1>7, <1>12, <2>1, Disjoint DEF ReleaseOK, Tagged
<1> QED BY <1>10, <1>11, <1>13, <1>14, IndInvSplitPrimed

LEMMA CreateRefStep == ASSUME IndInv, NEW j \in Jobs, CreateRef(j) PROVE IndInv'
<1>1. WorldType /\ LocalType /\ WorldOK /\ ReleaseOK /\ Placed(j) BY IndInvSplit, TypeSplit
<1>2. pc[j] = "create" /\ Job[j].cmd = "repo" /\ sha[j] # 0 /\ src[j] = Job[j].source
  BY <1>1 DEF CreateRef, Placed
<1>3. JobFacts(j) /\ Ver(j) \in Versions BY JobType DEF JobFacts
<1>4. CASE Tagged(Ver(j))
  <2>1. Return(j, FALSE) /\ UNCHANGED world BY <1>4 DEF CreateRef, world
  <2> QED BY <1>2, <2>1, ReturnStep
<1>5. CASE ~Tagged(Ver(j))
  <2>1. /\ gitTag' = [gitTag EXCEPT ![Ver(j)] = sha[j]] /\ head' = head /\ image' = image
        /\ \E b \in BOOLEAN : Return(j, b)
    BY <1>5 DEF CreateRef
  <2>2. PICK b \in BOOLEAN : Return(j, b) BY <2>1
  <2>3. /\ LocalType' /\ OthersSame(j)
        /\ pc'[j] = "idle" /\ passed'[j] = b /\ sha' = sha
        /\ src'[j] = Job[j].source /\ ok'[j] = TRUE
    BY <1>1, <2>2, ReturnEffect
  <2>4. sha[j] \in 0..MaxCommits /\ sha[j] <= head BY <1>1 DEF LocalType, Placed
  <2>5. /\ gitTag' \in [Versions -> 0..MaxCommits] /\ gitTag'[Ver(j)] = sha[j]
        /\ \A v \in Versions : v # Ver(j) => gitTag'[v] = gitTag[v]
    BY <1>1, <1>3, <2>1, <2>4 DEF WorldType
  <2>6. gitTag[Ver(j)] = 0 BY <1>5 DEF Tagged
  <2>7. WorldType' BY <1>1, <2>1, <2>5 DEF WorldType
  <2>8. TypeOK' BY <2>3, <2>7, TypeSplitPrimed
  <2>9. WorldOK'
    <3>1. \A v \in Versions : gitTag'[v] <= head BY <1>1, <2>4, <2>5 DEF WorldOK
    <3> QED BY <1>1, <2>1, <3>1 DEF WorldOK
  <2>10. ASSUME NEW k \in Jobs, k # j PROVE Placed(k)' /\ HasCopied(k)' /\ Truthful(k)'
    <3>1. Same(k) BY <2>3, <2>10 DEF OthersSame
    <3>2. Placed(k) /\ HasCopied(k) /\ Truthful(k) /\ Ver(k) \in Versions
      BY IndInvSplit, JobType DEF JobFacts
    <3>3. src[k] # Job[k].source => Tagged(src[k])' /\ gitTag'[src[k]] = gitTag[src[k]]
      <4>1. SUFFICES ASSUME src[k] # Job[k].source
                     PROVE  Tagged(src[k])' /\ gitTag'[src[k]] = gitTag[src[k]]
        OBVIOUS
      <4>2. src[k] \in Versions /\ gitTag[src[k]] # 0
        BY <3>2, <4>1, Disjoint DEF Placed, Tagged
      <4>3. gitTag'[src[k]] = gitTag[src[k]] BY <2>5, <2>6, <4>2
      <4>4. src'[k] = src[k] BY <3>1 DEF Same
      <4> QED BY <4>2, <4>3, <4>4 DEF Tagged
    <3>4. Placed(k)' BY <2>1, <3>1, <3>2, <3>3 DEF Placed, Same, Repo, Tagged
    <3>5. HasCopied(k)' BY <2>1, <3>1, <3>2 DEF HasCopied, Same, Copied
    <3>6. Truthful(k)' BY <2>5, <2>6, <3>1, <3>2 DEF Truthful, Same, Placed
    <3> QED BY <3>4, <3>5, <3>6
  <2>11. Placed(j)' /\ HasCopied(j)' /\ Truthful(j)'
    <3>1. Placed(j)' BY <1>1, <1>2, <2>1, <2>3 DEF Placed
    <3>2. HasCopied(j)' BY <1>2, <2>3 DEF HasCopied
    <3>3. Truthful(j)' BY <2>3, <2>5 DEF Truthful
    <3> QED BY <3>1, <3>2, <3>3
  <2>12. ASSUME NEW v \in Versions, v # Ver(j) PROVE Complete(v)' <=> Complete(v)
    <3>1. \A k \in Jobs : Ver(k) = v => pc'[k] = pc[k] BY <2>3, <2>12 DEF OthersSame, Same
    <3> QED BY <2>1, <2>5, <2>12, <3>1 DEF Complete, Tagged, OwnRepos
  <2>13. ~Complete(Ver(j)) BY <1>5 DEF Complete
  <2>14. ReleaseOK'
    <3>1. SUFFICES ASSUME Freeze
                   PROVE  /\ \A v \in Versions : ~Complete(v)' => gitTag'[v] \in {0, head'}
                          /\ \A c \in Candidates, r \in Repos : ~Complete(c)' => image'[r][c] \in {0, head'}
                          /\ \A r \in Repos : image'[r][Final] # 0 =>
                               \/ \E v \in Versions : Tagged(v)' /\ gitTag'[v] = image'[r][Final]
                               \/ ~Complete(Final)' /\ image'[r][Final] = head'
                          /\ SameCommit'
      BY DEF ReleaseOK
    <3>2. gitTag'[Ver(j)] = head /\ Tagged(Ver(j))'
      BY <1>1, <1>2, <1>3, <2>5, <3>1 DEF Placed, JobFacts, Tagged
    <3>3. \A c \in Candidates, r \in Repos : ~Complete(c) => image[r][c] \in {0, head}
      BY <1>1, <3>1 DEF ReleaseOK
    <3>4. \A v \in Versions : ~Complete(v)' => gitTag'[v] \in {0, head}
      BY <1>1, <2>5, <2>12, <3>1, <3>2 DEF ReleaseOK
    <3>5. \A c \in Candidates, r \in Repos : ~Complete(c)' => image[r][c] \in {0, head}
      BY <2>12, <2>13, <3>3, Disjoint
    <3>6. SameCommit'
      <4>1. ASSUME NEW c \in Candidates, NEW r \in Repos, Tagged(c)', image'[r][c] # 0
            PROVE  image'[r][c] = gitTag'[c]
        <5>1. CASE c = Ver(j) BY <2>1, <2>13, <3>2, <3>3, <4>1, <5>1
        <5>2. CASE c # Ver(j)
          BY <1>1, <2>1, <2>5, <3>1, <4>1, <5>2, Disjoint DEF ReleaseOK, SameCommit, Tagged
        <5> QED BY <5>1, <5>2
      <4> QED BY <4>1 DEF SameCommit
    <3>7. ASSUME NEW r \in Repos, image[r][Final] # 0
          PROVE  \/ \E v \in Versions : Tagged(v)' /\ gitTag'[v] = image[r][Final]
                 \/ ~Complete(Final)' /\ image[r][Final] = head
      <4>1. CASE \E v \in Versions : Tagged(v) /\ gitTag[v] = image[r][Final]
        BY <2>5, <2>6, <4>1 DEF Tagged
      <4>2. CASE ~Complete(Final) /\ image[r][Final] = head
        BY <1>3, <2>12, <3>2, <4>2, Disjoint
      <4> QED BY <1>1, <3>1, <3>7, <4>1, <4>2 DEF ReleaseOK
    <3> QED BY <2>1, <3>4, <3>5, <3>6, <3>7
  <2> QED BY <2>8, <2>9, <2>10, <2>11, <2>14, IndInvSplitPrimed
<1> QED BY <1>4, <1>5

LEMMA MirrorStep == ASSUME IndInv, NEW j \in Jobs, Mirror(j) PROVE IndInv'
<1> DEFINE r == Repo(j)
           d == Dst(j)
           x == image[Repo(j)][src[j]]
<1>1. WorldType /\ LocalType /\ WorldOK /\ ReleaseOK /\ Placed(j) /\ HasCopied(j)
  BY IndInvSplit, TypeSplit
<1>2. JobFacts(j) BY JobType
<1>3. /\ pc[j] = "mirror" /\ NextEntry(j, TRUE) /\ UNCHANGED choice
      /\ image' = [image EXCEPT ![r][d] = x] /\ head' = head /\ gitTag' = gitTag
  BY DEF Mirror
<1>4. at[j] \in DOMAIN Entries(j) /\ Entries(j)[at[j]] \in Entry /\ Job[j].cmd = "images"
  BY <1>1, <1>2, <1>3 DEF Placed, JobFacts
<1>5. /\ r \in Repos /\ d \in Tags /\ d \notin Sources
      /\ d \in Versions => d = Ver(j) /\ Entries(j)[at[j]] = [repo |-> r, tag |-> Own]
      /\ Entries(j)[at[j]].tag = Own => d = Ver(j)
  <2>1. r \in Repos BY <1>4 DEF Repo, Entry
  <2>2. CASE Entries(j)[at[j]].tag = Own
    <3>1. d = Ver(j) BY <2>2 DEF Dst
    <3>2. Entries(j)[at[j]] = [repo |-> r, tag |-> Own] BY <1>4, <2>2 DEF Repo, Entry
    <3> QED BY <1>2, <2>1, <3>1, <3>2, Disjoint DEF JobFacts
  <2>3. CASE Entries(j)[at[j]].tag # Own
    <3>1. d = Entries(j)[at[j]].tag BY <2>3 DEF Dst
    <3>2. d \in Fixed BY <1>4, <2>3, <3>1 DEF Entry
    <3>3. d \in Tags /\ d \notin Versions /\ d \notin Sources
      BY <3>2, TagAssumption DEF Tags
    <3> QED BY <2>1, <2>3, <3>3
  <2> QED BY <2>2, <2>3
<1>6. src[j] \in Tags /\ x \in 0..MaxCommits /\ x <= head /\ x # 0
  BY <1>1, <1>3, <1>5 DEF LocalType, WorldType, WorldOK, Placed
<1> HIDE DEF r, d, x
<1>7. /\ image' \in [Repos -> [Tags -> 0..MaxCommits]] /\ image'[r][d] = x
      /\ \A q \in Repos, t \in Tags : q # r \/ t # d => image'[q][t] = image[q][t]
  BY <1>1, <1>3, <1>5, <1>6 DEF WorldType
<1>8. /\ LocalType' /\ OthersSame(j)
      /\ passed' = passed /\ sha' = sha /\ src' = src
      /\ ok'[j] = ok[j]
      /\ \/ at[j] = Len(Entries(j)) /\ pc'[j] = "attempted" /\ at' = at
         \/ at[j] # Len(Entries(j)) /\ pc'[j] = "inspect" /\ at'[j] = at[j] + 1
  <2>1. ok[j] \in BOOLEAN BY <1>1 DEF LocalType
  <2>2. ok'[j] = (ok[j] /\ TRUE) BY <1>1, <1>3, NextEntryEffect
  <2>3. ok'[j] = ok[j] BY <2>1, <2>2
  <2> QED BY <1>1, <1>3, <2>3, NextEntryEffect
<1>9. WorldType' /\ TypeOK'
  <2>1. WorldType' BY <1>1, <1>3, <1>7 DEF WorldType
  <2> QED BY <1>8, <2>1, TypeSplitPrimed
<1>10. \A q \in Repos, s \in Sources : image'[q][s] = image[q][s]
  BY <1>5, <1>7, Disjoint
\* A candidate's image comes from the CI tag of its version, and only grows.
<1>11. Ver(j) \in Candidates => src[j] = Job[j].source /\ src[j] \in Sources /\ x >= sha[j]
  <2>1. SUFFICES ASSUME Ver(j) \in Candidates
                 PROVE  src[j] = Job[j].source /\ src[j] \in Sources /\ x >= sha[j]
    OBVIOUS
  <2>2. src[j] = Job[j].source BY <1>1, <2>1, Disjoint DEF Placed
  <2> QED BY <1>1, <1>2, <1>3, <2>2 DEF Placed, JobFacts, x
<1>12. ASSUME NEW q \in Repos, NEW c \in Candidates
       PROVE  image[q][c] <= image'[q][c]
  <2>1. c \in Tags /\ c \in Versions BY Disjoint
  <2>2. image[q][c] \in Nat BY <1>1, <2>1 DEF WorldType
  <2>3. CASE q = r /\ c = d
    <3>1. c = Ver(j) /\ TagsOwn(j, r) BY <1>4, <1>5, <2>1, <2>3 DEF TagsOwn
    <3>2. image[r][c] <= image[r][Job[j].source] BY <1>1, <1>5, <3>1 DEF WorldOK
    <3>3. x = image[r][Job[j].source] BY <1>11, <3>1 DEF x, r
    <3> QED BY <1>7, <2>3, <3>2, <3>3
  <2>4. CASE q # r \/ c # d BY <1>7, <2>1, <2>2, <2>4
  <2> QED BY <2>3, <2>4
<1>13. WorldOK'
  <2>1. ASSUME NEW q \in Repos, NEW t \in Tags PROVE image'[q][t] <= head
    BY <1>1, <1>6, <1>7 DEF WorldOK
  <2>2. ASSUME NEW k \in Jobs, NEW q \in Repos, TagsOwn(k, q), Ver(k) \in Candidates
        PROVE  image'[q][Ver(k)] <= image'[q][Job[k].source]
    <3>1. Job[k].source \in Sources BY JobType DEF JobFacts
    <3>2. image'[q][Job[k].source] = image[q][Job[k].source] BY <1>10, <3>1
    <3>3. Ver(k) \in Tags /\ Ver(k) \in Versions BY <2>2, Disjoint
    <3>4. image[q][Ver(k)] <= image[q][Job[k].source] BY <1>1, <2>2 DEF WorldOK
    <3>5. CASE q = r /\ Ver(k) = d
      <4>1. Ver(k) = Ver(j) /\ TagsOwn(j, r) BY <1>4, <1>5, <3>3, <3>5 DEF TagsOwn
      <4>2. Job[k].source = Job[j].source BY <1>5, <2>2, <3>5, <4>1, TagAssumption
      <4>3. x = image[r][Job[j].source] BY <1>11, <2>2, <4>1 DEF x, r
      <4>4. image'[q][Ver(k)] = image'[q][Job[k].source]
        BY <1>7, <3>2, <3>5, <4>2, <4>3
      <4>5. image'[q][Ver(k)] \in Nat BY <1>7, <3>3
      <4> QED BY <4>4, <4>5
    <3>6. CASE q # r \/ Ver(k) # d BY <1>7, <3>2, <3>3, <3>4, <3>6
    <3> QED BY <3>5, <3>6
  <2> QED BY <1>1, <1>3, <2>1, <2>2 DEF WorldOK
<1>14. ASSUME NEW k \in Jobs, NEW i \in DOMAIN Entries(k), Ver(k) \in Candidates,
              Copied(k, i), sha'[k] = sha[k]
       PROVE  Copied(k, i)'
  <2>1. Entries(k)[i] \in Entry BY JobType DEF JobFacts
  <2>2. Entries(k)[i].repo \in Repos /\ Ver(k) \in Tags BY <2>1, <1>14, Disjoint DEF Entry
  <2>3. image[Entries(k)[i].repo][Ver(k)] <= image'[Entries(k)[i].repo][Ver(k)]
    BY <1>12, <1>14, <2>2
  <2>4. /\ image[Entries(k)[i].repo][Ver(k)] \in Nat /\ image'[Entries(k)[i].repo][Ver(k)] \in Nat
        /\ sha[k] \in Nat
    BY <1>1, <1>7, <2>2 DEF WorldType, LocalType
  <2> QED BY <1>14, <2>3, <2>4 DEF Copied
<1>15. ASSUME NEW k \in Jobs, k # j PROVE Placed(k)' /\ HasCopied(k)' /\ Truthful(k)'
  <2>1. Same(k) BY <1>8, <1>15 DEF OthersSame
  <2>2. Placed(k) /\ HasCopied(k) /\ Truthful(k) /\ JobFacts(k) BY IndInvSplit, JobType
  <2>3. ASSUME pc[k] = "mirror"
        PROVE  /\ image'[Repo(k)][src[k]] # 0
               /\ src[k] \in Sources => image'[Repo(k)][src[k]] >= sha[k]
    <3>1. Entries(k)[at[k]] \in Entry BY <2>2, <2>3 DEF Placed, JobFacts
    <3>2. Repo(k) \in Repos /\ src[k] \in Tags BY <1>1, <3>1 DEF Repo, Entry, LocalType
    <3>3. CASE src[k] \in Sources BY <1>10, <2>2, <2>3, <3>2, <3>3 DEF Placed
    <3>4. CASE src[k] \notin Sources
      BY <1>6, <1>7, <2>2, <2>3, <3>2, <3>4 DEF Placed
    <3> QED BY <3>3, <3>4
  <2>4. Placed(k)' BY <1>3, <2>1, <2>2, <2>3 DEF Placed, Same, Repo, Tagged
  <2>5. HasCopied(k)'
    <3>1. pc[k] \in {"inspect", "mirror"} => \A i \in 1..(at[k] - 1) : i \in DOMAIN Entries(k)
      BY <2>2 DEF Placed, JobFacts
    <3> QED BY <1>14, <2>1, <2>2, <3>1 DEF HasCopied, Same
  <2>6. Truthful(k)' BY <1>3, <2>1, <2>2 DEF Truthful, Same
  <2> QED BY <2>4, <2>5, <2>6
<1>16. at'[j] \in DOMAIN Entries(j) BY <1>2, <1>4, <1>8 DEF JobFacts
<1>17. Placed(j)' BY <1>1, <1>3, <1>8, <1>16 DEF Placed, Tagged
<1>18. HasCopied(j)'
  <2>1. SUFFICES ASSUME Ver(j) \in Candidates, ok[j]
                 PROVE  \A i \in 1..at[j] : Copied(j, i)'
    <3>1. passed'[j] = FALSE BY <1>1, <1>3, <1>8 DEF Placed, LocalType
    <3>2. CASE at[j] = Len(Entries(j)) /\ pc'[j] = "attempted" /\ at' = at
      <4>1. DOMAIN Entries(j) = 1..at[j] BY <1>2, <3>2 DEF JobFacts
      <4> QED BY <1>8, <2>1, <3>1, <3>2, <4>1 DEF HasCopied
    <3>3. CASE at[j] # Len(Entries(j)) /\ pc'[j] = "inspect" /\ at'[j] = at[j] + 1
      <4>1. at'[j] - 1 = at[j] BY <1>1, <3>3 DEF LocalType
      <4> QED BY <1>8, <2>1, <3>1, <3>3, <4>1 DEF HasCopied
    <3> QED BY <1>8, <3>2, <3>3
  <2>2. TAKE i \in 1..at[j]
  <2>3. i \in DOMAIN Entries(j) BY <1>2, <1>4 DEF JobFacts
  <2>4. CASE i = at[j]
    <3>1. Entries(j)[i].tag = Own => Entries(j)[i].repo = r /\ Ver(j) = d
      BY <1>5, <2>4 DEF r, Repo
    <3> QED BY <1>7, <1>8, <1>11, <2>1, <3>1 DEF Copied
  <2>5. CASE i # at[j]
    <3>1. i \in 1..(at[j] - 1) BY <1>1, <2>5 DEF LocalType
    <3>2. Copied(j, i) BY <1>1, <1>3, <2>1, <3>1 DEF HasCopied
    <3> QED BY <1>8, <1>14, <2>1, <2>3, <3>2
  <2> QED BY <2>4, <2>5
<1>19. Truthful(j)' BY <1>4 DEF Truthful
<1>20. \A v \in Versions : v # Ver(j) => (Complete(v)' <=> Complete(v))
  <2>1. SUFFICES ASSUME NEW v \in Versions, v # Ver(j) PROVE Complete(v)' <=> Complete(v)
    OBVIOUS
  <2>2. \A k \in Jobs : Ver(k) = v => pc'[k] = pc[k] BY <1>8, <2>1 DEF OthersSame, Same
  <2>3. v \in Tags /\ v # d BY <1>5, <2>1, Disjoint
  <2>4. \A q \in Repos : image'[q][v] = image[q][v] BY <1>7, <2>3
  <2> QED BY <1>3, <2>2, <2>4 DEF Complete, Tagged, OwnRepos
<1>21. ~Complete(Ver(j)) /\ ~Complete(Ver(j))' BY <1>3, <1>8 DEF Complete
<1>22. ReleaseOK'
  <2>1. SUFFICES ASSUME Freeze
                 PROVE  /\ \A v \in Versions : ~Complete(v)' => gitTag'[v] \in {0, head'}
                        /\ \A c \in Candidates, q \in Repos : ~Complete(c)' => image'[q][c] \in {0, head'}
                        /\ \A q \in Repos : image'[q][Final] # 0 =>
                             \/ \E v \in Versions : Tagged(v)' /\ gitTag'[v] = image'[q][Final]
                             \/ ~Complete(Final)' /\ image'[q][Final] = head'
                        /\ SameCommit'
    BY DEF ReleaseOK
  <2>2. /\ \A v \in Versions : ~Complete(v) => gitTag[v] \in {0, head}
        /\ \A c \in Candidates, q \in Repos : ~Complete(c) => image[q][c] \in {0, head}
        /\ SameCommit
    BY <1>1, <2>1 DEF ReleaseOK
  <2>3. \A v \in Versions : ~Complete(v)' => gitTag[v] \in {0, head}
    BY <1>20, <1>21, <2>2
  \* What comes from CI is the frozen HEAD.
  <2>4. src[j] \in Sources => x = head
    <3>1. SUFFICES ASSUME src[j] \in Sources PROVE x = head OBVIOUS
    <3>2. sha[j] = head /\ x >= sha[j] BY <1>1, <1>3, <2>1, <3>1 DEF Placed, x
    <3>3. head \in Nat BY <1>1 DEF WorldType, Commits
    <3> QED BY <1>6, <3>2, <3>3
  <2>5. ASSUME NEW c \in Candidates, NEW q \in Repos, image'[q][c] # image[q][c]
        PROVE  c = Ver(j) /\ image'[q][c] = head
    <3>1. c \in Tags /\ c \in Versions BY Disjoint
    <3>2. q = r /\ c = d BY <1>7, <2>5, <3>1
    <3> QED BY <1>5, <1>7, <1>11, <2>4, <3>1, <3>2
  <2>6. ASSUME NEW c \in Candidates, NEW q \in Repos, ~Complete(c)'
        PROVE  image'[q][c] \in {0, head}
    <3>1. c \in Versions BY Disjoint
    <3> QED BY <1>20, <1>21, <2>2, <2>5, <2>6, <3>1
  <2>7. SameCommit'
    <3>1. ASSUME NEW c \in Candidates, NEW q \in Repos, Tagged(c)', image'[q][c] # 0
          PROVE  image'[q][c] = gitTag'[c]
      <4>1. CASE image'[q][c] = image[q][c]
        BY <1>3, <2>2, <3>1, <4>1 DEF SameCommit, Tagged
      <4>2. CASE image'[q][c] # image[q][c]
        <5>1. c = Ver(j) /\ image'[q][c] = head BY <2>5, <4>2
        <5> QED BY <1>3, <1>21, <2>2, <3>1, <5>1, Disjoint DEF Tagged
      <4> QED BY <4>1, <4>2
    <3> QED BY <3>1 DEF SameCommit
  <2>8. ASSUME NEW q \in Repos, image'[q][Final] # 0
        PROVE  \/ \E v \in Versions : Tagged(v)' /\ gitTag'[v] = image'[q][Final]
               \/ ~Complete(Final)' /\ image'[q][Final] = head
    <3>1. Final \in Versions /\ Final \in Tags BY Disjoint
    <3>2. CASE image'[q][Final] = image[q][Final]
      <4>1. \/ \E v \in Versions : Tagged(v) /\ gitTag[v] = image[q][Final]
            \/ ~Complete(Final) /\ image[q][Final] = head
        BY <1>1, <2>1, <2>8, <3>2 DEF ReleaseOK
      <4> QED BY <1>3, <1>20, <1>21, <3>1, <3>2, <4>1 DEF Tagged
    <3>3. CASE image'[q][Final] # image[q][Final]
      <4>1. q = r /\ d = Final /\ image'[q][Final] = x BY <1>7, <3>1, <3>3
      <4>2. Final = Ver(j) BY <1>5, <3>1, <4>1
      <4>3. CASE src[j] \in Sources BY <1>21, <2>4, <4>1, <4>2, <4>3
      <4>4. CASE src[j] \notin Sources
        <5>1. src[j] \in Candidates /\ Tagged(src[j]) BY <1>1, <1>2, <4>4 DEF Placed, JobFacts
        <5>2. x = gitTag[src[j]] BY <1>5, <1>6, <2>2, <5>1 DEF SameCommit, x, r
        <5> QED BY <1>3, <4>1, <5>1, <5>2, Disjoint DEF Tagged
      <4> QED BY <4>3, <4>4
    <3> QED BY <3>2, <3>3
  <2> QED BY <1>3, <2>3, <2>6, <2>7, <2>8
<1> QED BY <1>9, <1>13, <1>15, <1>17, <1>18, <1>19, <1>22, IndInvSplitPrimed

(***************************************************************************)
(* The theorems.                                                           *)
(***************************************************************************)
LEMMA InitIndInv == Init => IndInv
<1> SUFFICES ASSUME Init PROVE IndInv OBVIOUS
<1> USE DEF Init
<1>1. TypeOK
  <2>1. 1 \in Commits /\ 0 \in 0..MaxCommits BY TagAssumption DEF Commits
  <2>2. src \in [Jobs -> Tags] BY JobType DEF JobFacts
  <2> QED BY <2>1, <2>2 DEF TypeOK
<1>2. WorldOK
  <2>1. \A j \in Jobs : Ver(j) \in Tags /\ Job[j].source \in Tags
    BY JobType, Disjoint DEF JobFacts
  <2> QED BY <2>1 DEF WorldOK
<1>3. ReleaseOK
  <2>1. \A v \in Versions : gitTag[v] = 0 OBVIOUS
  <2>2. \A c \in Versions, r \in Repos : image[r][c] = 0 BY Disjoint
  <2> QED BY <2>1, <2>2, Disjoint DEF ReleaseOK, SameCommit, Tagged
<1>4. ASSUME NEW j \in Jobs PROVE Placed(j) /\ HasCopied(j) /\ Truthful(j)
  BY <1>4 DEF Placed, HasCopied, Truthful
<1> QED BY <1>1, <1>2, <1>3, <1>4, IndInvSplit

LEMMA StutterIndInv == IndInv /\ UNCHANGED vars => IndInv'
<1> SUFFICES ASSUME IndInv, UNCHANGED vars PROVE IndInv' OBVIOUS
<1>1. /\ head' = head /\ gitTag' = gitTag /\ image' = image /\ pc' = pc /\ passed' = passed
      /\ sha' = sha /\ src' = src /\ at' = at /\ ok' = ok
  BY DEF vars, world, choice, progress
<1>2. TypeOK' /\ WorldOK' BY <1>1, IndInvSplit DEF TypeOK, WorldOK
<1>3. \A v \in Versions : Complete(v)' <=> Complete(v)
  BY <1>1 DEF Complete, Tagged, OwnRepos
<1>4. ReleaseOK' BY <1>1, <1>3, IndInvSplit, Disjoint DEF ReleaseOK, SameCommit, Tagged
<1>5. ASSUME NEW j \in Jobs PROVE Placed(j)' /\ HasCopied(j)' /\ Truthful(j)'
  BY <1>1, OtherJob, IndInvSplit DEF Same
<1> QED BY <1>2, <1>4, <1>5, IndInvSplitPrimed

LEMMA NextIndInv == IndInv /\ [Next]_vars => IndInv'
<1> SUFFICES ASSUME IndInv, [Next]_vars PROVE IndInv' OBVIOUS
<1>1. CASE Commit BY <1>1, CommitStep
<1>2. CASE \E r \in Repos, s \in Sources : Build(r, s) BY <1>2, BuildStep
<1>3. ASSUME NEW j \in Jobs, ReadHead(j) \/ Fail(j) PROVE IndInv'
  BY <1>3, ReadHeadStep, FailStep
<1>4. ASSUME NEW j \in Jobs, RepoStep(j) PROVE IndInv'
  BY <1>4, ReadTagStep, CreateRefStep DEF RepoStep
<1>5. ASSUME NEW j \in Jobs, ImageStep(j) PROVE IndInv'
  BY <1>5, ReadRCsStep, InspectStep, EntryFailsStep, AttemptFailsStep, MirrorStep,
     EndAttemptStep, AgainStep, TimeOutStep DEF ImageStep
<1>6. CASE UNCHANGED vars BY <1>6, StutterIndInv
<1> QED BY <1>1, <1>2, <1>3, <1>4, <1>5, <1>6 DEF Next

\* Every reachable state satisfies the inductive invariant, however many
\* commands for however many versions run side by side and fail.
THEOREM IndInvInvariant == Spec => []IndInv
BY InitIndInv, NextIndInv, PTL DEF Spec

\* The variables keep their types.
THEOREM TypeCorrect == Spec => []TypeOK
<1>1. IndInv => TypeOK BY DEF IndInv
<1> QED BY <1>1, IndInvInvariant, PTL

\* A tag-release-repo that succeeds has its version tagged at the commit it
\* read, whoever created the tag.
THEOREM GitTagIsTruthfulCorrect == Spec => []GitTagIsTruthful
<1>1. IndInv => GitTagIsTruthful BY DEF IndInv
<1> QED BY <1>1, IndInvInvariant, PTL

\* A tag-release --wait of a candidate that succeeds leaves the images with the
\* candidate's tag, of all entries that write out no other tag, at its commit or
\* a later one, although checks and copies are separate calls.
THEOREM WaitedForImagesCorrect == Spec => []WaitedForImages
<1>1. IndInv => WaitedForImages BY DEF IndInv
<1> QED BY <1>1, IndInvInvariant, PTL

\* With merges held back while a version is half tagged, a candidate's git tag
\* and its images stand for the same commit.
THEOREM SameCommitCorrect == ASSUME Freeze PROVE Spec => []SameCommit
<1>1. IndInv => SameCommit BY DEF IndInv, AtHead
<1> QED BY <1>1, IndInvInvariant, PTL

\* With merges held back likewise, the images of a tagged final release were
\* built from a commit that a git tag of the release names.
THEOREM FinalIsTaggedCorrect == ASSUME Freeze PROVE Spec => []FinalIsTagged
<1>1. IndInv => FinalIsTagged
  <2>1. SUFFICES ASSUME IndInv, NEW r \in Repos, Tagged(Final), image[r][Final] # 0
                 PROVE  \E v \in Versions : Tagged(v) /\ gitTag[v] = image[r][Final]
    BY DEF FinalIsTagged
  <2>2. ReleaseOK BY <2>1, IndInvSplit
  <2>3. CASE ~Complete(Final) /\ image[r][Final] = head
    <3>1. Final \in Versions BY Disjoint
    <3>2. gitTag[Final] \in {0, head} BY <2>2, <2>3, <3>1 DEF ReleaseOK
    <3> QED BY <2>1, <2>3, <3>1, <3>2 DEF Tagged
  <2> QED BY <2>1, <2>2, <2>3 DEF ReleaseOK
<1> QED BY <1>1, IndInvInvariant, PTL

(***************************************************************************)
(* Which candidate is promoted. Names are compared as text, so the most    *)
(* recent one can be rc9 when rc10 exists; it is the last one as long as   *)
(* the numbers of the tagged candidates have the same number of digits.    *)
(***************************************************************************)
SameLength == \A c, d \in RCRefs : c < 10 <=> d < 10

\* With as many digits the order of the names is that of the numbers.
LEMMA OrderOfNames ==
  ASSUME NEW c \in Candidates, NEW d \in Candidates, c < 10 <=> d < 10,
         NameKey(c) <= NameKey(d)
  PROVE  c <= d
<1>1. c \in 1..99 /\ d \in 1..99 BY TagAssumption
<1>2. CASE c < 10
  <2>1. 100 * c <= 100 * d BY <1>2 DEF NameKey
  <2> QED BY <1>1, <2>1
<1>3. CASE ~(c < 10)
  <2> DEFINE ct == c \div 10  cu == c % 10  dt == d \div 10  du == d % 10
  <2>1. ct \in 0..9 /\ cu \in 0..9 /\ c = 10 * ct + cu BY <1>1
  <2>2. dt \in 0..9 /\ du \in 0..9 /\ d = 10 * dt + du BY <1>1
  <2>3. 100 * ct + cu + 1 <= 100 * dt + du + 1 BY <1>3 DEF NameKey
  <2> HIDE DEF ct, cu, dt, du
  <2> QED BY <2>1, <2>2, <2>3
<1> QED BY <1>2, <1>3

\* The candidate that tag-release promotes is the last one in every state whose
\* tagged candidates are all below ten or all from ten on; cmd/tagRelease.go:153
\* promises it always.
THEOREM LastIsPromoted == Spec => [](SameLength => MostRecentIsLast)
<1>1. SameLength => MostRecentIsLast
  <2>1. SUFFICES ASSUME SameLength, NEW c \in RCRefs PROVE c <= MostRecentRC
    BY DEF MostRecentIsLast
  <2>2. MostRecentRC \in RCRefs /\ NameKey(c) <= NameKey(MostRecentRC)
    BY MostRecentIsGreatest
  <2>3. c \in Candidates /\ MostRecentRC \in Candidates BY <2>2 DEF RCRefs
  <2>4. c < 10 <=> MostRecentRC < 10 BY <2>1, <2>2 DEF SameLength
  <2> QED BY <2>2, <2>3, <2>4, OrderOfNames
<1> QED BY <1>1, PTL
=============================================================================
