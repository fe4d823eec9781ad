------------------------- MODULE FindOrCreateProofs --------------------------
(* The two commands that look for something and create it in a later call:   *)
(* merge-blocker, for any number of runs, branches, issues and any size of   *)
(* the search's page, and polarion-release, for any number of runs, builds   *)
(* and releases.  BlockerInv is inductive as it stands: SearchHolds carries  *)
(* what a search has shown over to the call that uses it.  So is PolarionInv:*)
(* where a run is tells what of the release it has seen or created, and      *)
(* nothing is ever removed.                                                  *)
EXTENDS MergeBlocker, PolarionRelease, FiniteSetTheorems, NaturalsInduction,
        WellFoundedInduction, TLAPS

Smaller == {p \in Nat \X Nat : p[1] < p[2]}

LEMMA LeastNumber ==
    ASSUME NEW T \in SUBSET Nat, T # {}
    PROVE  \E x \in T : \A y \in T : x <= y
<1>1. IsWellFoundedOn(Smaller, Nat)
    BY NatLessThanWellFounded DEF OpToRel, Smaller
<1>2. PICK x \in T : \A y \in T : <<y, x>> \notin Smaller
    BY <1>1, WFMin
<1>3. ASSUME NEW y \in T, ~(x <= y) PROVE FALSE
    <2>1. y < x /\ <<y, x>> \in Nat \X Nat
        BY <1>3
    <2>2. <<y, x>> \in Smaller
        BY <2>1 DEF Smaller
    <2> QED BY <1>2, <2>2
<1> QED BY <1>3

LEMMA GreatestNumber ==
    ASSUME NEW n \in Nat, NEW S \in SUBSET (1..n), S # {}
    PROVE  \E x \in S : \A y \in S : y <= x
<1> DEFINE T == {t \in 0..n : n - t \in S}
<1>1. ASSUME NEW y \in S PROVE n - y \in T
    <2>1. y \in 1..n
        OBVIOUS
    <2>2. n - y \in 0..n /\ n - (n - y) = y
        BY <2>1
    <2> QED BY <2>2
<1>2. T \in SUBSET Nat /\ \A t \in T : t \in Nat /\ n - t \in S
    OBVIOUS
<1> HIDE DEF T
<1>3. PICK t \in T : \A u \in T : t <= u
    <2>1. PICK y : y \in S
        OBVIOUS
    <2>2. T # {}
        BY <1>1, <2>1
    <2> QED BY <1>2, <2>2, LeastNumber
<1>4. ASSUME NEW y \in S PROVE y <= n - t
    <2>1. t <= n - y
        BY <1>1, <1>3
    <2>2. y \in 1..n /\ t \in Nat
        BY <1>2
    <2> QED BY <2>1, <2>2
<1> QED BY <1>2, <1>4

LEMMA NewestIsGreatest ==
    ASSUME NEW n \in Nat, NEW S \in SUBSET (1..n), S # {}
    PROVE  Newest(S) \in S /\ \A i \in S : i <= Newest(S)
BY GreatestNumber DEF Newest

(* An open issue that the search does not list has a full page before it.    *)
LEMMA NewerIsFinite ==
    ASSUME issues \in Seq(Issue), NEW i \in Numbers
    PROVE  /\ IsFiniteSet(Newer(i)) /\ Cardinality(Newer(i)) \in Nat
           /\ Cardinality(Newer(i)) <= Len(issues) - i
<1> DEFINE n == Len(issues)
           I == (i + 1)..n
<1>1. n \in Nat /\ i \in 1..n
    BY DEF Numbers
<1>2. IsFiniteSet(I) /\ Cardinality(I) = n - i
    <2>1. i + 1 \in Int /\ n \in Int
        BY <1>1
    <2>2. IsFiniteSet(I) /\ Cardinality(I) = IF i + 1 > n THEN 0 ELSE n - (i + 1) + 1
        BY <2>1, FS_Interval
    <2> QED BY <1>1, <2>2
<1>3. Newer(i) \in SUBSET I
    BY DEF Newer
<1> HIDE DEF n, I
<1>4. IsFiniteSet(Newer(i)) /\ Cardinality(Newer(i)) <= Cardinality(I)
    BY <1>2, <1>3, FS_Subset
<1>5. Cardinality(Newer(i)) \in Nat
    BY <1>4, FS_CardinalityType
<1> QED BY <1>2, <1>4, <1>5 DEF n

LEMMA UnlistedIsOld ==
    ASSUME issues \in Seq(Issue), NEW i \in Numbers, Open(i), i \notin Listed
    PROVE  Len(issues) - i >= PageSize
<1>1. ~(Cardinality(Newer(i)) < PageSize)
    BY DEF Listed
<1>2. PICK c \in Nat : c = Cardinality(Newer(i)) /\ c <= Len(issues) - i
    BY NewerIsFinite
<1>3. Len(issues) \in Nat /\ i \in Int /\ PageSize \in Nat
    BY BlockerAssumption DEF Numbers
<1> QED BY <1>1, <1>2, <1>3

LEMMA ListedAreNewer ==
    ASSUME issues \in Seq(Issue), NEW i \in Numbers, Open(i), i \notin Listed,
           NEW j \in Listed
    PROVE  i <= j
<1>1. j \in Numbers /\ Cardinality(Newer(j)) < PageSize
    BY DEF Listed
<1>2. ~(Cardinality(Newer(i)) < PageSize)
    BY DEF Listed
<1>3. SUFFICES ASSUME ~(i <= j) PROVE FALSE
    OBVIOUS
<1>4. Newer(i) \in SUBSET Newer(j)
    BY <1>1, <1>3 DEF Newer, Numbers
<1>5. PICK c \in Nat : c = Cardinality(Newer(i))
    BY NewerIsFinite
<1>6. PICK d \in Nat : d = Cardinality(Newer(j))
    BY <1>1, NewerIsFinite
<1>7. c <= d
    BY <1>1, <1>4, <1>5, <1>6, NewerIsFinite, FS_Subset
<1> QED BY <1>1, <1>2, <1>5, <1>6, <1>7, BlockerAssumption

----------------------------------------------------------------------------
LEMMA BlockerInitInv == BlockerInit => BlockerInv
<1> SUFFICES ASSUME BlockerInit PROVE BlockerInv
    OBVIOUS
<1>1. issues = <<>> /\ Len(issues) = 0 /\ Numbers = {} /\ issues \in Seq(Issue)
    BY DEF BlockerInit, Numbers
<1>2. BlockerTypeOK
    BY <1>1, BlockerAssumption DEF BlockerInit, BlockerTypeOK
<1>3. SearchHolds /\ DuplicatesNeedRace /\ CloseTakesNewest
    BY <1>1 DEF BlockerInit, SearchHolds, DuplicatesNeedRace, CloseTakesNewest
<1> QED BY <1>2, <1>3 DEF BlockerInv

(* Steps that leave the issues and every other run alone.                    *)
QuietRun(r) ==
    /\ UNCHANGED issues
    /\ \A s \in Blockers \ {r} :
           bpc'[s] = bpc[s] /\ known'[s] = known[s] /\ found'[s] = found[s]

LEMMA QuietRunStep ==
    ASSUME BlockerInv, NEW r \in Blockers, QuietRun(r), BlockerTypeOK',
           bpc'[r] \in {"create", "close"} =>
               \A i \in Numbers :
                   i <= known'[r] /\ Open(i) /\ issues[i].branch = Own(r) =>
                       /\ bpc'[r] = "create" => known'[r] - i >= PageSize
                       /\ bpc'[r] = "close" => i <= found'[r],
           bpc'[r] = "done" => Asked[r].cmd = "create"
    PROVE  BlockerInv'
<1>1. Numbers' = Numbers /\ (\A i : Open(i)' = Open(i)) /\ issues' = issues
    BY DEF QuietRun, Numbers, Open
<1>2. DuplicatesNeedRace'
    BY <1>1 DEF BlockerInv, DuplicatesNeedRace
<1>3. SearchHolds'
    BY <1>1 DEF BlockerInv, SearchHolds, QuietRun, Own
<1>4. CloseTakesNewest'
    BY <1>1 DEF BlockerInv, CloseTakesNewest, QuietRun, Own
<1> QED BY <1>2, <1>3, <1>4 DEF BlockerInv

LEMMA createMergeBlockerStep ==
    ASSUME BlockerInv, NEW r \in Blockers, createMergeBlocker(r)
    PROVE  BlockerInv'
<1> USE DEF createMergeBlocker, BGoto
<1>1. BlockerTypeOK /\ Asked[r].cmd = "create" /\ Own(r) \in Branches
    BY BlockerAssumption DEF BlockerInv, Own
<1>2. BlockerTypeOK'
    BY <1>1 DEF BlockerTypeOK, Numbers
<1>3. known'[r] = Len(issues) /\ bpc'[r] \in {"create", "done"}
    BY <1>1 DEF BlockerTypeOK
<1>4. ASSUME bpc'[r] = "create", NEW i \in Numbers, Open(i), issues[i].branch = Own(r)
      PROVE  known'[r] - i >= PageSize
    <2>1. searchMergeBlockers(Own(r)) = {}
        BY <1>1, <1>4 DEF BlockerTypeOK
    <2>2. i \notin Listed
        BY <1>1, <1>4, <2>1, BlockerAssumption DEF searchMergeBlockers
    <2> QED BY <1>1, <1>3, <1>4, <2>2, UnlistedIsOld DEF BlockerTypeOK
<1>5. QuietRun(r)
    BY <1>1 DEF QuietRun, BlockerTypeOK
<1> QED BY <1>1, <1>2, <1>3, <1>4, <1>5, QuietRunStep

LEMMA closeMergeBlockerStep ==
    ASSUME BlockerInv, NEW r \in Blockers, closeMergeBlocker(r)
    PROVE  BlockerInv'
<1> DEFINE hits == searchMergeBlockers(Own(r))
<1>1. BlockerTypeOK /\ Own(r) \in Branches /\ Len(issues) \in Nat
    BY BlockerAssumption DEF BlockerInv, Own, BlockerTypeOK
<1>2. hits \in SUBSET (1..Len(issues)) /\ hits \subseteq Listed
    BY DEF searchMergeBlockers, Listed, Numbers
<1>3. CASE hits = {}
    <2>1. /\ bpc' = [bpc EXCEPT ![r] = "failed"] /\ known' = [known EXCEPT ![r] = Len(issues)]
          /\ UNCHANGED <<issues, found, btries>>
        BY <1>3 DEF closeMergeBlocker, BGoto
    <2>2. BlockerTypeOK'
        BY <1>1, <2>1 DEF BlockerTypeOK, Numbers
    <2>3. QuietRun(r) /\ bpc'[r] = "failed"
        BY <1>1, <2>1 DEF QuietRun, BlockerTypeOK
    <2> QED BY <2>2, <2>3, QuietRunStep
<1>4. CASE hits # {}
    <2>1. /\ bpc' = [bpc EXCEPT ![r] = "close"] /\ found' = [found EXCEPT ![r] = Newest(hits)]
          /\ known' = [known EXCEPT ![r] = Len(issues)] /\ UNCHANGED <<issues, btries>>
        BY <1>4 DEF closeMergeBlocker, BGoto
    <2>2. Newest(hits) \in hits /\ \A i \in hits : i <= Newest(hits)
        <3> HIDE DEF hits
        <3> QED BY <1>1, <1>2, <1>4, NewestIsGreatest
    <2>3. Newest(hits) \in 1..Len(issues) /\ Newest(hits) \in Listed
        BY <1>2, <2>2
    <2> HIDE DEF hits
    <2>4. BlockerTypeOK'
        <3>1. PICK k \in 1..Len(issues) : k = Newest(hits)
            BY <2>3
        <3>2. /\ found' \in [Blockers -> Nat] /\ known' \in [Blockers -> Nat]
              /\ bpc' \in [Blockers -> {"search", "create", "close", "done", "failed"}]
            BY <1>1, <2>1, <3>1 DEF BlockerTypeOK
        <3>3. \A s \in Blockers :
                  /\ known'[s] <= Len(issues) /\ found'[s] <= known'[s]
                  /\ bpc'[s] = "close" => found'[s] \in Numbers
            BY <1>1, <2>1, <3>1 DEF BlockerTypeOK, Numbers
        <3>4. \A s \in Blockers : bpc'[s] \in {"create", "close"} => bpc'[s] = Asked[s].cmd
            BY <1>1, <2>1 DEF BlockerTypeOK, closeMergeBlocker
        <3> QED BY <1>1, <2>1, <3>2, <3>3, <3>4 DEF BlockerTypeOK, Numbers
    <2>5. QuietRun(r) /\ bpc'[r] = "close" /\ found'[r] = Newest(hits)
        BY <1>1, <2>1 DEF QuietRun, BlockerTypeOK
    <2>6. ASSUME NEW i \in Numbers, Open(i), issues[i].branch = Own(r)
          PROVE  i <= Newest(hits)
        <3>1. CASE i \in Listed
            <4>1. i \in hits
                BY <1>1, <2>6, <3>1, BlockerAssumption DEF hits, searchMergeBlockers
            <4> QED BY <2>2, <4>1
        <3>2. CASE i \notin Listed
            BY <1>1, <2>3, <2>6, <3>2, ListedAreNewer DEF BlockerTypeOK
        <3> QED BY <3>1, <3>2
    <2> QED BY <2>4, <2>5, <2>6, QuietRunStep
<1> QED BY <1>3, <1>4

LEMMA CreateIssueStep ==
    ASSUME BlockerInv, NEW r \in Blockers, CreateIssue(r)
    PROVE  BlockerInv'
<1> DEFINE n == Len(issues)
           new == [branch |-> Own(r), open |-> TRUE, known |-> known[r]]
<1>1. /\ BlockerTypeOK /\ Own(r) \in Branches /\ n \in Nat
      /\ SearchHolds /\ DuplicatesNeedRace /\ CloseTakesNewest
    BY BlockerAssumption DEF BlockerInv, Own, BlockerTypeOK
<1>2. new \in Issue
    BY <1>1 DEF BlockerTypeOK, Issue
<1>3. /\ issues' = Append(issues, new) /\ bpc[r] = "create"
      /\ \E where \in {"done", "failed"} : bpc' = [bpc EXCEPT ![r] = where]
      /\ UNCHANGED <<known, found, btries>>
    BY DEF CreateIssue, BGoto
<1> HIDE DEF new
<1>4. /\ issues' \in Seq(Issue) /\ Len(issues') = n + 1 /\ issues'[n + 1] = new
      /\ \A i \in 1..n : issues'[i] = issues[i]
    BY <1>1, <1>2, <1>3 DEF BlockerTypeOK
<1> HIDE DEF n
<1>5. Numbers = 1..n /\ Numbers' = 1..(n + 1)
    BY <1>4 DEF Numbers, n
<1>6. BlockerTypeOK'
    BY <1>1, <1>3, <1>4, <1>5 DEF BlockerTypeOK, n
<1>7. \A s \in Blockers : known[s] \in Nat /\ known[s] <= n /\ found[s] \in Nat /\ found[s] <= known[s]
    BY <1>1 DEF BlockerTypeOK, n
<1>8. \A i \in 1..n : Open(i)' = Open(i) /\ issues'[i].branch = issues[i].branch
                      /\ issues'[i].known = issues[i].known
    BY <1>4 DEF Open
<1>9. new.branch = Own(r) /\ new.known = known[r]
    BY DEF new
<1>10. \A s \in Blockers : s # r => bpc'[s] = bpc[s]
    BY <1>1, <1>3 DEF BlockerTypeOK
<1>11. bpc'[r] \in {"done", "failed"}
    BY <1>1, <1>3 DEF BlockerTypeOK
<1>12. Asked[r].cmd = "create"
    BY <1>1, <1>3 DEF BlockerTypeOK
<1>13. SearchHolds'
    <2> SUFFICES ASSUME NEW s \in Blockers, NEW i \in 1..(n + 1),
                        i <= known'[s], Open(i)', issues'[i].branch = Own(s)
                 PROVE  /\ bpc'[s] = "create" => known'[s] - i >= PageSize
                        /\ bpc'[s] = "close" => i <= found'[s]
        BY <1>5 DEF SearchHolds, Own
    <2>1. known'[s] = known[s] /\ found'[s] = found[s] /\ i \in 1..n
        BY <1>1, <1>3, <1>7
    <2>2. s # r => bpc'[s] = bpc[s]
        BY <1>10
    <2> QED BY <1>1, <1>5, <1>8, <1>11, <2>1, <2>2 DEF SearchHolds
<1>14. DuplicatesNeedRace'
    <2> SUFFICES ASSUME NEW i \in 1..(n + 1), NEW j \in 1..(n + 1), i < j,
                        Open(i)', Open(j)', issues'[i].branch = issues'[j].branch
                 PROVE  \/ issues'[j].known < i
                        \/ issues'[j].known - i >= PageSize
        BY <1>5 DEF DuplicatesNeedRace
    <2>1. i \in 1..n
        BY <1>1
    <2>2. CASE j \in 1..n
        BY <1>1, <1>5, <1>8, <2>1, <2>2 DEF DuplicatesNeedRace
    <2>3. CASE j = n + 1
        <3>1. issues'[j].known = known[r] /\ issues[i].branch = Own(r) /\ Open(i)
            BY <1>4, <1>8, <1>9, <2>1, <2>3
        <3>2. CASE known[r] < i
            BY <3>1, <3>2
        <3>3. CASE ~(known[r] < i)
            <4>1. i <= known[r]
                BY <1>1, <1>7, <2>1, <3>3
            <4>2. known[r] - i >= PageSize
                BY <1>1, <1>3, <1>5, <2>1, <3>1, <4>1 DEF SearchHolds
            <4> QED BY <3>1, <4>2
        <3> QED BY <3>2, <3>3
    <2> QED BY <1>1, <2>2, <2>3
<1>15. CloseTakesNewest'
    <2> SUFFICES ASSUME NEW s \in Blockers, bpc'[s] = "done", Asked[s].cmd = "close"
                 PROVE  /\ found'[s] \in 1..(n + 1) /\ ~Open(found[s])'
                        /\ \A i \in 1..(n + 1) :
                               Open(i)' /\ issues'[i].branch = Own(s) =>
                                   i > known'[s] \/ i < found'[s]
        BY <1>3, <1>5 DEF CloseTakesNewest, Own
    <2>1. s # r /\ bpc[s] = "done"
        BY <1>10, <1>12
    <2>2. /\ found[s] \in 1..n /\ ~Open(found[s])
          /\ \A i \in 1..n : Open(i) /\ issues[i].branch = Own(s) => i > known[s] \/ i < found[s]
        BY <1>1, <1>5, <2>1 DEF CloseTakesNewest
    <2>3. found'[s] = found[s] /\ known'[s] = known[s]
        BY <1>3
    <2>4. found[s] \in 1..(n + 1) /\ ~Open(found[s])'
        <3>1. issues'[found[s]] = issues[found[s]]
            BY <1>4, <2>2
        <3> QED BY <1>1, <1>3, <2>2, <3>1 DEF Open
    <2>5. ASSUME NEW i \in 1..(n + 1), Open(i)', issues'[i].branch = Own(s)
          PROVE  i > known[s] \/ i < found[s]
        <3>1. CASE i \in 1..n
            BY <1>8, <2>2, <2>5, <3>1
        <3>2. CASE i = n + 1
            BY <1>1, <1>7, <3>2
        <3> QED BY <1>1, <3>1, <3>2
    <2> QED BY <2>3, <2>4, <2>5
<1> QED BY <1>6, <1>13, <1>14, <1>15 DEF BlockerInv

LEMMA CloseIssueStep ==
    ASSUME BlockerInv, NEW r \in Blockers, CloseIssue(r)
    PROVE  BlockerInv'
<1> DEFINE n == Len(issues)
           f == found[r]
<1>1. /\ BlockerTypeOK /\ n \in Nat /\ f \in Numbers
      /\ SearchHolds /\ DuplicatesNeedRace /\ CloseTakesNewest
    BY DEF BlockerInv, BlockerTypeOK, CloseIssue
<1>2. /\ issues' = [issues EXCEPT ![f].open = FALSE] /\ bpc[r] = "close"
      /\ \E where \in {"done", "failed"} : bpc' = [bpc EXCEPT ![r] = where]
      /\ UNCHANGED <<known, found, btries>>
    BY DEF CloseIssue, BGoto
<1>3. Asked[r].cmd = "close"
    BY <1>1, <1>2 DEF BlockerTypeOK
<1>4. /\ issues' \in Seq(Issue) /\ Len(issues') = n
      /\ \A i \in 1..n : /\ issues'[i].branch = issues[i].branch
                         /\ issues'[i].known = issues[i].known
                         /\ Open(i)' => Open(i) /\ i # f
      /\ ~Open(f)'
    <2>1. DOMAIN issues = 1..n /\ f \in 1..n /\ issues[f] \in Issue
        BY <1>1 DEF BlockerTypeOK, Numbers
    <2>2. [issues[f] EXCEPT !.open = FALSE] \in Issue
        BY <2>1 DEF Issue
    <2>3. /\ issues' \in Seq(Issue) /\ Len(issues') = n
          /\ \A i \in 1..n : issues'[i] = IF i = f THEN [issues[f] EXCEPT !.open = FALSE] ELSE issues[i]
        BY <1>1, <1>2, <2>1, <2>2 DEF BlockerTypeOK
    <2>4. /\ [issues[f] EXCEPT !.open = FALSE].branch = issues[f].branch
          /\ [issues[f] EXCEPT !.open = FALSE].known = issues[f].known
          /\ [issues[f] EXCEPT !.open = FALSE].open = FALSE
        BY <2>1 DEF Issue
    <2> HIDE DEF n, f
    <2>5. Open(f)' = issues'[f].open
        BY <1>2 DEF Open, f
    <2> QED BY <2>1, <2>3, <2>4, <2>5 DEF Open
<1>5. Numbers = 1..n /\ Numbers' = 1..n
    BY <1>4 DEF Numbers
<1> HIDE DEF n
<1>6. BlockerTypeOK'
    BY <1>1, <1>2, <1>4, <1>5 DEF BlockerTypeOK, n
<1>7. \A s \in Blockers : s # r => bpc'[s] = bpc[s]
    BY <1>1, <1>2 DEF BlockerTypeOK
<1>8. bpc'[r] \in {"done", "failed"}
    BY <1>1, <1>2 DEF BlockerTypeOK
<1>9. SearchHolds'
    <2> SUFFICES ASSUME NEW s \in Blockers, NEW i \in 1..n,
                        i <= known'[s], Open(i)', issues'[i].branch = Own(s)
                 PROVE  /\ bpc'[s] = "create" => known'[s] - i >= PageSize
                        /\ bpc'[s] = "close" => i <= found'[s]
        BY <1>5 DEF SearchHolds, Own
    <2> QED BY <1>1, <1>2, <1>4, <1>5, <1>7, <1>8 DEF SearchHolds
<1>10. DuplicatesNeedRace'
    BY <1>1, <1>4, <1>5 DEF DuplicatesNeedRace
<1>11. CloseTakesNewest'
    <2> SUFFICES ASSUME NEW s \in Blockers, bpc'[s] = "done", Asked[s].cmd = "close"
                 PROVE  /\ found'[s] \in 1..n /\ ~Open(found[s])'
                        /\ \A i \in 1..n :
                               Open(i)' /\ issues'[i].branch = Own(s) =>
                                   i > known'[s] \/ i < found'[s]
        BY <1>2, <1>5 DEF CloseTakesNewest, Own
    <2>1. known'[s] = known[s] /\ found'[s] = found[s]
        BY <1>2
    <2>2. CASE s = r
        <3>1. \A i \in 1..n : Open(i)' /\ issues'[i].branch = Own(r) =>
                  i > known[r] \/ (i <= f /\ i # f)
            <4> SUFFICES ASSUME NEW i \in 1..n, Open(i)', issues'[i].branch = Own(r), i <= known[r]
                         PROVE  i <= f /\ i # f
                BY <1>1 DEF BlockerTypeOK, n
            <4> QED BY <1>1, <1>2, <1>4, <1>5 DEF SearchHolds
        <3>2. f \in Nat
            BY <1>1 DEF BlockerTypeOK
        <3>3. ~Open(found[r])'
            BY <1>2, <1>4
        <3> QED BY <1>1, <1>5, <2>1, <2>2, <3>1, <3>2, <3>3
    <2>3. CASE s # r
        <3>1. bpc[s] = "done"
            BY <1>7, <2>3
        <3>2. /\ found[s] \in 1..n /\ ~Open(found[s])
              /\ \A i \in 1..n : Open(i) /\ issues[i].branch = Own(s) => i > known[s] \/ i < found[s]
            BY <1>1, <1>5, <3>1 DEF CloseTakesNewest
        <3>3. ~Open(found[s])'
            <4>1. Open(found[s])' = issues'[found[s]].open
                BY <1>2 DEF Open
            <4> QED BY <1>4, <3>2, <4>1 DEF Open
        <3> QED BY <1>4, <2>1, <3>2, <3>3
    <2> QED BY <2>2, <2>3
<1> QED BY <1>6, <1>9, <1>10, <1>11 DEF BlockerInv

LEMMA BlockerRestStep ==
    ASSUME BlockerInv, NEW r \in Blockers, BlockerCallFails(r) \/ BlockerAgain(r)
    PROVE  BlockerInv'
<1>1. BlockerTypeOK
    BY DEF BlockerInv
<1>2. QuietRun(r) /\ bpc'[r] \in {"failed", "search"}
    BY <1>1 DEF BlockerCallFails, BlockerAgain, BGoto, QuietRun, BlockerTypeOK
<1>3. BlockerTypeOK'
    <2>1. CASE BlockerCallFails(r)
        <3>1. bpc' = [bpc EXCEPT ![r] = "failed"] /\ UNCHANGED <<issues, known, found, btries>>
            BY <2>1 DEF BlockerCallFails, BGoto
        <3> QED BY <1>1, <3>1 DEF BlockerTypeOK, Numbers
    <2>2. CASE BlockerAgain(r)
        <3>1. /\ bpc' = [bpc EXCEPT ![r] = "search"] /\ btries' = [btries EXCEPT ![r] = @ + 1]
              /\ UNCHANGED <<issues, known, found>>
            BY <2>2 DEF BlockerAgain, BGoto
        <3>2. btries' \in [Blockers -> Nat]
            BY <1>1, <3>1 DEF BlockerTypeOK
        <3> QED BY <1>1, <3>1, <3>2 DEF BlockerTypeOK, Numbers
    <2> QED BY <2>1, <2>2
<1>4. bpc'[r] \notin {"create", "close"} /\ bpc'[r] # "done"
    BY <1>2
<1> QED BY <1>2, <1>3, <1>4, QuietRunStep

LEMMA BlockerStep == BlockerInv /\ [BlockerNext]_bvars => BlockerInv'
<1> SUFFICES ASSUME BlockerInv, [BlockerNext]_bvars PROVE BlockerInv'
    OBVIOUS
<1>1. CASE UNCHANGED bvars
    BY <1>1 DEF bvars, BlockerInv, BlockerTypeOK, SearchHolds, DuplicatesNeedRace,
        CloseTakesNewest, Numbers, Open, Own
<1>2. CASE BlockerNext
    BY <1>2, createMergeBlockerStep, CreateIssueStep, closeMergeBlockerStep, CloseIssueStep,
        BlockerRestStep DEF BlockerNext
<1> QED BY <1>1, <1>2

(* The invariant of the command: what a run's search has told it about the   *)
(* issues it saw stays true until it acts on it.                             *)
THEOREM BlockerInvariant == BlockerSpec => []BlockerInv
<1>1. BlockerInit => BlockerInv
    BY BlockerInitInv
<1>2. BlockerInv /\ [BlockerNext]_bvars => BlockerInv'
    BY BlockerStep
<1> QED BY <1>1, <1>2, PTL DEF BlockerSpec

(* Two open blockers of one branch come from a race or a full page, for any  *)
(* number of runs and any page: a repeated run creates no second one.        *)
THEOREM DuplicatesOnlyFromRaces == BlockerSpec => []DuplicatesNeedRace
<1>1. BlockerInv => DuplicatesNeedRace
    BY DEF BlockerInv
<1> QED BY <1>1, BlockerInvariant, PTL

(* A close that succeeds leaves of its branch's issues only later ones and   *)
(* those older than the one it closed, for any number of runs and any page.  *)
THEOREM CloseIsOfTheNewest == BlockerSpec => []CloseTakesNewest
<1>1. BlockerInv => CloseTakesNewest
    BY DEF BlockerInv
<1> QED BY <1>1, BlockerInvariant, PTL

----------------------------------------------------------------------------
(* Polarion.                                                                 *)
LEMMA CallsAre ==
    Calls = {"getRelease", "createRelease", "getMilestone", "createMilestone",
             "getTestRun", "createTestRun", "updateTestRun"}
BY DEF Calls, Steps

(* A run that takes a step was given a build.                                *)
LEMMA MoverHasBuild ==
    ASSUME Idle, NEW r \in Preparers, ppc[r] # "done"
    PROVE  BuildOf[r] \in Builds /\ Rel(r) \in Releases
BY PolarionAssumption DEF Idle, Rel, Releases

LEMMA PolarionInitInv == PolarionInit => PolarionInv
BY PolarionAssumption, CallsAre
   DEF PolarionInit, PolarionInv, PolarionTypeOK, Reached, Idle, MilestoneHasRelease,
       TemplateMarked

LEMMA PolarionTypeStep == PolarionTypeOK /\ Idle /\ [PolarionNext]_pvars => PolarionTypeOK'
<1> SUFFICES ASSUME PolarionTypeOK, Idle, [PolarionNext]_pvars PROVE PolarionTypeOK'
    OBVIOUS
<1> USE DEF PolarionTypeOK
<1>1. CASE UNCHANGED pvars
    BY <1>1 DEF pvars
<1>2. ASSUME NEW r \in Preparers,
             \/ GetRelease(r) \/ creteRelease(r) \/ GetMilestone(r) \/ creteMilestone(r)
             \/ GetTestRun(r) \/ createTestRunTemplate(r) \/ UpdateTestRun(r)
             \/ PolarionFails(r) \/ PolarionAgain(r)
      PROVE  PolarionTypeOK'
    <2>0. ppc[r] # "done"
        BY <1>2, CallsAre DEF GetRelease, creteRelease, GetMilestone, creteMilestone,
             GetTestRun, createTestRunTemplate, UpdateTestRun, PolarionFails, PolarionAgain
    <2>b. BuildOf[r] \in Builds /\ Rel(r) \in Releases
        BY <2>0, MoverHasBuild
    <2>1. CASE GetRelease(r)
        BY <2>1, <2>b, CallsAre DEF GetRelease, PGoto
    <2>2. CASE creteRelease(r)
        BY <2>2, <2>b, CallsAre DEF creteRelease, PGoto
    <2>3. CASE GetMilestone(r)
        BY <2>3, <2>b, CallsAre DEF GetMilestone, PGoto
    <2>4. CASE creteMilestone(r)
        BY <2>4, <2>b, CallsAre DEF creteMilestone, PGoto
    <2>5. CASE GetTestRun(r)
        BY <2>5, <2>b, CallsAre DEF GetTestRun, PGoto
    <2>6. CASE createTestRunTemplate(r)
        BY <2>6, <2>b, CallsAre DEF createTestRunTemplate, PGoto
    <2>7. CASE UpdateTestRun(r)
        BY <2>7, <2>b, CallsAre DEF UpdateTestRun, PGoto
    <2>8. CASE PolarionFails(r)
        BY <2>8, <2>b, CallsAre DEF PolarionFails, PGoto
    <2>9. CASE PolarionAgain(r)
        BY <2>9, <2>b, CallsAre DEF PolarionAgain, PGoto
    <2> QED BY <1>2, <2>1, <2>2, <2>3, <2>4, <2>5, <2>6, <2>7, <2>8, <2>9
<1> QED BY <1>1, <1>2 DEF PolarionNext

(* Steps of a run that look for something, give up or begin again: only the  *)
(* run's place changes.                                                      *)
LEMMA LookingStep ==
    ASSUME PolarionInv, NEW r \in Preparers, PolarionTypeOK',
           \/ GetRelease(r) \/ GetMilestone(r) \/ GetTestRun(r)
           \/ PolarionFails(r) \/ PolarionAgain(r)
    PROVE  PolarionInv'
<1> USE DEF PolarionInv
<1>0. ppc[r] # "done"
    BY CallsAre DEF GetRelease, GetMilestone, GetTestRun, PolarionFails, PolarionAgain
<1>b. BuildOf[r] \in Builds /\ BuildOf[r] # NoBuild
    BY <1>0, MoverHasBuild, PolarionAssumption
<1>1. CASE GetRelease(r)
    BY <1>1, <1>b DEF GetRelease, PGoto, PolarionTypeOK, Reached, Idle, MilestoneHasRelease,
       TemplateMarked, Rel
<1>2. CASE GetMilestone(r)
    BY <1>2, <1>b DEF GetMilestone, PGoto, PolarionTypeOK, Reached, Idle, MilestoneHasRelease,
       TemplateMarked, Rel
<1>3. CASE GetTestRun(r)
    BY <1>3, <1>b DEF GetTestRun, PGoto, PolarionTypeOK, Reached, Idle, MilestoneHasRelease,
       TemplateMarked, Rel
<1>4. CASE PolarionFails(r)
    BY <1>4, <1>b, CallsAre DEF PolarionFails, PGoto, PolarionTypeOK, Reached, Idle,
       MilestoneHasRelease, TemplateMarked, Rel
<1>5. CASE PolarionAgain(r)
    BY <1>5, <1>b DEF PolarionAgain, PGoto, PolarionTypeOK, Reached, Idle,
       MilestoneHasRelease, TemplateMarked, Rel
<1> QED BY <1>1, <1>2, <1>3, <1>4, <1>5

(* Steps that create something, each when what it belongs to is there.       *)
LEMMA CreatingStep ==
    ASSUME PolarionInv, NEW r \in Preparers, PolarionTypeOK',
           \/ creteRelease(r) \/ creteMilestone(r)
           \/ createTestRunTemplate(r) \/ UpdateTestRun(r)
    PROVE  PolarionInv'
<1> USE DEF PolarionInv
<1>0. ppc[r] # "done"
    BY DEF creteRelease, creteMilestone, createTestRunTemplate, UpdateTestRun
<1>b. BuildOf[r] \in Builds /\ BuildOf[r] # NoBuild
    BY <1>0, MoverHasBuild, PolarionAssumption
<1>1. CASE creteRelease(r)
    BY <1>1, <1>b DEF creteRelease, PGoto, PolarionTypeOK, Reached, Idle,
       MilestoneHasRelease, TemplateMarked, Rel
<1>2. CASE creteMilestone(r)
    BY <1>2, <1>b DEF creteMilestone, PGoto, PolarionTypeOK, Reached, Idle,
       MilestoneHasRelease, TemplateMarked, Rel
<1>3. CASE createTestRunTemplate(r)
    BY <1>3, <1>b DEF createTestRunTemplate, PGoto, PolarionTypeOK, Reached, Idle,
       MilestoneHasRelease, TemplateMarked, Rel
<1>4. CASE UpdateTestRun(r)
    BY <1>4, <1>b DEF UpdateTestRun, PGoto, PolarionTypeOK, Reached, Idle,
       MilestoneHasRelease, TemplateMarked, Rel
<1> QED BY <1>1, <1>2, <1>3, <1>4

LEMMA PolarionStep == PolarionInv /\ [PolarionNext]_pvars => PolarionInv'
<1> SUFFICES ASSUME PolarionInv, [PolarionNext]_pvars PROVE PolarionInv'
    OBVIOUS
<1>1. PolarionTypeOK'
    BY PolarionTypeStep DEF PolarionInv
<1>2. CASE UNCHANGED pvars
    BY <1>2 DEF pvars, PolarionInv, PolarionTypeOK, Reached, Idle, MilestoneHasRelease,
       TemplateMarked, Rel
<1>3. ASSUME NEW r \in Preparers,
             \/ GetRelease(r) \/ creteRelease(r) \/ GetMilestone(r) \/ creteMilestone(r)
             \/ GetTestRun(r) \/ createTestRunTemplate(r) \/ UpdateTestRun(r)
             \/ PolarionFails(r) \/ PolarionAgain(r)
      PROVE  PolarionInv'
    BY <1>1, <1>3, LookingStep, CreatingStep
<1> QED BY <1>2, <1>3 DEF PolarionNext

(* The invariant of the command: what the runs know of Polarion stays true,  *)
(* whatever the other runs do and whichever calls fail.                      *)
THEOREM PolarionInvariant == PolarionSpec => []PolarionInv
<1>1. PolarionInit => PolarionInv
    BY PolarionInitInv
<1>2. PolarionInv /\ [PolarionNext]_pvars => PolarionInv'
    BY PolarionStep
<1> QED BY <1>1, <1>2, PTL DEF PolarionSpec

(* No milestone without its release, no test run without its milestone, and  *)
(* a run that succeeds has all three: for any number of runs.                *)
THEOREM ReleaseIsWhole == PolarionSpec => []MilestoneHasRelease
<1>1. PolarionInv => MilestoneHasRelease
    BY DEF PolarionInv
<1> QED BY <1>1, PolarionInvariant, PTL

(* A test run that is no template is about to be marked, or its creator has  *)
(* failed to: for any number of runs.                                        *)
THEOREM PlainIsExplained == PolarionSpec => []TemplateMarked
<1>1. PolarionInv => TemplateMarked
    BY DEF PolarionInv
<1> QED BY <1>1, PolarionInvariant, PTL
=============================================================================
