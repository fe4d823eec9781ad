---------------------------- MODULE MergeBlocker ----------------------------
(* release merge-blocker: an issue with a label and the name of a branch in  *)
(* its title keeps the branch from being merged to.  A run searches the open *)
(* issues and then, in a second call, creates one or closes the one it found.*)
EXTENDS Naturals, Sequences, FiniteSets

CONSTANTS
    Blockers,     \* the runs of the command
    Asked,        \* what a run is asked for, [cmd, branch]
    Branches,
    Begins,       \* <<b, c>>: the name c begins with the name b (b itself too)
    PageSize,     \* issues in the one page a search reads
    BlockerTries  \* how often each run is started

ASSUME BlockerAssumption ==
    /\ Asked \in [Blockers -> [cmd: {"create", "close"}, branch: Branches]]
    /\ Begins \subseteq Branches \X Branches
    /\ \A b \in Branches : <<b, b>> \in Begins
    /\ PageSize \in Nat \ {0} /\ BlockerTries \in [Blockers -> Nat]

VARIABLES
    issues,   \* the issues with the label, the oldest first: their branch, whether
              \* they are open and how many there were when their creator searched
    bpc,      \* where a run is
    known,    \* how many issues there were when it searched
    found,    \* the issue it is about to close
    btries

bvars == <<issues, bpc, known, found, btries>>

Numbers == 1..Len(issues)
Open(i) == issues[i].open
Own(r) == Asked[r].branch

\* Mutant of Listed: the oldest issues come first.
ListedOldest == {i \in Numbers : Open(i) /\ Cardinality({j \in 1..(i-1) : Open(j)}) < PageSize}

(* GitHub returns the newest open issues, one page of them.                  *)
Newer(i) == {j \in (i+1)..Len(issues) : Open(j)}
Listed == {i \in Numbers : Open(i) /\ Cardinality(Newer(i)) < PageSize}

(* The name is looked for anywhere behind "branch:", as a prefix.            *)
searchMergeBlockers(b) == {i \in Listed : <<b, issues[i].branch>> \in Begins}

BlockerInit ==
    /\ issues = <<>>
    /\ bpc = [r \in Blockers |-> "search"]
    /\ known = [r \in Blockers |-> 0] /\ found = [r \in Blockers |-> 0]
    /\ btries = [r \in Blockers |-> 1]

BGoto(r, where) == bpc' = [bpc EXCEPT ![r] = where]

createMergeBlocker(r) ==
    /\ bpc[r] = "search" /\ Asked[r].cmd = "create"
    /\ BGoto(r, IF searchMergeBlockers(Own(r)) # {} THEN "done" ELSE "create")
    /\ known' = [known EXCEPT ![r] = Len(issues)]
    /\ UNCHANGED <<issues, found, btries>>

(* The reply may be lost: the run fails, but the issue is there.             *)
CreateIssue(r) ==
    /\ bpc[r] = "create"
    /\ issues' = Append(issues, [branch |-> Own(r), open |-> TRUE, known |-> known[r]])
    /\ \E where \in {"done", "failed"} : BGoto(r, where)
    /\ UNCHANGED <<known, found, btries>>

Newest(is) == CHOOSE i \in is : \A j \in is : j <= i

closeMergeBlocker(r) ==
    /\ bpc[r] = "search" /\ Asked[r].cmd = "close"
    /\ LET hits == searchMergeBlockers(Own(r))
       IN  IF hits = {} THEN BGoto(r, "failed") /\ UNCHANGED found
           ELSE BGoto(r, "close") /\ found' = [found EXCEPT ![r] = Newest(hits)]
    /\ known' = [known EXCEPT ![r] = Len(issues)]
    /\ UNCHANGED <<issues, btries>>

CloseIssue(r) ==
    /\ bpc[r] = "close"
    /\ issues' = [issues EXCEPT ![found[r]].open = FALSE]
    /\ \E where \in {"done", "failed"} : BGoto(r, where)
    /\ UNCHANGED <<known, found, btries>>

BlockerCallFails(r) ==
    /\ bpc[r] \in {"search", "create", "close"}
    /\ BGoto(r, "failed")
    /\ UNCHANGED <<issues, known, found, btries>>

BlockerAgain(r) ==
    /\ bpc[r] \in {"done", "failed"} /\ btries[r] < BlockerTries[r]
    /\ BGoto(r, "search")
    /\ btries' = [btries EXCEPT ![r] = @ + 1]
    /\ UNCHANGED <<issues, known, found>>

BlockerNext == \E r \in Blockers :
    \/ createMergeBlocker(r) \/ CreateIssue(r) \/ closeMergeBlocker(r) \/ CloseIssue(r)
    \/ BlockerCallFails(r) \/ BlockerAgain(r)

BlockerSpec == BlockerInit /\ [][BlockerNext]_bvars

----------------------------------------------------------------------------
Issue == [branch: Branches, open: BOOLEAN, known: Nat]

BlockerTypeOK ==
    /\ issues \in Seq(Issue)
    /\ bpc \in [Blockers -> {"search", "create", "close", "done", "failed"}]
    /\ known \in [Blockers -> Nat] /\ found \in [Blockers -> Nat]
    /\ btries \in [Blockers -> Nat]
    /\ \A r \in Blockers : known[r] <= Len(issues) /\ found[r] <= known[r]
    /\ \A r \in Blockers : bpc[r] = "close" => found[r] \in Numbers
    /\ \A r \in Blockers : bpc[r] \in {"create", "close"} => bpc[r] = Asked[r].cmd

(* Two open issues for one branch come from a race or from a full page only: *)
(* whoever created the later one had searched before the earlier one was     *)
(* there, or when a page of newer ones was in front of it.  A run repeated   *)
(* after a lost reply finds the issue it had created.                        *)
DuplicatesNeedRace ==
    \A i, j \in Numbers :
        i < j /\ Open(i) /\ Open(j) /\ issues[i].branch = issues[j].branch =>
            \/ issues[j].known < i
            \/ issues[j].known - i >= PageSize

(* A close that has done its work leaves no issue for its branch but those   *)
(* created after its search and those older than the one it closed.          *)
CloseTakesNewest ==
    \A r \in Blockers :
        bpc[r] = "done" /\ Asked[r].cmd = "close" =>
            /\ found[r] \in Numbers /\ ~Open(found[r])
            /\ \A i \in Numbers :
                   Open(i) /\ issues[i].branch = Own(r) => i > known[r] \/ i < found[r]

----------------------------------------------------------------------------
(* The inductive invariant: what a search has told a run about the issues it *)
(* saw stays true of those that are still open.                              *)
SearchHolds ==
    \A r \in Blockers, i \in Numbers :
        i <= known[r] /\ Open(i) /\ issues[i].branch = Own(r) =>
            /\ bpc[r] = "create" => known[r] - i >= PageSize
            /\ bpc[r] = "close" => i <= found[r]

BlockerInv ==
    /\ BlockerTypeOK /\ SearchHolds /\ DuplicatesNeedRace /\ CloseTakesNewest
=============================================================================
