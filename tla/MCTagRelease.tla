---------------------------- MODULE MCTagRelease ----------------------------
(* Instances of TagRelease for TLC. *)
EXTENDS TagRelease

CONSTANTS r1, master, harness, latest

\* --quayRepos, cut down
Nothing == <<>>
One == <<[repo |-> r1, tag |-> Own]>>
OneAndLatest == One \o <<[repo |-> r1, tag |-> latest]>>

TagRepo(v) ==
  [cmd |-> "repo", ver |-> v, entries |-> Nothing, source |-> master, wait |-> FALSE]
TagImages(v, e, w) ==
  [cmd |-> "images", ver |-> v, entries |-> e, source |-> master, wait |-> w]

\* Everything for candidate 1 twice: two commands tag the repository, two the
\* images, of which one waits.
Race == [tag |-> TagRepo(1), tagAgain |-> TagRepo(1),
         img |-> TagImages(1, OneAndLatest, TRUE), imgAgain |-> TagImages(1, One, FALSE)]

\* A candidate with images, one without, and the final version, whose images
\* are of the test harness: --sourceTag names a CI tag of their own.
WholeRelease == [
  tag1 |-> TagRepo(1), img1 |-> TagImages(1, One, FALSE), tag2 |-> TagRepo(2),
  tag |-> TagRepo(0), img |-> [TagImages(0, One, TRUE) EXCEPT !.source = harness]]

\* One candidate.
OneCandidate == [tag |-> TagRepo(1), img |-> TagImages(1, One, TRUE)]

\* Candidates around the tenth.
TenCandidates == [tag9 |-> TagRepo(9), tag10 |-> TagRepo(10)]

\* A pipeline that does not wait.
NoWait == [img |-> TagImages(1, One, FALSE)]
=============================================================================
