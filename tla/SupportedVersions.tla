------------------------- MODULE SupportedVersions --------------------------
(* pipeline supported-versions: of the versions that have a folder in the    *)
(* managed-tenants repository, those of the newest minor streams of the      *)
(* newest major streams that are not above production.  The lists of numbers *)
(* that are sorted and without duplicates are sets here, and a list that a   *)
(* loop takes from the folders is the set of the positions it takes.         *)
EXTENDS Naturals, Sequences, FiniteSets, SequencesExt

CONSTANTS
    Folders,     \* the lists of folders a repository may have, in their order
    Production,  \* the versions production may be at
    Counts       \* how many streams may be asked for

(* A folder whose name is no version, as those inside a bundle.              *)
NotAVersion == <<>>
Version == Nat \X Nat \X Nat

ASSUME FoldersAssumption ==
    /\ Folders \subseteq Seq(Version \union {NotAVersion})
    /\ Production \subseteq Version /\ Counts \subseteq Nat

VARIABLES asked, answer
svars == <<asked, answer>>

Major(v) == v[1]
Minor(v) == v[2]
Failed == [error |-> TRUE, list |-> {}]

getSemverValues(folders) ==
    IF NotAVersion \in ToSet(folders) THEN Failed ELSE [error |-> FALSE, list |-> DOMAIN folders]

(* Versions above production, but not above it by their patch number only.   *)
trimSemverVersions(folders, versions, p) ==
    {i \in versions : \/ Major(folders[i]) < Major(p)
                      \/ Major(folders[i]) = Major(p) /\ Minor(folders[i]) <= Minor(p)}

(* The last count of a sorted list.                                          *)
LastOf(numbers, count) == {n \in numbers : Cardinality({m \in numbers : m > n}) < count}

getMajorVersions(folders, versions, count) == LastOf({Major(folders[i]) : i \in versions}, count)

\* Mutant of Cut: the list is cut before the number is added.
CutFirst(numbers, n, count) == LastOf(numbers, count) \union {n}

(* A number that is there is skipped, a new one is added and the list cut.   *)
Cut(numbers, n, count) ==
    IF n \in numbers THEN numbers ELSE LastOf(numbers \union {n}, count)

(* The streams of a major version after each turn of the loop.               *)
Streams(folders, versions, m, count) ==
    LET numbers[i \in 0..Len(folders)] ==
            IF i = 0 THEN {}
            ELSE IF i \in versions /\ Major(folders[i]) = m
                 THEN Cut(numbers[i - 1], Minor(folders[i]), count)
            ELSE numbers[i - 1]
    IN  numbers

getMinorVersions(folders, versions, majors, count) ==
    [m \in majors |-> Streams(folders, versions, m, count)[Len(folders)]]

getPatchVersions(folders, versions, minors) ==
    {i \in versions : Major(folders[i]) \in DOMAIN minors
                      /\ Minor(folders[i]) \in minors[Major(folders[i])]}

(* An empty list is an error at every stage.                                 *)
Supported(q) ==
    LET parsed == getSemverValues(q.folders)
        versions == trimSemverVersions(q.folders, parsed.list, q.production)
        majors == getMajorVersions(q.folders, versions, q.majors)
        minors == getMinorVersions(q.folders, versions, majors, q.minors)
        list == getPatchVersions(q.folders, versions, minors)
    IN  IF parsed.error \/ list = {} THEN Failed ELSE [error |-> FALSE, list |-> list]

VersionsInit ==
    /\ asked \in [folders: Folders, production: Production, majors: Counts, minors: Counts]
    /\ answer = <<>>

run == answer = <<>> /\ answer' = Supported(asked) /\ UNCHANGED asked

VersionsSpec == VersionsInit /\ [][run]_svars

----------------------------------------------------------------------------
(* What the help of the command says, without the stages: a version is       *)
(* supported if fewer than the asked number of major streams are above its   *)
(* own and fewer than the asked number of minor streams within it, counting  *)
(* no stream above production's.  A higher patch of production's own stream  *)
(* counts, although the comment at getSupportedVersions.go:127 takes         *)
(* production for the newest: the loop compares streams only.                *)
AtMost(v, p) == Major(v) < Major(p) \/ (Major(v) = Major(p) /\ Minor(v) <= Minor(p))
Candidates == {v \in ToSet(asked.folders) : AtMost(v, asked.production)}

IsSupported(v) ==
    /\ Cardinality({Major(w) : w \in {u \in Candidates : Major(u) > Major(v)}}) < asked.majors
    /\ Cardinality({Minor(w) : w \in {u \in Candidates : Major(u) = Major(v) /\ Minor(u) > Minor(v)}})
           < asked.minors

(* The answer is those folders, whatever their order is (1.10.0 comes before *)
(* 1.2.0 there), and an error only if there are none.                        *)
SupportedExact ==
    answer # <<>> =>
        /\ answer.list = {i \in DOMAIN asked.folders :
               ~answer.error /\ asked.folders[i] \in Candidates /\ IsSupported(asked.folders[i])}
        /\ answer.error => \/ NotAVersion \in ToSet(asked.folders)
                           \/ \A v \in Candidates : ~IsSupported(v)

(* The version in production is among those supported, if it has a folder,   *)
(* the folders are readable and at least one stream of each kind is asked.   *)
ProductionSupported ==
    (answer # <<>> /\ NotAVersion \notin ToSet(asked.folders)
     /\ asked.production \in ToSet(asked.folders) /\ asked.majors > 0 /\ asked.minors > 0)
        => \E i \in answer.list : asked.folders[i] = asked.production
=============================================================================
