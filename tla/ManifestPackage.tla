-------------------------- MODULE ManifestPackage ---------------------------
(* ews extract-manifests copies the current bundle of a source package into  *)
(* a package directory that is kept under version control, file by file, and *)
(* makes it the current one; ews check-olm-graph then follows the chain of   *)
(* the versions.  Names and versions are numbers.  A bundle directory is     *)
(* named by its version; the file of a CSV has the CSV's number when it is   *)
(* named by the tool and 0 when it has the name its producer gave it, so the *)
(* numbers are in the order of the file names.                               *)
EXTENDS Naturals, Sequences, FiniteSets, FiniteSetsExt

CONSTANTS
    Sources,   \* the current CSVs that source packages may have
    FileOf,    \* the file such a CSV is in
    Package0,  \* the package directory at the beginning
    Rank,      \* the place of a version's directory in a listing
    Exempt,    \* the names of two CSVs of Keycloak
    MaxRuns

ASSUME SourcesAssumption ==
    /\ Sources \subseteq [name: Nat \ {0}, version: DOMAIN Rank, replaces: Nat]
    /\ FileOf \in [Sources -> Nat] /\ \A s \in Sources : FileOf[s] \in {0, s.name}
    /\ DOMAIN Rank \subseteq Nat \ {0} /\ Rank \in [DOMAIN Rank -> Nat]
    /\ \A v, w \in DOMAIN Rank : Rank[v] = Rank[w] => v = w
ASSUME PackageAssumption ==   \* at the beginning the package is in order
    LET versions == DOMAIN Package0.bundles
        current == Package0.package.current
        default == Package0.package.default
    IN  /\ versions \subseteq DOMAIN Rank
        /\ Package0.bundles \in [versions -> {Package0.bundles[v] : v \in versions}]
        /\ \A v \in versions : \E f \in DOMAIN Package0.bundles[v] :
               f # 0 /\ Package0.bundles[v] \in [{f} -> [name: Nat \intersect {f}, version: {v}, replaces: Nat]]
        /\ Package0.package \in [current: Seq(Nat), default: Nat]
        /\ default \in DOMAIN current
        /\ \E v \in versions : current[default] \in DOMAIN Package0.bundles[v]
ASSUME RunsAssumption == MaxRuns \in Nat

VARIABLES
    bundles,  \* version -> file -> CSV, of the package directory
    package,  \* package.yaml: the current CSV of every channel, the default
    step,     \* where the run is
    source,   \* the CSV it copies
    runs,
    cut       \* versions (0: the package file) that a run was stopped in

mvars == <<bundles, package, step, source, runs, cut>>

(* A file that was created and not written, and what reading one returns.    *)
Torn == [name |-> 0, version |-> 0, replaces |-> 0]
NoPackage == [current |-> <<>>, default |-> 1]
Resting == {"idle", "done", "failed"}

(* The first CSV file in the order of the names; no file is an error.        *)
ReadCSVFromBundleDirectory(dir) ==
    IF DOMAIN dir = {} THEN Torn ELSE dir[Min(DOMAIN dir)]

GetPackageManifest(p) == IF p.current = <<>> THEN 0 ELSE p.current[p.default]

(* The directories in the order of the listing: the first that cannot be     *)
(* read is an error, the first whose CSV has the name is the answer.  A CSV  *)
(* in the package directory itself would be the answer before them; a        *)
(* package made of bundle directories has none, and no step puts one there.  *)
First(vs) == CHOOSE v \in vs : \A w \in vs : Rank[v] <= Rank[w]

Stops(b, p) ==
    {v \in DOMAIN b : LET csv == ReadCSVFromBundleDirectory(b[v])
                      IN  csv = Torn \/ csv.name = GetPackageManifest(p)}

GetCurrentCSV(b, p) ==
    IF Stops(b, p) = {} THEN Torn ELSE ReadCSVFromBundleDirectory(b[First(Stops(b, p))])

VerifyManifestDirs == GetCurrentCSV(bundles, package) # Torn

ManifestInit ==
    /\ bundles = Package0.bundles /\ package = Package0.package
    /\ step = "idle" /\ source = Torn
    /\ runs = 0 /\ cut = {}

DoExtractManifests ==
    /\ step \in Resting /\ runs < MaxRuns
    /\ source' \in Sources
    /\ step' = IF VerifyManifestDirs THEN "mkdir" ELSE "failed"
    /\ runs' = runs + 1
    /\ UNCHANGED <<bundles, package, cut>>

Dest == source.version
With(dir, file, csv) ==
    [f \in DOMAIN dir \union {file} |-> IF f = file THEN csv ELSE dir[f]]

(* Every write truncates the file first: it may be all there is of it.       *)
Writes(where, v) ==
    \/ step' = where /\ UNCHANGED cut
    \/ step' = "failed" /\ cut' = cut \union {v}
Whole(csv) == IF step' = "failed" THEN Torn ELSE csv

(* CopyDirectory creates the directory if there is none and copies file by   *)
(* file.  It removes nothing that was there.                                 *)
CopyDirectory ==
    /\ step = "mkdir" /\ step' = "copy"
    /\ bundles' = [v \in DOMAIN bundles \union {Dest} |->
                      IF v \in DOMAIN bundles THEN bundles[v] ELSE [f \in {} |-> Torn]]
    /\ UNCHANGED <<package, source, runs, cut>>

CopyFile ==
    /\ step = "copy"
    /\ Writes("rename", Dest)
    /\ bundles' = [bundles EXCEPT ![Dest] = With(@, FileOf[source], Whole(source))]
    /\ UNCHANGED <<package, source, runs>>

RenameCSV ==
    /\ step = "rename" /\ step' = "package"
    /\ bundles' = [bundles EXCEPT ![Dest] =
                      [f \in (DOMAIN @ \ {FileOf[source]}) \union {source.name} |->
                          IF f = source.name THEN @[FileOf[source]] ELSE @[f]]]
    /\ UNCHANGED <<package, source, runs, cut>>

(* The first channel is set and becomes the default.                         *)
UpdatePackageManifest ==
    /\ step = "package" /\ package.current # <<>>
    /\ Writes("process", 0)
    /\ package' = IF step' = "failed" THEN NoPackage
                  ELSE [current |-> [package.current EXCEPT ![1] = source.name], default |-> 1]
    /\ UNCHANGED <<bundles, source, runs>>

(* The CSV that is the current one now is read and written back.             *)
ProcessCurrentCSV ==
    /\ step = "process"
    /\ VerifyManifestDirs
    /\ LET v == First(Stops(bundles, package))
       IN  /\ Writes("done", v)
           /\ bundles' = [bundles EXCEPT ![v] = With(@, Min(DOMAIN @), Whole(@[Min(DOMAIN @)]))]
    /\ UNCHANGED <<package, source, runs>>

(* A call that fails and a process that is killed end a run alike.           *)
ExtractStops ==
    /\ step \notin Resting
    /\ step' = "failed"
    /\ cut' = IF step \in {"copy", "rename"} THEN cut \union {Dest} ELSE cut
    /\ UNCHANGED <<bundles, package, source, runs>>

ManifestNext ==
    \/ DoExtractManifests \/ CopyDirectory \/ CopyFile \/ RenameCSV
    \/ UpdatePackageManifest \/ ProcessCurrentCSV \/ ExtractStops

ManifestSpec == ManifestInit /\ [][ManifestNext]_mvars

----------------------------------------------------------------------------
(* ews check-olm-graph: every CSV but the oldest, and but those exempt by    *)
(* name, replaces one that is there.                                         *)
GetSortedCSVNames == {ReadCSVFromBundleDirectory(bundles[v]) : v \in DOMAIN bundles}
ContainsName(name) == \E c \in GetSortedCSVNames : c.name = name
OldestCSV(csvs) == CHOOSE c \in csvs : \A d \in csvs : c.version <= d.version
NewestCSV(csvs) == CHOOSE c \in csvs : \A d \in csvs : d.version <= c.version

\* Mutant of checkGraphInDir: the loop starts one too low.
SkipNewest ==
    \A c \in GetSortedCSVNames \ {OldestCSV(GetSortedCSVNames), NewestCSV(GetSortedCSVNames)} :
        ContainsName(c.replaces) \/ c.name \in Exempt

checkGraphInDir ==
    \A c \in GetSortedCSVNames \ {OldestCSV(GetSortedCSVNames)} :
        ContainsName(c.replaces) \/ c.name \in Exempt

----------------------------------------------------------------------------
Csv == [name: Nat, version: Nat, replaces: Nat]

\* What the directory of a version may hold.
DirectoryOK(dir, version) ==
    /\ dir \in [DOMAIN dir -> Csv] /\ DOMAIN dir \subseteq Nat /\ IsFiniteSet(DOMAIN dir)
    /\ \A f \in DOMAIN dir :
           dir[f] # Torn =>
               dir[f].version = version /\ dir[f].name # 0 /\ f \in {0, dir[f].name}

ManifestTypeOK ==
    /\ DOMAIN bundles \subseteq DOMAIN Rank /\ bundles = [v \in DOMAIN bundles |-> bundles[v]]
    /\ \A v \in DOMAIN bundles : DirectoryOK(bundles[v], v)
    /\ package \in [current: Seq(Nat), default: Nat]
    /\ step \in Resting \union {"mkdir", "copy", "rename", "package", "process"}
    /\ source \in Sources \union {Torn} /\ runs \in 0..MaxRuns
    /\ cut \subseteq DOMAIN bundles \union {0}

(* A run that reports success leaves the CSV it copied as the current one of *)
(* the package, for every later command that looks.                          *)
CurrentIsCopied ==
    step = "done" => GetCurrentCSV(bundles, package).name = source.name

(* A package that cannot be read any more (no later run can repair it, they  *)
(* all begin by reading it) has one of two explanations: a run was stopped   *)
(* while it wrote, or one version came under two names, and the directory    *)
(* keeps both files.                                                         *)
Crowded == {v \in DOMAIN bundles : Cardinality(DOMAIN bundles[v]) > 1}

ReadableUnlessCut ==
    step \in Resting /\ ~VerifyManifestDirs =>
        \/ 0 \in cut \/ Crowded # {}
        \/ \E v \in cut : ReadCSVFromBundleDirectory(bundles[v]) = Torn

(* When every version replaces an older one, a graph that passes the check   *)
(* is a chain, or one for each exempt CSV: from every CSV the replaced ones  *)
(* lead down to the oldest or to an exempt one.  So a set that holds these,  *)
(* and what replaces its own, holds them all.                                *)
GraphIsChain ==
    (/\ Torn \notin GetSortedCSVNames /\ checkGraphInDir
     /\ \A c, d \in GetSortedCSVNames : c.replaces = d.name => d.version < c.version)
        => \A below \in SUBSET DOMAIN bundles :
               (/\ \A c \in GetSortedCSVNames :
                       c = OldestCSV(GetSortedCSVNames) \/ c.name \in Exempt => c.version \in below
                /\ \A c, d \in GetSortedCSVNames :
                       c.replaces = d.name /\ d.version \in below => c.version \in below)
                   => below = DOMAIN bundles

(* After any sequence of runs, complete or stopped: a run that succeeds has  *)
(* made its CSV the current one, a package that cannot be read any more was  *)
(* cut off or crowded, and one that passes the check is a chain.             *)
ManifestRight == ManifestTypeOK /\ CurrentIsCopied /\ ReadableUnlessCut /\ GraphIsChain

----------------------------------------------------------------------------
(* The inductive invariant.  What is torn, or was left empty, is in a        *)
(* version that a run was stopped in.                                        *)
CutKnown ==
    /\ \A v \in DOMAIN bundles : \A f \in DOMAIN bundles[v] :
           bundles[v][f] = Torn => v \in cut
    /\ \A v \in DOMAIN bundles :
           DOMAIN bundles[v] = {} => v \in cut \/ (step = "copy" /\ v = Dest)

(* Unless the package file is torn, a file with the name that the tool gives *)
(* to the CSV it names is there.                                             *)
Anchored ==
    \/ package = NoPackage /\ 0 \in cut
    \/ /\ package.default \in DOMAIN package.current
       /\ GetPackageManifest(package) # 0
       /\ \E v \in DOMAIN bundles : GetPackageManifest(package) \in DOMAIN bundles[v]

(* How far the run has come.                                                 *)
Copied(file) == file \in DOMAIN bundles[Dest] /\ bundles[Dest][file] = source

Carried ==
    /\ step \notin {"idle", "failed"} => source \in Sources
    /\ step \in {"copy", "rename", "package"} => Dest \in DOMAIN bundles
    /\ step = "rename" => Copied(FileOf[source])
    /\ step = "package" => Copied(source.name)
    /\ step \in {"process", "done"} =>
           package # NoPackage /\ GetPackageManifest(package) = source.name
    /\ step = "done" => VerifyManifestDirs

ManifestInv == ManifestTypeOK /\ CutKnown /\ Anchored /\ Carried
=============================================================================
