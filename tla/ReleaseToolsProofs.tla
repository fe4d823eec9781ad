------------------------- MODULE ReleaseToolsProofs -------------------------
(* The commands on files and listings, for any packages, CSVs, constants and *)
(* requests, and what the tools promise when they are put together.          *)
EXTENDS MCReleaseTools, ReleaseFlowProofs, FindOrCreateProofs

(* The package directory.                                                    *)
LEMMA MinIsLeast ==
    ASSUME NEW S \in SUBSET Nat, S # {}
    PROVE  Min(S) \in S /\ \A x \in S : Min(S) <= x
BY LeastNumber DEF Min

LEMMA FirstIsLeast ==
    ASSUME NEW S \in SUBSET DOMAIN Rank, S # {}
    PROVE  First(S) \in S
<1> DEFINE ranks == {Rank[v] : v \in S}
<1>1. ranks \in SUBSET Nat /\ ranks # {}
    BY SourcesAssumption
<1>2. PICK x \in ranks : \A y \in ranks : x <= y
    BY <1>1, LeastNumber
<1>3. PICK v \in S : Rank[v] = x
    OBVIOUS
<1>4. \A w \in S : Rank[v] <= Rank[w]
    BY <1>2, <1>3
<1> QED BY <1>3, <1>4 DEF First

LEMMA SourceIs ==
    \A s \in Sources :
        /\ s \in Csv /\ s # Torn /\ s.name \in Nat \ {0}
        /\ s.version \in DOMAIN Rank /\ s.version \in Nat /\ FileOf[s] \in {0, s.name}
BY SourcesAssumption DEF Csv, Torn

LEMMA TornIsCsv == Torn \in Csv
BY DEF Torn, Csv

(* What a directory is after a file of it was written.                       *)
FileOK(f, c, v) ==
    f \in Nat /\ c \in Csv /\ (c # Torn => c.version = v /\ c.name # 0 /\ f \in {0, c.name})

LEMMA WithOK ==
    ASSUME NEW dir, NEW v, NEW f, NEW c, DirectoryOK(dir, v), FileOK(f, c, v)
    PROVE  DirectoryOK(With(dir, f, c), v)
<1> DEFINE new == With(dir, f, c)
<1>1. DOMAIN new = DOMAIN dir \union {f} /\ new = [g \in DOMAIN new |-> new[g]]
    BY DEF With
<1>2. \A g \in DOMAIN dir \union {f} : new[g] = IF g = f THEN c ELSE dir[g]
    BY DEF With
<1>3. IsFiniteSet(DOMAIN new)
    BY <1>1, FS_AddElement DEF DirectoryOK
<1>4. new \in [DOMAIN new -> Csv] /\ DOMAIN new \subseteq Nat
    BY <1>1, <1>2 DEF DirectoryOK, FileOK
<1>5. \A g \in DOMAIN new : new[g] # Torn =>
          new[g].version = v /\ new[g].name # 0 /\ g \in {0, new[g].name}
    BY <1>1, <1>2 DEF DirectoryOK, FileOK
<1> QED BY <1>3, <1>4, <1>5 DEF DirectoryOK

(* The first file of a directory that has one.                               *)
LEMMA FirstFile ==
    ASSUME NEW dir, NEW v, DirectoryOK(dir, v), DOMAIN dir # {}
    PROVE  /\ Min(DOMAIN dir) \in DOMAIN dir
           /\ ReadCSVFromBundleDirectory(dir) = dir[Min(DOMAIN dir)]
           /\ ReadCSVFromBundleDirectory(dir) \in Csv
           /\ ReadCSVFromBundleDirectory(dir) # Torn =>
                  ReadCSVFromBundleDirectory(dir).version = v
BY MinIsLeast DEF DirectoryOK, ReadCSVFromBundleDirectory

(* What GetCurrentCSV returns when it is not an error.                       *)
LEMMA CurrentIs ==
    ASSUME ManifestTypeOK, VerifyManifestDirs
    PROVE  LET v == First(Stops(bundles, package))
           IN  /\ v \in DOMAIN bundles /\ DOMAIN bundles[v] # {}
               /\ GetCurrentCSV(bundles, package) = bundles[v][Min(DOMAIN bundles[v])]
               /\ bundles[v][Min(DOMAIN bundles[v])] # Torn
               /\ GetCurrentCSV(bundles, package).name = GetPackageManifest(package)
<1> DEFINE stops == Stops(bundles, package)
           v == First(stops)
<1>1. stops # {} /\ GetCurrentCSV(bundles, package) = ReadCSVFromBundleDirectory(bundles[v])
      /\ ReadCSVFromBundleDirectory(bundles[v]) # Torn
    BY DEF VerifyManifestDirs, GetCurrentCSV
<1>2. v \in stops /\ v \in DOMAIN bundles
    <2>1. stops \subseteq DOMAIN bundles /\ stops \in SUBSET DOMAIN Rank
        BY DEF ManifestTypeOK, Stops
    <2> QED BY <1>1, <2>1, FirstIsLeast
<1>3. DOMAIN bundles[v] # {}
    BY <1>1 DEF ReadCSVFromBundleDirectory
<1>4. ReadCSVFromBundleDirectory(bundles[v]) = bundles[v][Min(DOMAIN bundles[v])]
    BY <1>3 DEF ReadCSVFromBundleDirectory
<1>5. ReadCSVFromBundleDirectory(bundles[v]).name = GetPackageManifest(package)
    BY <1>1, <1>2 DEF Stops
<1> QED BY <1>1, <1>2, <1>3, <1>4, <1>5

----------------------------------------------------------------------------
LEMMA ManifestStart == ASSUME ManifestInit PROVE ManifestInv
<1>1. \A v \in DOMAIN bundles : DirectoryOK(bundles[v], v) /\ DOMAIN bundles[v] # {}
                                /\ \A f \in DOMAIN bundles[v] : bundles[v][f] # Torn
    <2> SUFFICES ASSUME NEW v \in DOMAIN bundles
                 PROVE  DirectoryOK(bundles[v], v) /\ DOMAIN bundles[v] # {}
                        /\ \A f \in DOMAIN bundles[v] : bundles[v][f] # Torn
        OBVIOUS
    <2> DEFINE dir == bundles[v]
    <2>1. PICK f \in DOMAIN dir :
              f # 0 /\ dir \in [{f} -> [name: Nat \intersect {f}, version: {v}, replaces: Nat]]
        BY PackageAssumption DEF ManifestInit
    <2>2. DOMAIN dir = {f} /\ dir = [g \in {f} |-> dir[g]]
          /\ dir[f] \in [name: Nat \intersect {f}, version: {v}, replaces: Nat]
        BY <2>1
    <2>3. v \in Nat
        BY PackageAssumption, SourcesAssumption DEF ManifestInit
    <2>4. dir[f] \in Csv /\ dir[f].name = f /\ dir[f].version = v /\ f \in Nat /\ dir[f] # Torn
        BY <2>1, <2>2, <2>3 DEF Csv, Torn
    <2>5. IsFiniteSet(DOMAIN dir)
        BY <2>2, FS_Singleton
    <2> QED BY <2>1, <2>2, <2>4, <2>5 DEF DirectoryOK
<1>2. package \in [current: Seq(Nat), default: Nat]
    BY PackageAssumption DEF ManifestInit
<1>3. /\ DOMAIN bundles \subseteq DOMAIN Rank /\ bundles = [v \in DOMAIN bundles |-> bundles[v]]
      /\ step = "idle" /\ source = Torn /\ runs \in 0..MaxRuns /\ cut = {}
    BY PackageAssumption, RunsAssumption DEF ManifestInit
<1>4. ManifestTypeOK
    BY <1>1, <1>2, <1>3 DEF ManifestTypeOK, Resting
<1>5. CutKnown
    BY <1>1, <1>3 DEF CutKnown
<1>6. Anchored
    <2>1. PICK v \in DOMAIN bundles : package.current[package.default] \in DOMAIN bundles[v]
        BY PackageAssumption DEF ManifestInit
    <2>2. package.default \in DOMAIN package.current /\ package.current # <<>>
        BY PackageAssumption DEF ManifestInit
    <2>3. PICK f \in DOMAIN bundles[v] :
              f # 0 /\ bundles[v] \in [{f} -> [name: Nat \intersect {f}, version: {v}, replaces: Nat]]
        BY PackageAssumption DEF ManifestInit
    <2>4. package.current[package.default] # 0
        BY <2>1, <2>3
    <2> QED BY <2>1, <2>2, <2>4 DEF Anchored, GetPackageManifest
<1>7. Carried
    BY <1>3 DEF Carried
<1> QED BY <1>4, <1>5, <1>6, <1>7 DEF ManifestInv

LEMMA ExtractStep == ASSUME ManifestInv, DoExtractManifests PROVE ManifestInv'
<1>1. ManifestTypeOK' /\ CutKnown' /\ Anchored' /\ Carried'
    <2>1. /\ source' \in Sources /\ runs' \in 0..MaxRuns /\ step' \in {"mkdir", "failed"}
          /\ step \in Resting
        BY RunsAssumption DEF ManifestInv, ManifestTypeOK, DoExtractManifests
    <2>2. ManifestTypeOK'
        BY <2>1 DEF ManifestInv, ManifestTypeOK, DoExtractManifests, Resting
    <2>3. CutKnown'
        BY <2>1 DEF ManifestInv, CutKnown, DoExtractManifests, Resting
    <2>4. Anchored'
        BY DEF ManifestInv, Anchored, DoExtractManifests
    <2>5. Carried'
        BY <2>1 DEF Carried
    <2> QED BY <2>2, <2>3, <2>4, <2>5
<1> QED BY <1>1 DEF ManifestInv

LEMMA DirectoryStep == ASSUME ManifestInv, CopyDirectory PROVE ManifestInv'
<1> DEFINE empty == [f \in {} |-> Torn]
<1>1. /\ step = "mkdir" /\ step' = "copy" /\ source \in Sources /\ source' = source
      /\ UNCHANGED <<package, runs, cut>>
    BY DEF CopyDirectory, ManifestInv, Carried
<1>2. Dest \in DOMAIN Rank /\ Dest \in Nat /\ Dest' = Dest
    BY <1>1, SourceIs DEF Dest
<1>3. /\ DOMAIN bundles' = DOMAIN bundles \union {Dest}
      /\ bundles' = [v \in DOMAIN bundles' |-> bundles'[v]]
      /\ \A v \in DOMAIN bundles : bundles'[v] = bundles[v]
      /\ Dest \notin DOMAIN bundles => bundles'[Dest] = empty
    BY DEF CopyDirectory
<1>4. DirectoryOK(empty, Dest) /\ DOMAIN empty = {}
    BY FS_EmptySet DEF DirectoryOK
<1>5. \A v \in DOMAIN bundles' : DirectoryOK(bundles'[v], v)
    BY <1>3, <1>4 DEF ManifestInv, ManifestTypeOK
<1>6. ManifestTypeOK'
    BY <1>1, <1>2, <1>3, <1>5 DEF ManifestInv, ManifestTypeOK
<1>7. CutKnown'
    BY <1>1, <1>2, <1>3, <1>4 DEF ManifestInv, CutKnown
<1>8. Anchored'
    BY <1>1, <1>3 DEF ManifestInv, Anchored
<1>9. Carried'
    BY <1>1, <1>2, <1>3 DEF Carried
<1> QED BY <1>6, <1>7, <1>8, <1>9 DEF ManifestInv

(* A step that writes in the directory of one version, or stops there.       *)
LEMMA DirectoryChanges ==
    ASSUME ManifestInv, NEW v \in DOMAIN bundles, NEW dir, DirectoryOK(dir, v),
           bundles' = [bundles EXCEPT ![v] = dir],
           DOMAIN dir # {},
           \A f \in DOMAIN dir : dir[f] = Torn => v \in cut',
           \A f \in DOMAIN bundles[v] : f # 0 => f \in DOMAIN dir,
           cut' \in {cut, cut \union {v}}, step # "copy" \/ v = Dest,
           step' \in {"done", "failed", "rename", "package"},
           UNCHANGED <<package, source, runs>>
    PROVE  /\ ManifestTypeOK' /\ CutKnown' /\ Anchored'
           /\ DOMAIN bundles' = DOMAIN bundles /\ bundles'[v] = dir
<1>1. /\ DOMAIN bundles' = DOMAIN bundles /\ bundles'[v] = dir
      /\ bundles' = [w \in DOMAIN bundles' |-> bundles'[w]]
      /\ \A w \in DOMAIN bundles \ {v} : bundles'[w] = bundles[w]
    BY DEF ManifestInv, ManifestTypeOK
<1>2. \A w \in DOMAIN bundles' : DirectoryOK(bundles'[w], w)
    BY <1>1 DEF ManifestInv, ManifestTypeOK
<1>3. ManifestTypeOK'
    BY <1>1, <1>2 DEF ManifestInv, ManifestTypeOK, Resting
<1>4. CutKnown'
    BY <1>1 DEF ManifestInv, CutKnown
<1>5. GetPackageManifest(package)' = GetPackageManifest(package)
    BY DEF GetPackageManifest
<1>6. Anchored'
    <2>1. CASE package = NoPackage /\ 0 \in cut
        BY <2>1 DEF Anchored, NoPackage
    <2>2. CASE ~(package = NoPackage /\ 0 \in cut)
        <3>1. PICK w \in DOMAIN bundles : GetPackageManifest(package) \in DOMAIN bundles[w]
            BY <2>2 DEF ManifestInv, Anchored
        <3>2. GetPackageManifest(package) \in DOMAIN bundles'[w]
            BY <1>1, <2>2, <3>1 DEF ManifestInv, Anchored
        <3> QED BY <1>1, <1>5, <2>2, <3>2 DEF ManifestInv, Anchored
    <2> QED BY <2>1, <2>2
<1> QED BY <1>1, <1>3, <1>4, <1>6

LEMMA FileStep == ASSUME ManifestInv, CopyFile PROVE ManifestInv'
<1> DEFINE from == FileOf[source]
           content == Whole(source)
           dir == With(bundles[Dest], from, content)
<1>1. /\ step = "copy" /\ source \in Sources /\ Dest \in DOMAIN bundles
      /\ UNCHANGED <<package, source, runs>> /\ bundles' = [bundles EXCEPT ![Dest] = dir]
    BY DEF CopyFile, ManifestInv, Carried
<1>2. \/ step' = "rename" /\ cut' = cut /\ content = source
      \/ step' = "failed" /\ cut' = cut \union {Dest} /\ content = Torn
    BY DEF CopyFile, Writes, Whole
<1>3. /\ source \in Csv /\ source # Torn /\ source.name \in Nat \ {0}
      /\ from \in Nat /\ from \in {0, source.name} /\ source.version = Dest
    BY <1>1, SourceIs DEF Dest
<1>4. DirectoryOK(bundles[Dest], Dest)
    BY <1>1 DEF ManifestInv, ManifestTypeOK
<1>5. content \in Csv /\ (content # Torn => content = source)
    BY <1>2, <1>3, TornIsCsv
<1>6. /\ DirectoryOK(dir, Dest) /\ DOMAIN dir = DOMAIN bundles[Dest] \union {from}
      /\ dir[from] = content /\ \A g \in DOMAIN bundles[Dest] \ {from} : dir[g] = bundles[Dest][g]
    <2> HIDE DEF content, from
    <2>1. FileOK(from, content, Dest)
        BY <1>3, <1>5 DEF FileOK
    <2>2. DirectoryOK(dir, Dest)
        BY <1>4, <2>1, WithOK
    <2>3. DOMAIN dir = DOMAIN bundles[Dest] \union {from}
        BY DEF With
    <2>4. dir[from] = content
        BY DEF With
    <2>5. \A g \in DOMAIN bundles[Dest] \ {from} : dir[g] = bundles[Dest][g]
        BY DEF With
    <2> QED BY <2>2, <2>3, <2>4, <2>5
<1>7. \A f \in DOMAIN dir : dir[f] = Torn => Dest \in cut'
    BY <1>1, <1>2, <1>3, <1>6 DEF ManifestInv, CutKnown
<1>8. /\ ManifestTypeOK' /\ CutKnown' /\ Anchored'
      /\ DOMAIN bundles' = DOMAIN bundles /\ bundles'[Dest] = dir
    <2> HIDE DEF dir, content
    <2> QED BY <1>1, <1>2, <1>6, <1>7, DirectoryChanges
<1>9. Carried'
    BY <1>1, <1>2, <1>6, <1>8 DEF Carried, Copied, Dest
<1> QED BY <1>8, <1>9 DEF ManifestInv

LEMMA RenameStep == ASSUME ManifestInv, RenameCSV PROVE ManifestInv'
<1> DEFINE from == FileOf[source]
           old == bundles[Dest]
           dir == [f \in (DOMAIN old \ {from}) \union {source.name} |->
                      IF f = source.name THEN old[from] ELSE old[f]]
<1>1. /\ step = "rename" /\ step' = "package" /\ source \in Sources /\ Dest \in DOMAIN bundles
      /\ UNCHANGED <<package, source, runs, cut>> /\ bundles' = [bundles EXCEPT ![Dest] = dir]
      /\ from \in DOMAIN old /\ old[from] = source
    BY DEF RenameCSV, ManifestInv, Carried, Copied
<1>2. /\ source \in Csv /\ source # Torn /\ source.name \in Nat \ {0}
      /\ from \in Nat /\ from \in {0, source.name} /\ source.version = Dest
    BY <1>1, SourceIs DEF Dest
<1>3. DirectoryOK(old, Dest)
    BY <1>1 DEF ManifestInv, ManifestTypeOK
<1>4. /\ DOMAIN dir = (DOMAIN old \ {from}) \union {source.name}
      /\ dir[source.name] = source /\ dir = [f \in DOMAIN dir |-> dir[f]]
      /\ \A f \in DOMAIN dir \ {source.name} : f \in DOMAIN old /\ dir[f] = old[f]
    BY <1>1
<1>5. DirectoryOK(dir, Dest)
    <2>1. IsFiniteSet(DOMAIN old \ {from})
        BY <1>3, FS_Subset DEF DirectoryOK
    <2>2. IsFiniteSet(DOMAIN dir)
        BY <1>4, <2>1, FS_AddElement
    <2>3. dir \in [DOMAIN dir -> Csv] /\ DOMAIN dir \subseteq Nat
        BY <1>2, <1>3, <1>4 DEF DirectoryOK
    <2> HIDE DEF dir
    <2> QED BY <1>2, <1>3, <1>4, <2>2, <2>3 DEF DirectoryOK
<1>6. \A f \in DOMAIN dir : dir[f] = Torn => Dest \in cut'
    BY <1>1, <1>2, <1>4 DEF ManifestInv, CutKnown
<1>7. \A f \in DOMAIN old : f # 0 => f \in DOMAIN dir
    BY <1>2, <1>4
<1>8. /\ ManifestTypeOK' /\ CutKnown' /\ Anchored'
      /\ DOMAIN bundles' = DOMAIN bundles /\ bundles'[Dest] = dir
    <2>1. DOMAIN dir # {}
        BY <1>4
    <2> HIDE DEF dir
    <2> QED BY <1>1, <1>5, <1>6, <1>7, <2>1, DirectoryChanges
<1>9. Carried'
    BY <1>1, <1>4, <1>8 DEF Carried, Copied, Dest
<1> QED BY <1>8, <1>9 DEF ManifestInv

LEMMA PackageStep == ASSUME ManifestInv, UpdatePackageManifest PROVE ManifestInv'
<1>1. /\ step = "package" /\ package.current # <<>> /\ source \in Sources /\ Dest \in DOMAIN bundles
      /\ UNCHANGED <<bundles, source, runs>> /\ Copied(source.name)
    BY DEF UpdatePackageManifest, ManifestInv, Carried
<1>2. source.name \in Nat \ {0}
    BY <1>1, SourceIs
<1>3. CASE step' = "failed"
    <2>1. cut' = cut \union {0} /\ package' = NoPackage
        BY <1>3 DEF UpdatePackageManifest, Writes
    <2>2. NoPackage \in [current: Seq(Nat), default: Nat]
        BY DEF NoPackage
    <2>3. ManifestTypeOK'
        BY <1>1, <1>3, <2>1, <2>2 DEF ManifestInv, ManifestTypeOK, Resting
    <2>4. CutKnown'
        BY <1>1, <1>3, <2>1 DEF ManifestInv, CutKnown
    <2>5. Anchored'
        BY <2>1 DEF Anchored, NoPackage
    <2>6. Carried'
        BY <1>3 DEF Carried
    <2> QED BY <2>3, <2>4, <2>5, <2>6 DEF ManifestInv
<1>4. CASE step' # "failed"
    <2>1. /\ step' = "process" /\ cut' = cut
          /\ package' = [current |-> [package.current EXCEPT ![1] = source.name], default |-> 1]
        BY <1>4 DEF UpdatePackageManifest, Writes
    <2>2. package.current \in Seq(Nat) /\ 1 \in DOMAIN package.current
        BY <1>1 DEF ManifestInv, ManifestTypeOK
    <2>3. /\ package'.current \in Seq(Nat) /\ package'.current[1] = source.name
          /\ 1 \in DOMAIN package'.current /\ package'.default = 1
          /\ package' \in [current: Seq(Nat), default: Nat] /\ package'.current # <<>>
        BY <1>2, <2>1, <2>2
    <2>4. ManifestTypeOK'
        BY <1>1, <2>1, <2>3 DEF ManifestInv, ManifestTypeOK
    <2>5. CutKnown'
        BY <1>1, <2>1 DEF ManifestInv, CutKnown
    <2>6. GetPackageManifest(package)' = source.name /\ package' # NoPackage
        BY <2>3 DEF GetPackageManifest, NoPackage
    <2>7. Anchored'
        BY <1>1, <1>2, <2>3, <2>6 DEF Anchored, Copied
    <2>8. Carried'
        BY <1>1, <2>1, <2>6 DEF Carried
    <2> QED BY <2>4, <2>5, <2>7, <2>8 DEF ManifestInv
<1> QED BY <1>3, <1>4

LEMMA ProcessStep == ASSUME ManifestInv, ProcessCurrentCSV PROVE ManifestInv'
<1> DEFINE v == First(Stops(bundles, package))
           old == bundles[v]
           first == Min(DOMAIN old)
           content == Whole(old[first])
           dir == With(old, first, content)
<1>1. /\ step = "process" /\ UNCHANGED <<package, source, runs>>
      /\ bundles' = [bundles EXCEPT ![v] = dir]
    BY DEF ProcessCurrentCSV
<1>2. \/ step' = "done" /\ cut' = cut /\ content = old[first]
      \/ step' = "failed" /\ cut' = cut \union {v} /\ content = Torn
    BY DEF ProcessCurrentCSV, Writes, Whole
<1>3. v \in DOMAIN bundles /\ DOMAIN old # {} /\ old[first] # Torn /\ DirectoryOK(old, v)
    BY CurrentIs DEF ManifestInv, ProcessCurrentCSV, ManifestTypeOK
<1>4. first \in DOMAIN old /\ first \in Nat /\ old[first] \in Csv
    BY <1>3, FirstFile DEF DirectoryOK
<1>5. content \in Csv /\ (content # Torn => content.version = v /\ content.name # 0 /\ first \in {0, content.name})
    BY <1>2, <1>3, <1>4, TornIsCsv DEF DirectoryOK
<1>6. /\ DirectoryOK(dir, v) /\ DOMAIN dir = DOMAIN old \union {first}
      /\ dir[first] = content /\ \A g \in DOMAIN old \ {first} : dir[g] = old[g]
    <2> HIDE DEF content, first, old, v
    <2>1. FileOK(first, content, v)
        BY <1>4, <1>5 DEF FileOK
    <2>2. DirectoryOK(dir, v)
        BY <1>3, <2>1, WithOK
    <2>3. DOMAIN dir = DOMAIN old \union {first}
        BY DEF With
    <2>4. dir[first] = content
        BY DEF With
    <2>5. \A g \in DOMAIN old \ {first} : dir[g] = old[g]
        BY DEF With
    <2> QED BY <2>2, <2>3, <2>4, <2>5
<1>7. \A f \in DOMAIN dir : dir[f] = Torn => v \in cut'
    BY <1>2, <1>3, <1>4, <1>6 DEF ManifestInv, CutKnown
<1>8. /\ ManifestTypeOK' /\ CutKnown' /\ Anchored'
      /\ DOMAIN bundles' = DOMAIN bundles /\ bundles'[v] = dir
    <2>1. DOMAIN dir # {} /\ \A f \in DOMAIN old : f \in DOMAIN dir
        BY <1>4, <1>6
    <2> HIDE DEF dir, content, v
    <2> QED BY <1>1, <1>2, <1>3, <1>6, <1>7, <2>1, DirectoryChanges
<1>9. Carried'
    <2>1. CASE step' = "done"
        <3>1. content = old[first]
            BY <1>2, <2>1
        <3>2. DOMAIN dir = DOMAIN old /\ \A g \in DOMAIN old : dir[g] = old[g]
            BY <1>4, <1>6, <3>1
        <3>3. old = [g \in DOMAIN old |-> old[g]] /\ dir = [g \in DOMAIN dir |-> dir[g]]
            BY <1>3 DEF DirectoryOK, With
        <3>4. dir = old
            <4> HIDE DEF dir, old
            <4> QED BY <3>2, <3>3
        <3>5. bundles' = bundles
            BY <1>1, <1>3, <3>4 DEF ManifestInv, ManifestTypeOK
        <3>6. VerifyManifestDirs'
            BY <1>1, <3>5 DEF ProcessCurrentCSV, VerifyManifestDirs
        <3> QED BY <1>1, <2>1, <3>6 DEF ManifestInv, Carried, GetPackageManifest
    <2>2. CASE step' = "failed"
        BY <2>2 DEF Carried
    <2> QED BY <1>2, <2>1, <2>2
<1> QED BY <1>8, <1>9 DEF ManifestInv

LEMMA StopStep == ASSUME ManifestInv, ExtractStops PROVE ManifestInv'
<1>1. /\ step' = "failed" /\ UNCHANGED <<bundles, package, source, runs>> /\ step \notin Resting
      /\ cut \subseteq cut' /\ (step = "copy" => Dest \in cut')
      /\ cut' \subseteq DOMAIN bundles \union {0}
    BY DEF ExtractStops, ManifestInv, ManifestTypeOK, Carried
<1>2. ManifestTypeOK'
    BY <1>1 DEF ManifestInv, ManifestTypeOK, Resting
<1>3. CutKnown'
    BY <1>1 DEF ManifestInv, CutKnown
<1>4. Anchored'
    BY <1>1 DEF ManifestInv, Anchored, GetPackageManifest, NoPackage
<1>5. Carried'
    BY <1>1 DEF Carried
<1> QED BY <1>2, <1>3, <1>4, <1>5 DEF ManifestInv

LEMMA ManifestStep == ManifestInv /\ [ManifestNext]_mvars => ManifestInv'
<1> SUFFICES ASSUME ManifestInv, [ManifestNext]_mvars PROVE ManifestInv'
    OBVIOUS
<1>1. CASE UNCHANGED mvars
    BY <1>1 DEF mvars, ManifestInv, ManifestTypeOK, CutKnown, Anchored, Carried, Copied, Dest,
        VerifyManifestDirs, GetPackageManifest
<1>2. CASE ManifestNext
    BY <1>2, ExtractStep, DirectoryStep, FileStep, RenameStep, PackageStep, ProcessStep, StopStep
        DEF ManifestNext
<1> QED BY <1>1, <1>2

THEOREM ManifestInvariant == ManifestSpec => []ManifestInv
<1>1. ManifestInit => ManifestInv
    BY ManifestStart
<1> QED BY <1>1, ManifestStep, PTL DEF ManifestSpec

----------------------------------------------------------------------------
LEMMA DoneIsCurrent == ManifestInv => CurrentIsCopied
BY CurrentIs DEF ManifestInv, Carried, CurrentIsCopied

LEMMA UnreadableExplained == ManifestInv => ReadableUnlessCut
<1> SUFFICES ASSUME ManifestInv, step \in Resting, ~VerifyManifestDirs, 0 \notin cut, Crowded = {}
             PROVE  \E v \in cut : ReadCSVFromBundleDirectory(bundles[v]) = Torn
    BY DEF ReadableUnlessCut
<1> DEFINE n == GetPackageManifest(package)
<1>1. PICK v \in DOMAIN bundles : n \in DOMAIN bundles[v] /\ n # 0
    BY DEF ManifestInv, Anchored
<1>2. DirectoryOK(bundles[v], v)
    BY DEF ManifestInv, ManifestTypeOK
<1>3. ASSUME NEW m \in DOMAIN bundles[v] PROVE m = n
    <2>1. SUFFICES ASSUME m # n PROVE FALSE
        OBVIOUS
    <2>2. IsFiniteSet({n}) /\ Cardinality({n}) = 1
        BY FS_Singleton
    <2>3. m \notin {n}
        BY <2>1
    <2>4. IsFiniteSet({n} \union {m}) /\ Cardinality({n} \union {m}) = 2
        <3> DEFINE S == {n}
        <3>1. S = {n}
            OBVIOUS
        <3> HIDE DEF S
        <3>2. IsFiniteSet(S) /\ m \notin S /\ Cardinality(S) = 1
            BY <2>2, <2>3, <3>1
        <3>3. IsFiniteSet(S \union {m}) /\ Cardinality(S \union {m}) = Cardinality(S) + 1
            BY <3>2, FS_AddElement
        <3> QED BY <3>1, <3>2, <3>3
    <2>5. IsFiniteSet(DOMAIN bundles[v]) /\ {n} \union {m} \in SUBSET DOMAIN bundles[v]
        BY <1>1, <1>2 DEF DirectoryOK
    <2>6. Cardinality({n} \union {m}) <= Cardinality(DOMAIN bundles[v])
        BY <2>5, FS_Subset
    <2>7. Cardinality(DOMAIN bundles[v]) \in Nat
        BY <2>5, FS_CardinalityType
    <2>8. Cardinality(DOMAIN bundles[v]) > 1
        BY <2>4, <2>6, <2>7
    <2> QED BY <2>8 DEF Crowded
<1>4. v \in Stops(bundles, package)
    <2>1. DOMAIN bundles[v] # {} /\ Min(DOMAIN bundles[v]) = n
        BY <1>1, <1>2, <1>3, FirstFile
    <2>2. ReadCSVFromBundleDirectory(bundles[v]) = bundles[v][n]
        BY <2>1 DEF ReadCSVFromBundleDirectory
    <2>3. bundles[v][n] # Torn => bundles[v][n].name = n
        BY <1>1, <1>2 DEF DirectoryOK
    <2> QED BY <2>2, <2>3 DEF Stops
<1> DEFINE w == First(Stops(bundles, package))
<1>5. w \in DOMAIN bundles /\ DirectoryOK(bundles[w], w)
    <2>1. Stops(bundles, package) \subseteq DOMAIN bundles
        BY DEF Stops
    <2>2. w \in Stops(bundles, package)
        BY <1>4, <2>1, FirstIsLeast DEF ManifestInv, ManifestTypeOK
    <2> QED BY <2>1, <2>2 DEF ManifestInv, ManifestTypeOK
<1>6. ReadCSVFromBundleDirectory(bundles[w]) = Torn
    BY <1>4 DEF VerifyManifestDirs, GetCurrentCSV
<1>7. w \in cut
    <2>1. CASE DOMAIN bundles[w] = {}
        BY <1>5, <2>1 DEF ManifestInv, CutKnown, Resting
    <2>2. CASE DOMAIN bundles[w] # {}
        BY <1>5, <1>6, <2>2, FirstFile DEF ManifestInv, CutKnown
    <2> QED BY <2>1, <2>2
<1> QED BY <1>6, <1>7

LEMMA PassedIsChain == ManifestTypeOK => GraphIsChain
<1> DEFINE csvs == GetSortedCSVNames
<1> SUFFICES ASSUME ManifestTypeOK, Torn \notin csvs, checkGraphInDir,
                    \A x, y \in csvs : x.replaces = y.name => y.version < x.version,
                    NEW below \in SUBSET DOMAIN bundles,
                    \A x \in csvs : x = OldestCSV(csvs) \/ x.name \in Exempt => x.version \in below,
                    \A x, y \in csvs :
                        x.replaces = y.name /\ y.version \in below => x.version \in below,
                    below # DOMAIN bundles
             PROVE  FALSE
    BY DEF GraphIsChain
<1> DEFINE Of(v) == ReadCSVFromBundleDirectory(bundles[v])
<1>1. \A v \in DOMAIN bundles : Of(v) \in csvs /\ Of(v).version = v
    <2> TAKE v \in DOMAIN bundles
    <2>1. Of(v) \in csvs /\ Of(v) # Torn
        BY DEF GetSortedCSVNames
    <2>2. DOMAIN bundles[v] # {}
        BY <2>1 DEF ReadCSVFromBundleDirectory
    <2> QED BY <2>1, <2>2, FirstFile DEF ManifestTypeOK
<1>2. \A x \in csvs : x.version \in DOMAIN bundles /\ x = Of(x.version)
    BY <1>1 DEF GetSortedCSVNames
<1>3. DOMAIN bundles \in SUBSET Nat
    BY SourcesAssumption DEF ManifestTypeOK
<1> DEFINE above == DOMAIN bundles \ below
<1>4. PICK v \in above : \A w \in above : v <= w
    BY <1>3, LeastNumber
<1>5. Of(v) # OldestCSV(csvs) /\ Of(v).name \notin Exempt
    BY <1>1, <1>4
<1>6. PICK y \in csvs : y.name = Of(v).replaces
    BY <1>1, <1>4, <1>5 DEF checkGraphInDir, ContainsName
<1>7. y.version < v /\ y.version \in DOMAIN bundles /\ v \in Nat
    BY <1>1, <1>2, <1>3, <1>4, <1>6
<1>8. y.version \in below
    BY <1>3, <1>4, <1>7
<1> QED BY <1>1, <1>4, <1>6, <1>8

(* After any sequence of runs of extract-manifests, complete or stopped: a   *)
(* run that succeeds has made its CSV the current one, a package that cannot *)
(* be read any more was cut off or crowded, and one that check-olm-graph     *)
(* passes is a chain from the oldest CSV and the exempt ones; whatever       *)
(* source packages, directories, order of listing and exempt names there are. *)
THEOREM ManifestRightCorrect == ManifestSpec => []ManifestRight
<1>1. ManifestInv => ManifestRight
    BY DoneIsCurrent, UnreadableExplained, PassedIsChain DEF ManifestRight, ManifestInv
<1> QED BY <1>1, ManifestInvariant, PTL

----------------------------------------------------------------------------
(* The images of a CSV.                                                      *)
LEMMA RewriteIsRight ==
    ASSUME isGa \in BOOLEAN, NEW i \in Image
    PROVE  Rewrite(i) \in Image /\ Right(Rewrite(i))
BY DEF Rewrite, processStageToProdImage, processToDeloreanImage, Image, Right, Internal

LEMMA ImagesStart == ASSUME ImagesInit PROVE ImagesInv
<1>1. /\ csv \in CSVs /\ extra = <<>> /\ isGa = FALSE /\ istep = "idle"
      /\ rewritten = {} /\ images = <<>>
    BY DEF ImagesInit
<1>2. extra \in [DOMAIN extra -> Image]
    BY <1>1
<1>3. IsCSV(csv)
    BY <1>1, CSVsAssumption
<1>4. DOMAIN images = {}
    BY <1>1
<1> QED BY <1>1, <1>2, <1>3, <1>4 DEF ImagesInv, Pending

(* A list of the same length as one that is not empty.                       *)
LEMMA SameLength ==
    ASSUME NEW S, NEW s \in Seq(S), s # <<>>, NEW t, DOMAIN t = DOMAIN s,
           t = [n \in DOMAIN s |-> t[n]]
    PROVE  t \in Seq(Values(t)) /\ t # <<>> /\ 1 \in DOMAIN t
<1>1. Len(s) \in Nat /\ DOMAIN s = 1..Len(s) /\ Len(s) # 0
    OBVIOUS
<1>2. t \in [1..Len(s) -> Values(t)]
    BY <1>1 DEF Values
<1> QED BY <1>1, <1>2

(* What is kept and what becomes of each part of a CSV.                      *)
LEMMA Included ==
    ASSUME IsCSV(csv), extra \in [DOMAIN extra -> Image]
    PROVE  IsCSV(includeImages(csv, extra))
<1> DEFINE c == includeImages(csv, extra)
<1>1. /\ c.related = csv.related /\ c.annotation = csv.annotation
      /\ DOMAIN c.containers = DOMAIN csv.containers
      /\ c.containers = [n \in DOMAIN csv.containers |-> c.containers[n]]
      /\ c = [containers |-> c.containers, related |-> c.related, annotation |-> c.annotation]
    BY DEF includeImages
<1>2. \A n \in DOMAIN csv.containers :
          /\ c.containers[n] = [image |-> c.containers[n].image, env |-> c.containers[n].env]
          /\ c.containers[n].image = csv.containers[n].image
          /\ c.containers[n].env = AddOrUpdateEnvVar(csv.containers[n].env, extra)
    BY DEF includeImages
<1> HIDE DEF c
<1>3. \A n \in DOMAIN csv.containers :
          c.containers[n].env \in [DOMAIN c.containers[n].env -> Image]
    <2> TAKE n \in DOMAIN csv.containers
    <2> DEFINE env == csv.containers[n].env
    <2>1. env \in [DOMAIN env -> Image]
        BY DEF IsCSV
    <2>2. AddOrUpdateEnvVar(env, extra) \in [DOMAIN AddOrUpdateEnvVar(env, extra) -> Image]
        <3> HIDE DEF env
        <3> QED BY <2>1 DEF AddOrUpdateEnvVar
    <2> QED BY <1>2, <2>2
<1>4. c.containers \in Seq(Values(c.containers)) /\ c.containers # <<>>
    BY <1>1, SameLength DEF IsCSV
<1>5. IsCSV(c)
    BY <1>1, <1>2, <1>3, <1>4 DEF IsCSV
<1> QED BY <1>5 DEF c

LEMMA OperandsAre ==
    ASSUME NEW c, IsCSV(c), isGa \in BOOLEAN
    PROVE  LET u == OperandsUpdated(c)
           IN  /\ IsCSV(u) /\ \A i \in Variables(u) : Right(i)
               /\ isGa => \A i \in Values(u.related) : Right(i)
<1> DEFINE u == OperandsUpdated(c)
           Env(n) == [x \in DOMAIN c.containers[n].env |-> Rewrite(c.containers[n].env[x])]
<1>1. /\ u.annotation = c.annotation
      /\ DOMAIN u.containers = DOMAIN c.containers
      /\ u.containers = [n \in DOMAIN c.containers |-> u.containers[n]]
      /\ u = [containers |-> u.containers, related |-> u.related, annotation |-> u.annotation]
      /\ u.related = IF isGa THEN [k \in DOMAIN c.related |-> Rewrite(c.related[k])] ELSE c.related
    BY DEF OperandsUpdated
<1>2. \A n \in DOMAIN c.containers :
          /\ u.containers[n] = [image |-> u.containers[n].image, env |-> u.containers[n].env]
          /\ u.containers[n].image = c.containers[n].image
          /\ u.containers[n].env = Env(n)
    BY DEF OperandsUpdated
<1>3. \A n \in DOMAIN c.containers :
          /\ Env(n) \in [DOMAIN Env(n) -> Image]
          /\ \A x \in DOMAIN Env(n) : Right(Env(n)[x])
    BY RewriteIsRight DEF IsCSV
<1> HIDE DEF u, Env
<1>4. u.containers \in Seq(Values(u.containers)) /\ u.containers # <<>>
    BY <1>1, SameLength DEF IsCSV
<1>5. u.related \in Seq(Image) /\ (isGa => \A i \in Values(u.related) : Right(i))
    <2>1. CASE ~isGa
        BY <1>1, <2>1 DEF IsCSV
    <2>2. CASE isGa
        <3>1. \A k \in DOMAIN c.related : Rewrite(c.related[k]) \in Image /\ Right(Rewrite(c.related[k]))
            BY RewriteIsRight DEF IsCSV
        <3>2. Len(c.related) \in Nat /\ DOMAIN c.related = 1..Len(c.related)
            BY DEF IsCSV
        <3>3. [k \in DOMAIN c.related |-> Rewrite(c.related[k])] \in Seq(Image)
            BY <3>1, <3>2
        <3> QED BY <1>1, <2>2, <3>1, <3>3 DEF Values
    <2> QED BY <2>1, <2>2
<1>6. IsCSV(u)
    BY <1>1, <1>2, <1>3, <1>4, <1>5 DEF IsCSV
<1>7. \A i \in Variables(u) : Right(i)
    <2> SUFFICES ASSUME NEW n \in DOMAIN c.containers, NEW x \in DOMAIN u.containers[n].env
                 PROVE  Right(u.containers[n].env[x])
        BY <1>1 DEF Variables, Values
    <2>1. u.containers[n].env = Env(n)
        BY <1>2
    <2> QED BY <1>3, <2>1
<1> QED BY <1>5, <1>6, <1>7 DEF u

LEMMA OperatorsAre ==
    ASSUME IsCSV(csv), isGa \in BOOLEAN
    PROVE  LET u == OperatorUpdated
           IN  /\ IsCSV(u) /\ Variables(u) = Variables(csv) /\ u.related = csv.related
               /\ Right(u.annotation)
               /\ \A n \in DOMAIN u.containers : n = 1 \/ ~isGa => Right(u.containers[n].image)
<1> DEFINE u == OperatorUpdated
<1>1. /\ u.annotation = Rewrite(csv.annotation) /\ u.related = csv.related
      /\ DOMAIN u.containers = DOMAIN csv.containers
      /\ u.containers = [n \in DOMAIN csv.containers |-> u.containers[n]]
      /\ u = [containers |-> u.containers, related |-> u.related, annotation |-> u.annotation]
    BY DEF OperatorUpdated
<1>2. \A n \in DOMAIN csv.containers :
          u.containers[n] = IF isGa /\ n > 1 THEN csv.containers[n]
                            ELSE [image |-> Rewrite(csv.containers[n].image), env |-> csv.containers[n].env]
    BY DEF OperatorUpdated
<1> HIDE DEF u
<1>3. \A n \in DOMAIN csv.containers :
          /\ csv.containers[n] = [image |-> csv.containers[n].image, env |-> csv.containers[n].env]
          /\ csv.containers[n].image \in Image /\ n \in Nat \ {0}
          /\ Rewrite(csv.containers[n].image) \in Image /\ Right(Rewrite(csv.containers[n].image))
    BY RewriteIsRight DEF IsCSV
<1>4. \A n \in DOMAIN csv.containers :
          /\ u.containers[n] = [image |-> u.containers[n].image, env |-> u.containers[n].env]
          /\ u.containers[n].image \in Image
          /\ n = 1 \/ ~isGa => Right(u.containers[n].image)
          /\ u.containers[n].env = csv.containers[n].env
    <2> SUFFICES ASSUME NEW n \in DOMAIN csv.containers
                 PROVE  /\ u.containers[n] = [image |-> u.containers[n].image, env |-> u.containers[n].env]
                        /\ u.containers[n].image \in Image
                        /\ n = 1 \/ ~isGa => Right(u.containers[n].image)
                        /\ u.containers[n].env = csv.containers[n].env
        OBVIOUS
    <2>1. CASE isGa /\ n > 1
        <3>1. u.containers[n] = csv.containers[n] /\ ~(n = 1 \/ ~isGa)
            <4>1. n # 1
                BY <1>3, <2>1
            <4> QED BY <1>2, <2>1, <4>1
        <3> QED BY <1>3, <3>1
    <2>2. CASE ~(isGa /\ n > 1)
        <3>1. u.containers[n] = [image |-> Rewrite(csv.containers[n].image), env |-> csv.containers[n].env]
            BY <1>2, <2>2
        <3>2. u.containers[n].image = Rewrite(csv.containers[n].image)
              /\ u.containers[n].env = csv.containers[n].env
            BY <3>1
        <3> QED BY <1>3, <3>1, <3>2
    <2> QED BY <2>1, <2>2
<1>5. u.annotation \in Image /\ Right(u.annotation)
    BY <1>1, RewriteIsRight DEF IsCSV
<1>6. u.containers \in Seq(Values(u.containers)) /\ u.containers # <<>>
    BY <1>1, SameLength DEF IsCSV
<1>7. IsCSV(u)
    BY <1>1, <1>4, <1>5, <1>6 DEF IsCSV
<1>8. Variables(u) = Variables(csv)
    BY <1>1, <1>4 DEF Variables
<1> QED BY <1>1, <1>4, <1>5, <1>7, <1>8 DEF u

(* What the invariant says is of isGa as well as of the CSV.                 *)
LEMMA SameKind == ASSUME isGa' = isGa PROVE \A i : Right(i)' <=> Right(i)
BY DEF Right

(* What is added to the map: the sources of the images, and no source leaves. *)
LEMMA AddedIs ==
    ASSUME NEW map, \A s \in DOMAIN map : BuildOSBSImage(map[s]) = s,
           NEW refs, NEW m \in addImageMapping(map, refs)
    PROVE  /\ DOMAIN map \subseteq DOMAIN m
           /\ \A s \in DOMAIN m : BuildOSBSImage(m[s]) = s
           /\ \A r \in refs : r.registry \in Internal => Covers(Values(m), r.id)
<1> DEFINE ids == {i.id : i \in {r \in refs : r.registry \in Internal}}
           sources == {BuildOSBSImage(id) : id \in ids}
<1>1. /\ DOMAIN m = DOMAIN map \union sources
      /\ \A s \in DOMAIN m : IF s \in sources THEN m[s] \in ids /\ BuildOSBSImage(m[s]) = s
                             ELSE m[s] = map[s]
    BY DEF addImageMapping
<1>2. \A r \in refs : r.registry \in Internal => BuildOSBSImage(r.id) \in sources
    OBVIOUS
<1> HIDE DEF ids, sources
<1>3. \A s \in DOMAIN m : BuildOSBSImage(m[s]) = s
    BY <1>1
<1>4. ASSUME NEW r \in refs, r.registry \in Internal PROVE Covers(Values(m), r.id)
    <2> DEFINE s == BuildOSBSImage(r.id)
    <2>1. s \in DOMAIN m
        BY <1>1, <1>2, <1>4
    <2>2. m[s] \in Values(m) /\ BuildOSBSImage(m[s]) = s
        BY <1>3, <2>1 DEF Values
    <2> QED BY <2>2 DEF Covers
<1> QED BY <1>1, <1>3, <1>4

LEMMA CoversMore ==
    ASSUME NEW ids, NEW more, ids \subseteq more, NEW id, Covers(ids, id)
    PROVE  Covers(more, id)
BY DEF Covers

(* A source keeps an image, be it another one.                               *)
LEMMA CoverStays ==
    ASSUME NEW map, NEW m, DOMAIN map \subseteq DOMAIN m,
           \A s \in DOMAIN map : BuildOSBSImage(map[s]) = s,
           \A s \in DOMAIN m : BuildOSBSImage(m[s]) = s,
           NEW id, Covers(Values(map), id)
    PROVE  Covers(Values(m), id)
<1>1. PICK s \in DOMAIN map : BuildOSBSImage(map[s]) = BuildOSBSImage(id)
    BY DEF Covers, Values
<1>2. s \in DOMAIN m /\ BuildOSBSImage(m[s]) = BuildOSBSImage(id)
    BY <1>1
<1> QED BY <1>2 DEF Covers, Values

(* Where a mirrored name in a deployment comes from.                         *)
LEMMA RewriteMirrors ==
    ASSUME isGa \in BOOLEAN, NEW q \in Image, Rewrite(q).registry = "delorean"
    PROVE  q.id = Rewrite(q).id /\ (q.registry = "delorean" \/ (~isGa /\ q.registry \in Internal))
BY DEF Rewrite, processStageToProdImage, processToDeloreanImage, Image, Internal

LEMMA VariableIs ==
    ASSUME NEW c, NEW r
    PROVE  r \in Variables(c) <=> \E n \in DOMAIN c.containers :
               \E x \in DOMAIN c.containers[n].env : r = c.containers[n].env[x]
BY DEF Variables, Values

LEMMA DeployedIs ==
    ASSUME NEW c, NEW id
    PROVE  id \in Deployed(c) <=>
               \E r \in Variables(c) \union OperatorImages(c) : r.registry = "delorean" /\ r.id = id
BY DEF Deployed

LEMMA OperandsMirrored ==
    ASSUME NEW c, IsCSV(c), isGa \in BOOLEAN, NEW id \in Deployed(OperandsUpdated(c)) \ Deployed(c)
    PROVE  ~isGa /\ \E r \in Variables(c) : r.registry \in Internal /\ r.id = id
<1> DEFINE u == OperandsUpdated(c)
           Env(n) == [x \in DOMAIN c.containers[n].env |-> Rewrite(c.containers[n].env[x])]
<1>1. /\ DOMAIN u.containers = DOMAIN c.containers
      /\ \A n \in DOMAIN c.containers :
             u.containers[n].image = c.containers[n].image /\ u.containers[n].env = Env(n)
    BY DEF OperandsUpdated
<1>2. PICK r \in Variables(u) \union OperatorImages(u) : r.registry = "delorean" /\ r.id = id
    BY DeployedIs
<1> HIDE DEF u
<1>3. OperatorImages(u) = OperatorImages(c)
    <2>1. \A n \in DOMAIN c.containers : u.containers[n].image = c.containers[n].image
        BY <1>1
    <2> HIDE DEF Env
    <2> QED BY <1>1, <2>1 DEF OperatorImages
<1>4. r \in Variables(u)
    BY <1>2, <1>3, DeployedIs
<1>5. PICK q \in Variables(c) : r = Rewrite(q)
    <2>1. PICK n \in DOMAIN u.containers : \E x \in DOMAIN u.containers[n].env : r = u.containers[n].env[x]
        BY <1>4, VariableIs
    <2>2. n \in DOMAIN c.containers /\ u.containers[n].env = Env(n)
        BY <1>1, <2>1
    <2>3. PICK x \in DOMAIN Env(n) : r = Env(n)[x]
        BY <2>1, <2>2
    <2>4. r = Rewrite(c.containers[n].env[x]) /\ c.containers[n].env[x] \in Variables(c)
        BY <2>2, <2>3, VariableIs
    <2> QED BY <2>4
<1>6. q \in Image
    <2>1. PICK n \in DOMAIN c.containers : \E x \in DOMAIN c.containers[n].env : q = c.containers[n].env[x]
        BY <1>5, VariableIs
    <2> QED BY <2>1 DEF IsCSV
<1>7. q.id = id /\ (q.registry = "delorean" \/ (~isGa /\ q.registry \in Internal))
    BY <1>2, <1>5, <1>6, RewriteMirrors
<1>8. q.registry # "delorean"
    BY <1>5, <1>7, DeployedIs
<1> QED BY <1>5, <1>7, <1>8

LEMMA OperatorsMirrored ==
    ASSUME IsCSV(csv), isGa \in BOOLEAN, NEW id \in Deployed(OperatorUpdated) \ Deployed(csv)
    PROVE  ~isGa /\ \E r \in OperatorImages(csv) : r.registry \in Internal /\ r.id = id
<1> DEFINE u == OperatorUpdated
<1>1. /\ DOMAIN u.containers = DOMAIN csv.containers
      /\ \A n \in DOMAIN csv.containers :
             u.containers[n].image \in {csv.containers[n].image, Rewrite(csv.containers[n].image)}
    BY DEF OperatorUpdated
<1>2. Variables(u) = Variables(csv)
    BY OperatorsAre
<1>3. PICK r \in Variables(u) \union OperatorImages(u) : r.registry = "delorean" /\ r.id = id
    BY DeployedIs
<1> HIDE DEF u
<1>4. r \notin Variables(csv) /\ r \notin OperatorImages(csv)
    BY <1>3, DeployedIs
<1>5. PICK n \in DOMAIN csv.containers : r = u.containers[n].image
    BY <1>1, <1>2, <1>3, <1>4 DEF OperatorImages
<1> DEFINE q == csv.containers[n].image
<1>6. q \in OperatorImages(csv) /\ q \in Image
    BY <1>5 DEF OperatorImages, IsCSV
<1> HIDE DEF q
<1>7. r = Rewrite(q)
    BY <1>1, <1>4, <1>5, <1>6 DEF q
<1>8. q.id = id /\ (q.registry = "delorean" \/ (~isGa /\ q.registry \in Internal))
    BY <1>3, <1>6, <1>7, RewriteMirrors
<1>9. q.registry # "delorean"
    BY <1>6, <1>8, DeployedIs
<1> QED BY <1>6, <1>8, <1>9

LEMMA OperandStep == ASSUME ImagesInv, GetAndUpdateOperandImages PROVE ImagesInv'
<1> DEFINE c == includeImages(csv, extra)
<1>1. /\ istep = "operands" /\ istep' = "operator" /\ csv' = OperandsUpdated(c)
      /\ images' \in IF isGa THEN {<<>>} ELSE addImageMapping(<<>>, Variables(c))
      /\ rewritten' = rewritten \union (Deployed(csv') \ Deployed(c))
      /\ isGa' = isGa /\ extra' = extra /\ mirrored' = mirrored /\ forgotten' = forgotten
      /\ isGa \in BOOLEAN
    BY DEF GetAndUpdateOperandImages, ImagesInv
<1>2. IsCSV(c)
    BY Included DEF ImagesInv
<1> HIDE DEF c
<1>3. /\ IsCSV(csv') /\ \A i \in Variables(csv') : Right(i)
      /\ isGa => \A i \in Values(csv'.related) : Right(i)
    BY <1>1, <1>2, OperandsAre
<1>4. /\ \A s \in DOMAIN images' : BuildOSBSImage(images'[s]) = s
      /\ isGa => DOMAIN images' = {}
      /\ ~isGa => \A r \in Variables(c) : r.registry \in Internal => Covers(Values(images'), r.id)
    <2>1. CASE isGa
        <3>1. images' = <<>> /\ DOMAIN <<>> = {}
            BY <1>1, <2>1
        <3> QED BY <2>1, <3>1
    <2>2. CASE ~isGa
        <3>1. \A s \in DOMAIN <<>> : BuildOSBSImage(<<>>[s]) = s
            OBVIOUS
        <3>2. images' \in addImageMapping(<<>>, Variables(c))
            BY <1>1, <2>2
        <3> QED BY <2>2, <3>1, <3>2, AddedIs
    <2> QED BY <2>1, <2>2
<1> DEFINE listed == mirrored \union forgotten \union Values(images')
<1>5. ASSUME NEW id \in rewritten' PROVE Covers(listed, id)
    <2>1. CASE id \in rewritten
        <3>1. Covers(mirrored \union forgotten, id)
            BY <1>1, <2>1 DEF ImagesInv, Pending
        <3> QED BY <3>1, CoversMore
    <2>2. CASE id \in Deployed(csv') \ Deployed(c)
        <3>1. ~isGa /\ \E r \in Variables(c) : r.registry \in Internal /\ r.id = id
            BY <1>1, <1>2, <2>2, OperandsMirrored
        <3>2. Covers(Values(images'), id)
            BY <1>4, <3>1
        <3> QED BY <3>2, CoversMore
    <2> QED BY <1>1, <1>5, <2>1, <2>2
<1>6. /\ (\A id \in rewritten : Covers(mirrored \union forgotten \union Pending, id))'
      /\ (\A s \in DOMAIN images : BuildOSBSImage(images[s]) = s)'
      /\ isGa' => DOMAIN images' = {}
    <2>1. Pending' = Values(images')
        BY <1>1 DEF Pending, Values
    <2> QED BY <1>1, <1>4, <1>5, <2>1 DEF Covers, BuildOSBSImage
<1>7. IsCSV(csv)'
    BY <1>3 DEF IsCSV, Image, Values
<1>8. (\A i \in Variables(csv) : Right(i))' /\ (isGa => \A i \in Values(csv.related) : Right(i))'
    BY <1>1, <1>3, SameKind DEF Variables, Values
<1>9. extra' \in [DOMAIN extra' -> Image'] /\ isGa' \in BOOLEAN
    BY <1>1 DEF ImagesInv, Image
<1> QED BY <1>1, <1>6, <1>7, <1>8, <1>9 DEF ImagesInv

LEMMA OperatorStep == ASSUME ImagesInv, GetAndUpdateOperatorImage PROVE ImagesInv'
<1>1. /\ istep = "operator" /\ istep' = "mapping" /\ csv' = OperatorUpdated
      /\ images' \in IF isGa THEN {images} ELSE addImageMapping(images, OperatorImages(csv))
      /\ rewritten' = rewritten \union (Deployed(csv') \ Deployed(csv))
      /\ isGa' = isGa /\ extra' = extra /\ mirrored' = mirrored /\ forgotten' = forgotten
      /\ isGa \in BOOLEAN /\ IsCSV(csv)
    BY DEF GetAndUpdateOperatorImage, ImagesInv
<1>2. /\ IsCSV(csv') /\ Variables(csv') = Variables(csv) /\ csv'.related = csv.related
      /\ Right(csv'.annotation)
      /\ \A n \in DOMAIN csv'.containers : n = 1 \/ ~isGa => Right(csv'.containers[n].image)
    BY <1>1, OperatorsAre
<1>3. \A s \in DOMAIN images : BuildOSBSImage(images[s]) = s
    BY DEF ImagesInv
<1>4. /\ \A s \in DOMAIN images' : BuildOSBSImage(images'[s]) = s
      /\ DOMAIN images \subseteq DOMAIN images'
      /\ isGa => DOMAIN images' = {}
      /\ ~isGa => \A r \in OperatorImages(csv) : r.registry \in Internal => Covers(Values(images'), r.id)
    <2>1. CASE isGa
        <3>1. images' = images /\ DOMAIN images = {}
            BY <1>1, <2>1 DEF ImagesInv
        <3> QED BY <2>1, <3>1
    <2>2. CASE ~isGa
        <3>1. images' \in addImageMapping(images, OperatorImages(csv))
            BY <1>1, <2>2
        <3> QED BY <1>3, <2>2, <3>1, AddedIs
    <2> QED BY <2>1, <2>2
<1> DEFINE before == mirrored \union forgotten
<1>5. ASSUME NEW id \in rewritten' PROVE Covers(before \union Values(images'), id)
    <2>1. CASE id \in rewritten
        <3>1. Covers(before \union Values(images), id)
            BY <1>1, <2>1 DEF ImagesInv, Pending
        <3>2. Covers(before, id) \/ Covers(Values(images), id)
            BY <3>1 DEF Covers
        <3>3. Covers(before, id) \/ Covers(Values(images'), id)
            BY <1>3, <1>4, <3>2, CoverStays
        <3> HIDE DEF before
        <3> QED BY <3>3, CoversMore
    <2>2. CASE id \in Deployed(csv') \ Deployed(csv)
        <3>1. ~isGa /\ \E r \in OperatorImages(csv) : r.registry \in Internal /\ r.id = id
            BY <1>1, <2>2, OperatorsMirrored
        <3>2. Covers(Values(images'), id)
            BY <1>4, <3>1
        <3> HIDE DEF before
        <3> QED BY <3>2, CoversMore
    <2> QED BY <1>1, <1>5, <2>1, <2>2
<1>6. /\ (\A id \in rewritten : Covers(mirrored \union forgotten \union Pending, id))'
      /\ (\A s \in DOMAIN images : BuildOSBSImage(images[s]) = s)'
      /\ isGa' => DOMAIN images' = {}
    <2>1. Pending' = Values(images')
        BY <1>1 DEF Pending, Values
    <2> QED BY <1>1, <1>4, <1>5, <2>1 DEF Covers, BuildOSBSImage
<1>7. IsCSV(csv)'
    BY <1>2 DEF IsCSV, Image, Values
<1>8. (\A i \in Variables(csv) : Right(i)) /\ (isGa => \A i \in Values(csv.related) : Right(i))
    BY <1>1 DEF ImagesInv
<1>9. (\A i \in Variables(csv) : Right(i))' /\ (isGa => \A i \in Values(csv.related) : Right(i))'
    BY <1>1, <1>2, <1>8, SameKind DEF Variables, Values
<1>10. /\ Right(csv.annotation)'
       /\ (\A n \in DOMAIN csv.containers : n = 1 \/ ~isGa => Right(csv.containers[n].image))'
    BY <1>1, <1>2, SameKind
<1>11. extra' \in [DOMAIN extra' -> Image'] /\ isGa' \in BOOLEAN
    BY <1>1 DEF ImagesInv, Image
<1> QED BY <1>1, <1>6, <1>7, <1>9, <1>10, <1>11 DEF ImagesInv

(* What is to be listed is listed, or lost, at the end of a run.             *)
LEMMA WrittenStays ==
    ASSUME ImagesInv, WriteMapping
    PROVE  \A id \in rewritten' : Covers(mirrored' \union forgotten' \union Pending', id)
<1>1. /\ istep = "mapping" /\ istep' = "done" /\ rewritten' = rewritten /\ forgotten' = forgotten
      /\ mirrored' = mirrored \union Values(mapping')
      /\ mapping' = IF isGa THEN <<>> ELSE IF DOMAIN images # {} THEN images ELSE mapping
    BY DEF WriteMapping
<1>2. \A id \in rewritten : Covers(mirrored \union forgotten \union Values(images), id)
    BY <1>1 DEF ImagesInv, Pending
<1>3. Values(images) \subseteq Values(mapping')
    <2>1. CASE DOMAIN images = {}
        BY <2>1 DEF Values
    <2>2. CASE DOMAIN images # {}
        BY <1>1, <2>2 DEF ImagesInv
    <2> QED BY <2>1, <2>2
<1>4. mirrored \union forgotten \union Values(images) \subseteq mirrored' \union forgotten' \union Pending'
    BY <1>1, <1>3
<1> QED BY <1>1, <1>2, <1>4, CoversMore

(* The steps that leave the CSV as it is, or replace it.                     *)
LEMMA ImagesRestStep ==
    ASSUME ImagesInv, DoProcessCSV \/ FreshCSV \/ WriteMapping \/ ImagesStop \/ UNCHANGED ivars
    PROVE  ImagesInv'
<1> USE DEF Covers, BuildOSBSImage
<1>1. CASE DoProcessCSV
    <2>1. images' = <<>> /\ DOMAIN <<>> = {}
        BY <1>1 DEF DoProcessCSV
    <2> QED BY <1>1, <2>1, CSVsAssumption DEF DoProcessCSV, ImagesInv, Pending, IsCSV, Image
<1>2. CASE FreshCSV
    BY <1>2, CSVsAssumption DEF FreshCSV, ImagesInv, Pending, IsCSV, Image
<1>3. CASE WriteMapping
    <2>1. /\ csv' = csv /\ images' = images /\ isGa' = isGa /\ extra' = extra
          /\ istep = "mapping" /\ istep' = "done"
        BY <1>3 DEF WriteMapping
    <2>2. (\A id \in rewritten : Covers(mirrored \union forgotten \union Pending, id))'
        BY <1>3, WrittenStays
    <2>3. IsCSV(csv)' /\ extra' \in [DOMAIN extra' -> Image'] /\ isGa' \in BOOLEAN
        BY <2>1 DEF ImagesInv, IsCSV, Image, Values
    <2>4. (\A s \in DOMAIN images : BuildOSBSImage(images[s]) = s)'
        BY <2>1 DEF ImagesInv
    <2>5. /\ (\A i \in Variables(csv) : Right(i))' /\ (isGa => \A i \in Values(csv.related) : Right(i))'
          /\ Right(csv.annotation)'
          /\ (\A n \in DOMAIN csv.containers : n = 1 \/ ~isGa => Right(csv.containers[n].image))'
        BY <2>1 DEF ImagesInv, Right, Variables, Values
    <2> QED BY <2>1, <2>2, <2>3, <2>4, <2>5 DEF ImagesInv
<1>4. CASE ImagesStop
    BY <1>4 DEF ImagesStop, ImagesInv, Pending, IsCSV, Image, Right, Variables, Values
<1>5. CASE UNCHANGED ivars
    BY <1>5 DEF ivars, ImagesInv, Pending, IsCSV, Image, Right, Variables, Values
<1> QED BY <1>1, <1>2, <1>3, <1>4, <1>5

THEOREM ImagesInvariant == ImagesSpec => []ImagesInv
<1>1. ImagesInit => ImagesInv
    BY ImagesStart
<1>2. ImagesInv /\ [ImagesNext]_ivars => ImagesInv'
    BY OperandStep, OperatorStep, ImagesRestStep DEF ImagesNext
<1> QED BY <1>1, <1>2, PTL DEF ImagesSpec

(* What the runs leave in the CSV and in the list for the mirroring fits     *)
(* together, whatever CSVs, added variables and sources of images there are, *)
(* in any sequence of runs of both kinds, stopped ones among them.           *)
THEOREM ImagesRightCorrect == ImagesSpec => []ImagesRight
<1>1. ASSUME ImagesInv PROVE ListedUnlessStopped
    BY <1>1 DEF ImagesInv, Pending, ListedUnlessStopped
<1>2. ASSUME ImagesInv PROVE RegistriesRight
    <2>1. SUFFICES ASSUME istep = "done" PROVE RegistriesRight
        BY DEF RegistriesRight
    <2>2. 1 \in DOMAIN csv.containers
        BY <1>2 DEF ImagesInv, IsCSV
    <2>3. CASE isGa
        BY <1>2, <2>1, <2>2, <2>3 DEF ImagesInv, RegistriesRight, Right
    <2>4. CASE ~isGa
        BY <1>2, <2>1, <2>4 DEF ImagesInv, RegistriesRight, Right, OperatorImages
    <2> QED BY <2>3, <2>4
<1>3. ImagesInv => ImagesRight
    BY <1>1, <1>2 DEF ImagesRight
<1> QED BY <1>3, ImagesInvariant, PTL

----------------------------------------------------------------------------
(* The files of the operator's repository.                                   *)
LEMMA LinesAre == Len(Lines) \in Nat /\ DOMAIN Lines = 1..Len(Lines) /\ DOMAIN Lines \subseteq Nat
<1> DEFINE Line == [type: {"Version", "OperatorVersion"}, product: STRING]
<1>1. Lines \in Seq(Line)
    BY LinesAssumption
<1> HIDE DEF Line
<1> QED BY <1>1

LEMMA MatchIsFirst ==
    ASSUME NEW product, NEW type, Matches(product, type) # {}
    PROVE  /\ FindString(product, type) \in Matches(product, type)
           /\ \A j \in Matches(product, type) : FindString(product, type) <= j
<1>1. Matches(product, type) \in SUBSET Nat
    BY LinesAre DEF Matches
<1> QED BY <1>1, LeastNumber DEF FindString

(* The line a version is set in has none of the product itself before it.    *)
LEMMA MatchIsOwn ==
    ASSUME NEW j \in DOMAIN Lines, NEW type \in {"Version", "OperatorVersion"},
           Matches(Lines[j].product, type) # {}
    PROVE  LET k == FindString(Lines[j].product, type)
           IN  k \in DOMAIN Lines /\ OwnOrNone(k, Lines[j].product)
<1> DEFINE product == Lines[j].product
           k == FindString(product, type)
<1>1. k \in Matches(product, type) /\ \A i \in Matches(product, type) : k <= i
    BY MatchIsFirst
<1>2. k \in DOMAIN Lines /\ (type = "Version" \/ Lines[k].type = type)
    BY <1>1 DEF Matches
<1>3. product \in NameBegins[product]
    BY LinesAssumption
<1>4. ASSUME NEW i \in 1..(k - 1), Lines[i] = [type |-> Lines[k].type, product |-> product]
      PROVE  FALSE
    <2>1. Lines[i].type = Lines[k].type /\ Lines[i].product = product
        BY <1>4
    <2>2. i \in DOMAIN Lines /\ i < k
        <3> HIDE DEF k, product
        <3> QED BY <1>2, LinesAre
    <2>3. i \in Matches(product, type)
        BY <1>2, <1>3, <2>1, <2>2 DEF Matches
    <2>4. k <= i
        BY <1>1, <2>3
    <2> HIDE DEF k
    <2> QED BY <1>2, <2>2, <2>4, LinesAre
<1> HIDE DEF k, product
<1>5. OwnOrNone(k, product)
    BY <1>4 DEF OwnOrNone
<1> QED BY <1>2, <1>5 DEF k, product

(* What a list of types may become: higher, and in lines of the product or   *)
(* where it has none.                                                        *)
Raised(before, after, product) ==
    /\ after \in [DOMAIN Lines -> Nat]
    /\ \A k \in DOMAIN Lines :
           after[k] # before[k] => after[k] > before[k] /\ OwnOrNone(k, product)

LEMMA ParseRaises ==
    ASSUME NEW now \in [DOMAIN Lines -> Nat], NEW j \in DOMAIN Lines, NEW version \in Nat,
           NEW type \in {"Version", "OperatorVersion"}, Matches(Lines[j].product, type) # {}
    PROVE  LET out == ParseVersion(now, Lines[j].product, version, type).out
           IN  out = <<>> \/ Raised(now, out, Lines[j].product)
<1> DEFINE k == FindString(Lines[j].product, type)
           out == ParseVersion(now, Lines[j].product, version, type).out
<1>1. k \in DOMAIN Lines /\ OwnOrNone(k, Lines[j].product)
    BY MatchIsOwn
<1>2. out = IF now[k] < version THEN [now EXCEPT ![k] = version] ELSE <<>>
    BY DEF ParseVersion
<1>3. CASE now[k] < version
    <2>1. out = [now EXCEPT ![k] = version]
        BY <1>2, <1>3
    <2> HIDE DEF out, k
    <2>2. out \in [DOMAIN Lines -> Nat] /\ out[k] = version
          /\ \A i \in DOMAIN Lines \ {k} : out[i] = now[i]
        BY <1>1, <2>1
    <2>3. ASSUME NEW i \in DOMAIN Lines, out[i] # now[i]
          PROVE  out[i] > now[i] /\ OwnOrNone(i, Lines[j].product)
        <3>1. i = k
            BY <2>2, <2>3
        <3> QED BY <1>1, <1>3, <2>2, <3>1
    <2>4. Raised(now, out, Lines[j].product)
        BY <2>2, <2>3 DEF Raised
    <2> QED BY <2>4 DEF out
<1>4. CASE ~(now[k] < version)
    BY <1>2, <1>4
<1> QED BY <1>3, <1>4

LEMMA TypesRaised ==
    ASSUME types \in [DOMAIN Lines -> Nat], NEW j \in DOMAIN Lines, NEW o \in Nat, NEW v \in Nat,
           SetVersion(Lines[j].product, o, v)
    PROVE  Raised(types, types', Lines[j].product)
<1> DEFINE product == Lines[j].product
           first == ParseVersion(types, product, o, "OperatorVersion")
           base == IF first.out # <<>> THEN first.out ELSE types
           second == ParseVersion(base, product, v, "Version")
           out == Out(product, o, v)
<1>1. Matches(product, "OperatorVersion") # {} /\ Matches(product, "Version") # {}
    BY DEF SetVersion, Matches
<1>2. first.out = <<>> \/ Raised(types, first.out, product)
    <2> HIDE DEF product
    <2> QED BY <1>1, ParseRaises DEF product
<1>3. Raised(types, types, product)
    BY DEF Raised
<1>4. base \in [DOMAIN Lines -> Nat] /\ Raised(types, base, product)
    <2> HIDE DEF first
    <2> QED BY <1>2, <1>3 DEF Raised
<1>5. second.out = <<>> \/ Raised(base, second.out, product)
    <2> HIDE DEF base, product
    <2> QED BY <1>1, <1>4, ParseRaises DEF product
<1>6. second.out = <<>> \/ Raised(types, second.out, product)
    <2>1. ASSUME Raised(base, second.out, product), NEW k \in DOMAIN Lines, second.out[k] # types[k]
          PROVE  second.out[k] > types[k] /\ OwnOrNone(k, product)
        <3> HIDE DEF base, product, second
        <3>1. base[k] \in Nat /\ types[k] \in Nat /\ second.out[k] \in Nat
            BY <1>4, <2>1 DEF Raised
        <3> QED BY <1>4, <2>1, <3>1 DEF Raised
    <2> HIDE DEF base, product, second
    <2> QED BY <1>5, <2>1 DEF Raised
<1>7. out \in {<<>>, first.out, second.out}
    BY DEF Out
<1>8. types' = IF out # <<>> THEN out ELSE types
    BY DEF SetVersion
<1> HIDE DEF out, first, second, product
<1> QED BY <1>2, <1>3, <1>6, <1>7, <1>8 DEF product

----------------------------------------------------------------------------
LEMMA FilesStart == ASSUME FilesInit PROVE FilesInv
<1>1. types \in [DOMAIN Lines -> Nat] /\ install \in [Products -> Entry]
    <2>1. types = [k \in DOMAIN Lines |-> 1]
        BY DEF FilesInit
    <2>2. install = [p \in Products |->
              [channel |-> 1, bundle |-> None, index |-> 1, package |-> 1, installFrom |-> "index"]]
        BY DEF FilesInit
    <2>3. [channel |-> 1, bundle |-> None, index |-> 1, package |-> 1, installFrom |-> "index"] \in Entry
        BY DEF Entry, None
    <2> QED BY <2>1, <2>2, <2>3
<1>2. bundled = <<[name |-> 1, image |-> 1]>> /\ bundled \in Seq([name: Nat, image: Nat])
      /\ DOMAIN bundled = {1} /\ bundled[1] = [name |-> 1, image |-> 1]
    BY DEF FilesInit
<1>3. /\ wanted = [install |-> wanted.install, bundle |-> wanted.bundle]
      /\ wanted.install = [p \in Products |-> wanted.install[p]]
      /\ wanted.bundle \in [1..Top -> Nat]
      /\ \A n \in 1..Top : wanted.bundle[n] = IF n = 1 THEN 1 ELSE None
      /\ \A p \in Products : wanted.install[p].index = 1
    BY DEF FilesInit, None
<1>4. InstalledAsWanted
    BY <1>3 DEF FilesInit, InstalledAsWanted
<1>5. BundlesAsWanted
    <2>1. \A n \in DOMAIN wanted.bundle : wanted.bundle[n] # None => n = 1 /\ wanted.bundle[n] = 1
        BY <1>3
    <2> QED BY <1>2, <2>1 DEF BundlesAsWanted
<1> QED BY <1>1, <1>2, <1>3, <1>4, <1>5 DEF FilesInv, FilesAsWanted

LEMMA TypesStep == ASSUME FilesInv, EditTypes PROVE FilesInv'
<1>1. PICK j \in DOMAIN Lines, o \in 0..Top, v \in 0..Top : SetVersion(Lines[j].product, o, v)
    BY DEF EditTypes
<1>2. types' \in [DOMAIN Lines -> Nat]
    BY <1>1, TypesRaised, TopAssumption DEF Raised, FilesInv
<1>3. UNCHANGED <<install, bundled, wanted>>
    BY <1>1 DEF SetVersion
<1> QED BY <1>2, <1>3 DEF FilesInv, FilesAsWanted, InstalledAsWanted, BundlesAsWanted, Entry

LEMMA InstallStep == ASSUME FilesInv, EditInstall PROVE FilesInv'
<1>1. PICK p \in Products \union {"absent"}, r \in Requests : ProcessBundle(p, r)
    BY DEF EditInstall
<1> DEFINE ok == ((r.bundle = None) # (r.index = None)) /\ p \in Products /\ r.readable
           entry == FromBundle(FromValues(install[p], r), r)
<1>2. UNCHANGED <<types, bundled>>
    BY <1>1 DEF ProcessBundle
<1>3. CASE ~ok
    <2>1. UNCHANGED <<install, wanted>>
        BY <1>1, <1>3 DEF ProcessBundle
    <2> QED BY <1>2, <2>1 DEF FilesInv, FilesAsWanted, InstalledAsWanted, BundlesAsWanted, Entry
<1>4. CASE ok
    <2>1. /\ install' = [install EXCEPT ![p] = entry]
          /\ wanted' = [install |-> [wanted.install EXCEPT ![p] = r], bundle |-> wanted.bundle]
        BY <1>1, <1>4 DEF ProcessBundle
    <2>2. /\ install[p] \in Entry
          /\ r \in [bundle: Nat, index: Nat, package: Nat, channel: Nat, dir: Nat, readable: BOOLEAN]
        BY <1>4, RequestsAssumption DEF FilesInv
    <2>3. entry \in Entry
        BY <2>2 DEF FromBundle, FromValues, Entry
    <2>4. /\ entry.installFrom = IF r.bundle # None THEN "implicit" ELSE "index"
          /\ entry.bundle = IF r.bundle # None THEN r.bundle ELSE install[p].bundle
          /\ entry.index = IF r.index # None THEN r.index ELSE install[p].index
        BY DEF FromBundle, FromValues
    <2>5. IF entry.installFrom = "implicit" THEN entry.bundle = r.bundle ELSE entry.index = r.index
        BY <1>4, <2>4
    <2> HIDE DEF entry
    <2>6. install' \in [Products -> Entry] /\ install'[p] = entry
          /\ \A q \in Products \ {p} : install'[q] = install[q]
        BY <1>4, <2>1, <2>3 DEF FilesInv
    <2>7. /\ wanted' = [install |-> wanted'.install, bundle |-> wanted'.bundle]
          /\ wanted'.bundle = wanted.bundle
          /\ wanted'.install = [q \in Products |-> wanted'.install[q]]
          /\ wanted'.install[p] = r /\ \A q \in Products \ {p} : wanted'.install[q] = wanted.install[q]
        <3>1. wanted'.install = [wanted.install EXCEPT ![p] = r] /\ wanted'.bundle = wanted.bundle
              /\ wanted' = [install |-> wanted'.install, bundle |-> wanted'.bundle]
            BY <2>1
        <3> QED BY <1>4, <3>1 DEF FilesInv
    <2>8. \A q \in Products :
              IF install'[q].installFrom = "implicit" THEN install'[q].bundle = wanted'.install[q].bundle
              ELSE install'[q].index = wanted'.install[q].index
        BY <2>5, <2>6, <2>7 DEF FilesInv, FilesAsWanted, InstalledAsWanted
    <2>9. InstalledAsWanted'
        BY <2>8 DEF InstalledAsWanted
    <2>10. BundlesAsWanted'
        BY <1>2, <2>7 DEF FilesInv, FilesAsWanted, BundlesAsWanted
    <2> QED BY <1>2, <2>6, <2>7, <2>9, <2>10 DEF FilesInv, FilesAsWanted, Entry
<1> QED BY <1>3, <1>4

LEMMA BundlesStep == ASSUME FilesInv, EditBundles PROVE FilesInv'
<1>1. PICK n \in 0..Top, i \in 0..Top : Update3scaleBundle(n, i)
    BY DEF EditBundles
<1> DEFINE ok == n # None /\ i # None
           given == [name |-> n, image |-> i]
<1>2. UNCHANGED <<types, install>>
    BY <1>1 DEF Update3scaleBundle
<1>3. CASE ~ok
    <2>1. UNCHANGED <<bundled, wanted>>
        BY <1>1, <1>3 DEF Update3scaleBundle
    <2> QED BY <1>2, <2>1 DEF FilesInv, FilesAsWanted, InstalledAsWanted, BundlesAsWanted, Entry
<1>4. CASE ok
    <2>1. /\ bundled' = modifyBundles(bundled, n, i)
          /\ wanted' = [install |-> wanted.install, bundle |-> [wanted.bundle EXCEPT ![n] = i]]
        BY <1>1, <1>4 DEF Update3scaleBundle
    <2>2. n \in 1..Top /\ n \in Nat /\ i \in Nat /\ given \in [name: Nat, image: Nat]
        BY <1>4, TopAssumption DEF None
    <2>3. /\ wanted' = [install |-> wanted'.install, bundle |-> wanted'.bundle]
          /\ wanted'.install = wanted.install /\ wanted'.bundle \in [1..Top -> Nat]
          /\ wanted'.bundle[n] = i /\ \A m \in (1..Top) \ {n} : wanted'.bundle[m] = wanted.bundle[m]
        <3>1. wanted'.bundle = [wanted.bundle EXCEPT ![n] = i] /\ wanted'.install = wanted.install
              /\ wanted' = [install |-> wanted'.install, bundle |-> wanted'.bundle]
            BY <2>1
        <3> QED BY <2>2, <3>1 DEF FilesInv
    <2>4. bundled \in Seq([name: Nat, image: Nat]) /\ BundlesAsWanted /\ wanted.bundle \in [1..Top -> Nat]
        BY DEF FilesInv, FilesAsWanted
    <2>5. /\ bundled' \in Seq([name: Nat, image: Nat])
          /\ \A j, k \in DOMAIN bundled' : bundled'[j].name = bundled'[k].name => j = k
          /\ \E k \in DOMAIN bundled' : bundled'[k] = given
          /\ \A k \in DOMAIN bundled : bundled[k].name # n =>
                 k \in DOMAIN bundled' /\ bundled'[k] = bundled[k]
        <3>1. CASE \E k \in DOMAIN bundled : bundled[k].name = n
            <4>1. bundled' = [k \in DOMAIN bundled |-> IF bundled[k].name = n THEN given ELSE bundled[k]]
                BY <2>1, <3>1 DEF modifyBundles
            <4> HIDE DEF given
            <4>2. bundled' \in Seq([name: Nat, image: Nat])
                <5> DEFINE Bundle == [name: Nat, image: Nat]
                <5>1. given \in Bundle /\ bundled \in Seq(Bundle)
                    BY <2>2, <2>4
                <5> HIDE DEF Bundle
                <5>2. Len(bundled) \in Nat /\ DOMAIN bundled = 1..Len(bundled)
                      /\ \A k \in DOMAIN bundled : bundled[k] \in Bundle
                    BY <5>1
                <5>3. bundled' \in [1..Len(bundled) -> Bundle]
                    BY <4>1, <5>1, <5>2
                <5>4. bundled' \in Seq(Bundle)
                    BY <5>2, <5>3
                <5> QED BY <5>4 DEF Bundle
            <4>3. given.name = n
                BY DEF given
            <4>4. \A k \in DOMAIN bundled : bundled'[k].name = bundled[k].name
                BY <4>1, <4>3
            <4> QED BY <2>4, <3>1, <4>1, <4>2, <4>4 DEF BundlesAsWanted
        <3>2. CASE ~\E k \in DOMAIN bundled : bundled[k].name = n
            <4>1. bundled' = Append(bundled, given)
                BY <2>1, <3>2 DEF modifyBundles
            <4> HIDE DEF given
            <4>2. given.name = n
                BY DEF given
            <4>3. /\ Len(bundled) \in Nat /\ DOMAIN bundled = 1..Len(bundled)
                  /\ bundled' \in Seq([name: Nat, image: Nat])
                  /\ DOMAIN bundled' = 1..(Len(bundled) + 1) /\ bundled'[Len(bundled) + 1] = given
                  /\ \A k \in DOMAIN bundled : bundled'[k] = bundled[k]
                BY <2>2, <2>4, <4>1
            <4>4. \A k \in DOMAIN bundled' : k \in DOMAIN bundled \/ k = Len(bundled) + 1
                BY <4>3
            <4>5. Len(bundled) + 1 \in DOMAIN bundled' /\ DOMAIN bundled \subseteq DOMAIN bundled'
                BY <4>3
            <4>6. \A j, k \in DOMAIN bundled' : bundled'[j].name = bundled'[k].name => j = k
                BY <2>4, <3>2, <4>2, <4>3, <4>4 DEF BundlesAsWanted
            <4> QED BY <4>3, <4>5, <4>6
        <3> QED BY <3>1, <3>2
    <2>6. \A m \in DOMAIN wanted'.bundle : wanted'.bundle[m] # None =>
              \E k \in DOMAIN bundled' : bundled'[k] = [name |-> m, image |-> wanted'.bundle[m]]
        <3> SUFFICES ASSUME NEW m \in 1..Top, wanted'.bundle[m] # None
                     PROVE  \E k \in DOMAIN bundled' : bundled'[k] = [name |-> m, image |-> wanted'.bundle[m]]
            BY <2>3
        <3>1. CASE m = n
            BY <2>3, <2>5, <3>1
        <3>2. CASE m # n
            <4>1. wanted'.bundle[m] = wanted.bundle[m] /\ m \in DOMAIN wanted.bundle
                BY <2>3, <2>4, <3>2
            <4>2. PICK k \in DOMAIN bundled : bundled[k] = [name |-> m, image |-> wanted.bundle[m]]
                BY <2>4, <4>1 DEF BundlesAsWanted
            <4>3. bundled[k].name # n
                BY <3>2, <4>2
            <4> QED BY <2>5, <4>1, <4>2, <4>3
        <3> QED BY <3>1, <3>2
    <2>7. BundlesAsWanted'
        BY <2>5, <2>6 DEF BundlesAsWanted
    <2>8. InstalledAsWanted'
        BY <1>2, <2>3 DEF FilesInv, FilesAsWanted, InstalledAsWanted
    <2>9. wanted'.install = [p \in Products |-> wanted'.install[p]]
        BY <2>3 DEF FilesInv
    <2> HIDE DEF given
    <2> QED BY <1>2, <2>3, <2>5, <2>7, <2>8, <2>9 DEF FilesInv, FilesAsWanted, Entry
<1> QED BY <1>3, <1>4

LEMMA FilesStep == FilesInv /\ [FilesNext]_fvars => FilesInv'
<1>1. ASSUME FilesInv, UNCHANGED fvars PROVE FilesInv'
    BY <1>1 DEF fvars, FilesInv, FilesAsWanted, InstalledAsWanted, BundlesAsWanted, Entry
<1> QED BY <1>1, TypesStep, InstallStep, BundlesStep DEF FilesNext

THEOREM FilesInvariant == FilesSpec => []FilesInv
<1>1. FilesInit => FilesInv
    BY FilesStart
<1> QED BY <1>1, FilesStep, PTL DEF FilesSpec

(* A product is installed from the image that was last accepted for it, and  *)
(* every bundle is listed once with the image last given for it.             *)
THEOREM FilesAsWantedCorrect == FilesSpec => []FilesAsWanted
<1>1. FilesInv => FilesAsWanted
    BY DEF FilesInv
<1> QED BY <1>1, FilesInvariant, PTL

(* A list is written if one line of it has been set.                         *)
LEMMA SetIsWritten ==
    ASSUME NEW now \in [DOMAIN Lines -> Nat], NEW k \in DOMAIN Lines, NEW version \in Nat
    PROVE  /\ [now EXCEPT ![k] = version] # <<>>
           /\ [now EXCEPT ![k] = version] \in [DOMAIN Lines -> Nat]
           /\ [now EXCEPT ![k] = version][k] = version
           /\ \A i \in DOMAIN Lines \ {k} : [now EXCEPT ![k] = version][i] = now[i]
<1> DEFINE set == [now EXCEPT ![k] = version]
<1>1. set \in [DOMAIN Lines -> Nat] /\ set[k] = version
      /\ \A i \in DOMAIN Lines \ {k} : set[i] = now[i]
    OBVIOUS
<1> HIDE DEF set
<1>2. k \in DOMAIN set
    BY <1>1
<1>3. DOMAIN <<>> = {}
    OBVIOUS
<1>4. set # <<>>
    BY <1>2, <1>3
<1> QED BY <1>1, <1>4 DEF set

LEMMA OperatorSet ==
    ASSUME FilesInv, NEW j \in DOMAIN Lines, NEW operator \in Nat, NEW version \in Nat,
           SetVersion(Lines[j].product, operator, version),
           FindString(Lines[j].product, "Version") # FindString(Lines[j].product, "OperatorVersion"),
           version # types[FindString(Lines[j].product, "Version")]
    PROVE  VersionIsSet'
<1> DEFINE product == Lines[j].product
           ko == FindString(product, "OperatorVersion")
           kv == FindString(product, "Version")
           o == ParseVersion(types, product, operator, "OperatorVersion")
           base == IF o.out # <<>> THEN o.out ELSE types
           v == ParseVersion(base, product, version, "Version")
           out == Out(product, operator, version)
<1>1. Matches(product, "OperatorVersion") # {} /\ Matches(product, "Version") # {}
    BY DEF SetVersion, Matches
<1>2. ko \in DOMAIN Lines /\ kv \in DOMAIN Lines
    BY <1>1, MatchIsOwn
<1>3. types \in [DOMAIN Lines -> Nat] /\ types[ko] \in Nat /\ types[kv] \in Nat
    BY <1>2 DEF FilesInv
<1>4. /\ o.error = (operator = None \/ types[ko] > operator)
      /\ o.out = IF types[ko] < operator THEN [types EXCEPT ![ko] = operator] ELSE <<>>
    BY DEF ParseVersion
<1>5. /\ v.error = (version = None \/ base[kv] > version)
      /\ v.out = IF base[kv] < version THEN [base EXCEPT ![kv] = version] ELSE <<>>
    BY DEF ParseVersion
<1>6. out = IF o.error THEN <<>> ELSE IF version = None THEN o.out ELSE IF v.error THEN <<>> ELSE v.out
    BY DEF Out
<1>7. types' = IF out # <<>> THEN out ELSE types
    BY DEF SetVersion
<1>8. last' = [cmd |-> "types", product |-> product, operator |-> operator, version |-> version]
    BY DEF SetVersion
<1>9. VersionIsSet' <=> (operator # None /\ version >= types'[kv] => types'[ko] >= operator)
    BY <1>8 DEF VersionIsSet, FindString, Matches
<1>10. kv # ko /\ version # types[kv]
    OBVIOUS
<1> HIDE DEF product, ko, kv, o, base, v, out
<1>11. SUFFICES ASSUME operator # None, version >= types'[kv] PROVE types'[ko] >= operator
    BY <1>9
<1>12. CASE types[ko] > operator
    <2>1. types' = types
        BY <1>4, <1>6, <1>7, <1>12
    <2> QED BY <1>3, <1>12, <2>1
<1>13. CASE ~(types[ko] > operator)
    <2>1. ~o.error
        BY <1>4, <1>11, <1>13
    <2>2. base \in [DOMAIN Lines -> Nat] /\ base[ko] = operator /\ base[kv] = types[kv]
        <3>1. CASE types[ko] < operator
            <4>1. o.out = [types EXCEPT ![ko] = operator]
                BY <1>4, <3>1
            <4>2. base = [types EXCEPT ![ko] = operator]
                BY <1>2, <1>3, <4>1, SetIsWritten DEF base
            <4> QED BY <1>2, <1>3, <1>10, <4>2
        <3>2. CASE ~(types[ko] < operator)
            <4>1. base = types
                BY <1>4, <3>2 DEF base
            <4>2. types[ko] = operator
                BY <1>3, <1>13, <3>2
            <4> QED BY <1>3, <4>1, <4>2
        <3> QED BY <3>1, <3>2
    <2>3. CASE version = None
        <3>1. types' = base
            BY <1>6, <1>7, <2>1, <2>3 DEF base
        <3> QED BY <2>2, <3>1
    <2>4. CASE version # None /\ types[kv] > version
        <3>1. types' = types
            BY <1>5, <1>6, <1>7, <2>1, <2>2, <2>4
        <3> QED BY <1>3, <1>11, <2>4, <3>1
    <2>5. CASE version # None /\ types[kv] < version
        <3>1. base[kv] < version /\ ~(base[kv] > version)
            BY <1>3, <2>2, <2>5
        <3>2. v.out = [base EXCEPT ![kv] = version]
            BY <1>5, <3>1
        <3>3. ~v.error
            BY <1>5, <2>5, <3>1
        <3>4. types' = [base EXCEPT ![kv] = version]
            BY <1>2, <1>6, <1>7, <2>1, <2>2, <2>5, <3>2, <3>3, SetIsWritten
        <3> QED BY <1>2, <1>10, <2>2, <3>4
    <2> QED BY <1>3, <1>10, <2>3, <2>4, <2>5
<1> QED BY <1>12, <1>13

(* The step of set-product-operator-version where the product's version is   *)
(* not given as the one that is there already, and has a line that is not    *)
(* the operator's.                                                           *)
SetsOperator ==
    \A j \in DOMAIN Lines, o, v \in 0..Top :
        /\ SetVersion(Lines[j].product, o, v)
        /\ FindString(Lines[j].product, "Version") # FindString(Lines[j].product, "OperatorVersion")
        /\ v # types[FindString(Lines[j].product, "Version")]
        => VersionIsSet'

(* There the command keeps its promise: the operator's version is set. With  *)
(* the current version of the product it is not (manageRHMITypes.go:74).     *)
THEOREM SetUnlessCurrent == FilesSpec => [][SetsOperator]_fvars
<1>1. FilesInv => SetsOperator
    BY OperatorSet, TopAssumption DEF SetsOperator
<1>2. FilesInv /\ [FilesNext]_fvars => [SetsOperator]_fvars
    BY <1>1
<1> QED BY <1>2, FilesInvariant, PTL DEF FilesSpec

(* No version is taken back in any order of any edits, and a line of another *)
(* product changes only where the product has none before it, for any lines  *)
(* and names that begin one another.                                         *)
THEOREM TypesGrowCorrect == FilesSpec => TypesGrow
<1>1. ASSUME FilesInv, [FilesNext]_fvars
      PROVE  [\A k \in DOMAIN Lines :
                 types'[k] # types[k] => types'[k] > types[k] /\ OwnOrNone(k, last'.product)]_fvars
    <2>1. CASE EditTypes
        <3>1. PICK j \in DOMAIN Lines, o \in 0..Top, v \in 0..Top : SetVersion(Lines[j].product, o, v)
            BY <2>1 DEF EditTypes
        <3>2. Raised(types, types', Lines[j].product)
            BY <1>1, <3>1, TypesRaised, TopAssumption DEF FilesInv
        <3>3. last'.product = Lines[j].product
            BY <3>1 DEF SetVersion
        <3> QED BY <3>2, <3>3 DEF Raised
    <2>2. CASE EditInstall \/ EditBundles
        <3>1. types' = types
            BY <2>2 DEF EditInstall, EditBundles, ProcessBundle, Update3scaleBundle
        <3> QED BY <3>1
    <2> QED BY <1>1, <2>1, <2>2 DEF FilesNext
<1> QED BY <1>1, FilesInvariant, PTL DEF FilesSpec, TypesGrow

----------------------------------------------------------------------------
(* The report of a pipeline.                                                 *)
ReportInv ==
    /\ Len(stages) \in Nat /\ DOMAIN stages = 1..Len(stages)
    /\ \A k \in DOMAIN stages : stages[k].status \in Statuses
    /\ suite = <<>> \/ \E f \in BOOLEAN : suite = ToJUnitSuites(stages, f)

(* One stage fails for each way of not succeeding that there is.             *)
LEMMA OneFailureEach ==
    ASSUME ReportInv
    PROVE  LET failed == {k \in DOMAIN stages : Outcome(stages, k) = "failed"}
           IN  /\ IsFiniteSet(failed)
               /\ Cardinality(failed) =
                      Cardinality({"FAILED", "ABORTED"} \intersect {stages[k].status : k \in DOMAIN stages})
<1> DEFINE failed == {k \in DOMAIN stages : Outcome(stages, k) = "failed"}
           ways == {"FAILED", "ABORTED"} \intersect {stages[k].status : k \in DOMAIN stages}
           way == [k \in failed |-> stages[k].status]
<1>1. \A k \in DOMAIN stages :
          k \in failed <=> stages[k].status \in {"FAILED", "ABORTED"}
                           /\ \A j \in 1..(k - 1) : stages[j].status # stages[k].status
    BY DEF Outcome, Before
<1>2. IsFiniteSet(failed)
    <2>1. IsFiniteSet(1..Len(stages))
        BY FS_Interval DEF ReportInv
    <2> QED BY <2>1, FS_Subset DEF ReportInv
<1>3. way \in [failed -> ways]
    BY <1>1
<1>4. \A j, k \in failed : way[j] = way[k] => j = k
    <2> SUFFICES ASSUME NEW j \in failed, NEW k \in failed, way[j] = way[k], j # k PROVE FALSE
        OBVIOUS
    <2>1. j \in DOMAIN stages /\ k \in DOMAIN stages /\ stages[j].status = stages[k].status
          /\ j \in Nat \ {0} /\ k \in Nat \ {0}
        BY DEF ReportInv
    <2>2. j \notin 1..(k - 1) /\ k \notin 1..(j - 1)
        BY <1>1, <2>1
    <2> QED BY <2>1, <2>2
<1>5. \A w \in ways : \E k \in failed : way[k] = w
    <2> TAKE w \in ways
    <2> DEFINE with == {k \in DOMAIN stages : stages[k].status = w}
    <2>1. with \in SUBSET Nat /\ with # {}
        BY DEF ReportInv
    <2>2. PICK k \in with : \A j \in with : k <= j
        BY <2>1, LeastNumber
    <2>3. \A j \in 1..(k - 1) : stages[j].status # stages[k].status
        <3> SUFFICES ASSUME NEW j \in 1..(k - 1), stages[j].status = stages[k].status PROVE FALSE
            OBVIOUS
        <3>1. j \in with /\ j < k
            BY <2>2 DEF ReportInv
        <3> QED BY <2>1, <2>2, <3>1
    <2>4. k \in failed
        BY <1>1, <2>2, <2>3
    <2> QED BY <2>2, <2>4
<1>6. way \in Bijection(failed, ways)
    BY <1>3, <1>4, <1>5 DEF Bijection, Injection, IsInjective, Surjection
<1>7. ExistsBijection(failed, ways)
    BY <1>6 DEF ExistsBijection
<1> HIDE DEF failed, ways
<1> QED BY <1>2, <1>7, FS_Bijection DEF failed, ways

LEMMA CountsRight == ReportInv => FailuresCounted
<1> SUFFICES ASSUME ReportInv, suite # <<>> PROVE FailuresCounted
    BY DEF FailuresCounted
<1>1. PICK f \in BOOLEAN : suite = ToJUnitSuites(stages, f)
    BY DEF ReportInv
<1> DEFINE failed == {k \in DOMAIN stages : Outcome(stages, k) = "failed"}
           shown == {k \in DOMAIN suite.cases : suite.cases[k] = "failed"}
<1>2. /\ suite.failures = Cardinality(failed)
      /\ suite.cases = [k \in {i \in DOMAIN stages : f => stages[i].matches} |-> Outcome(stages, k)]
    BY <1>1 DEF ToJUnitSuites
<1>3. shown \subseteq failed /\ (DOMAIN suite.cases = DOMAIN stages => shown = failed)
    BY <1>2
<1>4. Cardinality(shown) <= suite.failures
    <2>1. IsFiniteSet(failed)
        BY OneFailureEach
    <2> HIDE DEF failed, shown
    <2>2. Cardinality(shown) <= Cardinality(failed)
        BY <1>3, <2>1, FS_Subset
    <2> QED BY <1>2, <2>2
<1> QED BY <1>2, <1>3, <1>4, OneFailureEach DEF FailuresCounted

(* A run with unsuccessful stages never looks clean, for any run: there is a *)
(* failure for each way of not succeeding.                                   *)
THEOREM FailuresCountedCorrect == ReportSpec => []FailuresCounted
<1>1. ReportInit => ReportInv
    BY StagesAssumption DEF ReportInit, ReportInv
<1>2. ReportInv /\ [report]_jvars => ReportInv'
    <2>1. ASSUME ReportInv, UNCHANGED jvars PROVE ReportInv'
        <3>1. stages' = stages /\ suite' = suite
            BY <2>1 DEF jvars
        <3>2. \A f \in BOOLEAN : ToJUnitSuites(stages, f)' = ToJUnitSuites(stages, f)
            BY <3>1 DEF ToJUnitSuites, Outcome, Before
        <3>3. (suite = <<>> \/ \E f \in BOOLEAN : suite = ToJUnitSuites(stages, f))'
            BY <2>1, <3>1, <3>2 DEF ReportInv
        <3> QED BY <2>1, <3>1, <3>3 DEF ReportInv
    <2>2. ASSUME ReportInv, report PROVE ReportInv'
        <3>1. stages' = stages /\ \E f \in BOOLEAN : suite' = ToJUnitSuites(stages', f)
            BY <2>2 DEF report
        <3>2. (\E f \in BOOLEAN : suite = ToJUnitSuites(stages, f))'
            BY <3>1 DEF ToJUnitSuites, Outcome, Before
        <3> QED BY <2>2, <3>1, <3>2 DEF ReportInv
    <2> QED BY <2>1, <2>2
<1> QED BY <1>1, <1>2, CountsRight, PTL DEF ReportSpec

----------------------------------------------------------------------------
(* The supported versions.  An induction over numbers is one over the set    *)
(* of those that have the property: a number without it would have a least   *)
(* one before it.                                                            *)
LEMMA EveryNumber ==
    ASSUME NEW S, 0 \in S, \A n \in Nat : n \in S => n + 1 \in S
    PROVE  Nat \subseteq S
<1> SUFFICES ASSUME Nat \ S # {} PROVE FALSE
    OBVIOUS
<1>1. PICK n \in Nat \ S : \A k \in Nat \ S : n <= k
    BY LeastNumber
<1>2. n - 1 \in Nat /\ n - 1 \in S /\ n = (n - 1) + 1
    BY <1>1
<1> QED BY <1>1, <1>2

Above(S, x) == {m \in S : m > x}

LEMMA AboveIsFinite ==
    ASSUME NEW S \in SUBSET Nat, IsFiniteSet(S)
    PROVE  \A x \in Nat : IsFiniteSet(Above(S, x)) /\ Cardinality(Above(S, x)) \in Nat
<1>1. \A x \in Nat : Above(S, x) \in SUBSET S
    BY DEF Above
<1> QED BY <1>1, FS_Subset, FS_CardinalityType

LEMMA AboveShrinks ==
    ASSUME NEW S \in SUBSET Nat, IsFiniteSet(S), NEW T \in SUBSET S, NEW x \in Nat
    PROVE  Cardinality(Above(T, x)) <= Cardinality(Above(S, x))
<1>1. Above(T, x) \in SUBSET Above(S, x)
    BY DEF Above
<1> QED BY <1>1, AboveIsFinite, FS_Subset

(* A finite set of numbers has a largest one: the one with the fewest above. *)
LEMMA Largest ==
    ASSUME NEW S \in SUBSET Nat, IsFiniteSet(S), S # {}
    PROVE  \E x \in S : Above(S, x) = {}
<1> DEFINE sizes == {Cardinality(Above(S, x)) : x \in S}
<1>1. sizes \in SUBSET Nat /\ sizes # {}
    BY AboveIsFinite
<1>2. PICK k \in sizes : \A l \in sizes : k <= l
    BY <1>1, LeastNumber
<1>3. PICK x \in S : k = Cardinality(Above(S, x))
    BY <1>2
<1>4. ASSUME NEW y \in Above(S, x) PROVE FALSE
    <2>1. y \in S /\ y > x /\ y \notin Above(S, y)
          /\ Above(S, y) \in SUBSET Above(S, x)
        <3>1. y \in S /\ y > x /\ x \in Nat /\ y \in Nat
            BY <1>3, <1>4 DEF Above
        <3>2. \A z \in Nat : z > y => z > x
            BY <3>1
        <3>3. ~(y > y)
            BY <3>1
        <3>4. Above(S, y) \in SUBSET Above(S, x)
            BY <3>2 DEF Above
        <3> QED BY <3>1, <3>3, <3>4 DEF Above
    <2>2. Cardinality(Above(S, y)) <= Cardinality(Above(S, x))
          /\ (Cardinality(Above(S, x)) = Cardinality(Above(S, y)) => Above(S, x) = Above(S, y))
        BY <2>1, AboveIsFinite, FS_Subset
    <2>3. k <= Cardinality(Above(S, y))
        BY <1>2, <2>1
    <2>4. Cardinality(Above(S, x)) \in Nat /\ Cardinality(Above(S, y)) \in Nat
        BY <2>1, AboveIsFinite
    <2> QED BY <1>3, <1>4, <2>1, <2>2, <2>3, <2>4
<1> QED BY <1>4

(* Cutting a list keeps what is among its newest.                            *)
LEMMA CutAbove ==
    ASSUME NEW S \in SUBSET Nat, IsFiniteSet(S), NEW c \in Nat, NEW d \in 0..c, NEW x \in Nat
    PROVE  Cardinality(Above(S, x)) < d <=> Cardinality(Above(LastOf(S, c), x)) < d
<1> DEFINE newest == LastOf(S, c)
<1>1. newest \in SUBSET S /\ newest \in SUBSET Nat /\ IsFiniteSet(newest)
    BY FS_Subset DEF LastOf
<1>2. /\ Cardinality(Above(newest, x)) <= Cardinality(Above(S, x))
      /\ Cardinality(Above(newest, x)) \in Nat /\ Cardinality(Above(S, x)) \in Nat
    BY <1>1, AboveIsFinite, AboveShrinks
<1>3. ASSUME Cardinality(Above(newest, x)) < d, ~(Cardinality(Above(S, x)) < d) PROVE FALSE
    <2> DEFINE lost == Above(S, x) \ newest
    <2>1. lost # {}
        <3>1. SUFFICES ASSUME lost = {} PROVE FALSE
            OBVIOUS
        <3>2. Above(S, x) = Above(newest, x)
            BY <1>1, <3>1 DEF Above
        <3> QED BY <1>2, <1>3, <3>2
    <2>2. lost \in SUBSET Nat /\ IsFiniteSet(lost)
        <3>1. lost \in SUBSET S
            BY DEF Above
        <3> QED BY <3>1, FS_Subset
    <2>3. PICK y \in lost : Above(lost, y) = {}
        BY <2>1, <2>2, Largest
    <2>4. y \in S /\ y > x /\ y \notin newest /\ y \in Nat
        BY <2>2, <2>3 DEF Above
    <2>5. Above(S, y) \in SUBSET Above(newest, x)
        <3>1. ASSUME NEW z \in Above(S, y) PROVE z \in Above(newest, x)
            <4>1. z \in S /\ z > y /\ z \in Nat
                BY <3>1 DEF Above
            <4>2. z > x
                BY <2>4, <4>1
            <4>3. z \notin lost
                BY <2>3, <4>1 DEF Above
            <4>4. z \in newest
                BY <4>1, <4>2, <4>3 DEF Above
            <4> QED BY <4>2, <4>4 DEF Above
        <3> QED BY <3>1
    <2>6. ~(Cardinality(Above(S, y)) < c)
        BY <2>4 DEF LastOf, Above
    <2>7. Cardinality(Above(S, y)) <= Cardinality(Above(newest, x)) /\ Cardinality(Above(S, y)) \in Nat
        <3>1. IsFiniteSet(Above(newest, x))
            BY <1>1, AboveIsFinite
        <3> QED BY <2>4, <2>5, <3>1, FS_Subset, AboveIsFinite
    <2> QED BY <1>2, <1>3, <2>6, <2>7
<1> QED BY <1>2, <1>3

(* One turn of the loop: cutting the list at every turn is cutting it at the *)
(* end.                                                                      *)
LEMMA CutKeeps ==
    ASSUME NEW S \in SUBSET Nat, IsFiniteSet(S), NEW n \in Nat, NEW c \in Nat
    PROVE  Cut(LastOf(S, c), n, c) = LastOf(S \union {n}, c)
<1> DEFINE newest == LastOf(S, c)
           T == S \union {n}
<1>1. /\ newest \in SUBSET S /\ newest \in SUBSET Nat /\ IsFiniteSet(newest)
      /\ T \in SUBSET Nat /\ IsFiniteSet(T)
      /\ newest \union {n} \in SUBSET T /\ IsFiniteSet(newest \union {n})
    BY FS_Subset, FS_AddElement DEF LastOf
<1>2. CASE n \in newest
    BY <1>1, <1>2 DEF Cut
<1>3. CASE n \notin newest
    <2>1. ASSUME NEW x \in Nat
          PROVE  Cardinality(Above(T, x)) < c <=> Cardinality(Above(newest \union {n}, x)) < c
        <3> DEFINE old == Cardinality(Above(S, x))
                   lost == Cardinality(Above(newest, x))
        <3>1. IsFiniteSet(Above(S, x)) /\ IsFiniteSet(Above(newest, x)) /\ old \in Nat /\ lost \in Nat
            BY <1>1, AboveIsFinite
        <3>2. CASE ~(n > x)
            <4>1. Above(T, x) = Above(S, x) /\ Above(newest \union {n}, x) = Above(newest, x)
                BY <3>2 DEF Above
            <4>2. c \in 0..c
                OBVIOUS
            <4> QED BY <4>1, <4>2, CutAbove
        <3>3. CASE n > x /\ n \notin S
            <4>1. Above(T, x) = Above(S, x) \union {n} /\ Above(newest \union {n}, x) = Above(newest, x) \union {n}
                BY <3>3 DEF Above
            <4>2. n \notin Above(S, x) /\ n \notin Above(newest, x)
                BY <1>3, <3>3 DEF Above
            <4>3. Cardinality(Above(T, x)) = old + 1 /\ Cardinality(Above(newest \union {n}, x)) = lost + 1
                BY <3>1, <4>1, <4>2, FS_AddElement
            <4>4. CASE c = 0
                BY <3>1, <4>3, <4>4
            <4>5. CASE c # 0
                <5>1. c - 1 \in 0..c
                    BY <4>5
                <5>2. old < c - 1 <=> lost < c - 1
                    BY <5>1, CutAbove
                <5> HIDE DEF old, lost
                <5> QED BY <3>1, <4>3, <5>2
            <4> QED BY <4>4, <4>5
        <3>4. CASE n > x /\ n \in S
            <4>1. ~(Cardinality(Above(S, n)) < c) /\ c \in 0..c
                BY <1>3, <3>4 DEF LastOf, Above
            <4>2. ~(Cardinality(Above(newest, n)) < c)
                BY <4>1, CutAbove
            <4>3. /\ Above(newest, n) \in SUBSET Above(newest \union {n}, x)
                  /\ Above(newest \union {n}, x) \in SUBSET Above(T, x)
                BY <1>1, <3>4 DEF Above
            <4>4. /\ IsFiniteSet(Above(T, x)) /\ IsFiniteSet(Above(newest \union {n}, x))
                  /\ Cardinality(Above(T, x)) \in Nat /\ Cardinality(Above(newest \union {n}, x)) \in Nat
                  /\ Cardinality(Above(newest, n)) \in Nat
                BY <1>1, AboveIsFinite
            <4>5. /\ Cardinality(Above(newest, n)) <= Cardinality(Above(newest \union {n}, x))
                  /\ Cardinality(Above(newest \union {n}, x)) <= Cardinality(Above(T, x))
                BY <4>3, <4>4, FS_Subset
            <4> QED BY <4>2, <4>4, <4>5
        <3> QED BY <3>2, <3>3, <3>4
    <2>2. ASSUME NEW x \in T, x \notin newest \union {n} PROVE ~(Cardinality(Above(T, x)) < c)
        <3>1. x \in S /\ x \in Nat
            BY <2>2
        <3>2. ~(Cardinality(Above(S, x)) < c)
            BY <2>2, <3>1 DEF LastOf, Above
        <3>3. /\ Cardinality(Above(S, x)) <= Cardinality(Above(T, x))
              /\ Cardinality(Above(S, x)) \in Nat /\ Cardinality(Above(T, x)) \in Nat
            BY <1>1, <3>1, AboveShrinks, AboveIsFinite
        <3> QED BY <3>2, <3>3
    <2>3. LastOf(newest \union {n}, c) = LastOf(T, c)
        BY <1>1, <2>1, <2>2 DEF LastOf, Above
    <2> QED BY <1>3, <2>3 DEF Cut
<1> QED BY <1>2, <1>3

(* The loop that finds the streams of a major version: what it starts with   *)
(* and what one turn makes of the list.                                      *)
Turn(folders, versions, m, count, i, numbers) ==
    IF i \in versions /\ Major(folders[i]) = m THEN Cut(numbers, Minor(folders[i]), count) ELSE numbers

Loop(folders, versions, m, count, n, g) ==
    g = [i \in 0..n |-> IF i = 0 THEN {} ELSE Turn(folders, versions, m, count, i, g[i - 1])]

LEMMA LoopRuns ==
    ASSUME NEW folders, NEW versions, NEW m, NEW count, NEW length \in Nat
    PROVE  \E g : Loop(folders, versions, m, count, length, g)
<1> DEFINE turn(i, numbers) == Turn(folders, versions, m, count, i, numbers)
           starts == {n \in Nat : \E g : Loop(folders, versions, m, count, n, g)}
<1>1. 0 \in starts
    <2> DEFINE g == [i \in 0..0 |-> {}]
    <2>1. g = [i \in 0..0 |-> IF i = 0 THEN {} ELSE turn(i, g[i - 1])]
        OBVIOUS
    <2> HIDE DEF g
    <2> QED BY <2>1 DEF Loop
<1>2. ASSUME NEW n \in Nat, n \in starts PROVE n + 1 \in starts
    <2>1. PICK g : Loop(folders, versions, m, count, n, g)
        BY <1>2
    <2> DEFINE h == [i \in 0..(n + 1) |-> IF i = n + 1 THEN turn(n + 1, g[n]) ELSE g[i]]
    <2>2. \A i \in 0..n : g[i] = IF i = 0 THEN {} ELSE turn(i, g[i - 1])
        BY <2>1 DEF Loop
    <2> HIDE DEF turn
    <2>3. ASSUME NEW i \in 0..(n + 1)
          PROVE  h[i] = IF i = 0 THEN {} ELSE turn(i, h[i - 1])
        <3>1. CASE i = n + 1
            <4>1. i # 0 /\ i - 1 = n /\ n \in 0..(n + 1) /\ n # n + 1
                BY <3>1
            <4> QED BY <3>1, <4>1
        <3>2. CASE i # n + 1
            <4>1. i \in 0..n /\ h[i] = g[i]
                BY <3>2
            <4>2. i # 0 => i - 1 \in 0..(n + 1) /\ i - 1 # n + 1
                BY <3>2
            <4>3. i # 0 => h[i - 1] = g[i - 1]
                BY <4>2
            <4> HIDE DEF h
            <4> QED BY <2>2, <4>1, <4>3
        <3> QED BY <3>1, <3>2
    <2>4. h = [i \in 0..(n + 1) |-> IF i = 0 THEN {} ELSE turn(i, h[i - 1])]
        BY <2>3
    <2> HIDE DEF h
    <2> USE DEF turn
    <2> QED BY <2>4 DEF Loop
<1>3. Nat \subseteq starts
    <2> HIDE DEF starts
    <2> QED BY <1>1, <1>2, EveryNumber
<1> QED BY <1>3

LEMMA StreamsTurn ==
    ASSUME NEW folders, Len(folders) \in Nat, NEW versions, NEW m, NEW count
    PROVE  LET s == Streams(folders, versions, m, count)
           IN  /\ s[0] = {}
               /\ \A i \in 1..Len(folders) : s[i] = Turn(folders, versions, m, count, i, s[i - 1])
<1> DEFINE s == Streams(folders, versions, m, count)
<1>1. s = CHOOSE g : Loop(folders, versions, m, count, Len(folders), g)
    BY Zenon DEF Streams, Loop, Turn
<1>2. Loop(folders, versions, m, count, Len(folders), s)
    BY <1>1, LoopRuns
<1> HIDE DEF s
<1>3. \A i \in 0..Len(folders) :
          s[i] = IF i = 0 THEN {} ELSE Turn(folders, versions, m, count, i, s[i - 1])
    BY <1>2 DEF Loop
<1>4. 0 \in 0..Len(folders) /\ \A i \in 1..Len(folders) : i \in 0..Len(folders) /\ i # 0
    OBVIOUS
<1> QED BY <1>3, <1>4 DEF s

(* After each turn the list is the newest of the streams passed so far.      *)
Passed(folders, versions, m, n) ==
    {Minor(folders[i]) : i \in {k \in versions : k <= n /\ Major(folders[k]) = m}}

LEMMA StreamsAre ==
    ASSUME NEW folders, Len(folders) \in Nat, NEW versions \in SUBSET (1..Len(folders)),
           \A i \in versions : folders[i] \in Version, NEW m, NEW count \in Nat
    PROVE  /\ IsFiniteSet(Passed(folders, versions, m, Len(folders)))
           /\ Streams(folders, versions, m, count)[Len(folders)]
                  = LastOf(Passed(folders, versions, m, Len(folders)), count)
<1> DEFINE s == Streams(folders, versions, m, count)
           passed(n) == Passed(folders, versions, m, n)
           good == {n \in Nat : n <= Len(folders) =>
                        IsFiniteSet(passed(n)) /\ s[n] = LastOf(passed(n), count)}
<1>1. \A i \in versions : Minor(folders[i]) \in Nat /\ i \in Nat \ {0}
    BY DEF Version, Minor
<1>2. \A n \in Nat : passed(n) \in SUBSET Nat
    BY <1>1 DEF Passed
<1>3. 0 \in good
    <2>1. passed(0) = {}
        BY <1>1 DEF Passed
    <2>2. LastOf({}, count) = {}
        BY DEF LastOf
    <2>3. s[0] = {}
        BY StreamsTurn
    <2> HIDE DEF s, passed
    <2> QED BY <2>1, <2>2, <2>3, FS_EmptySet
<1>4. ASSUME NEW n \in Nat, n \in good PROVE n + 1 \in good
    <2> SUFFICES ASSUME n + 1 <= Len(folders)
                 PROVE  IsFiniteSet(passed(n + 1)) /\ s[n + 1] = LastOf(passed(n + 1), count)
        OBVIOUS
    <2>1. IsFiniteSet(passed(n)) /\ s[n] = LastOf(passed(n), count) /\ passed(n) \in SUBSET Nat
        BY <1>2, <1>4
    <2>2. s[n + 1] = Turn(folders, versions, m, count, n + 1, s[n])
        <3>1. n + 1 \in 1..Len(folders) /\ (n + 1) - 1 = n
            OBVIOUS
        <3> HIDE DEF s
        <3> QED BY <3>1, StreamsTurn DEF s
    <2> DEFINE taken == n + 1 \in versions /\ Major(folders[n + 1]) = m
    <2>3. CASE taken
        <3>1. passed(n + 1) = passed(n) \union {Minor(folders[n + 1])}
            BY <1>1, <2>3 DEF Passed
        <3>2. s[n + 1] = Cut(s[n], Minor(folders[n + 1]), count)
            BY <2>2, <2>3 DEF Turn
        <3>3. Minor(folders[n + 1]) \in Nat
            BY <1>1, <2>3
        <3> HIDE DEF s, passed
        <3> QED BY <2>1, <3>1, <3>2, <3>3, CutKeeps, FS_AddElement
    <2>4. CASE ~taken
        <3>1. passed(n + 1) = passed(n)
            BY <1>1, <2>4 DEF Passed
        <3>2. s[n + 1] = s[n]
            BY <2>2, <2>4 DEF Turn
        <3> HIDE DEF s, passed
        <3> QED BY <2>1, <3>1, <3>2
    <2> QED BY <2>3, <2>4
<1>5. Nat \subseteq good
    <2> HIDE DEF good
    <2> QED BY <1>3, <1>4, EveryNumber
<1> QED BY <1>5

(* What the help of the command promises of its answer.                      *)
VersionsInv ==
    /\ asked \in [folders: Seq(Version \union {NotAVersion}), production: Version, majors: Nat, minors: Nat]
    /\ answer = <<>> \/ answer = Supported(asked)

Trimmed == trimSemverVersions(asked.folders, DOMAIN asked.folders, asked.production)

(* A folder is taken when no more streams are above it than were asked for.  *)
LEMMA TakenIsSupported ==
    ASSUME VersionsInv, NotAVersion \notin ToSet(asked.folders)
    PROVE  getPatchVersions(asked.folders, Trimmed,
               getMinorVersions(asked.folders, Trimmed,
                   getMajorVersions(asked.folders, Trimmed, asked.majors), asked.minors))
           = {i \in DOMAIN asked.folders :
                 asked.folders[i] \in Candidates /\ IsSupported(asked.folders[i])}
<1> DEFINE f == asked.folders
           majors == getMajorVersions(f, Trimmed, asked.majors)
           minors == getMinorVersions(f, Trimmed, majors, asked.minors)
<1>1. /\ Len(f) \in Nat /\ DOMAIN f = 1..Len(f) /\ asked.production \in Version
      /\ asked.majors \in Nat /\ asked.minors \in Nat
    BY DEF VersionsInv
<1>2. \A i \in DOMAIN f : f[i] \in Version
    BY DEF VersionsInv, ToSet
<1>3. Trimmed = {i \in DOMAIN f : f[i] \in Candidates} /\ Candidates = {f[i] : i \in Trimmed}
    BY DEF Trimmed, trimSemverVersions, Candidates, AtMost, ToSet
<1>4. \A i \in DOMAIN f : Major(f[i]) \in Nat /\ Minor(f[i]) \in Nat
    BY <1>2 DEF Version, Major, Minor
<1>5. ASSUME NEW i \in Trimmed
      PROVE  /\ Major(f[i]) \in majors
                  <=> Cardinality({Major(w) : w \in {u \in Candidates : Major(u) > Major(f[i])}}) < asked.majors
             /\ Major(f[i]) \in majors =>
                  (Minor(f[i]) \in minors[Major(f[i])] <=>
                      Cardinality({Minor(w) : w \in {u \in Candidates :
                          Major(u) = Major(f[i]) /\ Minor(u) > Minor(f[i])}}) < asked.minors)
    <2> DEFINE m == Major(f[i])
               all == {Major(f[k]) : k \in Trimmed}
               passed == Passed(f, Trimmed, m, Len(f))
    <2>1. {n \in all : n > m} = {Major(w) : w \in {u \in Candidates : Major(u) > m}}
        BY <1>3
    <2>2. majors = LastOf(all, asked.majors) /\ m \in all
        BY <1>5 DEF getMajorVersions
    <2>3. m \in majors <=> Cardinality({n \in all : n > m}) < asked.majors
        <3> HIDE DEF majors, all, m
        <3> QED BY <2>2 DEF LastOf
    <2>4. passed = {Minor(u) : u \in {v \in Candidates : Major(v) = m}}
        <3>1. {k \in Trimmed : k <= Len(f) /\ Major(f[k]) = m} = {k \in Trimmed : Major(f[k]) = m}
            BY <1>1, <1>3
        <3>2. passed = {Minor(f[k]) : k \in {l \in Trimmed : Major(f[l]) = m}}
            BY <3>1 DEF Passed
        <3> HIDE DEF m, passed
        <3> QED BY <1>3, <3>2
    <2>5. Minor(f[i]) \in passed
        BY <1>3, <1>5, <2>4
    <2>6. {n \in passed : n > Minor(f[i])}
              = {Minor(w) : w \in {u \in Candidates : Major(u) = m /\ Minor(u) > Minor(f[i])}}
        <3> HIDE DEF passed
        <3> QED BY <2>4
    <2>7. ASSUME m \in majors PROVE minors[m] = LastOf(passed, asked.minors)
        <3>1. minors[m] = Streams(f, Trimmed, m, asked.minors)[Len(f)]
            BY <2>7 DEF getMinorVersions
        <3>2. Trimmed \in SUBSET (1..Len(f)) /\ \A k \in Trimmed : f[k] \in Version
            BY <1>1, <1>2, <1>3
        <3> HIDE DEF f, majors, minors, m
        <3> QED BY <1>1, <3>1, <3>2, StreamsAre DEF f
    <2>8. m \in majors => (Minor(f[i]) \in minors[m]
              <=> Cardinality({n \in passed : n > Minor(f[i])}) < asked.minors)
        <3> HIDE DEF majors, minors, passed, m
        <3> QED BY <2>5, <2>7 DEF LastOf
    <2> QED BY <2>1, <2>3, <2>6, <2>8
<1>6. DOMAIN minors = majors
    BY DEF getMinorVersions
<1> QED BY <1>3, <1>5, <1>6 DEF getPatchVersions, IsSupported

LEMMA AnswerIsExact == VersionsInv => SupportedExact
<1> SUFFICES ASSUME VersionsInv, answer # <<>> PROVE SupportedExact
    BY DEF SupportedExact
<1> DEFINE f == asked.folders
           taken == {i \in DOMAIN f : f[i] \in Candidates /\ IsSupported(f[i])}
<1>1. answer = Supported(asked)
    BY DEF VersionsInv
<1>2. CASE NotAVersion \in ToSet(f)
    <2>1. answer = Failed
        BY <1>1, <1>2 DEF Supported, getSemverValues, Failed
    <2> QED BY <1>2, <2>1 DEF SupportedExact, Failed
<1>3. CASE NotAVersion \notin ToSet(f)
    <2>1. getSemverValues(f) = [error |-> FALSE, list |-> DOMAIN f]
        BY <1>3 DEF getSemverValues
    <2>2. answer = IF taken = {} THEN Failed ELSE [error |-> FALSE, list |-> taken]
        <3> DEFINE list == getPatchVersions(f, Trimmed, getMinorVersions(f, Trimmed,
                               getMajorVersions(f, Trimmed, asked.majors), asked.minors))
        <3>1. list = taken
            BY <1>3, TakenIsSupported
        <3>2. getSemverValues(f).list = DOMAIN f /\ getSemverValues(f).error = FALSE
            BY <2>1
        <3>3. Supported(asked) = IF list = {} THEN Failed ELSE [error |-> FALSE, list |-> list]
            BY <3>2 DEF Supported, Trimmed
        <3> HIDE DEF list, taken
        <3> QED BY <1>1, <3>1, <3>3
    <2>3. ASSUME taken = {} PROVE \A v \in Candidates : ~IsSupported(v)
        <3>1. \A v \in Candidates : \E i \in DOMAIN f : f[i] = v
            BY DEF Candidates, ToSet
        <3> HIDE DEF f
        <3> QED BY <2>3, <3>1
    <2> HIDE DEF taken
    <2>4. CASE taken = {}
        <3>1. answer.error /\ answer.list = {}
            BY <2>2, <2>4 DEF Failed
        <3> QED BY <2>3, <2>4, <3>1 DEF SupportedExact, taken
    <2>5. CASE taken # {}
        <3>1. answer.error = FALSE /\ answer.list = taken
            BY <2>2, <2>5
        <3> QED BY <3>1 DEF SupportedExact, taken
    <2> QED BY <2>4, <2>5
<1> QED BY <1>2, <1>3

LEMMA ProductionIsNewest == VersionsInv => ProductionSupported
<1> SUFFICES ASSUME VersionsInv, answer # <<>>, NotAVersion \notin ToSet(asked.folders),
                    asked.production \in ToSet(asked.folders), asked.majors > 0, asked.minors > 0
             PROVE  \E i \in answer.list : asked.folders[i] = asked.production
    BY DEF ProductionSupported
<1> DEFINE p == asked.production
<1>1. p \in Version /\ asked.majors \in Nat /\ asked.minors \in Nat
      /\ \A v \in Candidates : v \in Version /\ AtMost(v, p)
    BY DEF VersionsInv, Candidates, ToSet
<1>2. p \in Candidates /\ \A v \in Candidates :
          Major(v) \in Nat /\ Minor(v) \in Nat /\ ~(Major(v) > Major(p))
          /\ (Major(v) = Major(p) => ~(Minor(v) > Minor(p)))
    BY <1>1 DEF Version, Major, Minor, AtMost, Candidates
<1>3. IsSupported(p)
    <2>1. {u \in Candidates : Major(u) > Major(p)} = {}
          /\ {u \in Candidates : Major(u) = Major(p) /\ Minor(u) > Minor(p)} = {}
        BY <1>2
    <2>2. {Major(w) : w \in {u \in Candidates : Major(u) > Major(p)}} = {}
          /\ {Minor(w) : w \in {u \in Candidates : Major(u) = Major(p) /\ Minor(u) > Minor(p)}} = {}
        BY <2>1
    <2> QED BY <1>1, <2>2, FS_EmptySet DEF IsSupported
<1>4. SupportedExact
    BY AnswerIsExact
<1>5. ~answer.error
    BY <1>2, <1>3, <1>4 DEF SupportedExact
<1>6. PICK i \in DOMAIN asked.folders : asked.folders[i] = p
    BY DEF ToSet
<1> QED BY <1>2, <1>3, <1>4, <1>5, <1>6 DEF SupportedExact

LEMMA VersionsStart == VersionsInit => VersionsInv
<1>1. Folders \subseteq Seq(Version \union {NotAVersion}) /\ Production \subseteq Version /\ Counts \subseteq Nat
    BY FoldersAssumption
<1> HIDE DEF NotAVersion, Version
<1> QED BY <1>1 DEF VersionsInit, VersionsInv

LEMMA VersionsStep == VersionsInv /\ [run]_svars => VersionsInv'
<1> SUFFICES ASSUME VersionsInv, [run]_svars PROVE VersionsInv'
    OBVIOUS
<1>1. asked' = asked /\ (answer' = answer \/ answer' = Supported(asked))
    BY DEF run, svars
<1> QED BY <1>1 DEF VersionsInv

(* The versions answered, for any folders in any order, any production and   *)
(* any counts: cutting the list of streams at every turn of the loop is      *)
(* cutting it at the end, and no stage drops or adds anything else.          *)
THEOREM SupportedCorrect == VersionsSpec => [](SupportedExact /\ ProductionSupported)
<1> QED BY VersionsStart, VersionsStep, AnswerIsExact, ProductionIsNewest, PTL DEF VersionsSpec

----------------------------------------------------------------------------
(* Every part behaves as it does alone: a step of another leaves it alone.   *)
LEMMA NoStages == stages = <<>> /\ suite = <<>> => ReportInit
<1> DEFINE Stage == [status: Statuses, matches: BOOLEAN]
<1>1. <<>> \in [1..0 -> Stage] /\ 0 \in 0..MaxStages
    BY StagesAssumption
<1> HIDE DEF Stage
<1>2. <<>> \in UNION {[1..n -> Stage] : n \in 0..MaxStages}
    BY <1>1
<1> QED BY <1>2 DEF ReportInit, Stage

LEMMA PartsBehave ==
    ToolsSpec => /\ Spec /\ BlockerSpec /\ PolarionSpec
                 /\ ManifestSpec /\ ImagesSpec /\ FilesSpec /\ ReportSpec
<1>1. ToolsInit => /\ Init /\ BlockerInit /\ PolarionInit
                   /\ ManifestInit /\ ImagesInit /\ FilesInit /\ ReportInit
    BY NoStages DEF ToolsInit, CatalogInit
<1>2. ASSUME [ToolsNext]_<<part, flow, bvars, pvars, catalog>>
      PROVE  /\ [Next]_flow /\ [BlockerNext]_bvars /\ [PolarionNext]_pvars
             /\ [ManifestNext]_mvars /\ [ImagesNext]_ivars /\ [FilesNext]_fvars /\ [report]_jvars
    BY <1>2 DEF ToolsNext, CatalogNext, catalog, FilesNext
<1> QED BY <1>1, <1>2, PTL
        DEF ToolsSpec, Spec, BlockerSpec, PolarionSpec, ManifestSpec, ImagesSpec, FilesSpec, ReportSpec

(* Where nothing is asked of supported-versions its answer is none, and true.*)
LEMMA ToolsAnswer == ToolsSpec => []VersionsInv
<1>1. ToolsInit => VersionsInv
    <2> SUFFICES ASSUME ToolsInit PROVE VersionsInv
        OBVIOUS
    <2>1. CASE VersionsInit
        BY <2>1, VersionsStart
    <2>2. CASE asked = [folders |-> <<>>, production |-> <<1, 2, 0>>, majors |-> 0, minors |-> 0]
               /\ answer = <<>>
        <3>1. <<1, 2, 0>> \in Version /\ <<>> \in Seq(Version \union {NotAVersion})
            BY DEF Version
        <3> HIDE DEF Version, NotAVersion
        <3> QED BY <2>2, <3>1 DEF VersionsInv
    <2> QED BY <2>1, <2>2 DEF ToolsInit, CatalogInit
<1>2. ASSUME [ToolsNext]_<<part, flow, bvars, pvars, catalog>> PROVE [run]_svars
    BY <1>2 DEF ToolsNext, CatalogNext, catalog
<1> QED BY <1>1, <1>2, VersionsStep, PTL DEF ToolsSpec

(* The answers about versions and the failures counted are those of the      *)
(* definitions without stages or loops, for any folders and any pipeline.    *)
THEOREM AnswersRightCorrect == ToolsSpec => []AnswersRight
<1>1. SupportedExact /\ ProductionSupported /\ FailuresCounted => AnswersRight
    BY DEF AnswersRight
<1> QED BY <1>1, ToolsAnswer, AnswerIsExact, ProductionIsNewest, PartsBehave,
        FailuresCountedCorrect, PTL

(* The types of the three tools that share a host or a tracker.              *)
THEOREM ToolsTypeCorrect == ToolsSpec => []ToolsTypeOK
<1>1. BlockerInv => BlockerTypeOK
    BY DEF BlockerInv
<1>2. PolarionInv => PolarionTypeOK
    BY DEF PolarionInv
<1>3. FlowTypeOK /\ BlockerTypeOK /\ PolarionTypeOK => ToolsTypeOK
    BY DEF ToolsTypeOK
<1> QED BY <1>1, <1>2, <1>3, PartsBehave, FlowTypeCorrect, BlockerInvariant, PolarionInvariant, PTL

(* Put together, the tools keep every promise that each of them makes alone. *)
THEOREM ToolsRight ==
    ToolsSpec =>
        /\ []DoneHasPull /\ []OneRunPerBranch /\ []MergedIsReleased /\ []ManifestKept
        /\ []DuplicatesNeedRace /\ []CloseTakesNewest /\ []MilestoneHasRelease /\ []TemplateMarked
        /\ []ManifestRight /\ []ImagesRight /\ []FilesAsWanted /\ []AnswersRight
        /\ TypesGrow
<1> QED BY PartsBehave, DoneHasPullCorrect, OneRunPerBranchCorrect, MergedIsReleasedCorrect,
        ManifestKeptCorrect, DuplicatesOnlyFromRaces, CloseIsOfTheNewest,
        ReleaseIsWhole, PlainIsExplained, ManifestRightCorrect, ImagesRightCorrect,
        FilesAsWantedCorrect, AnswersRightCorrect, TypesGrowCorrect
=============================================================================
