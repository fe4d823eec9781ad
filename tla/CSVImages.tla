----------------------------- MODULE CSVImages ------------------------------
(* ews process-csv-images: the references to images of the current CSV are   *)
(* rewritten, before a release to the registry Delorean mirrors to, for the  *)
(* release from the stage registry to the production one; the first writes   *)
(* the file that tells the mirroring what to copy, the second removes it.    *)
(* The CSV is written twice and the mapping file after that, and a run can   *)
(* stop between them.  An image is its registry and what it is otherwise.    *)
EXTENDS Naturals, Sequences, TLC

CONSTANTS
    CSVs,     \* the current CSVs that extract-manifests may bring
    Extras,   \* environment variables a run may be asked to add
    SourceOf, \* where the mirroring finds an image: two builds can have one source
    MaxSteps  \* runs and fresh CSVs altogether

Values(f) == {f[x] : x \in DOMAIN f}
Image == [registry: {"stage", "prod", "delorean", "other"}, id: STRING]

(* A CSV has at least one container.                                         *)
IsCSV(c) ==
    /\ c = [containers |-> c.containers, related |-> c.related, annotation |-> c.annotation]
    /\ c.containers \in Seq(Values(c.containers)) /\ c.containers # <<>>
    /\ \A n \in DOMAIN c.containers :
           /\ c.containers[n] = [image |-> c.containers[n].image, env |-> c.containers[n].env]
           /\ c.containers[n].image \in Image
           /\ c.containers[n].env \in [DOMAIN c.containers[n].env -> Image]
    /\ c.related \in Seq(Image) /\ c.annotation \in Image

ASSUME CSVsAssumption ==
    /\ \A c \in CSVs : IsCSV(c)
    /\ \A e \in Extras : e \in [DOMAIN e -> Image]
ASSUME MaxStepsAssumption == MaxSteps \in Nat

VARIABLES
    csv,       \* containers (image, env), relatedImages, containerImage
    mapping,   \* image_mirror_mapping, from sources to images; <<>>: no such file
    images,    \* what the run has to list, the same way
    istep, isGa, extra,
    steps,
    rewritten, \* history: the mirrored names that runs brought into a deployment
    mirrored,  \* history: every image a completed run listed
    forgotten  \* history: images of runs that stopped before they wrote the list

ivars == <<csv, mapping, images, istep, isGa, extra, steps, rewritten, mirrored, forgotten>>

Internal == {"stage", "prod"}

processStageToProdImage(i) == IF i.registry = "stage" THEN [registry |-> "prod", id |-> i.id] ELSE i
processToDeloreanImage(i) == IF i.registry \in Internal THEN [registry |-> "delorean", id |-> i.id] ELSE i

(* What a run makes of an image it comes upon.                               *)
Rewrite(i) == IF isGa THEN processStageToProdImage(i) ELSE processToDeloreanImage(i)

BuildOSBSImage(id) == SourceOf[id]

(* The map has one image for a source, the last that was rewritten; which of *)
(* several that is follows from the order of the variables.                  *)
addImageMapping(map, refs) ==
    LET ids == {i.id : i \in {r \in refs : r.registry \in Internal}}
        sources == {BuildOSBSImage(id) : id \in ids}
    IN  {m \in [DOMAIN map \union sources -> Values(map) \union ids] :
             \A s \in DOMAIN m :
                 IF s \in sources THEN m[s] \in ids /\ BuildOSBSImage(m[s]) = s
                 ELSE m[s] = map[s]}

Variables(c) == UNION {Values(c.containers[n].env) : n \in DOMAIN c.containers}
OperatorImages(c) == {c.containers[n].image : n \in DOMAIN c.containers}

\* The images that the operator's deployment names by their mirrored names.
Deployed(c) == {i.id : i \in {r \in Variables(c) \union OperatorImages(c) : r.registry = "delorean"}}

(* A variable of the same name is overwritten, any other is appended.        *)
AddOrUpdateEnvVar(env, added) ==
    [x \in DOMAIN env \union DOMAIN added |-> IF x \in DOMAIN added THEN added[x] ELSE env[x]]

includeImages(c, added) ==
    [containers |-> [n \in DOMAIN c.containers |->
         [image |-> c.containers[n].image, env |-> AddOrUpdateEnvVar(c.containers[n].env, added)]],
     related |-> c.related, annotation |-> c.annotation]

ImagesInit ==
    /\ csv \in CSVs
    /\ mapping = <<>> /\ images = <<>> /\ istep = "idle" /\ isGa = FALSE /\ extra = <<>>
    /\ steps = 0 /\ rewritten = {} /\ mirrored = {} /\ forgotten = {}

DoProcessCSV ==
    /\ istep \in {"idle", "done", "failed"} /\ steps < MaxSteps
    /\ istep' = "operands" /\ isGa' \in BOOLEAN /\ extra' \in Extras
    /\ images' = <<>> /\ steps' = steps + 1
    /\ UNCHANGED <<csv, mapping, rewritten, mirrored, forgotten>>

(* A new version of the product replaces the CSV between two runs.           *)
FreshCSV ==
    /\ istep \in {"done", "failed"} /\ steps < MaxSteps
    /\ csv' \in CSVs /\ istep' = "idle" /\ steps' = steps + 1
    /\ UNCHANGED <<mapping, images, isGa, extra, rewritten, mirrored, forgotten>>

(* The variables of every container; only a release changes relatedImages.   *)
OperandsUpdated(c) ==
    LET Env(n) == [x \in DOMAIN c.containers[n].env |-> Rewrite(c.containers[n].env[x])]
    IN  [containers |-> [n \in DOMAIN c.containers |->
             [image |-> c.containers[n].image, env |-> Env(n)]],
         related |-> IF isGa THEN [k \in DOMAIN c.related |-> Rewrite(c.related[k])] ELSE c.related,
         annotation |-> c.annotation]

GetAndUpdateOperandImages ==
    /\ istep = "operands" /\ istep' = "operator"
    /\ LET c == includeImages(csv, extra)
       IN  /\ csv' = OperandsUpdated(c)
           /\ images' \in IF isGa THEN {<<>>} ELSE addImageMapping(<<>>, Variables(c))
           /\ rewritten' = rewritten \union (Deployed(csv') \ Deployed(c))
    /\ UNCHANGED <<mapping, isGa, extra, steps, mirrored, forgotten>>

(* A release changes the first container, the mirror all of them; the        *)
(* annotation is rewritten too, but never put on the list.                   *)
OperatorUpdated ==
    LET Updated(n) == [image |-> Rewrite(csv.containers[n].image), env |-> csv.containers[n].env]
    IN  [containers |-> [n \in DOMAIN csv.containers |->
             IF isGa /\ n > 1 THEN csv.containers[n] ELSE Updated(n)],
         related |-> csv.related, annotation |-> Rewrite(csv.annotation)]

\* Mutant of GetAndUpdateOperatorImage: the map of images is made anew.
NewMap ==
    /\ istep = "operator" /\ istep' = "mapping"
    /\ csv' = OperatorUpdated
    /\ images' \in IF isGa THEN {images} ELSE addImageMapping(<<>>, OperatorImages(csv))
    /\ rewritten' = rewritten \union (Deployed(csv') \ Deployed(csv))
    /\ UNCHANGED <<mapping, isGa, extra, steps, mirrored, forgotten>>

GetAndUpdateOperatorImage ==
    /\ istep = "operator" /\ istep' = "mapping"
    /\ csv' = OperatorUpdated
    /\ images' \in IF isGa THEN {images} ELSE addImageMapping(images, OperatorImages(csv))
    /\ rewritten' = rewritten \union (Deployed(csv') \ Deployed(csv))
    /\ UNCHANGED <<mapping, isGa, extra, steps, mirrored, forgotten>>

(* The list is replaced, and left alone when the run rewrote nothing.        *)
WriteMapping ==
    /\ istep = "mapping" /\ istep' = "done"
    /\ mapping' = IF isGa THEN <<>> ELSE IF DOMAIN images # {} THEN images ELSE mapping
    /\ mirrored' = mirrored \union Values(mapping')
    /\ UNCHANGED <<csv, images, isGa, extra, steps, rewritten, forgotten>>

ImagesStop ==
    /\ istep \in {"operands", "operator", "mapping"} /\ istep' = "failed"
    /\ forgotten' = forgotten \union Values(images)
    /\ UNCHANGED <<csv, mapping, images, isGa, extra, steps, rewritten, mirrored>>

ImagesNext ==
    \/ DoProcessCSV \/ FreshCSV \/ GetAndUpdateOperandImages
    \/ GetAndUpdateOperatorImage \/ WriteMapping \/ ImagesStop

ImagesSpec == ImagesInit /\ [][ImagesNext]_ivars

----------------------------------------------------------------------------
(* The source of every image that a run gave its mirrored name in a          *)
(* deployment was listed for the mirroring, under that name or under the one *)
(* of another image with the same source; but for runs that stopped before   *)
(* they wrote the list: no later run lists their images, it sees nothing     *)
(* left to rewrite.                                                          *)
Covers(ids, id) == \E j \in ids : BuildOSBSImage(j) = BuildOSBSImage(id)

ListedUnlessStopped ==
    istep \in {"idle", "done", "failed"} =>
        \A id \in rewritten : Covers(mirrored \union forgotten, id)

(* A completed run leaves no reference it is there to replace, whatever the  *)
(* earlier runs left: for a release nothing of the stage registry, except in *)
(* the containers after the first, and before a release no internal registry *)
(* except in relatedImages.                                                  *)
RegistriesRight ==
    istep = "done" =>
        IF isGa
        THEN \A i \in Variables(csv) \union Values(csv.related)
                      \union {csv.containers[1].image, csv.annotation} : i.registry # "stage"
        ELSE \A i \in Variables(csv) \union OperatorImages(csv) \union {csv.annotation} :
                 i.registry \notin Internal

(* What the runs leave in the CSV and in the list for the mirroring fits     *)
(* together, whatever sequence of runs of both kinds has worked on them.     *)
ImagesRight == ListedUnlessStopped /\ RegistriesRight

----------------------------------------------------------------------------
(* The inductive invariant: what a run has rewritten so far it still has to  *)
(* list, and each part of the CSV is right once the run is past it.          *)
Pending == IF istep \in {"operator", "mapping"} THEN Values(images) ELSE {}

Right(i) == IF isGa THEN i.registry # "stage" ELSE i.registry \notin Internal

ImagesInv ==
    /\ IsCSV(csv) /\ extra \in [DOMAIN extra -> Image] /\ isGa \in BOOLEAN
    /\ \A id \in rewritten : Covers(mirrored \union forgotten \union Pending, id)
    /\ \A s \in DOMAIN images : BuildOSBSImage(images[s]) = s
    /\ isGa /\ istep \in {"operator", "mapping"} => DOMAIN images = {}
    /\ istep \in {"operator", "mapping", "done"} =>
           /\ \A i \in Variables(csv) : Right(i)
           /\ isGa => \A i \in Values(csv.related) : Right(i)
    /\ istep \in {"mapping", "done"} =>
           /\ Right(csv.annotation)
           /\ \A n \in DOMAIN csv.containers : n = 1 \/ ~isGa => Right(csv.containers[n].image)
=============================================================================
