----------------------------- MODULE MCCatalog ------------------------------
(* The commands on files and listings, on small instances: each is a part of *)
(* its own that shares nothing with the others.                              *)
EXTENDS ManifestPackage, CSVImages, OperatorFiles, SupportedVersions, PipelineReport

VARIABLE part

V(n, v, r) == [name |-> n, version |-> v, replaces |-> r]
MCSources == {V(2, 2, 1), V(3, 3, 2), V(4, 4, 3), V(5, 3, 2)}
MCFileOf == [s \in MCSources |-> IF s.name \in {3, 4} THEN 0 ELSE s.name]
MCRank == <<2, 3, 4, 1>>
MCExempt == {4}
MCPackage0 == [bundles |-> (1 :> (1 :> V(1, 1, 0))),
               package |-> [current |-> <<0, 1>>, default |-> 2]]

I(r, i) == [registry |-> r, id |-> i]
C(i, e) == [image |-> i, env |-> e]
MCCSVs == {[containers |-> <<C(I("stage", "op"), "A" :> I("prod", "a") @@ "B" :> I("stage", "b"))>>,
            related |-> <<I("stage", "b"), I("other", "c")>>, annotation |-> I("stage", "op")],
           [containers |-> <<C(I("prod", "op"), "A" :> I("delorean", "a")),
                             C(I("stage", "side"), "A" :> I("other", "c"))>>,
            related |-> <<>>, annotation |-> I("prod", "shown")]}
MCExtras == {<<>>, "A" :> I("prod", "b") @@ "X" :> I("delorean", "c"), "X" :> I("prod", "a2")}
MCSourceOf == [i \in {"op", "a", "a2", "b", "c", "side", "shown"} |-> IF i = "a2" THEN "a" ELSE i]

L(t, p) == [type |-> t, product |-> p]
MCLines == <<L("Version", "FuseOnOpenshift"), L("Version", "RHSSO"), L("Version", "RHSSOUser"),
             L("OperatorVersion", "RHSSO"), L("OperatorVersion", "RHSSOUser"),
             L("OperatorVersion", "Fuse"), L("OperatorVersion", "UPS")>>
MCNameBegins == [p \in {"FuseOnOpenshift", "RHSSOUser", "UPS"} |-> {p}]
             @@ "RHSSO" :> {"RHSSO", "RHSSOUser"} @@ "Fuse" :> {"Fuse", "FuseOnOpenshift"}
R(b, i, pk, ch, d, ok) ==
    [bundle |-> b, index |-> i, package |-> pk, channel |-> ch, dir |-> d, readable |-> ok]
MCRequests == {R(2, 0, 0, 0, 3, TRUE), R(3, 0, 0, 2, 0, TRUE), R(0, 2, 2, 2, 0, TRUE),
               R(0, 3, 0, 0, 3, TRUE), R(2, 2, 0, 0, 0, TRUE), R(2, 0, 0, 0, 3, FALSE)}
MCFolders == {<<>>, <<<<1, 1, 0>>, NotAVersion>>}
    \union {f \in UNION {[1..n -> {<<1, 1, 0>>, <<1, 10, 0>>, <<1, 2, 0>>, <<1, 2, 1>>, <<2, 0, 0>>, <<2, 1, 0>>}]
                            : n \in 1..3} : \A i, j \in DOMAIN f : f[i] = f[j] => i = j}
MCProduction == {<<1, 2, 0>>, <<1, 10, 0>>, <<2, 0, 0>>}

CatalogParts == {"manifests", "images", "types", "install", "bundles",
                 "versions", "stages"}

CatalogInit ==
    /\ ManifestInit /\ FilesInit
    /\ ImagesInit /\ (part = "images" \/ csv = CHOOSE c \in MCCSVs : TRUE)
    /\ IF part = "versions" THEN VersionsInit
       ELSE /\ asked = [folders |-> <<>>, production |-> <<1, 2, 0>>, majors |-> 0, minors |-> 0]
            /\ answer = <<>>
    /\ IF part = "stages" THEN ReportInit ELSE stages = <<>> /\ suite = <<>>

CatalogNext ==
    /\ UNCHANGED part
    /\ \/ part = "manifests" /\ ManifestNext /\ UNCHANGED <<ivars, fvars, svars, jvars>>
       \/ part = "images" /\ ImagesNext /\ UNCHANGED <<mvars, fvars, svars, jvars>>
       \/ part = "types" /\ EditTypes /\ UNCHANGED <<mvars, ivars, svars, jvars>>
       \/ part = "install" /\ EditInstall /\ UNCHANGED <<mvars, ivars, svars, jvars>>
       \/ part = "bundles" /\ EditBundles /\ UNCHANGED <<mvars, ivars, svars, jvars>>
       \/ part = "versions" /\ run /\ UNCHANGED <<mvars, ivars, fvars, jvars>>
       \/ part = "stages" /\ report /\ UNCHANGED <<mvars, ivars, fvars, svars>>

catalog == <<mvars, ivars, fvars, svars, jvars>>
CatalogSpec == part \in CatalogParts /\ CatalogInit /\ [][CatalogNext]_<<part, catalog>>

(* The versions that get-supported-versions answers and the failures that    *)
(* junit-report counts are those of the definitions without stages or loops. *)
AnswersRight == SupportedExact /\ ProductionSupported /\ FailuresCounted
=============================================================================
