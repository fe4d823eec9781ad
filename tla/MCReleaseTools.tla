--------------------------- MODULE MCReleaseTools ---------------------------
(* The tools of a release on small instances: the git flow, the merge        *)
(* blocker, the Polarion release and the commands of MCCatalog.  They share  *)
(* nothing, so a behaviour is one of a single tool, the others at rest.      *)
EXTENDS ReleaseFlow, MergeBlocker, PolarionRelease, MCCatalog

CONSTANTS c1, c2, m1, p1, p2, p3, p4, i1, i2, i3, a1, a2, a3,
          b1, b2, b3, b4, r1, r2, r3, none, d1, d2, e1

Rhoam == [base |-> <<1, 2, 0>>, build |-> "", olm |-> "rhoam"]
Multi == [Rhoam EXCEPT !.olm = "multitenant"]
Patch == [Rhoam EXCEPT !.base = <<1, 2, 1>>]
Early == [Rhoam EXCEPT !.build = "rc1"]

Prodsec(v, t, m) == [cmd |-> "prodsec", version |-> v, type |-> t, manifest |-> m]
Addon(v, c, pre) == [cmd |-> "addon", version |-> v, channel |-> c, allowPreRelease |-> pre]

MCJobOf == [j \in Jobs |->
    CASE j \in {c1, c2} -> [cmd |-> "create", version |-> Rhoam]
      [] j = m1 -> [cmd |-> "merge", version |-> Rhoam]
      [] j = p1 -> Prodsec(Rhoam, "production", <<"x1", "x2">>)
      [] j = p2 -> Prodsec(Multi, "production", <<"y1">>)
      [] j = p3 -> Prodsec(Rhoam, "master", <<"z1", "z2", "z3">>)
      [] j = p4 -> Prodsec(Rhoam, "compare", <<>>)
      [] j = i1 -> [cmd |-> "ci", version |-> Rhoam]
      [] j = i2 -> [cmd |-> "ci", version |-> Multi]
      [] j = i3 -> [cmd |-> "ci", version |-> Patch]
      [] j = a1 -> Addon(Rhoam, "stage", FALSE)
      [] j = a2 -> Addon(Rhoam, "stage", TRUE)
      [] j = a3 -> Addon(Early, "stable", FALSE)]

MCTeams == {{}, {c1, m1}, {c1, c2}, {p3, c1}, {i1, p1, p2}, {i1, i2}, {i3}, {p4},
            {a1, a2}, {a3}}
MCMaxTries == [j \in Jobs |-> IF j \in {c1, m1, i2, a1} THEN 2 ELSE 1]

MCAsked == b1 :> [cmd |-> "create", branch |-> "release-v1.1"]
        @@ b2 :> [cmd |-> "create", branch |-> "release-v1.10"]
        @@ b3 :> [cmd |-> "create", branch |-> "release-v2.0"]
        @@ b4 :> [cmd |-> "close", branch |-> "release-v1.1"]
MCBranches == {"release-v1.1", "release-v1.10", "release-v2.0"}
MCBegins == {<<b, b>> : b \in MCBranches} \union {<<"release-v1.1", "release-v1.10">>}

MCOldManifest == <<"o1", "o2">>

MCBlockerTries == b1 :> 2 @@ b2 :> 1 @@ b3 :> 1 @@ b4 :> 2

MCBuildOf == r1 :> d1 @@ r2 :> d1 @@ r3 :> d2
MCReleaseOf == d1 :> e1 @@ d2 :> e1

ToolsInit ==
    /\ part \in {"flow", "blocker", "polarion"} \union CatalogParts
    /\ Init /\ BlockerInit /\ PolarionInit /\ CatalogInit
    /\ part = "flow" <=> team # {}

ToolsNext ==
    \/ part = "flow" /\ Next /\ UNCHANGED <<part, bvars, pvars, catalog>>
    \/ part = "blocker" /\ BlockerNext /\ UNCHANGED <<part, flow, pvars, catalog>>
    \/ part = "polarion" /\ PolarionNext /\ UNCHANGED <<part, flow, bvars, catalog>>
    \/ CatalogNext /\ UNCHANGED <<flow, bvars, pvars>>

ToolsSpec == ToolsInit /\ [][ToolsNext]_<<part, flow, bvars, pvars, catalog>>

(* The types of the tools' state, with the widths and links the code relies  *)
(* on: main branches exist, a run at rest holds no clone, an issue about to  *)
(* be closed is there.                                                       *)
ToolsTypeOK == FlowTypeOK /\ BlockerTypeOK /\ PolarionTypeOK
=============================================================================
