------------------------------ MODULE Versions ------------------------------
(* pkg/utils/rhmi_version.go: what a version string is taken for and the     *)
(* names that are built from it.  A name is the tuple of what it is built    *)
(* from: two names are the same string exactly when the tuples are equal.    *)
EXTENDS Naturals, Sequences

OlmTypes == {"rhmi", "rhoam", "multitenant"}

(* A version string: the dotted part in front of the first dash and the      *)
(* pieces behind the dashes.  The empty string has the one part "".          *)
NewVersion(text, olm) ==
    IF \/ olm \notin OlmTypes
       \/ text.base = <<"">> /\ text.builds = <<>>
       \/ Len(text.builds) > 1
       \/ text.builds = <<"">>
    THEN "error"
    ELSE IF Len(text.base) < 3 THEN "panic"
    ELSE [base |-> text.base, olm |-> olm,
          build |-> IF text.builds = <<>> THEN "" ELSE text.builds[1]]

IsPreRelease(v) == v.build # ""
IsPatchRelease(v) == v.base[3] # 0

(* The multitenant RHOAM has the names of RHOAM but for one.                 *)
NameByOlmType(v) == IF v.olm = "rhmi" THEN "rhmi" ELSE "rhoam"
MajorMinor(v) == <<v.base[1], v.base[2]>>
MajorMinorPatch(v) == <<v.base[1], v.base[2], v.base[3]>>

ReleaseBranchName(v) == <<"release", NameByOlmType(v), MajorMinor(v)>>
TagName(v) == <<"tag", NameByOlmType(v), v.base, v.build>>
RCTagRef(v) == <<"rc", NameByOlmType(v), MajorMinorPatch(v)>>
InitialPointReleaseTag(v) == <<"initial", MajorMinor(v)>>
ReleaseBranchImageTag(v) == IF IsPatchRelease(v) THEN MajorMinor(v) ELSE <<"master">>
PolarionReleaseId(v) == <<"polarion", MajorMinorPatch(v)>>
PolarionMilestoneId(v) == <<"milestone", MajorMinorPatch(v), v.build>>
PrepareReleaseBranchName(v) == <<"prepare", TagName(v), v.olm = "multitenant">>
PrepareProdsecManifestBranchName(v) == <<"manifest", NameByOlmType(v), TagName(v)>>
=============================================================================
