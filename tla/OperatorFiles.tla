---------------------------- MODULE OperatorFiles ---------------------------
(* The ews commands that edit one file of the operator's repository each:    *)
(* set-product-operator-version (the constants of rhmi_types.go),            *)
(* process-bundle (installation-cpaas.yaml) and update-3scale-bundle         *)
(* (bundles.yaml).  A command reads its file, edits it in memory and writes  *)
(* it as a whole at the end, so it is one step.  Versions, images and the    *)
(* names of bundles are numbers, 0 is a text that is none.                   *)
EXTENDS Naturals, Sequences

CONSTANTS
    Lines,        \* the constants of rhmi_types.go in their order
    NameBegins,   \* the products whose names begin with a product's name
    Products,     \* in installation-cpaas.yaml
    Requests,     \* what process-bundle may be called with
    Top,          \* the highest number of a version
    MaxEdits

ASSUME LinesAssumption ==
    /\ Lines \in Seq([type: {"Version", "OperatorVersion"}, product: STRING])
    /\ \A k \in DOMAIN Lines : Lines[k].product \in NameBegins[Lines[k].product]
ASSUME RequestsAssumption ==
    Requests \subseteq [bundle: Nat, index: Nat, package: Nat, channel: Nat, dir: Nat, readable: BOOLEAN]
ASSUME TopAssumption == Top \in Nat \ {0} /\ MaxEdits \in Nat

VARIABLES
    types,    \* the version in each line
    install,  \* product -> how it is installed
    bundled,  \* the bundles of 3scale: name, image
    last,     \* the last command and whether it succeeded
    edits,
    wanted    \* what was last asked for, per product and bundle name

fvars == <<types, install, bundled, last, edits, wanted>>

None == 0

----------------------------------------------------------------------------
(* The first line whose text contains the type and the product's name.       *)
Matches(product, type) ==
    {k \in DOMAIN Lines :
        /\ type = "Version" \/ Lines[k].type = type
        /\ Lines[k].product \in NameBegins[product]}

\* Mutant of FindString: the last line that matches.
LastString(product, type) == CHOOSE k \in Matches(product, type) :
                                 \A j \in Matches(product, type) : j <= k

FindString(product, type) == CHOOSE k \in Matches(product, type) :
                                 \A j \in Matches(product, type) : k <= j

(* Only a higher version is set; for an equal one the result is empty.       *)
ParseVersion(now, product, version, type) ==
    LET k == FindString(product, type)
    IN  [error |-> version = None \/ now[k] > version,
         out |-> IF now[k] < version THEN [now EXCEPT ![k] = version] ELSE <<>>]

(* An error is printed and swallowed.  The product's version is set in the   *)
(* result for the operator's, and what that returns is written.              *)
Out(product, operator, version) ==
    LET o == ParseVersion(types, product, operator, "OperatorVersion")
        v == ParseVersion(IF o.out # <<>> THEN o.out ELSE types, product, version, "Version")
    IN  IF o.error THEN <<>>
        ELSE IF version = None THEN o.out
        ELSE IF v.error THEN <<>> ELSE v.out

(* Without a constant for the operator's version the command panics.         *)
SetVersion(product, operator, version) ==
    /\ Matches(product, "OperatorVersion") # {}
    /\ types' = LET out == Out(product, operator, version) IN IF out # <<>> THEN out ELSE types
    /\ last' = [cmd |-> "types", product |-> product, operator |-> operator, version |-> version]
    /\ UNCHANGED <<install, bundled, wanted>>

----------------------------------------------------------------------------
\* Mutant of FromValues: where to install from stays as it was.
SameSource(p, r) ==
    [channel |-> IF r.channel # None /\ r.index # None THEN r.channel ELSE p.channel,
     bundle |-> IF r.bundle # None THEN r.bundle ELSE p.bundle,
     index |-> IF r.index # None THEN r.index ELSE p.index,
     package |-> IF r.index # None THEN r.package ELSE p.package,
     installFrom |-> p.installFrom]

(* Channel and package count for an index only, and an absent package is     *)
(* written too.  The other kind of image stays in the entry.                 *)
FromValues(p, r) ==
    [channel |-> IF r.channel # None /\ r.index # None THEN r.channel ELSE p.channel,
     bundle |-> IF r.bundle # None THEN r.bundle ELSE p.bundle,
     index |-> IF r.index # None THEN r.index ELSE p.index,
     package |-> IF r.index # None THEN r.package ELSE p.package,
     installFrom |-> IF r.bundle # None THEN "implicit" ELSE "index"]

(* The annotations of an extracted bundle override channel and package.      *)
FromBundle(p, r) ==
    [channel |-> IF r.dir # None THEN r.dir ELSE p.channel,
     package |-> IF r.dir # None THEN r.dir ELSE p.package,
     bundle |-> p.bundle, index |-> p.index, installFrom |-> p.installFrom]

(* One image, of one kind, and a product that is there, or nothing changes.  *)
ProcessBundle(product, r) ==
    LET ok == ((r.bundle = None) # (r.index = None)) /\ product \in Products /\ r.readable
    IN  /\ install' = IF ok THEN [install EXCEPT ![product] = FromBundle(FromValues(@, r), r)]
                      ELSE install
        /\ wanted' = IF ok THEN [install |-> [wanted.install EXCEPT ![product] = r],
                                 bundle |-> wanted.bundle] ELSE wanted
        /\ last' = [cmd |-> "install", ok |-> ok]
        /\ UNCHANGED <<types, bundled>>

----------------------------------------------------------------------------
(* The image of a known bundle is replaced, a new bundle appended.  The sort *)
(* that follows compares names that are not versions and moves nothing.      *)
modifyBundles(list, name, image) ==
    IF \E k \in DOMAIN list : list[k].name = name
    THEN [k \in DOMAIN list |->
             IF list[k].name = name THEN [name |-> name, image |-> image] ELSE list[k]]
    ELSE Append(list, [name |-> name, image |-> image])

Update3scaleBundle(name, image) ==
    LET ok == name # None /\ image # None
    IN  /\ bundled' = IF ok THEN modifyBundles(bundled, name, image) ELSE bundled
        /\ wanted' = IF ok THEN [install |-> wanted.install,
                                 bundle |-> [wanted.bundle EXCEPT ![name] = image]] ELSE wanted
        /\ last' = [cmd |-> "bundle", ok |-> ok]
        /\ UNCHANGED <<types, install>>

----------------------------------------------------------------------------
FilesInit ==
    /\ types = [k \in DOMAIN Lines |-> 1]
    /\ install = [p \in Products |->
          [channel |-> 1, bundle |-> None, index |-> 1, package |-> 1, installFrom |-> "index"]]
    /\ bundled = <<[name |-> 1, image |-> 1]>>
    /\ edits = 0
    /\ last = [cmd |-> "none"]
    /\ wanted = [install |-> [p \in Products |-> [bundle |-> None, index |-> 1]],
                 bundle |-> [n \in 1..Top |-> IF n = 1 THEN 1 ELSE None]]

Edit == edits < MaxEdits /\ edits' = edits + 1
EditTypes == Edit /\ \E k \in DOMAIN Lines, o, v \in 0..Top : SetVersion(Lines[k].product, o, v)
EditInstall == Edit /\ \E p \in Products \union {"absent"}, r \in Requests : ProcessBundle(p, r)
EditBundles == Edit /\ \E n, i \in 0..Top : Update3scaleBundle(n, i)

FilesNext == EditTypes \/ EditInstall \/ EditBundles

FilesSpec == FilesInit /\ [][FilesNext]_fvars

----------------------------------------------------------------------------
(* Line k is the product's own, or none of its own of this type is before it.*)
OwnOrNone(k, product) ==
    \/ Lines[k].product = product
    \/ \A i \in 1..(k - 1) : Lines[i] # [type |-> Lines[k].type, product |-> product]

(* No sequence of set-product-operator-version lowers a version.  It touches *)
(* a line of another product, whose name begins with the one it is given,    *)
(* only where no line of the product's own has the type and is before that   *)
(* one; so the constants of Fuse on OpenShift change for Fuse, which has no  *)
(* version of its own, and those of the user's RHSSO never do for RHSSO.     *)
TypesGrow ==
    [][\A k \in DOMAIN Lines :
          types'[k] # types[k] => types'[k] > types[k] /\ OwnOrNone(k, last'.product)]_fvars

(* A product is installed from the image that was last accepted for it,      *)
(* whatever older images of the other kind its entry still has.              *)
InstalledAsWanted ==
    \A p \in Products :
        LET w == wanted.install[p]
        IN  IF install[p].installFrom = "implicit" THEN install[p].bundle = w.bundle
            ELSE install[p].index = w.index

(* Every bundle is listed once, with the image that was last given for it.   *)
BundlesAsWanted ==
    /\ \A j, k \in DOMAIN bundled : bundled[j].name = bundled[k].name => j = k
    /\ \A n \in DOMAIN wanted.bundle :
           wanted.bundle[n] # None =>
               \E k \in DOMAIN bundled : bundled[k] = [name |-> n, image |-> wanted.bundle[n]]

(* What the help says of set-product-operator-version: it sets the           *)
(* operator's version, and the product's one if that is given.  When neither *)
(* is an error, the operator's version is not below the one it was to set.   *)
VersionIsSet ==
    last.cmd = "types" /\ last.operator # None
    /\ last.version >= types[FindString(last.product, "Version")] =>
        types[FindString(last.product, "OperatorVersion")] >= last.operator

(* The files hold what was last asked for, after any sequence of commands.   *)
FilesAsWanted == InstalledAsWanted /\ BundlesAsWanted

----------------------------------------------------------------------------
(* The inductive invariant: the types and the properties above.              *)
Entry == [channel: Nat, bundle: Nat, index: Nat, package: Nat, installFrom: {"implicit", "index"}]

FilesInv ==
    /\ types \in [DOMAIN Lines -> Nat]
    /\ install \in [Products -> Entry] /\ bundled \in Seq([name: Nat, image: Nat])
    /\ wanted = [install |-> wanted.install, bundle |-> wanted.bundle]
    /\ wanted.install = [p \in Products |-> wanted.install[p]]
    /\ wanted.bundle \in [1..Top -> Nat]
    /\ FilesAsWanted
=============================================================================
