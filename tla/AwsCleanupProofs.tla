-------------------------- MODULE AwsCleanupProofs ---------------------------
(* The safety of cleanup-aws, for any account, any tags and any number of    *)
(* runs: IndInv is inductive and implies the properties of AwsCleanup.       *)
EXTENDS AwsCleanup, TLAPS

(* What others and the run itself do to the account: nothing that has been   *)
(* there becomes unborn again, nothing that is gone comes back.              *)
AccountMoves ==
    \A r \in Resources :
        account[r] # "unborn" =>
            /\ account'[r] # "unborn"
            /\ account[r] # "live" => account'[r] # "live"

(* r may be removed: no cluster that was seen, and what the cluster service  *)
(* was to do first is done.                                                  *)
Orphan(r) ==
    OneCluster(r) => \A i \in seen : OneCluster(i) =>
        \A t \in Recognised(r), u \in Recognised(i) :
            t.cluster = u.cluster => t.cluster = NoTag
RhmiIsDone(v) ==
    v \in listed /\ (\A t \in TagsOf[v] : t.label # "rhmi") =>
        \A r \in rhmi : tag[r] = tag[v] => account[r] # "live"

----------------------------------------------------------------------------
LEMMA TagsAreRecords ==
    ASSUME NEW r \in Resources, NEW t \in Recognised(r)
    PROVE  /\ t \in [label: Labels, cluster: Tags] /\ t \in TagsOf[r]
           /\ t.label # "other" /\ t.cluster \in Tags
BY AccountAssumption DEF Recognised

(* A classification files a resource under one of its tags.                  *)
LEMMA ClassOf ==
    ASSUME NEW rs \in SUBSET Resources, NEW f \in Classified(rs), NEW r \in rs
    PROVE  /\ f[r].clusterTag \in Tags /\ f[r].hasRhmiTag \in BOOLEAN
           /\ \/ Recognised(r) = {} /\ f[r].clusterTag = NoTag /\ ~f[r].hasRhmiTag
              \/ \E t \in Recognised(r) : f[r].clusterTag = t.cluster
           /\ f[r].hasRhmiTag =>
                  [label |-> "rhmi", cluster |-> f[r].clusterTag] \in TagsOf[r]
<1>1. f[r] \in Class /\ f[r] \in extractClusterTag(r)
    BY DEF Classified
<1>2. f[r].clusterTag \in Tags /\ f[r].hasRhmiTag \in BOOLEAN
    BY <1>1 DEF Class
<1>3. CASE Recognised(r) = {}
    BY <1>1, <1>2, <1>3 DEF extractClusterTag
<1>4. CASE Recognised(r) # {}
    <2>1. PICK t \in Recognised(r) :
              f[r] = [clusterTag |-> t.cluster, hasRhmiTag |-> t.label = "rhmi"]
        BY <1>1, <1>4 DEF extractClusterTag
    <2>2. t \in [label: Labels, cluster: Tags] /\ t \in TagsOf[r]
        BY TagsAreRecords
    <2>3. f[r].clusterTag = t.cluster /\ (f[r].hasRhmiTag => t.label = "rhmi")
        <3>1. f[r].clusterTag = t.cluster
            BY <2>1
        <3>2. CASE t.label = "rhmi"
            BY <3>1, <3>2
        <3>3. CASE t.label # "rhmi"
            <4>1. (t.label = "rhmi") = FALSE
                BY <3>3
            <4>2. f[r] = [clusterTag |-> t.cluster, hasRhmiTag |-> FALSE]
                BY <2>1, <4>1, Zenon
            <4> QED BY <3>1, <4>2
        <3> QED BY <3>2, <3>3
    <2>4. ASSUME f[r].hasRhmiTag
          PROVE  [label |-> "rhmi", cluster |-> f[r].clusterTag] \in TagsOf[r]
        <3>0. t.label = "rhmi" /\ t.cluster = f[r].clusterTag
            BY <2>3, <2>4
        <3>1. t = [label |-> "rhmi", cluster |-> f[r].clusterTag]
            BY <2>2, <3>0
        <3> QED BY <2>2, <3>1
    <2> QED BY <1>2, <2>3, <2>4
<1> QED BY <1>3, <1>4

(* The resource that has the tag of a cluster in no use.                     *)
LEMMA UnusedIsOrphan ==
    ASSUME IndInv, NEW r \in listed, tag[r] # NoTag, tag[r] \notin osd
    PROVE  /\ Orphan(r) /\ ~UsedBy(r, {i \in seen : OneCluster(i)})
<1>1. r \in Resources /\ seen \in SUBSET Resources
    BY DEF IndInv, TypeOK, Resources
<1>2. PICK t \in Recognised(r) : t.cluster = tag[r]
    BY DEF IndInv, Filed
<1>3. ASSUME NEW i \in seen, OneCluster(i), NEW u \in Recognised(i)
      PROVE  u.cluster # tag[r]
    BY <1>3 DEF IndInv, KeysAreSeen
<1>4. ~UsedBy(r, {i \in seen : OneCluster(i)})
    BY <1>3 DEF UsedBy
<1>5. Orphan(r)
    BY <1>2, <1>3 DEF Orphan, OneCluster
<1> QED BY <1>4, <1>5

LEMMA UsedTag ==
    ASSUME IndInv, NEW r \in listed, tag[r] # NoTag, tag[r] \in osd
    PROVE  UsedBy(r, seen)
BY DEF IndInv, KeysAreSeen, UsedBy

----------------------------------------------------------------------------
(* Steps after the listings: what is enough for them to keep IndInv.         *)
Sweeps ==
    /\ UNCHANGED <<dryRun, tag, rhmi, seen, listed>> /\ AccountMoves
    /\ osd \subseteq osd' /\ osd' \subseteq osd \union {NoTag}
    /\ pc' \in {"ec2", "vpcs", "s3", "rhmi", "poll"} =>
           pc \in {"ec2", "vpcs", "s3", "rhmi", "poll"} /\ osd' = osd
    /\ s3Buckets' \subseteq s3Buckets /\ vpcs' \subseteq vpcs
    /\ \A r \in removed' \ removed :
           ~dryRun /\ account[r] = "live" /\ Orphan(r) /\ RhmiIsDone(r)
    /\ \A r \in deletedResources' \ deletedResources :
           ~dryRun /\ account'[r] = "gone"

LEMMA SweepStep ==
    ASSUME IndInv, Sweeps, TypeOK', Progress', RhmiHandled', DecidedSoFar'
    PROVE  IndInv'
<1> USE DEF Sweeps
<1>1. /\ TypeOK /\ KeysAreSeen /\ Filed /\ OnlyOrphans /\ RhmiFirst /\ RecordIsTrue
      /\ tag' = tag /\ rhmi' = rhmi /\ seen' = seen /\ listed' = listed /\ dryRun' = dryRun
    BY DEF IndInv
<1>2. KeysAreSeen'
    BY <1>1 DEF KeysAreSeen
<1>3. /\ rhmi \subseteq Resources /\ listed \subseteq Resources /\ removed' \subseteq Resources
      /\ deletedResources' \subseteq Resources /\ removed \subseteq Resources
      /\ deletedResources \subseteq Resources /\ seen \subseteq Resources
    BY <1>1 DEF TypeOK, Resources
<1>4. Filed'
    BY <1>1, <1>3 DEF Filed, AccountMoves
<1>5. OnlyOrphans'
    BY <1>1 DEF OnlyOrphans, Orphan
<1>6. RhmiFirst'
    <2> SUFFICES ASSUME NEW v \in removed' \intersect listed, NEW r \in rhmi, tag[r] = tag[v],
                        \A t \in TagsOf[v] : t.label # "rhmi"
                 PROVE  account'[r] # "live"
        BY <1>1 DEF RhmiFirst
    <2>1. account[r] # "live"
        BY <1>1 DEF RhmiFirst, RhmiIsDone
    <2>2. account[r] # "unborn" /\ r \in Resources
        BY <1>1, <1>3 DEF Filed
    <2> QED BY <2>1, <2>2 DEF AccountMoves
<1>7. RecordIsTrue'
    <2>1. ASSUME NEW r \in deletedResources' PROVE account'[r] # "live"
        <3>1. CASE r \in deletedResources
            <4>1. account[r] # "live" /\ account[r] # "unborn" /\ r \in Resources
                BY <1>1, <1>3, <3>1 DEF RecordIsTrue, Filed
            <4> QED BY <4>1 DEF AccountMoves
        <3>2. CASE r \notin deletedResources
            BY <2>1, <3>2
        <3> QED BY <3>1, <3>2
    <2>2. ASSUME dryRun PROVE removed' = {} /\ deletedResources' = {}
        BY <1>1, <2>2 DEF RecordIsTrue
    <2> QED BY <1>1, <2>1, <2>2 DEF RecordIsTrue
<1> QED BY <1>2, <1>4, <1>5, <1>6, <1>7 DEF IndInv

LEMMA HandledStep ==
    ASSUME IndInv, UNCHANGED <<dryRun, tag, rhmi, todo>>, osd \subseteq osd', AccountMoves
    PROVE  RhmiHandled'
<1>1. rhmi \subseteq Resources /\ \A r \in rhmi : account[r] # "unborn"
    BY DEF IndInv, TypeOK, Filed
<1> QED BY <1>1 DEF IndInv, RhmiHandled, AccountMoves

LEMMA DecidedStep ==
    ASSUME IndInv, UNCHANGED <<tag, seen, listed, decided, s3Buckets, vpcs>>
    PROVE  DecidedSoFar'
BY DEF IndInv, DecidedSoFar, Sweepable, Untagged, UsedBy

----------------------------------------------------------------------------
LEMMA InitInv == Init => IndInv
<1> SUFFICES ASSUME Init PROVE IndInv
    OBVIOUS
<1>1. TypeOK
    <2>1. account \in [Resources -> {"unborn", "live", "gone"}] /\ pages \in [Buckets -> Nat]
        BY BoundsAssumption DEF Init
    <2>2. tag \in [Resources -> Tags] /\ current \in Tags /\ polls \in 0..MaxPolls
        BY BoundsAssumption DEF Init, Tags
    <2>3. pc \in Working \union Ended /\ dryRun \in BOOLEAN /\ changed \in BOOLEAN /\ trouble \in BOOLEAN
        BY DEF Init, Working
    <2> QED BY <2>1, <2>2, <2>3 DEF Init, TypeOK
<1>2. KeysAreSeen /\ Filed /\ Progress /\ RhmiHandled
    BY DEF Init, KeysAreSeen, Filed, Progress, RhmiHandled
<1>3. listed = {} /\ removed = {} /\ decided = {} /\ deletedResources = {}
    BY DEF Init
<1>4. Sweepable = {} /\ Untagged = {}
    BY <1>3 DEF Sweepable, Untagged
<1>5. DecidedSoFar /\ OnlyOrphans /\ RhmiFirst /\ RecordIsTrue
    BY <1>3, <1>4 DEF DecidedSoFar, OnlyOrphans, RhmiFirst, RecordIsTrue
<1> QED BY <1>1, <1>2, <1>5 DEF IndInv

LEMMA RunAgainStep == ASSUME IndInv, RunAgain PROVE IndInv'
<1> USE DEF RunAgain, Start, env
<1>1. TypeOK'
    <2>1. account' \in [Resources -> {"unborn", "live", "gone"}] /\ pages' \in [Buckets -> Nat]
        BY DEF IndInv, TypeOK
    <2>2. tag' \in [Resources -> Tags] /\ current' \in Tags /\ polls' \in 0..MaxPolls
        BY BoundsAssumption DEF Tags
    <2>3. /\ pc' \in Working \union Ended
          /\ dryRun' \in BOOLEAN /\ changed' \in BOOLEAN /\ trouble' \in BOOLEAN
        BY DEF Working
    <2> QED BY <2>1, <2>2, <2>3 DEF TypeOK
<1>2. KeysAreSeen' /\ Filed' /\ Progress' /\ RhmiHandled'
    BY DEF KeysAreSeen, Filed, Progress, RhmiHandled
<1>3. listed' = {} /\ removed' = {} /\ decided' = {} /\ deletedResources' = {}
    OBVIOUS
<1>4. Sweepable' = {} /\ Untagged' = {}
    BY <1>3 DEF Sweepable, Untagged
<1>5. DecidedSoFar' /\ OnlyOrphans' /\ RhmiFirst' /\ RecordIsTrue'
    BY <1>3, <1>4 DEF DecidedSoFar, OnlyOrphans, RhmiFirst, RecordIsTrue
<1> QED BY <1>1, <1>2, <1>5 DEF IndInv

LEMMA EnvironmentStep == ASSUME IndInv, Environment PROVE IndInv'
<1> USE DEF Environment
<1>1. TypeOK /\ Progress
    BY DEF IndInv
<1>2. Coming \subseteq Resources /\ Going \subseteq Resources
    BY AccountAssumption
<1>3. account' \in [Resources -> {"unborn", "live", "gone"}] /\ AccountMoves
    BY <1>1, <1>2 DEF TypeOK, AccountMoves
<1>4. TypeOK'
    BY <1>1, <1>3 DEF TypeOK
<1>5. Progress'
    BY <1>1 DEF Progress
<1>6. RhmiHandled' /\ DecidedSoFar'
    BY <1>3, HandledStep, DecidedStep
<1>7. Sweeps
    BY <1>3 DEF Sweeps
<1> QED BY <1>4, <1>5, <1>6, <1>7, SweepStep

(* Steps that only move the run on.                                          *)
LEMMA MovesOn ==
    ASSUME IndInv,
           ListingFails \/ RhmiDone \/ BucketsDone \/ PollTimesOut \/ Finish
    PROVE  IndInv'
<1> USE DEF env, snapshot
<1>1. TypeOK /\ Progress
    BY DEF IndInv
<1>2. /\ UNCHANGED <<account, pages, dryRun, tag, rhmi, seen, listed, osd, todo, current, polls,
                     s3Buckets, vpcs, deletedResources, decided, removed, changed, trouble>>
      /\ pc' \in {"failed", "velero", "cleanvpcs", "done"}
    BY DEF ListingFails, RhmiDone, BucketsDone, PollTimesOut, Finish
<1>3. TypeOK'
    BY <1>1, <1>2 DEF TypeOK, Working, Ended
<1>4. Progress'
    BY <1>1 DEF Progress, ListingFails, RhmiDone, BucketsDone, PollTimesOut, Finish
<1>5. AccountMoves
    BY <1>2 DEF AccountMoves
<1>6. RhmiHandled' /\ DecidedSoFar'
    BY <1>2, <1>5, HandledStep, DecidedStep
<1>7. Sweeps
    BY <1>2, <1>5 DEF Sweeps
<1> QED BY <1>3, <1>4, <1>6, <1>7, SweepStep

LEMMA RhmiTagStep == ASSUME IndInv, RhmiTag PROVE IndInv'
<1> USE DEF env, snapshot
<1>1. TypeOK /\ Progress /\ RhmiHandled /\ KeysAreSeen
    BY DEF IndInv
<1>2. PICK t \in todo :
          IF t \in osd \/ dryRun
          THEN pc' = pc /\ todo' = todo \ {t} /\ UNCHANGED <<current, polls>>
          ELSE pc' = "poll" /\ current' = t /\ polls' = 0 /\ UNCHANGED todo
    BY DEF RhmiTag
<1>3. /\ UNCHANGED <<account, pages, dryRun, tag, rhmi, seen, listed, osd,
                     s3Buckets, vpcs, deletedResources, decided, removed, changed, trouble>>
      /\ pc = "rhmi"
    BY DEF RhmiTag
<1>4. TypeOK'
    BY <1>1, <1>2, <1>3, BoundsAssumption DEF TypeOK, Working
<1>5. Progress'
    BY <1>1, <1>2, <1>3 DEF Progress
<1>6. RhmiHandled'
    BY <1>1, <1>2, <1>3 DEF RhmiHandled, KeysAreSeen
<1>7. DecidedSoFar'
    BY <1>3, DecidedStep
<1>8. Sweeps
    BY <1>2, <1>3 DEF Sweeps, AccountMoves
<1> QED BY <1>4, <1>5, <1>6, <1>7, <1>8, SweepStep

LEMMA PollStep == ASSUME IndInv, cleanupWithClusterService PROVE IndInv'
<1> USE DEF env, snapshot
<1>1. TypeOK /\ Progress /\ RhmiHandled /\ KeysAreSeen /\ Filed
    BY DEF IndInv
<1>2. PICK gone \in SUBSET (Live \intersect Of(current)) :
          /\ Remove(gone)
          /\ \/ /\ AllItemsComplete(gone)
                /\ pc' = "rhmi" /\ todo' = todo \ {current}
                /\ deletedResources' = deletedResources \union {r \in rhmi : tag[r] = current}
             \/ /\ ~AllItemsComplete(gone)
                /\ pc' = "poll" /\ UNCHANGED <<todo, deletedResources>>
             \/ pc' = "exited" /\ UNCHANGED <<todo, deletedResources>>
    BY DEF cleanupWithClusterService
<1>3. /\ UNCHANGED <<pages, dryRun, tag, rhmi, seen, listed, osd, current,
                     s3Buckets, vpcs, decided, changed, trouble>>
      /\ pc = "poll" /\ polls < MaxPolls /\ polls' = polls + 1
    BY DEF cleanupWithClusterService
<1>4. ~dryRun /\ current \notin osd
    BY <1>1, <1>3 DEF Progress
<1>5. /\ gone \subseteq Resources
      /\ \A r \in gone : account[r] = "live" /\ [label |-> "rhmi", cluster |-> current] \in TagsOf[r]
      /\ account' = [r \in Resources |-> IF r \in gone THEN "gone" ELSE account[r]]
      /\ removed' = removed \union gone
    BY <1>2 DEF Remove, Live, Of
<1>6. AccountMoves
    BY <1>1, <1>5 DEF AccountMoves, TypeOK
<1>7. TypeOK'
    <2>1. polls' \in 0..MaxPolls
        BY <1>1, <1>3, BoundsAssumption DEF TypeOK
    <2>2. account' \in [Resources -> {"unborn", "live", "gone"}]
        BY <1>1, <1>5 DEF TypeOK
    <2>3. pc' \in Working \union Ended /\ todo' \subseteq Tags /\ deletedResources' \subseteq Resources
        BY <1>1, <1>2 DEF TypeOK, Working, Ended
    <2> QED BY <1>1, <1>3, <1>5, <2>1, <2>2, <2>3 DEF TypeOK
<1>8. Progress'
    BY <1>1, <1>2, <1>3, <1>4 DEF Progress
<1>9. ASSUME AllItemsComplete(gone), NEW r \in rhmi, tag[r] = current
      PROVE  account'[r] = "gone"
    <2>1. r \in Resources /\ r \in Of(current) /\ account[r] # "unborn"
        BY <1>1, <1>9 DEF TypeOK, Filed, Of
    <2>2. account[r] = "live" => r \in gone
        BY <1>9, <2>1 DEF AllItemsComplete, Live
    <2> QED BY <1>1, <1>5, <2>1, <2>2 DEF TypeOK
<1>10. RhmiHandled'
    <2>1. CASE UNCHANGED todo
        BY <1>3, <1>6, <2>1, HandledStep
    <2>2. CASE AllItemsComplete(gone) /\ todo' = todo \ {current}
        <3> SUFFICES ASSUME NEW r \in rhmi
                     PROVE  tag[r] \in todo' \union (osd \ {NoTag}) \/ account'[r] # "live"
            BY <1>3 DEF RhmiHandled
        <3>1. tag[r] \in todo \union (osd \ {NoTag}) \/ account[r] # "live"
            BY <1>1, <1>4 DEF RhmiHandled
        <3>2. r \in Resources /\ account[r] # "unborn"
            BY <1>1 DEF TypeOK, Filed
        <3> QED BY <1>6, <1>9, <2>2, <3>1, <3>2 DEF AccountMoves
    <2> QED BY <1>2, <2>1, <2>2
<1>11. DecidedSoFar'
    BY <1>3, DecidedStep
<1>12. ASSUME NEW r \in gone PROVE Orphan(r) /\ RhmiIsDone(r)
    <2>1. PICK t \in TagsOf[r] : t = [label |-> "rhmi", cluster |-> current]
        BY <1>5
    <2>2. t.label = "rhmi" /\ t.cluster = current /\ t \in Recognised(r)
        BY <2>1 DEF Recognised
    <2>3. Orphan(r)
        BY <1>1, <1>4, <2>2 DEF Orphan, OneCluster, KeysAreSeen
    <2>4. RhmiIsDone(r)
        BY <2>2 DEF RhmiIsDone
    <2> QED BY <2>3, <2>4
<1>13. Sweeps
    <2>1. \A r \in removed' \ removed : ~dryRun /\ account[r] = "live" /\ Orphan(r) /\ RhmiIsDone(r)
        BY <1>4, <1>5, <1>12
    <2>2. \A r \in deletedResources' \ deletedResources : ~dryRun /\ account'[r] = "gone"
        BY <1>2, <1>4, <1>9
    <2> QED BY <1>2, <1>3, <1>6, <2>1, <2>2 DEF Sweeps
<1> QED BY <1>7, <1>8, <1>10, <1>11, <1>13, SweepStep

----------------------------------------------------------------------------
(* The listings.                                                             *)
LEMMA EC2Step == ASSUME IndInv, fetchEC2Instances PROVE IndInv'
<1> USE DEF env
<1>1. TypeOK /\ Progress
    BY DEF IndInv
<1>2. /\ seen' = Live \intersect Instances /\ pc = "ec2" /\ pc' = "vpcs"
      /\ UNCHANGED <<account, pages, dryRun, tag, rhmi, todo, current, polls, s3Buckets, vpcs,
                     deletedResources, listed, decided, removed, changed, trouble>>
    BY DEF fetchEC2Instances
<1>3. PICK f \in Classified(seen') : osd' = {f[i].clusterTag : i \in seen'} \ {NoTag}
    BY DEF fetchEC2Instances
<1>4. seen' \in SUBSET Resources /\ seen' \subseteq Instances /\ \A i \in seen' : account[i] = "live"
    BY <1>2 DEF Live, Resources
<1>5. /\ removed = {} /\ decided = {} /\ deletedResources = {} /\ listed = {} /\ rhmi = {}
      /\ s3Buckets = {} /\ vpcs = {} /\ todo = {}
    BY <1>1, <1>2 DEF Progress
<1>6. ASSUME NEW i \in seen'
      PROVE  /\ f[i].clusterTag \in Tags
             /\ \/ Recognised(i) = {} /\ f[i].clusterTag = NoTag
                \/ \E t \in Recognised(i) : f[i].clusterTag = t.cluster
    BY <1>4, ClassOf
<1>7. TypeOK'
    <2>1. osd' \subseteq Tags
        BY <1>3, <1>6
    <2>2. seen' \subseteq Instances
        BY <1>4
    <2>3. pc' \in Working \union Ended
        BY <1>2 DEF Working
    <2> QED BY <1>1, <1>2, <2>1, <2>2, <2>3 DEF TypeOK
<1>8. KeysAreSeen'
    <2>1. ASSUME NEW t \in osd', t # NoTag
          PROVE  \E i \in seen' : \E u \in Recognised(i) : u.cluster = t
        BY <1>3, <1>6, <2>1
    <2>2. ASSUME NEW i \in seen', OneCluster(i), NEW u \in Recognised(i), u.cluster # NoTag
          PROVE  u.cluster \in osd'
        <3>1. f[i].clusterTag = u.cluster
            BY <1>6, <2>2 DEF OneCluster
        <3> QED BY <1>3, <2>2, <3>1
    <2>3. NoTag \notin osd'
        BY <1>3
    <2> QED BY <2>1, <2>2, <2>3 DEF KeysAreSeen
<1>9. Filed'
    BY <1>2, <1>4, <1>5 DEF Filed
<1>10. Progress'
    BY <1>2, <1>5 DEF Progress
<1>11. Sweepable' = {} /\ Untagged' = {}
    BY <1>2, <1>5 DEF Sweepable, Untagged
<1>12. RhmiHandled' /\ DecidedSoFar' /\ OnlyOrphans' /\ RhmiFirst' /\ RecordIsTrue'
    BY <1>2, <1>5, <1>11 DEF RhmiHandled, DecidedSoFar, OnlyOrphans, RhmiFirst, RecordIsTrue
<1> QED BY <1>7, <1>8, <1>9, <1>10, <1>12 DEF IndInv

(* What a listing adds keeps the lists true.  L is what it puts into the     *)
(* list of its kind.                                                         *)
LEMMA CollectStep ==
    ASSUME IndInv, NEW rs \in SUBSET Live, NEW f \in Classified(rs), Collect(f, rs),
           rs \intersect (rhmi \union listed) = {},
           pc \in {"vpcs", "s3"}, TypeOK', Progress',
           UNCHANGED <<account, dryRun, osd, deletedResources, seen, decided, removed>>,
           pc' \in {"s3", "rhmi"},
           s3Buckets' \union vpcs' =
               s3Buckets \union vpcs \union {r \in rs : ~f[r].hasRhmiTag},
           s3Buckets' \subseteq listed' /\ vpcs' \subseteq listed'
    PROVE  IndInv'
<1>1. TypeOK /\ KeysAreSeen /\ Filed /\ Progress /\ RhmiHandled /\ DecidedSoFar
    BY DEF IndInv
<1>2. /\ removed = {} /\ decided = {} /\ deletedResources = {}
      /\ rs \in SUBSET Resources /\ \A r \in rs : account[r] = "live"
    BY <1>1 DEF Progress, Live
<1>3. /\ tag' = [r \in Resources |-> IF r \in rs THEN f[r].clusterTag ELSE tag[r]]
      /\ rhmi' = rhmi \union {r \in rs : f[r].hasRhmiTag}
      /\ todo' = todo \union {f[r].clusterTag : r \in {s \in rs : f[s].hasRhmiTag}}
      /\ listed' = listed \union {r \in rs : ~f[r].hasRhmiTag}
    BY DEF Collect
<1>4. ASSUME NEW r \in rs
      PROVE  /\ tag'[r] = f[r].clusterTag
             /\ \/ Recognised(r) = {} /\ tag'[r] = NoTag
                \/ \E t \in Recognised(r) : t.cluster = tag'[r]
             /\ f[r].hasRhmiTag => [label |-> "rhmi", cluster |-> tag'[r]] \in TagsOf[r]
    <2>1. tag'[r] = f[r].clusterTag
        BY <1>2, <1>3
    <2>2. /\ \/ Recognised(r) = {} /\ f[r].clusterTag = NoTag
             \/ \E t \in Recognised(r) : f[r].clusterTag = t.cluster
          /\ f[r].hasRhmiTag => [label |-> "rhmi", cluster |-> f[r].clusterTag] \in TagsOf[r]
        BY <1>2, ClassOf
    <2> QED BY <2>1, <2>2
<1>5. ASSUME NEW r \in rhmi \union listed PROVE tag'[r] = tag[r] /\ r \in Resources
    BY <1>1, <1>3, <1>5 DEF TypeOK
<1>6. KeysAreSeen'
    BY <1>1 DEF KeysAreSeen
<1>7. Filed'
    <2>1. ASSUME NEW r \in rhmi' PROVE [label |-> "rhmi", cluster |-> tag'[r]] \in TagsOf[r]
        BY <1>1, <1>3, <1>4, <1>5, <2>1 DEF Filed
    <2>2. ASSUME NEW r \in listed'
          PROVE  \/ Recognised(r) = {} /\ tag'[r] = NoTag
                 \/ \E t \in Recognised(r) : t.cluster = tag'[r]
        <3>1. CASE r \in listed
            <4>1. tag'[r] = tag[r]
                BY <1>5, <3>1
            <4> QED BY <1>1, <3>1, <4>1 DEF Filed
        <3>2. CASE r \in rs
            BY <1>4, <3>2
        <3> QED BY <1>3, <3>1, <3>2
    <2>3. \A r \in rhmi' \union listed' \union removed' \union deletedResources' \union seen' :
              account'[r] # "unborn"
        BY <1>1, <1>2, <1>3 DEF Filed
    <2> QED BY <2>1, <2>2, <2>3 DEF Filed
<1>8. RhmiHandled'
    <2>1. \A r \in rhmi' : tag'[r] \in todo' \union (osd \ {NoTag}) \/ account[r] # "live" \/ dryRun
        <3>1. ASSUME NEW r \in rhmi
              PROVE  tag'[r] \in todo' \union (osd \ {NoTag}) \/ account[r] # "live" \/ dryRun
            <4>1. tag'[r] = tag[r]
                BY <1>5
            <4>2. tag[r] \in todo \union (osd \ {NoTag}) \/ account[r] # "live" \/ dryRun
                BY <1>1 DEF RhmiHandled
            <4> QED BY <1>3, <4>1, <4>2
        <3>2. ASSUME NEW r \in rs, f[r].hasRhmiTag PROVE tag'[r] \in todo'
            <4>1. tag'[r] = f[r].clusterTag
                BY <1>4
            <4> QED BY <1>3, <3>2, <4>1
        <3> QED BY <1>3, <3>1, <3>2
    <2> QED BY <2>1 DEF RhmiHandled
<1>9. DecidedSoFar'
    <2>1. ASSUME NEW r \in listed', r \in Sweepable' => ~UsedBy(r, seen)'
          PROVE  r \in Sweepable' \union Untagged' => r \in s3Buckets' \union vpcs'
        <3>1. CASE r \in rs
            BY <1>1, <1>3, <2>1, <3>1 DEF TypeOK
        <3>2. CASE r \in listed
            <4>1. tag'[r] = tag[r]
                BY <1>5, <3>2
            <4>2. r \in Untagged' => r \in Untagged
                BY <3>2 DEF Untagged
            <4>3. r \in Sweepable' => r \in Sweepable /\ ~UsedBy(r, seen)
                BY <2>1, <3>2, <4>1 DEF Sweepable, UsedBy
            <4> QED BY <1>1, <1>2, <4>2, <4>3 DEF DecidedSoFar
        <3> QED BY <1>3, <3>1, <3>2
    <2>2. Sweepable' \subseteq listed' /\ Untagged' \subseteq listed'
        BY DEF Sweepable, Untagged
    <2>3. ASSUME NEW r \in Untagged' PROVE r \in Sweepable' => ~UsedBy(r, seen)'
        <3>1. TagsOf[r] = {} /\ r \in listed'
            BY <2>3 DEF Untagged
        <3>2. tag'[r] = NoTag
            BY <1>7, <3>1 DEF Filed, Recognised
        <3> QED BY <3>2 DEF Sweepable
    <2>4. decided' = {}
        BY <1>2
    <2> QED BY <2>1, <2>2, <2>3, <2>4 DEF DecidedSoFar
<1>10. OnlyOrphans' /\ RhmiFirst' /\ RecordIsTrue'
    BY <1>2 DEF OnlyOrphans, RhmiFirst, RecordIsTrue
<1> QED BY <1>6, <1>7, <1>8, <1>9, <1>10 DEF IndInv

(* TypeOK of what a listing fills.                                           *)
LEMMA CollectType ==
    ASSUME TypeOK, NEW rs \in SUBSET Resources, NEW f \in Classified(rs), Collect(f, rs)
    PROVE  /\ tag' \in [Resources -> Tags] /\ todo' \subseteq Tags
           /\ rhmi' \subseteq Resources /\ listed' \subseteq Resources
<1>1. \A r \in rs : f[r].clusterTag \in Tags
    BY ClassOf
<1>2. tag' \in [Resources -> Tags]
    BY <1>1 DEF Collect, TypeOK
<1>3. todo' \subseteq Tags
    BY <1>1 DEF Collect, TypeOK
<1>4. rhmi' \subseteq Resources /\ listed' \subseteq Resources
    BY DEF Collect, TypeOK
<1> QED BY <1>2, <1>3, <1>4

LEMMA VpcsStep == ASSUME IndInv, fetchVpcs PROVE IndInv'
<1> USE DEF env
<1>1. TypeOK /\ Progress
    BY DEF IndInv
<1>2. /\ pc = "vpcs" /\ pc' = "s3"
      /\ UNCHANGED <<account, pages, dryRun, osd, current, polls, s3Buckets, deletedResources,
                     seen, decided, removed, changed, trouble>>
    BY DEF fetchVpcs
<1>3. PICK f \in Classified(CleanableVpcs) :
          /\ Collect(f, CleanableVpcs)
          /\ vpcs' = {r \in CleanableVpcs : ~f[r].hasRhmiTag}
    BY DEF fetchVpcs
<1>4. /\ CleanableVpcs \in SUBSET Live /\ CleanableVpcs \in SUBSET Resources
      /\ CleanableVpcs \subseteq Vpcs \ DefaultVpcs
    BY DEF CleanableVpcs, Live
<1>5. /\ removed = {} /\ decided = {} /\ deletedResources = {} /\ listed = {} /\ rhmi = {}
      /\ s3Buckets = {} /\ vpcs = {} /\ todo = {}
    BY <1>1, <1>2 DEF Progress
<1>6. /\ rhmi' = {r \in CleanableVpcs : f[r].hasRhmiTag}
      /\ listed' = {r \in CleanableVpcs : ~f[r].hasRhmiTag}
    BY <1>3, <1>5 DEF Collect
<1>7. TypeOK'
    <2>1. /\ tag' \in [Resources -> Tags] /\ todo' \subseteq Tags
          /\ rhmi' \subseteq Resources /\ listed' \subseteq Resources
        BY <1>1, <1>3, <1>4, CollectType
    <2>2. vpcs' \subseteq Vpcs \ DefaultVpcs
        BY <1>3, <1>4
    <2> QED BY <1>1, <1>2, <2>1, <2>2 DEF TypeOK, Working
<1>8. Progress'
    BY <1>2, <1>4, <1>5, <1>6 DEF Progress
<1>9. CleanableVpcs \intersect (rhmi \union listed) = {}
    BY <1>5
<1>10. /\ s3Buckets' \union vpcs' =
              s3Buckets \union vpcs \union {r \in CleanableVpcs : ~f[r].hasRhmiTag}
       /\ s3Buckets' \subseteq listed' /\ vpcs' \subseteq listed'
    BY <1>2, <1>3, <1>5, <1>6
<1> QED BY <1>2, <1>3, <1>4, <1>7, <1>8, <1>9, <1>10, CollectStep

LEMMA S3Step == ASSUME IndInv, fetchS3Buckets PROVE IndInv'
<1> USE DEF env
<1>1. TypeOK /\ Progress /\ Filed
    BY DEF IndInv
<1>2. /\ pc = "s3" /\ pc' = "rhmi"
      /\ UNCHANGED <<account, pages, dryRun, osd, vpcs, current, polls, deletedResources,
                     seen, decided, removed, changed>>
    BY DEF fetchS3Buckets
<1>3. PICK rs \in SUBSET (Live \intersect LocalBuckets) :
          /\ \E f \in Classified(rs) :
                 /\ Collect(f, rs)
                 /\ s3Buckets' = {r \in rs : ~f[r].hasRhmiTag}
          /\ trouble' = (trouble \/ rs # Live \intersect LocalBuckets)
    BY DEF fetchS3Buckets
<1>4. PICK f \in Classified(rs) :
          Collect(f, rs) /\ s3Buckets' = {r \in rs : ~f[r].hasRhmiTag}
    BY <1>3
<1>5. /\ rs \in SUBSET Live /\ rs \in SUBSET Resources /\ rs \subseteq LocalBuckets
      /\ rs \subseteq Buckets
    BY AccountAssumption DEF Live
<1>6. s3Buckets = {} /\ rhmi \union listed \subseteq Vpcs
    BY <1>1, <1>2 DEF Progress
<1>7. listed' = listed \union {r \in rs : ~f[r].hasRhmiTag}
    BY <1>4 DEF Collect
<1>8. TypeOK'
    <2>1. /\ tag' \in [Resources -> Tags] /\ todo' \subseteq Tags
          /\ rhmi' \subseteq Resources /\ listed' \subseteq Resources
        BY <1>1, <1>4, <1>5, CollectType
    <2>2. s3Buckets' \subseteq LocalBuckets
        BY <1>4, <1>5
    <2>3. trouble' \in BOOLEAN
        BY <1>3
    <2> QED BY <1>1, <1>2, <2>1, <2>2, <2>3 DEF TypeOK, Working
<1>9. Progress'
    BY <1>2 DEF Progress
<1>10. rs \intersect (rhmi \union listed) = {}
    BY <1>5, <1>6, KindsAssumption
<1>11. /\ s3Buckets' \union vpcs' = s3Buckets \union vpcs \union {r \in rs : ~f[r].hasRhmiTag}
       /\ s3Buckets' \subseteq listed' /\ vpcs' \subseteq listed'
    BY <1>1, <1>2, <1>4, <1>6, <1>7 DEF Filed
<1> QED BY <1>2, <1>4, <1>5, <1>8, <1>9, <1>10, <1>11, CollectStep

----------------------------------------------------------------------------
(* The loops.  A resource taken from a list is decided on, or its key is in  *)
(* use or empty, and so it is with DecidedSoFar.                             *)
LEMMA LoopDecided ==
    ASSUME IndInv, NEW r \in listed, UNCHANGED <<tag, seen, listed>>,
           s3Buckets \union vpcs \subseteq s3Buckets' \union vpcs' \union {r},
           \/ /\ decided' = decided \union {r}
              /\ \/ r \in Untagged
                 \/ r \in Sweepable /\ tag[r] \notin osd
           \/ /\ decided' = decided
              /\ r \notin Untagged
              /\ r \in Sweepable => tag[r] \in osd
    PROVE  DecidedSoFar'
<1>1. DecidedSoFar
    BY DEF IndInv
<1>2. Sweepable' = Sweepable /\ Untagged' = Untagged /\ (\A s, is : UsedBy(s, is)' = UsedBy(s, is))
    BY DEF Sweepable, Untagged, UsedBy
<1>3. CASE decided' = decided \union {r} /\ r \in Untagged
    BY <1>1, <1>2, <1>3 DEF DecidedSoFar, Sweepable, Untagged, UsedBy
<1>4. CASE decided' = decided \union {r} /\ r \in Sweepable /\ tag[r] \notin osd
    <2>1. ~UsedBy(r, {i \in seen : OneCluster(i)})
        BY <1>4, UnusedIsOrphan DEF Sweepable
    <2> QED BY <1>1, <1>4, <2>1 DEF DecidedSoFar, Sweepable, Untagged, UsedBy
<1>5. CASE decided' = decided /\ r \notin Untagged /\ (r \in Sweepable => tag[r] \in osd)
    <2>1. r \in Sweepable => UsedBy(r, seen)
        BY <1>5, UsedTag DEF Sweepable
    <2> QED BY <1>1, <1>5, <2>1 DEF DecidedSoFar, Sweepable, Untagged, UsedBy
<1> QED BY <1>3, <1>4, <1>5

(* What the loops remove: its cluster service is done.                       *)
LEMMA LoopRemoves ==
    ASSUME IndInv, NEW v \in listed, pc \in {"velero", "cleanvpcs"}, ~dryRun,
           tag[v] \notin osd \/ tag[v] = NoTag
    PROVE  RhmiIsDone(v)
BY DEF IndInv, Progress, RhmiHandled, RhmiIsDone

LEMMA VeleroStep == ASSUME IndInv, cleanupUnusedVeleroS3Buckets PROVE IndInv'
<1> USE DEF env, snapshot
<1>1. TypeOK /\ Progress /\ Filed
    BY DEF IndInv
<1>2. /\ UNCHANGED <<pc, dryRun, tag, rhmi, seen, listed, todo, current, polls, vpcs, changed>>
      /\ pc = "velero"
    BY DEF cleanupUnusedVeleroS3Buckets
<1>3. PICK b \in s3Buckets :
          /\ s3Buckets' = s3Buckets \ {b}
          /\ \/ /\ b \notin VeleroBuckets
                /\ UNCHANGED <<env, osd, decided, removed, deletedResources, trouble>>
             \/ /\ b \in VeleroBuckets /\ Unused(b)
                /\ decided' = decided \union {b}
                /\ IF dryRun THEN UNCHANGED <<env, removed, deletedResources, trouble>>
                   ELSE removeS3Bucket(b)
                /\ UNCHANGED osd
             \/ /\ b \in VeleroBuckets /\ ~Unused(b)
                /\ osd' = osd \union {tag[b]}
                /\ UNCHANGED <<env, decided, removed, deletedResources, trouble>>
    BY DEF cleanupUnusedVeleroS3Buckets
<1>4. b \in Buckets /\ b \in Resources /\ b \in listed /\ b \notin Vpcs
    BY <1>1, AccountAssumption, KindsAssumption DEF TypeOK, Filed, Resources
<1>5. todo = {}
    BY <1>1, <1>2 DEF Progress
<1>6. /\ osd' = osd \/ (osd' = osd \union {tag[b]} /\ (tag[b] \in osd \/ tag[b] = NoTag))
      /\ osd' \subseteq Tags
    BY <1>1, <1>3, <1>4 DEF Unused, TypeOK
<1>7. /\ account' \in [Resources -> {"unborn", "live", "gone"}] /\ AccountMoves
      /\ pages' \in [Buckets -> Nat] /\ trouble' \in BOOLEAN
      /\ removed' \in {removed, removed \union {b}}
      /\ deletedResources' \in {deletedResources, deletedResources \union {b}}
      /\ decided' \in {decided, decided \union {b}}
      /\ b \in removed' \ removed => ~dryRun /\ account[b] = "live" /\ Unused(b)
      /\ b \in deletedResources' \ deletedResources => ~dryRun /\ account'[b] = "gone"
    <2>1. CASE UNCHANGED <<env, removed, deletedResources, trouble>>
        BY <1>1, <1>3, <2>1 DEF TypeOK, AccountMoves
    <2>2. CASE ~dryRun /\ Unused(b) /\ decided' = decided \union {b} /\ removeS3Bucket(b)
        <3>1. CASE /\ account[b] = "live" /\ pages' = [pages EXCEPT ![b] = 0]
                   /\ Remove({b}) /\ deletedResources' = deletedResources \union {b}
                   /\ UNCHANGED trouble
            BY <1>1, <1>4, <2>2, <3>1 DEF TypeOK, AccountMoves, Remove
        <3>2. CASE /\ pages' \in {pages} \union
                              (IF account[b] = "live" /\ pages[b] > 0
                               THEN {[pages EXCEPT ![b] = @ - 1]} ELSE {})
                   /\ trouble' = TRUE
                   /\ UNCHANGED <<account, removed, deletedResources>>
            <4>1. pages' \in [Buckets -> Nat]
                BY <1>1, <1>4, <3>2 DEF TypeOK
            <4> QED BY <1>1, <2>2, <3>2, <4>1 DEF TypeOK, AccountMoves
        <3> QED BY <2>2, <3>1, <3>2 DEF removeS3Bucket
    <2> QED BY <1>3, <2>1, <2>2
<1>8. TypeOK'
    BY <1>1, <1>2, <1>3, <1>4, <1>6, <1>7 DEF TypeOK
<1>9. Progress'
    BY <1>1, <1>2 DEF Progress
<1>10. RhmiHandled'
    BY <1>2, <1>6, <1>7, HandledStep
<1>11. DecidedSoFar'
    <2>1. b \notin Untagged /\ (b \in Sweepable => b \in VeleroBuckets /\ tag[b] # NoTag)
        BY <1>4 DEF Untagged, Sweepable
    <2>2. b \in VeleroBuckets /\ Unused(b) => b \in Sweepable /\ tag[b] \notin osd
        BY <1>4 DEF Sweepable, Unused
    <2>3. \/ decided' = decided \union {b} /\ b \in Sweepable /\ tag[b] \notin osd
          \/ decided' = decided /\ (b \in Sweepable => tag[b] \in osd)
        BY <1>3, <2>1, <2>2 DEF Unused
    <2>4. s3Buckets \union vpcs \subseteq s3Buckets' \union vpcs' \union {b}
        BY <1>2, <1>3
    <2> QED BY <1>2, <1>4, <2>1, <2>3, <2>4, LoopDecided
<1>12. Unused(b) /\ ~dryRun => Orphan(b) /\ RhmiIsDone(b)
    BY <1>2, <1>4, UnusedIsOrphan, LoopRemoves DEF Unused
<1>13. Sweeps
    BY <1>2, <1>3, <1>6, <1>7, <1>12 DEF Sweeps
<1> QED BY <1>8, <1>9, <1>10, <1>11, <1>13, SweepStep

LEMMA VpcSweepStep == ASSUME IndInv, cleanupVpcs PROVE IndInv'
<1> USE DEF env, snapshot
<1>1. TypeOK /\ Progress /\ Filed
    BY DEF IndInv
<1>2. /\ UNCHANGED <<pages, pc, dryRun, tag, rhmi, seen, listed, todo, current, polls,
                     s3Buckets, changed>>
      /\ pc = "cleanvpcs"
    BY DEF cleanupVpcs
<1>3. PICK v \in vpcs :
          /\ vpcs' = vpcs \ {v}
          /\ \/ /\ Unused(v) \/ TagsOf[v] = {}
                /\ decided' = decided \union {v}
                /\ IF dryRun THEN UNCHANGED <<account, removed, deletedResources, trouble>>
                   ELSE DeleteVpc(v)
                /\ UNCHANGED osd
             \/ /\ ~Unused(v) /\ TagsOf[v] # {}
                /\ osd' = osd \union {tag[v]}
                /\ UNCHANGED <<account, decided, removed, deletedResources, trouble>>
    BY DEF cleanupVpcs
<1>4. v \in Vpcs /\ v \in Resources /\ v \in listed
    BY <1>1 DEF TypeOK, Filed, Resources
<1>5. TagsOf[v] = {} => Recognised(v) = {} /\ tag[v] = NoTag
    BY <1>1, <1>4 DEF Recognised, Filed
<1>6. /\ osd' = osd \/ (osd' = osd \union {tag[v]} /\ (tag[v] \in osd \/ tag[v] = NoTag))
      /\ osd' \subseteq Tags
    BY <1>1, <1>3, <1>4 DEF Unused, TypeOK
<1>7. /\ account' \in [Resources -> {"unborn", "live", "gone"}] /\ AccountMoves
      /\ trouble' \in BOOLEAN
      /\ removed' \in {removed, removed \union {v}}
      /\ deletedResources' \in {deletedResources, deletedResources \union {v}}
      /\ decided' \in {decided, decided \union {v}}
      /\ v \in removed' \ removed =>
             ~dryRun /\ account[v] = "live" /\ (Unused(v) \/ TagsOf[v] = {})
      /\ v \in deletedResources' \ deletedResources => ~dryRun /\ account'[v] = "gone"
    <2>1. CASE UNCHANGED <<account, removed, deletedResources, trouble>>
        BY <1>1, <1>3, <2>1 DEF TypeOK, AccountMoves
    <2>2. CASE ~dryRun /\ (Unused(v) \/ TagsOf[v] = {}) /\ decided' = decided \union {v} /\ DeleteVpc(v)
        BY <1>1, <1>4, <2>2 DEF TypeOK, AccountMoves, DeleteVpc, Remove
    <2> QED BY <1>3, <2>1, <2>2
<1>8. TypeOK'
    BY <1>1, <1>2, <1>3, <1>4, <1>6, <1>7 DEF TypeOK
<1>9. Progress'
    BY <1>1, <1>2 DEF Progress
<1>10. RhmiHandled'
    BY <1>2, <1>6, <1>7, HandledStep
<1>11. DecidedSoFar'
    <2>1. v \in Untagged <=> TagsOf[v] = {}
        BY <1>4 DEF Untagged
    <2>2. v \in Sweepable <=> tag[v] # NoTag
        BY <1>4 DEF Sweepable
    <2>3. s3Buckets \union vpcs \subseteq s3Buckets' \union vpcs' \union {v}
        BY <1>2, <1>3
    <2>4. \/ /\ decided' = decided \union {v}
             /\ v \in Untagged \/ (v \in Sweepable /\ tag[v] \notin osd)
          \/ /\ decided' = decided /\ v \notin Untagged
             /\ v \in Sweepable => tag[v] \in osd
        BY <1>3, <2>1, <2>2 DEF Unused
    <2> QED BY <1>2, <1>4, <2>3, <2>4, LoopDecided
<1>12. (Unused(v) \/ TagsOf[v] = {}) /\ ~dryRun => Orphan(v) /\ RhmiIsDone(v)
    <2>1. CASE Unused(v) /\ ~dryRun
        BY <1>2, <1>4, <2>1, UnusedIsOrphan, LoopRemoves DEF Unused
    <2>2. CASE TagsOf[v] = {} /\ ~dryRun
        <3>1. Orphan(v)
            BY <1>5, <2>2 DEF Orphan
        <3> QED BY <1>2, <1>4, <1>5, <2>2, <3>1, LoopRemoves
    <2> QED BY <2>1, <2>2
<1>13. Sweeps
    BY <1>2, <1>3, <1>6, <1>7, <1>12 DEF Sweeps
<1> QED BY <1>8, <1>9, <1>10, <1>11, <1>13, SweepStep

LEMMA NextStep == IndInv /\ [Next]_vars => IndInv'
<1> SUFFICES ASSUME IndInv, [Next]_vars PROVE IndInv'
    OBVIOUS
<1>1. CASE Next
    BY <1>1, MovesOn, EC2Step, VpcsStep, S3Step, RhmiTagStep, PollStep, VeleroStep,
        VpcSweepStep, RunAgainStep, EnvironmentStep DEF Next, Step
<1>2. CASE UNCHANGED vars
    <2>1. TypeOK' /\ Progress'
        BY <1>2 DEF vars, IndInv, TypeOK, Progress
    <2>2. Sweeps
        BY <1>2 DEF vars, Sweeps, AccountMoves
    <2>3. RhmiHandled' /\ DecidedSoFar'
        BY <1>2, <2>2, HandledStep, DecidedStep DEF vars, Sweeps
    <2> QED BY <2>1, <2>2, <2>3, SweepStep
<1> QED BY <1>1, <1>2

(* The inductive invariant: the keys of osdResources stay those of the       *)
(* instances that were seen, and the empty one.                              *)
THEOREM IndInvInvariant == Spec => []IndInv
<1>1. Init => IndInv
    BY InitInv
<1>2. IndInv /\ [Next]_vars => IndInv'
    BY NextStep
<1> QED BY <1>1, <1>2, PTL DEF Spec

(* Type correctness; the wait for the cluster service never passes its limit.*)
THEOREM TypeCorrect == Spec => []TypeOK
<1>1. IndInv => TypeOK
    BY DEF IndInv
<1> QED BY <1>1, IndInvInvariant, PTL

(* Nothing is removed that belongs to a cluster the run saw an instance of.  *)
THEOREM OnlyOrphansCorrect == Spec => []OnlyOrphans
<1>1. IndInv => OnlyOrphans
    BY DEF IndInv
<1> QED BY <1>1, IndInvInvariant, PTL

(* The loops remove only what the cluster service has nothing left to do for.*)
THEOREM RhmiFirstCorrect == Spec => []RhmiFirst
<1>1. IndInv => RhmiFirst
    BY DEF IndInv
<1> QED BY <1>1, IndInvInvariant, PTL

(* What is recorded as deleted is gone, and a dry run removes nothing.       *)
THEOREM RecordIsTrueCorrect == Spec => []RecordIsTrue
<1>1. IndInv => RecordIsTrue
    BY DEF IndInv
<1> QED BY <1>1, IndInvInvariant, PTL

(* The order of the lists and the keys that skipped resources add make no    *)
(* difference to what a run decides.                                         *)
THEOREM DecidedBySnapshotCorrect == Spec => []DecidedBySnapshot
<1>1. IndInv => DecidedBySnapshot
    BY DEF IndInv, DecidedBySnapshot, DecidedSoFar, Progress
<1> QED BY <1>1, IndInvInvariant, PTL
----------------------------------------------------------------------------
(* A second run finds nothing.  Swept is inductive next to IndInv, where no  *)
(* instance names several clusters: the cluster service could remove one for *)
(* its RHMI tag that is kept in osdResources under the other.                *)
InstancesOfOne == \A i \in Instances : OneCluster(i)

(* Nothing comes back, and an instance that keeps a key stays.               *)
Shrinks ==
    /\ \A r \in Resources : account'[r] = "live" => account[r] = "live"
    /\ \A i \in seen : \A u \in Recognised(i) :
           u.cluster # NoTag /\ account[i] = "live" => account'[i] = "live"

(* Steps that list nothing.                                                  *)
LEMMA SweptKept ==
    ASSUME IndInv, Swept, Shrinks, UNCHANGED <<rhmi, seen, listed, dryRun>>,
           changed => changed', trouble => trouble',
           pc' \in {"s3", "rhmi", "poll", "velero", "cleanvpcs", "done"} =>
               pc \in {"s3", "rhmi", "poll", "velero", "cleanvpcs", "done"},
           pc' \in {"rhmi", "poll", "velero", "cleanvpcs", "done"} =>
               pc \in {"rhmi", "poll", "velero", "cleanvpcs", "done"},
           \A r \in decided' \ decided : Quiet' => account'[r] # "live"
    PROVE  Swept'
<1>1. \A r \in listed' : OneTag(r) => \A t \in Recognised(r) : t.label # "rhmi"
    BY DEF Swept
<1>2. SUFFICES ASSUME Quiet' PROVE Swept'
    BY <1>1 DEF Swept
<1>3. Quiet /\ decided \subseteq Resources /\ LocalBuckets \subseteq Resources
    BY <1>2, AccountAssumption DEF Quiet, IndInv, TypeOK, Resources
<1>4. \A i \in seen' : \A u \in Recognised(i) : u.cluster # NoTag => account'[i] = "live"
    BY <1>3 DEF Swept, Shrinks
<1>5. \A r \in decided' : account'[r] # "live"
    BY <1>2, <1>3 DEF Swept, Shrinks
<1>6. Live' \subseteq Live
    BY DEF Live, Shrinks
<1>7. pc' \in {"s3", "rhmi", "poll", "velero", "cleanvpcs", "done"} =>
          CleanableVpcs' \subseteq rhmi' \union listed'
    BY <1>3, <1>6 DEF Swept, CleanableVpcs
<1>8. pc' \in {"rhmi", "poll", "velero", "cleanvpcs", "done"} =>
          Live' \intersect LocalBuckets \subseteq rhmi' \union listed'
    BY <1>3, <1>6 DEF Swept
<1> QED BY <1>1, <1>4, <1>5, <1>7, <1>8 DEF Swept

(* A listing takes all of rs, and what has one tag it files as that says.    *)
LEMMA SweptListing ==
    ASSUME IndInv, Swept, NEW rs \in SUBSET Resources, NEW f \in Classified(rs), Collect(f, rs)
    PROVE  /\ rhmi' \union listed' = rhmi \union listed \union rs
           /\ \A r \in listed' : OneTag(r) => \A t \in Recognised(r) : t.label # "rhmi"
<1>1. /\ rhmi' = rhmi \union {r \in rs : f[r].hasRhmiTag}
      /\ listed' = listed \union {r \in rs : ~f[r].hasRhmiTag}
    BY DEF Collect
<1>2. ASSUME NEW r \in rs, ~f[r].hasRhmiTag, OneTag(r), NEW t \in Recognised(r)
      PROVE  t.label # "rhmi"
    <2>1. f[r] \in extractClusterTag(r)
        BY DEF Classified
    <2>2. PICK u \in Recognised(r) :
              f[r] = [clusterTag |-> u.cluster, hasRhmiTag |-> u.label = "rhmi"]
        BY <1>2, <2>1 DEF extractClusterTag
    <2>3. u = t
        BY <1>2 DEF OneTag
    <2>4. SUFFICES ASSUME u.label = "rhmi" PROVE FALSE
        BY <2>3
    <2>5. (u.label = "rhmi") = TRUE
        BY <2>4
    <2>6. f[r] = [clusterTag |-> u.cluster, hasRhmiTag |-> TRUE]
        BY <2>2, <2>5, Zenon
    <2> QED BY <1>2, <2>6
<1>3. rhmi' \union listed' = rhmi \union listed \union rs
    BY <1>1
<1>4. \A r \in listed' : OneTag(r) => \A t \in Recognised(r) : t.label # "rhmi"
    BY <1>1, <1>2 DEF Swept
<1> QED BY <1>3, <1>4

LEMMA SweptEC2 == ASSUME IndInv, Swept, fetchEC2Instances PROVE Swept'
<1>1. /\ seen' = Live \intersect Instances /\ pc = "ec2" /\ pc' = "vpcs"
      /\ UNCHANGED <<account, dryRun, listed, decided, changed, trouble>>
    BY DEF fetchEC2Instances, env
<1>2. decided = {} /\ listed = {}
    BY <1>1 DEF IndInv, Progress
<1> QED BY <1>1, <1>2 DEF Swept, Live

LEMMA SweptVpcs == ASSUME IndInv, Swept, fetchVpcs PROVE Swept'
<1>1. /\ pc = "vpcs" /\ pc' = "s3"
      /\ UNCHANGED <<account, dryRun, seen, decided, changed, trouble>>
    BY DEF fetchVpcs, env
<1>2. PICK f \in Classified(CleanableVpcs) : Collect(f, CleanableVpcs)
    BY DEF fetchVpcs
<1>3. CleanableVpcs \in SUBSET Resources /\ CleanableVpcs' = CleanableVpcs
    BY <1>1 DEF CleanableVpcs, Live
<1>4. /\ CleanableVpcs \subseteq rhmi' \union listed'
      /\ \A r \in listed' : OneTag(r) => \A t \in Recognised(r) : t.label # "rhmi"
    BY <1>2, <1>3, SweptListing
<1> QED BY <1>1, <1>3, <1>4 DEF Swept, Quiet

LEMMA SweptS3 == ASSUME IndInv, Swept, fetchS3Buckets PROVE Swept'
<1>1. /\ pc = "s3" /\ pc' = "rhmi"
      /\ UNCHANGED <<account, dryRun, seen, decided, changed>>
    BY DEF fetchS3Buckets, env
<1>2. PICK rs \in SUBSET (Live \intersect LocalBuckets) :
          /\ \E f \in Classified(rs) : Collect(f, rs)
          /\ trouble' = (trouble \/ rs # Live \intersect LocalBuckets)
    BY DEF fetchS3Buckets
<1>3. rs \in SUBSET Resources
    BY DEF Live
<1>4. /\ rhmi' \union listed' = rhmi \union listed \union rs
      /\ \A r \in listed' : OneTag(r) => \A t \in Recognised(r) : t.label # "rhmi"
    BY <1>2, <1>3, SweptListing
<1>5. SUFFICES ASSUME Quiet' PROVE Swept'
    BY <1>4 DEF Swept
<1>6. Quiet /\ rs = Live \intersect LocalBuckets
    BY <1>1, <1>2, <1>5 DEF Quiet, IndInv, TypeOK
<1>7. Live' = Live /\ CleanableVpcs' = CleanableVpcs
    BY <1>1 DEF Live, CleanableVpcs
<1>8. /\ Live' \intersect LocalBuckets \subseteq rhmi' \union listed'
      /\ CleanableVpcs' \subseteq rhmi' \union listed'
    BY <1>1, <1>4, <1>6, <1>7 DEF Swept
<1> QED BY <1>1, <1>4, <1>6, <1>8 DEF Swept

(* The cluster service does not touch the instances that keep a key.         *)
LEMMA SweptPoll ==
    ASSUME IndInv, Swept, InstancesOfOne, cleanupWithClusterService PROVE Swept'
<1>1. /\ UNCHANGED <<rhmi, seen, listed, dryRun, decided, changed, trouble>>
      /\ pc = "poll" /\ pc' \in {"poll", "rhmi", "exited"}
    BY DEF cleanupWithClusterService, snapshot
<1>2. PICK gone \in SUBSET (Live \intersect Of(current)) : Remove(gone)
    BY DEF cleanupWithClusterService
<1>3. current \notin osd /\ seen \subseteq Instances /\ seen \subseteq Resources
    BY <1>1 DEF IndInv, Progress, TypeOK, Resources
<1>4. ASSUME NEW i \in seen, NEW u \in Recognised(i), u.cluster # NoTag, i \in gone
      PROVE  FALSE
    <2>1. [label |-> "rhmi", cluster |-> current] \in TagsOf[i]
        BY <1>4 DEF Of
    <2>2. PICK t \in TagsOf[i] : t = [label |-> "rhmi", cluster |-> current]
        BY <2>1
    <2>3. t \in Recognised(i) /\ t.cluster = current
        BY <2>2 DEF Recognised
    <2>4. OneCluster(i)
        BY <1>3 DEF InstancesOfOne
    <2>5. u.cluster = current
        BY <1>4, <2>3, <2>4 DEF OneCluster
    <2> QED BY <1>3, <1>4, <2>4, <2>5 DEF IndInv, KeysAreSeen
<1>5. Shrinks
    BY <1>2, <1>3, <1>4 DEF Remove, Shrinks
<1> QED BY <1>1, <1>5, SweptKept

(* Without trouble, what a loop decides on it removes, and no instance.      *)
LEMMA SweptVelero == ASSUME IndInv, Swept, cleanupUnusedVeleroS3Buckets PROVE Swept'
<1>1. /\ UNCHANGED <<pc, dryRun, rhmi, seen, listed, changed>>
    BY DEF cleanupUnusedVeleroS3Buckets, snapshot
<1>2. seen \subseteq Instances /\ TypeOK
    BY DEF IndInv, TypeOK
<1>3. PICK b \in s3Buckets :
          \/ UNCHANGED <<account, decided, trouble>>
          \/ /\ decided' = decided \union {b}
             /\ IF dryRun THEN UNCHANGED <<account, trouble>> ELSE removeS3Bucket(b)
    BY DEF cleanupUnusedVeleroS3Buckets, env
<1>4. b \in Buckets /\ b \notin Instances /\ b \in Resources
    BY <1>2, AccountAssumption, KindsAssumption DEF TypeOK, Resources
<1>5. /\ account' = account \/ account' = [r \in Resources |-> IF r = b THEN "gone" ELSE account[r]]
      /\ trouble => trouble'
      /\ \A r \in decided' \ decided : Quiet' => account'[r] # "live"
    <2>1. CASE UNCHANGED <<account, decided, trouble>>
        BY <2>1
    <2>2. CASE decided' = decided \union {b} /\ dryRun /\ UNCHANGED <<account, trouble>>
        BY <1>1, <2>2 DEF Quiet
    <2>3. CASE decided' = decided \union {b} /\ ~dryRun /\ removeS3Bucket(b)
        BY <1>4, <2>3 DEF removeS3Bucket, Remove, Quiet
    <2> QED BY <1>3, <2>1, <2>2, <2>3
<1>6. Shrinks
    BY <1>2, <1>4, <1>5 DEF Shrinks, Resources
<1> QED BY <1>1, <1>5, <1>6, SweptKept

LEMMA SweptVpcSweep == ASSUME IndInv, Swept, cleanupVpcs PROVE Swept'
<1>1. /\ UNCHANGED <<pc, dryRun, rhmi, seen, listed, changed>>
    BY DEF cleanupVpcs, snapshot
<1>2. seen \subseteq Instances /\ TypeOK
    BY DEF IndInv, TypeOK
<1>3. PICK v \in vpcs :
          \/ UNCHANGED <<account, decided, trouble>>
          \/ /\ decided' = decided \union {v}
             /\ IF dryRun THEN UNCHANGED <<account, trouble>> ELSE DeleteVpc(v)
    BY DEF cleanupVpcs
<1>4. v \in Vpcs /\ v \notin Instances /\ v \in Resources
    BY <1>2, KindsAssumption DEF TypeOK, Resources
<1>5. /\ account' = account \/ account' = [r \in Resources |-> IF r = v THEN "gone" ELSE account[r]]
      /\ trouble => trouble'
      /\ \A r \in decided' \ decided : Quiet' => account'[r] # "live"
    <2>1. CASE UNCHANGED <<account, decided, trouble>>
        BY <2>1
    <2>2. CASE decided' = decided \union {v} /\ dryRun /\ UNCHANGED <<account, trouble>>
        BY <1>1, <2>2 DEF Quiet
    <2>3. CASE decided' = decided \union {v} /\ ~dryRun /\ DeleteVpc(v)
        BY <1>4, <2>3 DEF DeleteVpc, Remove, Quiet
    <2> QED BY <1>3, <2>1, <2>2, <2>3
<1>6. Shrinks
    BY <1>2, <1>4, <1>5 DEF Shrinks, Resources
<1> QED BY <1>1, <1>5, <1>6, SweptKept

LEMMA SweptStep ==
    ASSUME InstancesOfOne PROVE IndInv /\ Swept /\ [Next]_vars => Swept'
<1> SUFFICES ASSUME IndInv, Swept, [Next]_vars PROVE Swept'
    OBVIOUS
<1>1. CASE RunAgain
    BY <1>1 DEF RunAgain, Start, Swept
<1>2. CASE Environment
    BY <1>2 DEF Environment, Swept, Quiet
<1>3. CASE ListingFails \/ RhmiTag \/ PollTimesOut \/ RhmiDone \/ BucketsDone \/ Finish \/ UNCHANGED vars
    <2>1. /\ UNCHANGED <<account, rhmi, seen, listed, dryRun, decided, changed, trouble>>
          /\ \/ pc' \in {pc, "failed"}
             \/ pc \in {"rhmi", "velero", "cleanvpcs"} /\ pc' \in {"poll", "velero", "cleanvpcs", "done"}
        BY <1>3 DEF ListingFails, RhmiTag, PollTimesOut, RhmiDone, BucketsDone, Finish,
                    env, snapshot, vars
    <2>2. Shrinks
        BY <2>1 DEF Shrinks
    <2> QED BY <2>1, <2>2, SweptKept
<1> QED BY <1>1, <1>2, <1>3, SweptEC2, SweptVpcs, SweptS3, SweptPoll, SweptVelero,
        SweptVpcSweep DEF Next, Step

(* At the end: a resource that another run would remove was listed under its *)
(* own tag, and either removed or kept for an instance that is there.        *)
LEMMA SweptClean == ASSUME IndInv, Swept PROVE NothingLeft
<1> SUFFICES ASSUME pc = "done", Quiet, NEW r \in Live, Again(r) PROVE FALSE
    BY DEF NothingLeft
<1>1. /\ TypeOK /\ Filed /\ KeysAreSeen /\ Progress /\ RhmiHandled /\ DecidedSoFar
      /\ ~dryRun /\ account[r] = "live" /\ todo = {} /\ s3Buckets = {} /\ vpcs = {}
    BY DEF IndInv, Progress, Quiet, Live
<1>2. ASSUME NEW t \in Recognised(r), t.cluster # NoTag,
             NEW i \in seen, NEW u \in Recognised(i), u.cluster = t.cluster
      PROVE  FALSE
    <2>1. account[i] = "live" /\ i \in Instances
        BY <1>1, <1>2 DEF Swept, TypeOK
    <2>2. i \in Live \intersect Instances
        BY <2>1 DEF Live, Resources
    <2> QED BY <1>2, <2>2 DEF Again
<1>3. r \in rhmi \union listed
    BY DEF Swept, Again, CleanableVpcs
<1>4. CASE r \in rhmi
    <2>1. tag[r] \in osd \ {NoTag}
        BY <1>1, <1>4 DEF RhmiHandled
    <2>2. PICK t \in TagsOf[r] : t = [label |-> "rhmi", cluster |-> tag[r]]
        BY <1>1, <1>4 DEF Filed
    <2>3. t \in Recognised(r) /\ t.cluster = tag[r]
        BY <2>2 DEF Recognised
    <2>4. PICK i \in seen : \E u \in Recognised(i) : u.cluster = tag[r]
        BY <1>1, <2>1 DEF KeysAreSeen
    <2> QED BY <1>2, <2>1, <2>3, <2>4
<1>5. CASE r \in listed /\ TagsOf[r] = {}
    <2>1. Recognised(r) = {}
        BY <1>5 DEF Recognised
    <2>2. r \in Untagged
        BY <1>5, <2>1 DEF Again, Untagged
    <2> QED BY <1>1, <2>2 DEF DecidedSoFar, Swept
<1>6. CASE r \in listed /\ TagsOf[r] # {}
    <2>1. OneTag(r) /\ \A t \in Recognised(r) : t.label # "rhmi"
        BY <1>6 DEF Again, Swept
    <2>2. /\ Recognised(r) # {} /\ \A t \in Recognised(r) : t.cluster # NoTag
          /\ r \in Vpcs \union VeleroBuckets
        BY <1>6, <2>1 DEF Again
    <2>3. PICK t \in Recognised(r) : t.cluster = tag[r]
        BY <1>1, <1>6, <2>2 DEF Filed
    <2>4. r \in Sweepable
        BY <1>6, <2>2, <2>3 DEF Sweepable
    <2>5. ~UsedBy(r, seen)
        BY <1>2, <2>2, <2>3 DEF UsedBy
    <2> QED BY <1>1, <2>4, <2>5 DEF DecidedSoFar, Swept
<1> QED BY <1>3, <1>4, <1>5, <1>6

(* After a run without failures in an account nobody else touched, a new run *)
(* finds nothing to remove among the resources with at most one tag: "Run    *)
(* the command without dry-run again to verify".                             *)
THEOREM NothingLeftCorrect == ASSUME InstancesOfOne PROVE Spec => []NothingLeft
<1>1. Init => Swept
    BY DEF Init, Swept
<1>2. IndInv /\ Swept /\ [Next]_vars => Swept'
    BY SweptStep
<1>3. Spec => []Swept
    BY <1>1, <1>2, IndInvInvariant, PTL DEF Spec
<1>4. IndInv /\ Swept => NothingLeft
    BY SweptClean
<1> QED BY <1>3, <1>4, IndInvInvariant, PTL
=============================================================================
