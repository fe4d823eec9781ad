----------------------------- MODULE AwsCleanup -----------------------------
(* pipeline cleanup-aws: one run lists the instances, the VPCs and the       *)
(* buckets of a region, in that order, and then removes what belongs to no   *)
(* cluster it saw an instance of.  The account lives on between the calls:   *)
(* clusters come and go while the run works on what it listed.               *)
EXTENDS Naturals

CONSTANTS
    Instances, Vpcs, Buckets,  \* the ids of the resources
    Clusters,                  \* the cluster names found in tags
    NoTag,                     \* the empty cluster tag
    TagsOf,                    \* the tags of a resource, [label, cluster]
    DefaultVpcs,               \* the VPCs AWS marks as default
    LocalBuckets,              \* the buckets in the region of the run
    VeleroBuckets,             \* the buckets whose name holds managed-velero
    VpcOf,                     \* the VPC an instance runs in
    Live0,                     \* the resources there are at the beginning
    Coming,                    \* those that may appear later
    Going,                     \* those somebody else may remove
    Pages,                     \* pages of objects in a bucket
    MaxPolls                   \* polls of the cluster service before the timeout

Resources == Instances \union Vpcs \union Buckets
Tags == Clusters \union {NoTag}
Labels == {"osd", "rhmi", "velero", "other"}

ASSUME KindsAssumption ==
    /\ Instances \intersect (Vpcs \union Buckets) = {} /\ Vpcs \intersect Buckets = {}
    /\ NoTag \notin Clusters
ASSUME AccountAssumption ==
    /\ TagsOf \in [Resources -> SUBSET [label: Labels, cluster: Tags]]
    /\ DefaultVpcs \subseteq Vpcs
    /\ LocalBuckets \subseteq Buckets /\ VeleroBuckets \subseteq Buckets
    /\ VpcOf \in [Instances -> Vpcs]
    /\ Live0 \subseteq Resources /\ Coming \subseteq Resources /\ Going \subseteq Resources
    /\ Live0 \intersect Coming = {}
ASSUME BoundsAssumption ==
    /\ Pages \in [Buckets -> Nat]
    /\ MaxPolls \in Nat \ {0}

VARIABLES
    account,    \* "unborn", "live" or "gone", for every resource
    pages,      \* pages of objects a bucket still holds
    pc,         \* where the run is
    dryRun,     \* the flag
    tag,        \* the clusterTag the run gave to what it listed
    osd,        \* the keys of osdResources
    rhmi,       \* the resources in rhmiResources
    todo,       \* the keys of rhmiResources the loop has not reached
    current,    \* the tag cleanupWithClusterService works on
    polls,      \* how often it asked
    s3Buckets, vpcs,         \* the lists, without what the loops have passed
    deletedResources,        \* the command's own record
    \* history of this run
    seen,       \* the instances it listed
    listed,     \* the buckets and VPCs in its lists
    decided,    \* those it tried to delete, or would have
    removed,    \* what it removed from the account
    changed,    \* somebody else changed the account since the run began
    trouble     \* a call failed and the run went on

snapshot == <<tag, rhmi, seen, listed>>
env == <<account, pages>>
vars == <<account, pages, pc, dryRun, tag, osd, rhmi, todo, current, polls, s3Buckets,
          vpcs, deletedResources, seen, listed, decided, removed, changed, trouble>>

Live == {r \in Resources : account[r] = "live"}
Ended == {"done", "failed", "exited"}
Working == {"ec2", "vpcs", "s3", "rhmi", "poll", "velero", "cleanvpcs"}

(* The tags that extractClusterTag knows.  It ranges over a Go map and       *)
(* returns at the first that it meets: with several, any of them.            *)
Recognised(r) == {t \in TagsOf[r] : t.label # "other"}

extractClusterTag(r) ==
    IF Recognised(r) = {} THEN {[clusterTag |-> NoTag, hasRhmiTag |-> FALSE]}
    ELSE {[clusterTag |-> t.cluster, hasRhmiTag |-> t.label = "rhmi"] : t \in Recognised(r)}

Class == [clusterTag: Tags, hasRhmiTag: BOOLEAN]
Classified(rs) == {f \in [rs -> Class] : \A r \in rs : f[r] \in extractClusterTag(r)}

----------------------------------------------------------------------------
Start(dry) ==
    /\ pc' = "ec2" /\ dryRun' = dry
    /\ tag' = [r \in Resources |-> NoTag]
    /\ osd' = {} /\ rhmi' = {} /\ todo' = {} /\ current' = NoTag /\ polls' = 0
    /\ s3Buckets' = {} /\ vpcs' = {} /\ deletedResources' = {}
    /\ seen' = {} /\ listed' = {} /\ decided' = {} /\ removed' = {}
    /\ changed' = FALSE /\ trouble' = FALSE

Init ==
    /\ account = [r \in Resources |-> IF r \in Live0 THEN "live"
                                      ELSE IF r \in Coming THEN "unborn" ELSE "gone"]
    /\ pages = Pages
    /\ pc = "ec2" /\ dryRun \in BOOLEAN
    /\ tag = [r \in Resources |-> NoTag]
    /\ osd = {} /\ rhmi = {} /\ todo = {} /\ current = NoTag /\ polls = 0
    /\ s3Buckets = {} /\ vpcs = {} /\ deletedResources = {}
    /\ seen = {} /\ listed = {} /\ decided = {} /\ removed = {}
    /\ changed = FALSE /\ trouble = FALSE

(* The operator runs the command again, with or without --dry-run.           *)
RunAgain ==
    /\ pc \in Ended
    /\ \E dry \in BOOLEAN : Start(dry)
    /\ UNCHANGED env

(* A cluster is created or removed piece by piece by somebody else.          *)
Environment ==
    /\ \/ \E r \in Coming : /\ account[r] = "unborn"
                            /\ account' = [account EXCEPT ![r] = "live"]
       \/ \E r \in Going : /\ account[r] = "live"
                           /\ account' = [account EXCEPT ![r] = "gone"]
    /\ changed' = TRUE
    /\ UNCHANGED <<pages, pc, dryRun, tag, osd, rhmi, todo, current, polls, s3Buckets, vpcs,
                   deletedResources, seen, listed, decided, removed, trouble>>

(* A listing that fails ends the run.                                        *)
ListingFails ==
    /\ pc \in {"ec2", "vpcs", "s3"}
    /\ pc' = "failed"
    /\ UNCHANGED <<env, dryRun, snapshot, osd, todo, current, polls, s3Buckets, vpcs,
                   deletedResources, decided, removed, changed, trouble>>

fetchEC2Instances ==
    /\ pc = "ec2" /\ pc' = "vpcs"
    /\ seen' = Live \intersect Instances
    /\ \E f \in Classified(seen') : osd' = {f[i].clusterTag : i \in seen'} \ {NoTag}
    /\ UNCHANGED <<env, dryRun, tag, rhmi, todo, current, polls, s3Buckets, vpcs,
                   deletedResources, listed, decided, removed, changed, trouble>>

(* What a listing adds: rs are classified; those with an RHMI tag go to      *)
(* rhmiResources under their tag, the others to the list of their kind.      *)
Collect(f, rs) ==
    /\ tag' = [r \in Resources |-> IF r \in rs THEN f[r].clusterTag ELSE tag[r]]
    /\ rhmi' = rhmi \union {r \in rs : f[r].hasRhmiTag}
    /\ todo' = todo \union {f[r].clusterTag : r \in {s \in rs : f[s].hasRhmiTag}}
    /\ listed' = listed \union {r \in rs : ~f[r].hasRhmiTag}

CleanableVpcs == (Live \intersect Vpcs) \ DefaultVpcs

fetchVpcs ==
    /\ pc = "vpcs" /\ pc' = "s3"
    /\ \E f \in Classified(CleanableVpcs) :
           /\ Collect(f, CleanableVpcs)
           /\ vpcs' = {r \in CleanableVpcs : ~f[r].hasRhmiTag}
    /\ UNCHANGED <<env, dryRun, osd, current, polls, s3Buckets, deletedResources,
                   seen, decided, removed, changed, trouble>>

(* A bucket whose location or tags cannot be read is left out.               *)
fetchS3Buckets ==
    /\ pc = "s3" /\ pc' = "rhmi"
    /\ \E rs \in SUBSET (Live \intersect LocalBuckets) :
           /\ \E f \in Classified(rs) :
                  /\ Collect(f, rs)
                  /\ s3Buckets' = {r \in rs : ~f[r].hasRhmiTag}
           /\ trouble' = (trouble \/ rs # Live \intersect LocalBuckets)
    /\ UNCHANGED <<env, dryRun, osd, vpcs, current, polls, deletedResources,
                   seen, decided, removed, changed>>

----------------------------------------------------------------------------
(* The loop over rhmiResources.                                              *)
RhmiTag ==
    /\ pc = "rhmi"
    /\ \E t \in todo :
           /\ IF t \in osd \/ dryRun
              THEN pc' = pc /\ todo' = todo \ {t} /\ UNCHANGED <<current, polls>>
              ELSE pc' = "poll" /\ current' = t /\ polls' = 0 /\ UNCHANGED todo
    /\ UNCHANGED <<env, dryRun, snapshot, osd, s3Buckets, vpcs, deletedResources,
                   decided, removed, changed, trouble>>

\* Mutant of RhmiDone: the loops do not wait for the cluster service.
RhmiDoneEarly ==
    /\ pc = "rhmi"
    /\ pc' = "velero"
    /\ UNCHANGED <<env, dryRun, snapshot, osd, todo, current, polls, s3Buckets, vpcs,
                   deletedResources, decided, removed, changed, trouble>>

RhmiDone ==
    /\ pc = "rhmi" /\ todo = {}
    /\ pc' = "velero"
    /\ UNCHANGED <<env, dryRun, snapshot, osd, todo, current, polls, s3Buckets, vpcs,
                   deletedResources, decided, removed, changed, trouble>>

Of(t) == {r \in Resources : [label |-> "rhmi", cluster |-> t] \in TagsOf[r]}

Remove(rs) ==
    /\ account' = [r \in Resources |-> IF r \in rs THEN "gone" ELSE account[r]]
    /\ removed' = removed \union rs

\* Mutant of AllItemsComplete: a report counts as complete, whatever it says.
AnyReport(gone) == TRUE

AllItemsComplete(gone) == gone = Live \intersect Of(current)

(* One poll of cleanupWithClusterService.  The cluster service works on the  *)
(* account as it is, not on what the run listed; it may get any part of the  *)
(* work done, and the report is complete when nothing is left.  An error     *)
(* ends the process, after MaxPolls reports the wait times out.              *)
cleanupWithClusterService ==
    /\ pc = "poll" /\ polls < MaxPolls
    /\ \E gone \in SUBSET (Live \intersect Of(current)) :
           /\ Remove(gone)
           /\ \/ /\ AllItemsComplete(gone)
                 /\ pc' = "rhmi" /\ todo' = todo \ {current}
                 /\ deletedResources' = deletedResources \union {r \in rhmi : tag[r] = current}
              \/ /\ ~AllItemsComplete(gone)
                 /\ pc' = "poll" /\ UNCHANGED <<todo, deletedResources>>
              \/ pc' = "exited" /\ UNCHANGED <<todo, deletedResources>>
    /\ polls' = polls + 1
    /\ UNCHANGED <<pages, dryRun, snapshot, osd, current, s3Buckets, vpcs, decided,
                   changed, trouble>>

\* Mutant of PollTimesOut: the wait has no limit.
PollForever ==
    /\ pc = "poll" /\ polls = MaxPolls
    /\ polls' = 0
    /\ UNCHANGED <<env, pc, dryRun, snapshot, osd, todo, current, s3Buckets, vpcs,
                   deletedResources, decided, removed, changed, trouble>>

PollTimesOut ==
    /\ pc = "poll" /\ polls = MaxPolls
    /\ pc' = "failed"
    /\ UNCHANGED <<env, dryRun, snapshot, osd, todo, current, polls, s3Buckets, vpcs,
                   deletedResources, decided, removed, changed, trouble>>

----------------------------------------------------------------------------
\* Mutants of Unused: the clusters in use, or the empty tag, are forgotten.
UnusedAnyCluster(r) == tag[r] # NoTag
UnusedAnyTag(r) == tag[r] \notin osd

Unused(r) == tag[r] \notin osd /\ tag[r] # NoTag

(* removeS3Bucket lists one page of objects, deletes them and deletes the    *)
(* bucket, which S3 refuses as long as it holds objects.                     *)
removeS3Bucket(b) ==
    \/ /\ account[b] = "live" /\ pages[b] <= 1
       /\ pages' = [pages EXCEPT ![b] = 0]
       /\ Remove({b}) /\ deletedResources' = deletedResources \union {b}
       /\ UNCHANGED trouble
    \/ /\ pages' \in {pages} \union
                     (IF account[b] = "live" /\ pages[b] > 0
                      THEN {[pages EXCEPT ![b] = @ - 1]} ELSE {})
       /\ trouble' = TRUE
       /\ UNCHANGED <<account, removed, deletedResources>>

cleanupUnusedVeleroS3Buckets ==
    /\ pc = "velero"
    /\ \E b \in s3Buckets :
           /\ s3Buckets' = s3Buckets \ {b}
           /\ \/ /\ b \notin VeleroBuckets
                 /\ UNCHANGED <<env, osd, decided, removed, deletedResources, trouble>>
              \/ /\ b \in VeleroBuckets /\ Unused(b)
                 /\ decided' = decided \union {b}
                 /\ IF dryRun THEN UNCHANGED <<env, removed, deletedResources, trouble>>
                    ELSE removeS3Bucket(b)
                 /\ UNCHANGED osd
              \/ /\ b \in VeleroBuckets /\ ~Unused(b)
                 /\ osd' = osd \union {tag[b]}
                 /\ UNCHANGED <<env, decided, removed, deletedResources, trouble>>
    /\ UNCHANGED <<pc, dryRun, snapshot, todo, current, polls, vpcs, changed>>

BucketsDone ==
    /\ pc = "velero" /\ s3Buckets = {}
    /\ pc' = "cleanvpcs"
    /\ UNCHANGED <<env, dryRun, snapshot, osd, todo, current, polls, s3Buckets, vpcs,
                   deletedResources, decided, removed, changed, trouble>>

(* EC2 refuses to delete a VPC that instances run in.                        *)
DeleteVpc(v) ==
    \/ /\ account[v] = "live"
       /\ \A i \in Instances : VpcOf[i] = v => account[i] # "live"
       /\ Remove({v}) /\ deletedResources' = deletedResources \union {v}
       /\ UNCHANGED trouble
    \/ trouble' = TRUE /\ UNCHANGED <<account, removed, deletedResources>>

cleanupVpcs ==
    /\ pc = "cleanvpcs"
    /\ \E v \in vpcs :
           /\ vpcs' = vpcs \ {v}
           /\ \/ /\ Unused(v) \/ TagsOf[v] = {}
                 /\ decided' = decided \union {v}
                 /\ IF dryRun THEN UNCHANGED <<account, removed, deletedResources, trouble>>
                    ELSE DeleteVpc(v)
                 /\ UNCHANGED osd
              \/ /\ ~Unused(v) /\ TagsOf[v] # {}
                 /\ osd' = osd \union {tag[v]}
                 /\ UNCHANGED <<account, decided, removed, deletedResources, trouble>>
    /\ UNCHANGED <<pages, pc, dryRun, snapshot, todo, current, polls, s3Buckets, changed>>

Finish ==
    /\ pc = "cleanvpcs" /\ vpcs = {}
    /\ pc' = "done"
    /\ UNCHANGED <<env, dryRun, snapshot, osd, todo, current, polls, s3Buckets, vpcs,
                   deletedResources, decided, removed, changed, trouble>>

Step ==
    \/ ListingFails \/ fetchEC2Instances \/ fetchVpcs \/ fetchS3Buckets
    \/ RhmiTag \/ cleanupWithClusterService \/ PollTimesOut \/ RhmiDone
    \/ cleanupUnusedVeleroS3Buckets \/ BucketsDone \/ cleanupVpcs \/ Finish

Next == Step \/ RunAgain \/ Environment

(* Every loop of a run is over a list it has already, and the wait for the   *)
(* cluster service has a limit: a run in progress goes on.                   *)
Spec == Init /\ [][Next]_vars /\ WF_vars(Step)

----------------------------------------------------------------------------
TypeOK ==
    /\ account \in [Resources -> {"unborn", "live", "gone"}]
    /\ pages \in [Buckets -> Nat]
    /\ pc \in Working \union Ended
    /\ dryRun \in BOOLEAN /\ changed \in BOOLEAN /\ trouble \in BOOLEAN
    /\ tag \in [Resources -> Tags] /\ current \in Tags
    /\ osd \subseteq Tags /\ todo \subseteq Tags
    /\ polls \in 0..MaxPolls
    /\ rhmi \subseteq Resources /\ removed \subseteq Resources
    /\ s3Buckets \subseteq LocalBuckets /\ vpcs \subseteq Vpcs \ DefaultVpcs
    /\ deletedResources \subseteq Resources /\ seen \subseteq Instances
    /\ listed \subseteq Resources /\ decided \subseteq Resources

(* All the cluster tags of a resource name one cluster.                      *)
OneCluster(r) == \A t, u \in Recognised(r) : t.cluster = u.cluster

(* What a run removes belongs to no cluster that it saw an instance of: a    *)
(* removed resource whose tags name one cluster has no listed instance of    *)
(* that cluster.  It covers the removal by cluster tag, which goes by the    *)
(* account and not by the lists, and the removals by the two loops, which    *)
(* add keys of their own to osdResources.  An instance with tags of several  *)
(* clusters protects only the one the map order picks, and a resource with   *)
(* several is not protected: both are left out here.                         *)
OnlyOrphans ==
    \A r \in removed, i \in seen :
        OneCluster(r) /\ OneCluster(i) =>
            \A t \in Recognised(r), u \in Recognised(i) :
                t.cluster = u.cluster => t.cluster = NoTag

(* What becomes of a bucket or a VPC of the lists depends only on the        *)
(* listing: the keys that skipped buckets and VPCs add to osdResources on    *)
(* the way, the empty one among them, change no later decision, so neither   *)
(* the order of the lists nor the dry run makes a difference.                *)
Sweepable == {r \in listed : r \in VeleroBuckets \union Vpcs /\ tag[r] # NoTag}
Untagged == {r \in listed \intersect Vpcs : TagsOf[r] = {}}
UsedBy(r, is) == \E i \in is : \E t \in Recognised(i) : t.cluster = tag[r]
DecidedBySnapshot ==
    pc = "done" =>
        /\ {r \in Sweepable : ~UsedBy(r, seen)} \union Untagged \subseteq decided
        /\ decided \subseteq {r \in Sweepable : ~UsedBy(r, {i \in seen : OneCluster(i)})}
                              \union Untagged

(* A VPC or bucket is removed by the loops only when the cluster service is  *)
(* done with the RHMI resources of the same cluster that the run had listed. *)
RhmiFirst ==
    \A v \in removed \intersect listed, r \in rhmi :
        tag[r] = tag[v] /\ (\A t \in TagsOf[v] : t.label # "rhmi") => account[r] # "live"

(* What the command records as deleted is not in the account any more, and a *)
(* dry run neither removes nor records anything.                             *)
RecordIsTrue ==
    /\ \A r \in deletedResources : account[r] # "live"
    /\ dryRun => removed = {} /\ deletedResources = {}

(* "Run the command without dry-run again to verify that previously lister   *)
(* resources were deleted": after a run that met no failure, in an account   *)
(* nobody else touched, a new run finds nothing to remove among the          *)
(* resources with at most one cluster tag, where no instance names several   *)
(* clusters. (One that does keeps what belongs to one of them, is removed    *)
(* for another, and the next run finds what it kept.)                        *)
OneTag(r) == \A t, u \in Recognised(r) : t = u
Again(r) ==
    LET inUse == \E i \in Live \intersect Instances : \E t \in Recognised(r), u \in Recognised(i) :
                     t.cluster = u.cluster
        empty == \E t \in Recognised(r) : t.cluster = NoTag
        isRhmi == \E t \in Recognised(r) : t.label = "rhmi"
    IN  /\ OneTag(r)
        /\ r \in (Vpcs \ DefaultVpcs) \union LocalBuckets
        /\ ~inUse
        /\ \/ isRhmi
           \/ Recognised(r) # {} /\ ~empty /\ r \in Vpcs \union VeleroBuckets
           \/ r \in Vpcs /\ TagsOf[r] = {}
Quiet == ~dryRun /\ ~changed /\ ~trouble
NothingLeft == pc = "done" /\ Quiet => \A r \in Live : ~Again(r)

----------------------------------------------------------------------------
(* The inductive invariant.  The keys of osdResources are those of the       *)
(* listed instances and, from the loops on, the empty one.                   *)
KeysAreSeen ==
    /\ \A t \in osd : t # NoTag => \E i \in seen : \E u \in Recognised(i) : u.cluster = t
    /\ \A i \in seen : OneCluster(i) =>
           \A u \in Recognised(i) : u.cluster # NoTag => u.cluster \in osd
    /\ pc \in {"ec2", "vpcs", "s3", "rhmi", "poll"} => NoTag \notin osd

(* What is in the lists was there and is filed under one of its tags.        *)
Filed ==
    /\ \A r \in rhmi : [label |-> "rhmi", cluster |-> tag[r]] \in TagsOf[r]
    /\ \A r \in listed : \/ (Recognised(r) = {} /\ tag[r] = NoTag)
                          \/ \E t \in Recognised(r) : t.cluster = tag[r]
    /\ s3Buckets \subseteq listed /\ vpcs \subseteq listed
    /\ \A r \in rhmi \union listed \union removed \union deletedResources \union seen :
           account[r] # "unborn"

(* How far the run has come.                                                 *)
Progress ==
    /\ pc = "ec2" => seen = {} /\ osd = {}
    /\ pc \in {"ec2", "vpcs"} => rhmi = {} /\ todo = {} /\ listed = {} /\ vpcs = {}
    /\ pc \in {"ec2", "vpcs", "s3"} =>
           /\ removed = {} /\ decided = {} /\ deletedResources = {} /\ s3Buckets = {}
           /\ rhmi \union listed \subseteq Vpcs
    /\ pc = "poll" => current \notin osd /\ ~dryRun
    /\ pc \in {"velero", "cleanvpcs", "done"} => todo = {}
    /\ pc \in {"cleanvpcs", "done"} => s3Buckets = {}
    /\ pc = "done" => vpcs = {}

(* What the cluster service has to do, is doing or has done.                 *)
RhmiHandled ==
    dryRun \/ \A r \in rhmi : \/ tag[r] \in todo \union (osd \ {NoTag})
                              \/ account[r] # "live"

(* DecidedBySnapshot while the loops are at work.                            *)
DecidedSoFar ==
    /\ {r \in Sweepable : ~UsedBy(r, seen)} \union Untagged
           \subseteq decided \union s3Buckets \union vpcs
    /\ decided \subseteq {r \in Sweepable : ~UsedBy(r, {i \in seen : OneCluster(i)})}
                          \union Untagged

IndInv ==
    /\ TypeOK /\ KeysAreSeen /\ Filed /\ Progress /\ RhmiHandled /\ DecidedSoFar
    /\ OnlyOrphans /\ RhmiFirst /\ RecordIsTrue

(* The invariant behind NothingLeft.  What has one tag is filed as that tag  *)
(* says, and as long as nobody interferes and nothing fails, the instances   *)
(* that keep a key in osdResources are there, what was decided on is not,    *)
(* and what is there has been listed.                                        *)
Swept ==
    /\ \A r \in listed : OneTag(r) => \A t \in Recognised(r) : t.label # "rhmi"
    /\ Quiet =>
           /\ \A i \in seen : \A u \in Recognised(i) : u.cluster # NoTag => account[i] = "live"
           /\ \A r \in decided : account[r] # "live"
           /\ pc \in {"s3", "rhmi", "poll", "velero", "cleanvpcs", "done"} =>
                  CleanableVpcs \subseteq rhmi \union listed
           /\ pc \in {"rhmi", "poll", "velero", "cleanvpcs", "done"} =>
                  Live \intersect LocalBuckets \subseteq rhmi \union listed

(* Every run comes to an end, whatever the cluster service answers.          *)
Ends == (pc = "ec2") ~> (pc \in Ended)
=============================================================================
