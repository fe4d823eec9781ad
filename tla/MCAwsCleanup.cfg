CONSTANTS
    i1 = i1 i2 = i2 v1 = v1 v2 = v2 v0 = v0 vd = vd b1 = b1 b2 = b2 b3 = b3 c1 = c1 c2 = c2
    NoTag = NoTag
    Instances <- MCInstances
    Vpcs <- MCVpcs
    Buckets <- MCBuckets
    Clusters <- MCClusters
    TagsOf <- MCTagsOf
    DefaultVpcs <- MCDefaultVpcs
    LocalBuckets <- MCBuckets
    VeleroBuckets <- MCVeleroBuckets
    VpcOf <- MCVpcOf
    Live0 <- MCLive0
    Coming <- MCComing
    Going <- MCGoing
    Pages <- MCPages
    MaxPolls = 2
SPECIFICATION Spec
INVARIANTS OnlyOrphans DecidedBySnapshot RhmiFirst RecordIsTrue NothingLeft
PROPERTY Ends
