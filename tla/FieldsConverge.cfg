CONSTANTS
    d1 = d1
    d2 = d2
    d3 = d3
    Devices = {d1, d2, d3}
    Editors = {d1, d2}
    Scalars = {"title"}
    Keys = {"key"}
    Elements = {}
    MaxStamps = 4
    MaxBlind = 1
SPECIFICATION FairSpec
INVARIANTS MergeCommutes MergeAbsorbs EditOutlivesDelete ShowsNewestEdit MembersExplained
PROPERTIES StaysRemoved Converges
CHECK_DEADLOCK FALSE
