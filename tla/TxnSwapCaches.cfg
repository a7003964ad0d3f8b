SPECIFICATION Spec
CONSTANTS
    p1 = p1
    p2 = p2
    s1 = s1
    s2 = s2
    s3 = s3
    s4 = s4
    s5 = s5
    s6 = s6
    x = x
    y = y
    None = None
    Profiles = {p1, p2}
    Sources = {s1, s3, s5, s6}
    Caches = {x, y}
    CacheOf <- MCCacheOf
    Configs <- SwappedConfigs
    Edits <- AnyEdit
    Versions = {1}
    Faults = {"save"}
    MaxPublications = 2
INVARIANT LiveProfileTrusted
