CONSTANTS
    r = r
    u1 = u1
    u2 = u2
    u3 = u3
    NoNs = NoNs
    NSIds <- MCNSIds
    Root = r
    IdBits = 3
    Creds = {0, 1}
    MaxLevel = 2
    ExtentLists <- EmptyThenSet
SPECIFICATION Spec
PROPERTY MappingSetOnce
