SPECIFICATION Spec
CONSTANTS
    t1 = t1
    t2 = t2
    g1 = g1
    g2 = g2
    s1 = s1
    s2 = s2
    None = None
    Versions = {g1, g2, s1, s2}
    Options = {"o1"}
    NeedPatch = {s1, s2}
    WipeOut = FALSE
    MultiDirs = TRUE
    MayCrash = TRUE
    Kind <- MCKind
    Tree <- MCTree
INVARIANT MarkersAreRight
INVARIANT SkipIsSound
PROPERTY PatchedOnce
