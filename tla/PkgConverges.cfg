SPECIFICATION FairSpec
CONSTANTS
    t1 = t1
    t2 = t2
    g1 = g1
    g2 = g2
    s1 = s1
    s2 = s2
    None = None
    Versions = {t1, g1, g2}
    Options = {"o1"}
    NeedPatch = {t1}
    WipeOut = TRUE
    MultiDirs = FALSE
    MayCrash = FALSE
    Kind <- MCKind
    Tree <- MCTree
INVARIANT NoHalfDownload
PROPERTY Converges
