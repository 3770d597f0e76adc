SPECIFICATION FairSpec
CONSTANTS
    None = None
    AddonPackages <- MCAddonPackages
    Dirs = {"gcc"}
    Options = {"o1", "o2"}
    Addons = {"gdb"}
    Packages = {"ncurses"}
    MaxCrashes = 1
    MustClean = TRUE
INVARIANT PackagesPresent
PROPERTY Converges
