SPECIFICATION Spec
CONSTANTS
    None = None
    AddonPackages <- MCAddonPackages
    Dirs = {"gcc", "clang"}
    Options = {"o1"}
    Addons = {"gdb"}
    Packages = {"ncurses", "p"}
    MaxCrashes = 2
    MustClean = TRUE
INVARIANT PackageIsWhole
INVARIANT UnpackedIsCached
INVARIANT PackagesPresent
