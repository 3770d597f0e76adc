SPECIFICATION Spec
CONSTANTS
    None = None
    AddonPackages <- MCAddonPackages
    Dirs = {"gcc"}
    Options = {"o1", "o2"}
    Addons = {"gdb"}
    Packages = {"ncurses", "p"}
    MaxCrashes = 0
    MustClean = TRUE
INVARIANT CoreIsConfigured
