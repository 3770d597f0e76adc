# EmbToolkit, specified in TLA+

EmbToolkit builds a cross toolchain and a root filesystem for an embedded target. Its own
program is a set of GNU make macros (`src/core/`, some 2500 lines) that drive the build of
several hundred packages described in `src/packages/`; around it stand the configurator
(`src/scripts/kconfig`, from Linux) and small C programs (`makedevs`, `mkimage`, `unifdef`,
`fixdep`).

A build takes hours, so everything is about *not* doing work again: marker files, recorded
configurations, a cached toolchain tarball. All of it lies on the disk, shared by runs that
fail, are killed with ^C, are configured differently, and are followed by other runs. The
modules here say what those files promise after any such history; and, since all recipes compare
what the configurator wrote, what its values, menus and files promise too.

## 1. Inventory

| Component | State it keeps | Operations | Interacts with | What makes it correct |
|---|---|---|---|---|
| Package recipes `core/mk/pkg-macros/{install,download,clean,vars,configure}.mk` | downloads in `dl/`; source tree with `.embtk.decompressed`, `.embtk.patched`; state directory `.embtk-<pkg>` with `.embtk.installed`, `.embtk.kconfig`; files in the sysroot | `%_install`, `%_clean`, `%_download`, `%_decompress` | sysroot shared with all packages; dependencies by sub-make | a marker never lies about the tree; a skipped package is installed as configured; failure never blocks a later run |
| Toolchain and its cache `core/toolchain/{toolchain,core,addons,common}.mk` | per toolchain: tarball, decompressed marker, records of `toolchain` and `toolchain_addons`; one sysroot; markers of headers, addons and packages | `toolchain_install`, `toolchain_clean` | cleans up and replaces what the packages have installed | the tarball is a whole core; the sysroot is the one the markers and records describe |
| Top-level make `src/Makefile`, `core/mk/buildsystem.mk` | `.config` | `startbuild`, `clean`, `distclean`, `xconfig` | runs all the others | `clean` leaves no marker about what it removed |
| Inclusion and order `include.mk`, `packages.mk`, `vars.mk` | variables read at parse time: `__embtk_<pkg>_installed`, `_okconfigs`, `ROOTFS_COMPONENTS-y`/`-` | parsing, nested makes | recorded configurations of all packages | a package is built after its dependencies, and again when it or one of them changed; a disabled one goes away |
| Root filesystem `core/mk/rootfs/` | `generated/rootfs-*` and images | `rootfs_build` | cleans up and builds the packages, copies from the sysroot | the image is made of the selected packages, as configured |
| kconfig, symbols and expressions `symbol.c`, `expr.c`, `menu.c` | symbols with cached values and flags, the menu tree, rewritten conditions | set, calculate, finalize the tree, search for recursions | every front end works on the cached values | no rewriting changes a condition; a cached value is a computed one; selects hold; one value of a choice |
| kconfig, files `confdata.c`, `conf.c`, `basic/fixdep.c` | `.config`, `.config.old`, `.tmpconfig.<pid>`, `auto.conf`, `autoconf.h`, stamps in `include/config/` | read, write, `oldconfig`, `savedefconfig`, `randconfig`, `silentoldconfig` | `.config` is what all recipes compare | always a whole file; nothing lost in silence; what is loaded is what was saved; objects follow it |
| kconfig, front ends `mconf.c`, `nconf.c`, `gconf.c`, `qconf.cc` | the way through the menus; rows of the graphical ones; unsaved changes | keys and clicks, load, save, exit, SIGINT | all of the above | every entry can be reached; the rows are current; the exit asks |
| `makedevs` | the tree it works in | one line of a table at a time | run by the root filesystem | each line carried out or reported; series of nodes; a second run |
| `mkimage` | a boot image, written in place | header, sizes, files, header again | run by the root filesystem | what a boot loader accepts is whole |
| `unifdef` | the stack of `#if` states, comment state | one line at a time | headers | the output is the same program |
| libtool and pkg-config fixes, `help.mk`, package fragments | none of their own | - | - | - |

Hard behaviour: a recipe is a list of shell commands that stops at the first failure; make
expands a recipe *as a whole* before its first command, so that all its tests are made then,
while a `test -e` in a command is made when the command runs; a run can be killed anywhere; the
next run sees only files. There is no lock, no journal and no rollback. `PROJECT.json` lists the
hazards with their lines.

## 2. Plan

Modules in order, the most important first. "done" is what this directory holds.

| | Module | Composes / refines | Status |
|---|---|---|---|
| 1 | `PkgLedger`, `PkgBuild`, `MCPkgBuild`, `PkgBuild_proofs` | `PkgBuild` implements `PkgLedger` | done |
| 2 | `Toolchain`, `MCToolchain`, `Toolchain_proofs` | - | done |
| 3 | `BuildGraph`, `BuildGraph_proofs`: several packages, nested makes with a parse of their own, disabled packages, the image | takes a package as `PkgBuild` and `PkgLedger` show it to be | done |
| 4 | `Tristate`, `KconfigTerms`, `KconfigExpr`, `KconfigSymbol`, `KconfigMenu`, `KconfigDeps`, `KconfigDeps_proofs`: expressions, values, the tree | `KconfigMenu` hands databases to `KconfigSymbol` | done |
| 5 | `KconfigConf`, `KconfigViews`, `KconfigFiles`, `KconfigFiles_proofs`, `KbuildDeps`: the programs over them, their files, the objects that follow | `KconfigConf` and `KconfigViews` extend `KconfigSymbol` | done |
| 6 | `MakeDevs`, `MkImage`, `Unifdef`, each with its `_proofs` | `Unifdef` is measured by two preprocessors | done |
| 7 | `MCKconfigSymbol`, `MCPrograms`: instances | all of 3 to 6 | done |

Left, in this order: `make -j` of the top level, which would interleave `Toolchain` and the
stages of `BuildGraph`; two makes at once; `%_download` and `%_decompress` as goals of their
own; the host packages; proofs about whole expressions (their terms are done) and about
`KconfigSymbol`, which need their recursive operators turned into recursive functions first.

## 3. Modules

### PkgBuild: one package on the disk

One action per command of `make <pkg>_install` and `make <pkg>_clean`; operations of some length
(wget, tar, patch, make install, rm -rf) are two actions, so that a kill can come in between.
The names follow the macros: `Download*` is `embtk_download_pkg` (three kinds: tarball, git,
svn), `Decompress*` and `ApplyPatch*` are `embtk_decompress_pkg` and `__embtk_applypatch_pkg`,
`Make*` and `Install*` the compilation and `make install`, `SetInstalled`, `TruncateKconfig`,
`GenKconfig`, `Wipe*` are `__embtk_postinstall_pkg`, `Clean*` is `__embtk_cleanup_pkg`.
`Configure` is the user's edit; a make has read `.config` before its first command, hence
`Configure` only between runs. `Crash` is a kill at any command.

Data: a file is absent, partial or whole; a source tree has a body, the version it came from,
what patches made of it and its two markers; the package's part of the sysroot is the
configuration and the tree it was built from, and whether all of it is there. A version is a
value of the version symbols; everything else that `__embtk_pkg_kconfigs_all_v` compares is one
value of `Options`. `damaged` and `cut` are history variables, never read by a guard: they name
the accidents after which nothing is promised.

Two simplifications that a reader should know: tar always fails on a partial tarball and
succeeds on a whole one; a package fails to compile for a reason of its own (`MakeFail`) in any
state, and a tree that is not right may also compile, which is what the properties are about.

`PkgLedger` is the abstract specification: a record that is only ever written over a complete
installation of the configuration it names. `Ledger` in `PkgBuild` is the mapping.

### Toolchain: one sysroot, several toolchains, one cache

One action per command of `__embtk_toolchain_build` and of the macros it expands. `Start` makes
all the tests of the expansion and keeps them in `run`: whether core and addons are built,
whether the tarball is unpacked, and which markers were seen. `linux_headers` is the only
component of the core with a variable of its own: it has no configuration symbols (the name set
in `linux/headers.mk:33` is not used by `vars.mk:120`), so its marker alone decides, and the
recipe that sees the marker then removes it and skips the installation; `CoreHeaders` and
`CoreBuild` model that the C library fails then, and that the next run finds no marker. The
other components always depend on a cleanup that no test precedes, and are one step.
An addon's recipe first has the packages it depends on installed by a nested make
(`install.mk:167`; libelf for ltrace, ncurses for gdb): `AddonPackage`, with `AddonPackages` as
the dependencies, `MCAddonPackages` in `MCToolchain` those of the sources. They are packages of
the root filesystem, get its markers, and are packed with the toolchain.
`CleanupPackage`, `RmSysroot`, `Untar`, `SetDecompressed` are commands several parts of the
recipe share; `Go` says which command comes next. `Pack` is one step because of the `mv` at its
end. `PackageBuild` is what of `rootfs_build` matters to the sysroot. `Clean*` is `make clean`
in its order: decompressed marker, `build/`, sysroot.

`MustClean` states a condition of use: whoever changes to another *toolchain* runs `make clean`
first. Without it the marker kept beside the tarball of the first toolchain goes on saying
"unpacked" over the sysroot of the second. `PackageIsWhole` does not need it. `cleancut` is the
history "a make clean was killed before it removed the packages' markers", `lost` the packages
that were marked in a run which had marked the addons and then made no tarball: the next run
finds nothing to build, and unpacks the old tarball without them under their markers.

### BuildGraph: several packages, nested makes, the image

The state is `.config` (`wanted`: what is selected, and the options), the markers and recorded
configurations of all packages, the sysroot (for each package: its files, and the options of
itself and of its dependencies at the time it was compiled), and `makes`, the stack of running
makes. A make reads markers and records when it starts (`include_pkg`: `inst`, `ok`) and goes by
them until it ends, while the makes it starts for dependencies (`InstallPkg`, the first command
of a recipe) change what is on the disk. `rootfs_build` is the top one: `CleanupFiles` and
`CleanupState` for each package that is installed but no longer selected, `rootfs_mkinitpath`,
the packages, `components_install`, `fs_generate`. Since make expands a whole recipe before its
first command, the package's own flag is set in `InstallPkg`. `Stopped` is a command that fails
or a kill, at any moment.

A package itself is a few steps (dependencies, `MakeInstall`, marker, record): its inside is
`PkgBuild`. Only *direct* dependencies are promised, since only their symbols are recorded
(`vars.mk:123`). Two histories name what nothing is promised about: `cutoff`, a package of which
an installation or a cleanup was cut short, or that was built with such a one; and
`archive.lossy`, an image made after errors of the copying or of tar, which the code ignores.

### KconfigExpr, KconfigTerms, Tristate: conditions

A dependency is put through `expr_transform` and `expr_eliminate_dups`, which rest on
`expr_eliminate_eq`, `expr_extract_eq` and the joins of two terms, before it is ever evaluated.
`orig` is what was written, `expr` what is evaluated; `Conjoin`, `Disjoin`, `Negate` add a term
as the parser and `menu_finalize` do. The operators are the functions of `expr.c`, case by case;
the properties evaluate both expressions in every environment. Where the written one is m the
code may answer something else (see the observations), so `DefiniteValuesKept` speaks of y and
n. `KconfigTerms` has the terms, their values and the cases that rewrite one term or join two
(`OneSymOr`, `OneSymAnd`, `AsBool`, `NotTerm`, `NotN`, `Compared`); it has no recursive operator,
so that these cases can be proved right for any symbols.

### KconfigSymbol: values, choices, selects, the cache

`k` is the symbol table (user values, cached values, the flags VALID, WRITE, CHANGED as far as
anything depends on them), `db` the database, `file` the lines of `.config`. `sym_calc_value`
and what it calls are operators from table to table, since to *compute* a value changes the
cache and sometimes the user's value. `Look`, `Toggle`, `SetTristate`, `SetNumber`, `SetAll`
(allyes, allno, allmod, defconfig, randconfig), `Save`, `Load` are what a front end can call, in
any order (and `LookAll`, a whole screen). `Fresh(k)` is the table with an empty cache, computed
anew: the reference for `CacheIsRight`. `late` is the history "a user's value was taken and the
cached ones kept" (`symbol.c:511`, `:665`, `confdata.c:1067`); `TristateChoice` excludes
databases with a choice of tristates from two properties, because to compute such a choice can
forget its mode (`symbol.c:276`). Numbers with a range are the only values besides tristates;
strings are left out.

### KconfigMenu and KconfigDeps: the tree, recursions

`KconfigMenu` is `menu_finalize` with the parser's actions: conditions move down, an entry that
depends on the one above goes in its submenu, ifs dissolve. It yields the tree and the database
for `KconfigSymbol`. What a menu is "visible if" is one node in memory: `menu_add_prop` puts it in
the condition of everything asked in the menu (`menu.c:153`), and `menu_finalize` rewrites it in
place for each of these (`:306`). `Shared` is what that leaves of it, the same for all. Where the
simplification *frees* a node of it the others go on with freed memory; that is left out, by
`SourcesAssumption` of `KconfigViews`: in such a menu nothing is there to simplify
(`NothingIsFreed`). No Kconfig file of the repository uses "visible if". `KconfigDeps` is `sym_check_deps` with its flags and its stack, one step for
each call and each return, begun by `conf_parse` for every symbol. The order of the symbols is
that of a hash table and the order in an expression is the author's: both are free. It is
compared with the least sets closed under the relation (`From`), in which a choice and its values
are one.

### KconfigConf and KconfigViews: the programs over them

`KconfigConf` is `conf` in its modes oldconfig and oldaskconfig: the walk, the questions, any
accepted answer, another walk as long as something was new. `KconfigViews` is `mconf`, `nconf`,
`gconf` and `qconf` over a finalized tree: which entries each lists, which keys and clicks
change what (`Handlers`), and, for the graphical ones, which rows they correct afterwards by the
flags SYMBOL_CHANGED and MENU_CHANGED. Drawing is left out: a row is the entry with what its
columns are made from. `RowsAreCurrent` speaks of gconf's full view until `update_tree` has
returned early (`cut`), and of qconf's columns that are not kept (`Face`).

### KconfigFiles: sessions and files

`conf_read` and `conf_write` one file operation at a time: each symbol written (`WriteSymbol`),
`Close`, `Backup` (rename to `.old`), `Install` (rename of the temporary file), any of which may
be the last (`Killed`) or fail (`InstallFails`); mconf's handler of SIGINT (`sig_handler`);
loading, saving under another name, leaving, for each of the four programs with its own way to
ask; `MakeClean` and the recovery of `buildsystem.mk:60`. `hurt` names a failed operation or an
interrupted save, `slip` a load that failed after it had cleared the change count.

### KbuildDeps: objects that follow the configuration

`conf_write_autoconf` and `conf_split_config` (stamps first, then the two renames), `fixdep`,
and make, which compiles what is older than what it depends on and is external. `KillConf` and
`InterruptMake` may come between any two steps. Times are the relation `newer`. A word at the
very end of a file (`edge`) is the one `fixdep` cannot see; a make that is killed removes its
target; a power cut between compiler and `fixdep`, which would leave a new object beside its old
dependencies, is outside of the model.

### MakeDevs, MkImage, Unifdef

`MakeDevs`: one step per line of the table, with all file operations the line makes, as the
program ignores which of them failed; the arrays a short line leaves unset have any value
(`unset`). The loops of the code are written in closed form: `bb_make_directory` makes what is
missing on the way to a name (`DirsAbove` gives the way) up to the first thing that is no
directory, `NodesOf` all nodes of a series, which do not hinder each other. `MaxNumber` is 255
in the program. A second run goes over the tree the first one left. What a series asks for
(`Series`, `MinorIn`) is taken from the format as `devices_table.txt:12-16` and the usage text
give it, not from the loop: `CutOff` and `OutOfStep` name what the loop does not do of it.

`MkImage`: one step per write to the image, kills and repeated attempts, a data file that is
missing or changes between the size and the copy (`altered`); `Accepted` is what `-l` tests, as
a boot loader does, `FileAt` where a boot loader looks for a file by the table of sizes.

`Unifdef`: one step per line; the transition table is `trans_table`, and the state of each group
decides what becomes of the line. Conditions are built in levels (`Conds`), so that `eval` can
be a recursive function. `inp` and `outp` are preprocessors that read the input and the output
for one value of the unknown symbol; they are the reference for `SameProgram`. One line takes the
output away from what the program believes it to be: an `#elif` at the end of a comment that
becomes the `#if` of its group when the lines the comment starts in were dropped. It is printed
as "b */ #if X", which is no directive (`Mpass`, `unifdef.c:453`, `:465`; the comment at `:406`
says that such lines cannot be handled where dropping turns to printing). `torn` is the history
of it (`Tears`): `outp` is not followed any further then, and `SameProgram` and
`CommentsStayWhole` exempt the case.

## 4. Runs

| Run | Asks | Bounds |
|---|---|---|
| `pkg_tarball` | `MarkersAreRight`, `SkipIsSound`, `LedgerSpec` with workspaces wiped out | 2 tarballs, 1 patched; 2 options; kills unbounded; 1.35 M states |
| `pkg_checkout` | `MarkersAreRight`, `SkipIsSound`, `PatchedOnce` with several make directories | 2 git and 2 svn revisions; kills unbounded; 0.82 M states |
| `pkg_converges` | `NoHalfDownload`, `Converges` | 1 patched tarball, 2 git revisions, no kills; 2209 states |
| `pkg_skip`, `pkg_patch_mark`, `pkg_revision` | refute what comments and prompts say (findings) | smallest instance that shows it |
| `toolchain` | `PackageIsWhole`, `UnpackedIsCached`, `PackagesPresent` | 2 toolchains, 1 option, gdb with the ncurses it depends on, 1 more package, 2 kills; 1.66 M states |
| `toolchain_converges` | `Converges`; `PackagesPresent` when a core is rebuilt for an option | 1 toolchain, 2 options, 1 addon with 1 package it depends on, 1 kill; 0.14 M states |
| `toolchain_core`, `toolchain_addons` | refute what a comment says (findings) | 1 toolchain, 2 options, no kills |
| `programs` | 27 properties of the eleven parts below | 0.53 M states over all parts |
| `randconfig` | refutes what a comment says (finding) | five databases, one operation |

`programs` is a disjoint union: `part` is chosen in the initial state and only that part moves.
The parts share no file and no variable while they run (kconfig's values reach the recipes as
`wanted`, `config` and the like, chosen freely), so that one run for all of them loses nothing.

| Part | Properties | Bounds |
|---|---|---|
| graph | `DependenciesFirst`, `NothingLeftToDo`, `ImageIsSelected` | 3 packages, one above two that depend on each other; 4 selections with a change at each level; 3 makes, stopped anywhere |
| expr | `ExprValuesKept`, `ExprVisibilityKept` | up to 3 of 8 terms, negations; every environment |
| symbol | `SymCacheIsRight`, `SymSelectsHold`, `SymOneOfAChoice`, `SymFilesComeBack`, `SymUnchangedIsSaved`, `SymSetTakesEffect` | five databases (selects; tristates; a choice with a default, a condition and a number; a choice of tristates; nested choices); 2 operations that set |
| conf | `ConfAllAnswered`, `ConfQuestionsEnd`, `ConfAnswersKept` | the same databases, each with its files, all answers |
| views | `ViewsMenuAsWritten`, `ViewsEveryEntryIsShown`, `ViewsRowsAreCurrent` | four trees (submenus; menus, ifs and selects; a choice with a dependent value; an optional tristate choice) by four programs and their views |
| deps | `RecursionsAreFound` | 5 symbols, two of them values of a choice and one the choice; 72 graphs, any order |
| files | `AWholeFile`, `NothingIsLost` | 2 sessions of any of the programs, 2 saves, 1 failure or kill, 2 symbols |
| kbuild | `BuiltAsConfigured` | 2 symbols, 1 object of 2 files, 2 configurations, 1 edit, 1 kill |
| makedevs | `CarriedOutOrReported`, `AgainIsTheSame` | tables of up to 3 of 12 lines, among them series from 0 and from 1 with increments 1 and 2; 2 runs |
| mkimage | `AcceptedIsWhole` | up to 3 data files, one twice; contents empty, short, and beginning with the erased bytes `-x` leaves out; header of 4 bytes |
| unifdef | `SameProgram`, `OnlyDisorderIsRefused`, `CommentsStayWhole` | groups 3 deep; conditions of up to two operators over numbers, known, unknown, text and undefined symbols; one set of options (the theorems hold for any) |

Why the bounds are enough: the hazards of packages and toolchain are about at most two versions
that share a tree (or do not), a configuration and the one before it, two toolchains that share
a sysroot. Each occurs in a run. `MayCrash` does not count kills; `MaxCrashes` does, because a
toolchain that is killed for ever is never built (`Converges`): two kills suffice for "killed,
and the repair killed too". In `graph` three packages give a direct and a transitive dependency
and a diamond's two ways to `base`; the third make meets what the second made of the first one's
remains. In `expr` every case of `expr.c` that joins two terms has its pair among the eight, and
the third term makes a result go through the rules again. In `symbol` two sets are needed and
enough for "set one, look, set what it depends on". In `files` the second session meets what was
left of a save of the first that was killed or failed. A second package, addon or symbol would
only repeat what one does; the proofs, which hold for any number, confirm this for the safety
properties they cover.

What the passing runs show. *Markers*: whatever was failed, killed, retried, reconfigured or
cleaned before, a tree the next run compiles as it is, is complete and patched as configured,
except after the accidents that `crashdamages`, `ApplyPatchEnd` and `DownloadFail` list - the
list is complete, which is the point of the property. *Skip*: skipping a package is right unless
an installation or cleanup was cut short. *Ledger*: the record is written only over a complete
installation. *PatchedOnce*: an svn checkout, which goes through the patch step on every build,
is patched once. *PackageIsWhole*: nothing half-built or foreign gets in a
cached tarball, every addon in it has the packages it depends on, and of the root filesystem
there is nothing but such packages. (These do get in, and stay when their addon is deselected.)
*UnpackedIsCached*, *PackagesPresent*: decompressed marker and package markers agree with the
sysroot, except after the accidents `cleancut` and `lost`. *NoHalfDownload*: what fails of its own accord takes its partial file
away.

*Graph*: though each make decides by what it read when it started, no package is compiled before
its direct dependencies are as configured, a make that ends well leaves nothing to the next one,
and the image is what is selected. *Expr*: the rewriting changes no definite answer, and what is
printed of a condition means that condition. *Symbol*: whatever was looked at and set in
whatever order, cached values, selects and choices are right, and files come back as they were
saved, in full and in the minimal form. *Conf*: the questions end, all is answered, and no
answer is overwritten. *Views*: an entry is visible exactly when what is written says so, but
that a tristate in a menu whose "visible if" was rewritten for what is no tristate may be offered
as m where y is written; each program reaches every visible entry, and corrected rows are those
made anew. *Deps*: recursions
are found, at least one in each knot. *Files*: there is always a whole configuration, and
nothing is lost without a word. *Kbuild*: when make has nothing to do, every object is as
compiled from scratch. *Makedevs*: a line is carried out as the documentation of the table says or is
reported, and a table without errors may be run again. The first is not so of a series that
starts elsewhere than at 0: of start 1 and count 15 the documentation promises hda1 to hda15, the
program makes hda1 to hda14 and says nothing (`makedevs.c:491` against `:346-354` and
`devices_table.txt:12-16`); with another increment than 1 its minor numbers are wrong too. The
property asks for what is left of such a series. *Mkimage*: no accepted image is half of one. *Unifdef*: the output is the same
program until a comment is torn (`torn`, section 3), and only disorder is refused.

What the refuting runs show (findings of `PROJECT.json`):

- `pkg_skip`: build c1; configure c2, its `make install` fails half way; configure c1 again:
  make skips the package over a half overwritten sysroot.
- `pkg_patch_mark`: a patch file cut short is accepted, `patch` fails, the tree is marked.
- `pkg_revision`: the clone works, `git reset --hard` to the configured revision fails; the next
  run finds a checkout, builds the latest revision and records it as the configured one. (Once
  there is a checkout, another configured revision is built from it in the same way.)
- `toolchain_core`: a new core is recorded, an addon fails before the packing; the next run
  unpacks the old core and never builds the new one.
- `toolchain_addons`: an option of the core changes; the new tarball is packed without addons.
  (A consequence of building the addons only when *their* record changed. In `UnpackedIsCached`
  only the core is compared with the tarball, because a disabled addon may also stay in it,
  `addons.mk:56`.)
- `randconfig`: the value of a choice that lies within another one is drawn first and computes
  the outer choice; the outer one's draw does not clear that, and two of its values are y.

### Observations

Met while modelling; the models contain them as they are, most of them behind the histories and
exclusions named above.

- Packages: with a dependency of a dependency changed, the package is not rebuilt
  (`vars.mk:123`); a first installation that is cut short leaves files no cleanup knows of, in
  every later image; tar's failure is ignored (`fs.mk:34`). Where a package is listed before its
  dependency, which 21 pairs in `packages.mk` are, the dependency is built twice in one run.
- Toolchain: an addon's package keeps its marker when the run then fails to make the tarball, and
  the next run unpacks the old tarball without it (`lost`). What an addon that is deselected
  depended on stays in the tarball.
- Expressions and menus: the comment at `expr.c:484` misstates the result of its case, which the
  code has right. In a menu that is "visible if" a condition, all that is asked shares its node
  (`menu.c:153`): rewritten for a bool (`B!=n` to `B`), it limits a tristate to m where y is
  written; freed by a simplification, it is used afterwards.
- Recursions: one that goes through the *name* of a choice is not found, because
  `sym_check_choice_deps` takes the choice's own SYMBOL_CHECK away (`symbol.c:1170`) before it
  looks at the values. `MustBeFound` asks for all others; no Kconfig file here names a choice.
  `sym_check_deps` returns NULL where the recursion closes (`symbol.c:1221`), so `conf_parse`
  never counts one as an error.
- Values: only `conf_write` clears SYMBOL_WRITE of a choice's values (`symbol.c:322`); the mode
  of a tristate or optional choice that cannot be seen is forgotten (`symbol.c:276`); a set that
  changes nothing visible keeps the cache (`symbol.c:511`, `:665`); `expr.c:577` is wrong for m.
- Files: a failed load resets the change count (`confdata.c:407`); `fclose` is not checked
  (`confdata.c:813`); a save repeated after a failed rename writes an empty file; mconf's
  handler of SIGINT may run inside `conf_write` (`mconf.c:923`); gconf quits although the save
  at its exit failed; qconf's "save as" ignores the chosen name; `oldconfig` at the end of its
  input never ends on a number without a valid default.
- Rows: `update_tree` of gconf returns early (`gconf.c:1315`, `:1339`); the views "all" and
  "prompt" never compute symbols (`:1304`); the single view misses entries three deep (`:1416`);
  in the split view `update_tree` and `display_tree` are called before an entry is browsed
  (`:856`, `:1434`); "(NEW)" stays (`symbol.c:492`); qconf's value column is stale
  (`qconf.cc:163`).
- `makedevs` ends with status 0 after failures; a series that starts elsewhere than at 0 has
  fewer nodes than documented (`makedevs.c:491`), and wrong minor numbers unless the increment
  is 1; user and group of a short line are not initialized; a node that exists
  keeps its owner. `mkimage -x` with several files has a wrong table; a file may change between
  its size and its copy. `unifdef` prints the end of a comment whose start it dropped, at an
  `#elif` that becomes the first of its group (`unifdef.c:465`): the compiler sees no `#if`
  there, and an `#endif` too many.

## 5. Fairness

Safety properties assume none. `Converges` (in both modules) assumes that the user runs make
again when something is left to do (weak fairness of `Install`, `Start`), that a run that is not
killed goes on (`Recipe`), and that an operation that can fail does not fail every time (strong
fairness of the successful outcomes: download, compile, install, addon and its packages, pack, package). No
fairness is assumed of `Configure`, `Clean`, `Crash` or of a failure. The properties ask for
convergence only when the configuration stays the same and nobody cleans from some point on. In
`pkg_converges` runs are not killed, since a partial tarball left by a kill really blocks every
later run: `DecompressFail` stops and nothing removes the file.

The parts of `programs` state safety and action properties only; `QuestionsEnd` is stated as a
bound on the walks, since whether the user answers is not the program's to promise.

## 6. Proofs

Checked by TLAPS for every value of the constants that satisfies the assumption of the module
concerned. `PkgAssumption` says: a tarball unpacks in a tree of its own, versions that share a
checkout are of one kind and patched alike, git checkouts are never patched (no code path does).
`UnifdefAssumption` says that a condition of one level is made of those of lower levels, and
`ImageAssumption` that at least one data file is given, which the program demands. `SourcesAssumption` (of `KconfigViews`, about which nothing is proved) is explained in section 3.
The others only type the constants; `ToolchainAssumption`, `DepsAssumption` and `ImageAssumption` also keep
a value for "none" apart. In particular `GraphAssumption` allows any graph of dependencies,
cyclic ones included, and `DevAssumption` any table over any tree. Type correctness is part of
each inductive invariant and no property of a run.

`PkgBuild_proofs`: `IInv` = `TypeOK` + `SourceInv` + `ControlInv` + `SysrootInv`. The properties
speak of idle moments and are not inductive. `SourceInv` gives the shape of a tree nobody works
on (`Settled`) and the shapes it goes through while the recipe works on it (`Shape`), for trees
without an accident; `ControlInv` what the recipe has established when it reaches each command;
`SysrootInv` that what is about to be recorded, or is recorded and not behind, is what the
sysroot holds. Each part is preserved by every action (`TypeStep`, `ControlStep`, `SourceStep`,
`SysrootStep`); `Markers` and `Skip` follow. `Refinement` maps every step to a step of the
ledger or a stutter, for packages with one make directory (with several, the record may be
written over an incomplete installation, which `pkg_checkout` allows for). `Patched` is an
action property proved from the same invariant.

`Toolchain_proofs`: `IInv` = `TypeOK` + `RunInv` + `PackageIsWhole`. `RunInv` says that a run
that builds no core has a tarball to unpack, that all packages' markers are gone when the sysroot
is removed or a core built (`emptied`), and that from the end of the core to the packing the
sysroot is a core of the running toolchain that is `Complete`: each of its addons has the packages
it depends on, there is no other, and what is marked is there. Hence what is packed. For the
markers it is strengthened by `CacheInv`: `StepInv` (each marker is gone before what it speaks of
is touched), `MarksInv` (the marked packages, lost ones apart, are in the sysroot where it is said
to be unpacked, and otherwise in the tarball that will be, unless the recipe is going to clean
them up first) and `UnpackedInv` (only the configured toolchain is unpacked, and it is the cached
one). All for any dependencies of addons on packages. `Present` and `Unpacked`
follow; both need `MustClean` where the properties name it. `NoHalf` in `PkgBuild_proofs` has a
small invariant of its own, `HalfInv`.

`BuildGraph_proofs`: `GraphInv` = `GraphTypes` + `ReadsInv` + `NestInv` + `CleanInv` +
`SysrootInv`. The difficulty is that every make on the stack has its own, old picture of the
disk. `ReadsInv` says on which side it errs: a record that looks up to date is, and a goal that
looks installed is; hence a stale make builds too much and never too little. `NestInv` says that
of the packages a make was started for each is done, under way or to come, so that when a nested
make has no goals left the dependencies of the package below are up to date. `CleanInv` carries
this through the stages, `SysrootInv` relates markers and records to the files. Each is
preserved by each action; `DependenciesComeFirst`, `NothingIsLeft` and `ImageHasSelection`
follow, for any number of packages, makes and levels.

`KconfigFiles_proofs`: `FilesInv` = types + `AWholeFile` + `SaveIsWhole`, `CleanIsSaved`,
`EndIsSaved` while nothing is `hurt`. A save in progress has each symbol in the temporary file
or still to be written, and a session without changes has its configuration on the disk: that is
what makes the rename safe and the silent exit right, in any number of sessions.

The same module, of `KbuildDeps`: `DepsInv` = types + `ConfInv` + `TouchedInv` + `MadeInv` + `FixdepInv`.
The stamps and the two headers change one after the other, and conf or make may be killed
between any two. `TouchedInv` says that before `auto.conf` is renewed the stamp of every symbol
it will change is newer than every object; `MadeInv`, that an object was compiled from what there
is now but for what is newer than it; `FixdepInv`, that its command file names every file and
symbol it was made of. What is newer than no object can therefore not matter, which is
`UpToDateIsBuilt`, for any symbols, values, sources and words in them.

`KconfigDeps_proofs`: `DepInv` = types + `FlagsInv`, `CallsInv`, `HeldInv` (who called whom, and
which call will take each flag away) + `PathInv`, `ReturnInv` (what is on the stack, or is being
returned, is reached from below: so a message is about a recursion and the stack holds it) +
`SeenInv`, `StartInv`, `RankInv`. The last is the reason why none is missed: the symbols that are
finished without a message can be ranked so that each depends on lower ones, and a rank is found
for each symbol when its function returns. A knot of recursions without a message would have no
lowest member. It holds for any number of symbols and choices, any dependencies and any order.

The same module proves the cases of `KconfigTerms`, in which `expr.c` goes through pairs of terms
one by one. For any booleans, any tristates and every assignment: what `expr_join_or` and
`expr_join_and` put in the place of two leaves about one symbol has exactly their value, m included
(`OrJoinKeepsValue`, `AndJoinKeepsValue`), and so has a comparison of a boolean that becomes a
symbol, a negation that goes into a term, a comparison made of a term; `FOO!=n` taken for `FOO` is n when
it was (`TermsKeepValue`). They rest on `TermsAssumption`: a symbol has one type and the constants
have names of their own. What may change m is therefore not there but in the rules for whole
chains, like `expr.c:577`; `DefiniteThroughout` says that definite values survive AND, OR, NOT and
that rule. That they survive every expression is an induction over it, and stays with TLC
(`ExprValuesKept`).

`Unifdef_proofs` has three parts. First the evaluator: whatever `eval` answers for a condition is
what the preprocessor computes, for the symbols unifdef was told and any value of the unknown
one. Conditions have any depth; the proof takes the least level at which the claim fails. Second
`Agree`, a relation between the state of each open group (`ifstate`), the preprocessor that
reads the input and the one that reads the output: for instance "in `TRUE_PREFIX` the input takes
this branch if it takes what is around the group, and the output has no group". Of the output
it holds until it is `torn` (`Follow`); the input is followed to the end. Each of the transitions of `trans_table`
preserves it (`Shape`, then one lemma for each kind of directive). Third, the lines around a
directive: comments and what may not be edited. Together they are `UnifdefInv`, from which
`OutputIsSameProgram` (which includes that no `abort()` is reached), `DisorderOnlyIsRefused` and
`CommentsAreWhole` follow, for any nesting up to `MAXDEPTH`.

`MkImage_proofs`: `ImageInv` = types + `LastIsHeader` + `InTurn` + `SingleInv` + `MultiInv`. The
header gets its checksum in the last step only, so that an accepted image is a finished one;
`MultiInv` says what the body holds at each step: the sizes written so far, then the whole table
and the files so far, each from where the sum of the even sizes before it puts it (`Laid`).
`AcceptedImageIsWhole` needs besides that the boot loader, who reads the table back from the
image, computes the same places (`SizesFound`, `StartsFound`), for any number of files of any length.

`MakeDevs_proofs`: `DevInv` = types + `FirstRun` + `SecondRun`. `LineDone` is the strengthening
of "carried out", all that the code does of a line; as far as `CarriedOut` asks for it, that is
what the format says (`Series`, `MinorIn`). In short: what a line made stands, but for mode and owner where a later line has touched
the same path - a name with a number is a path of its own, and a later directory may be made on
the way. `Repeated` compares the second run with the first: the tree is as it was, except modes
and owners that a line still to come is going to set again. Once no line is to come nothing is
left of either exception, which gives `LinesAreCarriedOut` and `AgainLeavesTheSame`.

Only model-checked:

- `Converges` of both modules. It rests on fairness: neither ENABLED nor liveness under fairness
  is in this prover's reach.
- The properties of `KconfigExpr`, `KconfigSymbol`, `KconfigMenu`, `KconfigConf` and
  `KconfigViews` (`Expr*`, `Sym*`, `Conf*`, `Views*`). These modules follow recursive code over
  expressions, values and menus with RECURSIVE operators, which the prover does not admit. `Unifdef` had the same shape and was turned into a recursive
  function, because its recursion goes from a condition to its parts; most of kconfig's does not
  (`expr_transform` calls itself on what it has built, `sym_calc_value` on any other symbol).
- The six refuting runs are counterexamples and need no proof.

## 7. Not modelled

- Recipes: the text of configurations, URLs and messages; mirrors (their failure is
  `DownloadFail`, their success `DownloadEnd`); `%_download` and `%_decompress` as goals, which
  run a prefix of the install recipe; hooks of individual packages; libtool and pkg-config
  fixes; host packages, which are the same macros over another prefix; stripping and kernel
  modules in the root filesystem; `distclean`; two makes running at once, which nothing in the
  code prevents or expects; `make -j` of the top level (hazard at `rootfs.mk:192`). A clone that
  fails in `download.mk:91` works on the user's own directory, which no module has as state.
- kconfig: lexer and generated parser (trees are given as the parser leaves them); drawing,
  searching and help windows, `lxdialog`, the settings of qconf, message extraction; memory
  management and the hash table; strings and hexadecimal numbers as values; the KCONFIG_*
  environment.
- `fixdep`: names of user-mode Linux and `.ver` files. `mkimage`: the listing of `-l` beyond
  what it accepts, names of architectures and types, the arithmetic of the CRC. `unifdef`: `-c`,
  `-s`, `-b`, `-B`, `-n`, and the lexical analysis below the level of a line.
