------------------------------ MODULE MakeDevs ------------------------------
(***************************************************************************)
(* src/makedevs/makedevs.c: directories, files and device nodes of a root    *)
(* filesystem made as a device table says, one line at a time.  A line       *)
(* that cannot be carried out is reported and the next one follows; the      *)
(* program is run again over the tree it left.                               *)
(***************************************************************************)
EXTENDS Integers, Sequences, SequencesExt

CONSTANTS DirsAbove,  \* [name -> the directories on the way to it, from the top]
          MaxNumber,  \* the largest number a line may hold, 255 in the program
          Tables,     \* the device tables: sequences of lines
          Trees,      \* the trees before the first run
          Users       \* the users getpwnam knows

(* A line: [name, type, mode, user, major, minor, start, inc, count]; its    *)
(* type is one of Kinds or something else, "x", or "invalid", which sscanf   *)
(* or the limit rejects, or "comment".  The user "unset" is that of a line   *)
(* with fewer than four fields: the array is not set (and the numbers are    *)
(* 0).  Nobody has the name "nobody".                                        *)
Kinds == {"c", "b", "p", "d", "f"}
Runner == "root"
Owners == Users \cup {Runner, "nobody", "unset", "none"}
DevNumbers == 0..MaxNumber
TableLines == [name : DOMAIN DirsAbove, type : Kinds \cup {"x", "invalid", "comment"}, mode : Nat,
               user : Owners, major : DevNumbers, minor : DevNumbers, start : DevNumbers,
               inc : DevNumbers, count : DevNumbers]
DevPaths == {<<n>> : n \in DOMAIN DirsAbove} \cup {<<n, i>> : n \in DOMAIN DirsAbove, i \in 0..(MaxNumber - 1)}
DevNodes == [type : Kinds \cup {"none"}, mode : Nat, user : Owners, dev : Seq(Int)]
NoNode == [type |-> "none", mode |-> 0, user |-> "none", dev |-> << >>]
ASSUME DevAssumption ==
    /\ MaxNumber \in Nat
    /\ \A n \in DOMAIN DirsAbove : DirsAbove[n] \in Seq(DOMAIN DirsAbove)
    /\ \A t \in Tables : t \in Seq(TableLines)
    /\ \A t \in Trees : t \in [DevPaths -> DevNodes]

VARIABLES table, line,      \* the table, the number of the line to read
          tree,             \* [path -> node]
          report,           \* the lines a message was printed for
          run,              \* 1, 2
          once,             \* the tree and the report of the first run
          ended             \* "no", "done", "died"
devvars == <<table, line, tree, report, run, once, ended>>

DevInit == /\ table \in Tables /\ tree \in Trees
           /\ line = 1 /\ report = {} /\ run = 1 /\ once = << >> /\ ended = "no"

-----------------------------------------------------------------------------
Exists(t, p) == t[p].type # "none"
IsDir(t, n) == n = "/" \/ t[<<n>>].type = "d"
DirOf(n) == IF DirsAbove[n] = << >> THEN "/" ELSE DirsAbove[n][Len(DirsAbove[n])]
(* chown and chmod; a path that does not exist is an error.                  *)
chown(r, p, u) == IF Exists(r.tree, p) THEN [r EXCEPT !.tree[p].user = u] ELSE [r EXCEPT !.ok = FALSE]
chmod(r, p, m) == IF Exists(r.tree, p) THEN [r EXCEPT !.tree[p].mode = m] ELSE [r EXCEPT !.ok = FALSE]
Refuse(t) == [tree |-> t, ok |-> FALSE]

(* bb_make_directory with FILEUTILS_RECUR, the umask being 0: what is        *)
(* missing on the way is made with mode 0777, up to the first that exists    *)
(* and is no directory; a directory that exists stays.                       *)
Blocks_Exists(t, n) == Exists(t, <<n>>)
Blocks(t, n) == Exists(t, <<n>>) /\ t[<<n>>].type # "d"
Passable(t, way, k) == \A j \in 1..k : ~Blocks(t, way[j])
bb_make_directory(t, n, m) ==
    LET way == Append(DirsAbove[n], n)
        made == {<<way[k]>> : k \in {i \in 1..Len(way) : Passable(t, way, i)}}
    IN [tree |-> [p \in DevPaths |->
                    IF p \in made /\ ~Exists(t, p)
                    THEN [type |-> "d", mode |-> IF p = <<n>> THEN m ELSE 777, user |-> Runner, dev |-> << >>]
                    ELSE t[p]],
        ok |-> Passable(t, way, Len(way))]

(* mknod, and chown where it succeeded; chmod in any case.                   *)
Node(t, p, l, minor) ==
    IF Exists(t, p) THEN [t[p] EXCEPT !.mode = l.mode]
    ELSE IF ~IsDir(t, DirOf(l.name)) THEN t[p]
    ELSE [type |-> l.type, mode |-> l.mode, user |-> l.user, dev |-> <<l.major, minor>>]

(* name<start> .. name<count - 1>, or name itself.                           *)
NodeNumbers_Short(l) == l.start..(l.count - 2)
NodeNumbers(l) == l.start..(l.count - 1)
NodePaths(l) == IF l.count = 0 THEN {<<l.name>>} ELSE {<<l.name, i>> : i \in NodeNumbers(l)}
NodesOf(t, l) ==
    LET minor(p) == IF l.count = 0 THEN l.minor ELSE l.minor + (p[2] * l.inc - l.start)
    IN [tree |-> [p \in DevPaths |-> IF p \in NodePaths(l) THEN Node(t, p, l, minor(p)) ELSE t[p]],
        ok |-> \A p \in NodePaths(l) : ~Exists(t, p) /\ IsDir(t, DirOf(l.name))]

DirectoryOf(t, l) ==
    LET r1 == bb_make_directory(t, l.name, l.mode)
        r2 == chown(r1, <<l.name>>, l.user)
    IN IF Exists(r1.tree, <<l.name>>) THEN chmod(r2, <<l.name>>, l.mode) ELSE r2

FileOf(t, l) ==
    IF t[<<l.name>>].type # "f" THEN Refuse(t)
    ELSE chmod(chown([tree |-> t, ok |-> TRUE], <<l.name>>, l.user), <<l.name>>, l.mode)

(* What a line does, u being whom it names.                                  *)
Carry(t, l, u) ==
    LET q == [l EXCEPT !.user = u]
    IN CASE l.type = "comment" -> [tree |-> t, ok |-> TRUE]
         [] l.type = "d" -> DirectoryOf(t, q)
         [] l.type = "f" -> FileOf(t, q)
         [] l.type \in {"c", "b", "p"} -> NodesOf(t, q)
         [] OTHER -> Refuse(t)

(* get_ug_id: of a line that sets no user it is whatever the array holds:    *)
(* nobody (the one who runs it), a user, or a name that is none.             *)
Named(l) == IF l.user = "unset" THEN {Runner, "nobody"} \cup Users ELSE {l.user}

ReadLine ==
    /\ ended = "no" /\ line <= Len(table)
    /\ \E u \in IF table[line].type \in {"comment", "invalid"} THEN {Runner} ELSE Named(table[line]) :
         IF u \notin Users \cup {Runner}
         THEN ended' = "died" /\ report' = report \cup {line} /\ UNCHANGED <<tree, line>>
         ELSE LET r == Carry(tree, table[line], u)
              IN /\ tree' = r.tree /\ line' = line + 1
                 /\ report' = IF r.ok THEN report ELSE report \cup {line}
                 /\ UNCHANGED ended
    /\ UNCHANGED <<table, run, once>>

(* main returns 0, whatever was reported.                                    *)
Sync == /\ ended = "no" /\ line > Len(table) /\ ended' = "done"
        /\ once' = IF run = 1 THEN <<tree, report>> ELSE once
        /\ UNCHANGED <<table, line, tree, report, run>>

RunAgain == /\ ended = "done" /\ run = 1
            /\ run' = 2 /\ line' = 1 /\ report' = {} /\ ended' = "no"
            /\ UNCHANGED <<table, tree, once>>

DevNext == ReadLine \/ Sync \/ RunAgain
DevSpec == DevInit /\ [][DevNext]_devvars

-----------------------------------------------------------------------------
(* What line i asks for, whoever it may belong to where it does not say.  A  *)
(* series is "<start> <inc> <count>", as the usage and devices_table.txt     *)
(* have it: start 1 and count 15 is up to hda15, so count nodes, the first   *)
(* with the minor number given and each next one inc further.  The program   *)
(* departs from that where a series does not start at 0: it makes none from  *)
(* number count on, and its minor numbers are out of step unless inc is 1.   *)
Series(l) == l.start..(l.start + l.count - 1)
MinorIn(l, k) == l.minor + (k - l.start) * l.inc
CutOff(l) == {k \in Series(l) : l.start # 0 /\ k >= l.count}
OutOfStep(l) == l.start # 0 /\ l.inc # 1
OwnedBy(n, l) == l.user = "unset" \/ n.user = l.user
CarriedOut(i) ==
    LET l == table[i]
        made(p, minor) == /\ tree[p].type = l.type /\ tree[p].mode = l.mode /\ OwnedBy(tree[p], l)
                          /\ minor # << >> => tree[p].dev = <<l.major, minor[1]>>
    IN CASE l.type \in {"d", "f"} -> made(<<l.name>>, << >>)
         [] l.type \in {"c", "b", "p"} /\ l.count = 0 -> made(<<l.name>>, <<l.minor>>)
         [] l.type \in {"c", "b", "p"} /\ l.count # 0 ->
              \A k \in Series(l) \ CutOff(l) : made(<<l.name, k>>, IF OutOfStep(l) THEN << >> ELSE <<MinorIn(l, k)>>)
         [] OTHER -> TRUE

(* After the first run every line is carried out as documented, but for what *)
(* a series that starts elsewhere than at 0 lacks, unless a message names it *)
(* or a later line is about the same name.                                   *)
CarriedOutOrReported ==
    (ended = "done" /\ run = 1) =>
        \A i \in DOMAIN table :
            \/ i \in report \/ CarriedOut(i)
            \/ \E j \in DOMAIN table : j > i /\ table[j].name = table[i].name

(* A table that was carried out without a message leaves the same tree the   *)
(* second time; only mknod now fails, for the nodes that are there.          *)
AgainIsTheSame ==
    (ended = "done" /\ run = 2 /\ once[2] = {} /\ \A i \in DOMAIN table : table[i].user # "unset")
        => tree = once[1] /\ \A i \in report : table[i].type \in {"c", "b", "p"}
=============================================================================
