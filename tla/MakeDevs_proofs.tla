--------------------------- MODULE MakeDevs_proofs ---------------------------
(***************************************************************************)
(* What makedevs makes of a device table, and makes again: for tables of   *)
(* any length, trees of any shape and any names, owners and numbers.       *)
(***************************************************************************)
EXTENDS MakeDevs, SequenceTheorems, TLAPS

-----------------------------------------------------------------------------
(* What a line is about, and what became of it *)

NodeTypes == {"c", "b", "p"}
Touched(l) == IF l.type \in {"d", "f"} THEN {<<l.name>>}
              ELSE IF l.type \in NodeTypes THEN NodePaths(l) ELSE {}
Way(n) == Append(DirsAbove[n], n)
WayIsThere(t, n) == \A k \in 1..Len(Way(n)) : t[<<Way(n)[k]>>].type = "d"

(* What no later line can change, and what one can.                        *)
Numbered(l, node, p) ==
    /\ l.count = 0 => node.dev = <<l.major, l.minor>>
    /\ l.count # 0 => node.dev = <<l.major, l.minor + (p[2] * l.inc - l.start)>>
Stands(t, l) ==
    /\ l.type \in {"comment", "d", "f"} \cup NodeTypes
    /\ \A p \in Touched(l) : t[p].type = l.type /\ (l.type \in NodeTypes => Numbered(l, t[p], p))
    /\ l.type = "d" => WayIsThere(t, l.name)
Belongs(node, l) == node.mode = l.mode /\ OwnedBy(node, l)

(* The lines before n: each was reported, or stands as it asks, but for    *)
(* the mode and the owner a later one gave.                                *)
LineDone(t, n, i) ==
    /\ Stands(t, table[i])
    /\ \A p \in Touched(table[i]) :
          Belongs(t[p], table[i]) \/ \E j \in (i + 1)..(n - 1) : p \in Touched(table[j])
LinesDone(t, n, rep) == \A i \in 1..(n - 1) : i \in rep \/ LineDone(t, n, i)

(* The second run: modes and owners are those of the first, except where a *)
(* line to come is going to set them.                                      *)
Repeated(t, n, was) ==
    \A p \in DevPaths :
       /\ t[p].type = was[p].type /\ t[p].dev = was[p].dev
       /\ t[p].mode = was[p].mode \/ \E j \in n..Len(table) : p \in Touched(table[j])
       /\ \/ t[p].user = was[p].user
          \/ \E j \in n..Len(table) : table[j].type \notin NodeTypes /\ p \in Touched(table[j])

DevTypes ==
    /\ table \in Tables /\ table \in Seq(TableLines) /\ line \in 1..(Len(table) + 1)
    /\ tree \in [DevPaths -> DevNodes] /\ run \in {1, 2} /\ ended \in {"no", "done", "died"}
    /\ report \subseteq 1..Len(table)
    /\ ended = "done" => line = Len(table) + 1
FirstRun ==
    /\ run = 1 => LinesDone(tree, line, report)
    /\ (run = 1 /\ ended = "done") => once[1] = tree /\ once[2] = report
SecondRun ==
    run = 2 =>
      /\ once[1] \in [DevPaths -> DevNodes] /\ LinesDone(once[1], Len(table) + 1, once[2])
      /\ (once[2] = {} /\ (\A i \in DOMAIN table : table[i].user # "unset") /\ ended # "died") =>
           Repeated(tree, line, once[1]) /\ \A i \in report : table[i].type \in NodeTypes
DevInv == DevTypes /\ FirstRun /\ SecondRun

-----------------------------------------------------------------------------
(* Paths, owners and modes *)

Results == [tree : [DevPaths -> DevNodes], ok : BOOLEAN]

LEMMA PathsOf ==
    ASSUME NEW l \in TableLines
    PROVE  /\ l.name \in DOMAIN DirsAbove /\ <<l.name>> \in DevPaths
           /\ NodePaths(l) \subseteq DevPaths /\ Touched(l) \subseteq DevPaths
           /\ l.count # 0 => \A p \in NodePaths(l) : p[2] \in Int
<1>1. l.name \in DOMAIN DirsAbove /\ l.start \in 0..MaxNumber /\ l.count \in 0..MaxNumber /\ MaxNumber \in Nat
  BY DevAssumption DEF TableLines, DevAssumption, DevNumbers
<1>2. <<l.name>> \in DevPaths
  BY <1>1 DEF DevPaths
<1>3. \A i \in NodeNumbers(l) : i \in 0..(MaxNumber - 1) /\ i \in Int
  BY <1>1 DEF NodeNumbers
<1>4. \A i \in NodeNumbers(l) : <<l.name, i>> \in DevPaths /\ <<l.name, i>>[2] \in Int
  BY <1>1, <1>3 DEF DevPaths
<1>5. NodePaths(l) \subseteq DevPaths /\ (l.count # 0 => \A p \in NodePaths(l) : p[2] \in Int)
  BY <1>2, <1>4 DEF NodePaths
<1>6. QED
  BY <1>1, <1>2, <1>5 DEF Touched

LEMMA Chown ==
    ASSUME NEW r \in Results, NEW p \in DevPaths, NEW u \in Owners
    PROVE  /\ chown(r, p, u) \in Results
           /\ \A x \in DevPaths : x # p => chown(r, p, u).tree[x] = r.tree[x]
           /\ chown(r, p, u).tree[p].type = r.tree[p].type /\ chown(r, p, u).tree[p].dev = r.tree[p].dev
           /\ chown(r, p, u).ok => r.ok /\ chown(r, p, u).tree[p].user = u
           /\ Exists(r.tree, p) => chown(r, p, u).ok = r.ok
<1>1. r.tree[p] \in DevNodes /\ r.tree \in [DevPaths -> DevNodes] /\ r.ok \in BOOLEAN
  BY DEF Results
<1>2. CASE Exists(r.tree, p)
  <2> DEFINE node == [r.tree[p] EXCEPT !.user = u]
             q == chown(r, p, u)
  <2>1. /\ node \in DevNodes /\ node.type = r.tree[p].type /\ node.dev = r.tree[p].dev /\ node.user = u
    BY <1>1 DEF DevNodes
  <2>2. q = [r EXCEPT !.tree = [r.tree EXCEPT ![p] = node]]
    BY <1>2 DEF chown
  <2> HIDE DEF node, q
  <2>3. q \in Results /\ q.tree = [r.tree EXCEPT ![p] = node] /\ q.ok = r.ok
    BY <1>1, <2>1, <2>2 DEF Results
  <2>4. q.tree[p] = node /\ \A x \in DevPaths : x # p => q.tree[x] = r.tree[x]
    BY <1>1, <2>3
  <2>5. QED
    BY <2>1, <2>3, <2>4 DEF q
<1>3. CASE ~Exists(r.tree, p)
  <2>1. chown(r, p, u) = [r EXCEPT !.ok = FALSE]
    BY <1>3 DEF chown
  <2>2. chown(r, p, u) \in Results /\ chown(r, p, u).tree = r.tree /\ chown(r, p, u).ok = FALSE
    BY <1>1, <2>1 DEF Results
  <2>3. QED
    BY <1>3, <2>2
<1>4. QED
  BY <1>2, <1>3

LEMMA Chmod ==
    ASSUME NEW r \in Results, NEW p \in DevPaths, NEW m \in Nat
    PROVE  /\ chmod(r, p, m) \in Results
           /\ \A x \in DevPaths : x # p => chmod(r, p, m).tree[x] = r.tree[x]
           /\ chmod(r, p, m).tree[p].type = r.tree[p].type /\ chmod(r, p, m).tree[p].dev = r.tree[p].dev
           /\ chmod(r, p, m).tree[p].user = r.tree[p].user
           /\ chmod(r, p, m).ok => r.ok /\ chmod(r, p, m).tree[p].mode = m
           /\ Exists(r.tree, p) => chmod(r, p, m).ok = r.ok
<1>1. r.tree[p] \in DevNodes /\ r.tree \in [DevPaths -> DevNodes] /\ r.ok \in BOOLEAN
  BY DEF Results
<1>2. CASE Exists(r.tree, p)
  <2> DEFINE node == [r.tree[p] EXCEPT !.mode = m]
             q == chmod(r, p, m)
  <2>1. /\ node \in DevNodes /\ node.type = r.tree[p].type /\ node.dev = r.tree[p].dev
        /\ node.user = r.tree[p].user /\ node.mode = m
    BY <1>1 DEF DevNodes
  <2>2. q = [r EXCEPT !.tree = [r.tree EXCEPT ![p] = node]]
    BY <1>2 DEF chmod
  <2> HIDE DEF node, q
  <2>3. q \in Results /\ q.tree = [r.tree EXCEPT ![p] = node] /\ q.ok = r.ok
    BY <1>1, <2>1, <2>2 DEF Results
  <2>4. q.tree[p] = node /\ \A x \in DevPaths : x # p => q.tree[x] = r.tree[x]
    BY <1>1, <2>3
  <2>5. QED
    BY <2>1, <2>3, <2>4 DEF q
<1>3. CASE ~Exists(r.tree, p)
  <2>1. chmod(r, p, m) = [r EXCEPT !.ok = FALSE]
    BY <1>3 DEF chmod
  <2>2. chmod(r, p, m) \in Results /\ chmod(r, p, m).tree = r.tree /\ chmod(r, p, m).ok = FALSE
    BY <1>1, <2>1 DEF Results
  <2>3. QED
    BY <1>3, <2>2
<1>4. QED
  BY <1>2, <1>3

-----------------------------------------------------------------------------
(* One line *)

(* What a line does to a tree that may hold anything: what exists keeps    *)
(* its kind, what the line is not about stays as it is, and what is not    *)
(* reported stands.                                                        *)
Carried(t, l, r) ==
    /\ r \in Results
    /\ \A p \in DevPaths : Exists(t, p) => r.tree[p].type = t[p].type /\ r.tree[p].dev = t[p].dev
    /\ \A p \in DevPaths : Exists(t, p) /\ p \notin Touched(l) => r.tree[p] = t[p]
    /\ r.ok => Stands(r.tree, l) /\ \A p \in Touched(l) : r.tree[p].mode = l.mode /\ r.tree[p].user = l.user
(* What it does to one where it has been carried out before.               *)
CarriedAgain(t, l, r) ==
    /\ \A p \in DevPaths : r.tree[p].type = t[p].type /\ r.tree[p].dev = t[p].dev
    /\ \A p \in DevPaths : p \notin Touched(l) => r.tree[p] = t[p]
    /\ \A p \in Touched(l) : r.tree[p].mode = l.mode
    /\ \A p \in Touched(l) : r.tree[p].user = IF l.type \in NodeTypes THEN t[p].user ELSE l.user
    /\ r.ok \/ l.type \in NodeTypes

LEMMA MakeDirectory ==
    ASSUME NEW t \in [DevPaths -> DevNodes], NEW n \in DOMAIN DirsAbove, NEW m \in Nat
    PROVE  LET r == bb_make_directory(t, n, m)
           IN /\ r \in Results
              /\ \A p \in DevPaths : Exists(t, p) => r.tree[p] = t[p]
              /\ r.ok => WayIsThere(r.tree, n) /\ r.tree[<<n>>].type = "d"
              /\ WayIsThere(t, n) => r.ok /\ r.tree = t /\ t[<<n>>].type = "d"
<1> DEFINE way == Way(n)
           made == {<<way[k]>> : k \in {i \in 1..Len(way) : Passable(t, way, i)}}
           dir(p) == [type |-> "d", mode |-> IF p = <<n>> THEN m ELSE 777, user |-> Runner, dev |-> << >>]
           r == bb_make_directory(t, n, m)
<1>1. /\ way \in Seq(DOMAIN DirsAbove) /\ Len(way) \in Nat \ {0} /\ way[Len(way)] = n
  <2>1. DirsAbove[n] \in Seq(DOMAIN DirsAbove)
    BY DevAssumption DEF DevAssumption
  <2>2. QED
    BY <2>1 DEF Way
<1>2. /\ r.tree = [p \in DevPaths |-> IF p \in made /\ ~Exists(t, p) THEN dir(p) ELSE t[p]]
      /\ r.ok = Passable(t, way, Len(way))
      /\ r = [tree |-> r.tree, ok |-> r.ok]
  BY DEF bb_make_directory, Way
<1>3. \A p \in DevPaths : dir(p) \in DevNodes /\ dir(p).type = "d"
  <2>1. Runner \in Owners /\ "d" \in Kinds
    BY DEF Owners, Kinds
  <2>2. << >> \in Seq(Int)
    OBVIOUS
  <2>3. 777 \in Nat
    OBVIOUS
  <2>4. QED
    BY <2>1, <2>2, <2>3 DEF DevNodes
<1> HIDE DEF way, made, dir, r
<1>4. r.tree \in [DevPaths -> DevNodes] /\ r.ok \in BOOLEAN
  <2>1. \A p \in DevPaths : t[p] \in DevNodes
    OBVIOUS
  <2>2. r.tree \in [DevPaths -> DevNodes]
    BY <1>2, <1>3, <2>1
  <2>3. Passable(t, way, Len(way)) \in BOOLEAN
    BY DEF Passable
  <2>4. QED
    BY <1>2, <2>2, <2>3
<1>5. r \in Results
  BY <1>2, <1>4 DEF Results
<1>6. \A k \in 1..Len(way) : <<way[k]>> \in DevPaths
  BY <1>1 DEF DevPaths
<1>7. ASSUME r.ok PROVE WayIsThere(r.tree, n) /\ r.tree[<<n>>].type = "d"
  <2>1. ASSUME NEW k \in 1..Len(way) PROVE r.tree[<<way[k]>>].type = "d"
    <3>1. Passable(t, way, k) /\ ~Blocks(t, way[k])
      BY <1>1, <1>2, <1>7 DEF Passable
    <3>2. <<way[k]>> \in made
      BY <3>1 DEF made
    <3>3. CASE Exists(t, <<way[k]>>)
      BY <1>2, <1>6, <3>1, <3>3 DEF Blocks
    <3>4. CASE ~Exists(t, <<way[k]>>)
      BY <1>2, <1>3, <1>6, <3>2, <3>4
    <3>5. QED
      BY <3>3, <3>4
  <2>2. Len(way) \in 1..Len(way) /\ r.tree[<<n>>].type = "d"
    BY <1>1, <2>1
  <2>3. WayIsThere(r.tree, n)
    BY <2>1 DEF WayIsThere, way
  <2>4. QED
    BY <2>2, <2>3
<1>8. ASSUME WayIsThere(t, n) PROVE r.ok /\ r.tree = t /\ t[<<n>>].type = "d"
  <2>1. \A k \in 1..Len(way) : t[<<way[k]>>].type = "d"
    BY <1>8 DEF WayIsThere, way
  <2>2. Passable(t, way, Len(way))
    BY <2>1 DEF Passable, Blocks
  <2>3. \A p \in made : Exists(t, p)
    BY <2>1 DEF made, Exists
  <2>4. r.tree = [p \in DevPaths |-> t[p]]
    BY <1>2, <2>3
  <2>5. QED
    BY <1>1, <1>2, <2>1, <2>2, <2>4
<1>9. \A p \in DevPaths : Exists(t, p) => r.tree[p] = t[p]
  BY <1>2
<1>10. QED
  BY <1>5, <1>7, <1>8, <1>9 DEF r

LEMMA DirectoryLine ==
    ASSUME NEW t \in [DevPaths -> DevNodes], NEW l \in TableLines, l.type = "d"
    PROVE  /\ Carried(t, l, DirectoryOf(t, l))
           /\ Stands(t, l) => CarriedAgain(t, l, DirectoryOf(t, l))
<1> DEFINE p == <<l.name>>
           r1 == bb_make_directory(t, l.name, l.mode)
           r2 == chown(r1, p, l.user)
           r == DirectoryOf(t, l)
<1>1. /\ l.name \in DOMAIN DirsAbove /\ p \in DevPaths /\ l.mode \in Nat /\ l.user \in Owners
      /\ Touched(l) = {p} /\ l.type \notin NodeTypes
  BY PathsOf DEF TableLines, Touched, NodeTypes
<1>2. /\ r1 \in Results /\ \A x \in DevPaths : Exists(t, x) => r1.tree[x] = t[x]
      /\ r1.ok => WayIsThere(r1.tree, l.name) /\ r1.tree[p].type = "d"
      /\ WayIsThere(t, l.name) => r1.ok /\ r1.tree = t /\ t[p].type = "d"
  BY <1>1, MakeDirectory
<1>3. r = IF Exists(r1.tree, p) THEN chmod(r2, p, l.mode) ELSE r2
  BY DEF DirectoryOf
<1> HIDE DEF p, r1, r2, r
<1>4. /\ r2 \in Results /\ \A x \in DevPaths : x # p => r2.tree[x] = r1.tree[x]
      /\ r2.tree[p].type = r1.tree[p].type /\ r2.tree[p].dev = r1.tree[p].dev
      /\ r2.ok => r1.ok /\ r2.tree[p].user = l.user
      /\ Exists(r1.tree, p) => r2.ok = r1.ok
  BY <1>1, <1>2, Chown DEF r2
<1> DEFINE r3 == chmod(r2, p, l.mode)
<1>5. /\ r3 \in Results /\ \A x \in DevPaths : x # p => r3.tree[x] = r2.tree[x]
      /\ r3.tree[p].type = r2.tree[p].type /\ r3.tree[p].dev = r2.tree[p].dev
      /\ r3.tree[p].user = r2.tree[p].user
      /\ r3.ok => r2.ok /\ r3.tree[p].mode = l.mode
      /\ Exists(r2.tree, p) => r3.ok = r2.ok
  BY <1>1, <1>4, Chmod
<1> HIDE DEF r3
<1>6. /\ r \in Results /\ \A x \in DevPaths : x # p => r.tree[x] = r1.tree[x]
      /\ r.tree[p].type = r1.tree[p].type /\ r.tree[p].dev = r1.tree[p].dev
      /\ r.ok => r1.ok \/ ~Exists(r1.tree, p)
      /\ Exists(r1.tree, p) => r.ok = r1.ok
      /\ (r.ok /\ Exists(r1.tree, p)) => r.tree[p].user = l.user /\ r.tree[p].mode = l.mode
      /\ r.ok => r1.ok
  <2>1. CASE Exists(r1.tree, p)
    <3>1. Exists(r2.tree, p) /\ r = r3
      BY <1>3, <1>4, <2>1 DEF Exists, r3
    <3>2. QED
      BY <1>4, <1>5, <2>1, <3>1
  <2>2. CASE ~Exists(r1.tree, p)
    <3>1. r = r2
      BY <1>3, <2>2
    <3>2. QED
      BY <1>4, <2>2, <3>1
  <2>3. QED
    BY <2>1, <2>2
<1>7. \A x \in DevPaths : r.tree[x].type = r1.tree[x].type /\ r.tree[x].dev = r1.tree[x].dev
  <2>1. ASSUME NEW x \in DevPaths
        PROVE  r.tree[x].type = r1.tree[x].type /\ r.tree[x].dev = r1.tree[x].dev
    <3>1. CASE x = p
      BY <1>6, <3>1
    <3>2. CASE x # p
      BY <1>6, <3>2
    <3>3. QED
      BY <3>1, <3>2
  <2>2. QED
    BY <2>1
<1>8. Carried(t, l, r)
  <2>1. \A x \in DevPaths : Exists(t, x) => r.tree[x].type = t[x].type /\ r.tree[x].dev = t[x].dev
    BY <1>2, <1>7
  <2>2. \A x \in DevPaths : Exists(t, x) /\ x # p => r.tree[x] = t[x]
    BY <1>2, <1>6
  <2>3. ASSUME r.ok
        PROVE  Stands(r.tree, l) /\ r.tree[p].mode = l.mode /\ r.tree[p].user = l.user
    <3>1. WayIsThere(r1.tree, l.name) /\ r1.tree[p].type = "d"
      BY <1>2, <1>6, <2>3
    <3>2. \A k \in 1..Len(Way(l.name)) : <<Way(l.name)[k]>> \in DevPaths
      <4>1. DirsAbove[l.name] \in Seq(DOMAIN DirsAbove)
        BY <1>1, DevAssumption DEF DevAssumption
      <4>2. Way(l.name) \in Seq(DOMAIN DirsAbove)
        BY <1>1, <4>1 DEF Way
      <4>3. \A k \in 1..Len(Way(l.name)) : Way(l.name)[k] \in DOMAIN DirsAbove
        BY <4>2
      <4>4. QED
        BY <4>3 DEF DevPaths
    <3>3. WayIsThere(r.tree, l.name)
      BY <1>7, <3>1, <3>2 DEF WayIsThere
    <3>4. r.tree[p].type = "d" /\ Exists(r1.tree, p)
      BY <1>6, <3>1 DEF Exists
    <3>5. QED
      BY <1>1, <1>6, <2>3, <3>3, <3>4 DEF Stands
  <2>4. QED
    BY <1>1, <1>6, <2>1, <2>2, <2>3 DEF Carried
<1>9. ASSUME Stands(t, l) PROVE CarriedAgain(t, l, r)
  <2>1. r1.ok /\ r1.tree = t /\ t[p].type = "d"
    BY <1>2, <1>9 DEF Stands
  <2>2. Exists(r1.tree, p) /\ r.ok
    BY <1>6, <2>1 DEF Exists
  <2>3. QED
    BY <1>1, <1>6, <1>7, <2>1, <2>2 DEF CarriedAgain
<1>10. QED
  BY <1>8, <1>9 DEF r

LEMMA FileLine ==
    ASSUME NEW t \in [DevPaths -> DevNodes], NEW l \in TableLines, l.type = "f"
    PROVE  /\ Carried(t, l, FileOf(t, l))
           /\ Stands(t, l) => CarriedAgain(t, l, FileOf(t, l))
<1> DEFINE p == <<l.name>>
           r1 == [tree |-> t, ok |-> TRUE]
           r2 == chown(r1, p, l.user)
           r3 == chmod(r2, p, l.mode)
           r == FileOf(t, l)
<1>1. p \in DevPaths /\ l.mode \in Nat /\ l.user \in Owners /\ Touched(l) = {p} /\ l.type \notin NodeTypes
  BY PathsOf DEF TableLines, Touched, NodeTypes
<1>2. r1 \in Results /\ r1.tree = t /\ r1.ok = TRUE
  BY DEF Results
<1>3. r = IF t[p].type # "f" THEN Refuse(t) ELSE r3
  BY DEF FileOf
<1> HIDE DEF p, r1
<1>4. /\ r2 \in Results /\ \A x \in DevPaths : x # p => r2.tree[x] = t[x]
      /\ r2.tree[p].type = t[p].type /\ r2.tree[p].dev = t[p].dev
      /\ r2.ok => r2.tree[p].user = l.user
      /\ Exists(t, p) => r2.ok = TRUE
  BY <1>1, <1>2, Chown
<1> HIDE DEF r2
<1>5. /\ r3 \in Results /\ \A x \in DevPaths : x # p => r3.tree[x] = r2.tree[x]
      /\ r3.tree[p].type = r2.tree[p].type /\ r3.tree[p].dev = r2.tree[p].dev
      /\ r3.tree[p].user = r2.tree[p].user
      /\ r3.ok => r2.ok /\ r3.tree[p].mode = l.mode
      /\ Exists(r2.tree, p) => r3.ok = r2.ok
  BY <1>1, <1>4, Chmod
<1> HIDE DEF r3, r
<1>6. CASE t[p].type = "f"
  <2>1. r = r3 /\ Exists(t, p) /\ Exists(r2.tree, p)
    BY <1>3, <1>4, <1>6 DEF Exists
  <2>2. r.ok = TRUE /\ r.tree[p].mode = l.mode /\ r.tree[p].user = l.user /\ r \in Results
    BY <1>4, <1>5, <2>1
  <2>3. \A x \in DevPaths : x # p => r.tree[x] = t[x]
    BY <1>4, <1>5, <2>1
  <2>4. r.tree[p].type = t[p].type /\ r.tree[p].dev = t[p].dev
    BY <1>4, <1>5, <2>1
  <2>5. \A x \in DevPaths : r.tree[x].type = t[x].type /\ r.tree[x].dev = t[x].dev
    <3>1. ASSUME NEW x \in DevPaths PROVE r.tree[x].type = t[x].type /\ r.tree[x].dev = t[x].dev
      <4>1. CASE x = p
        BY <2>4, <4>1
      <4>2. CASE x # p
        BY <2>3, <4>2
      <4>3. QED
        BY <4>1, <4>2
    <3>2. QED
      BY <3>1
  <2>6. Stands(r.tree, l)
    BY <1>1, <1>6, <2>4 DEF Stands
  <2>7. QED
    BY <1>1, <2>2, <2>3, <2>5, <2>6 DEF Carried, CarriedAgain, r
<1>7. CASE t[p].type # "f"
  <2>1. r.tree = t /\ r.ok = FALSE /\ r \in Results
    BY <1>3, <1>7 DEF Refuse, Results
  <2>2. ~Stands(t, l)
    BY <1>1, <1>7 DEF Stands
  <2>3. QED
    BY <2>1, <2>2 DEF Carried, r
<1>8. QED
  BY <1>6, <1>7

LEMMA NodesLine ==
    ASSUME NEW t \in [DevPaths -> DevNodes], NEW l \in TableLines, l.type \in NodeTypes
    PROVE  /\ Carried(t, l, NodesOf(t, l))
           /\ Stands(t, l) => CarriedAgain(t, l, NodesOf(t, l))
<1> DEFINE minor(p) == IF l.count = 0 THEN l.minor ELSE l.minor + (p[2] * l.inc - l.start)
           r == NodesOf(t, l)
           ps == NodePaths(l)
<1>1. /\ ps \subseteq DevPaths /\ (l.count # 0 => \A p \in ps : p[2] \in Int) /\ Touched(l) = ps
      /\ l.mode \in Nat /\ l.user \in Owners /\ l.minor \in Int /\ l.major \in Int /\ l.inc \in Int
      /\ l.start \in Int /\ l.type \notin {"d", "f"} /\ l.type \in Kinds /\ l.type # "none"
  <2>1. MaxNumber \in Nat
    BY DevAssumption DEF DevAssumption
  <2>2. \A k \in DevNumbers : k \in Int
    BY <2>1 DEF DevNumbers
  <2>3. /\ l.mode \in Nat /\ l.user \in Owners /\ l.minor \in Int /\ l.major \in Int /\ l.inc \in Int
        /\ l.start \in Int
    BY <2>2 DEF TableLines
  <2>4. l.type \notin {"d", "f"} /\ l.type \in Kinds /\ l.type # "none"
    BY DEF NodeTypes, Kinds
  <2>5. Touched(l) = ps
    BY <2>4 DEF Touched
  <2>6. ps \subseteq DevPaths /\ (l.count # 0 => \A p \in ps : p[2] \in Int)
    BY PathsOf
  <2>7. QED
    BY <2>3, <2>4, <2>5, <2>6
<1>2. /\ r.tree = [p \in DevPaths |-> IF p \in ps THEN Node(t, p, l, minor(p)) ELSE t[p]]
      /\ r.ok = \A p \in ps : ~Exists(t, p) /\ IsDir(t, DirOf(l.name))
      /\ r = [tree |-> r.tree, ok |-> r.ok]
  BY DEF NodesOf
<1>3. \A p \in ps : minor(p) \in Int
  BY <1>1
<1> HIDE DEF minor, r, ps
<1>4. ASSUME NEW p \in ps
      PROVE  /\ r.tree[p] \in DevNodes
             /\ Exists(t, p) => /\ r.tree[p].type = t[p].type /\ r.tree[p].dev = t[p].dev
                                /\ r.tree[p].user = t[p].user /\ r.tree[p].mode = l.mode
             /\ (~Exists(t, p) /\ IsDir(t, DirOf(l.name))) =>
                   /\ r.tree[p].type = l.type /\ r.tree[p].dev = <<l.major, minor(p)>>
                   /\ r.tree[p].user = l.user /\ r.tree[p].mode = l.mode
  <2>1. r.tree[p] = Node(t, p, l, minor(p)) /\ t[p] \in DevNodes /\ minor(p) \in Int
    BY <1>1, <1>2, <1>3
  <2>2. CASE Exists(t, p)
    <3>1. r.tree[p] = [t[p] EXCEPT !.mode = l.mode]
      BY <2>1, <2>2 DEF Node
    <3>2. QED
      BY <1>1, <2>1, <2>2, <3>1 DEF DevNodes
  <2>3. CASE ~Exists(t, p) /\ ~IsDir(t, DirOf(l.name))
    BY <2>1, <2>3 DEF Node
  <2>4. CASE ~Exists(t, p) /\ IsDir(t, DirOf(l.name))
    <3>1. r.tree[p] = [type |-> l.type, mode |-> l.mode, user |-> l.user, dev |-> <<l.major, minor(p)>>]
      BY <2>1, <2>4 DEF Node
    <3>2. <<l.major, minor(p)>> \in Seq(Int)
      BY <1>1, <2>1
    <3>3. QED
      BY <1>1, <2>4, <3>1, <3>2 DEF DevNodes
  <2>5. QED
    BY <2>2, <2>3, <2>4
<1>5. \A p \in DevPaths : p \notin ps => r.tree[p] = t[p]
  BY <1>2
<1>6. r \in Results
  <2>1. ASSUME NEW p \in DevPaths PROVE r.tree[p] \in DevNodes
    BY <1>4, <1>5
  <2>2. r.tree \in [DevPaths -> DevNodes]
    BY <1>2, <2>1
  <2>3. r.ok \in BOOLEAN
    BY <1>2
  <2>4. QED
    BY <1>2, <2>2, <2>3 DEF Results
<1>7. Carried(t, l, r)
  <2>1. \A p \in DevPaths : Exists(t, p) => r.tree[p].type = t[p].type /\ r.tree[p].dev = t[p].dev
    BY <1>4, <1>5
  <2>2. ASSUME r.ok
        PROVE  Stands(r.tree, l) /\ \A p \in ps : r.tree[p].mode = l.mode /\ r.tree[p].user = l.user
    <3>1. \A p \in ps : ~Exists(t, p) /\ IsDir(t, DirOf(l.name))
      BY <1>2, <2>2
    <3>2. \A p \in ps : /\ r.tree[p].type = l.type /\ r.tree[p].dev = <<l.major, minor(p)>>
                        /\ r.tree[p].user = l.user /\ r.tree[p].mode = l.mode
      BY <1>4, <3>1
    <3>3. ASSUME NEW p \in ps PROVE Numbered(l, r.tree[p], p)
      <4>1. r.tree[p].dev = <<l.major, minor(p)>>
        BY <3>2
      <4>2. QED
        BY <4>1 DEF Numbered, minor
    <3>4. QED
      BY <1>1, <3>2, <3>3 DEF Stands
  <2>3. QED
    BY <1>1, <1>5, <1>6, <2>1, <2>2 DEF Carried
<1>8. ASSUME Stands(t, l) PROVE CarriedAgain(t, l, r)
  <2>1. \A p \in ps : Exists(t, p)
    BY <1>1, <1>8 DEF Stands, Exists
  <2>2. \A p \in DevPaths : r.tree[p].type = t[p].type /\ r.tree[p].dev = t[p].dev
    BY <1>4, <1>5, <2>1
  <2>3. QED
    BY <1>1, <1>4, <1>5, <2>1, <2>2 DEF CarriedAgain
<1>9. QED
  BY <1>7, <1>8 DEF r

(* Whoever a line names, it is about the same paths.                       *)
LEMMA CarryLine ==
    ASSUME NEW t \in [DevPaths -> DevNodes], NEW l \in TableLines, NEW u \in Owners
    PROVE  LET q == [l EXCEPT !.user = u]
               r == Carry(t, l, u)
           IN /\ Carried(t, q, r) /\ (Stands(t, q) => CarriedAgain(t, q, r))
              /\ q.user = u /\ q.mode = l.mode /\ q.type = l.type
              /\ Touched(q) = Touched(l) /\ \A x : Stands(x, q) <=> Stands(x, l)
<1> DEFINE q == [l EXCEPT !.user = u]
           r == Carry(t, l, u)
<1>1. /\ q \in TableLines /\ q.user = u /\ q.mode = l.mode /\ q.type = l.type /\ q.name = l.name
      /\ q.major = l.major /\ q.minor = l.minor /\ q.start = l.start /\ q.inc = l.inc /\ q.count = l.count
  BY DEF TableLines
<1>2. r = CASE l.type = "comment" -> [tree |-> t, ok |-> TRUE]
            [] l.type = "d" -> DirectoryOf(t, q)
            [] l.type = "f" -> FileOf(t, q)
            [] l.type \in NodeTypes -> NodesOf(t, q)
            [] OTHER -> Refuse(t)
  BY DEF Carry, NodeTypes
<1> HIDE DEF q, r
<1>3. Touched(q) = Touched(l)
  BY <1>1 DEF Touched, NodePaths, NodeNumbers
<1>4. ASSUME NEW x PROVE Stands(x, q) <=> Stands(x, l)
  BY <1>1, <1>3 DEF Stands, Numbered
<1>5. Carried(t, q, r) /\ (Stands(t, q) => CarriedAgain(t, q, r))
  <2>1. CASE l.type = "comment"
    <3>1. r.tree = t /\ r.ok = TRUE /\ r \in Results
      BY <1>2, <2>1 DEF Results, NodeTypes
    <3>2. Touched(q) = {} /\ q.type = "comment"
      BY <1>1, <2>1 DEF Touched, NodeTypes
    <3>3. QED
      BY <3>1, <3>2 DEF Carried, CarriedAgain, Stands
  <2>2. CASE l.type = "d"
    <3>1. r = DirectoryOf(t, q)
      BY <1>2, <2>2 DEF NodeTypes
    <3>2. QED
      BY <1>1, <2>2, <3>1, DirectoryLine
  <2>3. CASE l.type = "f"
    <3>1. r = FileOf(t, q)
      BY <1>2, <2>3 DEF NodeTypes
    <3>2. QED
      BY <1>1, <2>3, <3>1, FileLine
  <2>4. CASE l.type \in NodeTypes
    <3>1. r = NodesOf(t, q)
      BY <1>2, <2>4 DEF NodeTypes
    <3>2. QED
      BY <1>1, <2>4, <3>1, NodesLine
  <2>5. CASE l.type \notin {"comment", "d", "f"} \cup NodeTypes
    <3>1. r.tree = t /\ r.ok = FALSE /\ r \in Results
      BY <1>2, <2>5 DEF Refuse, Results
    <3>2. ~Stands(t, q)
      BY <1>1, <2>5 DEF Stands
    <3>3. QED
      BY <3>1, <3>2 DEF Carried
  <2>6. QED
    BY <2>1, <2>2, <2>3, <2>4, <2>5
<1>6. QED
  BY <1>1, <1>3, <1>4, <1>5 DEF q, r

-----------------------------------------------------------------------------
(* The lines of a table *)

LEMMA WayPaths ==
    ASSUME NEW n \in DOMAIN DirsAbove
    PROVE  \A k \in 1..Len(Way(n)) : <<Way(n)[k]>> \in DevPaths
<1>1. DirsAbove[n] \in Seq(DOMAIN DirsAbove)
  BY DevAssumption DEF DevAssumption
<1>2. Way(n) \in Seq(DOMAIN DirsAbove)
  BY <1>1 DEF Way
<1>3. \A k \in 1..Len(Way(n)) : Way(n)[k] \in DOMAIN DirsAbove
  BY <1>2
<1>4. QED
  BY <1>3 DEF DevPaths

(* A line stands in every tree where what exists is of the same kind.      *)
LEMMA StandsOn ==
    ASSUME NEW t, NEW r, NEW l \in TableLines, Stands(t, l),
           \A p \in DevPaths : Exists(t, p) => r[p].type = t[p].type /\ r[p].dev = t[p].dev
    PROVE  Stands(r, l)
<1>1. /\ l.type \in {"comment", "d", "f"} \cup NodeTypes /\ Touched(l) \subseteq DevPaths
      /\ \A p \in Touched(l) : t[p].type = l.type /\ (l.type \in NodeTypes => Numbered(l, t[p], p))
      /\ l.type = "d" => WayIsThere(t, l.name)
      /\ l.name \in DOMAIN DirsAbove
  BY PathsOf DEF Stands
<1>2. ASSUME NEW p \in Touched(l)
      PROVE  r[p].type = l.type /\ (l.type \in NodeTypes => Numbered(l, r[p], p))
  <2>1. p \in DevPaths /\ Exists(t, p)
    BY <1>1 DEF Exists, NodeTypes
  <2>2. r[p].type = t[p].type /\ r[p].dev = t[p].dev
    BY <2>1
  <2>3. QED
    BY <1>1, <2>2 DEF Numbered
<1>3. ASSUME l.type = "d" PROVE WayIsThere(r, l.name)
  <2>1. \A k \in 1..Len(Way(l.name)) : <<Way(l.name)[k]>> \in DevPaths /\ t[<<Way(l.name)[k]>>].type = "d"
    BY <1>1, <1>3, WayPaths DEF WayIsThere
  <2>2. QED
    BY <2>1 DEF WayIsThere, Exists
<1>4. QED
  BY <1>1, <1>2, <1>3 DEF Stands

(* Who a line's nodes are given to.                                        *)
Names(l, u) == /\ u \in Owners
               /\ l.type \in {"comment", "invalid"} \/ l.user = "unset" \/ u = l.user

LEMMA FirstLine ==
    ASSUME table \in Seq(TableLines), NEW n \in 1..Len(table), NEW t \in [DevPaths -> DevNodes],
           NEW rep, LinesDone(t, n, rep), NEW u, Names(table[n], u)
    PROVE  LET r == Carry(t, table[n], u)
           IN LinesDone(r.tree, n + 1, IF r.ok THEN rep ELSE rep \cup {n})
<1> DEFINE l == table[n]
           q == [l EXCEPT !.user = u]
           r == Carry(t, l, u)
           rep2 == IF r.ok THEN rep ELSE rep \cup {n}
<1>1. l \in TableLines /\ n \in Nat /\ Len(table) \in Nat /\ \A i \in 1..n : table[i] \in TableLines
  OBVIOUS
<1>2. /\ Carried(t, q, r) /\ q.user = u /\ q.mode = l.mode /\ q.type = l.type
      /\ Touched(q) = Touched(l) /\ \A x : Stands(x, q) <=> Stands(x, l)
  BY <1>1, CarryLine DEF Names
<1>3. rep \subseteq rep2 /\ (n \in rep2 \/ r.ok)
  OBVIOUS
<1> HIDE DEF q, r, rep2, l
<1>4. ASSUME NEW i \in 1..(n - 1) PROVE i \in rep2 \/ LineDone(r.tree, n + 1, i)
  <2>1. CASE i \in rep
    BY <1>3, <2>1
  <2>2. CASE LineDone(t, n, i)
    <3> DEFINE d == table[i]
    <3>1. d \in TableLines /\ Stands(t, d) /\ Touched(d) \subseteq DevPaths
      <4>1. d \in TableLines /\ Stands(t, d)
        BY <1>1, <2>2 DEF LineDone
      <4>2. QED
        BY <4>1, PathsOf
    <3>2. \A p \in DevPaths : Exists(t, p) => r.tree[p].type = t[p].type /\ r.tree[p].dev = t[p].dev
      BY <1>2 DEF Carried
    <3>3. Stands(r.tree, d)
      BY <3>1, <3>2, StandsOn
    <3>4. ASSUME NEW p \in Touched(d)
          PROVE  Belongs(r.tree[p], d) \/ \E j \in (i + 1)..n : p \in Touched(table[j])
      <4>1. CASE p \in Touched(l)
        <5>1. n \in (i + 1)..n
          BY <1>1
        <5>2. QED
          BY <4>1, <5>1 DEF l
      <4>2. CASE p \notin Touched(l)
        <5>1. Exists(t, p) /\ p \in DevPaths
          BY <3>1 DEF Stands, Exists, NodeTypes
        <5>2. r.tree[p] = t[p]
          BY <1>2, <4>2, <5>1 DEF Carried
        <5>3. Belongs(t[p], d) \/ \E j \in (i + 1)..(n - 1) : p \in Touched(table[j])
          BY <2>2 DEF LineDone
        <5>4. \A j \in (i + 1)..(n - 1) : j \in (i + 1)..n
          BY <1>1
        <5>5. QED
          BY <5>2, <5>3, <5>4
      <4>3. QED
        BY <4>1, <4>2
    <3>5. (n + 1) - 1 = n
      BY <1>1
    <3>6. QED
      BY <3>3, <3>4, <3>5 DEF LineDone
  <2>3. QED
    BY <2>1, <2>2 DEF LinesDone
<1>5. n \in rep2 \/ LineDone(r.tree, n + 1, n)
  <2>1. SUFFICES ASSUME r.ok PROVE LineDone(r.tree, n + 1, n)
    BY <1>3
  <2>2. Stands(r.tree, l) /\ \A p \in Touched(l) : r.tree[p].mode = l.mode /\ r.tree[p].user = u
    BY <1>2, <2>1 DEF Carried
  <2>3. \A p \in Touched(l) : l.user = "unset" \/ u = l.user
    BY DEF Names, Touched, NodeTypes, l
  <2>4. \A p \in Touched(l) : Belongs(r.tree[p], l)
    BY <2>2, <2>3 DEF Belongs, OwnedBy
  <2>5. QED
    BY <2>2, <2>4 DEF LineDone, l
<1>6. \A i \in 1..((n + 1) - 1) : i = n \/ i \in 1..(n - 1)
  BY <1>1
<1>7. LinesDone(r.tree, n + 1, rep2)
  BY <1>4, <1>5, <1>6 DEF LinesDone
<1>8. QED
  BY <1>7 DEF r, rep2, l

LEMMA SecondLine ==
    ASSUME table \in Seq(TableLines), NEW n \in 1..Len(table), NEW t \in [DevPaths -> DevNodes],
           NEW was \in [DevPaths -> DevNodes], LinesDone(was, Len(table) + 1, {}),
           \A i \in DOMAIN table : table[i].user # "unset",
           Repeated(t, n, was), NEW u, Names(table[n], u)
    PROVE  LET r == Carry(t, table[n], u)
           IN Repeated(r.tree, n + 1, was) /\ (r.ok \/ table[n].type \in NodeTypes)
<1> DEFINE N == Len(table)
           l == table[n]
           q == [l EXCEPT !.user = u]
           r == Carry(t, l, u)
<1>1. /\ l \in TableLines /\ n \in Nat /\ N \in Nat /\ n <= N /\ n \in 1..N /\ l.user # "unset"
      /\ \A i \in 1..N : table[i] \in TableLines
  OBVIOUS
<1>2. /\ Stands(t, q) => CarriedAgain(t, q, r)
      /\ q.user = u /\ q.mode = l.mode /\ q.type = l.type
      /\ Touched(q) = Touched(l) /\ \A x : Stands(x, q) <=> Stands(x, l)
  BY <1>1, CarryLine DEF Names
<1> HIDE DEF q, r, l, N
<1>3. \A i \in 1..N : LineDone(was, N + 1, i)
  <2>1. (N + 1) - 1 = N
    BY <1>1
  <2>2. QED
    BY <2>1 DEF LinesDone, N
<1>4. Stands(t, l)
  <2>1. Stands(was, l)
    BY <1>1, <1>3 DEF LineDone, l
  <2>2. \A p \in DevPaths : Exists(was, p) => t[p].type = was[p].type /\ t[p].dev = was[p].dev
    BY DEF Repeated
  <2>3. QED
    BY <1>1, <2>1, <2>2, StandsOn
<1>5. /\ \A p \in DevPaths : r.tree[p].type = t[p].type /\ r.tree[p].dev = t[p].dev
      /\ \A p \in DevPaths : p \notin Touched(l) => r.tree[p] = t[p]
      /\ \A p \in Touched(l) : r.tree[p].mode = l.mode
      /\ \A p \in Touched(l) : r.tree[p].user = IF l.type \in NodeTypes THEN t[p].user ELSE l.user
      /\ r.ok \/ l.type \in NodeTypes
  <2>1. CarriedAgain(t, q, r)
    BY <1>2, <1>4
  <2>2. \A p \in Touched(l) : u = l.user
    BY <1>1 DEF Names, Touched, NodeTypes, l
  <2>3. QED
    BY <1>2, <2>1, <2>2 DEF CarriedAgain
<1>6. ASSUME NEW p \in DevPaths
      PROVE  /\ r.tree[p].type = was[p].type /\ r.tree[p].dev = was[p].dev
             /\ r.tree[p].mode = was[p].mode \/ \E j \in (n + 1)..N : p \in Touched(table[j])
             /\ \/ r.tree[p].user = was[p].user
                \/ \E j \in (n + 1)..N : table[j].type \notin NodeTypes /\ p \in Touched(table[j])
  <2>1. /\ t[p].type = was[p].type /\ t[p].dev = was[p].dev
        /\ t[p].mode = was[p].mode \/ \E j \in n..N : p \in Touched(table[j])
        /\ \/ t[p].user = was[p].user
           \/ \E j \in n..N : table[j].type \notin NodeTypes /\ p \in Touched(table[j])
    BY DEF Repeated, N
  <2>2. \A j \in n..N : j = n \/ j \in (n + 1)..N
    BY <1>1
  <2>3. CASE p \notin Touched(l)
    <3>1. r.tree[p] = t[p]
      BY <1>5, <2>3
    <3>2. QED
      BY <2>1, <2>2, <2>3, <3>1 DEF l
  <2>4. CASE p \in Touched(l)
    <3>1. /\ was[p].type = l.type
          /\ Belongs(was[p], l) \/ \E j \in (n + 1)..N : p \in Touched(table[j])
      <4>1. LineDone(was, N + 1, n) /\ (N + 1) - 1 = N
        BY <1>1, <1>3
      <4>2. QED
        BY <2>4, <4>1 DEF LineDone, Stands, l
    <3>2. r.tree[p].mode = was[p].mode \/ \E j \in (n + 1)..N : p \in Touched(table[j])
      BY <1>5, <2>4, <3>1 DEF Belongs
    <3>3. \/ r.tree[p].user = was[p].user
          \/ \E j \in (n + 1)..N : table[j].type \notin NodeTypes /\ p \in Touched(table[j])
      <4>1. CASE l.type \in NodeTypes
        <5>1. r.tree[p].user = t[p].user
          BY <1>5, <2>4, <4>1
        <5>2. QED
          BY <2>1, <2>2, <4>1, <5>1 DEF l
      <4>2. CASE l.type \notin NodeTypes
        <5>1. r.tree[p].user = l.user
          BY <1>5, <2>4, <4>2
        <5>2. CASE Belongs(was[p], l)
          BY <1>1, <5>1, <5>2 DEF Belongs, OwnedBy
        <5>3. CASE \E j \in (n + 1)..N : p \in Touched(table[j])
          <6>1. PICK j \in (n + 1)..N : p \in Touched(table[j])
            BY <5>3
          <6>2. j \in 1..N
            BY <1>1
          <6>3. was[p].type = table[j].type
            BY <1>3, <6>1, <6>2 DEF LineDone, Stands
          <6>4. table[j].type \notin NodeTypes
            BY <3>1, <4>2, <6>3
          <6>5. QED
            BY <6>1, <6>4
        <5>4. QED
          BY <3>1, <5>2, <5>3
      <4>3. QED
        BY <4>1, <4>2
    <3>4. QED
      BY <1>5, <2>1, <3>2, <3>3
  <2>5. QED
    BY <2>3, <2>4
<1>7. Repeated(r.tree, n + 1, was)
  BY <1>6 DEF Repeated, N
<1>8. QED
  BY <1>5, <1>7 DEF r, l

-----------------------------------------------------------------------------
(* The invariant *)

LEMMA DevInvInit == DevInit => DevInv
<1> SUFFICES ASSUME DevInit PROVE DevInv
  OBVIOUS
<1>1. table \in Seq(TableLines) /\ tree \in [DevPaths -> DevNodes]
  BY DevAssumption DEF DevInit, DevAssumption
<1>2. Len(table) \in Nat
  BY <1>1
<1>3. DevTypes
  BY <1>1, <1>2 DEF DevInit, DevTypes
<1>4. LinesDone(tree, 1, {})
  BY DEF LinesDone
<1>5. QED
  BY <1>3, <1>4 DEF DevInit, DevInv, FirstRun, SecondRun

LEMMA ReadLineStep == ASSUME DevInv, ReadLine PROVE DevInv'
<1> DEFINE l == table[line]
           N == Len(table)
<1>1. /\ table \in Tables /\ table \in Seq(TableLines) /\ N \in Nat /\ line \in 1..N /\ l \in TableLines
      /\ tree \in [DevPaths -> DevNodes] /\ report \subseteq 1..N /\ run \in {1, 2}
      /\ ended = "no" /\ UNCHANGED <<table, run, once>> /\ DOMAIN table = 1..N
  BY DEF DevInv, DevTypes, ReadLine
<1>2. PICK u \in IF l.type \in {"comment", "invalid"} THEN {Runner} ELSE Named(l) :
         IF u \notin Users \cup {Runner}
         THEN ended' = "died" /\ report' = report \cup {line} /\ UNCHANGED <<tree, line>>
         ELSE LET r == Carry(tree, l, u)
              IN /\ tree' = r.tree /\ line' = line + 1
                 /\ report' = IF r.ok THEN report ELSE report \cup {line}
                 /\ UNCHANGED ended
  BY DEF ReadLine
<1>3. CASE u \notin Users \cup {Runner}
  <2>1. ended' = "died" /\ report' = report \cup {line} /\ UNCHANGED <<tree, line>>
    BY <1>2, <1>3
  <2>2. DevTypes'
    BY <1>1, <2>1 DEF DevInv, DevTypes
  <2>3. FirstRun'
    BY <1>1, <2>1 DEF DevInv, FirstRun, LinesDone, LineDone
  <2>4. SecondRun'
    BY <1>1, <2>1 DEF DevInv, SecondRun, LinesDone, LineDone
  <2>5. QED
    BY <2>2, <2>3, <2>4 DEF DevInv
<1>4. CASE u \in Users \cup {Runner}
  <2> DEFINE r == Carry(tree, l, u)
  <2>1. /\ tree' = r.tree /\ line' = line + 1 /\ ended' = ended
        /\ report' = IF r.ok THEN report ELSE report \cup {line}
    BY <1>2, <1>4
  <2>2. Names(l, u)
    BY <1>2, <1>4 DEF Names, Owners, Named
  <2>3. r \in Results
    <3>1. u \in Owners
      BY <2>2 DEF Names
    <3>2. QED
      BY <1>1, <3>1, CarryLine DEF Carried
  <2> HIDE DEF r
  <2>4. DevTypes'
    <3>1. tree' \in [DevPaths -> DevNodes]
      BY <2>1, <2>3 DEF Results
    <3>2. report' \subseteq 1..N /\ line + 1 \in 1..(N + 1)
      BY <1>1, <2>1
    <3>3. QED
      BY <1>1, <2>1, <3>1, <3>2 DEF DevInv, DevTypes
  <2>5. FirstRun'
    <3>1. SUFFICES ASSUME run = 1 PROVE LinesDone(r.tree, line + 1, report')
      BY <1>1, <2>1 DEF FirstRun, LinesDone, LineDone
    <3>2. LinesDone(tree, line, report)
      BY <3>1 DEF DevInv, FirstRun
    <3>3. LinesDone(r.tree, line + 1, IF r.ok THEN report ELSE report \cup {line})
      BY <1>1, <2>2, <3>2, FirstLine DEF r
    <3>4. QED
      BY <2>1, <3>3
  <2>6. SecondRun'
    <3>1. ASSUME run = 2
          PROVE  once[1] \in [DevPaths -> DevNodes] /\ LinesDone(once[1], N + 1, once[2])
      BY <3>1 DEF DevInv, SecondRun
    <3>2. ASSUME run = 2, once[2] = {}, \A i \in DOMAIN table : table[i].user # "unset"
          PROVE  Repeated(r.tree, line + 1, once[1]) /\ \A i \in report' : table[i].type \in NodeTypes
      <4>1. Repeated(tree, line, once[1]) /\ \A i \in report : table[i].type \in NodeTypes
        BY <1>1, <3>2 DEF DevInv, SecondRun
      <4>2. Repeated(r.tree, line + 1, once[1]) /\ (r.ok \/ l.type \in NodeTypes)
        BY <1>1, <2>2, <3>1, <3>2, <4>1, SecondLine DEF r
      <4>3. QED
        BY <2>1, <4>1, <4>2
    <3>3. QED
      BY <1>1, <2>1, <3>1, <3>2 DEF SecondRun, LinesDone, LineDone, Repeated
  <2>7. QED
    BY <2>4, <2>5, <2>6 DEF DevInv
<1>5. QED
  BY <1>3, <1>4

LEMMA SyncStep == ASSUME DevInv, Sync PROVE DevInv'
<1>1. /\ ended = "no" /\ line > Len(table) /\ ended' = "done"
      /\ once' = IF run = 1 THEN <<tree, report>> ELSE once
      /\ UNCHANGED <<table, line, tree, report, run>>
  BY DEF Sync
<1>2. DevTypes'
  BY <1>1 DEF DevInv, DevTypes
<1>3. FirstRun'
  BY <1>1 DEF DevInv, FirstRun, LinesDone, LineDone
<1>4. SecondRun'
  BY <1>1 DEF DevInv, SecondRun, LinesDone, LineDone, Repeated
<1>5. QED
  BY <1>2, <1>3, <1>4 DEF DevInv

LEMMA RunAgainStep == ASSUME DevInv, RunAgain PROVE DevInv'
<1>1. /\ ended = "done" /\ run = 1 /\ run' = 2 /\ line' = 1 /\ report' = {} /\ ended' = "no"
      /\ UNCHANGED <<table, tree, once>>
  BY DEF RunAgain
<1>2. Len(table) \in Nat /\ line = Len(table) + 1 /\ tree \in [DevPaths -> DevNodes] /\ DevTypes
  BY <1>1 DEF DevInv, DevTypes
<1>3. DevTypes'
  BY <1>1, <1>2 DEF DevTypes
<1>4. once[1] = tree /\ once[2] = report /\ LinesDone(tree, line, report)
  BY <1>1 DEF DevInv, FirstRun
<1>5. Repeated(tree, 1, once[1])
  BY <1>4 DEF Repeated
<1>6. FirstRun'
  BY <1>1 DEF FirstRun
<1>7. SecondRun'
  BY <1>1, <1>2, <1>4, <1>5 DEF SecondRun, LinesDone, LineDone, Repeated
<1>8. QED
  BY <1>3, <1>6, <1>7 DEF DevInv

(* Every state of makedevs has the types it should; in the first run each  *)
(* line read was reported or stands as it asks but for what a later line   *)
(* gave, and a second run after one without a message leaves everything as *)
(* it was, but for what a line to come is going to set.                    *)
THEOREM DevInvariant == DevSpec => []DevInv
<1>1. DevInv /\ [DevNext]_devvars => DevInv'
  <2> SUFFICES ASSUME DevInv, [DevNext]_devvars PROVE DevInv'
    OBVIOUS
  <2>1. CASE UNCHANGED devvars
    BY <2>1 DEF devvars, DevInv, DevTypes, FirstRun, SecondRun, LinesDone, LineDone, Repeated
  <2>2. CASE DevNext
    BY <2>2, ReadLineStep, SyncStep, RunAgainStep DEF DevNext
  <2>3. QED
    BY <2>1, <2>2
<1>2. QED
  BY <1>1, DevInvInit, PTL DEF DevSpec

(* A node is its four fields.                                              *)
LEMMA SameNode ==
    ASSUME NEW a \in DevNodes, NEW b \in DevNodes,
           a.type = b.type, a.mode = b.mode, a.user = b.user, a.dev = b.dev
    PROVE  a = b
<1>1. a = [type |-> a.type, mode |-> a.mode, user |-> a.user, dev |-> a.dev]
  BY DEF DevNodes
<1>2. b = [type |-> b.type, mode |-> b.mode, user |-> b.user, dev |-> b.dev]
  BY DEF DevNodes
<1>3. QED
  BY <1>1, <1>2

(* After a run every line has been carried out as documented, whatever was *)
(* in the tree before, unless a message named it or a later line is about  *)
(* the same name (makedevs.c:396-527).  Of a series that does not start at *)
(* 0 this is claimed of the numbers below its count only, and of their     *)
(* minor numbers if its increment is 1: of the rest the documentation says *)
(* what the program does not do.                                           *)
THEOREM LinesAreCarriedOut == DevSpec => []CarriedOutOrReported
<1>1. DevInv => CarriedOutOrReported
  <2> SUFFICES ASSUME DevInv, ended = "done", run = 1, NEW i \in DOMAIN table
               PROVE  \/ i \in report \/ CarriedOut(i)
                      \/ \E j \in DOMAIN table : j > i /\ table[j].name = table[i].name
    BY DEF CarriedOutOrReported
  <2> DEFINE N == Len(table)
             l == table[i]
  <2>1. /\ table \in Seq(TableLines) /\ N \in Nat /\ DOMAIN table = 1..N /\ line = N + 1 /\ l \in TableLines
        /\ \A j \in 1..N : table[j] \in TableLines
    BY DEF DevInv, DevTypes
  <2>2. l.start \in Nat /\ l.count \in Nat /\ l.inc \in Nat /\ l.minor \in Nat
    <3>1. MaxNumber \in Nat
      BY DevAssumption DEF DevAssumption
    <3>2. QED
      BY <2>1, <3>1 DEF TableLines, DevNumbers
  <2>3. i \in report \/ LineDone(tree, N + 1, i)
    <3>1. LinesDone(tree, N + 1, report) /\ i \in 1..((N + 1) - 1)
      BY <2>1 DEF DevInv, FirstRun
    <3>2. QED
      BY <3>1 DEF LinesDone
  <2>4. ASSUME NEW d \in TableLines, NEW p \in Touched(d) PROVE p[1] = d.name
    BY DEF Touched, NodePaths
  <2>5. CASE \E p \in Touched(l) : \E j \in (i + 1)..N : p \in Touched(table[j])
    <3>1. PICK p \in Touched(l), j \in (i + 1)..N : p \in Touched(table[j])
      BY <2>5
    <3>2. j \in DOMAIN table /\ j > i
      BY <2>1
    <3>3. QED
      BY <2>1, <2>4, <3>1, <3>2
  <2>6. CASE LineDone(tree, N + 1, i) /\ ~\E p \in Touched(l) : \E j \in (i + 1)..N : p \in Touched(table[j])
    <3>1. /\ l.type \in {"comment", "d", "f"} \cup NodeTypes
          /\ \A p \in Touched(l) : /\ tree[p].type = l.type
                                   /\ l.type \in NodeTypes => Numbered(l, tree[p], p)
                                   /\ tree[p].mode = l.mode /\ OwnedBy(tree[p], l)
      <4>1. (N + 1) - 1 = N
        BY <2>1
      <4>2. QED
        BY <2>6, <4>1 DEF LineDone, Stands, Belongs
    <3> HIDE DEF l
    <3>2. CASE l.type = "comment"
      BY <3>2 DEF CarriedOut, l
    <3>3. CASE l.type \in {"d", "f"}
      <4>1. <<l.name>> \in Touched(l)
        BY <3>3 DEF Touched
      <4>2. QED
        BY <3>1, <3>3, <4>1 DEF CarriedOut, l
    <3>4. CASE l.type \in NodeTypes /\ l.count = 0
      <4>1. <<l.name>> \in Touched(l)
        BY <3>4 DEF Touched, NodePaths, NodeTypes
      <4>2. tree[<<l.name>>].dev = <<l.major, l.minor>>
        BY <3>1, <3>4, <4>1 DEF Numbered
      <4>3. QED
        BY <3>1, <3>4, <4>1, <4>2 DEF CarriedOut, l, NodeTypes
    <3>5. CASE l.type \in NodeTypes /\ l.count # 0
      <4>1. ASSUME NEW k \in Series(l) \ CutOff(l)
            PROVE  /\ tree[<<l.name, k>>].type = l.type
                   /\ tree[<<l.name, k>>].mode = l.mode /\ OwnedBy(tree[<<l.name, k>>], l)
                   /\ ~OutOfStep(l) => tree[<<l.name, k>>].dev = <<l.major, MinorIn(l, k)>>
        <5> DEFINE p == <<l.name, k>>
        <5>1. k \in Int /\ k \in l.start..(l.count - 1) /\ l.start \in Int /\ l.inc \in Int /\ l.minor \in Int
          BY <2>1, <2>2 DEF Series, CutOff, l
        <5>2. p \in Touched(l) /\ p[2] = k
          BY <3>5, <5>1 DEF Touched, NodePaths, NodeNumbers, NodeTypes
        <5> HIDE DEF p
        <5>3. /\ tree[p].type = l.type /\ tree[p].mode = l.mode /\ OwnedBy(tree[p], l)
              /\ Numbered(l, tree[p], p)
          BY <3>1, <3>5, <5>2
        <5>4. tree[p].dev = <<l.major, l.minor + (k * l.inc - l.start)>>
          BY <3>5, <5>2, <5>3 DEF Numbered
        <5>5. CASE OutOfStep(l)
          BY <5>3, <5>5 DEF p
        <5>6. CASE l.inc = 1
          <6>1. l.minor + (k * l.inc - l.start) = MinorIn(l, k)
            BY <5>1, <5>6 DEF MinorIn
          <6>2. QED
            BY <5>3, <5>4, <6>1 DEF p
        <5>7. CASE l.start = 0
          <6>1. k - l.start = k /\ k * l.inc \in Int
            BY <5>1, <5>7
          <6>2. l.minor + (k * l.inc - l.start) = MinorIn(l, k)
            BY <5>1, <5>7, <6>1 DEF MinorIn
          <6>3. QED
            BY <5>3, <5>4, <6>2 DEF p
        <5>8. QED
          BY <5>5, <5>6, <5>7 DEF OutOfStep
      <4>2. QED
        BY <3>5, <4>1 DEF CarriedOut, l, NodeTypes
    <3>6. QED
      BY <3>1, <3>2, <3>3, <3>4, <3>5
  <2>7. QED
    BY <2>3, <2>5, <2>6
<1>2. QED
  BY <1>1, DevInvariant, PTL

(* A table that was carried out without a message leaves the same tree the *)
(* second time, and only mknod fails, for the nodes that are there         *)
(* (makedevs.c:110-184, 486-522).                                          *)
THEOREM AgainLeavesTheSame == DevSpec => []AgainIsTheSame
<1>1. DevInv => AgainIsTheSame
  <2> SUFFICES ASSUME DevInv, ended = "done", run = 2, once[2] = {},
                      \A i \in DOMAIN table : table[i].user # "unset"
               PROVE  tree = once[1] /\ \A i \in report : table[i].type \in {"c", "b", "p"}
    BY DEF AgainIsTheSame
  <2>1. /\ once[1] \in [DevPaths -> DevNodes] /\ tree \in [DevPaths -> DevNodes]
        /\ line = Len(table) + 1 /\ Len(table) \in Nat
        /\ Repeated(tree, line, once[1]) /\ \A i \in report : table[i].type \in NodeTypes
    BY DEF DevInv, DevTypes, SecondRun
  <2>2. line..Len(table) = {}
    BY <2>1
  <2>3. ASSUME NEW p \in DevPaths PROVE tree[p] = once[1][p]
    <3>1. /\ tree[p].type = once[1][p].type /\ tree[p].dev = once[1][p].dev
          /\ tree[p].mode = once[1][p].mode /\ tree[p].user = once[1][p].user
      BY <2>1, <2>2 DEF Repeated
    <3>2. tree[p] \in DevNodes /\ once[1][p] \in DevNodes
      BY <2>1
    <3>3. QED
      BY <3>1, <3>2, SameNode
  <2>4. tree = once[1]
    BY <2>1, <2>3
  <2>5. QED
    BY <2>1, <2>4 DEF NodeTypes
<1>2. QED
  BY <1>1, DevInvariant, PTL
=============================================================================
