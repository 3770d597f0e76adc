--------------------------- MODULE MkImage_proofs ----------------------------
(***************************************************************************)
(* An image that mkimage leaves complete is whole: for any number of files *)
(* of any size, and however often it was killed and begun again.           *)
(***************************************************************************)
EXTENDS MkImage, SequenceTheorems, WellFoundedInduction, TLAPS

-----------------------------------------------------------------------------
(* What the image is made of *)

Bytes == {"", "pad"} \cup {<<"size", n>> : n \in Nat} \cup UNION {ToSet(c) : c \in Data}
Names == UNION {ToSet(f) : f \in DataFiles}
Headers == [magic : BOOLEAN, hcrc : BOOLEAN, dcrc : Seq(Bytes)]

ImageTypes ==
    /\ files \in DataFiles /\ multi \in BOOLEAN /\ xip \in BOOLEAN /\ (multi \/ Len(files) = 1)
    /\ data \in [ToSet(files) -> Data \cup {NoData}]
    /\ image \in [head : Headers, body : Seq(Bytes)]
    /\ at \in {"open", "sizes", "files", "header", "check", "done", "failed"}
    /\ nth \in Nat /\ altered \in BOOLEAN

(* Only the last step completes the header.                                *)
LastIsHeader == image.head.hcrc => at = "done"

(* What the files hold, in order.                                          *)
Contents == [k \in 1..Len(files) |-> data[files[k]]]
Written == {"header", "check", "done"}

(* The table of sizes up to that of file n.                                *)
TableTo(cs, b, n) == \A k \in 1..n : b[4 * k - 3] = <<"size", Len(cs[k])>>
Table(cs, b) == /\ TableTo(cs, b, Len(cs)) /\ b[4 * Len(cs) + 1] = <<"size", 0>>
                /\ Len(b) >= 4 * (Len(cs) + 1)
(* The files 1 to n, each where st says: after the table, and each at the  *)
(* next multiple of four after the one before.                             *)
FileIn(c, b, from) == /\ c \in Seq(Bytes) /\ Len(c) > 0 /\ from + Len(c) <= Len(b)
                      /\ \A i \in 1..Len(c) : b[from + i] = c[i]
Laid(cs, b, st, n) ==
    /\ st \in [1..Len(cs) -> Nat] /\ st[1] = 4 * (Len(cs) + 1)
    /\ \A k \in 1..n : FileIn(cs[k], b, st[k])
    /\ \A k \in 1..n : k < Len(cs) => st[k + 1] = st[k] + Even(Len(cs[k]))
AllLaid(cs, b) ==
    \E st : Laid(cs, b, st, Len(cs)) /\ Len(b) = st[Len(cs)] + Len(cs[Len(cs)])

InTurn == /\ at = "open" => nth = 1
          /\ at = "sizes" => multi /\ nth \in 1..(Len(files) + 1)
          /\ at = "files" => nth \in 1..Len(files)
SingleInv ==
    (~altered /\ ~multi) =>
        /\ at = "files" => image.body = << >>
        /\ at \in Written => image.body = Copied(Contents[1], TRUE)
MultiInv ==
    (~altered /\ multi /\ ~xip) =>
        /\ at = "sizes" => /\ Len(image.body) = 4 * (nth - 1)
                           /\ TableTo(Contents, image.body, nth - 1)
        /\ at = "files" => /\ Table(Contents, image.body)
                           /\ \E st : /\ Laid(Contents, image.body, st, nth - 1)
                                      /\ Len(image.body) = st[nth]
        /\ at \in Written => Table(Contents, image.body) /\ AllLaid(Contents, image.body)

ImageInv == ImageTypes /\ LastIsHeader /\ InTurn /\ SingleInv /\ MultiInv

-----------------------------------------------------------------------------
(* Sequences and sizes *)

LEMMA EvenIs ==
    ASSUME NEW n \in Nat
    PROVE  /\ Even(n) \in Nat /\ Even(n) >= n
           /\ n % 4 = 0 => Even(n) = n
           /\ n % 4 # 0 => Even(n) = n + (4 - (n % 4))
  BY DEF Even

LEMMA Appended ==
    ASSUME NEW S, NEW b \in Seq(S), NEW c \in Seq(S)
    PROVE  /\ b \o c \in Seq(S) /\ Len(b \o c) = Len(b) + Len(c) /\ Len(b) \in Nat /\ Len(c) \in Nat
           /\ \A i \in 1..Len(b) : (b \o c)[i] = b[i]
           /\ \A i \in 1..Len(c) : (b \o c)[Len(b) + i] = c[i]
  OBVIOUS

LEMMA WordType ==
    ASSUME NEW n \in Nat
    PROVE  Word(n) \in Seq(Bytes) /\ Len(Word(n)) = 4 /\ Word(n)[1] = <<"size", n>>
<1>1. <<"size", n>> \in Bytes /\ "" \in Bytes
  BY DEF Bytes
<1> DEFINE a == <<"size", n>>
           b == ""
<1>2. Word(n) = <<a, b, b, b>>
  BY DEF Word
<1> HIDE DEF a, b
<1>3. <<a, b, b, b>> \in Seq(Bytes) /\ Len(<<a, b, b, b>>) = 4 /\ <<a, b, b, b>>[1] = a
  <2>1. a \in Bytes /\ b \in Bytes
    BY <1>1 DEF a, b
  <2>2. QED
    BY <2>1
<1>4. QED
  BY <1>2, <1>3 DEF a

LEMMA DataType ==
    /\ NoData \notin Data
    /\ \A c \in Data : c \in Seq(Bytes)
    /\ \A f \in DataFiles : f \in Seq(Names) /\ Len(f) \in Nat \ {0} /\ (\A k \in 1..Len(f) : f[k] \in ToSet(f))
<1>1. ASSUME NEW c \in Data PROVE c \in Seq(Bytes)
  <2>1. c \in Seq(ToSet(c))
    BY ImageAssumption DEF ImageAssumption
  <2>2. ToSet(c) \subseteq Bytes
    BY DEF Bytes
  <2>3. QED
    BY <2>1, <2>2
<1>2. ASSUME NEW f \in DataFiles
      PROVE  f \in Seq(Names) /\ Len(f) \in Nat \ {0} /\ (\A k \in 1..Len(f) : f[k] \in ToSet(f))
  <2>1. f \in Seq(ToSet(f)) /\ f # << >>
    BY ImageAssumption DEF ImageAssumption
  <2>2. ToSet(f) \subseteq Names
    BY DEF Names
  <2>3. QED
    BY <2>1, <2>2
<1>3. QED
  BY <1>1, <1>2, ImageAssumption DEF ImageAssumption

LEMMA CopiedType ==
    ASSUME NEW c \in Seq(Bytes), NEW last \in BOOLEAN, ImageTypes
    PROVE  /\ Copied(c, last) \in Seq(Bytes)
           /\ ~xip => /\ Copied(c, last) = c \o Padding(Len(c), last)
                      /\ Padding(Len(c), last) \in Seq(Bytes)
                      /\ Len(Padding(Len(c), last)) = IF last THEN 0 ELSE Even(Len(c)) - Len(c)
<1>1. HeaderLen \in Nat /\ "pad" \in Bytes
  BY ImageAssumption DEF ImageAssumption, Bytes
<1> DEFINE bytes == IF xip THEN SubSeq(c, HeaderLen + 1, Len(c)) ELSE c
<1>2. bytes \in Seq(Bytes)
  <2>1. Len(c) \in Int /\ HeaderLen + 1 \in Int /\ \A i \in (HeaderLen + 1)..Len(c) : c[i] \in Bytes
    BY <1>1
  <2>2. SubSeq(c, HeaderLen + 1, Len(c)) \in Seq(Bytes)
    BY <2>1, SubSeqProperties
  <2>3. QED
    BY <2>2
<1>3. ASSUME NEW n \in Nat
      PROVE  /\ Padding(n, last) \in Seq(Bytes)
             /\ Len(Padding(n, last)) = IF last THEN 0 ELSE Even(n) - n
  <2>1. n % 4 \in 0..3
    OBVIOUS
  <2>2. CASE last \/ n % 4 = 0
    <3>1. Padding(n, last) = << >>
      BY <2>2 DEF Padding
    <3>2. QED
      BY <2>2, <3>1, EvenIs
  <2>3. CASE ~last /\ n % 4 # 0
    <3> DEFINE m == 4 - (n % 4)
    <3>1. m \in Nat /\ Padding(n, last) = [k \in 1..m |-> "pad"]
      BY <2>1, <2>3 DEF Padding
    <3>2. Even(n) = n + m /\ Even(n) \in Nat
      BY <2>3, EvenIs
    <3> HIDE DEF m
    <3>3. [k \in 1..m |-> "pad"] \in Seq(Bytes) /\ Len([k \in 1..m |-> "pad"]) = m
      BY <1>1, <3>1
    <3>4. QED
      BY <2>3, <3>1, <3>2, <3>3
  <2>4. QED
    BY <2>2, <2>3
<1>4. Len(bytes) \in Nat /\ Len(c) \in Nat
  BY <1>2
<1>5. Copied(c, last) = bytes \o Padding(Len(bytes), last)
  BY DEF Copied
<1> HIDE DEF bytes
<1>6. Copied(c, last) \in Seq(Bytes)
  BY <1>2, <1>3, <1>4, <1>5, Appended
<1>7. QED
  BY <1>3, <1>4, <1>5, <1>6 DEF bytes

LEMMA ContentType ==
    ASSUME ImageTypes
    PROVE  /\ Len(files) \in Nat \ {0} /\ (~multi => Len(files) = 1) /\ Len(Contents) = Len(files)
           /\ \A k \in 1..Len(files) : /\ files[k] \in ToSet(files) /\ Contents[k] = data[files[k]]
                                       /\ Contents[k] \in Data \cup {NoData}
                                       /\ Contents[k] # NoData => Contents[k] \in Seq(Bytes)
<1>1. /\ Len(files) \in Nat \ {0} /\ (~multi => Len(files) = 1)
      /\ \A k \in 1..Len(files) : files[k] \in ToSet(files)
  BY DataType DEF ImageTypes
<1>2. Len(Contents) = Len(files)
  BY <1>1 DEF Contents
<1>3. ASSUME NEW k \in 1..Len(files)
      PROVE  /\ Contents[k] = data[files[k]] /\ Contents[k] \in Data \cup {NoData}
             /\ Contents[k] # NoData => Contents[k] \in Seq(Bytes)
  <2>1. Contents[k] = data[files[k]]
    BY DEF Contents
  <2>2. Contents[k] \in Data \cup {NoData}
    BY <1>1, <2>1 DEF ImageTypes
  <2>3. \A c \in Data : c \in Seq(Bytes)
    BY DataType
  <2>4. QED
    BY <2>1, <2>2, <2>3
<1>4. QED
  BY <1>1, <1>2, <1>3

(* What is written stays where it is.                                      *)
LEMMA StaysIn ==
    ASSUME NEW b \in Seq(Bytes), NEW c \in Seq(Bytes), NEW cs, Len(cs) \in Nat
    PROVE  /\ \A n \in Nat : 4 * n <= Len(b) /\ TableTo(cs, b, n) => TableTo(cs, b \o c, n)
           /\ Table(cs, b) => Table(cs, b \o c)
           /\ \A d, from : (Len(d) \in Nat /\ from \in Nat /\ FileIn(d, b, from)) => FileIn(d, b \o c, from)
<1> DEFINE bc == b \o c
<1>1. /\ bc \in Seq(Bytes) /\ Len(bc) = Len(b) + Len(c) /\ Len(b) \in Nat /\ Len(c) \in Nat
      /\ \A i \in 1..Len(b) : bc[i] = b[i]
  BY Appended
<1> HIDE DEF bc
<1>2. ASSUME NEW n \in Nat, 4 * n <= Len(b), TableTo(cs, b, n) PROVE TableTo(cs, bc, n)
  <2>1. ASSUME NEW k \in 1..n PROVE bc[4 * k - 3] = b[4 * k - 3]
    <3>1. 4 * k - 3 \in 1..Len(b)
      BY <1>1, <1>2
    <3>2. QED
      BY <1>1, <3>1
  <2>2. QED
    BY <1>2, <2>1 DEF TableTo
<1>3. ASSUME Table(cs, b) PROVE Table(cs, bc)
  <2>1. /\ Len(b) >= 4 * (Len(cs) + 1) /\ 4 * Len(cs) <= Len(b) /\ 4 * Len(cs) + 1 \in 1..Len(b)
    BY <1>1, <1>3 DEF Table
  <2>2. QED
    BY <1>1, <1>2, <1>3, <2>1 DEF Table
<1>4. ASSUME NEW d, NEW from, Len(d) \in Nat, from \in Nat, FileIn(d, b, from) PROVE FileIn(d, bc, from)
  <2>1. ASSUME NEW i \in 1..Len(d) PROVE bc[from + i] = b[from + i]
    <3>1. from + i \in 1..Len(b)
      BY <1>1, <1>4 DEF FileIn
    <3>2. QED
      BY <1>1, <3>1
  <2>2. QED
    BY <1>1, <1>4, <2>1 DEF FileIn
<1>5. QED
  BY <1>2, <1>3, <1>4 DEF bc

-----------------------------------------------------------------------------
(* The invariant *)

LEMMA ImageInvInit == ImageInit => ImageInv
<1> SUFFICES ASSUME ImageInit PROVE ImageInv
  OBVIOUS
<1>1. image = [head |-> [magic |-> FALSE, hcrc |-> FALSE, dcrc |-> << >>], body |-> << >>]
  BY DEF ImageInit, ZeroHeader
<1>2. image \in [head : Headers, body : Seq(Bytes)] /\ image.head.hcrc = FALSE
  <2>1. << >> \in Seq(Bytes)
    OBVIOUS
  <2>2. QED
    BY <1>1, <2>1 DEF Headers
<1>3. ImageTypes /\ LastIsHeader
  BY <1>2 DEF ImageInit, ImageTypes, LastIsHeader
<1>4. SingleInv /\ MultiInv /\ InTurn
  BY DEF ImageInit, SingleInv, MultiInv, Written, InTurn
<1>5. QED
  BY <1>3, <1>4 DEF ImageInv

(* What is written is appended, and leaves the header as it is.            *)
LEMMA WriteType ==
    ASSUME ImageTypes, NEW bytes \in Seq(Bytes), Write(bytes)
    PROVE  /\ image'.head = image.head /\ image'.body = image.body \o bytes
           /\ image' \in [head : Headers, body : Seq(Bytes)]
<1>1. image.body \in Seq(Bytes) /\ image.head \in Headers /\ image \in [head : Headers, body : Seq(Bytes)]
  BY DEF ImageTypes
<1> DEFINE b == image.body \o bytes
<1>2. b \in Seq(Bytes)
  BY <1>1, Appended
<1>3. image' = [image EXCEPT !.body = b]
  BY DEF Write
<1> HIDE DEF b
<1>4. image'.head = image.head /\ image'.body = b /\ image' \in [head : Headers, body : Seq(Bytes)]
  BY <1>1, <1>2, <1>3
<1>5. QED
  BY <1>4 DEF b

LEMMA OpenStep == ASSUME ImageInv, OpenImage PROVE ImageInv'
<1>1. /\ image' = [head |-> ZeroHeader, body |-> << >>] /\ at = "open"
      /\ at' = IF multi THEN "sizes" ELSE "files"
      /\ UNCHANGED <<files, multi, xip, data, nth, altered>>
  BY DEF OpenImage, given
<1>2. image'.body = << >> /\ image'.head.hcrc = FALSE /\ image' \in [head : Headers, body : Seq(Bytes)]
  <2>1. << >> \in Seq(Bytes)
    OBVIOUS
  <2>2. QED
    BY <1>1, <2>1 DEF Headers, ZeroHeader
<1>3. nth = 1 /\ ImageTypes /\ Len(files) \in Nat \ {0}
  BY <1>1, ContentType DEF ImageInv, InTurn
<1>4. ImageTypes' /\ LastIsHeader'
  BY <1>1, <1>2, <1>3 DEF ImageTypes, LastIsHeader
<1>5. InTurn'
  BY <1>1, <1>3 DEF InTurn, ImageTypes
<1>6. SingleInv'
  BY <1>1, <1>2 DEF SingleInv, Written
<1>7. MultiInv'
  <2>1. TableTo(Contents', << >>, 0)
    BY DEF TableTo
  <2>2. nth' - 1 = 0 /\ Len(<< >>) = 4 * 0
    BY <1>1, <1>3
  <2>3. QED
    BY <1>1, <1>2, <2>1, <2>2 DEF MultiInv, Written, ImageTypes
<1>8. QED
  BY <1>4, <1>5, <1>6, <1>7 DEF ImageInv

LEMMA SizeStep == ASSUME ImageInv, WriteSize PROVE ImageInv'
<1> DEFINE cs == Contents
           b == image.body
<1>1. /\ at = "sizes" /\ ImageTypes /\ UNCHANGED <<files, multi, xip, data, altered>>
      /\ Len(files) \in Nat \ {0} /\ Len(cs) = Len(files) /\ nth \in 1..(Len(files) + 1)
      /\ b \in Seq(Bytes) /\ image.head.hcrc = FALSE
  BY ContentType DEF WriteSize, given, ImageInv, InTurn, ImageTypes, LastIsHeader, Headers
<1>2. Contents' = cs
  BY <1>1 DEF Contents
<1>3. (~altered /\ multi /\ ~xip) => Len(b) = 4 * (nth - 1) /\ TableTo(cs, b, nth - 1)
  BY <1>1 DEF ImageInv, MultiInv
<1>4. CASE nth > Len(files)
  <2>1. Write(Word(0)) /\ at' = "files" /\ nth' = 1 /\ nth = Len(files) + 1
    BY <1>1, <1>4 DEF WriteSize
  <2> DEFINE w == Word(0)
  <2>2. w \in Seq(Bytes) /\ Len(w) = 4 /\ w[1] = <<"size", 0>>
    BY WordType
  <2>3. /\ image'.head = image.head /\ image'.body = b \o w
        /\ image' \in [head : Headers, body : Seq(Bytes)]
    BY <1>1, <2>1, <2>2, WriteType
  <2>4. ImageTypes' /\ LastIsHeader' /\ InTurn'
    BY <1>1, <2>1, <2>3 DEF ImageTypes, LastIsHeader, InTurn
  <2>5. SingleInv'
    BY <1>1, <2>1 DEF SingleInv, Written, ImageInv, InTurn
  <2>6. ASSUME ~altered, multi, ~xip
        PROVE  Table(cs, b \o w) /\ \E st : Laid(cs, b \o w, st, 0) /\ Len(b \o w) = st[1]
    <3>1. Len(b) = 4 * Len(cs) /\ TableTo(cs, b, Len(cs)) /\ Len(cs) \in Nat \ {0}
      BY <1>1, <1>3, <2>1, <2>6
    <3> HIDE DEF w, cs, b
    <3>2. TableTo(cs, b \o w, Len(cs))
      BY <1>1, <2>2, <3>1, StaysIn
    <3>3. Len(b \o w) = 4 * (Len(cs) + 1) /\ (b \o w)[4 * Len(cs) + 1] = <<"size", 0>>
      <4>1. b \in Seq(Bytes) /\ w \in Seq(Bytes)
        BY <1>1, <2>2
      <4>2. Len(b \o w) = Len(b) + Len(w) /\ \A i \in 1..Len(w) : (b \o w)[Len(b) + i] = w[i]
        BY <4>1, Appended
      <4>3. Len(b) + 1 = 4 * Len(cs) + 1 /\ 1 \in 1..Len(w) /\ Len(b) + Len(w) = 4 * (Len(cs) + 1)
        BY <2>2, <3>1
      <4>4. QED
        BY <2>2, <4>2, <4>3
    <3> DEFINE st == [k \in 1..Len(cs) |-> 4 * (Len(cs) + 1)]
    <3>4. st \in [1..Len(cs) -> Nat] /\ st[1] = 4 * (Len(cs) + 1)
      BY <3>1
    <3> HIDE DEF st
    <3>5. Laid(cs, b \o w, st, 0) /\ Len(b \o w) = st[1]
      BY <3>3, <3>4 DEF Laid
    <3>6. QED
      BY <3>2, <3>3, <3>5 DEF Table
  <2>7. MultiInv'
    BY <1>1, <1>2, <2>1, <2>3, <2>6 DEF MultiInv, Written
  <2>8. QED
    BY <2>4, <2>5, <2>7 DEF ImageInv
<1>5. CASE ~(nth > Len(files)) /\ data[files[nth]] = NoData
  <2>1. at' = "failed" /\ UNCHANGED <<image, nth>>
    BY <1>5 DEF WriteSize
  <2>2. QED
    BY <1>1, <2>1 DEF ImageInv, ImageTypes, LastIsHeader, InTurn, SingleInv, MultiInv, Written
<1>6. CASE ~(nth > Len(files)) /\ data[files[nth]] # NoData
  <2>1. Write(Word(Len(data[files[nth]]))) /\ nth' = nth + 1 /\ at' = at /\ nth \in 1..Len(files)
    BY <1>1, <1>6 DEF WriteSize
  <2>2. cs[nth] = data[files[nth]] /\ Len(cs[nth]) \in Nat
    BY <1>1, <1>6, <2>1, ContentType
  <2> DEFINE w == Word(Len(cs[nth]))
  <2>3. w \in Seq(Bytes) /\ Len(w) = 4 /\ w[1] = <<"size", Len(cs[nth])>>
    BY <2>2, WordType
  <2>4. /\ image'.head = image.head /\ image'.body = b \o w
        /\ image' \in [head : Headers, body : Seq(Bytes)]
    BY <1>1, <2>1, <2>2, <2>3, WriteType
  <2>5. ImageTypes' /\ LastIsHeader' /\ InTurn' /\ SingleInv'
    BY <1>1, <2>1, <2>4 DEF ImageInv, ImageTypes, LastIsHeader, InTurn, SingleInv, Written
  <2>6. ASSUME ~altered, multi, ~xip
        PROVE  Len(b \o w) = 4 * nth /\ TableTo(cs, b \o w, nth)
    <3>1. Len(b) = 4 * (nth - 1) /\ TableTo(cs, b, nth - 1) /\ nth \in Nat /\ nth - 1 \in Nat
      BY <1>1, <1>3, <2>1, <2>6
    <3> HIDE DEF w, cs, b
    <3>2. TableTo(cs, b \o w, nth - 1)
      BY <1>1, <2>3, <3>1, StaysIn
    <3>3. Len(b \o w) = 4 * nth /\ (b \o w)[4 * nth - 3] = <<"size", Len(cs[nth])>>
      <4>1. b \in Seq(Bytes) /\ w \in Seq(Bytes)
        BY <1>1, <2>3
      <4>2. Len(b \o w) = Len(b) + Len(w) /\ \A i \in 1..Len(w) : (b \o w)[Len(b) + i] = w[i]
        BY <4>1, Appended
      <4>3. Len(b) + 1 = 4 * nth - 3 /\ 1 \in 1..Len(w) /\ Len(b) + Len(w) = 4 * nth
        BY <2>3, <3>1
      <4>4. w[1] = <<"size", Len(cs[nth])>>
        BY <2>3 DEF w
      <4>5. QED
        BY <4>2, <4>3, <4>4
    <3>4. ASSUME NEW k \in 1..nth PROVE (b \o w)[4 * k - 3] = <<"size", Len(cs[k])>>
      <4>1. k = nth \/ k \in 1..(nth - 1)
        BY <3>1
      <4>2. QED
        BY <3>2, <3>3, <4>1 DEF TableTo
    <3>5. QED
      BY <3>3, <3>4 DEF TableTo
  <2>7. MultiInv'
    <3>1. nth' - 1 = nth
      BY <1>1, <2>1
    <3>2. QED
      BY <1>1, <1>2, <2>1, <2>4, <2>6, <3>1 DEF MultiInv, Written
  <2>8. QED
    BY <2>5, <2>7 DEF ImageInv
<1>7. QED
  BY <1>4, <1>5, <1>6

(* One file more, and what pads it.                                        *)
Fits(cs, b, st, n, w) ==
    /\ Len(cs) \in Nat /\ n \in 1..Len(cs) /\ b \in Seq(Bytes) /\ w \in Seq(Bytes)
    /\ Laid(cs, b, st, n - 1) /\ Len(b) = st[n]
    /\ cs[n] \in Seq(Bytes) /\ cs[n] # << >>
    /\ n < Len(cs) => Len(w) = Even(Len(cs[n]))
    /\ n = Len(cs) => Len(w) = Len(cs[n])
    /\ \A i \in 1..Len(cs[n]) : w[i] = cs[n][i]

LEMMA OneMore ==
    ASSUME NEW cs, NEW b, NEW st, NEW n, NEW w, Fits(cs, b, st, n, w)
    PROVE  \E s2 : /\ Laid(cs, b \o w, s2, n)
                   /\ n < Len(cs) => Len(b \o w) = s2[n + 1]
                   /\ n = Len(cs) => Len(b \o w) = s2[n] + Len(cs[n])
<1> DEFINE c == cs[n]
           bw == b \o w
<1>0. /\ c \in Seq(Bytes) /\ c # << >> /\ c = cs[n] /\ bw = b \o w
      /\ n < Len(cs) => Len(w) = Even(Len(c))
      /\ n = Len(cs) => Len(w) = Len(c)
  BY DEF Fits
<1>01. \A i \in 1..Len(c) : w[i] = c[i]
  BY DEF Fits
<1>02. Len(cs) \in Nat /\ n \in 1..Len(cs) /\ b \in Seq(Bytes) /\ w \in Seq(Bytes)
  BY DEF Fits
<1>03. Laid(cs, b, st, n - 1) /\ Len(b) = st[n]
  BY DEF Fits
<1> HIDE DEF c, bw
<1>1. Len(c) \in Nat \ {0} /\ n \in Nat /\ n \in 1..Len(cs) /\ Len(cs) \in Nat
  BY <1>0, <1>02
<1>2. Len(w) \in Nat /\ Len(w) >= Len(c)
  <2>1. Even(Len(c)) >= Len(c) /\ Len(w) \in Nat
    BY <1>1, <1>02, EvenIs
  <2>2. QED
    BY <1>0, <1>1, <2>1
<1>3. /\ st \in [1..Len(cs) -> Nat] /\ st[1] = 4 * (Len(cs) + 1)
      /\ \A k \in 1..(n - 1) : FileIn(cs[k], b, st[k])
      /\ \A k \in 1..(n - 1) : k < Len(cs) => st[k + 1] = st[k] + Even(Len(cs[k]))
  BY <1>03 DEF Laid
<1>30. st \in [1..Len(cs) -> Nat]
  BY <1>3
<1> DEFINE m == st[n] + Even(Len(c))
           s2 == [k \in 1..Len(cs) |-> IF k = n + 1 THEN m ELSE st[k]]
<1>4. Even(Len(c)) \in Nat /\ st[n] \in Nat
  BY <1>1, <1>3, EvenIs
<1>40. m \in Nat /\ m = st[n] + Even(Len(c))
  BY <1>4
<1> HIDE DEF m
<1>5. /\ s2 \in [1..Len(cs) -> Nat] /\ \A k \in 1..n : s2[k] = st[k]
      /\ n < Len(cs) => s2[n + 1] = m
  <2>1. \A k \in 1..Len(cs) : st[k] \in Nat
    BY <1>30
  <2>2. s2 \in [1..Len(cs) -> Nat] /\ \A k \in 1..Len(cs) : s2[k] = IF k = n + 1 THEN m ELSE st[k]
    BY <1>40, <2>1
  <2> HIDE DEF s2
  <2>3. n < Len(cs) => n + 1 \in 1..Len(cs)
    BY <1>1
  <2>4. \A k \in 1..n : k \in 1..Len(cs) /\ k # n + 1
    BY <1>1
  <2>5. QED
    BY <2>2, <2>3, <2>4
<1> HIDE DEF s2
<1>6. Len(bw) = st[n] + Len(w) /\ \A i \in 1..Len(w) : bw[st[n] + i] = w[i]
  <2>1. /\ Len(b \o w) = Len(b) + Len(w) /\ \A i \in 1..Len(w) : (b \o w)[Len(b) + i] = w[i]
    BY <1>02, Appended
  <2>2. QED
    BY <1>0, <1>03, <2>1
<1>7. FileIn(c, bw, st[n])
  <2>1. \A i \in 1..Len(c) : i \in 1..Len(w)
    BY <1>1, <1>2
  <2>2. st[n] + Len(c) <= Len(bw) /\ Len(c) > 0
    BY <1>1, <1>2, <1>4, <1>6
  <2>3. \A i \in 1..Len(c) : bw[st[n] + i] = c[i]
    BY <1>01, <1>6, <2>1
  <2>4. QED
    BY <1>0, <2>2, <2>3 DEF FileIn
<1>8. ASSUME NEW k \in 1..(n - 1) PROVE FileIn(cs[k], bw, st[k])
  <2>1. k \in 1..Len(cs)
    BY <1>1
  <2>2. FileIn(cs[k], b, st[k])
    BY <1>3
  <2>3. cs[k] \in Seq(Bytes)
    BY <2>2 DEF FileIn
  <2>4. Len(cs[k]) \in Nat /\ st[k] \in Nat
    BY <1>30, <2>1, <2>3
  <2>5. FileIn(cs[k], b \o w, st[k])
    BY <1>02, <2>2, <2>4, StaysIn
  <2>6. QED
    BY <1>0, <2>5
<1>9. ASSUME NEW k \in 1..n
      PROVE  FileIn(cs[k], bw, s2[k]) /\ (k < Len(cs) => s2[k + 1] = s2[k] + Even(Len(cs[k])))
  <2>1. CASE k = n
    BY <1>0, <1>1, <1>5, <1>7, <1>40, <2>1
  <2>2. CASE k # n
    <3>1. k \in 1..(n - 1) /\ k + 1 \in 1..n
      BY <1>1, <2>2
    <3>2. QED
      BY <1>3, <1>5, <1>8, <3>1
  <2>3. QED
    BY <2>1, <2>2
<1>10. s2[1] = 4 * (Len(cs) + 1)
  BY <1>1, <1>3, <1>5
<1>11. Laid(cs, bw, s2, n)
  BY <1>5, <1>9, <1>10 DEF Laid
<1>12. n < Len(cs) => Len(bw) = s2[n + 1]
  BY <1>0, <1>1, <1>2, <1>4, <1>40, <1>5, <1>6
<1>13. n = Len(cs) => Len(bw) = s2[n] + Len(c)
  BY <1>0, <1>1, <1>2, <1>4, <1>5, <1>6
<1>14. QED
  BY <1>0, <1>11, <1>12, <1>13

LEMMA CopyStep == ASSUME ImageInv, copy_file PROVE ImageInv'
<1> DEFINE cs == Contents
           b == image.body
           c == data[files[nth]]
           last == ~multi \/ nth = Len(files)
<1>1. /\ at = "files" /\ ImageTypes /\ UNCHANGED <<files, multi, xip, data, altered>>
      /\ Len(files) \in Nat \ {0} /\ Len(cs) = Len(files) /\ nth \in 1..Len(files)
      /\ b \in Seq(Bytes) /\ image.head.hcrc = FALSE /\ last \in BOOLEAN /\ c = cs[nth]
  BY ContentType DEF copy_file, given, ImageInv, InTurn, ImageTypes, LastIsHeader, Headers
<1>2. Contents' = cs
  BY <1>1 DEF Contents
<1>3. CASE Unusable(c)
  <2>1. at' = "failed" /\ UNCHANGED <<image, nth>>
    BY <1>3 DEF copy_file
  <2>2. QED
    BY <1>1, <2>1 DEF ImageInv, ImageTypes, LastIsHeader, InTurn, SingleInv, MultiInv, Written
<1>4. CASE ~Unusable(c)
  <2>1. Write(Copied(c, last)) /\ nth' = nth + 1 /\ at' = IF last THEN "header" ELSE at
    BY <1>4 DEF copy_file
  <2>2. c # NoData /\ c # << >>
    BY <1>4 DEF Unusable
  <2>3. c \in Seq(Bytes)
    BY <1>1, <2>2, ContentType
  <2> DEFINE w == Copied(c, last)
  <2>4. /\ w \in Seq(Bytes)
        /\ ~xip => /\ w = c \o Padding(Len(c), last)
                   /\ Padding(Len(c), last) \in Seq(Bytes)
                   /\ Len(Padding(Len(c), last)) = IF last THEN 0 ELSE Even(Len(c)) - Len(c)
    BY <1>1, <2>3, CopiedType
  <2>5. /\ image'.head = image.head /\ image'.body = b \o w
        /\ image' \in [head : Headers, body : Seq(Bytes)]
    BY <1>1, <2>1, <2>4, WriteType
  <2>6. ImageTypes' /\ LastIsHeader' /\ InTurn'
    BY <1>1, <2>1, <2>5 DEF ImageTypes, LastIsHeader, InTurn
  <2>7. SingleInv'
    <3>1. ASSUME ~altered, ~multi PROVE image'.body = Copied(cs[1], TRUE) /\ at' = "header"
      <4>1. b = << >>
        BY <1>1, <3>1 DEF ImageInv, SingleInv
      <4>2. nth = 1 /\ last = TRUE
        BY <1>1, <3>1 DEF ImageTypes
      <4>3. w = Copied(cs[1], TRUE) /\ at' = "header"
        BY <1>1, <2>1, <4>2
      <4>4. << >> \o w = w
        BY <2>4
      <4>5. QED
        BY <2>5, <4>1, <4>3, <4>4
    <3>2. (Copied(Contents[1], TRUE))' = Copied(cs[1], TRUE)
      BY <1>1, <1>2 DEF Copied
    <3>3. QED
      BY <1>1, <1>2, <3>1, <3>2 DEF SingleInv
  <2>8. MultiInv'
    <3>1. SUFFICES ASSUME ~altered, multi, ~xip
                   PROVE  /\ Table(cs, b \o w)
                          /\ nth < Len(files) => \E s2 : Laid(cs, b \o w, s2, nth) /\ Len(b \o w) = s2[nth + 1]
                          /\ nth = Len(files) => AllLaid(cs, b \o w)
      <4>1. nth' - 1 = nth /\ (nth < Len(files) \/ nth = Len(files))
        BY <1>1, <2>1
      <4> HIDE DEF w, cs, b, c
      <4>2. QED
        BY <1>1, <1>2, <2>1, <2>5, <4>1 DEF MultiInv, Written
    <3>2. PICK st : Laid(cs, b, st, nth - 1) /\ Len(b) = st[nth]
      BY <1>1, <3>1 DEF ImageInv, MultiInv
    <3>3. Table(cs, b)
      BY <1>1, <3>1 DEF ImageInv, MultiInv
    <3> DEFINE pad == Padding(Len(c), last)
    <3>4. w = c \o pad /\ pad \in Seq(Bytes) /\ c = cs[nth]
          /\ Len(pad) = IF nth = Len(cs) THEN 0 ELSE Even(Len(cs[nth])) - Len(cs[nth])
      BY <1>1, <2>4, <3>1
    <3>5. cs[nth] \in Seq(Bytes) /\ cs[nth] # << >>
      BY <1>1, <2>2, <2>3
    <3> HIDE DEF w, cs, b, c, pad, last
    <3>6. Table(cs, b \o w)
      BY <1>1, <2>4, <3>3, StaysIn
    <3>7. \E s2 : /\ Laid(cs, b \o w, s2, nth)
                  /\ nth < Len(cs) => Len(b \o w) = s2[nth + 1]
                  /\ nth = Len(cs) => Len(b \o w) = s2[nth] + Len(cs[nth])
      <4>1. Len(cs) \in Nat /\ nth \in 1..Len(cs) /\ b \in Seq(Bytes)
            /\ cs[nth] \in Seq(Bytes) /\ cs[nth] # << >> /\ w \in Seq(Bytes)
        BY <1>1, <2>2, <2>3, <2>4, <3>4
      <4>3. /\ nth < Len(cs) => Len(w) = Even(Len(cs[nth]))
            /\ nth = Len(cs) => Len(w) = Len(cs[nth])
            /\ \A i \in 1..Len(cs[nth]) : w[i] = cs[nth][i]
        <5>1. Even(Len(cs[nth])) \in Nat /\ Len(cs[nth]) \in Nat
          <6>1. Len(cs[nth]) \in Nat
            BY <4>1
          <6>2. QED
            BY <6>1, EvenIs
        <5>2. /\ Len(w) = Len(cs[nth]) + Len(pad) /\ \A i \in 1..Len(cs[nth]) : w[i] = cs[nth][i]
          <6>1. cs[nth] \in Seq(Bytes) /\ pad \in Seq(Bytes) /\ w = cs[nth] \o pad
            BY <3>4, <4>1
          <6>2. QED
            BY <6>1, Appended
        <5>3. QED
          BY <3>4, <5>1, <5>2
      <4>2. Laid(cs, b, st, nth - 1) /\ Len(b) = st[nth]
        BY <3>2
      <4>4. Fits(cs, b, st, nth, w)
        BY <4>1, <4>2, <4>3 DEF Fits
      <4>5. QED
        BY <4>4, OneMore
    <3>8. QED
      BY <1>1, <3>6, <3>7 DEF AllLaid
  <2>9. QED
    BY <2>6, <2>7, <2>8 DEF ImageInv
<1>5. QED
  BY <1>3, <1>4
LEMMA HeaderSteps ==
    ASSUME ImageInv, StoreHeader \/ StoreHeaderChecksum
    PROVE  ImageInv'
<1>1. /\ at \in Written /\ at' \in Written \ {"header"} /\ ImageTypes
      /\ UNCHANGED <<files, multi, xip, data, nth, altered>>
  BY DEF StoreHeader, StoreHeaderChecksum, given, Written, ImageInv
<1>2. /\ image'.body = image.body /\ image' \in [head : Headers, body : Seq(Bytes)]
      /\ image'.head.hcrc => at' = "done"
  <2>1. image \in [head : Headers, body : Seq(Bytes)] /\ image.head \in Headers /\ image.body \in Seq(Bytes)
    BY <1>1 DEF ImageTypes
  <2>2. CASE StoreHeader
    <3> DEFINE d == image.body
    <3>1. image' = [image EXCEPT !.head = [image.head EXCEPT !.magic = TRUE, !.dcrc = d]]
      BY <2>2 DEF StoreHeader, crc32
    <3>2. d \in Seq(Bytes) /\ image.head.hcrc = FALSE
      BY <2>1, <2>2 DEF ImageInv, LastIsHeader, StoreHeader, Headers
    <3> HIDE DEF d
    <3>3. [image.head EXCEPT !.magic = TRUE, !.dcrc = d] \in Headers
          /\ [image.head EXCEPT !.magic = TRUE, !.dcrc = d].hcrc = FALSE
      BY <2>1, <3>2 DEF Headers
    <3>4. QED
      BY <2>1, <3>1, <3>3
  <2>3. CASE StoreHeaderChecksum
    <3>1. image' = [image EXCEPT !.head = [image.head EXCEPT !.hcrc = TRUE]] /\ at' = "done"
      BY <2>3 DEF StoreHeaderChecksum
    <3>2. [image.head EXCEPT !.hcrc = TRUE] \in Headers
      BY <2>1 DEF Headers
    <3>3. QED
      BY <2>1, <3>1, <3>2
  <2>4. QED
    BY <2>2, <2>3
<1>3. Contents' = Contents /\ (Copied(Contents[1], TRUE))' = Copied(Contents[1], TRUE)
  BY <1>1 DEF Contents, Copied
<1>4. ImageTypes' /\ LastIsHeader' /\ InTurn'
  BY <1>1, <1>2 DEF ImageTypes, LastIsHeader, InTurn, Written
<1>5. SingleInv'
  BY <1>1, <1>2, <1>3 DEF ImageInv, SingleInv, Written
<1>6. MultiInv'
  BY <1>1, <1>2, <1>3 DEF ImageInv, MultiInv, Written
<1>7. QED
  BY <1>4, <1>5, <1>6 DEF ImageInv

LEMMA OutsideSteps ==
    ASSUME ImageInv, \/ KillImage \/ ImageAgain
                     \/ \E f \in ToSet(files), c \in Data : ChangeData(f, c)
    PROVE  ImageInv'
<1>1. ImageTypes
  BY DEF ImageInv
<1>2. CASE KillImage
  BY <1>1, <1>2 DEF KillImage, given, ImageInv, ImageTypes, LastIsHeader, InTurn, SingleInv, MultiInv, Written
<1>3. CASE ImageAgain
  BY <1>1, <1>3 DEF ImageAgain, given, ImageInv, ImageTypes, LastIsHeader, InTurn, SingleInv, MultiInv, Written
<1>4. ASSUME NEW f \in ToSet(files), NEW c \in Data, ChangeData(f, c) PROVE ImageInv'
  <2>1. /\ UNCHANGED <<files, multi, xip, image, at, nth>> /\ at \in {"sizes", "files"}
        /\ altered' = TRUE /\ data' = [data EXCEPT ![f] = c]
    BY <1>4 DEF ChangeData, given
  <2>2. data' \in [ToSet(files) -> Data \cup {NoData}]
    BY <1>1, <2>1 DEF ImageTypes
  <2>3. ImageTypes'
    BY <1>1, <2>1, <2>2 DEF ImageTypes
  <2>4. QED
    BY <2>1, <2>3 DEF ImageInv, LastIsHeader, InTurn, SingleInv, MultiInv
<1>5. QED
  BY <1>2, <1>3, <1>4

(* Every state mkimage and its surroundings reach has the types it should, *)
(* and while no file changed the image holds as much as was written, the   *)
(* sizes and the files each where it belongs.                              *)
THEOREM ImageInvariant == ImageSpec => []ImageInv
<1>1. ImageInv /\ [ImageNext]_imagevars => ImageInv'
  <2> SUFFICES ASSUME ImageInv, [ImageNext]_imagevars PROVE ImageInv'
    OBVIOUS
  <2>1. CASE UNCHANGED imagevars
    <3>1. UNCHANGED <<files, multi, xip, data, image, at, nth, altered>>
      BY <2>1 DEF imagevars
    <3>2. Contents' = Contents /\ (Copied(Contents[1], TRUE))' = Copied(Contents[1], TRUE)
      BY <3>1 DEF Contents, Copied
    <3>3. ImageTypes' /\ LastIsHeader' /\ InTurn'
      BY <3>1 DEF ImageInv, ImageTypes, LastIsHeader, InTurn
    <3>4. SingleInv' /\ MultiInv'
      BY <3>1, <3>2 DEF ImageInv, SingleInv, MultiInv
    <3>5. QED
      BY <3>3, <3>4 DEF ImageInv
  <2>2. CASE ImageNext
    BY <2>2, OpenStep, SizeStep, CopyStep, HeaderSteps, OutsideSteps DEF ImageNext
  <2>3. QED
    BY <2>1, <2>2
<1>2. QED
  BY <1>1, ImageInvInit, PTL DEF ImageSpec
-----------------------------------------------------------------------------
(* What a reader of the image finds *)

LEMMA LeastNumber ==
    ASSUME NEW S \in SUBSET Nat, S # {}
    PROVE  \E n \in S : \A m \in S : n <= m
<1>1. PICK n \in S : \A m \in S : ~(<<m, n>> \in OpToRel(<, Nat))
  BY WFMin, NatLessThanWellFounded, Zenon
<1>2. \A m \in S : ~(m < n)
  BY <1>1 DEF OpToRel
<1>3. QED
  BY <1>2

(* The table ends at its first zero: no file of an image is empty.         *)
LEMMA SizesFound ==
    ASSUME NEW cs, Len(cs) \in Nat, image.body \in Seq(Bytes), Table(cs, image.body),
           \A k \in 1..Len(cs) : Len(cs[k]) \in Nat /\ Len(cs[k]) > 0
    PROVE  Sizes = [k \in 1..Len(cs) |-> Len(cs[k])]
<1> DEFINE b == image.body
           N == Len(cs)
           Ends(k) == /\ b[4 * k + 1] = <<"size", 0>>
                      /\ \A j \in 0..(k - 1) : b[4 * j + 1] # <<"size", 0>>
           end == CHOOSE k \in 0..Len(b) : Ends(k)
<1>1. Len(b) \in Nat /\ N \in 0..Len(b) /\ b[4 * N + 1] = <<"size", 0>>
  BY DEF Table
<1>2. \A j \in 0..(N - 1) : b[4 * j + 1] = <<"size", Len(cs[j + 1])>> /\ Len(cs[j + 1]) # 0
  <2>1. ASSUME NEW j \in 0..(N - 1)
        PROVE  b[4 * j + 1] = <<"size", Len(cs[j + 1])>> /\ Len(cs[j + 1]) # 0
    <3>1. j + 1 \in 1..N /\ 4 * (j + 1) - 3 = 4 * j + 1
      OBVIOUS
    <3>2. b[4 * (j + 1) - 3] = <<"size", Len(cs[j + 1])>>
      BY <3>1 DEF Table, TableTo
    <3>3. QED
      BY <3>1, <3>2
  <2>2. QED
    BY <2>1
<1>3. ASSUME NEW j \in 0..(N - 1) PROVE b[4 * j + 1] # <<"size", 0>>
  <2>1. \A n : <<"size", n>>[2] = n
    OBVIOUS
  <2>2. <<"size", Len(cs[j + 1])>>[2] = Len(cs[j + 1]) /\ <<"size", 0>>[2] = 0 /\ Len(cs[j + 1]) # 0
    BY <1>2, <2>1
  <2> HIDE DEF b
  <2>3. b[4 * j + 1] = <<"size", Len(cs[j + 1])>>
    BY <1>2
  <2>4. QED
    BY <2>2, <2>3
<1>4. Ends(N)
  BY <1>1, <1>3
<1>5. ASSUME NEW k \in 0..Len(b), Ends(k) PROVE k = N
  <2>1. k <= N
    <3>1. SUFFICES ASSUME k > N PROVE FALSE
      BY <1>1
    <3>2. N \in 0..(k - 1)
      BY <1>1, <3>1
    <3>3. QED
      BY <1>1, <1>5, <3>2
  <2>2. ~(k < N)
    <3>1. SUFFICES ASSUME k < N PROVE FALSE
      OBVIOUS
    <3>2. k \in 0..(N - 1)
      BY <1>1, <3>1
    <3>3. QED
      BY <1>3, <1>5, <3>2
  <2>3. QED
    BY <1>1, <2>1, <2>2
<1> HIDE DEF Ends
<1>6. end = N
  BY <1>1, <1>4, <1>5
<1>7. Sizes = [k \in 1..end |-> b[4 * k - 3][2]]
  BY DEF Sizes, Ends
<1>8. \A k \in 1..N : b[4 * k - 3] = <<"size", Len(cs[k])>>
  BY DEF Table, TableTo
<1> HIDE DEF end, b
<1>9. \A k \in 1..N : b[4 * k - 3][2] = Len(cs[k])
  BY <1>8
<1>10. QED
  BY <1>6, <1>7, <1>9

(* The places of image.h are those where the files were written.           *)
LEMMA StartsFound ==
    ASSUME NEW cs, Len(cs) \in Nat \ {0}, NEW b, NEW st, Laid(cs, b, st, Len(cs)),
           NEW sizes, sizes = [k \in 1..Len(cs) |-> Len(cs[k])]
    PROVE  \A k \in 1..Len(cs) : StartsOf(sizes)[k] = st[k]
<1> DEFINE N == Len(cs)
           Next1(f, k) == IF k = 1 THEN 4 * (Len(sizes) + 1) ELSE f[k - 1] + Even(sizes[k - 1])
           start == CHOOSE f : f = [k \in DOMAIN sizes |-> Next1(f, k)]
<1>1. DOMAIN sizes = 1..N /\ Len(sizes) = N /\ N \in Nat \ {0} /\ \A k \in 1..N : sizes[k] = Len(cs[k])
  OBVIOUS
<1>2. st = [k \in 1..N |-> st[k]] /\ st[1] = 4 * (N + 1)
      /\ \A k \in 1..N : k < N => st[k + 1] = st[k] + Even(Len(cs[k]))
  BY DEF Laid
<1>3. \A k \in 1..N : st[k] = Next1(st, k)
  <2>1. ASSUME NEW k \in 1..N, k # 1 PROVE st[k] = st[k - 1] + Even(sizes[k - 1])
    <3>1. k - 1 \in 1..N /\ k - 1 < N /\ (k - 1) + 1 = k
      BY <1>1, <2>1
    <3>2. QED
      BY <1>1, <1>2, <3>1
  <2>2. QED
    BY <1>1, <1>2, <2>1
<1>4. st = [k \in DOMAIN sizes |-> Next1(st, k)]
  <2> HIDE DEF Next1
  <2>1. QED
    BY <1>1, <1>2, <1>3
<1>5. start = [k \in DOMAIN sizes |-> Next1(start, k)]
  <2> HIDE DEF Next1
  <2>1. QED
    BY <1>4
<1>6. StartsOf(sizes) = start
  BY DEF StartsOf
<1> HIDE DEF start
<1>7. start[1] = st[1] /\ \A k \in 1..N : k # 1 => start[k] = start[k - 1] + Even(sizes[k - 1])
  <2>1. \A k \in 1..N : start[k] = Next1(start, k)
    <3> HIDE DEF Next1
    <3>1. QED
      BY <1>1, <1>5
  <2>2. 1 \in 1..N /\ start[1] = 4 * (N + 1)
    <3>1. 1 \in 1..N
      BY <1>1
    <3>2. start[1] = Next1(start, 1)
      BY <2>1, <3>1
    <3>3. Next1(start, 1) = 4 * (N + 1)
      BY <1>1
    <3> HIDE DEF Next1
    <3>4. QED
      BY <3>1, <3>2, <3>3
  <2>3. ASSUME NEW k \in 1..N, k # 1 PROVE start[k] = start[k - 1] + Even(sizes[k - 1])
    <3>1. start[k] = Next1(start, k)
      BY <2>1
    <3>2. Next1(start, k) = start[k - 1] + Even(sizes[k - 1])
      BY <2>3
    <3> HIDE DEF Next1
    <3>3. QED
      BY <3>1, <3>2
  <2>4. start[1] = st[1]
    BY <1>2, <2>2
  <2>5. QED
    BY <2>3, <2>4
<1> DEFINE Wrong == {k \in 1..N : start[k] # st[k]}
<1>8. Wrong = {}
  <2>1. SUFFICES ASSUME Wrong # {} PROVE FALSE
    OBVIOUS
  <2>2. PICK k \in Wrong : \A j \in Wrong : k <= j
    <3>1. Wrong \in SUBSET Nat
      OBVIOUS
    <3> HIDE DEF Wrong
    <3>2. QED
      BY <2>1, <3>1, LeastNumber
  <2>3. k \in 1..N /\ k # 1 /\ start[k] # st[k]
    BY <1>7
  <2>4. k - 1 \in 1..N /\ k - 1 \notin Wrong
    BY <1>1, <2>2, <2>3
  <2>5. start[k - 1] = st[k - 1]
    BY <2>4
  <2>6. QED
    BY <1>3, <1>7, <2>3, <2>5
<1>9. QED
  BY <1>6, <1>8

(* An accepted image holds every file at the place and of the size its     *)
(* table says and nothing after the last, for any number of files of any   *)
(* size and however often mkimage was killed and begun again: the header   *)
(* is completed by the last step (mkimage.c:472-516), and when it is, the  *)
(* table and every file have been written where they belong.               *)
THEOREM AcceptedImageIsWhole == ImageSpec => []AcceptedIsWhole
<1>1. ImageInv => AcceptedIsWhole
  <2> SUFFICES ASSUME ImageInv, Accepted, ~altered
               PROVE  \/ ~multi /\ image.body = Copied(data[files[1]], TRUE)
                      \/ multi /\ xip
                      \/ /\ multi /\ ~xip /\ Len(Sizes) = Len(files)
                         /\ \A k \in DOMAIN files : FileAt(k) = data[files[k]]
                         /\ Len(image.body) = StartsOf(Sizes)[Len(files)] + Sizes[Len(files)]
    BY DEF AcceptedIsWhole
  <2> DEFINE cs == Contents
             b == image.body
  <2>1. at \in Written /\ ImageTypes
    BY DEF ImageInv, LastIsHeader, Accepted, Written
  <2>2. /\ Len(files) \in Nat \ {0} /\ Len(cs) = Len(files) /\ b \in Seq(Bytes)
        /\ \A k \in 1..Len(files) : cs[k] = data[files[k]]
    BY <2>1, ContentType DEF ImageTypes
  <2>3. CASE ~multi
    <3>1. b = Copied(cs[1], TRUE)
      BY <2>1, <2>3 DEF ImageInv, SingleInv
    <3>2. cs[1] = data[files[1]]
      BY <2>2
    <3>3. QED
      BY <2>3, <3>1, <3>2
  <2>4. CASE multi /\ ~xip
    <3>1. Table(cs, b) /\ AllLaid(cs, b)
      BY <2>1, <2>4 DEF ImageInv, MultiInv
    <3>2. PICK st : Laid(cs, b, st, Len(cs)) /\ Len(b) = st[Len(cs)] + Len(cs[Len(cs)])
      BY <3>1 DEF AllLaid
    <3> HIDE DEF cs, b
    <3>3. \A k \in 1..Len(cs) : FileIn(cs[k], b, st[k]) /\ st[k] \in Nat
      BY <3>2 DEF Laid
    <3>4. \A k \in 1..Len(cs) : cs[k] \in Seq(Bytes) /\ Len(cs[k]) \in Nat /\ Len(cs[k]) > 0
      BY <3>3 DEF FileIn
    <3>5. Sizes = [k \in 1..Len(cs) |-> Len(cs[k])]
      BY <2>2, <3>1, <3>4, SizesFound DEF b
    <3>6. \A k \in 1..Len(cs) : StartsOf(Sizes)[k] = st[k]
      BY <2>2, <3>2, <3>5, StartsFound
    <3>7. /\ Len(Sizes) = Len(files) /\ Sizes[Len(cs)] = Len(cs[Len(cs)])
          /\ \A k \in 1..Len(cs) : Sizes[k] = Len(cs[k])
      BY <2>2, <3>5
    <3>8. ASSUME NEW k \in DOMAIN files PROVE FileAt(k) = data[files[k]]
      <4>1. k \in 1..Len(cs)
        BY <2>1, <2>2, DataType DEF ImageTypes
      <4> DEFINE from == st[k]
                 c == cs[k]
                 found == SubSeq(b, from + 1, from + Len(c))
      <4>2. FileAt(k) = found
        BY <3>6, <3>7, <4>1 DEF FileAt, b
      <4>3. /\ c \in Seq(Bytes) /\ Len(c) \in Nat /\ Len(c) > 0 /\ from \in Nat /\ from + Len(c) <= Len(b)
            /\ Len(b) \in Nat /\ b \in Seq(Bytes)
        BY <2>2, <3>3, <3>4, <4>1 DEF FileIn
      <4>4. \A i \in 1..Len(c) : b[from + i] = c[i]
        BY <3>3, <4>1 DEF FileIn
      <4> HIDE DEF from, c
      <4>5. \A i \in (from + 1)..(from + Len(c)) : b[i] \in Bytes
        <5>1. \A i \in (from + 1)..(from + Len(c)) : i \in 1..Len(b)
          BY <4>3
        <5>2. QED
          BY <4>3, <5>1
      <4>6. /\ found \in Seq(Bytes) /\ Len(found) = Len(c)
            /\ \A i \in 1..Len(c) : found[i] = b[from + i]
        <5>1. from + 1 \in Int /\ from + Len(c) \in Int
          BY <4>3
        <5>2. /\ SubSeq(b, from + 1, from + Len(c)) \in Seq(Bytes)
              /\ Len(found) = IF from + 1 <= from + Len(c) THEN (from + Len(c)) - (from + 1) + 1 ELSE 0
              /\ \A i \in 1..((from + Len(c)) - (from + 1) + 1) : found[i] = b[(from + 1) + i - 1]
          BY <4>5, <5>1, SubSeqProperties
        <5> HIDE DEF found
        <5>3. (from + Len(c)) - (from + 1) + 1 = Len(c) /\ from + 1 <= from + Len(c)
              /\ \A i \in 1..Len(c) : (from + 1) + i - 1 = from + i
          BY <4>3
        <5>4. QED
          BY <5>2, <5>3 DEF found
      <4> HIDE DEF found
      <4>7. \A i \in 1..Len(found) : found[i] = c[i]
        BY <4>4, <4>6
      <4>8. found = c
        BY <4>3, <4>6, <4>7, SeqEqual
      <4>9. QED
        BY <2>2, <4>1, <4>2, <4>8 DEF c
    <3>9. Len(b) = StartsOf(Sizes)[Len(files)] + Sizes[Len(files)]
      BY <2>2, <3>2, <3>6, <3>7
    <3>10. QED
      BY <2>4, <3>7, <3>8, <3>9 DEF b
  <2>5. QED
    BY <2>3, <2>4
<1>2. QED
  BY <1>1, ImageInvariant, PTL
=============================================================================
