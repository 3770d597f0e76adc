------------------------------- MODULE MkImage ------------------------------
(***************************************************************************)
(* src/mkimage/mkimage.c: a boot image made of data files, written in        *)
(* place: an empty header first, the table of sizes of a multi-file image,   *)
(* the files, and at the end the header with the checksums.  It may be       *)
(* killed between any two writes, a file may be missing, and a file may      *)
(* change while the image is made.                                           *)
(***************************************************************************)
EXTENDS Naturals, Sequences, SequencesExt

CONSTANTS DataFiles,    \* what -d names: sequences of files
          Data,         \* contents a file may have: sequences of bytes
          HeaderLen     \* sizeof(image_header_t), 64 in the program

CONSTANTS FF            \* the byte 0xff
NoData == <<"no such file">>
ASSUME ImageAssumption ==
    /\ HeaderLen \in Nat /\ NoData \notin Data
    /\ \A f \in DataFiles : f \in Seq(ToSet(f)) /\ f # << >>
    /\ \A c \in Data : c \in Seq(ToSet(c))
(* A word of the table takes four bytes.                                     *)
Word(n) == <<<<"size", n>>, "", "", "">>
ZeroHeader == [magic |-> FALSE, hcrc |-> FALSE, dcrc |-> << >>]

VARIABLES files,    \* the data files, in the order of -d
          multi,    \* type multi or script
          xip,      \* -x
          data,     \* [file -> contents]
          image,    \* [head, body]
          at,       \* "open", "sizes", "files", "header", "check", "done", "failed"
          nth,      \* the file whose size, or whose contents, comes next
          altered   \* history: a file changed while the image was made
imagevars == <<files, multi, xip, data, image, at, nth, altered>>
given == <<files, multi, xip>>

ImageInit ==
    /\ files \in DataFiles /\ multi \in BOOLEAN /\ xip \in BOOLEAN
    /\ multi \/ Len(files) = 1
    /\ data \in [ToSet(files) -> Data \cup {NoData}]
    /\ image = [head |-> ZeroHeader, body |-> << >>]
    /\ at = "open" /\ nth = 1 /\ altered = FALSE

Write(bytes) == image' = [image EXCEPT !.body = @ \o bytes]

(* The image is truncated and the empty header written.                      *)
OpenImage ==
    /\ at = "open" /\ at' = IF multi THEN "sizes" ELSE "files"
    /\ image' = [head |-> ZeroHeader, body |-> << >>]
    /\ UNCHANGED <<given, data, nth, altered>>

(* One word of the table: the size of the next file, or the zero that ends   *)
(* the table.                                                                *)
WriteSize ==
    /\ at = "sizes"
    /\ IF nth > Len(files)
       THEN Write(Word(0)) /\ at' = "files" /\ nth' = 1
       ELSE IF data[files[nth]] = NoData
       THEN at' = "failed" /\ UNCHANGED <<image, nth>>
       ELSE Write(Word(Len(data[files[nth]]))) /\ nth' = nth + 1 /\ UNCHANGED at
    /\ UNCHANGED <<given, data, altered>>

(* What copy_file writes: with -x not the bytes the header takes the place   *)
(* of, and of all files but the last a multiple of four bytes.               *)
Padding_Always(n, last) == [k \in 1..(4 - (n % 4)) |-> "pad"]
Padding(n, last) == IF last \/ n % 4 = 0 THEN << >> ELSE [k \in 1..(4 - (n % 4)) |-> "pad"]
Copied(c, last) ==
    LET bytes == IF xip THEN SubSeq(c, HeaderLen + 1, Len(c)) ELSE c
    IN bytes \o Padding(Len(bytes), last)

(* Missing; empty, which mmap rejects; too small for XIP, or not 0xff        *)
(* where the header will be.                                                 *)
Unusable(c) ==
    \/ c \in {NoData, << >>}
    \/ xip /\ (Len(c) < HeaderLen \/ \E k \in 1..HeaderLen : c[k] # FF)

copy_file ==
    /\ at = "files"
    /\ LET c == data[files[nth]]
           last == ~multi \/ nth = Len(files)
       IN IF Unusable(c) THEN at' = "failed" /\ UNCHANGED <<image, nth>>
          ELSE /\ Write(Copied(c, last)) /\ nth' = nth + 1
               /\ at' = IF last THEN "header" ELSE at
    /\ UNCHANGED <<given, data, altered>>

(* The fields of the header are stored one after the other, the checksum     *)
(* of the header last.  A checksum is as good as what it is taken of.        *)
crc32(bytes) == bytes
StoreHeader ==
    /\ at = "header" /\ at' = "check"
    /\ image' = [image EXCEPT !.head = [@ EXCEPT !.magic = TRUE, !.dcrc = crc32(image.body)]]
    /\ UNCHANGED <<given, data, nth, altered>>

StoreHeaderChecksum ==
    /\ at = "check" /\ at' = "done"
    /\ image' = [image EXCEPT !.head.hcrc = TRUE]
    /\ UNCHANGED <<given, data, nth, altered>>

(* Killed, or a write that fails: the image stays as it is.                  *)
KillImage == /\ at \notin {"done", "failed"} /\ at' = "failed"
             /\ UNCHANGED <<given, data, image, nth, altered>>

(* Somebody writes a data file.                                              *)
ChangeData(f, c) ==
    /\ at \in {"sizes", "files"} /\ ~altered /\ data[f] # c
    /\ data' = [data EXCEPT ![f] = c] /\ altered' = TRUE
    /\ UNCHANGED <<given, image, at, nth>>

(* make runs it again for the same image, whatever is left of it.            *)
ImageAgain == /\ at = "failed" /\ nth' = 1 /\ at' = "open" /\ altered' = FALSE
              /\ UNCHANGED <<given, data, image>>

ImageNext ==
    \/ OpenImage \/ WriteSize \/ copy_file \/ StoreHeader \/ StoreHeaderChecksum
    \/ KillImage \/ ImageAgain
    \/ \E f \in ToSet(files), c \in Data : ChangeData(f, c)
ImageSpec == ImageInit /\ [][ImageNext]_imagevars

-----------------------------------------------------------------------------
(* mkimage -l, which checks what a boot loader checks.                       *)
Accepted == image.head.magic /\ image.head.hcrc /\ image.head.dcrc = crc32(image.body)

(* The files as image.h:98-107 says they are found: the sizes up to the      *)
(* zero, then each file at the next multiple of four bytes.                  *)
Even(n) == ((n + 3) \div 4) * 4
Sizes == LET end == CHOOSE k \in 0..Len(image.body) :
                      /\ image.body[4 * k + 1] = <<"size", 0>>
                      /\ \A j \in 0..(k - 1) : image.body[4 * j + 1] # <<"size", 0>>
         IN [k \in 1..end |-> image.body[4 * k - 3][2]]
StartsOf(sizes) ==
    LET start[k \in DOMAIN sizes] ==
          IF k = 1 THEN 4 * (Len(sizes) + 1) ELSE start[k - 1] + Even(sizes[k - 1])
    IN start
FileAt(k) == LET start == StartsOf(Sizes)[k] IN SubSeq(image.body, start + 1, start + Sizes[k])

(* An image that is accepted holds every file, at the place and of the       *)
(* size its table says and nothing after the last, however many attempts     *)
(* were cut off before.  (Not so where -x meets a multi-file image, whose    *)
(* table counts the bytes -x leaves out, or where a file changed.)           *)
AcceptedIsWhole ==
    Accepted => \/ altered
                \/ ~multi /\ image.body = Copied(data[files[1]], TRUE)
                \/ multi /\ xip
                \/ /\ multi /\ ~xip /\ Len(Sizes) = Len(files)
                   /\ \A k \in DOMAIN files : FileAt(k) = data[files[k]]
                   /\ Len(image.body) = StartsOf(Sizes)[Len(files)] + Sizes[Len(files)]
=============================================================================
