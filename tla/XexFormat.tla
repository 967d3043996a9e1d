------------------------------ MODULE XexFormat ------------------------------
(***************************************************************************)
(* What XEX files are made of, and the operations xex_patcher.cpp and       *)
(* xex.cpp share. A file is a header and a body. Bytes are cells: data,     *)
(* numbers, keys, encrypted cells, parts of compressed streams. A header    *)
(* has a cell for each field the code reads, what takes several bytes in a  *)
(* file is one cell. Hashes and ciphers are perfect. Memory is a function   *)
(* of offsets from 0.                                                       *)
(***************************************************************************)
EXTENDS Integers, SequencesExt, TLC

CONSTANT WordSize   \* how many values 32 bits have: 2^32 in the program

ASSUME WordAssumption == WordSize \in Nat \ {0}

Word == 0 .. WordSize - 1
\* What uint32_t and int32_t make of a number.
Unsigned(n) == n % WordSize
Signed(n) == IF 2 * Unsigned(n) < WordSize THEN Unsigned(n) ELSE Unsigned(n) - WordSize

\* Cells.
Data(n) == <<"data", n>>
Zero == Data(0)
Num(n) == <<"num", n>>
Key(n) == <<"key", n>>
E(key, cell) == <<"E", key, cell>>
Sha(cells) == <<"sha", cells>>
\* The size and the hash of a block, which an earlier block tells.
Info(size, hash) == <<"info", size, hash>>
NoInfo == Info(0, Zero)
\* A part of an LZX stream: cells themselves, or n from offset k of the window.
Literal(cells) == <<"literal", cells>>
Copy(k, n) == <<"copy", k, n>>
\* A delta patch. A stream has two cells or more: 0 and 1 are other cases.
Entry(old, new, n, compressed) == <<"entry", old, new, n, compressed>>
\* How a body is encoded.
Format(encryption, compression, blocks, info, windowSize) ==
    <<"format", [encryption |-> encryption, compression |-> compression,
                 blocks |-> blocks, info |-> info, windowSize |-> windowSize]>>

\* Where a header has its fields: the sizes of the header and the image, the
\* key, the file format and the imports.
HeaderSizeAt == 0
ImageSizeAt == 1
KeyAt == 2
FormatAt == 3
ImportsAt == 4

\* A field's number; of cells that are none, any will do.
Number(cell) == IF cell[1] = "num" /\ cell[2] \in Nat THEN cell[2] ELSE 0
\* getOptHeaderPtr: a field that may be missing.
Has(cell, kind) == cell[1] = kind

\* AES-CBC with the key, and what it makes of cells encrypted with another.
Decrypt(key, cell) == IF Has(cell, "E") /\ cell[2] = key THEN cell[3] ELSE <<"garbage", key, cell>>
Retail == Key(0)

-----------------------------------------------------------------------------
(* Memory.                                                                  *)

Filled(size, cell) == [o \in 0 .. size - 1 |-> cell]
Size(mem) == Cardinality(DOMAIN mem)
Slice(mem, at, n) == [i \in 1 .. n |-> mem[at + i - 1]]
\* What a write of cells puts inside the memory, and whether it all was.
Write(mem, at, cells) ==
    [o \in DOMAIN mem |-> IF o - at + 1 \in DOMAIN cells THEN cells[o - at + 1] ELSE mem[o]]
Inside(mem, at, n) == n = 0 \/ (at >= 0 /\ at + n <= Size(mem))
Resize(mem, size) == [o \in 0 .. size - 1 |-> IF o \in DOMAIN mem THEN mem[o] ELSE Zero]

-----------------------------------------------------------------------------
(* lzxDecompress: <<the result code, the cells>>. The output is not more    *)
(* than was asked for; less is an error.                                    *)

Expand(token, window) ==
    CASE Has(token, "literal") -> token[2]
      [] Has(token, "copy")    -> SubSeq(window, token[2] + 1, token[2] + token[3])
      [] OTHER                 -> <<>>
lzxDecompress(stream, n, windowSize, window) ==
    LET all == FoldLeft(LAMBDA cells, token : cells \o Expand(token, window), <<>>, stream)
    IN  IF windowSize = 0 \/ Len(all) < n THEN <<1, <<>>>> ELSE <<0, SubSeq(all, 1, n)>>

\* The chunks from a position of a body on: a length and as many cells, up to a
\* length of 0. <<whether all were in the body, the cells>>.
Chunks(body, from) ==
    LET chunks[p \in from .. Len(body) + 1] ==
            IF p > Len(body) THEN <<FALSE, <<>>>>
            ELSE LET n == Number(body[p])
                 IN  IF n = 0 THEN <<TRUE, <<>>>>
                     ELSE IF p + n > Len(body) THEN <<FALSE, <<>>>>
                     ELSE LET rest == chunks[p + n + 1]
                          IN  <<rest[1], SubSeq(body, p + 1, p + n) \o rest[2]>>
    IN  chunks[from]

\* The compressed stream in the blocks of a body, the first of which info tells
\* of: <<what became of it, the stream>>. It is "damaged" if a hash is wrong, and
\* "outside" if a block or a chunk was not in the body, or there was no room.
NormalStream(body, info) ==
    LET from[p \in 0 .. Len(body), i \in {info} \cup {c \in Range(body) : Has(c, "info")}] ==
            IF i[2] = 0 THEN <<"whole", <<>>>>
            ELSE IF p + i[2] > Len(body) THEN <<"outside", <<>>>>
            ELSE IF Sha(SubSeq(body, p + 1, p + i[2])) # i[3] THEN <<"damaged", <<>>>>
            ELSE LET chunks == Chunks(body, p + 2)
                     rest == from[p + i[2], body[p + 1]]
                 IN  IF ~chunks[1] THEN <<"outside", <<>>>> ELSE <<rest[1], chunks[2] \o rest[2]>>
        stream == from[0, info]
    IN  IF Len(stream[2]) > Len(body) THEN <<"outside", <<>>>> ELSE stream

-----------------------------------------------------------------------------
(* Compression blocks: <<data, zeros>>, how many cells there are of each.   *)

\* The sizes of the first n of some parts together.
PartialSums(sizes) ==
    LET sum[n \in 0 .. Len(sizes)] == IF n = 0 THEN 0 ELSE sum[n - 1] + sizes[n] IN sum
DataSizes(blocks) == PartialSums([n \in DOMAIN blocks |-> blocks[n][1]])
BasicSizes(blocks) == PartialSums([n \in DOMAIN blocks |-> blocks[n][1] + blocks[n][2]])
DataSize(blocks) == DataSizes(blocks)[Len(blocks)]
BasicSize(blocks) == BasicSizes(blocks)[Len(blocks)]
=============================================================================
