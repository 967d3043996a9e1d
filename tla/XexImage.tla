------------------------------- MODULE XexImage -------------------------------
(***************************************************************************)
(* Xex2LoadImage: a file's body is decrypted and decompressed into a new    *)
(* buffer, the sections its first cell lists are mapped, and the thunks of  *)
(* imports are swapped and, if they are functions, overwritten where they   *)
(* are. Without a body, or with an access outside of the buffer, the run    *)
(* ends with Undefined.                                                     *)
(***************************************************************************)
EXTENDS XexFormat, FiniteSetsExt

CONSTANTS
    ImageBase,      \* the address the image is loaded at
    Exports         \* the ordinals the export tables have a name for, by library

VARIABLES
    file,           \* the bytes
    lstage,         \* "idle", "decode", "map", "import", "loaded", "empty", "Undefined"
    image,          \* image.data
    sections,       \* image.sections, a set that keeps the first of equal bases
    symbols,        \* image.symbols
    left            \* sections or imports that are left

lvars == <<file, lstage, image, sections, symbols, left>>

\* An import: its type, 0 for a variable, and its ordinal; the code swaps the
\* word so that the host reads the two, and read again they change places.
Thunk(order, type, ordinal) == <<"thunk", order, type, ordinal>>
Swap(cell) == IF Has(cell, "thunk") THEN Thunk(IF cell[2] = "be" THEN "le" ELSE "be", cell[3], cell[4])
              ELSE <<"swapped", cell>>
Type(cell) == IF ~Has(cell, "thunk") THEN 0 ELSE IF cell[2] = "le" THEN cell[3] ELSE cell[4]
Ordinal(cell) == IF cell[2] = "le" THEN cell[4] ELSE cell[3]
\* nop; nop; nop; blr.
Stub == <<Thunk("be", 96, 0), Thunk("be", 96, 0), Thunk("be", 96, 0), Thunk("be", 78, 32)>>

LFormat == file[FormatAt][2]
LImageSize == Number(file[ImageSizeAt])
LHeaderSize == Number(file[HeaderSizeAt])
LBody == LET key == Decrypt(Retail, file[KeyAt])
             raw == Slice(file, LHeaderSize, Size(file) - LHeaderSize)
         IN  IF LFormat.encryption = "NORMAL" THEN [k \in DOMAIN raw |-> Decrypt(key, raw[k])] ELSE raw

\* Blocks of data and zeros, in order.
Blocks(cells, blocks) ==
    LET after == FoldLeft(LAMBDA s, b : [to |-> s.to \o SubSeq(cells, s.from + 1, s.from + b[1]) \o [k \in 1 .. b[2] |-> Zero],
                                         from |-> s.from + b[1]],
                          [to |-> <<>>, from |-> 0], blocks)
    IN  after.to

ToMemory(cells) == [o \in 0 .. Len(cells) - 1 |-> cells[o + 1]]
Stop(s) == lstage' = s /\ UNCHANGED <<image, sections, symbols, left>>

Decode ==
    /\ lstage = "decode"
    /\ LET stream == NormalStream(LBody, LFormat.info)
           cells == lzxDecompress(stream[2], LImageSize, LFormat.windowSize, <<>>)
           decoded(mem) == IF 0 \notin DOMAIN mem \/ ~Has(mem[0], "pe") THEN Stop("Undefined")
                           ELSE /\ image' = mem
                                /\ left' = mem[0][2]
                                /\ lstage' = "map"
                                /\ UNCHANGED <<sections, symbols>>
       IN  \/ ~Has(file[FormatAt], "format") /\ Stop("Undefined")
           \/ /\ Has(file[FormatAt], "format")
              /\ \/ /\ LFormat.compression = "NONE"
                    /\ IF Len(LBody) < LImageSize THEN Stop("Undefined")
                       ELSE decoded(ToMemory(SubSeq(LBody, 1, LImageSize)))
                 \/ /\ LFormat.compression = "BASIC"
                    /\ IF \/ Len(LBody) < DataSize(LFormat.blocks)
                          \/ \E b \in Range(LFormat.blocks) : Unsigned(b[1] + b[2]) # b[1] + b[2]
                       THEN Stop("Undefined")
                       ELSE decoded(ToMemory(Blocks(LBody, LFormat.blocks)))
                 \/ /\ LFormat.compression = "NORMAL"
                    /\ IF stream[1] = "outside" THEN Stop("Undefined")
                       ELSE IF stream[1] = "damaged" \/ cells[1] # 0 THEN Stop("empty")
                       ELSE decoded(ToMemory(cells[2]))
                 \/ LFormat.compression = "DELTA" /\ Stop("Undefined")
    /\ UNCHANGED file

MapSection ==
    /\ lstage = "map"
    /\ IF left = <<>>
       THEN /\ lstage' = "import"
            /\ left' = IF Has(file[ImportsAt], "imports") THEN file[ImportsAt][2] ELSE <<>>
            /\ UNCHANGED sections
       ELSE /\ sections' = LET s == Head(left)
                               mapped == [base |-> ImageBase + s.rva, size |-> s.size, code |-> s.code, data |-> s.rva]
                           IN  IF \E t \in sections : t.base = mapped.base THEN sections ELSE sections \cup {mapped}
            /\ left' = Tail(left)
            /\ UNCHANGED lstage
    /\ UNCHANGED <<file, image, symbols>>

\* Image::Find: the offset an address has in the section before it.
Before(address) == {s \in sections : s.base <= address}
Find(address) == LET s == CHOOSE s \in Before(address) : \A t \in Before(address) : t.base <= s.base
                 IN  s.data + (address - s.base)

\* A faulty variant: a variable is overwritten as a function is.
Import_Always ==
    /\ lstage = "import"
    /\ left # <<>>
    /\ LET at == Find(Head(left).firstThunk)
       IN  IF Before(Head(left).firstThunk) = {} THEN Stop("Undefined")
           ELSE IF at \notin DOMAIN image \/ ~Inside(image, at, 4) THEN Stop("Undefined")
           ELSE /\ image' = Write(image, at, Stub)
                /\ left' = Tail(left)
                /\ UNCHANGED <<lstage, symbols>>
    /\ UNCHANGED <<file, sections>>

Import ==
    /\ lstage = "import"
    /\ left # <<>>
    /\ LET library == Head(left).library
           address == Head(left).firstThunk
           at == Find(address)
           swapped == Swap(image[at])
           known == Ordinal(swapped) \in Exports[library]
       IN  IF Before(address) = {} THEN Stop("Undefined")
           ELSE IF at \notin DOMAIN image THEN Stop("Undefined")
           ELSE IF Type(swapped) = 0
           THEN /\ image' = [image EXCEPT ![at] = swapped]
                /\ left' = Tail(left)
                /\ UNCHANGED <<lstage, symbols>>
           ELSE IF ~Inside(image, at, 4) THEN Stop("Undefined")
           ELSE /\ symbols' = IF known
                              THEN symbols \cup {[library |-> library, ordinal |-> Ordinal(swapped), address |-> address]}
                              ELSE symbols
                /\ image' = Write(image, at, Stub)
                /\ left' = Tail(left)
                /\ UNCHANGED lstage
    /\ UNCHANGED <<file, sections>>

EndImports ==
    /\ lstage = "import"
    /\ left = <<>>
    /\ lstage' = "loaded"
    /\ UNCHANGED <<file, image, sections, symbols, left>>

LNext == Decode \/ MapSection \/ Import \/ EndImports
=============================================================================
