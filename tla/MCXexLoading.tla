----------------------------- MODULE MCXexLoading -----------------------------
(***************************************************************************)
(* Instances of XexLoading made from the outside in: an old image of eight  *)
(* cells is encoded in every way there is, a header for it and one for the  *)
(* new image are made, and a patch leads from one to the other. What apply  *)
(* and Xex2LoadImage should make of them is known from the images the files *)
(* were made from, and not worked out by reading them.                      *)
(***************************************************************************)
EXTENDS XexLoading

MCExports == [xam |-> {3}, kernel |-> {5}]
At(address) == 16 + address

Pe(first) == <<"pe", <<[rva |-> 4, size |-> 5, code |-> TRUE], [rva |-> 0, size |-> first, code |-> FALSE]>>>>
\* A variable and a function are imported; zeros and data.
OldImage == <<Pe(4), Thunk("be", 0, 5), Thunk("be", 1, 3), Data(1), Data(2), Data(3), Zero, Data(4)>>
Imports == <<[library |-> "kernel", firstThunk |-> At(1)], [library |-> "xam", firstThunk |-> At(2)]>>

RetailKey(n) == E(Retail, Key(n))

-----------------------------------------------------------------------------
(* Files.                                                                   *)

Encrypt(encryption, key, cells) ==
    IF encryption = "NORMAL" THEN [k \in DOMAIN cells |-> E(key, cells[k])] ELSE cells

\* A stream of cells as LZX makes it of cells.
Stream(cells) == <<Literal(SubSeq(cells, 1, 3)), Literal(SubSeq(cells, 4, Len(cells)))>>
OneBlock(cells) == <<NoInfo, Num(2)>> \o Stream(cells) \o <<Num(0)>>
SecondBlock(cells) == <<NoInfo, Num(1), Stream(cells)[2], Num(0)>>
FirstBlock(cells) == LET second == SecondBlock(cells)
                     IN  <<Info(Len(second), Sha(second)), Num(1), Stream(cells)[1], Num(0)>>
TwoBlocks(cells) == FirstBlock(cells) \o SecondBlock(cells)
InfoOf(block) == Info(Len(block), Sha(block))

\* The ways of compression: <<compression, blocks, the first block's info, body>>.
Compressions ==
    {<<"NONE", <<>>, NoInfo, OldImage>>, <<"DELTA", <<>>, NoInfo, OldImage>>, <<"FOREIGN", <<>>, NoInfo, OldImage>>,
     <<"NONE", <<>>, NoInfo, OldImage \o <<Zero>>>>,
     <<"BASIC", <<<<8, 0>>>>, NoInfo, OldImage>>,
     <<"BASIC", <<<<6, 1>>, <<1, 0>>>>, NoInfo, Remove(OldImage, Zero)>>,
     <<"BASIC", <<<<2, 0>>, <<4, 1>>, <<1, 0>>>>, NoInfo, Remove(OldImage, Zero)>>,
     <<"NORMAL", <<>>, InfoOf(OneBlock(OldImage)), OneBlock(OldImage)>>,
     <<"NORMAL", <<>>, InfoOf(FirstBlock(OldImage)), TwoBlocks(OldImage)>>}

Header(size, imageSize, key, encoding) ==
    SubSeq(<<Num(size), Num(imageSize), RetailKey(key), encoding, <<"imports", Imports>>, Data(50), Data(51), Data(52)>>, 1, size)

\* A file of the old image: its header, its body, and whether a cell of the
\* body is another than it was.
Base(size, encryption, c, damage) ==
    LET header == Header(size, 8, 1, Format(encryption, c[1], c[2], c[3], 4))
        cells == header \o Encrypt(encryption, Key(1), c[4])
    IN  [magic |-> TRUE, bytes |-> ToMemory(IF damage = 0 THEN cells ELSE [cells EXCEPT ![size + damage] = Data(99)])]

-----------------------------------------------------------------------------
(* Deltas: entries as records, what they mean, and how they are written.    *)

Piece(kind, old, new, n) == [kind |-> kind, old |-> old, new |-> new, n |-> n]
Pieces == {Piece("zero", 0, new, 2) : new \in {3, 6}}
          \cup {Piece("move", old, new, n) : old \in {1, 4, 5}, new \in {5, 6}, n \in {1, 2}}
          \cup {Piece("lzx", old, new, 2) : old \in {3, 4, 6}, new \in {3, 6}}
          \cup {Piece("lzx", 0, 0, 1)}
\* An lzx piece is the second of two old cells and a new one.
Written(p) == CASE p.kind = "zero" -> <<Entry(1, p.new, p.n, 0)>>
                [] p.kind = "move" -> <<Entry(p.old, p.new, p.n, 1)>>
                [] p.kind = "lzx"  -> <<Entry(p.old, p.new, p.n, 2)>> \o
                                      IF p.n = 1 THEN <<Literal(<<Pe(3)>>), Literal(<<>>)>>
                                      ELSE <<Copy(1, 1), Literal(<<Data(60 + p.new)>>)>>
Means(p, old, o) == CASE p.kind = "zero" -> Zero
                      [] p.kind = "move" -> old[p.old + (o - p.new)]
                      [] p.kind = "lzx"  -> IF p.n = 1 THEN Pe(3) ELSE IF o = p.new THEN old[p.old + 1] ELSE Data(60 + p.new)
Writes(p) == p.new .. p.new + p.n - 1
Reads(p) == IF p.kind = "zero" THEN {} ELSE p.old .. p.old + p.n - 1
\* A delta reads what it has not written, and does not move what overlaps.
Sound(ps) == \A k \in DOMAIN ps : /\ ps[k].kind = "move" => Writes(ps[k]) \cap Reads(ps[k]) = {}
                                  /\ \A j \in 1 .. k - 1 : Writes(ps[j]) \cap Reads(ps[k]) = {}
Deltas2 == {<<p, q>> \in Pieces \X Pieces : p # q /\ Sound(<<p, q>>)} \cup {<<p>> : p \in {q \in Pieces : Sound(<<q>>)}}

OldMemory(size) == [o \in 0 .. size - 1 |-> IF o < 8 THEN OldImage[o + 1] ELSE Zero]
NewMemory(ps, size) ==
    [o \in 0 .. size - 1 |->
        LET covering == {k \in DOMAIN ps : o \in Writes(ps[k])}
        IN  IF covering = {} THEN OldMemory(size)[o]
            ELSE Means(ps[CHOOSE k \in covering : \A j \in covering : j <= k], OldMemory(size), o)]

\* The entries of the first piece in a block, those of the others in a second.
PatchBlocks(ps) ==
    LET second == <<NoInfo>> \o FlattenSeq([k \in 1 .. Len(ps) - 1 |-> Written(ps[k + 1])]) \o <<Terminator, Data(7)>>
        first == <<InfoOf(second)>> \o Written(ps[1])
    IN  <<first, second>>

\* The new header as one literal, for the whole or for all but the pad.
HeaderEntries(size, imageSize) ==
    LET header == Header(size, imageSize, 2, Format("NORMAL", "NORMAL", <<>>, NoInfo, 4))
    IN  <<Entry(0, 0, 4, 2), Literal(SubSeq(header, 1, 3)), Literal(SubSeq(header, 4, 4)),
          Entry(0, 4, size - 4, 2), Literal(SubSeq(header, 5, size)), Literal(<<>>)>>

NoCopy == [from |-> 0, to |-> 0, size |-> 0]
Update(size, imageSize, encryption, ps, damage) ==
    LET blocks == PatchBlocks(ps)
        cells == Encrypt(encryption, Key(3), blocks[1] \o blocks[2])
    IN  [magic |-> TRUE, isPatch |-> TRUE, hasDescriptor |-> TRUE,
         format |-> Format(encryption, "DELTA", <<>>, InfoOf(blocks[1]), 4),
         key |-> E(Key(2), Key(3)),
         descriptor |-> [entries |-> HeaderEntries(size, imageSize), targetSize |-> size,
                         headerCopy |-> NoCopy, imageCopy |-> NoCopy, keySource |-> E(Key(2), Key(1))],
         body |-> IF damage = 0 THEN cells ELSE [cells EXCEPT ![damage] = Data(99)]]

\* about: what the files were made from.
Input(b, p, usePatch, from) ==
    [base |-> b, patch |-> p, skipData |-> FALSE, usePatch |-> usePatch, about |-> from]
About(kind, compression, size, target, imageSize, ps, baseDamage, patchDamage) ==
    [kind |-> kind, compression |-> compression, size |-> size, target |-> target, imageSize |-> imageSize, pieces |-> ps,
     baseDamage |-> baseDamage, patchDamage |-> patchDamage]

Swap2 == <<Piece("move", 5, 6, 1), Piece("lzx", 3, 3, 2)>>
Plain == <<"NONE", <<>>, NoInfo, OldImage>>

\* Every delta; every way to encode the base, with headers and images that
\* grow, stay and shrink; a cell of either body damaged; no patch.
Patched ==
    {Input(Base(6, "NORMAL", Plain, 0), Update(6, 8, "NORMAL", ps, 0), TRUE, About("patched", "NONE", 6, 6, 8, ps, 0, 0)) : ps \in Deltas2}
    \cup {Input(Base(6, enc, c, 0), Update(target, imageSize, "NONE", Swap2, 0), TRUE, About("patched", c[1], 6, target, imageSize, Swap2, 0, 0)) :
            enc \in {"NORMAL", "NONE", "FOREIGN"}, c \in Compressions, target \in 5 .. 8, imageSize \in 7 .. 9}
    \cup {Input(Base(6, "NORMAL", c, d), Update(6, 8, "NORMAL", Swap2, 0), TRUE, About("patched", c[1], 6, 6, 8, Swap2, d, 0)) :
            c \in {x \in Compressions : Len(x[4]) >= 5}, d \in 1 .. 5}
    \cup {Input(Base(6, "NORMAL", Plain, 0), Update(6, 8, enc, Swap2, d), TRUE, About("patched", "NONE", 6, 6, 8, Swap2, 0, d)) :
            enc \in {"NONE", "NORMAL"}, d \in 1 .. 8}
Unpatched ==
    {Input(Base(6, enc, c, d), Update(6, 8, "NONE", Swap2, 0), FALSE, About("unpatched", c[1], 6, 6, 8, Swap2, d, 0)) :
        enc \in {"NORMAL", "NONE"}, c \in {x \in Compressions : x[1] # "FOREIGN" /\ Len(x[4]) >= 5}, d \in 0 .. 5}

\* Patches for another file or that are none.
Good == Input(Base(6, "NORMAL", Plain, 0), Update(6, 8, "NORMAL", Swap2, 0), TRUE, About("refused", "NONE", 6, 6, 8, Swap2, 0, 0))
Refused ==
    {[Good EXCEPT !.base.magic = FALSE], [Good EXCEPT !.patch.magic = FALSE], [Good EXCEPT !.patch.isPatch = FALSE],
     [Good EXCEPT !.patch.hasDescriptor = FALSE], [Good EXCEPT !.patch.format = Zero],
     [Good EXCEPT !.patch.format[2].compression = "NORMAL"], [Good EXCEPT !.patch.format[2].encryption = "FOREIGN"],
     [Good EXCEPT !.patch.descriptor.keySource = E(Key(2), Key(9))], [Good EXCEPT !.patch.key = RetailKey(3)],
     [Good EXCEPT !.base.bytes[3] = Zero], [Good EXCEPT !.patch.descriptor.targetSize = 0],
     [Good EXCEPT !.patch.descriptor.entries[5] = Zero]}
    \cup {[Good EXCEPT !.patch.descriptor.headerCopy = [from |-> from, to |-> to, size |-> n]] :
            from \in {0, 4, 5, 7}, to \in {0, 3, 5, 7}, n \in {0, 1, 2}}
    \cup {[Good EXCEPT !.patch.descriptor.imageCopy = [from |-> 7, to |-> 6, size |-> 1],
                       !.patch.descriptor.targetSize = n] : n \in {6, 20}}
    \cup {[Good EXCEPT !.skipData = TRUE]}

\* What no test of the code is about: entries and copies that leave the image
\* or the header, what is no entry, windows too small and none, blocks beyond
\* the data, header sizes that are wrong, sizes that 32 bits do not hold.
LongBlock ==
    LET blocks == PatchBlocks(Swap2)
        first == [blocks[1] EXCEPT ![1] = Info(99, @[3])]
    IN  [Update(6, 8, "NONE", Swap2, 0) EXCEPT !.body = first \o blocks[2], !.format[2].info = InfoOf(first)]
\* An LZX stream, one cell of which is another; its hash is that of what it is.
\* The first block is the whole body or a part of it, and told to be n cells.
Told(cells, size, n) == <<"NORMAL", <<>>, Info(n, Sha(SubSeq(cells, 1, size))), cells>>
\* A chunk that holds the next block.
Nested ==
    LET second == <<NoInfo, Num(4), Zero, Zero, Zero, Zero, Num(0)>>
    IN  Told(<<Info(7, Sha(second)), Num(6)>> \o second, 2, 2)
Streams ==
    {Told([OneBlock(OldImage) EXCEPT ![2] = Num(n)], 5, 5) : n \in {1, 3, 4, 9}}
    \cup {Told(OneBlock(OldImage), 5, n) : n \in {6, 99}}
    \cup {Told([TwoBlocks(OldImage) EXCEPT ![k] = Num(n)], 4, 4) : k \in {2, 4}, n \in {2, 3, 4}}
Misfits ==
    {Input(Base(6, "NORMAL", Plain, 0), Update(6, 8, "NORMAL", <<p>>, 0), TRUE, About("misfit", "NONE", 6, 6, 8, <<p>>, 0, 0)) :
        p \in {Piece("zero", 0, 7, 2), Piece("zero", 0, 6, 2), Piece("move", 7, 3, 2), Piece("move", 6, 3, 2),
               Piece("move", 3, 7, 2), Piece("lzx", 7, 3, 2), Piece("lzx", 3, 7, 2), Piece("lzx", 6, 3, 2)}}
    \cup {[Good EXCEPT !.about.kind = "misfit", !.patch.descriptor.entries[4] = Entry(old, new, n, 2)] :
            old \in {0, 5}, new \in {4, 5}, n \in 1 .. 3}
    \cup {[Good EXCEPT !.about.kind = "misfit", !.patch.descriptor.entries[k] = Zero] : k \in {1, 4}}
    \cup {[Good EXCEPT !.about.kind = "misfit", !.patch.descriptor.entries = SubSeq(@, 1, n)] : n \in 1 .. 5}
    \cup {[Good EXCEPT !.about.kind = "misfit", !.patch.format[2].windowSize = n] : n \in {0, 1, 3}}
    \cup {[Good EXCEPT !.about.kind = "misfit", !.patch.descriptor.imageCopy = [from |-> from, to |-> to, size |-> 2]] :
            from \in {6, 7}, to \in {0, 6, 7}}
    \cup {[Good EXCEPT !.about.kind = "misfit", !.patch.format[2].info[2] = n] : n \in {20, 99}}
    \cup {[Good EXCEPT !.about.kind = "misfit", !.patch = LongBlock]}
    \cup {[Good EXCEPT !.about.kind = "misfit", !.base.bytes[0] = Num(n)] : n \in {5, 7, 15}}
    \cup {[Good EXCEPT !.about.kind = "misfit", !.about.target = n, !.patch.descriptor.entries[2][2][1] = Num(n)] : n \in {5, 9}}
    \cup {[Good EXCEPT !.about.kind = "misfit", !.about.target = n, !.patch.descriptor.targetSize = n,
                       !.patch.descriptor.entries[2][2][1] = Num(n)] : n \in {0, 1, 20}}
    \cup {Input(Base(6, enc, c, 0), Update(6, 9, "NONE", Swap2, 0), TRUE, About("misfit", "NORMAL", 6, 6, 9, Swap2, 0, 0)) :
            enc \in {"NORMAL", "NONE"}, c \in Streams \cup {Nested}}
    \cup {Input(Base(6, "NONE", <<"BASIC", blocks, NoInfo, OldImage>>, 0), Update(6, imageSize, "NONE", Swap2, 0), TRUE,
                About("misfit", "BASIC", 6, 6, imageSize, Swap2, 0, 0)) :
            blocks \in {<<<<8, 10>>>>, <<<<8, 7>>>>, <<<<0, 31>>, <<8, 1>>>>, <<<<8, 12>>, <<0, 14>>>>}, imageSize \in {8, 20}}

MCInputs == Patched \cup Unpatched \cup Refused \cup Misfits

-----------------------------------------------------------------------------
about == input.about
Valid == about.kind = "patched"
Undamaged == about.baseDamage = 0 /\ about.patchDamage = 0

\* The decompressed base is put behind the larger header and read behind the
\* new one.
LzxMisplaced == about.compression = "NORMAL" /\ about.target < about.size

\* When apply succeeds its output is the new header, marked as not encrypted
\* and not compressed, and the image the patch's author had: whatever way the
\* base is encoded, and in whatever order the entries read and write the image
\* they build. Not so if the header shrinks and the base is LZX-compressed.
PatchedImage ==
    (result = "Success" /\ Valid /\ Undamaged /\ ~LzxMisplaced) =>
        out = ToMemory(Header(about.target, about.imageSize, 2, Format("NONE", "NONE", <<>>, NoInfo, 4))
                       \o Slice(NewMemory(about.pieces, about.imageSize), 0, about.imageSize))

\* What an entry reads and writes is inside of size cells, and its window holds
\* what it reads.
EntryFits(old, new, n, compressed, size) ==
    /\ new + n <= size
    /\ compressed # 0 => old + n <= size
    /\ compressed > 1 => n <= patchFormat.windowSize
\* A cell is an entry if it is not part of the stream of one before it, and no
\* stream is cut off.
WellFormed(entries) ==
    LET Tokens(k) == IF Has(entries[k], "entry") /\ entries[k][5] > 1 THEN k + 1 .. k + entries[k][5] ELSE {}
    IN  \A k \in DOMAIN entries :
          /\ Has(entries[k], "entry") <=> \A j \in 1 .. k - 1 : k \notin Tokens(j)
          /\ Tokens(k) \subseteq DOMAIN entries

\* The sizes of blocks together: each is told of by the one before it.
BlockSizes(first, cells) ==
    FoldLeft(LAMBDA n, cell : IF Has(cell, "info") THEN n + cell[2] ELSE n, first[2], cells)
\* The sizes of the two headers are those of what the files hold.
HeadersFit ==
    /\ headerSize <= Size(base)
    /\ ImageSizeAt < targetSize /\ targetSize <= Size(base)
    /\ about.target = targetSize
\* The blocks of an LZX stream are no more than the body, and no chunk reaches
\* the next block.
StreamFits ==
    LET cells == [k \in DOMAIN body |-> Stored(k - 1)]
    IN  /\ BlockSizes(format.info, cells) <= Len(cells)
        /\ \A k \in DOMAIN cells : \A o \in 1 .. Number(cells[k]) + 1 :
             Number(cells[k]) > 0 => k + o \in DOMAIN cells /\ ~Has(cells[k + o], "info")
\* The body as it is and what it is decompressed to are no more than the room
\* that is made for the new image.
ImageFits ==
    /\ Size(base) - headerSize <= about.imageSize
    /\ about.compression = "NORMAL" => largerSize + 8 <= targetSize + about.imageSize /\ StreamFits
    /\ about.compression = "BASIC" => SizesFit
\* The patch's deltas stay in the header and the image, and so does its copy of
\* a part of the image; its blocks are no more than its data.
PatchFits ==
    /\ WellFormed(descriptor.entries)
    /\ \A e \in {c \in Range(descriptor.entries) : Has(c, "entry")} : EntryFits(e[2], e[3], e[4], e[5], largerSize)
    /\ \A p \in Range(about.pieces) :
         EntryFits(p.old, p.new, p.n, CASE p.kind = "zero" -> 0 [] p.kind = "move" -> 1 [] OTHER -> 2, about.imageSize)
    /\ LET by == descriptor.imageCopy
       IN  by.from > 0 => by.from + by.size <= about.imageSize /\ by.to + by.size <= about.imageSize
    /\ BlockSizes(patchFormat.info, [k \in DOMAIN patch.body |->
           IF Has(patch.body[k], "E") THEN patch.body[k][3] ELSE patch.body[k]]) <= Len(patch.body)

\* The sizes of the files say how much is read and written. apply looks at some
\* of them, and trusts the others: if those are what they should be, then
\* whatever the files hold else, no access leaves a buffer.
StaysInside == result = "Undefined" => ~(HeadersFit /\ ImageFits /\ PatchFits)

\* A cell that is not what it was in a body that has hashes is always noticed,
\* and no image is made of it.
DamageIsFound ==
    \/ Valid /\ about.patchDamage > 0
    \/ (Valid \/ about.kind = "unpatched") /\ about.baseDamage > 0 /\ about.compression = "NORMAL"
    => result # "Success" /\ lstage \in {"idle", "decode", "empty"}

\* The image that is loaded is the one the file was made from, with imports
\* swapped or replaced by stubs and named, also if it was patched first.
Expected == IF input.usePatch THEN NewMemory(about.pieces, about.imageSize) ELSE OldMemory(8)
LoadsImage ==
    (lstage = "loaded" /\ Undamaged /\ (Valid \/ about.kind = "unpatched") /\ ~LzxMisplaced) =>
        LET mem == Expected
            function == Type(Swap(mem[2])) # 0
        IN  /\ image = [o \in DOMAIN mem |-> IF o = 1 THEN Swap(mem[1])
                                             ELSE IF o = 2 /\ ~function THEN Swap(mem[2])
                                             ELSE IF o \in 2 .. 5 /\ function THEN Stub[o - 1] ELSE mem[o]]
            /\ symbols = IF function THEN {[library |-> "xam", ordinal |-> 3, address |-> At(2)]} ELSE {}
            /\ {<<s.base, s.size>> : s \in sections} = {<<At(0), mem[0][2][2].size>>, <<At(4), 5>>}

=============================================================================
