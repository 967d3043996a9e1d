------------------------------ MODULE XexPatcher ------------------------------
(***************************************************************************)
(* XexPatcher::apply: a base file and a title update become a file without  *)
(* encryption and compression. One buffer, out, is first the old header and *)
(* becomes the new one by a delta; then the old body is put behind it,      *)
(* decrypted, decompressed where it is and made into the new image by the   *)
(* deltas of the patch's blocks. An access outside of a buffer ends the     *)
(* run with result Undefined.                                               *)
(***************************************************************************)
EXTENDS XexFormat, FiniteSetsExt

CONSTANT Inputs     \* records [base, patch, skipData]

\* Files are memory, what is a number there has 32 bits.
XexAssumption ==
    \A x \in Inputs :
        LET bytes == x.base.bytes
            by == x.patch.descriptor.headerCopy
        IN  /\ Size(bytes) \in Nat /\ DOMAIN bytes = 0 .. Size(bytes) - 1
            /\ Has(bytes[FormatAt], "format") => bytes[FormatAt][2].blocks \in Seq(Word \X Word)
            /\ x.patch.descriptor.targetSize \in Word
            /\ {by.from, by.to, by.size} \subseteq Word
ASSUME XexAssumption

VARIABLES
    input,
    stage,      \* what apply does next, "done" behind its return
    result,     \* a Result, or "Undefined"
    out,        \* outBytes
    todo,       \* what is left of the entries of a delta
    data, info, \* what is left of the patch's blocks, and the info of the first
    i, src, dst \* the next compression block, from the last on, and cursors

cursors == <<todo, data, info, i, src, dst>>
vars == <<input, stage, result, out, cursors>>

base == input.base.bytes
patch == input.patch
descriptor == patch.descriptor
patchFormat == patch.format[2]

headerSize == Number(base[HeaderSizeAt])
body == Slice(base, headerSize, Size(base) - headerSize)

\* headerTargetSize and newXexHeaderSize.
targetSize == IF descriptor.targetSize = 0 THEN descriptor.headerCopy.to + descriptor.headerCopy.size
              ELSE descriptor.targetSize
largerSize == IF targetSize > headerSize THEN targetSize ELSE headerSize

-----------------------------------------------------------------------------
\* A faulty variant: the header delta may be longer than the new header.
Verdict_NoTargetTest ==
    IF ~input.base.magic THEN "XexFileInvalid"
    ELSE IF \/ ~patch.magic \/ ~patch.isPatch
            \/ ~patch.hasDescriptor \/ ~Has(patch.format, "format")
            \/ patchFormat.compression # "DELTA"
    THEN "PatchFileInvalid"
    ELSE IF \/ descriptor.headerCopy.from > headerSize
            \/ descriptor.headerCopy.size > headerSize - descriptor.headerCopy.from
    THEN "PatchIncompatible"
    ELSE "Success"

\* The tests on the headers in their order.
Verdict ==
    IF ~input.base.magic THEN "XexFileInvalid"
    ELSE IF \/ ~patch.magic \/ ~patch.isPatch
            \/ ~patch.hasDescriptor \/ ~Has(patch.format, "format")
            \/ patchFormat.compression # "DELTA"
    THEN "PatchFileInvalid"
    ELSE IF \/ descriptor.headerCopy.from > headerSize
            \/ descriptor.headerCopy.size > headerSize - descriptor.headerCopy.from
            \/ descriptor.headerCopy.to > descriptor.targetSize
            \/ descriptor.headerCopy.size > descriptor.targetSize - descriptor.headerCopy.to
    THEN "PatchIncompatible"
    ELSE "Success"

\* What memcpy may leave: if source and target overlap, it may have read what
\* it wrote.
Copies(mem, to, from, n) ==
    LET forward[k \in 0 .. n] ==
            IF k = 0 THEN mem ELSE [forward[k - 1] EXCEPT ![to + k - 1] = forward[k - 1][from + k - 1]]
    IN  {Write(mem, to, Slice(mem, from, n)), forward[n]}

Return(r) == stage' = "done" /\ result' = r /\ UNCHANGED <<out, cursors>>
Go(s) == stage' = s /\ UNCHANGED result

Init == /\ input \in Inputs
        /\ stage = "validate"
        /\ result = "none"
        /\ out = << >>
        /\ todo = <<>> /\ data = <<>> /\ info = NoInfo
        /\ i = 0 /\ src = 0 /\ dst = 0

\* Validate, and the bytes of the new header as they are before the delta.
Validate ==
    /\ stage = "validate"
    /\ IF Verdict # "Success" THEN Return(Verdict)
       ELSE IF targetSize > Size(base) \/ ~Inside(Filled(largerSize, Zero), descriptor.headerCopy.to, descriptor.headerCopy.size)
       THEN Return("Undefined")
       ELSE LET copied == Write(Filled(largerSize, Zero), 0, Slice(base, 0, targetSize))
                by == descriptor.headerCopy
            IN  /\ out' \in IF by.from > 0 THEN Copies(copied, by.to, by.from, by.size) ELSE {copied}
                /\ todo' = descriptor.entries
                /\ Go("headerDelta")
                /\ UNCHANGED <<data, info, i, src, dst>>
    /\ UNCHANGED input

-----------------------------------------------------------------------------
(* lzxDeltaApplyPatch, an entry at a time. The image's delta works on the   *)
(* memory behind the header.                                                *)

Deltas == [headerDelta |-> "append", imageDelta |-> "blocks"]
origin == IF stage = "imageDelta" THEN Number(out[HeaderSizeAt]) ELSE 0
Terminator == Entry(0, 0, 0, 0)
AtEnd == IF todo = <<>> THEN TRUE ELSE todo[1] = Terminator

\* A faulty variant: a move reads where it writes.
MoveData_FromNew(new, old, n) == out' \in Copies(out, origin + new, origin + new, n)
MoveData(new, old, n) == out' \in Copies(out, origin + new, origin + old, n)

ApplyEntry ==
    /\ stage \in DOMAIN Deltas
    /\ ~AtEnd
    /\ LET old == todo[1][2]
           new == todo[1][3]
           n == todo[1][4]
           compressed == todo[1][5]
           windowSize == patchFormat.windowSize
       IN  IF ~Has(todo[1], "entry") \/ (compressed > 1 /\ compressed >= Len(todo)) THEN Return("Undefined")
           ELSE IF compressed > 1 /\ windowSize = 0 THEN Return("PatchFailed")
           ELSE IF \/ ~Inside(out, origin + new, n)
                   \/ compressed # 0 /\ ~Inside(out, origin + old, n)
                   \/ compressed > 1 /\ n > windowSize
           THEN Return("Undefined")
           ELSE /\ \/ /\ compressed = 0
                      /\ out' = Write(out, origin + new, [k \in 1 .. n |-> Zero])
                      /\ UNCHANGED <<stage, result>>
                   \/ /\ compressed = 1
                      /\ MoveData(new, old, n)
                      /\ UNCHANGED <<stage, result>>
                   \/ /\ compressed > 1
                      /\ LET cells == lzxDecompress(SubSeq(todo, 2, compressed + 1), n, windowSize,
                                                    Slice(out, origin + old, n))
                         IN  IF cells[1] = 0
                             THEN /\ out' = Write(out, origin + new, cells[2])
                                  /\ UNCHANGED <<stage, result>>
                             ELSE stage' = "done" /\ result' = "PatchFailed" /\ UNCHANGED out
                /\ todo' = SubSeq(todo, IF compressed > 1 THEN compressed + 2 ELSE 2, Len(todo))
                /\ UNCHANGED <<data, info, i, src, dst>>
    /\ UNCHANGED input

EndDelta ==
    /\ stage \in DOMAIN Deltas
    /\ AtEnd
    /\ Go(Deltas[stage])
    /\ UNCHANGED <<input, out, cursors>>

-----------------------------------------------------------------------------
\* The new header is cut to its size; room for the new image and the old body.
Append_ ==
    /\ stage = "append"
    /\ LET header == Resize(out, targetSize)
           imageSize == IF ImageSizeAt < targetSize THEN Number(header[ImageSizeAt]) ELSE 0
           room == Resize(header, targetSize + imageSize)
       IN  IF targetSize <= ImageSizeAt \/ headerSize > Size(base) \/ ~Inside(room, targetSize, Len(body))
           THEN Return("Undefined")
           ELSE /\ out' = Write(room, targetSize, body)
                /\ Go("keys")
                /\ UNCHANGED cursors
    /\ UNCHANGED input

\* Keys are encrypted with the retail key, those of the patch with the key of
\* the new header.
originalKey == Decrypt(Retail, base[KeyAt])
newKey == Decrypt(Retail, out[KeyAt])
patchKey == Decrypt(newKey, patch.key)

CheckKeys ==
    /\ stage = "keys"
    /\ IF Decrypt(newKey, descriptor.keySource) # originalKey THEN Return("PatchIncompatible")
       ELSE IF input.skipData THEN Return("Success")
       ELSE Go("decrypt") /\ UNCHANGED <<out, cursors>>
    /\ UNCHANGED input

format == base[FormatAt][2]
DecryptBody ==
    /\ stage = "decrypt"
    /\ IF ~Has(base[FormatAt], "format") \/ format.encryption \notin {"NORMAL", "NONE"} THEN Return("XexFileInvalid")
       ELSE /\ out' = IF format.encryption = "NONE" THEN out
                      ELSE Write(out, targetSize, [k \in DOMAIN body |-> Decrypt(originalKey, out[targetSize + k - 1])])
            /\ Go("decompress")
            /\ UNCHANGED cursors
    /\ UNCHANGED input

\* A body compressed with zeros left out is decompressed where it is, in
\* reverse order; an LZX stream is decompressed to behind the larger header.
\* The sums of sizes are of type int32_t, the test of them is in uint32_t.
Decompress ==
    /\ stage = "decompress"
    /\ \/ /\ format.compression = "NONE"
          /\ Go("reformat") /\ UNCHANGED <<out, cursors>>
       \/ /\ format.compression = "BASIC"
          /\ IF Size(out) < Unsigned(targetSize + BasicSize(format.blocks)) THEN Return("XexFileInvalid")
             ELSE /\ i' = Len(format.blocks)
                  /\ src' = targetSize + Signed(DataSize(format.blocks))
                  /\ dst' = targetSize + Signed(BasicSize(format.blocks))
                  /\ Go("inPlace")
                  /\ UNCHANGED <<out, todo, data, info>>
       \/ /\ format.compression = "NORMAL"
          /\ LET stream == NormalStream(Slice(out, targetSize, Len(body)), format.info)
                 imageSize == Number(base[ImageSizeAt])
                 image == lzxDecompress(stream[2], imageSize, format.windowSize, <<>>)
             IN  IF stream[1] = "outside" THEN Return("Undefined")
                 ELSE IF stream[1] = "damaged" \/ image[1] # 0 THEN Return("PatchFailed")
                 ELSE IF ~Inside(out, largerSize, imageSize) THEN Return("Undefined")
                 ELSE /\ out' = Write(out, largerSize, image[2])
                      /\ Go("reformat")
                      /\ UNCHANGED cursors
       \/ format.compression = "DELTA" /\ Return("XexFileUnsupported")
       \/ format.compression \notin {"NONE", "BASIC", "NORMAL", "DELTA"} /\ Return("XexFileInvalid")
    /\ UNCHANGED input

\* A faulty variant: from the first block on, with cursors that go up.
DecompressBlock_Forward ==
    /\ stage = "inPlace"
    /\ IF i = 0 THEN Go("reformat") /\ UNCHANGED <<out, cursors>>
       ELSE LET n == Len(format.blocks) - i
                block == format.blocks[n + 1]
                from == targetSize + DataSize(SubSeq(format.blocks, 1, n))
                to == targetSize + BasicSize(SubSeq(format.blocks, 1, n))
            IN  /\ out' = Write(Write(out, to, Slice(out, from, block[1])),
                                to + block[1], [k \in 1 .. block[2] |-> Zero])
                /\ i' = i - 1
                /\ UNCHANGED <<stage, result, todo, data, info, src, dst>>
    /\ UNCHANGED input

DecompressBlock ==
    /\ stage = "inPlace"
    /\ IF i = 0 THEN Go("reformat") /\ UNCHANGED <<out, cursors>>
       ELSE LET block == format.blocks[i]
                to == dst - block[2] - block[1]
                from == src - block[1]
                zeroed == Write(out, dst - block[2], [k \in 1 .. block[2] |-> Zero])
            IN  IF ~(Inside(out, dst - block[2], block[2]) /\ Inside(out, to, block[1]) /\ Inside(out, from, block[1]))
                THEN Return("Undefined")
                ELSE /\ out' = Write(zeroed, to, Slice(zeroed, from, block[1]))
                     /\ dst' = to
                     /\ src' = from
                     /\ i' = i - 1
                     /\ UNCHANGED <<stage, result, todo, data, info>>
    /\ UNCHANGED input

\* The new header says that nothing is encrypted or compressed; the patch's
\* data is decrypted; a part of the old image is copied.
Reformat ==
    /\ stage = "reformat"
    /\ IF ~Has(out[FormatAt], "format") THEN Return("PatchFailed")
       ELSE IF patchFormat.encryption \notin {"NORMAL", "NONE"} THEN Return("PatchFileInvalid")
       ELSE LET plain == [out EXCEPT ![FormatAt][2].encryption = "NONE", ![FormatAt][2].compression = "NONE"]
                by == descriptor.imageCopy
                at == Number(plain[HeaderSizeAt])
            IN  IF by.from > 0 /\ ~(Inside(out, at + by.to, by.size) /\ Inside(out, at + by.from, by.size))
                THEN Return("Undefined")
                ELSE /\ out' \in IF by.from > 0 THEN Copies(plain, at + by.to, at + by.from, by.size) ELSE {plain}
                     /\ data' = IF patchFormat.encryption = "NONE" THEN patch.body
                                ELSE [k \in DOMAIN patch.body |-> Decrypt(patchKey, patch.body[k])]
                     /\ info' = patchFormat.info
                     /\ Go("blocks")
                     /\ UNCHANGED <<todo, i, src, dst>>
    /\ UNCHANGED input

\* A faulty variant: the hash is not looked at.
NextBlock_Trusting ==
    /\ stage = "blocks"
    /\ IF info[2] = 0 THEN Return("Success")
       ELSE IF info[2] > Len(data) THEN Return("Undefined")
       ELSE /\ todo' = SubSeq(data, 2, info[2])
            /\ info' = IF Has(data[1], "info") THEN data[1] ELSE NoInfo
            /\ data' = SubSeq(data, info[2] + 1, Len(data))
            /\ Go("imageDelta")
            /\ UNCHANGED <<out, i, src, dst>>
    /\ UNCHANGED input

\* The next block of the patch: its hash, the next one's info, its entries.
NextBlock ==
    /\ stage = "blocks"
    /\ IF info[2] = 0 THEN Return("Success")
       ELSE IF info[2] > Len(data) THEN Return("Undefined")
       ELSE IF Sha(SubSeq(data, 1, info[2])) # info[3] THEN Return("PatchFailed")
       ELSE /\ todo' = SubSeq(data, 2, info[2])
            /\ info' = data[1]
            /\ data' = SubSeq(data, info[2] + 1, Len(data))
            /\ Go("imageDelta")
            /\ UNCHANGED <<out, i, src, dst>>
    /\ UNCHANGED input

Next == \/ Validate \/ ApplyEntry \/ EndDelta \/ Append_ \/ CheckKeys
        \/ DecryptBody \/ Decompress \/ DecompressBlock \/ Reformat \/ NextBlock

Spec == Init /\ [][Next]_vars /\ WF_vars(Next)

-----------------------------------------------------------------------------
(* Properties.                                                             *)

\* The base's body as it is behind the new header when it is decompressed.
Stored(o) == IF o + 1 \notin DOMAIN body THEN Zero
             ELSE IF format.encryption = "NONE" THEN body[o + 1] ELSE Decrypt(originalKey, body[o + 1])

\* Block n is where it belongs in the image: its data and then its zeros.
Decompressed(n) ==
    LET block == format.blocks[n]
        from == DataSizes(format.blocks)[n - 1]
        to == targetSize + BasicSizes(format.blocks)[n - 1]
    IN  \A o \in 0 .. block[1] + block[2] - 1 :
            out[to + o] = IF o < block[1] THEN Stored(from + o) ELSE Zero

\* The blocks' sizes together fit into an int32_t, and with the new header's
\* into a uint32_t: an image of less than 2^31 bytes. Nothing tests this.
SizesFit == LET n == BasicSize(format.blocks)
            IN  2 * n < WordSize /\ targetSize + n < WordSize

\* Decompression where the data is overwrites nothing it has yet to read, and
\* nothing but the room behind the new header: the cursor that writes is never
\* overtaken by the one that reads, and in the end every block is in its place,
\* with the data that was stored for it. This is so for all blocks whose sizes
\* fit into the types they are added up in.
DecompressesInPlace ==
    /\ (stage = "inPlace" /\ i # 0 /\ SizesFit) =>
         LET block == format.blocks[i]
         IN  targetSize <= src - block[1] /\ src <= dst - block[2] /\ dst <= Size(out)
    /\ stage = "reformat" =>
         /\ format.compression = "NONE" => \A o \in DOMAIN out : o >= targetSize => out[o] = Stored(o - targetSize)
         /\ (format.compression = "BASIC" /\ SizesFit) => \A n \in DOMAIN format.blocks : Decompressed(n)
=============================================================================
