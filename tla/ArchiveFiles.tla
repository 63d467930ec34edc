----------------------------- MODULE ArchiveFiles ------------------------------
(***************************************************************************)
(* decompress_header in decompress/mod.rs, the data-block step of          *)
(* parse_with_budget, and the access to files and uninstallers by offset   *)
(* (installer/files.rs, Uninstaller in installer/analysis.rs): how an      *)
(* installer of unknown framing and method is opened, and what its files   *)
(* are then read from.                                                     *)
(*                                                                         *)
(* An archive is what makensis has built, header and items, together with  *)
(* the bytes it has made of them; the code sees the bytes only.  They may  *)
(* be cut short.                                                           *)
(***************************************************************************)
EXTENDS BlockDecode

CONSTANTS
  Archives,    (* The archives.                                            *)
  Budgets,     (* Values of max_decompressed_size.                         *)
  OddOffsets   (* Offsets instructions may hold besides those of items.    *)

(* A file or an uninstaller of the archive: where it begins and ends in    *)
(* the data block, and its content.                                        *)
Item ==
  [kind : {"file", "uninstaller"}, offset : Nat, end : Nat, content : Seq(Byte)]

IsArchive(a) ==
  /\ a.framing \in {"Stored", "NonSolid", "Solid"} /\ a.method \in Methods
  /\ a.version \in {"V1", "Later"} /\ a.flags \in 0 .. 7 /\ a.following \in Nat
  /\ a.header \in Seq(Byte) /\ a.stub \in Seq(Byte)
  /\ a.whole \in Seq(Byte) /\ a.present \in 0 .. Len(a.whole)
  /\ a.plain \in Seq(Byte) /\ a.crc \in BOOLEAN
  /\ \A s \in a.streams : s \in Stream
  /\ \A i \in a.items : i \in Item

(* What makensis does.  The text of an archive is what its frames lie in:  *)
(* the file, or else what the one solid stream decodes to.  It begins with *)
(* the header, the data block is the rest.                                 *)
Text(a) == IF a.framing = "Solid" THEN a.plain ELSE a.whole

FrameEnd(text, from) == from + 4 + read_length_prefix(text, from).size

(* A frame with this content; only a non-solid archive packs its frames.   *)
FrameHolds(a, text, from, content) ==
  /\ HasPrefix(text, from) /\ FrameEnd(text, from) <= Len(text)
  /\ LET body == Slice(text, from + 4, FrameEnd(text, from)) IN
     IF read_length_prefix(text, from).is_compressed
       THEN /\ a.framing = "NonSolid"
            /\ \E s \in a.streams :
                 s.method = a.method /\ s.bytes = body /\ s.output = content /\ s.ends = "end"
       ELSE body = content

(* Where the content of an item is: an uninstaller's is behind its icon.   *)
ContentAt(text, start, i) ==
  IF i.kind = "file" THEN start + i.offset ELSE FrameEnd(text, start + i.offset)

ItemHolds(a, text, start, i) ==
  /\ HasPrefix(text, start + i.offset)
  /\ FrameHolds(a, text, ContentAt(text, start, i), i.content)
  /\ FrameEnd(text, ContentAt(text, start, i)) = start + i.end

(* A codec is a function of what it is fed, and makes nothing of nothing;  *)
(* what Lzma packs has five bytes of properties.  The codecs that did not  *)
(* pack the archive may make something of its bytes as well.               *)
StreamsAgree(a) ==
  /\ \A s \in a.streams : s.method = "Lzma" => Len(s.bytes) >= 5
  /\ \A s \in a.streams : s.bytes = <<>> => s.output = <<>>
  /\ \A s, t \in a.streams :
       s.method = t.method /\ Begins(s.bytes, t.bytes) => s.output = t.output /\ s.ends = t.ends

IsFramed(a) == a.framing = "NonSolid" => read_length_prefix(a.whole, 0).is_compressed

(* What the packing method makes of the file as one stream.                *)
ReadsAsOne(a, s) == s.method = a.method /\ Begins(s.bytes, a.whole)

IsWhole(a) ==
  a.present = Len(a.whole) /\ \A s \in a.streams : ReadsAsOne(a, s) => s.ends = "end"

(* The stream is followed by its checksum, if any.                         *)
IsSolid(a) ==
  /\ HasPrefix(a.whole, 0)
  /\ \A s \in a.streams :
       ReadsAsOne(a, s) => Begins(s.output, a.plain) /\ (s.ends = "end" => s.output = a.plain)
  /\ a.crc <=> IF a.version = "V1" THEN a.flags \in {1, 3, 5, 7} ELSE a.flags \in 0 .. 3
  /\ IsWhole(a) =>
       \E s \in a.streams :
         ReadsAsOne(a, s) /\ a.following = Len(s.bytes) + (IF a.crc THEN 4 ELSE 0)

IsBuilt(a) ==
  /\ a.header # <<>> /\ FrameHolds(a, Text(a), 0, a.header)
  /\ \A i \in a.items : ItemHolds(a, Text(a), FrameEnd(Text(a), 0), i)
  /\ StreamsAgree(a)
  /\ IF a.framing = "Solid" THEN IsSolid(a) ELSE IsFramed(a)

ASSUME ArchivesAssumption == \A a \in Archives : IsArchive(a) /\ IsBuilt(a)
ASSUME BudgetsAssumption  == Budgets \subseteq Nat
ASSUME OffsetsAssumption  == OddOffsets \subseteq Int

VARIABLES
  archive,      (* The archive; never changes.                             *)
  max_decompressed_size,
  pc,           (* "prefix", "non-solid", "solid", "data-block", "open" or *)
                (* "failed".                                               *)
  attempts,     (* The methods still to be tried.                          *)
  header_data, compression, mode,
  consumed,     (* Bytes of the header's frame, where it has one.          *)
  solid_data, solid_status,
  answer        (* What the last access to an item returned.               *)

input  == <<archive, max_decompressed_size>>
header == <<header_data, compression, mode, consumed>>
solid  == <<solid_data, solid_status>>
vars   == <<input, pc, attempts, header, solid, answer>>

after_fh      == FirstOf(archive.whole, archive.present)
expected_size == Len(archive.header)

Exact(n) == [kind |-> "Exact", size |-> n]
Budget(kind) == [kind |-> kind, size |-> max_decompressed_size]

NoAnswer == [call |-> "none"]

Init ==
  /\ archive \in Archives /\ max_decompressed_size \in Budgets
  /\ pc = "prefix" /\ attempts = <<>>
  /\ header_data = <<>> /\ compression = "None" /\ mode = "NonSolid" /\ consumed = 0
  /\ solid_data = <<>> /\ solid_status = "NotSolid" /\ answer = NoAnswer

-----------------------------------------------------------------------------
(* decompress_header                                                       *)

(* Mutant: detection is trusted.                                           *)
OrderDetected(method) == <<method>>

(* The method found first and then the others.                             *)
Order(method) ==
  IF method = "Lzma" THEN <<"Lzma", "Deflate", "Bzip2">>
  ELSE IF method = "Deflate" THEN <<"Deflate", "Lzma", "Bzip2">>
  ELSE IF method = "Bzip2" THEN <<"Bzip2", "Lzma", "Deflate">>
  ELSE <<method, "Lzma", "Deflate", "Bzip2">>

Accept(data, method, framing, bytes) ==
  /\ header_data' = data /\ compression' = method /\ mode' = framing /\ consumed' = bytes
  /\ pc' = "data-block" /\ attempts' = <<>>
  /\ UNCHANGED <<input, solid, answer>>

Fail == pc' = "failed" /\ UNCHANGED <<input, attempts, header, solid, answer>>

NoLengthPrefix == pc = "prefix" /\ ~HasPrefix(after_fh, 0) /\ Fail

Frame      == read_length_prefix(after_fh, 0)

(* The bytes of the frame that the decoding consumes.                      *)
frame_bytes == 4 + Frame.size

frame_fits == InSource(after_fh, 4 + Frame.size)

StoredHeader ==
  /\ pc = "prefix" /\ HasPrefix(after_fh, 0)
  /\ ~Frame.is_compressed /\ frame_fits
  /\ Accept(Slice(after_fh, 4, 4 + Frame.size), "None", "NonSolid", frame_bytes)

(* What a frame that is compressed and fits would hold.                    *)
compressed_data ==
  IF Frame.is_compressed /\ frame_fits THEN Slice(after_fh, 4, 4 + Frame.size) ELSE <<>>

NoStoredHeader ==
  /\ pc = "prefix" /\ HasPrefix(after_fh, 0)
  /\ Frame.is_compressed \/ ~frame_fits
  /\ attempts' = Order(detect_compression(compressed_data))
  /\ pc' = "non-solid"
  /\ UNCHANGED <<input, header, solid, answer>>

(* Mutant: an empty result counts as the header.                           *)
SomeData(result) == result.ok

AcceptedData(result) == result.ok /\ result.data # <<>>

TryNonSolid ==
  /\ pc = "non-solid" /\ attempts # <<>>
  /\ \E result \in decompress_block(archive.streams, compressed_data, Head(attempts),
                                    Exact(expected_size)) :
       IF AcceptedData(result)
         THEN Accept(result.data, Head(attempts), "NonSolid", frame_bytes)
         ELSE attempts' = Tail(attempts) /\ UNCHANGED <<input, pc, header, solid, answer>>

BeginSolid ==
  /\ pc = "non-solid" /\ attempts = <<>>
  /\ attempts' = Order(detect_compression(after_fh))
  /\ pc' = "solid"
  /\ UNCHANGED <<input, header, solid, answer>>

(* strip_solid_prefix, of data that has a prefix.                          *)
stripped(data) ==
  IF read_length_prefix(data, 0) = [is_compressed |-> FALSE, size |-> Len(data) - 4]
    THEN Slice(data, 4, Len(data)) ELSE data

solid_expected == expected_size + 4

(* A result too short for its prefix ends the attempts.                    *)
TrySolid ==
  /\ pc = "solid" /\ attempts # <<>>
  /\ \E result \in decompress_block(archive.streams, after_fh, Head(attempts),
                                    Exact(solid_expected)) :
       IF result.ok
         THEN IF HasPrefix(result.data, 0)
                THEN Accept(stripped(result.data), Head(attempts), "Solid", 0)
                ELSE Fail
         ELSE attempts' = Tail(attempts) /\ UNCHANGED <<input, pc, header, solid, answer>>

UnsupportedCompression == pc = "solid" /\ attempts = <<>> /\ Fail

decompress_header ==
  \/ NoLengthPrefix \/ StoredHeader \/ NoStoredHeader
  \/ TryNonSolid \/ BeginSolid \/ TrySolid \/ UnsupportedCompression

-----------------------------------------------------------------------------
(* parse_with_budget, step 6.                                              *)

Bit(flags, b) == (flags \div b) % 2 = 1

(* Mutant: the flag of 1.x is read as that of later versions.              *)
has_crc_later == ~Bit(archive.flags, 4)

(* Version 1 has a flag for the checksum, later ones for its absence.      *)
has_crc ==
  IF archive.version = "V1" THEN Bit(archive.flags, 1) ELSE ~Bit(archive.flags, 4)

Larger(a, b) == IF a < b THEN b ELSE a

(* The stream without checksum and without what is appended to it.         *)
stream_bytes ==
  FirstOf(after_fh, Larger(0, IF has_crc THEN archive.following - 4 ELSE archive.following))

file_data_start == Len(header_data) + 4

NonSolidBlock ==
  /\ pc = "data-block" /\ mode = "NonSolid"
  /\ pc' = "open"
  /\ UNCHANGED <<input, attempts, header, solid, answer>>

SolidBlock ==
  /\ pc = "data-block" /\ mode = "Solid"
  /\ \E result \in decompress_block(archive.streams, stream_bytes, compression,
                                    Budget("Truncate")) :
       LET data == IF result.ok THEN result.data ELSE <<>>
       IN  /\ solid_data' = Slice(data, file_data_start, Len(data))
           /\ solid_status' = IF ~result.ok THEN "Failed"
                              ELSE IF result.truncated THEN "Truncated" ELSE "Complete"
  /\ pc' = "open"
  /\ UNCHANGED <<input, attempts, header, answer>>

-----------------------------------------------------------------------------
(* Access to items.  Offsets in the file are counted from after_fh.        *)

data_source        == IF mode = "Solid" THEN solid_data ELSE after_fh
source_offset(off) == IF mode = "Solid" THEN off ELSE consumed + off

(* solid_failure, or else what the bounds say.                             *)
OutOfReach ==
  Failed(IF solid_status = "Truncated" THEN "OutputTooLarge"
         ELSE IF solid_status = "Failed" THEN "DecompressionFailed" ELSE "TooShort")

payload_end(from)  == from + 4 + read_length_prefix(data_source, from).size
HasPayload(from)   == HasPrefix(data_source, from) /\ InSource(data_source, payload_end(from))
PayloadAt(from)    == Slice(data_source, from + 4, payload_end(from))

(* The results of reading the frame at an offset of the source.            *)
Unpack(from) ==
  IF read_length_prefix(data_source, from).is_compressed
    THEN decompress_block(archive.streams, PayloadAt(from), compression, Budget("Capped"))
    ELSE {Decoded(PayloadAt(from), FALSE)}

(* ExtractedFile::decompress                                               *)
FileResults(from) == IF HasPayload(from) THEN Unpack(from) ELSE {OutOfReach}

(* A file is yielded by InstructionIter and decompressed;                  *)
(* validate_data_bounds makes the same tests, with the same errors.        *)
ExtractFile(off) ==
  /\ pc = "open" /\ off >= 0
  /\ \E result \in FileResults(source_offset(off)) :
       answer' = [call |-> "file", offset |-> off, result |-> result]
  /\ UNCHANGED <<input, pc, attempts, header, solid>>

(* Mutant: the icon's prefix is not skipped.                               *)
overlay_offset_bare(from) == from + read_length_prefix(data_source, from).size

(* Behind the icon and its prefix.                                         *)
overlay_offset(from) == payload_end(from)

HasOverlay(from) ==
  /\ HasPrefix(data_source, from)
  /\ HasPrefix(data_source, overlay_offset(from))
  /\ HasPayload(overlay_offset(from))

WithStub(result) ==
  IF result.ok THEN Decoded(archive.stub \o result.data, FALSE) ELSE result

(* Uninstaller::decompress                                                 *)
UninstallerResults(from) ==
  IF HasOverlay(from) THEN {WithStub(r) : r \in Unpack(overlay_offset(from))}
                      ELSE {Failed("TooShort")}

(* A negative offset is the start of the data block.                       *)
ExtractUninstaller(off) ==
  /\ pc = "open"
  /\ \E result \in UninstallerResults(source_offset(Larger(0, off))) :
       answer' = [call |-> "uninstaller", offset |-> off, result |-> result]
  /\ UNCHANGED <<input, pc, attempts, header, solid>>

Failure == pc = "failed" /\ UNCHANGED vars

Offsets == {i.offset : i \in archive.items} \cup OddOffsets

Next ==
  \/ decompress_header
  \/ NonSolidBlock \/ SolidBlock
  \/ \E off \in Offsets : ExtractFile(off) \/ ExtractUninstaller(off)
  \/ Failure

Spec == Init /\ [][Next]_vars

-----------------------------------------------------------------------------
(* Properties.                                                             *)

Opened == pc \in {"data-block", "open"}

(* A trial takes the bytes as they are laid out in a framing and packed    *)
(* with a method; it succeeds when something comes out.                    *)
Trial == [framing : {"NonSolid", "Solid"}, method : Methods]

Yields(result) == result.ok /\ result.data # <<>>

Outcomes(t) ==
  IF t.framing = "Solid"
    THEN decompress_block(archive.streams, after_fh, t.method, Exact(solid_expected))
    ELSE decompress_block(archive.streams, compressed_data, t.method, Exact(expected_size))

MaySucceed(t) ==
  \E result \in Outcomes(t) : IF t.framing = "Solid" THEN result.ok ELSE Yields(result)

WillSucceed(t) ==
  \A result \in Outcomes(t) : IF t.framing = "Solid" THEN result.ok ELSE Yields(result)

(* "Try to detect and decompress with non-solid framing", "if the detected *)
(* method failed, try the other methods", then solid mode.                 *)
Rank(method, detected) ==
  IF method = detected THEN 0
  ELSE IF method = "Lzma" THEN 1 ELSE IF method = "Deflate" THEN 2 ELSE 3

IsTriedBefore(t, u) ==
  LET detected == detect_compression(IF t.framing = "Solid" THEN after_fh ELSE compressed_data)
  IN  \/ t.framing = "NonSolid" /\ u.framing = "Solid"
      \/ t.framing = u.framing /\ Rank(t.method, detected) < Rank(u.method, detected)

Own == [framing |-> archive.framing, method |-> archive.method]

(* What is there looks like a stored frame.  No trial gets past that.      *)
LooksStored == HasPrefix(after_fh, 0) /\ ~Frame.is_compressed /\ frame_fits

(* Nothing marks the framing and the method.  The bytes mislead where they *)
(* make sense in another framing or by another method and the right trial  *)
(* does not come first: a solid stream whose first word is a length that   *)
(* fits, packed bytes that a codec tried earlier can read, and what is     *)
(* left of an archive that is cut.                                         *)
Misleads ==
  \/ archive.framing # "Stored" /\ LooksStored
  \/ /\ HasPrefix(after_fh, 0) /\ ~LooksStored
     /\ \E t \in Trial \ {Own} :
          MaySucceed(t) /\ ~(Own \in Trial /\ WillSucceed(Own) /\ IsTriedBefore(Own, t))

(* A deflate stream that stops before its header is complete: what there   *)
(* is of it is taken for the whole (decompress_bounded).                   *)
HeaderIsCut ==
  /\ archive.framing = "Solid" /\ archive.method = "Deflate"
  /\ \E s \in archive.streams :
       /\ s.method = "Deflate" /\ Begins(s.bytes, after_fh)
       /\ s.ends = "cut" /\ Len(s.output) < solid_expected

(* An installer that opens has the header that was built, in its framing   *)
(* and by its method, although wrong framings and methods are tried before *)
(* the right one and behind it, and may succeed there: unless one misleads.*)
HeaderIsFound ==
  Opened /\ ~Misleads =>
    /\ header_data = archive.header \/ HeaderIsCut
    /\ mode = IF archive.framing = "Solid" THEN "Solid" ELSE "NonSolid"
    /\ compression = IF archive.framing = "Stored" THEN "None" ELSE archive.method

IsSound == IsWhole(archive)

(* However many trials fail before the right one, a sound archive is       *)
(* opened, unless its bytes mislead.                                       *)
SoundArchivesOpen == pc = "failed" => ~IsSound \/ Misleads

(* The item an access was for, of an archive that does not mislead.        *)
IsFor(i, call) ==
  ~Misleads /\ answer.call = call /\ i.kind = call /\ answer.offset = i.offset

(* A file that is extracted has the content it was built with, whatever is *)
(* missing or damaged behind it and wherever the budget ends.              *)
FilesAreIntact ==
  \A i \in archive.items :
    IsFor(i, "file") /\ answer.result.ok => answer.result.data = i.content

(* What a budget must allow for an item: the solid stream up to its end,   *)
(* or else its content.                                                    *)
Needed(i) ==
  IF archive.framing = "Solid" THEN 4 + Len(archive.header) + i.end ELSE Len(i.content)

(* Only the budget withholds a file of a sound archive, and the error says *)
(* so ("the rest report Error::OutputTooLarge", nsisinstaller.rs:64), but  *)
(* for bzip2, whose truncation flag can miss a cut (bzip2.rs:779).         *)
OnlyTheBudgetWithholds ==
  \A i \in archive.items :
    IsSound /\ IsFor(i, "file") /\ ~answer.result.ok =>
      /\ Needed(i) > max_decompressed_size
      /\ answer.result.error = "OutputTooLarge" \/ archive.method = "Bzip2"

(* The uninstaller of a sound archive is the stub and the overlay behind   *)
(* the icon, unless the budget does not reach it.                          *)
UninstallerIsRebuilt ==
  \A i \in archive.items :
    IsFor(i, "uninstaller") =>
      IF answer.result.ok THEN answer.result.data = archive.stub \o i.content
                          ELSE IsSound => Needed(i) > max_decompressed_size
================================================================================
