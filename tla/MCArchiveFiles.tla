---------------------------- MODULE MCArchiveFiles -----------------------------
(* Archives for ArchiveFiles, laid out as makensis lays them out: a header, *)
(* two files and an uninstaller, framed and packed in every way.            *)
EXTENDS ArchiveFiles

Prefix(packed, n) == <<n, 0, 0, IF packed THEN 128 ELSE 0>>

(* The compressed bytes number k of a method.  As a length prefix those of *)
(* Lzma and Bzip2 do not fit, those of Deflate are a frame that does.      *)
Packed(method, k) ==
  CASE method = "Lzma"    -> <<93, 0, 0, 16, 0, k>>
    [] method = "Bzip2"   -> <<49, 1, 2, 200, k>>
    [] method = "Deflate" -> <<3, 0, 0, 128, 5, k>>

(* Deflated bytes that look like Lzma.                                     *)
Disguised == <<93, 0, 0, 160, 9, 9>>

Head2      == <<11, 12>>
Contents   == <<<<1, 2>>, <<3, 4, 5>>, <<6>>, <<8, 9>>>>   (* Two files, icon, overlay. *)

(* The frame of content k.                                                 *)
FrameOf(method, packed, k) ==
  IF packed THEN Prefix(TRUE, Len(Packed(method, k))) \o Packed(method, k)
            ELSE Prefix(FALSE, Len(Contents[k])) \o Contents[k]

Ends(method, packed) ==
  [k \in 0 .. 4 |->
     LET Size(j) == Len(FrameOf(method, packed, j))
     IN  IF k = 0 THEN 0 ELSE IF k = 1 THEN Size(1) ELSE IF k = 2 THEN Size(1) + Size(2)
         ELSE IF k = 3 THEN Size(1) + Size(2) + Size(3)
         ELSE Size(1) + Size(2) + Size(3) + Size(4)]

DataBlock(method, packed) ==
  FrameOf(method, packed, 1) \o FrameOf(method, packed, 2)
    \o FrameOf(method, packed, 3) \o FrameOf(method, packed, 4)

Items(method, packed) ==
  LET end == Ends(method, packed)
  IN  {[kind |-> "file", offset |-> end[k - 1], end |-> end[k], content |-> Contents[k]] :
         k \in {1, 2}}
        \cup {[kind |-> "uninstaller", offset |-> end[2], end |-> end[4],
               content |-> Contents[4]]}

Whole(method, bytes, output) ==
  [method |-> method, bytes |-> bytes, output |-> output, ends |-> "end"]

ItemStreams(method) == {Whole(method, Packed(method, k), Contents[k]) : k \in 1 .. 4}

Checksum == <<251, 252, 253, 254>>
Appended == <<254, 99, 99>>

(* The flag a version writes for an archive with or without a checksum.    *)
FlagOf(version, crc) == IF version = "V1" THEN (IF crc THEN 1 ELSE 0) ELSE (IF crc THEN 0 ELSE 4)

SolidOutput(method) == Prefix(FALSE, 2) \o Head2 \o DataBlock(method, FALSE)

Build(framing, method, packed, version, crc, body, streams, present) ==
  LET tail == (IF crc THEN Checksum ELSE <<>>) \o Appended
      whole == body \o tail
  IN  [framing |-> framing, method |-> method, version |-> version,
       flags |-> FlagOf(version, crc),
       following |-> Len(body) + (IF crc THEN 4 ELSE 0),
       header |-> Head2, stub |-> <<77>>, whole |-> whole, crc |-> crc,
       plain |-> IF framing = "Solid" THEN SolidOutput(method) ELSE <<>>,
       present |-> IF present < Len(whole) THEN present ELSE Len(whole),
       streams |-> streams, items |-> Items(method, packed)]

Stored(method, packed, version, crc, present) ==
  Build("Stored", method, packed, version, crc,
        Prefix(FALSE, 2) \o Head2 \o DataBlock(method, packed), ItemStreams(method), present)

NonSolid(method, packed, version, crc, present) ==
  LET z == Packed(method, 9)
  IN  Build("NonSolid", method, packed, version, crc,
            Prefix(TRUE, Len(z)) \o z \o DataBlock(method, packed),
            ItemStreams(method) \cup {Whole(method, z, Head2)}, present)

(* A stream that is cut short, or damaged, after some of its output.       *)
SolidWith(z, method, version, crc, output, ends, present) ==
  Build("Solid", method, FALSE, version, crc, z,
        {[method |-> method, bytes |-> FirstOf(z, present), output |-> output, ends |-> ends]},
        present)

Everything == 1000

WholeArchives ==
  LET Framed(packed) ==
        {NonSolid(m, packed, v, crc, Everything) :
           m \in Methods, v \in {"V1", "Later"}, crc \in BOOLEAN}
  IN  Framed(TRUE) \cup Framed(FALSE)
        \cup {Stored(m, FALSE, v, crc, Everything) :
                m \in Methods, v \in {"V1", "Later"}, crc \in BOOLEAN}
        \cup {SolidWith(Packed(m, 9), m, v, crc, SolidOutput(m), "end", Everything) :
                m \in Methods, v \in {"V1", "Later"}, crc \in BOOLEAN}
        \cup {SolidWith(Disguised, "Deflate", "Later", TRUE, SolidOutput("Deflate"), "end",
                        Everything)}

(* The bytes present end in the prefix, in the header, in either file, in  *)
(* the uninstaller or behind it.                                           *)
Cuts == {0, 3, 4, 5, 6, 9, 10, 12, 14, 15, 16, 17, 19, 22, 24, 28, 32, 40}

CutArchives ==
  {NonSolid(m, packed, "Later", TRUE, cut) : m \in Methods, packed \in BOOLEAN, cut \in Cuts}
    \cup {Stored("Lzma", FALSE, "Later", TRUE, cut) : cut \in Cuts}
    \cup {SolidWith(Packed(m, 9), m, "Later", TRUE, FirstOf(SolidOutput(m), made), ends, cut) :
            m \in Methods, made \in {0, 3, 5, 6, 7, 9, 12, 15, 20}, ends \in {"cut"}, cut \in {5}}
    \cup {SolidWith(Packed(m, 9), m, "Later", TRUE, FirstOf(SolidOutput(m), made), "damage",
                    Everything) :
            m \in Methods, made \in {0, 3, 5, 6, 7, 9, 12, 15, 20}}

(* Bytes that another codec can read too: of the same archive, the codec   *)
(* makes something of the first frame's body, or of all bytes.  Some are   *)
(* tried behind the right one, or yield nothing, and some mislead.         *)
Reads(a, method, bytes, output) ==
  [a EXCEPT !.streams = @ \cup {Whole(method, bytes, output)}]

SecondReadings ==
  {Reads(NonSolid(m, TRUE, "Later", TRUE, Everything), other, Packed(m, 9), output) :
     m \in Methods, other \in Methods, output \in {<<>>, <<7>>, <<7, 7, 7>>}}
    \cup {Reads(SolidWith(Packed(m, 9), m, "Later", TRUE, SolidOutput(m), "end", Everything),
                other, Packed(m, 9), output) :
             m \in Methods, other \in Methods, output \in {<<7>>, <<7, 7, 7, 7, 7, 7>>}}
    \cup {Reads(SolidWith(Packed("Deflate", 9), "Deflate", "Later", TRUE,
                          SolidOutput("Deflate"), "end", Everything),
                other, <<5, 9, 251>>, output) :
             other \in {"Bzip2", "Deflate"}, output \in {<<>>, <<7, 7>>}}
    \cup {Reads(SolidWith(Packed("Bzip2", 9), "Deflate", "Later", TRUE,
                          SolidOutput("Deflate"), "end", Everything),
                "Bzip2", Packed("Bzip2", 9), output) : output \in {<<7>>, <<7, 7, 7, 7, 7, 7>>}}
    \cup {Reads(NonSolid("Lzma", TRUE, "Later", TRUE, 9), other,
                FirstOf(NonSolid("Lzma", TRUE, "Later", TRUE, 9).whole, 9), <<7, 7, 7, 7, 7, 7>>) :
             other \in Methods}

(* One codec does not read the same bytes in two ways.                     *)
SecondArchives == {a \in SecondReadings : StreamsAgree(a)}

(* An Lzma stream with a dictionary of 16 MB, and a deflated one: as a     *)
(* stored frame each fits what follows.                                    *)
LengthLookalikes ==
  {[a EXCEPT !.whole = @ \o [k \in 1 .. 100 |-> 0], !.present = Len(a.whole) + 100] :
     a \in {SolidWith(z[2], z[1], "Later", TRUE, SolidOutput(z[1]), "end", Everything) :
              z \in {<<"Lzma", <<93, 0, 0, 0, 1, 9>>>>, <<"Deflate", <<3, 0, 0, 0, 5, 9>>>>}}}

SmallArchives == WholeArchives \cup CutArchives \cup SecondArchives \cup LengthLookalikes

SmallBudgets == 0 .. 31
SmallOffsets == {-1, 1, 100}
================================================================================
