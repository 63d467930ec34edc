------------------------------ MODULE BlockDecode ------------------------------
(***************************************************************************)
(* decompress/mod.rs, lzma.rs, deflate.rs and the end of bzip2.rs: how a   *)
(* block is decoded under a limit.  What a codec makes of its input is the *)
(* external part, given as a set of streams; here is what the code makes   *)
(* of that.  Where the result depends on the codec's inner buffers, it is  *)
(* any of a set of outcomes.                                               *)
(***************************************************************************)
EXTENDS Integers, Sequences

Byte    == 0 .. 255
Methods == {"Lzma", "Deflate", "Bzip2"}

(* A codec fed with bytes that begin with the stream's yields its output   *)
(* and then is at the end of the stream, out of input or at damage.        *)
Stream ==
  [method : Methods, bytes : Seq(Byte), output : Seq(Byte),
   ends : {"end", "cut", "damage"}]

Begins(s, t) == Len(s) <= Len(t) /\ SubSeq(t, 1, Len(s)) = s

(* The run of a codec over bytes: no stream is damage at once.             *)
Run(streams, method, bytes) ==
  LET read == {s \in streams : s.method = method /\ Begins(s.bytes, bytes)}
  IN  IF read # {} THEN CHOOSE s \in read : TRUE
      ELSE [output |-> <<>>, ends |-> IF bytes = <<>> THEN "cut" ELSE "damage"]

(* Result<Decoded, Error>                                                  *)
Decoded(data, truncated) == [ok |-> TRUE, data |-> data, truncated |-> truncated]
Failed(error)            == [ok |-> FALSE, error |-> error]

FirstOf(s, n) == SubSeq(s, 1, IF Len(s) < n THEN Len(s) ELSE n)

(* Mutant: a cap truncates too.                                            *)
PastLimitCut(run, limit) == Decoded(FirstOf(run.output, limit.size), TRUE)

(* A decode that has gone past its limit.                                  *)
PastLimit(run, limit) ==
  IF limit.kind = "Capped" THEN Failed("OutputTooLarge")
                           ELSE Decoded(FirstOf(run.output, limit.size), TRUE)

(* lzma.rs: with a known size the reader stops there, or fails where the   *)
(* stream does not get that far; with an unknown one LimitedWriter refuses *)
(* the byte past the limit, and nothing is read further.                   *)
decompress_lzma(bytes, run, limit) ==
  LET size == Len(run.output)
  IN  IF Len(bytes) < 5 THEN {Failed("DecompressionFailed")}
      ELSE IF limit.kind = "Exact" /\ size >= limit.size
        THEN {Decoded(FirstOf(run.output, limit.size), FALSE)}
      ELSE IF limit.kind # "Exact" /\ size > limit.size THEN {PastLimit(run, limit)}
      ELSE IF limit.kind # "Exact" /\ run.ends = "end" THEN {Decoded(run.output, FALSE)}
      ELSE {Failed("DecompressionFailed")}

(* deflate.rs, decompress_bounded: the buffer fills, or the input ends.    *)
(* Damage right behind a full buffer may be noticed.                       *)
decompress_bounded(run, n) ==
  LET size  == Len(run.output)
      whole == size <= n /\ run.ends = "end"
      noted == IF run.ends = "damage" /\ size = n THEN {Failed("DecompressionFailed")} ELSE {}
  IN  IF run.ends = "damage" /\ size < n THEN {Failed("DecompressionFailed")}
      ELSE {Decoded(FirstOf(run.output, n), ~whole)} \cup noted

(* decompress_streaming: input that ends early is taken for the end.       *)
(* Damage past the limit may be met in the chunk that exceeds it.          *)
decompress_streaming(run, limit) ==
  LET excess == IF Len(run.output) > limit.size THEN {PastLimit(run, limit)} ELSE {}
  IN  IF run.ends = "damage" THEN excess \cup {Failed("DecompressionFailed")}
      ELSE IF excess # {} THEN excess
      ELSE {Decoded(run.output, FALSE)}

decompress_deflate(run, limit) ==
  IF limit.kind = "Exact" THEN decompress_bounded(run, limit.size)
                          ELSE decompress_streaming(run, limit)

(* bzip2.rs, whose block loop Bzip2Rle models.  At a full buffer the flag  *)
(* can be raised by a repeat that ends there, and it can be missing where  *)
(* up to three bytes of a last run are dropped (bzip2.rs:779).             *)
decompress_bzip2(run, limit) ==
  LET excess == Len(run.output) - limit.size
      flags  == IF excess <= 3 THEN BOOLEAN ELSE {TRUE}
  IN  IF limit.kind = "Capped" /\ excess > 0 THEN {Failed("OutputTooLarge")}
      ELSE IF limit.kind # "Capped" /\ run.output # <<>> /\ excess >= 0
        THEN {Decoded(FirstOf(run.output, limit.size), flag) : flag \in flags}
      ELSE IF run.ends = "end" THEN {Decoded(run.output, FALSE)}
      ELSE {Failed("DecompressionFailed")}

(* decompress_block, as the set of its outcomes.                           *)
decompress_block(streams, bytes, method, limit) ==
  LET run == Run(streams, method, bytes)
  IN  IF method = "Lzma" THEN decompress_lzma(bytes, run, limit)
      ELSE IF method = "Deflate" THEN decompress_deflate(run, limit)
      ELSE IF method = "Bzip2" THEN decompress_bzip2(run, limit)
      ELSE {Decoded(bytes, FALSE)}

(* The method the first bytes suggest.                                     *)
detect_compression(bytes) ==
  IF bytes = <<>> THEN "None"
  ELSE IF bytes[1] = 93 /\ Len(bytes) >= 5 THEN "Lzma"
  ELSE IF bytes[1] = 49 /\ Len(bytes) >= 4 THEN "Bzip2"
  ELSE "Deflate"

-----------------------------------------------------------------------------

(* read_length_prefix, on a source from an offset: four bytes, little end  *)
(* first, whose top bit says that what follows is compressed.              *)
HasPrefix(source, offset) == offset + 4 <= Len(source)

read_length_prefix(source, offset) ==
  [is_compressed |-> source[offset + 4] >= 128,
   size |-> source[offset + 1] + 256 * source[offset + 2]
              + 65536 * source[offset + 3] + 16777216 * (source[offset + 4] % 128)]

(* slice::get(from .. to)                                                  *)
InSource(source, to)     == to <= Len(source)
Slice(source, from, to)  == SubSeq(source, from + 1, to)
================================================================================
