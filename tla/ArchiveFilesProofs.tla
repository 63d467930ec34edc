--------------------------- MODULE ArchiveFilesProofs ---------------------------
(***************************************************************************)
(* Theorems about ArchiveFiles, for every set of archives, budgets and     *)
(* offsets.                                                                *)
(***************************************************************************)
EXTENDS ArchiveFiles, SequenceTheorems, TLAPS

-----------------------------------------------------------------------------
(* Sequences of bytes and their parts.                                     *)

LEMMA FirstOfFacts ==
  ASSUME NEW S, NEW s \in Seq(S), NEW n \in Nat
  PROVE  /\ FirstOf(s, n) \in Seq(S)
         /\ Len(FirstOf(s, n)) = (IF Len(s) < n THEN Len(s) ELSE n)
         /\ \A k \in 1 .. Len(FirstOf(s, n)) : FirstOf(s, n)[k] = s[k]
<1> DEFINE m == IF Len(s) < n THEN Len(s) ELSE n
<1>1. m \in Nat /\ m <= Len(s)
  OBVIOUS
<1>2. FirstOf(s, n) = SubSeq(s, 1, m)
  BY DEF FirstOf
<1> HIDE DEF m
<1>3. /\ SubSeq(s, 1, m) \in Seq(S) /\ Len(SubSeq(s, 1, m)) = m
      /\ \A k \in 1 .. m : SubSeq(s, 1, m)[k] = s[k]
  BY <1>1
<1>. QED BY <1>2, <1>3 DEF m

LEMMA SliceFacts ==
  ASSUME NEW S, NEW s \in Seq(S), NEW i \in Nat, NEW j \in Nat, i <= j, j <= Len(s)
  PROVE  /\ Slice(s, i, j) \in Seq(S) /\ Len(Slice(s, i, j)) = j - i
         /\ \A k \in 1 .. j - i : Slice(s, i, j)[k] = s[i + k]
BY DEF Slice

(* d is a window on a text, from a place on.                               *)
Shows(d, text, base) ==
  /\ d \in Seq(Byte) /\ text \in Seq(Byte) /\ base \in Nat
  /\ base + Len(d) <= Len(text)
  /\ \A k \in 1 .. Len(d) : d[k] = text[base + k]

LEMMA ShowsSlice ==
  ASSUME NEW d, NEW text, NEW base, Shows(d, text, base),
         NEW i \in Nat, NEW j \in Nat, i <= j, j <= Len(d)
  PROVE  Slice(d, i, j) = Slice(text, base + i, base + j)
<1> DEFINE i2 == base + i
           j2 == base + j
<1>1. /\ d \in Seq(Byte) /\ text \in Seq(Byte) /\ base \in Nat /\ base + Len(d) <= Len(text)
      /\ \A k \in 1 .. Len(d) : d[k] = text[base + k]
  BY DEF Shows
<1>2. /\ Slice(d, i, j) \in Seq(Byte) /\ Len(Slice(d, i, j)) = j - i
      /\ \A k \in 1 .. j - i : Slice(d, i, j)[k] = d[i + k]
  BY <1>1, SliceFacts
<1>3. i2 \in Nat /\ j2 \in Nat /\ i2 <= j2 /\ j2 <= Len(text) /\ j2 - i2 = j - i
  BY <1>1
<1>4. \A k \in 1 .. j - i : d[i + k] = text[i2 + k]
  <2>1. ASSUME NEW k \in 1 .. j - i  PROVE d[i + k] = text[i2 + k]
    <3>1. i + k \in 1 .. Len(d)
      BY <1>1
    <3>2. d[i + k] = text[base + (i + k)] /\ base + (i + k) = i2 + k
      BY <1>1, <3>1
    <3>. QED BY <3>2
  <2>. QED BY <2>1
<1>5. text \in Seq(Byte) /\ i2 \in Nat /\ j2 \in Nat /\ i2 <= j2 /\ j2 <= Len(text)
  BY <1>1, <1>3
<1> HIDE DEF i2, j2
<1>6. /\ Slice(text, i2, j2) \in Seq(Byte) /\ Len(Slice(text, i2, j2)) = j2 - i2
      /\ \A k \in 1 .. j2 - i2 : Slice(text, i2, j2)[k] = text[i2 + k]
  BY <1>5, SliceFacts
<1>7. Len(Slice(d, i, j)) = Len(Slice(text, i2, j2))
  BY <1>2, <1>3, <1>6
<1>8. \A k \in 1 .. Len(Slice(d, i, j)) : Slice(d, i, j)[k] = Slice(text, i2, j2)[k]
  BY <1>2, <1>3, <1>4, <1>6
<1>9. Slice(d, i, j) = Slice(text, i2, j2)
  BY <1>2, <1>6, <1>7, <1>8, SeqEqual
<1>. QED BY <1>9 DEF i2, j2

LEMMA PrefixType ==
  ASSUME NEW s \in Seq(Byte), NEW o \in Nat, HasPrefix(s, o)
  PROVE  /\ read_length_prefix(s, o).is_compressed \in BOOLEAN
         /\ read_length_prefix(s, o).size \in Nat
         /\ FrameEnd(s, o) \in Nat /\ FrameEnd(s, o) >= o + 4
<1>1. o + 4 <= Len(s)
  BY DEF HasPrefix
<1>2. /\ o + 1 \in 1 .. Len(s) /\ o + 2 \in 1 .. Len(s)
      /\ o + 3 \in 1 .. Len(s) /\ o + 4 \in 1 .. Len(s)
  BY <1>1
<1>3. s[o + 1] \in Byte /\ s[o + 2] \in Byte /\ s[o + 3] \in Byte /\ s[o + 4] \in Byte
  BY <1>2
<1> DEFINE b1 == s[o + 1]
           b2 == s[o + 2]
           b3 == s[o + 3]
           b4 == s[o + 4]
<1>4. b1 \in Nat /\ b2 \in Nat /\ b3 \in Nat /\ b4 \in Nat
  <2>1. \A b \in Byte : b \in Nat
    BY DEF Byte
  <2>. QED BY <1>3, <2>1
<1>5. /\ read_length_prefix(s, o).size = b1 + 256 * b2 + 65536 * b3 + 16777216 * (b4 % 128)
      /\ read_length_prefix(s, o).is_compressed = (b4 >= 128)
  BY DEF read_length_prefix
<1> HIDE DEF b1, b2, b3, b4
<1>6. b4 % 128 \in Nat
  BY <1>4
<1>7. read_length_prefix(s, o).size \in Nat /\ read_length_prefix(s, o).is_compressed \in BOOLEAN
  BY <1>4, <1>5, <1>6
<1>. QED BY <1>7 DEF FrameEnd

LEMMA ShowsPrefix ==
  ASSUME NEW d, NEW text, NEW base, Shows(d, text, base), NEW o \in Nat, HasPrefix(d, o)
  PROVE  /\ HasPrefix(text, base + o)
         /\ read_length_prefix(d, o) = read_length_prefix(text, base + o)
<1>1. \A k \in 1 .. 4 : d[o + k] = text[(base + o) + k]
  BY DEF Shows, HasPrefix
<1>2. HasPrefix(text, base + o)
  BY DEF Shows, HasPrefix
<1>3. /\ d[o + 1] = text[base + o + 1] /\ d[o + 2] = text[base + o + 2]
      /\ d[o + 3] = text[base + o + 3] /\ d[o + 4] = text[base + o + 4]
  BY <1>1
<1>. QED BY <1>2, <1>3 DEF read_length_prefix

LEMMA BeginsFacts ==
  ASSUME NEW s \in Seq(Byte), NEW t \in Seq(Byte)
  PROVE  Begins(s, t) <=> Len(s) <= Len(t) /\ \A k \in 1 .. Len(s) : s[k] = t[k]
<1>1. CASE Len(s) <= Len(t)
  <2>1. /\ SubSeq(t, 1, Len(s)) \in Seq(Byte) /\ Len(SubSeq(t, 1, Len(s))) = Len(s)
        /\ \A k \in 1 .. Len(s) : SubSeq(t, 1, Len(s))[k] = t[k]
    BY <1>1
  <2>2. SubSeq(t, 1, Len(s)) = s <=> \A k \in 1 .. Len(s) : s[k] = t[k]
    BY <2>1, SeqEqual
  <2>. QED BY <1>1, <2>2 DEF Begins
<1>. QED BY <1>1 DEF Begins

(* Of two beginnings of a sequence one begins the other.                   *)
LEMMA BeginsBoth ==
  ASSUME NEW s \in Seq(Byte), NEW t \in Seq(Byte), NEW u \in Seq(Byte),
         Begins(s, u), Begins(t, u)
  PROVE  Begins(s, t) \/ Begins(t, s)
BY BeginsFacts

LEMMA BeginsTransitive ==
  ASSUME NEW s \in Seq(Byte), NEW t \in Seq(Byte), NEW u \in Seq(Byte),
         Begins(s, t), Begins(t, u)
  PROVE  Begins(s, u)
BY BeginsFacts

LEMMA BeginsItself ==
  ASSUME NEW s \in Seq(Byte)
  PROVE  Begins(s, s)
BY BeginsFacts

LEMMA NothingBegins ==
  ASSUME NEW s \in Seq(Byte)
  PROVE  Begins(<<>>, s)
<1> DEFINE e == <<>>
<1>1. e \in Seq(Byte) /\ Len(e) = 0
  OBVIOUS
<1> HIDE DEF e
<1>2. Len(e) <= Len(s) /\ \A k \in 1 .. Len(e) : e[k] = s[k]
  BY <1>1
<1>3. Begins(e, s)
  BY <1>1, <1>2, BeginsFacts
<1>. QED BY <1>3 DEF e

LEMMA FirstBegins ==
  ASSUME NEW s \in Seq(Byte), NEW n \in Nat
  PROVE  Begins(FirstOf(s, n), s) /\ Shows(FirstOf(s, n), s, 0)
<1>1. /\ FirstOf(s, n) \in Seq(Byte) /\ Len(FirstOf(s, n)) <= Len(s)
      /\ \A k \in 1 .. Len(FirstOf(s, n)) : FirstOf(s, n)[k] = s[k]
  BY FirstOfFacts
<1>. QED BY <1>1, BeginsFacts DEF Shows

LEMMA FirstOfAll ==
  ASSUME NEW s \in Seq(Byte), NEW n \in Nat, Len(s) <= n
  PROVE  FirstOf(s, n) = s
<1>1. FirstOf(s, n) \in Seq(Byte) /\ Len(FirstOf(s, n)) = Len(s)
  BY FirstOfFacts
<1>2. \A k \in 1 .. Len(s) : FirstOf(s, n)[k] = s[k]
  BY <1>1, FirstOfFacts
<1>. QED BY <1>1, <1>2, SeqEqual

LEMMA FirstOfNothing ==
  ASSUME NEW n \in Nat
  PROVE  FirstOf(<<>>, n) = <<>>
<1>1. <<>> \in Seq(Byte) /\ Len(<<>>) <= n
  OBVIOUS
<1>. QED BY <1>1, FirstOfAll

(* What begins a sequence begins every long enough beginning of it.        *)
LEMMA BeginsFirst ==
  ASSUME NEW s \in Seq(Byte), NEW t \in Seq(Byte), NEW n \in Nat,
         Begins(s, t), Len(s) <= n
  PROVE  Begins(s, FirstOf(t, n))
<1>1. /\ FirstOf(t, n) \in Seq(Byte) /\ Len(s) <= Len(FirstOf(t, n))
      /\ \A k \in 1 .. Len(FirstOf(t, n)) : FirstOf(t, n)[k] = t[k]
  BY FirstOfFacts, BeginsFacts
<1>2. \A k \in 1 .. Len(s) : s[k] = t[k]
  BY BeginsFacts
<1>. QED BY <1>1, <1>2, BeginsFacts

-----------------------------------------------------------------------------
(* What a codec makes of bytes, and what the limits make of that.          *)

(* The streams of an archive, as far as decoding is concerned.             *)
Codec(streams) ==
  /\ \A s \in streams : s \in Stream /\ (s.method = "Lzma" => Len(s.bytes) >= 5)
  /\ \A s \in streams : s.bytes = <<>> => s.output = <<>>
  /\ \A s, t \in streams :
       s.method = t.method /\ Begins(s.bytes, t.bytes) => s.output = t.output /\ s.ends = t.ends

LEMMA SomeRun ==
  ASSUME NEW streams, Codec(streams), NEW bytes \in Seq(Byte),
         NEW s \in streams, Begins(s.bytes, bytes)
  PROVE  /\ Run(streams, s.method, bytes).output = s.output
         /\ Run(streams, s.method, bytes).ends = s.ends
<1> DEFINE read == {t \in streams : t.method = s.method /\ Begins(t.bytes, bytes)}
           r == CHOOSE t \in read : TRUE
<1>1. s \in read
  OBVIOUS
<1>2. r \in read
  BY <1>1
<1>3. Run(streams, s.method, bytes) = r
  BY <1>1 DEF Run
<1>4. r \in streams /\ Begins(r.bytes, bytes) /\ r.method = s.method
  BY <1>2
<1>5. r.bytes \in Seq(Byte) /\ s.bytes \in Seq(Byte)
  BY <1>4 DEF Codec, Stream
<1> HIDE DEF r, read
<1>6. Begins(r.bytes, s.bytes) \/ Begins(s.bytes, r.bytes)
  BY <1>4, <1>5, BeginsBoth
<1>. QED BY <1>3, <1>4, <1>6 DEF Codec

(* Without a stream nothing comes out, and there is no end.                *)
LEMMA NoRun ==
  ASSUME NEW streams, NEW m, NEW bytes,
         \A s \in streams : s.method = m => ~Begins(s.bytes, bytes)
  PROVE  /\ Run(streams, m, bytes).output = <<>>
         /\ Run(streams, m, bytes).ends = (IF bytes = <<>> THEN "cut" ELSE "damage")
<1>1. {s \in streams : s.method = m /\ Begins(s.bytes, bytes)} = {}
  OBVIOUS
<1>. QED BY <1>1 DEF Run

LEMMA RunType ==
  ASSUME NEW streams, Codec(streams), NEW m, NEW bytes \in Seq(Byte)
  PROVE  /\ Run(streams, m, bytes).output \in Seq(Byte)
         /\ Run(streams, m, bytes).ends \in {"end", "cut", "damage"}
<1>1. CASE \A s \in streams : s.method = m => ~Begins(s.bytes, bytes)
  <2>1. <<>> \in Seq(Byte)
    OBVIOUS
  <2>2. /\ Run(streams, m, bytes).output = <<>>
        /\ Run(streams, m, bytes).ends = (IF bytes = <<>> THEN "cut" ELSE "damage")
    BY <1>1, NoRun
  <2>. QED BY <2>1, <2>2
<1>2. CASE \E s \in streams : s.method = m /\ Begins(s.bytes, bytes)
  <2>1. PICK s \in streams : s.method = m /\ Begins(s.bytes, bytes)
    BY <1>2
  <2>2. s.output \in Seq(Byte) /\ s.ends \in {"end", "cut", "damage"}
    BY DEF Codec, Stream
  <2>. QED BY <2>1, <2>2, SomeRun
<1>3. \/ \A s \in streams : s.method = m => ~Begins(s.bytes, bytes)
      \/ \E s \in streams : s.method = m /\ Begins(s.bytes, bytes)
  OBVIOUS
<1>. QED BY <1>1, <1>2, <1>3

LEMMA Bzip2Outcomes ==
  ASSUME NEW run, NEW limit, NEW r \in decompress_bzip2(run, limit)
  PROVE  LET excess == Len(run.output) - limit.size
         IN  \/ limit.kind = "Capped" /\ excess > 0 /\ r = Failed("OutputTooLarge")
             \/ /\ limit.kind # "Capped" /\ run.output # <<>> /\ excess >= 0
                /\ \E flag \in BOOLEAN : r = Decoded(FirstOf(run.output, limit.size), flag)
             \/ /\ limit.kind = "Capped" => ~(excess > 0)
                /\ limit.kind # "Capped" => run.output = <<>> \/ ~(excess >= 0)
                /\ r = (IF run.ends = "end" THEN Decoded(run.output, FALSE)
                                           ELSE Failed("DecompressionFailed"))
<1> DEFINE excess == Len(run.output) - limit.size
           flags  == IF excess <= 3 THEN BOOLEAN ELSE {TRUE}
<1>1. flags \subseteq BOOLEAN
  OBVIOUS
<1>2. r \in IF limit.kind = "Capped" /\ excess > 0 THEN {Failed("OutputTooLarge")}
           ELSE IF limit.kind # "Capped" /\ run.output # <<>> /\ excess >= 0
             THEN {Decoded(FirstOf(run.output, limit.size), flag) : flag \in flags}
           ELSE IF run.ends = "end" THEN {Decoded(run.output, FALSE)}
           ELSE {Failed("DecompressionFailed")}
  BY DEF decompress_bzip2
<1> HIDE DEF excess, flags
<1>3. CASE limit.kind = "Capped" /\ excess > 0
  BY <1>2, <1>3 DEF excess
<1>4. CASE limit.kind # "Capped" /\ run.output # <<>> /\ excess >= 0
  <2>1. r \in {Decoded(FirstOf(run.output, limit.size), flag) : flag \in flags}
    BY <1>2, <1>4
  <2>2. \E flag \in BOOLEAN : r = Decoded(FirstOf(run.output, limit.size), flag)
    BY <2>1, <1>1
  <2>. QED BY <1>4, <2>2 DEF excess
<1>5. CASE /\ ~(limit.kind = "Capped" /\ excess > 0)
           /\ ~(limit.kind # "Capped" /\ run.output # <<>> /\ excess >= 0)
  <2>1. r = (IF run.ends = "end" THEN Decoded(run.output, FALSE)
                               ELSE Failed("DecompressionFailed"))
    BY <1>2, <1>5
  <2>. QED BY <1>5, <2>1 DEF excess
<1>. QED BY <1>3, <1>4, <1>5

(* Exact: a result is as much of the output as was asked for.  It is less  *)
(* only at the end, or where deflated bytes break off.                     *)
LEMMA ExactResult ==
  ASSUME NEW streams, Codec(streams), NEW m \in Methods, NEW bytes \in Seq(Byte),
         NEW n \in Nat \ {0}, NEW r \in decompress_block(streams, bytes, m, Exact(n)), r.ok
  PROVE  LET run == Run(streams, m, bytes)
         IN  /\ r.data = FirstOf(run.output, n)
             /\ Len(run.output) < n => run.ends = "end" \/ (m = "Deflate" /\ run.ends = "cut")
<1> DEFINE run == Run(streams, m, bytes)
<1>1. run.output \in Seq(Byte) /\ run.ends \in {"end", "cut", "damage"}
  BY RunType
<1>2. /\ r \in IF m = "Lzma" THEN decompress_lzma(bytes, run, Exact(n))
              ELSE IF m = "Deflate" THEN decompress_deflate(run, Exact(n))
              ELSE decompress_bzip2(run, Exact(n))
  BY DEF decompress_block, Methods
<1>3. Exact(n).kind = "Exact" /\ Exact(n).size = n
  BY DEF Exact
<1> HIDE DEF run
<1>4. Len(run.output) <= n => FirstOf(run.output, n) = run.output
  BY <1>1, FirstOfAll
<1>5. CASE m = "Lzma"
  BY <1>1, <1>2, <1>3, <1>5 DEF decompress_lzma, Decoded, Failed, run
<1>6. CASE m = "Deflate"
  BY <1>1, <1>2, <1>3, <1>6 DEF decompress_deflate, decompress_bounded, Decoded, Failed, run
<1>7. CASE m = "Bzip2"
  <2>1. r \in decompress_bzip2(run, Exact(n))
    BY <1>2, <1>7
  <2>2. \/ Len(run.output) >= n /\ r.data = FirstOf(run.output, n)
        \/ Len(run.output) < n /\ run.ends = "end" /\ r.data = run.output
    BY <1>1, <1>3, <2>1, Bzip2Outcomes DEF Decoded, Failed
  <2>. QED BY <1>1, <1>4, <2>2 DEF run
<1>. QED BY <1>5, <1>6, <1>7 DEF Methods

(* A stream that gets that far is decoded.                                 *)
LEMMA ExactReach ==
  ASSUME NEW streams, Codec(streams), NEW bytes \in Seq(Byte),
         NEW s \in streams, Begins(s.bytes, bytes), s.ends = "end",
         NEW n \in Nat \ {0}, n <= Len(s.output),
         NEW r \in decompress_block(streams, bytes, s.method, Exact(n))
  PROVE  r.ok /\ r.data = FirstOf(s.output, n)
<1> DEFINE run == Run(streams, s.method, bytes)
           m == s.method
<1>1. run.output = s.output /\ run.ends = "end"
  BY SomeRun
<1>2. s.output \in Seq(Byte) /\ s.bytes \in Seq(Byte) /\ m \in Methods
  BY DEF Codec, Stream
<1>3. m = "Lzma" => Len(bytes) >= 5
  <2>1. Len(s.bytes) <= Len(bytes)
    BY DEF Begins
  <2>. QED BY <1>2, <2>1 DEF Codec
<1>4. r \in IF m = "Lzma" THEN decompress_lzma(bytes, run, Exact(n))
           ELSE IF m = "Deflate" THEN decompress_deflate(run, Exact(n))
           ELSE decompress_bzip2(run, Exact(n))
  BY <1>2 DEF decompress_block, Methods
<1>5. Exact(n).kind = "Exact" /\ Exact(n).size = n
  BY DEF Exact
<1> HIDE DEF run, m
<1>6. run.output # <<>>
  BY <1>1, <1>2
<1>7. r.ok
  <2>1. CASE m = "Lzma"
    BY <1>1, <1>2, <1>3, <1>4, <1>5, <2>1 DEF decompress_lzma, Decoded
  <2>2. CASE m = "Deflate"
    BY <1>1, <1>2, <1>4, <1>5, <2>2 DEF decompress_deflate, decompress_bounded, Decoded
  <2>3. CASE m = "Bzip2"
    <3>1. r \in decompress_bzip2(run, Exact(n))
      BY <1>4, <2>3
    <3>. QED BY <1>1, <1>2, <1>5, <3>1, Bzip2Outcomes DEF Decoded
  <2>. QED BY <1>2, <2>1, <2>2, <2>3 DEF Methods
<1>8. r.data = FirstOf(run.output, n)
  BY <1>2, <1>7, ExactResult DEF m, run
<1>. QED BY <1>1, <1>7, <1>8

(* Capped: the whole output or an error, which is that of the budget where *)
(* the stream is sound.                                                    *)
LEMMA CappedResult ==
  ASSUME NEW streams, Codec(streams), NEW bytes \in Seq(Byte),
         NEW s \in streams, Begins(s.bytes, bytes), s.ends = "end", NEW n \in Nat,
         NEW r \in decompress_block(streams, bytes, s.method, [kind |-> "Capped", size |-> n])
  PROVE  IF r.ok THEN r.data = s.output ELSE Len(s.output) > n /\ r.error = "OutputTooLarge"
<1> DEFINE run == Run(streams, s.method, bytes)
           m == s.method
           limit == [kind |-> "Capped", size |-> n]
<1>1. run.output = s.output /\ run.ends = "end"
  BY SomeRun
<1>2. s.output \in Seq(Byte) /\ s.bytes \in Seq(Byte) /\ m \in Methods
  BY DEF Codec, Stream
<1>3. m = "Lzma" => Len(bytes) >= 5
  <2>1. Len(s.bytes) <= Len(bytes)
    BY DEF Begins
  <2>. QED BY <1>2, <2>1 DEF Codec
<1>4. r \in IF m = "Lzma" THEN decompress_lzma(bytes, run, limit)
           ELSE IF m = "Deflate" THEN decompress_deflate(run, limit)
           ELSE decompress_bzip2(run, limit)
  BY <1>2 DEF decompress_block, Methods
<1>5. limit.kind = "Capped" /\ limit.size = n
  OBVIOUS
<1> HIDE DEF run, m, limit
<1>6. CASE m = "Lzma"
  BY <1>1, <1>2, <1>3, <1>4, <1>5, <1>6 DEF decompress_lzma, PastLimit, Decoded, Failed
<1>7. CASE m = "Deflate"
  BY <1>1, <1>2, <1>4, <1>5, <1>7
     DEF decompress_deflate, decompress_streaming, PastLimit, Decoded, Failed
<1>8. CASE m = "Bzip2"
  BY <1>1, <1>2, <1>4, <1>5, <1>8 DEF decompress_bzip2, Decoded, Failed
<1>. QED BY <1>2, <1>6, <1>7, <1>8 DEF Methods

(* Truncate: a result is the output, or what the budget leaves of it.      *)
LEMMA TruncateResult ==
  ASSUME NEW streams, Codec(streams), NEW m \in Methods, NEW bytes \in Seq(Byte),
         NEW n \in Nat,
         NEW r \in decompress_block(streams, bytes, m, [kind |-> "Truncate", size |-> n])
  PROVE  LET run == Run(streams, m, bytes)
         IN  /\ r.ok =>
                  \/ r.data = run.output
                  \/ /\ r.data = FirstOf(run.output, n) /\ Len(run.output) >= n
                     /\ r.truncated \/ m = "Bzip2"
             /\ run.ends = "end" /\ (m = "Lzma" => Len(bytes) >= 5) => r.ok
<1> DEFINE run == Run(streams, m, bytes)
           limit == [kind |-> "Truncate", size |-> n]
<1>1. run.output \in Seq(Byte) /\ run.ends \in {"end", "cut", "damage"}
  BY RunType
<1>2. r \in IF m = "Lzma" THEN decompress_lzma(bytes, run, limit)
           ELSE IF m = "Deflate" THEN decompress_deflate(run, limit)
           ELSE decompress_bzip2(run, limit)
  BY DEF decompress_block, Methods
<1>3. limit.kind = "Truncate" /\ limit.size = n
  OBVIOUS
<1> HIDE DEF run, limit
<1>5. CASE m = "Lzma"
  BY <1>1, <1>2, <1>3, <1>5 DEF decompress_lzma, PastLimit, Decoded, Failed, run
<1>6. CASE m = "Deflate"
  BY <1>1, <1>2, <1>3, <1>6
     DEF decompress_deflate, decompress_streaming, PastLimit, Decoded, Failed, run
<1>7. CASE m = "Bzip2"
  <2>1. r \in decompress_bzip2(run, limit)
    BY <1>2, <1>7
  <2>. QED BY <1>1, <1>3, <1>7, <2>1, Bzip2Outcomes DEF Decoded, Failed, run
<1>. QED BY <1>5, <1>6, <1>7 DEF Methods

(* Every decoding ends in some way.                                        *)
LEMMA SomeOutcome ==
  ASSUME NEW streams, NEW m, NEW bytes, NEW n
  PROVE  \E r : r \in decompress_block(streams, bytes, m, Exact(n))
<1> DEFINE run == Run(streams, m, bytes)
           limit == Exact(n)
<1>1. limit.kind = "Exact"
  BY DEF Exact
<1> HIDE DEF run, limit
<1>2. \E r : r \in decompress_lzma(bytes, run, limit)
  BY DEF decompress_lzma
<1>3. \E r : r \in decompress_deflate(run, limit)
  BY <1>1 DEF decompress_deflate, decompress_bounded
<1>4. \E r : r \in decompress_bzip2(run, limit)
  <2> DEFINE excess == Len(run.output) - limit.size
             flags  == IF excess <= 3 THEN BOOLEAN ELSE {TRUE}
             of(flag) == Decoded(FirstOf(run.output, limit.size), flag)
  <2>1. TRUE \in flags
    OBVIOUS
  <2>2. decompress_bzip2(run, limit) =
          IF limit.kind = "Capped" /\ excess > 0 THEN {Failed("OutputTooLarge")}
          ELSE IF limit.kind # "Capped" /\ run.output # <<>> /\ excess >= 0
            THEN {of(flag) : flag \in flags}
          ELSE IF run.ends = "end" THEN {Decoded(run.output, FALSE)}
          ELSE {Failed("DecompressionFailed")}
    BY DEF decompress_bzip2
  <2> HIDE DEF excess, flags, of
  <2>3. of(TRUE) \in {of(flag) : flag \in flags}
    BY <2>1
  <2>. QED BY <2>2, <2>3
<1>5. decompress_block(streams, bytes, m, limit) =
        IF m = "Lzma" THEN decompress_lzma(bytes, run, limit)
        ELSE IF m = "Deflate" THEN decompress_deflate(run, limit)
        ELSE IF m = "Bzip2" THEN decompress_bzip2(run, limit)
        ELSE {Decoded(bytes, FALSE)}
  BY DEF decompress_block, run
<1>6. \E r : r \in decompress_block(streams, bytes, m, limit)
  BY <1>2, <1>3, <1>4, <1>5
<1>. QED BY <1>6 DEF limit

(* Of nothing comes nothing.                                               *)
LEMMA NothingYields ==
  ASSUME NEW streams, Codec(streams), NEW m \in Methods, NEW n \in Nat \ {0},
         NEW r \in decompress_block(streams, <<>>, m, Exact(n))
  PROVE  ~Yields(r)
<1> DEFINE none == <<>>
           run  == Run(streams, m, none)
<1>1. none \in Seq(Byte) /\ Len(none) = 0
  OBVIOUS
<1>2. r \in decompress_block(streams, none, m, Exact(n))
  OBVIOUS
<1> HIDE DEF none
<1>3. run.output = <<>>
  <2>1. CASE \A s \in streams : s.method = m => ~Begins(s.bytes, none)
    BY <2>1, NoRun
  <2>2. CASE \E s \in streams : s.method = m /\ Begins(s.bytes, none)
    <3>1. PICK s \in streams : s.method = m /\ Begins(s.bytes, none)
      BY <2>2
    <3>2. s.bytes \in Seq(Byte)
      BY DEF Codec, Stream
    <3>3. s.bytes = <<>>
      BY <1>1, <3>1, <3>2 DEF Begins
    <3>4. s.output = <<>>
      BY <3>3 DEF Codec
    <3>. QED BY <1>1, <3>1, <3>4, SomeRun
  <2>3. \/ \A s \in streams : s.method = m => ~Begins(s.bytes, none)
        \/ \E s \in streams : s.method = m /\ Begins(s.bytes, none)
    OBVIOUS
  <2>. QED BY <2>1, <2>2, <2>3
<1>4. ASSUME r.ok  PROVE r.data = <<>>
  <2>0. none \in Seq(Byte)
    BY <1>1
  <2>1. r.data = FirstOf(run.output, n)
    BY <1>2, <1>4, <2>0, ExactResult, SMTT(30)
  <2>2. FirstOf(<<>>, n) = <<>>
    BY FirstOfNothing
  <2>. QED BY <1>3, <2>1, <2>2
<1>. QED BY <1>4 DEF Yields

-----------------------------------------------------------------------------
(* What an archive is made of, and what is seen of it.                     *)

(* An archive that was built, and that does not mislead.                   *)
Built  == IsArchive(archive) /\ IsBuilt(archive) /\ max_decompressed_size \in Nat
Inputs == Built /\ ~Misleads

(* Where the data block begins in the text of the archive.                 *)
BlockStart == FrameEnd(Text(archive), 0)

LEMMA ArchiveCodec ==
  ASSUME Inputs
  PROVE  /\ Codec(archive.streams)
         /\ archive.method \in Methods
         /\ \A s \in archive.streams :
              /\ s.ends \in {"end", "cut", "damage"}
              /\ s.bytes \in Seq(Byte) /\ s.output \in Seq(Byte)
<1>1. IsArchive(archive) /\ StreamsAgree(archive)
  BY DEF Inputs, Built, IsBuilt
<1>2. \A s \in archive.streams : s \in Stream
  BY <1>1 DEF IsArchive
<1>3. archive.method \in Methods
  BY <1>1 DEF IsArchive
<1>4. Codec(archive.streams)
  BY <1>1, <1>2 DEF Codec, StreamsAgree
<1>. QED BY <1>2, <1>3, <1>4 DEF Stream

LEMMA SourceFacts ==
  ASSUME Inputs
  PROVE  /\ archive.whole \in Seq(Byte) /\ archive.plain \in Seq(Byte)
         /\ archive.header \in Seq(Byte) /\ Len(archive.header) > 0
         /\ archive.framing \in {"Stored", "NonSolid", "Solid"}
         /\ after_fh \in Seq(Byte) /\ Len(after_fh) = archive.present
         /\ Begins(after_fh, archive.whole) /\ Shows(after_fh, archive.whole, 0)
<1>1. /\ archive.whole \in Seq(Byte) /\ archive.plain \in Seq(Byte)
      /\ archive.header \in Seq(Byte) /\ archive.header # <<>>
      /\ archive.framing \in {"Stored", "NonSolid", "Solid"}
      /\ archive.present \in Nat /\ archive.present <= Len(archive.whole)
  BY DEF Inputs, Built, IsArchive, IsBuilt
<1>2. after_fh \in Seq(Byte) /\ Len(after_fh) = archive.present
  BY <1>1, FirstOfFacts DEF after_fh
<1>3. Begins(after_fh, archive.whole) /\ Shows(after_fh, archive.whole, 0)
  BY <1>1, FirstBegins DEF after_fh
<1>. QED BY <1>1, <1>2, <1>3

(* All of a sound archive is there.                                        *)
LEMMA SoundSource ==
  ASSUME Inputs, IsSound
  PROVE  after_fh = archive.whole
<1>1. archive.whole \in Seq(Byte) /\ archive.present = Len(archive.whole)
  BY SourceFacts DEF IsSound, IsWhole
<1>. QED BY <1>1, FirstOfAll DEF after_fh

LEMMA TextFacts ==
  ASSUME Inputs
  PROVE  /\ Text(archive) \in Seq(Byte) /\ HasPrefix(Text(archive), 0)
         /\ read_length_prefix(Text(archive), 0).size \in Nat
         /\ BlockStart = 4 + read_length_prefix(Text(archive), 0).size
         /\ BlockStart \in Nat /\ BlockStart >= 4 /\ BlockStart <= Len(Text(archive))
<1>1. Text(archive) \in Seq(Byte)
  BY SourceFacts DEF Text
<1>2. HasPrefix(Text(archive), 0) /\ BlockStart <= Len(Text(archive))
  BY DEF Inputs, Built, IsBuilt, FrameHolds, BlockStart
<1>3. read_length_prefix(Text(archive), 0).size \in Nat
  BY <1>1, <1>2, PrefixType
<1>4. BlockStart = 4 + read_length_prefix(Text(archive), 0).size
  BY <1>3 DEF BlockStart, FrameEnd
<1>. QED BY <1>1, <1>2, <1>3, <1>4

(* The header's frame: packed in a non-solid archive, stored otherwise.    *)
LEMMA HeaderFrame ==
  ASSUME Inputs
  PROVE  LET text == Text(archive)
             body == Slice(text, 4, BlockStart)
         IN  IF archive.framing = "NonSolid"
               THEN /\ read_length_prefix(text, 0).is_compressed
                    /\ \E s \in archive.streams :
                         /\ s.method = archive.method
                         /\ s.bytes = body /\ s.output = archive.header /\ s.ends = "end"
               ELSE /\ ~read_length_prefix(text, 0).is_compressed
                    /\ body = archive.header /\ BlockStart = 4 + Len(archive.header)
<1> DEFINE text == Text(archive)
           body == Slice(text, 4, BlockStart)
<1>1. /\ text \in Seq(Byte) /\ BlockStart \in Nat /\ BlockStart >= 4 /\ BlockStart <= Len(text)
  BY TextFacts
<1>2. IF read_length_prefix(text, 0).is_compressed
        THEN /\ archive.framing = "NonSolid"
             /\ \E s \in archive.streams :
                  /\ s.method = archive.method
                  /\ s.bytes = body /\ s.output = archive.header /\ s.ends = "end"
        ELSE body = archive.header
  <2>1. FrameHolds(archive, text, 0, archive.header)
    BY DEF Inputs, Built, IsBuilt
  <2>. QED BY <2>1 DEF FrameHolds, BlockStart
<1>3. archive.framing = "NonSolid" => read_length_prefix(text, 0).is_compressed
  BY DEF Inputs, Built, IsBuilt, IsFramed, Text
<1>4. Len(body) = BlockStart - 4
  <2> DEFINE start == BlockStart
  <2>1. start \in Nat /\ start >= 4 /\ start <= Len(text) /\ text \in Seq(Byte)
    BY <1>1
  <2> HIDE DEF start, text
  <2>2. Len(Slice(text, 4, start)) = start - 4
    BY <2>1, SliceFacts
  <2>. QED BY <2>2 DEF start, text
<1> HIDE DEF text, body
<1>5. CASE archive.framing = "NonSolid"
  BY <1>2, <1>3, <1>5 DEF text, body
<1>6. CASE archive.framing # "NonSolid"
  <2>1. ~read_length_prefix(text, 0).is_compressed /\ body = archive.header
    BY <1>2, <1>6
  <2>2. BlockStart = 4 + Len(archive.header)
    BY <1>1, <1>4, <2>1
  <2>. QED BY <1>6, <2>1, <2>2 DEF text, body
<1>. QED BY <1>5, <1>6

(* The first prefix of what is there is that of the file.                  *)
LEMMA FirstPrefix ==
  ASSUME Inputs, HasPrefix(after_fh, 0)
  PROVE  /\ HasPrefix(archive.whole, 0) /\ Frame = read_length_prefix(archive.whole, 0)
         /\ Frame.size \in Nat /\ frame_bytes = FrameEnd(archive.whole, 0)
         /\ frame_fits <=> frame_bytes <= Len(after_fh)
         /\ frame_bytes \in Nat /\ frame_bytes >= 4
<1>1. Shows(after_fh, archive.whole, 0) /\ archive.whole \in Seq(Byte)
  BY SourceFacts
<1>2. /\ HasPrefix(archive.whole, 0 + 0)
      /\ read_length_prefix(after_fh, 0) = read_length_prefix(archive.whole, 0 + 0)
  BY <1>1, ShowsPrefix
<1>3. HasPrefix(archive.whole, 0) /\ Frame = read_length_prefix(archive.whole, 0)
  BY <1>2 DEF Frame
<1>4. Frame.size \in Nat
  BY <1>1, <1>3, PrefixType
<1>. QED BY <1>3, <1>4 DEF frame_bytes, frame_fits, FrameEnd, InSource

(* The bytes of a frame that fits are those of the file.                   *)
LEMMA FirstBody ==
  ASSUME Inputs, HasPrefix(after_fh, 0), frame_fits
  PROVE  /\ Slice(after_fh, 4, frame_bytes) = Slice(archive.whole, 4, frame_bytes)
         /\ frame_bytes <= Len(archive.whole)
<1> DEFINE n == frame_bytes
<1>1. n \in Nat /\ 4 <= n /\ n <= Len(after_fh)
  BY FirstPrefix
<1>2. Shows(after_fh, archive.whole, 0)
  BY SourceFacts
<1> HIDE DEF n
<1>3. Slice(after_fh, 4, n) = Slice(archive.whole, 0 + 4, 0 + n)
  BY <1>1, <1>2, ShowsSlice
<1>4. n <= Len(archive.whole)
  BY <1>1, <1>2 DEF Shows
<1>. QED BY <1>1, <1>3, <1>4 DEF n

-----------------------------------------------------------------------------
(* The inductive invariant, one part for each phase.                       *)

Holds(seq, m) == \E k \in 1 .. Len(seq) : seq[k] = m

(* The methods still to be tried are in the order of their ranks.          *)
Sorted(seq, detected) ==
  \A i, j \in 1 .. Len(seq) : i < j => Rank(seq[i], detected) < Rank(seq[j], detected)

(* A trial of "None" yields what the frame that fits would hold: nothing.  *)
(* The right method is still ahead where the frame can be decoded.         *)
TriesFrame ==
  pc = "non-solid" =>
    /\ HasPrefix(after_fh, 0) /\ (Frame.is_compressed \/ ~frame_fits)
    /\ attempts \in Seq(Methods \cup {"None"})
    /\ Sorted(attempts, detect_compression(compressed_data))
    /\ Holds(attempts, "None") => compressed_data = <<>>
    /\ archive.framing = "NonSolid" /\ frame_fits => Holds(attempts, archive.method)

TriesStream ==
  pc = "solid" =>
    /\ HasPrefix(after_fh, 0)
    /\ Frame.is_compressed \/ ~frame_fits
    /\ archive.framing # "Solid" => ~frame_fits
    /\ attempts \in Seq(Methods)
    /\ Sorted(attempts, detect_compression(after_fh))
    /\ archive.framing = "Solid" /\ WillSucceed(Own) => Holds(attempts, archive.method)

FailsUnsound == pc = "failed" => ~IsSound

OpensFrame ==
  Opened /\ archive.framing # "Solid" =>
    /\ mode = "NonSolid" /\ header_data = archive.header
    /\ compression = IF archive.framing = "Stored" THEN "None" ELSE archive.method
    /\ consumed = BlockStart /\ BlockStart <= Len(after_fh)

(* Part of a stream is there, but not its end.                             *)
IsPart(s) ==
  /\ s.method = archive.method /\ archive.method = "Deflate"
  /\ Begins(s.bytes, after_fh) /\ s.ends = "cut" /\ Len(s.output) < solid_expected

(* The header of a stream that is cut is all that there is of the stream.  *)
CutShort == \E s \in archive.streams : IsPart(s) /\ header_data = s.output

OpensStream ==
  Opened /\ archive.framing = "Solid" =>
    /\ mode = "Solid" /\ compression = archive.method
    /\ header_data = archive.header \/ CutShort

(* The data of a solid archive are those of the stream behind its header,  *)
(* of a sound one all of them or as many as the budget leaves.             *)
ReadsStream ==
  pc = "open" /\ archive.framing = "Solid" =>
    /\ Shows(solid_data, archive.plain, BlockStart)
    /\ IsSound =>
         /\ solid_status # "Failed"
         /\ \/ BlockStart + Len(solid_data) = Len(archive.plain)
            \/ /\ BlockStart + Len(solid_data) >= max_decompressed_size
               /\ solid_status = "Truncated" \/ archive.method = "Bzip2"

(* An answer is that of the call it names.                                 *)
Answers ==
  /\ answer.call # "none" => pc = "open"
  /\ answer.call = "file" => answer.result \in FileResults(source_offset(answer.offset))
  /\ answer.call = "uninstaller" =>
       answer.result \in UninstallerResults(source_offset(Larger(0, answer.offset)))

Reads ==
  /\ Inputs /\ TriesFrame /\ TriesStream /\ FailsUnsound
  /\ OpensFrame /\ OpensStream /\ ReadsStream /\ Answers

LEMMA TailHolds ==
  ASSUME NEW S, NEW q \in Seq(S), q # <<>>, NEW m
  PROVE  /\ Head(q) \in S /\ Tail(q) \in Seq(S)
         /\ Holds(Tail(q), m) => Holds(q, m)
         /\ Holds(q, m) /\ Head(q) # m => Holds(Tail(q), m)
         /\ Head(q) = m => Holds(q, m)
<1>1. /\ Tail(q) \in Seq(S) /\ Len(Tail(q)) = Len(q) - 1 /\ Head(q) \in S /\ Head(q) = q[1]
      /\ Len(q) \in Nat /\ Len(q) > 0
  OBVIOUS
<1>2. \A k \in 1 .. Len(Tail(q)) : Tail(q)[k] = q[k + 1]
  OBVIOUS
<1>3. ASSUME Holds(Tail(q), m)  PROVE Holds(q, m)
  <2>1. PICK k \in 1 .. Len(Tail(q)) : Tail(q)[k] = m
    BY <1>3 DEF Holds
  <2>2. k + 1 \in 1 .. Len(q) /\ q[k + 1] = m
    BY <1>1, <1>2, <2>1
  <2>. QED BY <2>2 DEF Holds
<1>4. ASSUME Holds(q, m), Head(q) # m  PROVE Holds(Tail(q), m)
  <2>1. PICK k \in 1 .. Len(q) : q[k] = m
    BY <1>4 DEF Holds
  <2>2. k # 1
    BY <1>1, <1>4, <2>1
  <2>3. k - 1 \in 1 .. Len(Tail(q)) /\ (k - 1) + 1 = k
    BY <1>1, <2>1, <2>2
  <2>4. Tail(q)[k - 1] = m
    BY <1>2, <2>1, <2>3
  <2>. QED BY <2>3, <2>4 DEF Holds
<1>5. Head(q) = m => Holds(q, m)
  BY <1>1 DEF Holds
<1>. QED BY <1>1, <1>3, <1>4, <1>5

LEMMA RankFacts ==
  ASSUME NEW m \in Methods \cup {"None"}, NEW d \in Methods \cup {"None"}
  PROVE  /\ Rank(m, d) \in Nat
         /\ \A x \in Methods : m \in Methods /\ Rank(x, d) = Rank(m, d) => x = m
BY DEF Rank, Methods

(* The next method to be tried has the least rank.                         *)
LEMMA HeadRanksFirst ==
  ASSUME NEW q \in Seq(Methods \cup {"None"}), q # <<>>, NEW d \in Methods \cup {"None"},
         Sorted(q, d)
  PROVE  /\ Sorted(Tail(q), d)
         /\ \A m : Holds(q, m) => Rank(Head(q), d) <= Rank(m, d)
<1>1. /\ Len(Tail(q)) = Len(q) - 1 /\ Head(q) = q[1] /\ Len(q) \in Nat /\ Len(q) > 0
      /\ \A k \in 1 .. Len(Tail(q)) : Tail(q)[k] = q[k + 1]
      /\ \A k \in 1 .. Len(q) : q[k] \in Methods \cup {"None"}
  OBVIOUS
<1>2. ASSUME NEW i \in 1 .. Len(Tail(q)), NEW j \in 1 .. Len(Tail(q)), i < j
      PROVE  Rank(Tail(q)[i], d) < Rank(Tail(q)[j], d)
  <2>1. i + 1 \in 1 .. Len(q) /\ j + 1 \in 1 .. Len(q) /\ i + 1 < j + 1
    BY <1>1, <1>2
  <2>2. Rank(q[i + 1], d) < Rank(q[j + 1], d)
    BY <2>1 DEF Sorted
  <2>. QED BY <1>1, <2>2
<1>3. ASSUME NEW m, Holds(q, m)  PROVE Rank(Head(q), d) <= Rank(m, d)
  <2>1. PICK k \in 1 .. Len(q) : q[k] = m
    BY <1>3 DEF Holds
  <2>2. Rank(q[1], d) \in Nat /\ Rank(q[k], d) \in Nat
    <3>1. q[1] \in Methods \cup {"None"} /\ q[k] \in Methods \cup {"None"}
      BY <1>1
    <3>. QED BY <3>1, RankFacts
  <2>3. CASE k = 1
    BY <1>1, <2>1, <2>2, <2>3
  <2>4. CASE k # 1
    <3>1. 1 \in 1 .. Len(q) /\ 1 < k
      BY <1>1, <2>4
    <3>2. Rank(q[1], d) < Rank(q[k], d)
      BY <3>1 DEF Sorted
    <3>. QED BY <1>1, <2>1, <2>2, <3>2
  <2>. QED BY <2>3, <2>4
<1>. QED BY <1>2, <1>3 DEF Sorted

LEMMA SortedThree ==
  ASSUME NEW a, NEW b, NEW c, NEW d,
         Rank(a, d) \in Nat, Rank(b, d) \in Nat, Rank(c, d) \in Nat,
         Rank(a, d) < Rank(b, d), Rank(b, d) < Rank(c, d)
  PROVE  Sorted(<<a, b, c>>, d)
<1> DEFINE q == <<a, b, c>>
<1>1. Len(q) = 3 /\ q[1] = a /\ q[2] = b /\ q[3] = c
  OBVIOUS
<1> HIDE DEF q
<1>2. 1 .. Len(q) = {1, 2, 3}
  BY <1>1
<1>3. Sorted(q, d)
  BY <1>1, <1>2 DEF Sorted
<1>. QED BY <1>3 DEF q

LEMMA SortedFour ==
  ASSUME NEW a, NEW b, NEW c, NEW e, NEW d,
         Rank(a, d) \in Nat, Rank(b, d) \in Nat, Rank(c, d) \in Nat, Rank(e, d) \in Nat,
         Rank(a, d) < Rank(b, d), Rank(b, d) < Rank(c, d), Rank(c, d) < Rank(e, d)
  PROVE  Sorted(<<a, b, c, e>>, d)
<1> DEFINE q == <<a, b, c, e>>
<1>1. Len(q) = 4 /\ q[1] = a /\ q[2] = b /\ q[3] = c /\ q[4] = e
  OBVIOUS
<1> HIDE DEF q
<1>2. 1 .. Len(q) = {1, 2, 3, 4}
  BY <1>1
<1>3. Sorted(q, d)
  BY <1>1, <1>2 DEF Sorted
<1>. QED BY <1>3 DEF q

(* The methods are tried in the order of their ranks.                      *)
LEMMA OrderIsSorted ==
  ASSUME NEW d \in Methods \cup {"None"}
  PROVE  Sorted(Order(d), d)
<1>1. CASE d = "Lzma"
  <2>1. Rank("Lzma", d) = 0 /\ Rank("Deflate", d) = 2 /\ Rank("Bzip2", d) = 3
    BY <1>1 DEF Rank
  <2>2. Sorted(<<"Lzma", "Deflate", "Bzip2">>, d)
    BY <2>1, SortedThree
  <2>. QED BY <1>1, <2>2 DEF Order
<1>2. CASE d = "Deflate"
  <2>1. Rank("Deflate", d) = 0 /\ Rank("Lzma", d) = 1 /\ Rank("Bzip2", d) = 3
    BY <1>2 DEF Rank
  <2>2. Sorted(<<"Deflate", "Lzma", "Bzip2">>, d)
    BY <2>1, SortedThree
  <2>. QED BY <1>2, <2>2 DEF Order
<1>3. CASE d = "Bzip2"
  <2>1. Rank("Bzip2", d) = 0 /\ Rank("Lzma", d) = 1 /\ Rank("Deflate", d) = 2
    BY <1>3 DEF Rank
  <2>2. Sorted(<<"Bzip2", "Lzma", "Deflate">>, d)
    BY <2>1, SortedThree
  <2>. QED BY <1>3, <2>2 DEF Order
<1>4. CASE d = "None"
  <2>1. /\ Rank("None", d) = 0 /\ Rank("Lzma", d) = 1
        /\ Rank("Deflate", d) = 2 /\ Rank("Bzip2", d) = 3
    BY <1>4 DEF Rank
  <2>2. Sorted(<<"None", "Lzma", "Deflate", "Bzip2">>, d)
    BY <2>1, SortedFour
  <2>. QED BY <1>4, <2>2 DEF Order
<1>. QED BY <1>1, <1>2, <1>3, <1>4 DEF Methods

LEMMA Detection ==
  ASSUME NEW bytes
  PROVE  /\ detect_compression(bytes) \in Methods \cup {"None"}
         /\ detect_compression(bytes) = "None" <=> bytes = <<>>
BY DEF detect_compression, Methods

LEMMA HoldsOfThree ==
  ASSUME NEW a, NEW b, NEW c, NEW S, a \in S, b \in S, c \in S
  PROVE  /\ <<a, b, c>> \in Seq(S) /\ <<a, b, c>> # <<>>
         /\ \A m : Holds(<<a, b, c>>, m) <=> m \in {a, b, c}
<1> DEFINE q == <<a, b, c>>
<1>1. Len(q) = 3 /\ q[1] = a /\ q[2] = b /\ q[3] = c /\ q \in Seq(S)
  OBVIOUS
<1>2. q # <<>>
  OBVIOUS
<1> HIDE DEF q
<1>3. 1 .. Len(q) = {1, 2, 3}
  BY <1>1
<1>4. \A m : Holds(q, m) <=> m \in {a, b, c}
  BY <1>1, <1>3 DEF Holds
<1>. QED BY <1>1, <1>2, <1>4 DEF q

LEMMA HoldsOfFour ==
  ASSUME NEW a, NEW b, NEW c, NEW d, NEW S, a \in S, b \in S, c \in S, d \in S
  PROVE  /\ <<a, b, c, d>> \in Seq(S) /\ <<a, b, c, d>> # <<>>
         /\ \A m : Holds(<<a, b, c, d>>, m) <=> m \in {a, b, c, d}
<1> DEFINE q == <<a, b, c, d>>
<1>1. Len(q) = 4 /\ q[1] = a /\ q[2] = b /\ q[3] = c /\ q[4] = d /\ q \in Seq(S)
  OBVIOUS
<1>2. q # <<>>
  OBVIOUS
<1> HIDE DEF q
<1>3. 1 .. Len(q) = {1, 2, 3, 4}
  BY <1>1
<1>4. \A m : Holds(q, m) <=> m \in {a, b, c, d}
  BY <1>1, <1>3 DEF Holds
<1>. QED BY <1>1, <1>2, <1>4 DEF q

(* Whatever is detected, every method is tried.                            *)
LEMMA OrderHoldsAll ==
  ASSUME NEW d \in Methods \cup {"None"}
  PROVE  /\ Order(d) \in Seq(Methods \cup {d}) /\ Order(d) # <<>>
         /\ \A m \in Methods : Holds(Order(d), m)
         /\ Holds(Order(d), "None") => d = "None"
<1>1. Methods = {"Lzma", "Deflate", "Bzip2"}
  BY DEF Methods
<1>2. CASE d = "Lzma"
  <2> DEFINE S == Methods \cup {d}
             q == <<"Lzma", "Deflate", "Bzip2">>
  <2>1. Order(d) = q
    BY <1>2 DEF Order
  <2>2. "Lzma" \in S /\ "Deflate" \in S /\ "Bzip2" \in S
    BY <1>1, <1>2
  <2> HIDE DEF S
  <2>3. /\ q \in Seq(S) /\ q # <<>>
        /\ \A x : Holds(q, x) <=> x \in {"Lzma", "Deflate", "Bzip2"}
    BY <2>2, HoldsOfThree
  <2> HIDE DEF q
  <2>4. (\A x \in Methods : Holds(q, x)) /\ (Holds(q, "None") => d = "None")
    BY <1>1, <1>2, <2>3
  <2>. QED BY <2>1, <2>3, <2>4 DEF S
<1>3. CASE d = "Deflate"
  <2> DEFINE S == Methods \cup {d}
             q == <<"Deflate", "Lzma", "Bzip2">>
  <2>1. Order(d) = q
    BY <1>3 DEF Order
  <2>2. "Deflate" \in S /\ "Lzma" \in S /\ "Bzip2" \in S
    BY <1>1, <1>3
  <2> HIDE DEF S
  <2>3. /\ q \in Seq(S) /\ q # <<>>
        /\ \A x : Holds(q, x) <=> x \in {"Deflate", "Lzma", "Bzip2"}
    BY <2>2, HoldsOfThree
  <2> HIDE DEF q
  <2>4. (\A x \in Methods : Holds(q, x)) /\ (Holds(q, "None") => d = "None")
    BY <1>1, <1>3, <2>3
  <2>. QED BY <2>1, <2>3, <2>4 DEF S
<1>4. CASE d = "Bzip2"
  <2> DEFINE S == Methods \cup {d}
             q == <<"Bzip2", "Lzma", "Deflate">>
  <2>1. Order(d) = q
    BY <1>4 DEF Order
  <2>2. "Bzip2" \in S /\ "Lzma" \in S /\ "Deflate" \in S
    BY <1>1, <1>4
  <2> HIDE DEF S
  <2>3. /\ q \in Seq(S) /\ q # <<>>
        /\ \A x : Holds(q, x) <=> x \in {"Bzip2", "Lzma", "Deflate"}
    BY <2>2, HoldsOfThree
  <2> HIDE DEF q
  <2>4. (\A x \in Methods : Holds(q, x)) /\ (Holds(q, "None") => d = "None")
    BY <1>1, <1>4, <2>3
  <2>. QED BY <2>1, <2>3, <2>4 DEF S
<1>5. CASE d = "None"
  <2> DEFINE S == Methods \cup {d}
             q == <<"None", "Lzma", "Deflate", "Bzip2">>
  <2>1. Order(d) = q
    BY <1>5 DEF Order
  <2>2. "None" \in S /\ "Lzma" \in S /\ "Deflate" \in S /\ "Bzip2" \in S
    BY <1>1, <1>5
  <2> HIDE DEF S
  <2>3. /\ q \in Seq(S) /\ q # <<>>
        /\ \A x : Holds(q, x) <=> x \in {"None", "Lzma", "Deflate", "Bzip2"}
    BY <2>2, HoldsOfFour
  <2> HIDE DEF q
  <2>4. (\A x \in Methods : Holds(q, x)) /\ (Holds(q, "None") => d = "None")
    BY <1>1, <1>5, <2>3
  <2>. QED BY <2>1, <2>3, <2>4 DEF S
<1>. QED BY <1>1, <1>2, <1>3, <1>4, <1>5

LEMMA InitReads == Init => Misleads \/ Reads
<1>. SUFFICES ASSUME Init, ~Misleads  PROVE Reads
  OBVIOUS
<1>1. Inputs
  BY ArchivesAssumption, BudgetsAssumption DEF Init, Inputs, Built
<1>2. answer.call = "none"
  BY DEF Init, NoAnswer
<1>. QED BY <1>1, <1>2
  DEF Init, Reads, TriesFrame, TriesStream, FailsUnsound, OpensFrame, OpensStream,
      ReadsStream, Answers, Opened

-----------------------------------------------------------------------------
(* The trials.                                                             *)

LEMMA TailBegins ==
  ASSUME NEW s \in Seq(Byte), NEW i \in Nat, NEW j \in Nat, i <= j, j <= Len(s)
  PROVE  /\ Slice(s, i, j) \in Seq(Byte) /\ Slice(s, i, Len(s)) \in Seq(Byte)
         /\ Begins(Slice(s, i, j), Slice(s, i, Len(s)))
<1> DEFINE n == Len(s)
<1>1. n \in Nat /\ i <= n /\ j <= n
  OBVIOUS
<1>2. n <= Len(s)
  OBVIOUS
<1> HIDE DEF n
<1>3. /\ Slice(s, i, j) \in Seq(Byte) /\ Len(Slice(s, i, j)) = j - i
      /\ \A k \in 1 .. j - i : Slice(s, i, j)[k] = s[i + k]
  BY SliceFacts
<1>4. /\ Slice(s, i, n) \in Seq(Byte) /\ Len(Slice(s, i, n)) = n - i
      /\ \A k \in 1 .. n - i : Slice(s, i, n)[k] = s[i + k]
  BY <1>1, <1>2, SliceFacts
<1>5. /\ Len(Slice(s, i, j)) <= Len(Slice(s, i, n))
      /\ \A k \in 1 .. Len(Slice(s, i, j)) : Slice(s, i, j)[k] = Slice(s, i, n)[k]
  BY <1>1, <1>3, <1>4
<1>6. Begins(Slice(s, i, j), Slice(s, i, n))
  BY <1>3, <1>4, <1>5, BeginsFacts
<1>. QED BY <1>3, <1>4, <1>6 DEF n

(* What the trials of the frame are fed.                                   *)
LEMMA CompressedData ==
  ASSUME Inputs, HasPrefix(after_fh, 0)
  PROVE  /\ compressed_data \in Seq(Byte)
         /\ compressed_data # <<>> =>
              /\ Frame.is_compressed /\ frame_fits
              /\ compressed_data = Slice(archive.whole, 4, frame_bytes)
         /\ Frame.is_compressed /\ frame_fits =>
              compressed_data = Slice(archive.whole, 4, frame_bytes)
<1>1. CASE Frame.is_compressed /\ frame_fits
  <2> DEFINE n == frame_bytes
  <2>1. Slice(after_fh, 4, n) = Slice(archive.whole, 4, n) /\ n <= Len(archive.whole)
    BY <1>1, FirstBody
  <2>2. n \in Nat /\ 4 <= n /\ archive.whole \in Seq(Byte)
    BY FirstPrefix, SourceFacts
  <2>3. compressed_data = Slice(after_fh, 4, n)
    BY <1>1 DEF compressed_data, frame_bytes
  <2> HIDE DEF n
  <2>4. Slice(archive.whole, 4, n) \in Seq(Byte)
    BY <2>1, <2>2, SliceFacts
  <2>. QED BY <1>1, <2>1, <2>3, <2>4 DEF n
<1>2. CASE ~(Frame.is_compressed /\ frame_fits)
  <2>1. compressed_data = <<>>
    BY <1>2 DEF compressed_data
  <2>2. <<>> \in Seq(Byte)
    OBVIOUS
  <2>. QED BY <1>2, <2>1, <2>2
<1>. QED BY <1>1, <1>2

(* Nothing misleads: a trial that may succeed is the right one, or one of  *)
(* those that come after it.                                               *)
LEMMA Rivals ==
  ASSUME Inputs, HasPrefix(after_fh, 0), Frame.is_compressed \/ ~frame_fits,
         NEW t \in Trial, MaySucceed(t), t # Own
  PROVE  Own \in Trial /\ WillSucceed(Own) /\ IsTriedBefore(Own, t)
<1>1. ~LooksStored
  BY DEF LooksStored
<1>2. t \in Trial \ {Own}
  OBVIOUS
<1>. QED BY <1>1, <1>2 DEF Inputs, Misleads

(* Those behind the one that is next do not come before it.                *)
LEMMA NotTriedBefore ==
  ASSUME NEW q \in Seq(Methods \cup {"None"}), q # <<>>, NEW d \in Methods \cup {"None"},
         Sorted(q, d), NEW m \in Methods, Holds(q, m)
  PROVE  ~(Rank(m, d) < Rank(Head(q), d))
<1>1. Rank(Head(q), d) <= Rank(m, d)
  BY HeadRanksFirst
<1>2. Head(q) \in Methods \cup {"None"}
  BY TailHolds
<1>3. Rank(Head(q), d) \in Nat /\ Rank(m, d) \in Nat
  BY <1>2, RankFacts
<1>. QED BY <1>1, <1>3

(* A trial of the frame is accepted if and only if it is the one that      *)
(* packed the header, and then the header is the result.                   *)
LEMMA FrameTrial ==
  ASSUME Inputs, TriesFrame, pc = "non-solid", attempts # <<>>,
         NEW r \in decompress_block(archive.streams, compressed_data, Head(attempts),
                                    Exact(expected_size))
  PROVE  /\ AcceptedData(r) =>
              /\ archive.framing = "NonSolid" /\ frame_fits
              /\ Head(attempts) = archive.method /\ r.data = archive.header
         /\ archive.framing = "NonSolid" /\ frame_fits /\ Head(attempts) = archive.method =>
              AcceptedData(r)
<1> DEFINE m == Head(attempts)
           n == expected_size
           d == detect_compression(compressed_data)
<1>1. /\ HasPrefix(after_fh, 0) /\ attempts \in Seq(Methods \cup {"None"})
      /\ Frame.is_compressed \/ ~frame_fits
      /\ Sorted(attempts, d)
      /\ archive.framing = "NonSolid" /\ frame_fits => Holds(attempts, archive.method)
  BY DEF TriesFrame
<1>2. /\ compressed_data \in Seq(Byte) /\ m \in Methods \cup {"None"}
      /\ d \in Methods \cup {"None"}
  BY <1>1, CompressedData, TailHolds, Detection
<1>3. n \in Nat \ {0} /\ n = Len(archive.header) /\ archive.header \in Seq(Byte)
  BY SourceFacts DEF expected_size
<1>4. /\ Codec(archive.streams) /\ archive.method \in Methods
      /\ \A s \in archive.streams : s.bytes \in Seq(Byte) /\ s.output \in Seq(Byte)
  BY ArchiveCodec
(* The stream that the frame of a non-solid archive holds.                 *)
<1>5. ASSUME archive.framing = "NonSolid", frame_fits
      PROVE  \E s \in archive.streams :
               /\ s.method = archive.method
               /\ s.bytes = compressed_data /\ s.output = archive.header /\ s.ends = "end"
  <2>1. Text(archive) = archive.whole /\ BlockStart = frame_bytes
    BY <1>1, <1>5, FirstPrefix DEF Text, BlockStart
  <2>2. /\ Frame.is_compressed
        /\ \E s \in archive.streams :
             /\ s.method = archive.method
             /\ s.bytes = Slice(archive.whole, 4, frame_bytes)
             /\ s.output = archive.header /\ s.ends = "end"
    BY <1>1, <1>5, <2>1, HeaderFrame, FirstPrefix
  <2>. QED BY <1>1, <1>5, <2>2, CompressedData
<1> HIDE DEF d
<1>6. ASSUME AcceptedData(r)
      PROVE  /\ archive.framing = "NonSolid" /\ frame_fits
             /\ m = archive.method /\ r.data = archive.header
  <2> DEFINE t == [framing |-> "NonSolid", method |-> m]
  <2>1. r.ok /\ r.data # <<>>
    BY <1>6 DEF AcceptedData
  <2>2. m # "None"
    <3>1. ASSUME m = "None"  PROVE FALSE
      <4>1. compressed_data = <<>>
        BY <1>1, <3>1, TailHolds DEF TriesFrame
      <4>2. r = Decoded(compressed_data, FALSE)
        BY <3>1 DEF decompress_block
      <4>. QED BY <2>1, <4>1, <4>2 DEF Decoded
    <3>. QED BY <3>1
  <2>3. compressed_data # <<>>
    <3>1. ASSUME compressed_data = <<>>  PROVE FALSE
      <4>1. m \in Methods
        BY <1>2, <2>2
      <4>2. ~Yields(r)
        BY <1>3, <1>4, <3>1, <4>1, NothingYields
      <4>. QED BY <2>1, <4>2 DEF Yields
    <3>. QED BY <3>1
  <2>4. Frame.is_compressed /\ frame_fits
    BY <1>1, <2>3, CompressedData
  <2>5. t \in Trial /\ t.framing = "NonSolid" /\ t.method = m
    BY <1>2, <2>2 DEF Trial
  <2> HIDE DEF t
  <2>6. MaySucceed(t)
    <3>1. r \in Outcomes(t)
      BY <2>5 DEF Outcomes
    <3>. QED BY <2>1, <2>5, <3>1 DEF MaySucceed, Yields
  <2>7. t = Own
    <3>1. ASSUME t # Own  PROVE FALSE
      <4>1. IsTriedBefore(Own, t)
        BY <1>1, <2>5, <2>6, <3>1, Rivals
      <4>2. archive.framing = "NonSolid" /\ Rank(archive.method, d) < Rank(m, d)
        BY <2>5, <4>1 DEF IsTriedBefore, Own, d
      <4>3. Holds(attempts, archive.method)
        BY <1>1, <2>4, <4>2
      <4>. QED BY <1>1, <1>2, <1>4, <4>2, <4>3, NotTriedBefore
    <3>. QED BY <3>1
  <2>8. archive.framing = "NonSolid" /\ m = archive.method
    BY <2>5, <2>7 DEF Own
  <2>9. PICK h \in archive.streams :
          /\ h.method = archive.method
          /\ h.bytes = compressed_data /\ h.output = archive.header /\ h.ends = "end"
    BY <1>5, <2>4, <2>8
  <2>10. Run(archive.streams, m, compressed_data).output = archive.header
    BY <1>2, <1>4, <2>8, <2>9, BeginsItself, SomeRun
  <2>11. r.data = FirstOf(Run(archive.streams, m, compressed_data).output, n)
    BY <1>2, <1>3, <1>4, <2>1, <2>2, ExactResult
  <2>12. r.data = archive.header
    BY <1>3, <2>10, <2>11, FirstOfAll
  <2>. QED BY <2>4, <2>8, <2>12
<1>7. ASSUME archive.framing = "NonSolid", frame_fits, m = archive.method
      PROVE  AcceptedData(r)
  <2>1. PICK h \in archive.streams :
          /\ h.method = archive.method
          /\ h.bytes = compressed_data /\ h.output = archive.header /\ h.ends = "end"
    BY <1>5, <1>7
  <2>2. h.method = m /\ Begins(h.bytes, compressed_data) /\ n <= Len(h.output)
    BY <1>2, <1>3, <1>7, <2>1, BeginsItself
  <2>3. r.ok /\ r.data = FirstOf(h.output, n)
    BY <1>2, <1>3, <1>4, <2>1, <2>2, ExactReach
  <2>4. r.data = archive.header
    BY <1>3, <2>1, <2>3, FirstOfAll
  <2>5. archive.header # <<>>
    BY <1>3
  <2>. QED BY <2>3, <2>4, <2>5 DEF AcceptedData
<1>. QED BY <1>6, <1>7

LEMMA BeginningShows ==
  ASSUME NEW s \in Seq(Byte), NEW t \in Seq(Byte), Begins(s, t)
  PROVE  Shows(s, t, 0)
BY BeginsFacts DEF Shows

(* The text of a solid archive begins with its header, stored.             *)
LEMMA SolidText ==
  ASSUME Inputs, archive.framing = "Solid"
  PROVE  /\ Text(archive) = archive.plain /\ BlockStart = solid_expected
         /\ solid_expected = 4 + Len(archive.header)
         /\ HasPrefix(archive.plain, 0) /\ solid_expected <= Len(archive.plain)
         /\ ~read_length_prefix(archive.plain, 0).is_compressed
         /\ read_length_prefix(archive.plain, 0).size = Len(archive.header)
         /\ Slice(archive.plain, 4, solid_expected) = archive.header
<1>1. Text(archive) = archive.plain
  BY DEF Text
<1>2. /\ ~read_length_prefix(archive.plain, 0).is_compressed
      /\ Slice(archive.plain, 4, BlockStart) = archive.header
      /\ BlockStart = 4 + Len(archive.header)
  BY <1>1, HeaderFrame
<1>3. archive.header \in Seq(Byte)
  BY SourceFacts
<1>4. solid_expected = 4 + Len(archive.header)
  BY <1>3 DEF solid_expected, expected_size
<1>5. /\ HasPrefix(archive.plain, 0) /\ BlockStart <= Len(archive.plain)
      /\ BlockStart = 4 + read_length_prefix(archive.plain, 0).size
      /\ read_length_prefix(archive.plain, 0).size \in Nat
  BY <1>1, TextFacts
<1>. QED BY <1>1, <1>2, <1>3, <1>4, <1>5

(* What is decoded up to the end of the header is the header; less than    *)
(* that is left as it is.                                                  *)
LEMMA Stripping ==
  ASSUME Inputs, archive.framing = "Solid", NEW data \in Seq(Byte),
         Begins(data, archive.plain), Len(data) <= solid_expected
  PROVE  IF Len(data) = solid_expected
           THEN HasPrefix(data, 0) /\ stripped(data) = archive.header
           ELSE HasPrefix(data, 0) => stripped(data) = data
<1> DEFINE n == Len(data)
<1>1. /\ archive.plain \in Seq(Byte) /\ n \in Nat
      /\ archive.header \in Seq(Byte) /\ Len(archive.header) > 0
  BY SourceFacts
<1>2. Shows(data, archive.plain, 0)
  BY <1>1, BeginningShows
<1>3. /\ solid_expected = 4 + Len(archive.header)
      /\ ~read_length_prefix(archive.plain, 0).is_compressed
      /\ read_length_prefix(archive.plain, 0).size = Len(archive.header)
      /\ Slice(archive.plain, 4, solid_expected) = archive.header
  BY SolidText
<1>4. ASSUME HasPrefix(data, 0)
      PROVE  /\ ~read_length_prefix(data, 0).is_compressed
             /\ read_length_prefix(data, 0).size = Len(archive.header)
  <2>1. read_length_prefix(data, 0) = read_length_prefix(archive.plain, 0 + 0)
    BY <1>2, <1>4, ShowsPrefix
  <2>. QED BY <1>3, <2>1
<1>5. ASSUME n = solid_expected
      PROVE  HasPrefix(data, 0) /\ stripped(data) = archive.header
  <2>1. HasPrefix(data, 0)
    BY <1>1, <1>3, <1>5 DEF HasPrefix
  <2>2. read_length_prefix(data, 0) = [is_compressed |-> FALSE, size |-> n - 4]
    <3>1. /\ ~read_length_prefix(data, 0).is_compressed
          /\ read_length_prefix(data, 0).size = n - 4
      BY <1>1, <1>3, <1>4, <1>5, <2>1
    <3> DEFINE high == data[0 + 4] >= 128
               size == data[0 + 1] + 256 * data[0 + 2] + 65536 * data[0 + 3]
                         + 16777216 * (data[0 + 4] % 128)
    <3>2. read_length_prefix(data, 0) = [is_compressed |-> high, size |-> size]
      BY DEF read_length_prefix
    <3>3. read_length_prefix(data, 0).is_compressed = high
      BY <3>2
    <3>4. high = FALSE
      <4>1. high \in BOOLEAN
        OBVIOUS
      <4>2. ~high
        BY <3>1, <3>3, Zenon
      <4> HIDE DEF high
      <4>. QED BY <4>1, <4>2
    <3>5. size = n - 4
      BY <3>1, <3>2
    <3> HIDE DEF high, size
    <3>. QED BY <3>2, <3>4, <3>5
  <2>3. stripped(data) = Slice(data, 4, n)
    BY <2>2 DEF stripped
  <2>4. 4 <= n /\ n <= Len(data)
    BY <1>1, <1>3, <1>5
  <2> HIDE DEF n
  <2>5. Slice(data, 4, n) = Slice(archive.plain, 0 + 4, 0 + n)
    BY <1>1, <1>2, <2>4, ShowsSlice
  <2>. QED BY <1>1, <1>3, <1>5, <2>1, <2>3, <2>5
<1>6. ASSUME n # solid_expected, HasPrefix(data, 0)
      PROVE  stripped(data) = data
  <2>1. read_length_prefix(data, 0).size # n - 4
    BY <1>1, <1>3, <1>4, <1>6
  <2>2. read_length_prefix(data, 0) # [is_compressed |-> FALSE, size |-> n - 4]
    BY <2>1
  <2>. QED BY <2>2 DEF stripped
<1>. QED BY <1>5, <1>6

(* What a codec reads of a solid archive.                                  *)
LEMMA SolidStream ==
  ASSUME Inputs, archive.framing = "Solid",
         NEW s \in archive.streams, s.method = archive.method, Begins(s.bytes, archive.whole)
  PROVE  /\ Begins(s.output, archive.plain) /\ (s.ends = "end" => s.output = archive.plain)
         /\ IsSound => s.ends = "end" /\ s.output = archive.plain
<1>1. ReadsAsOne(archive, s)
  BY DEF ReadsAsOne
<1>2. IsSolid(archive)
  BY DEF Inputs, Built, IsBuilt
<1>. QED BY <1>1, <1>2 DEF IsSolid, IsSound, IsWhole

(* What is there of a solid archive is fed to the codecs.                  *)
LEMMA StreamPart ==
  ASSUME Inputs, NEW bytes \in Seq(Byte), Begins(bytes, after_fh),
         NEW s \in archive.streams, Begins(s.bytes, bytes)
  PROVE  Begins(s.bytes, after_fh) /\ Begins(s.bytes, archive.whole)
<1>1. /\ after_fh \in Seq(Byte) /\ archive.whole \in Seq(Byte)
      /\ Begins(after_fh, archive.whole)
  BY SourceFacts
<1>2. s.bytes \in Seq(Byte)
  BY ArchiveCodec
<1>3. Begins(s.bytes, after_fh)
  BY <1>1, <1>2, BeginsTransitive
<1>. QED BY <1>1, <1>2, <1>3, BeginsTransitive

LEMMA NoPartOfSound ==
  ASSUME Inputs, archive.framing = "Solid", NEW s \in archive.streams, IsPart(s)
  PROVE  ~IsSound
<1>1. ASSUME IsSound  PROVE FALSE
  <2>1. after_fh = archive.whole
    BY <1>1, SoundSource
  <2>2. s.ends = "end"
    BY <1>1, <2>1, SolidStream DEF IsPart
  <2>. QED BY <2>2 DEF IsPart
<1>. QED BY <1>1

(* A trial of the stream that succeeds is that of the method which packed  *)
(* it, and results in the header unless the stream is cut.                 *)
LEMMA StreamTrial ==
  ASSUME Inputs, TriesStream, pc = "solid", attempts # <<>>,
         NEW r \in decompress_block(archive.streams, after_fh, Head(attempts),
                                    Exact(solid_expected)),
         r.ok
  PROVE  /\ archive.framing = "Solid" /\ Head(attempts) = archive.method
         /\ \/ HasPrefix(r.data, 0) /\ stripped(r.data) = archive.header
            \/ /\ HasPrefix(r.data, 0) => stripped(r.data) = r.data
               /\ \E s \in archive.streams : IsPart(s) /\ r.data = s.output
<1> DEFINE m == Head(attempts)
           n == solid_expected
           d == detect_compression(after_fh)
           run == Run(archive.streams, m, after_fh)
           t == [framing |-> "Solid", method |-> m]
<1>1. /\ HasPrefix(after_fh, 0) /\ m \in Methods
      /\ Frame.is_compressed \/ ~frame_fits
      /\ archive.framing # "Solid" => ~frame_fits
      /\ attempts \in Seq(Methods) /\ Sorted(attempts, d)
      /\ archive.framing = "Solid" /\ WillSucceed(Own) => Holds(attempts, archive.method)
  BY TailHolds DEF TriesStream
<1>2. /\ after_fh \in Seq(Byte) /\ Begins(after_fh, archive.whole) /\ after_fh # <<>>
      /\ archive.whole \in Seq(Byte) /\ archive.plain \in Seq(Byte)
  BY <1>1, SourceFacts DEF HasPrefix
<1>3. n \in Nat \ {0} /\ n = Len(archive.header) + 4 /\ expected_size \in Nat \ {0}
  BY SourceFacts DEF solid_expected, expected_size
<1>4. /\ Codec(archive.streams) /\ archive.method \in Methods
      /\ \A s \in archive.streams : s.bytes \in Seq(Byte) /\ s.output \in Seq(Byte)
  BY ArchiveCodec
<1>5. t \in Trial /\ t.framing = "Solid" /\ t.method = m
  BY <1>1 DEF Trial
<1> HIDE DEF t, d
<1>6. MaySucceed(t)
  <2>1. r \in Outcomes(t)
    BY <1>5 DEF Outcomes
  <2>. QED BY <1>5, <2>1 DEF MaySucceed
<1>7. t = Own
  <2>1. ASSUME t # Own  PROVE FALSE
    <3>1. Own \in Trial /\ WillSucceed(Own) /\ IsTriedBefore(Own, t)
      BY <1>1, <1>5, <1>6, <2>1, Rivals
    <3>2. Own.framing = archive.framing /\ Own.method = archive.method
      BY DEF Own
    <3>3. archive.framing \in {"NonSolid", "Solid"}
      BY <3>1, <3>2 DEF Trial
    <3>4. CASE archive.framing = "NonSolid"
      <4>1. compressed_data = <<>>
        BY <1>1, <3>4 DEF compressed_data
      <4>2. PICK r0 : r0 \in decompress_block(archive.streams, <<>>, archive.method,
                                              Exact(expected_size))
        BY SomeOutcome
      <4>3. r0 \in Outcomes(Own)
        BY <3>2, <3>4, <4>1, <4>2 DEF Outcomes
      <4>4. Yields(r0)
        BY <3>1, <3>2, <3>4, <4>3 DEF WillSucceed
      <4>. QED BY <1>3, <1>4, <4>2, <4>4, NothingYields
    <3>5. CASE archive.framing = "Solid"
      <4>1. Rank(archive.method, d) < Rank(m, d)
        BY <1>5, <3>1, <3>2, <3>5 DEF IsTriedBefore, d
      <4>2. Holds(attempts, archive.method)
        BY <1>1, <3>1, <3>5
      <4>3. attempts \in Seq(Methods \cup {"None"}) /\ d \in Methods \cup {"None"}
        BY <1>1, Detection DEF d
      <4>. QED BY <1>1, <1>4, <4>1, <4>2, <4>3, NotTriedBefore
    <3>. QED BY <3>3, <3>4, <3>5
  <2>. QED BY <2>1
<1>8. archive.framing = "Solid" /\ m = archive.method
  BY <1>5, <1>7 DEF Own
<1>9. /\ r.data = FirstOf(run.output, n)
      /\ Len(run.output) < n => run.ends = "end" \/ (m = "Deflate" /\ run.ends = "cut")
  BY <1>1, <1>2, <1>3, <1>4, ExactResult
<1>10. \E s \in archive.streams : s.method = m /\ Begins(s.bytes, after_fh)
  <2>1. ASSUME \A s \in archive.streams : s.method = m => ~Begins(s.bytes, after_fh)
        PROVE  FALSE
    <3>1. run.output = <<>> /\ run.ends = "damage"
      BY <1>2, <2>1, NoRun
    <3>2. Len(run.output) < n
      BY <1>3, <3>1
    <3>. QED BY <1>9, <3>1, <3>2
  <2>. QED BY <2>1
<1>11. PICK s \in archive.streams : s.method = m /\ Begins(s.bytes, after_fh)
  BY <1>10
<1>12. run.output = s.output /\ run.ends = s.ends
  BY <1>2, <1>4, <1>11, SomeRun
<1>13. s.bytes \in Seq(Byte) /\ s.output \in Seq(Byte)
  BY <1>4, <1>11
<1>14. Begins(s.bytes, archive.whole)
  BY <1>2, <1>11, <1>13, BeginsTransitive
<1>15. Begins(s.output, archive.plain) /\ (s.ends = "end" => s.output = archive.plain)
  BY <1>8, <1>11, <1>14, SolidStream
<1>16. n <= Len(archive.plain)
  BY <1>8, SolidText
<1> HIDE DEF n, run
<1>17. CASE n <= Len(s.output)
  <2>1. r.data \in Seq(Byte) /\ Len(r.data) = n
    BY <1>3, <1>9, <1>12, <1>13, <1>17, FirstOfFacts
  <2>2. Begins(r.data, s.output)
    BY <1>3, <1>9, <1>12, <1>13, FirstBegins
  <2>3. Begins(r.data, archive.plain)
    BY <1>2, <1>13, <1>15, <2>1, <2>2, BeginsTransitive
  <2>4. HasPrefix(r.data, 0) /\ stripped(r.data) = archive.header
    BY <1>3, <1>8, <2>1, <2>3, Stripping DEF n
  <2>. QED BY <1>8, <2>4
<1>18. CASE Len(s.output) < n
  <2>1. s.ends = "cut" /\ m = "Deflate"
    BY <1>3, <1>9, <1>12, <1>13, <1>15, <1>16, <1>18
  <2>2. r.data = s.output
    BY <1>3, <1>9, <1>12, <1>13, <1>18, FirstOfAll
  <2>3. HasPrefix(r.data, 0) => stripped(r.data) = r.data
    BY <1>3, <1>8, <1>13, <1>15, <1>18, <2>2, Stripping DEF n
  <2>4. IsPart(s)
    BY <1>8, <1>11, <1>18, <2>1 DEF IsPart, n
  <2>. QED BY <1>8, <1>11, <2>2, <2>3, <2>4
<1>. QED BY <1>3, <1>13, <1>17, <1>18

(* The right trial of a sound solid archive succeeds.                      *)
LEMMA SoundStreamSucceeds ==
  ASSUME Inputs, archive.framing = "Solid", IsSound
  PROVE  WillSucceed(Own)
<1> DEFINE n == solid_expected
<1>1. PICK s \in archive.streams : s.method = archive.method /\ Begins(s.bytes, archive.whole)
  BY DEF Inputs, Built, IsBuilt, IsSolid, IsSound, ReadsAsOne
<1>2. s.ends = "end" /\ s.output = archive.plain
  BY <1>1, SolidStream
<1>3. Begins(s.bytes, after_fh) /\ after_fh \in Seq(Byte)
  BY <1>1, SoundSource, SourceFacts
<1>4. n \in Nat \ {0} /\ n <= Len(s.output)
  BY <1>2, SolidText, SourceFacts
<1>5. Own.framing = "Solid" /\ Own.method = archive.method
  BY DEF Own
<1> HIDE DEF n
<1>6. ASSUME NEW r \in Outcomes(Own)  PROVE r.ok
  <2>1. r \in decompress_block(archive.streams, after_fh, s.method, Exact(n))
    BY <1>1, <1>5 DEF Outcomes, n
  <2>. QED BY <1>1, <1>2, <1>3, <1>4, <2>1, ArchiveCodec, ExactReach
<1>. QED BY <1>5, <1>6 DEF WillSucceed

-----------------------------------------------------------------------------
(* The data block of a solid archive.                                      *)

LEMMA SliceFrom ==
  ASSUME NEW data \in Seq(Byte), NEW text \in Seq(Byte), Begins(data, text),
         NEW i \in Nat, i <= Len(text)
  PROVE  LET d == Slice(data, i, Len(data))
         IN  /\ Len(d) = (IF i <= Len(data) THEN Len(data) - i ELSE 0)
             /\ Shows(d, text, i)
<1> DEFINE n == Len(data)
<1>1. /\ n \in Nat /\ n <= Len(data) /\ n <= Len(text)
      /\ \A k \in 1 .. n : data[k] = text[k]
  BY BeginsFacts
<1>2. CASE i <= n
  <2>0. n = Len(data)
    OBVIOUS
  <2> HIDE DEF n
  <2> DEFINE d == Slice(data, i, n)
  <2>1. /\ d \in Seq(Byte) /\ Len(d) = n - i /\ \A k \in 1 .. n - i : d[k] = data[i + k]
    BY <1>1, <1>2, SliceFacts
  <2> HIDE DEF d
  <2>2. \A k \in 1 .. Len(d) : d[k] = text[i + k]
    <3>1. ASSUME NEW k \in 1 .. Len(d)  PROVE d[k] = text[i + k]
      <4>1. i + k \in 1 .. n
        BY <1>1, <1>2, <2>1
      <4>. QED BY <1>1, <2>1, <4>1
    <3>. QED BY <3>1
  <2>3. i + Len(d) <= Len(text)
    BY <1>1, <1>2, <2>1
  <2>4. Shows(d, text, i)
    BY <2>1, <2>2, <2>3 DEF Shows
  <2>. QED BY <1>2, <2>0, <2>1, <2>4 DEF d
<1>3. CASE i > n
  <2>1. Slice(data, i, Len(data)) = <<>>
    BY <1>3 DEF Slice
  <2>2. Shows(<<>>, text, i)
    BY DEF Shows
  <2>. QED BY <1>1, <1>3, <2>1, <2>2
<1>. QED BY <1>1, <1>2, <1>3

(* The flags tell whether there is a checksum.                             *)
LEMMA Checksums ==
  ASSUME Inputs, archive.framing = "Solid"
  PROVE  has_crc <=> archive.crc
<1> DEFINE f == archive.flags
<1>1. /\ f \in 0 .. 7 /\ archive.version \in {"V1", "Later"}
      /\ archive.crc <=> IF archive.version = "V1" THEN f \in {1, 3, 5, 7} ELSE f \in 0 .. 3
  BY DEF Inputs, Built, IsArchive, IsBuilt, IsSolid
<1>2. has_crc <=> IF archive.version = "V1" THEN Bit(f, 1) ELSE ~Bit(f, 4)
  BY DEF has_crc
<1> HIDE DEF f
<1>3. Bit(f, 1) <=> f \in {1, 3, 5, 7}
  BY <1>1 DEF Bit
<1>4. Bit(f, 4) <=> f \notin 0 .. 3
  BY <1>1 DEF Bit
<1>. QED BY <1>1, <1>2, <1>3, <1>4

LEMMA StreamBytes ==
  ASSUME Inputs
  PROVE  stream_bytes \in Seq(Byte) /\ Begins(stream_bytes, after_fh)
<1> DEFINE x == IF has_crc THEN archive.following - 4 ELSE archive.following
<1>1. archive.following \in Nat
  BY DEF Inputs, Built, IsArchive
<1>2. x \in Int
  BY <1>1
<1> HIDE DEF x
<1>3. Larger(0, x) \in Nat
  BY <1>2 DEF Larger
<1>4. stream_bytes = FirstOf(after_fh, Larger(0, x))
  BY DEF stream_bytes, x
<1>. QED BY <1>3, <1>4, SourceFacts, FirstOfFacts, FirstBegins

(* The bytes of a sound stream begin what is decoded.                      *)
LEMMA SoundStreamBytes ==
  ASSUME Inputs, archive.framing = "Solid", IsSound
  PROVE  \E s \in archive.streams :
           /\ s.method = archive.method /\ Begins(s.bytes, stream_bytes)
           /\ s.ends = "end" /\ s.output = archive.plain
<1> DEFINE x == IF has_crc THEN archive.following - 4 ELSE archive.following
<1>1. IsWhole(archive)
  BY DEF IsSound
<1>2. PICK s \in archive.streams :
        /\ s.method = archive.method /\ Begins(s.bytes, archive.whole)
        /\ archive.following = Len(s.bytes) + (IF archive.crc THEN 4 ELSE 0)
  BY <1>1 DEF Inputs, Built, IsBuilt, IsSolid, ReadsAsOne
<1>3. s.ends = "end" /\ s.output = archive.plain
  BY <1>2, SolidStream
<1>4. s.bytes \in Seq(Byte)
  BY ArchiveCodec
<1>5. x = Len(s.bytes)
  <2>1. has_crc <=> archive.crc
    BY Checksums
  <2>2. CASE has_crc
    <3>1. archive.following = Len(s.bytes) + 4 /\ x = archive.following - 4
      BY <1>2, <2>1, <2>2
    <3>. QED BY <1>4, <3>1
  <2>3. CASE ~has_crc
    <3>1. archive.following = Len(s.bytes) + 0 /\ x = archive.following
      BY <1>2, <2>1, <2>3
    <3>. QED BY <1>4, <3>1
  <2>. QED BY <2>2, <2>3
<1>6. stream_bytes = FirstOf(after_fh, Larger(0, x))
  BY DEF stream_bytes
<1> HIDE DEF x
<1>7. Larger(0, x) = Len(s.bytes)
  BY <1>4, <1>5 DEF Larger
<1>8. Begins(s.bytes, FirstOf(archive.whole, Len(s.bytes)))
  <2>1. Begins(s.bytes, archive.whole) /\ archive.whole \in Seq(Byte)
    BY <1>2, SourceFacts
  <2>2. Len(s.bytes) \in Nat /\ Len(s.bytes) <= Len(s.bytes)
    BY <1>4
  <2>. QED BY <1>4, <2>1, <2>2, BeginsFirst
<1>9. Begins(s.bytes, stream_bytes)
  BY <1>6, <1>7, <1>8, SoundSource
<1>. QED BY <1>2, <1>3, <1>9

LEMMA StreamRead ==
  ASSUME Inputs, OpensStream, pc = "data-block", archive.framing = "Solid",
         NEW limit, limit = [kind |-> "Truncate", size |-> max_decompressed_size],
         NEW r \in decompress_block(archive.streams, stream_bytes, compression, limit)
  PROVE  LET data == IF r.ok THEN r.data ELSE <<>>
             d    == Slice(data, file_data_start, Len(data))
         IN  /\ Shows(d, archive.plain, BlockStart)
             /\ IsSound =>
                  /\ r.ok
                  /\ \/ BlockStart + Len(d) = Len(archive.plain)
                     \/ /\ BlockStart + Len(d) >= max_decompressed_size
                        /\ r.truncated \/ archive.method = "Bzip2"
<1> DEFINE b    == max_decompressed_size
           run  == Run(archive.streams, archive.method, stream_bytes)
           data == IF r.ok THEN r.data ELSE <<>>
           d    == Slice(data, file_data_start, Len(data))
<1>1. compression = archive.method /\ (header_data = archive.header \/ CutShort)
  BY DEF OpensStream, Opened
<1>2. /\ Codec(archive.streams) /\ archive.method \in Methods
      /\ \A s \in archive.streams : s.bytes \in Seq(Byte) /\ s.output \in Seq(Byte)
  BY ArchiveCodec
<1>3. /\ stream_bytes \in Seq(Byte) /\ Begins(stream_bytes, after_fh)
      /\ after_fh \in Seq(Byte) /\ archive.plain \in Seq(Byte) /\ b \in Nat
      /\ archive.header \in Seq(Byte)
  BY StreamBytes, SourceFacts DEF Inputs, Built
<1>4. /\ BlockStart = 4 + Len(archive.header) /\ BlockStart <= Len(archive.plain)
      /\ BlockStart \in Nat /\ solid_expected = BlockStart
  <2>1. BlockStart = solid_expected /\ solid_expected = 4 + Len(archive.header)
    BY SolidText
  <2>2. solid_expected <= Len(archive.plain)
    BY SolidText
  <2>3. Len(archive.header) \in Nat
    BY <1>3
  <2>. QED BY <2>1, <2>2, <2>3
<1>5. run.output \in Seq(Byte)
  BY <1>2, <1>3, RunType
<1>6. /\ r.ok => \/ r.data = run.output
                 \/ /\ r.data = FirstOf(run.output, b) /\ Len(run.output) >= b
                    /\ r.truncated \/ archive.method = "Bzip2"
      /\ run.ends = "end" /\ (archive.method = "Lzma" => Len(stream_bytes) >= 5) => r.ok
  BY <1>1, <1>2, <1>3, TruncateResult
<1>7. Begins(run.output, archive.plain)
  <2> DEFINE some == \E s \in archive.streams :
                       s.method = archive.method /\ Begins(s.bytes, stream_bytes)
  <2>1. CASE some
    <3>1. PICK s \in archive.streams :
            s.method = archive.method /\ Begins(s.bytes, stream_bytes)
      BY <2>1
    <3>2. run.output = s.output
      BY <1>2, <1>3, <3>1, SomeRun
    <3>3. Begins(s.bytes, archive.whole)
      BY <1>3, <3>1, StreamPart
    <3>. QED BY <3>1, <3>2, <3>3, SolidStream
  <2>2. CASE ~some
    <3>1. run.output = <<>>
      BY <2>2, NoRun
    <3>. QED BY <1>3, <3>1, NothingBegins
  <2> HIDE DEF some
  <2>. QED BY <2>1, <2>2
<1> HIDE DEF run
<1>8. /\ data \in Seq(Byte) /\ Begins(data, archive.plain)
      /\ Len(data) <= Len(run.output)
  <2>1. CASE ~r.ok
    <3>1. data = <<>>
      BY <2>1
    <3> HIDE DEF data
    <3>2. data \in Seq(Byte) /\ Len(data) = 0
      BY <3>1
    <3>. QED BY <1>3, <1>5, <3>1, <3>2, NothingBegins
  <2>2. CASE r.ok /\ r.data = run.output
    BY <1>3, <1>5, <1>7, <2>2
  <2>3. CASE r.ok /\ r.data = FirstOf(run.output, b)
    <3>1. data = FirstOf(run.output, b)
      BY <2>3
    <3> HIDE DEF data
    <3>2. /\ FirstOf(run.output, b) \in Seq(Byte) /\ Len(FirstOf(run.output, b)) <= Len(run.output)
          /\ Begins(FirstOf(run.output, b), run.output)
      <4>1. FirstOf(run.output, b) \in Seq(Byte) /\ Len(FirstOf(run.output, b)) <= Len(run.output)
        BY <1>3, <1>5, FirstOfFacts
      <4>2. Begins(FirstOf(run.output, b), run.output)
        BY <1>3, <1>5, FirstBegins
      <4>. QED BY <4>1, <4>2
    <3>. QED BY <1>3, <1>5, <1>7, <3>1, <3>2, BeginsTransitive
  <2>. QED BY <1>6, <2>1, <2>2, <2>3
<1> HIDE DEF data
<1>9. Shows(d, archive.plain, BlockStart)
  <2>1. CASE header_data = archive.header
    <3>1. file_data_start = BlockStart
      BY <1>3, <1>4, <2>1 DEF file_data_start
    <3>. QED BY <1>3, <1>4, <1>8, <3>1, SliceFrom
  <2>2. CASE CutShort
    <3>1. PICK s \in archive.streams : IsPart(s) /\ header_data = s.output
      BY <2>2 DEF CutShort
    <3>2. s.output \in Seq(Byte) /\ s.bytes \in Seq(Byte)
      BY <1>2
    <3>3. Len(run.output) <= Len(s.output)
      <4>1. CASE \E t \in archive.streams :
                   t.method = archive.method /\ Begins(t.bytes, stream_bytes)
        <5>1. PICK t \in archive.streams :
                t.method = archive.method /\ Begins(t.bytes, stream_bytes)
          BY <4>1
        <5>2. run.output = t.output
          BY <1>2, <1>3, <5>1, SomeRun DEF run
        <5>3. t.bytes \in Seq(Byte) /\ Begins(t.bytes, after_fh)
          BY <1>2, <1>3, <5>1, StreamPart
        <5>4. Begins(t.bytes, s.bytes) \/ Begins(s.bytes, t.bytes)
          BY <1>3, <3>1, <3>2, <5>3, BeginsBoth DEF IsPart
        <5>5. t.output = s.output
          BY <1>2, <3>1, <5>1, <5>4 DEF Codec, IsPart
        <5>. QED BY <3>2, <5>2, <5>5
      <4>2. CASE \A t \in archive.streams :
                   t.method = archive.method => ~Begins(t.bytes, stream_bytes)
        <5>1. run.output = <<>>
          BY <4>2, NoRun DEF run
        <5>. QED BY <3>2, <5>1
      <4>. QED BY <4>1, <4>2
    <3>4. file_data_start \in Nat /\ file_data_start > Len(data)
      BY <1>5, <1>8, <3>1, <3>2, <3>3 DEF file_data_start
    <3>5. d = <<>>
      BY <1>8, <3>4 DEF Slice
    <3> HIDE DEF d
    <3>. QED BY <1>3, <1>4, <3>5 DEF Shows
  <2>. QED BY <1>1, <2>1, <2>2
<1>10. ASSUME IsSound
       PROVE  /\ r.ok
              /\ \/ BlockStart + Len(d) = Len(archive.plain)
                 \/ /\ BlockStart + Len(d) >= b
                    /\ r.truncated \/ archive.method = "Bzip2"
  <2>1. PICK s \in archive.streams :
          /\ s.method = archive.method /\ Begins(s.bytes, stream_bytes)
          /\ s.ends = "end" /\ s.output = archive.plain
    BY <1>10, SoundStreamBytes
  <2>2. run.output = archive.plain /\ run.ends = "end"
    BY <1>2, <1>3, <2>1, SomeRun DEF run
  <2>3. archive.method = "Lzma" => Len(stream_bytes) >= 5
    BY <1>2, <1>3, <2>1 DEF Codec, Begins
  <2>4. r.ok
    BY <1>6, <2>2, <2>3
  <2>5. file_data_start = BlockStart
    <3>1. ~CutShort
      BY <1>10, NoPartOfSound DEF CutShort
    <3>. QED BY <1>1, <1>3, <1>4, <3>1 DEF file_data_start
  <2>6. Len(d) = (IF BlockStart <= Len(data) THEN Len(data) - BlockStart ELSE 0)
    BY <1>3, <1>4, <1>8, <2>5, SliceFrom
  <2>7. data = r.data
    BY <2>4 DEF data
  <2> HIDE DEF d
  <2>8. CASE r.data = archive.plain
    <3>1. Len(data) = Len(archive.plain)
      BY <2>7, <2>8
    <3>2. Len(archive.plain) \in Nat
      BY <1>3
    <3>3. BlockStart \in Nat /\ BlockStart <= Len(archive.plain)
      BY <1>4
    <3>4. Len(d) = Len(archive.plain) - BlockStart
      BY <2>6, <3>1, <3>3
    <3>5. BlockStart + (Len(archive.plain) - BlockStart) = Len(archive.plain)
      BY <3>2, <3>3
    <3>. QED BY <2>4, <3>4, <3>5
  <2>9. CASE /\ r.data = FirstOf(archive.plain, b) /\ Len(archive.plain) >= b
             /\ r.truncated \/ archive.method = "Bzip2"
    <3>1. Len(data) = b
      BY <1>3, <2>7, <2>9, FirstOfFacts
    <3>2. BlockStart + Len(d) >= b
      BY <1>3, <1>4, <2>6, <3>1
    <3>. QED BY <2>4, <2>9, <3>2
  <2>10. \/ r.data = archive.plain
         \/ /\ r.data = FirstOf(archive.plain, b) /\ Len(archive.plain) >= b
            /\ r.truncated \/ archive.method = "Bzip2"
    BY <1>6, <2>2, <2>4
  <2>. QED BY <2>8, <2>9, <2>10
<1>. QED BY <1>9, <1>10 DEF data

-----------------------------------------------------------------------------
(* Every step keeps the invariant.                                         *)

LEMMA InputsKept ==
  ASSUME UNCHANGED input
  PROVE  /\ archive' = archive /\ max_decompressed_size' = max_decompressed_size
         /\ Inputs' <=> Inputs
         /\ Misleads' <=> Misleads
         /\ WillSucceed(Own)' <=> WillSucceed(Own)
         /\ after_fh' = after_fh /\ BlockStart' = BlockStart
         /\ Frame' = Frame /\ (frame_fits' <=> frame_fits)
         /\ compressed_data' = compressed_data /\ solid_expected' = solid_expected
         /\ IsSound' <=> IsSound
<1>1. archive' = archive /\ max_decompressed_size' = max_decompressed_size
  BY DEF input
<1>2. Built' <=> Built
  BY <1>1 DEF Built
<1>3. after_fh' = after_fh /\ BlockStart' = BlockStart /\ solid_expected' = solid_expected
  BY <1>1 DEF after_fh, BlockStart, solid_expected, expected_size
<1>4. Frame' = Frame
  BY <1>3 DEF Frame
<1>5. frame_fits' <=> frame_fits
  BY <1>3, <1>4 DEF frame_fits
<1>6. compressed_data' = compressed_data
  BY <1>3, <1>4, <1>5 DEF compressed_data
<1>7. IsSound' <=> IsSound
  BY <1>1 DEF IsSound
<1>8. Own' = Own /\ expected_size' = expected_size
  BY <1>1 DEF Own, expected_size
<1>9. WillSucceed(Own)' <=> WillSucceed(Own)
  BY <1>1, <1>3, <1>6, <1>8 DEF WillSucceed, Outcomes
<1>10. Misleads' <=> Misleads
  <2>1. LooksStored' <=> LooksStored
    BY <1>3, <1>4, <1>5 DEF LooksStored
  <2>2. ASSUME NEW t
        PROVE  /\ MaySucceed(t)' <=> MaySucceed(t)
               /\ IsTriedBefore(Own, t)' <=> IsTriedBefore(Own, t)
    <3>1. Outcomes(t)' = Outcomes(t)
      BY <1>1, <1>3, <1>6, <1>8 DEF Outcomes
    <3>2. MaySucceed(t)' <=> MaySucceed(t)
      BY <3>1 DEF MaySucceed
    <3>3. IsTriedBefore(Own, t)' <=> IsTriedBefore(Own, t)
      BY <1>3, <1>6, <1>8 DEF IsTriedBefore
    <3>. QED BY <3>2, <3>3
  <2>. QED BY <1>1, <1>3, <1>8, <1>9, <2>1, <2>2 DEF Misleads
<1>11. Inputs' <=> Inputs
  BY <1>2, <1>10 DEF Inputs
<1>. QED BY <1>1, <1>3, <1>4, <1>5, <1>6, <1>7, <1>9, <1>10, <1>11

LEMMA NoAnswerYet ==
  ASSUME Answers, pc # "open", answer' = answer
  PROVE  Answers'
<1>1. answer.call = "none"
  BY DEF Answers
<1>2. answer'.call = "none"
  BY <1>1
<1>. QED BY <1>2 DEF Answers

(* An archive that is there in full has a prefix, and its frame fits.      *)
LEMMA SoundStart ==
  ASSUME Inputs, IsSound
  PROVE  /\ HasPrefix(after_fh, 0)
         /\ archive.framing # "Solid" => frame_fits
<1>1. after_fh = archive.whole
  BY SoundSource
<1>2. ASSUME archive.framing = "Solid"  PROVE HasPrefix(after_fh, 0)
  BY <1>1, <1>2 DEF Inputs, Built, IsBuilt, IsSolid
<1>3. ASSUME archive.framing # "Solid"  PROVE HasPrefix(after_fh, 0) /\ frame_fits
  <2>1. Text(archive) = archive.whole
    BY <1>3 DEF Text
  <2>2. HasPrefix(after_fh, 0) /\ BlockStart <= Len(after_fh)
    BY <1>1, <2>1, TextFacts
  <2>3. frame_bytes = BlockStart
    BY <2>1, <2>2, FirstPrefix DEF BlockStart
  <2>. QED BY <2>2, <2>3, FirstPrefix
<1>. QED BY <1>2, <1>3

LEMMA StoredHeaderOpens ==
  ASSUME Reads, StoredHeader
  PROVE  Reads'
<1>1. /\ Inputs /\ Answers /\ pc = "prefix" /\ HasPrefix(after_fh, 0)
      /\ ~Frame.is_compressed /\ frame_fits
      /\ pc' = "data-block" /\ UNCHANGED <<input, answer>>
      /\ header_data' = Slice(after_fh, 4, frame_bytes) /\ compression' = "None"
      /\ mode' = "NonSolid" /\ consumed' = frame_bytes
  BY DEF Reads, StoredHeader, Accept, frame_bytes
<1>2. /\ Frame = read_length_prefix(archive.whole, 0)
      /\ frame_bytes = FrameEnd(archive.whole, 0) /\ frame_bytes <= Len(after_fh)
      /\ Slice(after_fh, 4, frame_bytes) = Slice(archive.whole, 4, frame_bytes)
      /\ frame_bytes <= Len(archive.whole)
  BY <1>1, FirstPrefix, FirstBody
<1>3. archive.framing # "Solid"
  <2>1. ASSUME archive.framing = "Solid"  PROVE FALSE
    <3>1. LooksStored
      BY <1>1 DEF LooksStored
    <3>. QED BY <1>1, <2>1, <3>1 DEF Inputs, Misleads
  <2>. QED BY <2>1
<1>4. Text(archive) = archive.whole /\ BlockStart = frame_bytes
  BY <1>2, <1>3 DEF Text, BlockStart
<1>5. archive.framing # "NonSolid" /\ header_data' = archive.header
  BY <1>1, <1>2, <1>4, HeaderFrame
<1>6. archive.framing = "Stored"
  BY <1>1, <1>3, <1>5, SourceFacts
<1>7. Answers'
  BY <1>1, NoAnswerYet
<1>. QED BY <1>1, <1>2, <1>4, <1>5, <1>6, <1>7, InputsKept
  DEF Reads, TriesFrame, TriesStream, FailsUnsound, OpensFrame, OpensStream, ReadsStream,
      Opened

LEMMA TryNonSolidReads ==
  ASSUME Reads, TryNonSolid
  PROVE  Reads'
<1>1. /\ Inputs /\ Answers /\ TriesFrame /\ pc = "non-solid" /\ attempts # <<>>
      /\ UNCHANGED <<input, answer>>
  BY DEF Reads, TryNonSolid, Accept
<1>2. PICK r \in decompress_block(archive.streams, compressed_data, Head(attempts),
                                 Exact(expected_size)) :
        IF AcceptedData(r)
          THEN Accept(r.data, Head(attempts), "NonSolid", frame_bytes)
          ELSE attempts' = Tail(attempts) /\ UNCHANGED <<input, pc, header, solid, answer>>
  BY DEF TryNonSolid
<1>3. Answers'
  BY <1>1, NoAnswerYet
<1>4. /\ HasPrefix(after_fh, 0) /\ (Frame.is_compressed \/ ~frame_fits)
      /\ attempts \in Seq(Methods \cup {"None"})
      /\ Sorted(attempts, detect_compression(compressed_data))
      /\ Holds(attempts, "None") => compressed_data = <<>>
      /\ archive.framing = "NonSolid" /\ frame_fits => Holds(attempts, archive.method)
  BY <1>1 DEF TriesFrame
<1>5. CASE AcceptedData(r)
  <2>1. /\ archive.framing = "NonSolid" /\ frame_fits
        /\ Head(attempts) = archive.method /\ r.data = archive.header
    BY <1>1, <1>5, FrameTrial
  <2>2. /\ pc' = "data-block" /\ header_data' = archive.header /\ mode' = "NonSolid"
        /\ compression' = archive.method /\ consumed' = frame_bytes
    BY <1>2, <1>5, <2>1 DEF Accept
  <2>3. BlockStart = frame_bytes /\ BlockStart <= Len(after_fh)
    BY <1>1, <1>4, <2>1, FirstPrefix DEF Text, BlockStart
  <2>. QED BY <1>1, <1>3, <2>1, <2>2, <2>3, InputsKept
    DEF Reads, TriesFrame, TriesStream, FailsUnsound, OpensFrame, OpensStream, ReadsStream,
      Opened
<1>6. CASE ~AcceptedData(r)
  <2>1. attempts' = Tail(attempts) /\ pc' = "non-solid"
    BY <1>1, <1>2, <1>6
  <2>2. attempts' \in Seq(Methods \cup {"None"})
    BY <1>1, <1>4, <2>1, TailHolds
  <2>3. Holds(attempts', "None") => compressed_data = <<>>
    BY <1>1, <1>4, <2>1, TailHolds
  <2>4. ASSUME archive.framing = "NonSolid", frame_fits
        PROVE  Holds(attempts', archive.method)
    <3>1. Head(attempts) # archive.method
      BY <1>1, <1>6, <2>4, FrameTrial
    <3>. QED BY <1>1, <1>4, <2>1, <2>4, <3>1, TailHolds
  <2>5. Sorted(attempts', detect_compression(compressed_data'))
    BY <1>1, <1>4, <2>1, Detection, HeadRanksFirst, InputsKept
  <2>. QED BY <1>1, <1>3, <1>4, <2>1, <2>2, <2>3, <2>4, <2>5, InputsKept
    DEF Reads, TriesFrame, TriesStream, FailsUnsound, OpensFrame, OpensStream, ReadsStream,
      Opened
<1>. QED BY <1>5, <1>6

LEMMA TrySolidReads ==
  ASSUME Reads, TrySolid
  PROVE  Reads'
<1>1. /\ Inputs /\ Answers /\ TriesStream /\ pc = "solid" /\ attempts # <<>>
      /\ UNCHANGED <<input, answer>>
  BY DEF Reads, TrySolid, Accept, Fail
<1>2. PICK r \in decompress_block(archive.streams, after_fh, Head(attempts),
                                 Exact(solid_expected)) :
        IF r.ok
          THEN IF HasPrefix(r.data, 0)
                 THEN Accept(stripped(r.data), Head(attempts), "Solid", 0)
                 ELSE Fail
          ELSE attempts' = Tail(attempts) /\ UNCHANGED <<input, pc, header, solid, answer>>
  BY DEF TrySolid
<1>3. Answers'
  BY <1>1, NoAnswerYet
<1>4. /\ HasPrefix(after_fh, 0) /\ (archive.framing # "Solid" => ~frame_fits)
      /\ Frame.is_compressed \/ ~frame_fits
      /\ attempts \in Seq(Methods) /\ Sorted(attempts, detect_compression(after_fh))
      /\ archive.framing = "Solid" /\ WillSucceed(Own) => Holds(attempts, archive.method)
  BY <1>1 DEF TriesStream
<1>5. CASE r.ok
  <2>1. /\ archive.framing = "Solid" /\ Head(attempts) = archive.method
        /\ \/ HasPrefix(r.data, 0) /\ stripped(r.data) = archive.header
           \/ /\ HasPrefix(r.data, 0) => stripped(r.data) = r.data
              /\ \E s \in archive.streams : IsPart(s) /\ r.data = s.output
    BY <1>1, <1>5, StreamTrial
  <2>2. CASE HasPrefix(r.data, 0)
    <3>1. /\ pc' = "data-block" /\ header_data' = stripped(r.data) /\ mode' = "Solid"
          /\ compression' = archive.method
      BY <1>2, <1>5, <2>1, <2>2 DEF Accept
    <3>2. header_data' = archive.header \/ CutShort'
      BY <1>1, <2>1, <2>2, <3>1, InputsKept DEF CutShort, IsPart
    <3>. QED BY <1>1, <1>3, <2>1, <3>1, <3>2, InputsKept
    DEF Reads, TriesFrame, TriesStream, FailsUnsound, OpensFrame, OpensStream, ReadsStream,
        Opened
  <2>3. CASE ~HasPrefix(r.data, 0)
    <3>1. pc' = "failed"
      BY <1>2, <1>5, <2>3 DEF Fail
    <3>2. ~IsSound
      BY <1>1, <2>1, <2>3, NoPartOfSound
    <3>. QED BY <1>1, <1>3, <3>1, <3>2, InputsKept
    DEF Reads, TriesFrame, TriesStream, FailsUnsound, OpensFrame, OpensStream, ReadsStream,
        Opened
  <2>. QED BY <2>2, <2>3
<1>6. CASE ~r.ok
  <2>1. attempts' = Tail(attempts) /\ pc' = "solid"
    BY <1>1, <1>2, <1>6
  <2>2. attempts' \in Seq(Methods)
    BY <1>1, <1>4, <2>1, TailHolds
  <2>3. ASSUME archive.framing = "Solid", WillSucceed(Own)
        PROVE  Holds(attempts', archive.method)
    <3>1. Head(attempts) # archive.method
      <4>1. ASSUME Head(attempts) = archive.method  PROVE FALSE
        <5>1. Own.framing = "Solid" /\ Own.method = archive.method
          BY <2>3 DEF Own
        <5>2. r \in Outcomes(Own)
          BY <4>1, <5>1 DEF Outcomes
        <5>. QED BY <1>6, <2>3, <5>1, <5>2 DEF WillSucceed
      <4>. QED BY <4>1
    <3>. QED BY <1>1, <1>4, <2>1, <2>3, <3>1, TailHolds
  <2>4. Sorted(attempts', detect_compression(after_fh'))
    <3>1. attempts \in Seq(Methods \cup {"None"})
      BY <1>4
    <3>. QED BY <1>1, <1>4, <2>1, <3>1, Detection, HeadRanksFirst, InputsKept
  <2>. QED BY <1>1, <1>3, <1>4, <2>1, <2>2, <2>3, <2>4, InputsKept
    DEF Reads, TriesFrame, TriesStream, FailsUnsound, OpensFrame, OpensStream, ReadsStream,
      Opened
<1>. QED BY <1>5, <1>6

LEMMA NoLengthPrefixReads ==
  ASSUME Reads, NoLengthPrefix
  PROVE  Reads'
<1>1. /\ Inputs /\ Answers /\ pc = "prefix" /\ ~HasPrefix(after_fh, 0)
      /\ pc' = "failed" /\ UNCHANGED <<input, answer>>
  BY DEF Reads, NoLengthPrefix, Fail
<1>2. ~IsSound
  BY <1>1, SoundStart
<1>3. Answers'
  BY <1>1, NoAnswerYet
<1>. QED BY <1>1, <1>2, <1>3, InputsKept
  DEF Reads, TriesFrame, TriesStream, FailsUnsound, OpensFrame, OpensStream, ReadsStream,
      Opened

LEMMA NoStoredHeaderReads ==
  ASSUME Reads, NoStoredHeader
  PROVE  Reads'
<1> DEFINE d == detect_compression(compressed_data)
<1>1. /\ Inputs /\ Answers /\ pc = "prefix" /\ HasPrefix(after_fh, 0)
      /\ Frame.is_compressed \/ ~frame_fits
      /\ attempts' = Order(d) /\ pc' = "non-solid" /\ UNCHANGED <<input, answer>>
  BY DEF Reads, NoStoredHeader
<1>2. d \in Methods \cup {"None"} /\ (d = "None" <=> compressed_data = <<>>)
  BY Detection
<1>7. detect_compression(compressed_data') = d
  BY <1>1, InputsKept
<1> HIDE DEF d
<1>3. /\ Order(d) \in Seq(Methods \cup {d}) /\ \A m \in Methods : Holds(Order(d), m)
      /\ Holds(Order(d), "None") => d = "None"
  BY <1>2, OrderHoldsAll
<1>4. Order(d) \in Seq(Methods \cup {"None"})
  <2>1. Methods \cup {d} \subseteq Methods \cup {"None"}
    BY <1>2
  <2>. QED BY <1>3, <2>1
<1>5. Holds(attempts', archive.method)
  BY <1>1, <1>3, ArchiveCodec
<1>6. Answers'
  BY <1>1, NoAnswerYet
<1>8. Sorted(attempts', d)
  BY <1>1, <1>2, OrderIsSorted
<1>. QED BY <1>1, <1>2, <1>3, <1>4, <1>5, <1>6, <1>7, <1>8, InputsKept
  DEF Reads, TriesFrame, TriesStream, FailsUnsound, OpensFrame, OpensStream, ReadsStream,
      Opened

LEMMA BeginSolidReads ==
  ASSUME Reads, BeginSolid
  PROVE  Reads'
<1> DEFINE d == detect_compression(after_fh)
<1>1. /\ Inputs /\ Answers /\ TriesFrame /\ pc = "non-solid" /\ attempts = <<>>
      /\ attempts' = Order(d) /\ pc' = "solid" /\ UNCHANGED <<input, answer>>
  BY DEF Reads, BeginSolid
<1>2. /\ HasPrefix(after_fh, 0) /\ (Frame.is_compressed \/ ~frame_fits)
      /\ archive.framing = "NonSolid" /\ frame_fits => Holds(attempts, archive.method)
  BY <1>1 DEF TriesFrame
<1>3. after_fh # <<>>
  BY <1>1, <1>2, SourceFacts DEF HasPrefix
<1>4. d \in Methods
  BY <1>3, Detection
<1>10. detect_compression(after_fh') = d
  BY <1>1, InputsKept
<1> HIDE DEF d
<1>5. /\ Order(d) \in Seq(Methods \cup {d}) /\ \A m \in Methods : Holds(Order(d), m)
  BY <1>4, OrderHoldsAll
<1>6. Order(d) \in Seq(Methods)
  <2>1. Methods \cup {d} = Methods
    BY <1>4
  <2>. QED BY <1>5, <2>1
<1>7. Holds(attempts', archive.method)
  BY <1>1, <1>5, ArchiveCodec
(* A header that is stored, or packed in a frame, would have been found.   *)
<1>8. ASSUME archive.framing # "Solid"  PROVE ~frame_fits
  <2>1. CASE archive.framing = "NonSolid"
    <3>1. ~Holds(attempts, archive.method)
      BY <1>1 DEF Holds
    <3>. QED BY <1>2, <2>1, <3>1
  <2>2. CASE archive.framing = "Stored"
    <3>1. Text(archive) = archive.whole
      BY <2>2 DEF Text
    <3>2. ~Frame.is_compressed
      BY <1>1, <1>2, <2>2, <3>1, HeaderFrame, FirstPrefix
    <3>. QED BY <1>2, <3>2
  <2>. QED BY <1>1, <1>8, <2>1, <2>2, SourceFacts
<1>9. Answers'
  BY <1>1, NoAnswerYet
<1>11. Sorted(attempts', d)
  BY <1>1, <1>4, OrderIsSorted
<1>. QED BY <1>1, <1>2, <1>6, <1>7, <1>8, <1>9, <1>10, <1>11, InputsKept
  DEF Reads, TriesFrame, TriesStream, FailsUnsound, OpensFrame, OpensStream, ReadsStream,
      Opened

LEMMA UnsupportedCompressionReads ==
  ASSUME Reads, UnsupportedCompression
  PROVE  Reads'
<1>1. /\ Inputs /\ Answers /\ TriesStream /\ pc = "solid" /\ attempts = <<>>
      /\ pc' = "failed" /\ UNCHANGED <<input, answer>>
  BY DEF Reads, UnsupportedCompression, Fail
<1>2. ~Holds(attempts, archive.method)
  BY <1>1 DEF Holds
<1>3. ~IsSound
  BY <1>1, <1>2, SoundStart, SoundStreamSucceeds DEF TriesStream
<1>4. Answers'
  BY <1>1, NoAnswerYet
<1>. QED BY <1>1, <1>3, <1>4, InputsKept
  DEF Reads, TriesFrame, TriesStream, FailsUnsound, OpensFrame, OpensStream, ReadsStream,
      Opened

LEMMA NonSolidBlockReads ==
  ASSUME Reads, NonSolidBlock
  PROVE  Reads'
<1>1. /\ Inputs /\ Answers /\ OpensFrame /\ OpensStream
      /\ pc = "data-block" /\ mode = "NonSolid" /\ pc' = "open"
      /\ UNCHANGED <<input, attempts, header, solid, answer>>
  BY DEF Reads, NonSolidBlock
<1>2. archive.framing # "Solid"
  BY <1>1 DEF OpensStream, Opened
<1>3. Answers'
  BY <1>1, NoAnswerYet
<1>4. OpensFrame'
  BY <1>1, InputsKept DEF OpensFrame, Opened, header
<1>. QED BY <1>1, <1>2, <1>3, <1>4, InputsKept
  DEF Reads, TriesFrame, TriesStream, FailsUnsound, OpensStream, ReadsStream, Opened

LEMMA SolidBlockReads ==
  ASSUME Reads, SolidBlock
  PROVE  Reads'
<1>1. /\ Inputs /\ Answers /\ OpensFrame /\ OpensStream
      /\ pc = "data-block" /\ mode = "Solid" /\ pc' = "open"
      /\ UNCHANGED <<input, attempts, header, answer>>
  BY DEF Reads, SolidBlock
<1>2. archive.framing = "Solid"
  BY <1>1 DEF OpensFrame, Opened
<1> DEFINE limit == [kind |-> "Truncate", size |-> max_decompressed_size]
<1>3. PICK r \in decompress_block(archive.streams, stream_bytes, compression, limit) :
        LET data == IF r.ok THEN r.data ELSE <<>>
        IN  /\ solid_data' = Slice(data, file_data_start, Len(data))
            /\ solid_status' = IF ~r.ok THEN "Failed"
                               ELSE IF r.truncated THEN "Truncated" ELSE "Complete"
  BY DEF SolidBlock, Budget
<1>4. /\ Shows(solid_data', archive.plain, BlockStart)
      /\ IsSound =>
           /\ r.ok
           /\ \/ BlockStart + Len(solid_data') = Len(archive.plain)
              \/ /\ BlockStart + Len(solid_data') >= max_decompressed_size
                 /\ r.truncated \/ archive.method = "Bzip2"
  BY <1>1, <1>2, <1>3, StreamRead
<1>5. IsSound => /\ solid_status' # "Failed"
                 /\ r.truncated => solid_status' = "Truncated"
  BY <1>3, <1>4
<1>6. ReadsStream'
  BY <1>1, <1>4, <1>5, InputsKept DEF ReadsStream
<1>7. Answers'
  BY <1>1, NoAnswerYet
<1>8. OpensStream'
  <2>1. CutShort' <=> CutShort
    BY <1>1, InputsKept DEF CutShort, IsPart, header
  <2>. QED BY <1>1, <2>1, InputsKept DEF OpensStream, Opened, header
<1>. QED BY <1>1, <1>2, <1>6, <1>7, <1>8, InputsKept
  DEF Reads, TriesFrame, TriesStream, FailsUnsound, OpensFrame, Opened

(* Nothing that an access reads is changed by one.                         *)
LEMMA SourceKept ==
  ASSUME UNCHANGED <<input, pc, attempts, header, solid>>
  PROVE  /\ \A off : source_offset(off)' = source_offset(off)
         /\ \A from : FileResults(from)' = FileResults(from)
         /\ \A from : UninstallerResults(from)' = UninstallerResults(from)
         /\ Reads /\ Answers' => Reads'
<1>1. /\ archive' = archive /\ max_decompressed_size' = max_decompressed_size
      /\ pc' = pc /\ attempts' = attempts /\ header_data' = header_data
      /\ compression' = compression /\ mode' = mode /\ consumed' = consumed
      /\ solid_data' = solid_data /\ solid_status' = solid_status /\ UNCHANGED input
  BY DEF input, header, solid
<1>2. data_source' = data_source
  BY <1>1, InputsKept DEF data_source
<1>3. \A off : source_offset(off)' = source_offset(off)
  BY <1>1 DEF source_offset
<1>4. \A from : payload_end(from)' = payload_end(from)
  BY <1>2 DEF payload_end
<1>5. \A from : HasPayload(from)' <=> HasPayload(from)
  BY <1>2, <1>4 DEF HasPayload
<1>6. \A from : PayloadAt(from)' = PayloadAt(from)
  BY <1>2, <1>4 DEF PayloadAt
<1>7. \A from : Unpack(from)' = Unpack(from)
  BY <1>1, <1>2, <1>6 DEF Unpack, Budget
<1>8. OutOfReach' = OutOfReach
  BY <1>1 DEF OutOfReach
<1>9. \A from : FileResults(from)' = FileResults(from)
  BY <1>5, <1>7, <1>8 DEF FileResults
<1>10. \A from : HasOverlay(from)' <=> HasOverlay(from)
  BY <1>2, <1>4, <1>5 DEF HasOverlay, overlay_offset
<1>11. \A r : WithStub(r)' = WithStub(r)
  BY <1>1 DEF WithStub
<1>12. \A from : UninstallerResults(from)' = UninstallerResults(from)
  BY <1>4, <1>7, <1>10, <1>11 DEF UninstallerResults, overlay_offset
<1>13. Reads /\ Answers' => Reads'
  <2>1. CutShort' <=> CutShort
    BY <1>1, InputsKept DEF CutShort, IsPart
  <2>. QED BY <1>1, <2>1, InputsKept
    DEF Reads, TriesFrame, TriesStream, FailsUnsound, OpensFrame, OpensStream, ReadsStream,
      Opened
<1>. QED BY <1>3, <1>9, <1>12, <1>13

LEMMA ExtractFileReads ==
  ASSUME Reads, NEW off \in Offsets, ExtractFile(off)
  PROVE  Reads'
<1>1. /\ Reads /\ pc' = "open" /\ UNCHANGED <<input, pc, attempts, header, solid>>
      /\ answer'.call = "file" /\ answer'.offset = off
      /\ answer'.result \in FileResults(source_offset(off))
  BY DEF ExtractFile
<1>2. FileResults(source_offset(off))' = FileResults(source_offset(off))
  BY <1>1, SourceKept
<1>3. Answers'
  BY <1>1, SourceKept DEF Answers
<1>. QED BY <1>1, <1>3, SourceKept

LEMMA ExtractUninstallerReads ==
  ASSUME Reads, NEW off \in Offsets, ExtractUninstaller(off)
  PROVE  Reads'
<1>1. /\ Reads /\ pc' = "open" /\ UNCHANGED <<input, pc, attempts, header, solid>>
      /\ answer'.call = "uninstaller" /\ answer'.offset = off
      /\ answer'.result \in UninstallerResults(source_offset(Larger(0, off)))
  BY DEF ExtractUninstaller
<1>2. Answers'
  BY <1>1, SourceKept DEF Answers
<1>. QED BY <1>1, <1>2, SourceKept

LEMMA StutterReads ==
  ASSUME Reads, UNCHANGED vars
  PROVE  Reads'
<1>1. UNCHANGED <<input, pc, attempts, header, solid>> /\ answer' = answer
  BY DEF vars
<1>2. Answers'
  BY <1>1, SourceKept DEF Reads, Answers
<1>. QED BY <1>1, <1>2, SourceKept

LEMMA StepReads == Reads /\ [Next]_vars => Reads'
<1>. SUFFICES ASSUME Reads, [Next]_vars  PROVE Reads'
  OBVIOUS
<1>1. CASE decompress_header
  BY <1>1, NoLengthPrefixReads, StoredHeaderOpens, NoStoredHeaderReads, TryNonSolidReads,
     BeginSolidReads, TrySolidReads, UnsupportedCompressionReads DEF decompress_header
<1>2. CASE NonSolidBlock \/ SolidBlock
  BY <1>2, NonSolidBlockReads, SolidBlockReads
<1>3. CASE \E off \in Offsets : ExtractFile(off) \/ ExtractUninstaller(off)
  BY <1>3, ExtractFileReads, ExtractUninstallerReads
<1>4. CASE Failure \/ UNCHANGED vars
  BY <1>4, StutterReads DEF Failure
<1>. QED BY <1>1, <1>2, <1>3, <1>4 DEF Next

LEMMA InputIsKept == [Next]_vars => UNCHANGED input
<1>. SUFFICES ASSUME [Next]_vars  PROVE UNCHANGED input
  OBVIOUS
<1>1. CASE decompress_header
  BY <1>1 DEF decompress_header, NoLengthPrefix, StoredHeader, NoStoredHeader, TryNonSolid,
              BeginSolid, TrySolid, UnsupportedCompression, Accept, Fail
<1>2. CASE NonSolidBlock \/ SolidBlock
  BY <1>2 DEF NonSolidBlock, SolidBlock
<1>3. CASE \E off \in Offsets : ExtractFile(off) \/ ExtractUninstaller(off)
  BY <1>3 DEF ExtractFile, ExtractUninstaller
<1>4. CASE Failure \/ UNCHANGED vars
  BY <1>4 DEF Failure, vars
<1>. QED BY <1>1, <1>2, <1>3, <1>4 DEF Next

(* An archive misleads from the start or never.                            *)
LEMMA ArchiveReads == Spec => [](Misleads \/ Reads)
<1>1. (Misleads \/ Reads) /\ [Next]_vars => (Misleads \/ Reads)'
  <2>1. ASSUME Misleads, [Next]_vars  PROVE Misleads'
    BY <2>1, InputIsKept, InputsKept
  <2>. QED BY <2>1, StepReads
<1>. QED BY <1>1, InitReads, PTL DEF Spec

-----------------------------------------------------------------------------
(* What the accesses find.                                                 *)

(* Where the data of the files begin, in the text of the archive.          *)
SourceBase == IF mode = "Solid" THEN BlockStart ELSE 0

LEMMA SourceShows ==
  ASSUME Reads, pc = "open", NEW off \in Nat
  PROVE  /\ Shows(data_source, Text(archive), SourceBase) /\ SourceBase \in Nat
         /\ source_offset(off) \in Nat
         /\ SourceBase + source_offset(off) = BlockStart + off
<1>1. Inputs /\ BlockStart \in Nat
  BY TextFacts DEF Reads
<1>2. CASE archive.framing = "Solid"
  <2>1. mode = "Solid" /\ Shows(solid_data, archive.plain, BlockStart)
    BY <1>2 DEF Reads, OpensStream, ReadsStream, Opened
  <2>. QED BY <1>1, <1>2, <2>1 DEF Text, SourceBase, data_source, source_offset
<1>3. CASE archive.framing # "Solid"
  <2>1. mode = "NonSolid" /\ consumed = BlockStart
    BY <1>3 DEF Reads, OpensFrame, Opened
  <2>2. Shows(after_fh, archive.whole, 0)
    BY <1>1, SourceFacts
  <2>. QED BY <1>1, <1>3, <2>1, <2>2 DEF Text, SourceBase, data_source, source_offset
<1>. QED BY <1>2, <1>3

(* Of a sound archive only the end of its solid stream can be out of       *)
(* reach, and that because of the budget.                                  *)
LEMMA SoundReach ==
  ASSUME Reads, pc = "open", IsSound,
         NEW to \in Nat, to <= Len(Text(archive)), to > SourceBase + Len(data_source)
  PROVE  /\ archive.framing = "Solid" /\ to > max_decompressed_size
         /\ solid_status = "Truncated" \/ archive.method = "Bzip2"
<1>1. Inputs
  BY DEF Reads
<1>2. archive.framing = "Solid"
  <2>1. ASSUME archive.framing # "Solid"  PROVE FALSE
    <3>1. mode = "NonSolid"
      BY <2>1 DEF Reads, OpensFrame, Opened
    <3>2. data_source = archive.whole /\ SourceBase = 0 /\ Text(archive) = archive.whole
      BY <1>1, <2>1, <3>1, SoundSource DEF data_source, SourceBase, Text
    <3>3. Len(archive.whole) \in Nat
      BY <1>1, SourceFacts
    <3>. QED BY <3>2, <3>3
  <2>. QED BY <2>1
<1>3. mode = "Solid" /\ data_source = solid_data /\ SourceBase = BlockStart
  BY <1>2 DEF Reads, OpensStream, Opened, data_source, SourceBase
<1>4. /\ Shows(solid_data, archive.plain, BlockStart)
      /\ \/ BlockStart + Len(solid_data) = Len(archive.plain)
         \/ /\ BlockStart + Len(solid_data) >= max_decompressed_size
            /\ solid_status = "Truncated" \/ archive.method = "Bzip2"
  BY <1>2 DEF Reads, ReadsStream
<1>5. Text(archive) = archive.plain /\ Len(archive.plain) \in Nat
  BY <1>1, <1>2, SourceFacts DEF Text
<1>6. Len(solid_data) \in Nat /\ BlockStart \in Nat /\ max_decompressed_size \in Nat
  BY <1>1, <1>4, TextFacts DEF Shows, Inputs, Built
<1>. QED BY <1>2, <1>3, <1>4, <1>5, <1>6

(* The source has a frame of the text unless it ends before the frame does.*)
LEMMA FrameInSource ==
  ASSUME Reads, pc = "open", NEW from \in Nat,
         HasPrefix(Text(archive), SourceBase + from)
  PROVE  LET end == FrameEnd(Text(archive), SourceBase + from)
         IN  /\ end \in Nat /\ end >= SourceBase + from + 4
             /\ HasPrefix(data_source, from) =>
                  payload_end(from) \in Nat /\ SourceBase + payload_end(from) = end
             /\ HasPayload(from) <=> end <= SourceBase + Len(data_source)
<1> DEFINE text == Text(archive)
           base == SourceBase
           d    == data_source
           at   == base + from
           end  == FrameEnd(text, at)
<1>1. /\ Shows(d, text, base) /\ base \in Nat /\ text \in Seq(Byte) /\ d \in Seq(Byte)
      /\ base + Len(d) <= Len(text) /\ Len(d) \in Nat
  <2>1. Shows(d, text, base)
    BY SourceShows
  <2> HIDE DEF d, text, base
  <2>. QED BY <2>1 DEF Shows
<1>2. HasPrefix(text, at) /\ at \in Nat
  BY <1>1
<1>3. end \in Nat /\ end >= at + 4 /\ read_length_prefix(text, at).size \in Nat
  BY <1>1, <1>2, PrefixType
<1>4. ASSUME HasPrefix(d, from)
      PROVE  payload_end(from) \in Nat /\ base + payload_end(from) = end
  <2>1. read_length_prefix(d, from) = read_length_prefix(text, at)
    BY <1>1, <1>4, ShowsPrefix
  <2>2. payload_end(from) = from + 4 + read_length_prefix(text, at).size
    BY <2>1 DEF payload_end
  <2>3. end = base + from + 4 + read_length_prefix(text, at).size
    BY DEF FrameEnd
  <2> DEFINE size == read_length_prefix(text, at).size
  <2>4. size \in Nat /\ base \in Nat
    BY <1>1, <1>3
  <2> HIDE DEF end, size, base
  <2>5. from + 4 + size \in Nat /\ base + (from + 4 + size) = base + from + 4 + size
    BY <2>4
  <2>. QED BY <2>2, <2>3, <2>5 DEF size
<1>5. HasPayload(from) <=> HasPrefix(d, from) /\ payload_end(from) <= Len(d)
  BY DEF HasPayload, InSource
<1>6. HasPrefix(d, from) <=> from + 4 <= Len(d)
  BY DEF HasPrefix
<1> HIDE DEF text, base, d, end
<1>7. HasPayload(from) <=> end <= base + Len(d)
  <2>1. CASE HasPrefix(d, from)
    BY <1>1, <1>4, <1>5, <2>1
  <2>2. CASE ~HasPrefix(d, from)
    BY <1>1, <1>3, <1>5, <1>6, <2>2
  <2>. QED BY <2>1, <2>2
<1>. QED BY <1>3, <1>4, <1>7 DEF text, base, d, end

(* A frame that the source has is unpacked into its content, or the budget *)
(* does not allow that.                                                    *)
LEMMA UnpackContent ==
  ASSUME Reads, pc = "open", NEW from \in Nat, NEW content \in Seq(Byte),
         FrameHolds(archive, Text(archive), SourceBase + from, content), HasPayload(from),
         NEW r \in Unpack(from)
  PROVE  IF r.ok THEN r.data = content
         ELSE /\ archive.framing = "NonSolid" /\ Len(content) > max_decompressed_size
              /\ r.error = "OutputTooLarge"
<1> DEFINE text == Text(archive)
           at   == SourceBase + from
           body == Slice(text, at + 4, FrameEnd(text, at))
<1>1. /\ Inputs /\ Shows(data_source, text, SourceBase) /\ SourceBase \in Nat
      /\ text \in Seq(Byte)
  BY SourceShows DEF Reads, Shows
<1>2. HasPrefix(data_source, from) /\ payload_end(from) <= Len(data_source)
  BY DEF HasPayload, InSource
<1>3. /\ payload_end(from) \in Nat /\ SourceBase + payload_end(from) = FrameEnd(text, at)
      /\ FrameEnd(text, at) >= at + 4
  BY <1>2, FrameInSource DEF FrameHolds
<1>4. read_length_prefix(data_source, from) = read_length_prefix(text, at)
  BY <1>1, <1>2, ShowsPrefix
<1>5. PayloadAt(from) = body
  <2> DEFINE i == from + 4
             j == payload_end(from)
  <2>1. i \in Nat /\ j \in Nat /\ i <= j /\ j <= Len(data_source)
    BY <1>1, <1>2, <1>3
  <2>2. SourceBase + i = at + 4 /\ SourceBase + j = FrameEnd(text, at)
    BY <1>1, <1>3
  <2>3. PayloadAt(from) = Slice(data_source, i, j)
    BY DEF PayloadAt
  <2> HIDE DEF i, j, text
  <2>4. Slice(data_source, i, j) = Slice(text, SourceBase + i, SourceBase + j)
    BY <1>1, <2>1, ShowsSlice
  <2>. QED BY <2>2, <2>3, <2>4
<1>6. IF read_length_prefix(text, at).is_compressed
        THEN /\ archive.framing = "NonSolid"
             /\ \E s \in archive.streams :
                  /\ s.method = archive.method
                  /\ s.bytes = body /\ s.output = content /\ s.ends = "end"
        ELSE body = content
  BY DEF FrameHolds
<1>7. CASE ~read_length_prefix(text, at).is_compressed
  <2>1. r = Decoded(PayloadAt(from), FALSE)
    BY <1>4, <1>7 DEF Unpack
  <2>. QED BY <1>5, <1>6, <1>7, <2>1 DEF Decoded
<1>8. CASE read_length_prefix(text, at).is_compressed
  <2> DEFINE limit == [kind |-> "Capped", size |-> max_decompressed_size]
  <2>1. archive.framing = "NonSolid" /\ compression = archive.method
    BY <1>6, <1>8 DEF Reads, OpensFrame, Opened
  <2>2. PICK s \in archive.streams :
          /\ s.method = archive.method
          /\ s.bytes = body /\ s.output = content /\ s.ends = "end"
    BY <1>6, <1>8
  <2>3. /\ Codec(archive.streams) /\ s.bytes \in Seq(Byte) /\ max_decompressed_size \in Nat
    BY <1>1, ArchiveCodec DEF Inputs, Built
  <2>4. r \in decompress_block(archive.streams, s.bytes, s.method, limit)
    BY <1>4, <1>5, <1>8, <2>1, <2>2, <2>3 DEF Unpack, Budget
  <2>5. Begins(s.bytes, s.bytes)
    BY <2>3, BeginsItself
  <2>. QED BY <2>1, <2>2, <2>3, <2>4, <2>5, CappedResult
<1>. QED BY <1>7, <1>8

LEMMA ItemFacts ==
  ASSUME Inputs, NEW i \in archive.items
  PROVE  LET content == ContentAt(Text(archive), BlockStart, i)
         IN  /\ i.kind \in {"file", "uninstaller"} /\ i.offset \in Nat /\ i.end \in Nat
             /\ i.content \in Seq(Byte)
             /\ HasPrefix(Text(archive), BlockStart + i.offset)
             /\ FrameHolds(archive, Text(archive), content, i.content)
             /\ HasPrefix(Text(archive), content)
             /\ FrameEnd(Text(archive), content) = BlockStart + i.end
             /\ BlockStart + i.end <= Len(Text(archive))
             /\ archive.framing = "Solid" => Needed(i) = BlockStart + i.end
             /\ archive.framing # "Solid" => Needed(i) = Len(i.content)
<1>1. i \in Item
  BY DEF Inputs, Built, IsArchive
<1>2. ItemHolds(archive, Text(archive), BlockStart, i)
  BY DEF Inputs, Built, IsBuilt, BlockStart
<1>3. archive.framing = "Solid" => Needed(i) = BlockStart + i.end
  BY SolidText DEF Needed
<1>4. archive.framing # "Solid" => Needed(i) = Len(i.content)
  BY DEF Needed
<1>. QED BY <1>1, <1>2, <1>3, <1>4 DEF Item, ItemHolds, FrameHolds

(* The answers for a file, as long as its frame is in reach and otherwise. *)
LEMMA FileAnswer ==
  ASSUME Reads, NEW i \in archive.items, IsFor(i, "file")
  PROVE  IF answer.result.ok THEN answer.result.data = i.content
         ELSE IsSound => /\ Needed(i) > max_decompressed_size
                         /\ answer.result.error = "OutputTooLarge" \/ archive.method = "Bzip2"
<1> DEFINE from == source_offset(i.offset)
           text == Text(archive)
           to   == BlockStart + i.end
<1>1. /\ Inputs /\ i.kind = "file" /\ pc = "open"
      /\ answer.result \in FileResults(source_offset(i.offset))
  BY DEF Reads, Answers, IsFor
<1>2. /\ i.offset \in Nat /\ i.end \in Nat /\ i.content \in Seq(Byte)
      /\ FrameHolds(archive, text, BlockStart + i.offset, i.content)
      /\ HasPrefix(text, BlockStart + i.offset)
      /\ FrameEnd(text, BlockStart + i.offset) = to /\ to <= Len(text)
  BY <1>1, ItemFacts DEF ContentAt
<1>3. from \in Nat /\ SourceBase + from = BlockStart + i.offset /\ SourceBase \in Nat
  BY <1>1, <1>2, SourceShows
<1>4. HasPayload(from) <=> to <= SourceBase + Len(data_source)
  BY <1>1, <1>2, <1>3, FrameInSource
<1>5. to \in Nat
  BY <1>1, <1>2, TextFacts
<1> HIDE DEF from, text, to
<1>6. CASE HasPayload(from)
  <2>1. answer.result \in Unpack(from)
    BY <1>1, <1>6 DEF FileResults, from
  <2>2. IF answer.result.ok THEN answer.result.data = i.content
        ELSE /\ archive.framing = "NonSolid" /\ Len(i.content) > max_decompressed_size
             /\ answer.result.error = "OutputTooLarge"
    BY <1>1, <1>2, <1>3, <1>6, <2>1, UnpackContent DEF text
  <2>. QED BY <1>1, <2>2, ItemFacts
<1>7. CASE ~HasPayload(from)
  <2>1. answer.result = OutOfReach
    BY <1>1, <1>7 DEF FileResults, from
  <2>2. ~answer.result.ok
    BY <2>1 DEF OutOfReach, Failed
  <2>3. ASSUME IsSound
        PROVE  /\ Needed(i) > max_decompressed_size
               /\ answer.result.error = "OutputTooLarge" \/ archive.method = "Bzip2"
    <3>1. Len(data_source) \in Nat
      BY <1>1, <1>2, SourceShows DEF Shows
    <3>2. to > SourceBase + Len(data_source)
      BY <1>3, <1>4, <1>5, <1>7, <3>1
    <3>3. /\ archive.framing = "Solid" /\ to > max_decompressed_size
          /\ solid_status = "Truncated" \/ archive.method = "Bzip2"
      BY <1>1, <1>2, <1>5, <2>3, <3>2, SoundReach DEF text
    <3>4. solid_status = "Truncated" => answer.result.error = "OutputTooLarge"
      BY <2>1 DEF OutOfReach, Failed
    <3>. QED BY <1>1, <3>3, <3>4, ItemFacts DEF to
  <2>. QED BY <2>2, <2>3
<1>. QED BY <1>6, <1>7

LEMMA UninstallerAnswer ==
  ASSUME Reads, NEW i \in archive.items, IsFor(i, "uninstaller")
  PROVE  IF answer.result.ok THEN answer.result.data = archive.stub \o i.content
                             ELSE IsSound => Needed(i) > max_decompressed_size
<1> DEFINE from == source_offset(i.offset)
           over == overlay_offset(from)
           text == Text(archive)
           icon == FrameEnd(text, BlockStart + i.offset)
           to   == BlockStart + i.end
<1>1. /\ Inputs /\ i.kind = "uninstaller" /\ pc = "open"
      /\ answer.result \in UninstallerResults(source_offset(Larger(0, i.offset)))
  BY DEF Reads, Answers, IsFor
<1>2. /\ i.offset \in Nat /\ i.end \in Nat /\ i.content \in Seq(Byte)
      /\ HasPrefix(text, BlockStart + i.offset)
      /\ FrameHolds(archive, text, icon, i.content) /\ HasPrefix(text, icon)
      /\ FrameEnd(text, icon) = to /\ to <= Len(text)
  BY <1>1, ItemFacts DEF ContentAt
<1>3. from \in Nat /\ SourceBase + from = BlockStart + i.offset /\ SourceBase \in Nat
  BY <1>1, <1>2, SourceShows
<1>4. Larger(0, i.offset) = i.offset
  BY <1>2 DEF Larger
<1>5. /\ icon \in Nat /\ icon >= SourceBase + from + 4
      /\ HasPrefix(data_source, from) => over \in Nat /\ SourceBase + over = icon
  BY <1>1, <1>2, <1>3, FrameInSource DEF overlay_offset
<1>6. /\ Len(data_source) \in Nat /\ to \in Nat /\ to >= icon + 4
  <2>1. Shows(data_source, text, SourceBase) /\ text \in Seq(Byte)
    BY <1>1, <1>2, SourceShows DEF Shows
  <2>2. FrameEnd(text, icon) \in Nat /\ FrameEnd(text, icon) >= icon + 4
    BY <1>2, <1>5, <2>1, PrefixType
  <2>. QED BY <1>2, <2>1, <2>2 DEF Shows
<1>7. HasPrefix(data_source, from) <=> from + 4 <= Len(data_source)
  BY DEF HasPrefix
<1> HIDE DEF from, text, to, over, icon
<1>8. CASE HasOverlay(from)
  <2>1. HasPrefix(data_source, from) /\ HasPayload(over)
    BY <1>8 DEF HasOverlay, over
  <2>2. over \in Nat /\ SourceBase + over = icon
    BY <1>5, <2>1
  <2>3. PICK r \in Unpack(over) : answer.result = WithStub(r)
    BY <1>1, <1>4, <1>8 DEF UninstallerResults, over, from
  <2>4. IF r.ok THEN r.data = i.content
        ELSE /\ archive.framing = "NonSolid" /\ Len(i.content) > max_decompressed_size
             /\ r.error = "OutputTooLarge"
    BY <1>1, <1>2, <2>1, <2>2, <2>3, UnpackContent DEF text
  <2>5. CASE r.ok
    <3> DEFINE rebuilt == archive.stub \o r.data
    <3>1. answer.result = Decoded(rebuilt, FALSE)
      BY <2>3, <2>5 DEF WithStub
    <3>2. r.data = i.content
      BY <2>4, <2>5
    <3>3. rebuilt = archive.stub \o i.content
      BY <3>2
    <3> HIDE DEF rebuilt
    <3>4. answer.result.ok /\ answer.result.data = rebuilt
      BY <3>1 DEF Decoded
    <3>. QED BY <3>3, <3>4, Zenon
  <2>6. CASE ~r.ok
    <3>1. answer.result = r
      BY <2>3, <2>6 DEF WithStub
    <3>. QED BY <1>1, <2>4, <2>6, <3>1, ItemFacts
  <2>. QED BY <2>5, <2>6
<1>9. CASE ~HasOverlay(from)
  <2>1. ~answer.result.ok
    BY <1>1, <1>4, <1>9 DEF UninstallerResults, Failed, from
  <2>2. ASSUME IsSound  PROVE Needed(i) > max_decompressed_size
    <3>1. to > SourceBase + Len(data_source)
      <4>1. CASE HasPrefix(data_source, from)
        <5>1. over \in Nat /\ SourceBase + over = icon
          BY <1>5, <4>1
        <5>2. ~HasPayload(over)
          BY <1>9, <4>1 DEF HasOverlay, HasPayload, over
        <5>3. HasPayload(over) <=> to <= SourceBase + Len(data_source)
          BY <1>1, <1>2, <5>1, FrameInSource DEF text
        <5>. QED BY <1>3, <1>6, <5>2, <5>3
      <4>2. CASE ~HasPrefix(data_source, from)
        BY <1>3, <1>5, <1>6, <1>7, <4>2
      <4>. QED BY <4>1, <4>2
    <3>2. archive.framing = "Solid" /\ to > max_decompressed_size
      BY <1>1, <1>2, <1>6, <2>2, <3>1, SoundReach DEF text
    <3>. QED BY <1>1, <3>2, ItemFacts DEF to
  <2>. QED BY <2>1, <2>2
<1>. QED BY <1>8, <1>9

-----------------------------------------------------------------------------
(* The theorems.                                                           *)

(* decompress_header finds the header that was built, its framing and its  *)
(* method, in every archive it opens, also where other framings or methods *)
(* make sense of the bytes, unless these mislead.                          *)
THEOREM HeadersAreFound == Spec => []HeaderIsFound
<1>1. Reads => HeaderIsFound
  <2>. SUFFICES ASSUME Reads, Opened  PROVE HeaderIsFound
    BY DEF HeaderIsFound
  <2>1. CASE archive.framing = "Solid"
    <3>1. /\ mode = "Solid" /\ compression = archive.method
          /\ header_data = archive.header \/ CutShort
      BY <2>1 DEF Reads, OpensStream
    <3>2. CutShort => HeaderIsCut
      BY <2>1 DEF CutShort, IsPart, HeaderIsCut
    <3>. QED BY <2>1, <3>1, <3>2 DEF HeaderIsFound
  <2>2. CASE archive.framing # "Solid"
    BY <2>2 DEF Reads, OpensFrame, HeaderIsFound
  <2>. QED BY <2>1, <2>2
<1>2. Misleads => HeaderIsFound
  BY DEF HeaderIsFound
<1>. QED BY <1>1, <1>2, ArchiveReads, PTL

(* No sequence of failing trials makes decompress_header give up on an     *)
(* archive that is there in full; one that misleads may.                   *)
THEOREM SoundArchivesAlwaysOpen == Spec => []SoundArchivesOpen
<1>1. Reads => SoundArchivesOpen
  BY DEF Reads, FailsUnsound, SoundArchivesOpen
<1>2. Misleads => SoundArchivesOpen
  BY DEF SoundArchivesOpen
<1>. QED BY <1>1, <1>2, ArchiveReads, PTL

(* Whatever ExtractedFile::decompress returns, of an archive that does not *)
(* mislead, is the content that was packed.                                *)
THEOREM ExtractedFilesAreIntact == Spec => []FilesAreIntact
<1>1. Reads => FilesAreIntact
  BY FileAnswer DEF FilesAreIntact
<1>2. Misleads => FilesAreIntact
  BY DEF FilesAreIntact, IsFor
<1>. QED BY <1>1, <1>2, ArchiveReads, PTL

(* A file of a sound archive that does not mislead is refused for the      *)
(* budget only, by the name of the budget.                                 *)
THEOREM SoundFilesAreExtracted == Spec => []OnlyTheBudgetWithholds
<1>1. Reads => OnlyTheBudgetWithholds
  BY FileAnswer DEF OnlyTheBudgetWithholds
<1>2. Misleads => OnlyTheBudgetWithholds
  BY DEF OnlyTheBudgetWithholds, IsFor
<1>. QED BY <1>1, <1>2, ArchiveReads, PTL

(* Uninstaller::decompress puts the stub before the overlay, of an archive *)
(* that does not mislead.                                                  *)
THEOREM UninstallersAreRebuilt == Spec => []UninstallerIsRebuilt
<1>1. Reads => UninstallerIsRebuilt
  BY UninstallerAnswer DEF UninstallerIsRebuilt
<1>2. Misleads => UninstallerIsRebuilt
  BY DEF UninstallerIsRebuilt, IsFor
<1>. QED BY <1>1, <1>2, ArchiveReads, PTL
================================================================================
