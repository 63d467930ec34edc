------------------------------ MODULE Bzip2Writer ------------------------------
(***************************************************************************)
(* How makensis packs bytes into a bzip2 stream: compress.c of bzip2 with  *)
(* the framing of NSIS, which NSIS 1.x and later releases write one bit    *)
(* per block apart.  The bytes are what the run-length stage has left.     *)
(* Here three coding tables take turns, by group of symbols.               *)
(***************************************************************************)
EXTENDS Integers, Sequences, SequencesExt, FiniteSets, FiniteSetsExt, TLC

CONSTANT BZ_G_SIZE      (* Symbols coded with one table; 50 in bzip2.      *)

(* Where x is in s, from zero.                                             *)
Position(x, s) == SelectInSeq(s, LAMBDA y : y = x) - 1

BitsOf(v, n) == [i \in 1 .. n |-> (v \div 2 ^ (n - i)) % 2]

-----------------------------------------------------------------------------
(* The last column of the sorted rotations, and where the block is.        *)

Rotation(b, i) == SubSeq(b, i + 1, Len(b)) \o SubSeq(b, 1, i)

Precedes(s, t) ==
  \E k \in DOMAIN s : s[k] < t[k] /\ \A j \in 1 .. k - 1 : s[j] = t[j]

Rotations(b) ==
  SortSeq([i \in DOMAIN b |-> i - 1],
          LAMBDA i, j : Precedes(Rotation(b, i), Rotation(b, j)))

LastColumn(b) ==
  LET order == Rotations(b) IN [k \in DOMAIN b |-> Last(Rotation(b, order[k]))]

OrigPtr(b) == Position(0, Rotations(b))

-----------------------------------------------------------------------------
(* Symbols: the rank of each byte in the list of recent ones, runs of the  *)
(* first rank as numbers in the digits 1 and 2, and the end of the block.  *)

Used(b) == SelectSeq([i \in 1 .. 256 |-> i - 1], LAMBDA c : c \in ToSet(b))

RunDigits(n) ==
  LET digits[k \in 0 .. n] ==
        IF k = 0 THEN <<>> ELSE <<(k + 1) % 2>> \o digits[(k - 1) \div 2]
  IN  digits[n]

AddRank(s, c) ==
  LET rank == Position(c, s.recent)
  IN  IF rank = 0
        THEN [s EXCEPT !.run = @ + 1]
        ELSE [recent |-> <<c>> \o RemoveAt(s.recent, rank + 1), run |-> 0,
              symbols |-> s.symbols \o RunDigits(s.run) \o <<rank + 1>>]

SymbolsOf(b) ==
  LET all == FoldLeft(AddRank, [recent |-> Used(b), run |-> 0, symbols |-> <<>>],
                      LastColumn(b))
  IN  all.symbols \o RunDigits(all.run) \o <<Len(Used(b)) + 1>>

-----------------------------------------------------------------------------
(* Codes: lengths for n symbols, even or falling towards the last symbol;  *)
(* shorter codes first, symbols of a length in order.                      *)

EvenLengths(n) ==
  LET bits == CHOOSE k \in 1 .. 9 : 2 ^ k >= n /\ 2 ^ (k - 1) < n
  IN  [s \in 0 .. n - 1 |-> IF s < 2 ^ bits - n THEN bits - 1 ELSE bits]

FallingLengths(n) == [s \in 0 .. n - 1 |-> IF s = 0 THEN n - 1 ELSE n - s]

LengthsOf(n) == <<EvenLengths(n), FallingLengths(n), EvenLengths(n)>>

CodeOf(lengths, s) ==
  LET before == {t \in DOMAIN lengths :
                   \/ lengths[t] < lengths[s]
                   \/ lengths[t] = lengths[s] /\ t < s}
  IN  BitsOf(MapThenSumSet(LAMBDA t : 2 ^ (lengths[s] - lengths[t]), before), lengths[s])

LengthBits(lengths) ==
  LET from(s) == IF s = 0 THEN lengths[0] ELSE lengths[s - 1]
      Steps(s) ==
        LET d == lengths[s] - from(s)
        IN  IF d >= 0 THEN [i \in 1 .. 2 * d |-> i % 2] ELSE [i \in 1 .. -2 * d |-> 1]
  IN  BitsOf(lengths[0], 5)
        \o FlattenSeq([i \in 1 .. Cardinality(DOMAIN lengths) |-> Steps(i - 1) \o <<0>>])

-----------------------------------------------------------------------------

MapBits(b) ==
  LET In(S)  == [i \in 1 .. 16 |-> IF \E c \in S : c % 16 = i - 1 THEN 1 ELSE 0]
      groups == {c \div 16 : c \in ToSet(b)}
  IN  In(groups)
        \o FlattenSeq([g \in 1 .. 16 |->
             IF g - 1 \in groups THEN In({c \in ToSet(b) : c \div 16 = g - 1}) ELSE <<>>])

(* Which table each group of symbols is coded with.                        *)
TableOf(group) == (group * group + 1) % 3

(* Their numbers, each as its rank among the tables used lately.           *)
SelectorBits(n) ==
  LET Add(s, t) ==
        LET rank == Position(t, s.recent)
        IN  [recent |-> <<t>> \o RemoveAt(s.recent, rank + 1),
             bits   |-> s.bits \o [i \in 1 .. rank |-> 1] \o <<0>>]
  IN  FoldLeft(Add, [recent |-> <<0, 1, 2>>, bits |-> <<>>],
               [g \in 1 .. n |-> TableOf(g)]).bits

PayloadBits(b, layout) ==
  LET symbols == SymbolsOf(b)
      tables  == LengthsOf(Len(Used(b)) + 2)
      GroupOf(i) == (i + BZ_G_SIZE - 1) \div BZ_G_SIZE
      groups  == GroupOf(Len(symbols))
  IN  (IF layout = "Nsis1" THEN <<0>> ELSE <<>>)
        \o BitsOf(OrigPtr(b), 24) \o MapBits(b)
        \o BitsOf(3, 3) \o BitsOf(groups, 15) \o SelectorBits(groups)
        \o FlattenSeq([t \in 1 .. 3 |-> LengthBits(tables[t])])
        \o FlattenSeq([i \in DOMAIN symbols |->
             CodeOf(tables[TableOf(GroupOf(i)) + 1], symbols[i])])

BlockBits(b, layout) == BitsOf(49, 8) \o PayloadBits(b, layout)

(* What follows the blocks: the end marker, nothing, another byte, or a    *)
(* block that is cut short.                                                *)
TailBits(w) ==
  CASE w.tail = "end"       -> BitsOf(23, 8)
    [] w.tail = "missing"   -> <<>>
    [] w.tail = "garbage"   -> BitsOf(0, 8)
    [] w.tail = "bad block" -> SubSeq(BlockBits(<<0>>, w.layout), 1, 72)

(* The bits of a stream, filled up to a whole byte.                        *)
PackedBits(w) ==
  LET bits == FlattenSeq([i \in DOMAIN w.blocks |-> BlockBits(w.blocks[i], w.layout)])
                \o TailBits(w)
  IN  bits \o [i \in 1 .. (8 - (Len(bits) % 8)) % 8 |-> 0]
================================================================================
