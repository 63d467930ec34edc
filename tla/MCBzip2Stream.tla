----------------------------- MODULE MCBzip2Stream -----------------------------
(* Small streams for Bzip2Stream: short blocks of two byte values, which    *)
(* are data and repeat counts alike, and blocks of many values, which move  *)
(* bytes between the lists of recent ones.                                  *)
EXTENDS Bzip2Stream

CONSTANTS
  Symbols,       (* The bytes of the short blocks.                         *)
  MaxBlock,      (* The longest of them,                                   *)
  MaxFirst,      (* and, where there are two, the longest first one        *)
  MaxSecond,     (* and second one.                                        *)
  MaxSize        (* The largest limit.                                     *)

Blocks(n) == UNION {[1 .. k -> Symbols] : k \in 1 .. n}

(* n bytes of 19 values, all over the range.                               *)
WideBlock(n) == [i \in 1 .. n |-> 13 * ((7 * i) % 19)]

SmallBlocks ==
  {<<>>} \cup {<<b>> : b \in Blocks(MaxBlock)} \cup {<<WideBlock(n)>> : n \in 18 .. 24}
    \cup {<<a, b>> : a \in Blocks(MaxFirst), b \in Blocks(MaxSecond)}

SmallWritten == [blocks : SmallBlocks, tail : Tails, layout : BlockLayout]

(* What Bzip2Rle gets to see of them.                                       *)
SmallStreams == [blocks : SmallBlocks, tail : Tails]

SmallLimits ==
  [kind : {"Exact", "Truncate", "Capped"}, size : 0 .. MaxSize \cup {100}]
===============================================================================
