------------------------------- MODULE Bzip2Block -------------------------------
(***************************************************************************)
(* decompress/bzip2.rs, what comes before the run-length stage: the bit    *)
(* reader, the header bytes, and in decompress_block the origin, the map   *)
(* of bytes in use, the selectors, the coding tables, the symbols, moving  *)
(* to front and the inverse BWT.  These stages write no output, and fail   *)
(* or yield the bytes of a block, so they are operators on a reader.       *)
(*                                                                         *)
(* A reader is the bits, the place of the next one, the value read last    *)
(* (`got`), and whether nothing has failed.  All errors are one.  A panic  *)
(* is an error too: catch_unwind makes it one.                             *)
(***************************************************************************)
EXTENDS Integers, Sequences, SequencesExt, FiniteSets, FiniteSetsExt, TLC

CONSTANTS
  BZ_G_SIZE,     (* Symbols per selector, 50 in the code.                  *)
  MTFA_SIZE      (* Places of the array of recent bytes, 4096 in the code. *)

BLOCK_SIZE       == 900000
BZ_MAX_SELECTORS == 18002
MTFL_SIZE        == 16
BZ_RUNA          == 0
BZ_RUNB          == 1

Reader(bits) == [bits |-> bits, pos |-> 1, got |-> 0, ok |-> TRUE]
fail(r)      == [r EXCEPT !.ok = FALSE]
Has(r, n)    == r.ok /\ r.pos + n <= Len(r.bits) + 1

Number(r, n) ==
  LET value[k \in 0 .. n] == IF k = 0 THEN 0 ELSE 2 * value[k - 1] + r.bits[r.pos + k - 1]
  IN  value[n]

get_bits(r, n) ==
  IF Has(r, n) THEN [r EXCEPT !.pos = @ + n, !.got = Number(r, n)] ELSE fail(r)

(* n bits read one by one, as the set of those that are 1.                 *)
get_flags(r, n) ==
  IF Has(r, n)
    THEN [r EXCEPT !.pos = @ + n, !.got = {i \in 0 .. n - 1 : r.bits[r.pos + i] = 1}]
    ELSE fail(r)

(* What n uses of Step get, one after the other.                           *)
Collect(Step(_), r, n) ==
  LET Use(s, i) == LET next == Step(s.r) IN [r |-> next, got |-> Append(s.got, next.got)]
      used      == FoldLeft(Use, [r |-> r, got |-> <<>>], [i \in 1 .. n |-> i])
  IN  [used.r EXCEPT !.got = used.got]

-----------------------------------------------------------------------------

(* The randomised flag, where the layout has one, and the 24 bits that say *)
(* where the block is among its rotations.                                 *)
read_origin(r, layout) ==
  LET flag   == IF layout = "Nsis1" THEN get_bits(r, 1) ELSE [r EXCEPT !.got = 0]
      origin == get_bits(flag, 24)
  IN  IF flag.got = 1 \/ origin.got > 10 + BLOCK_SIZE THEN fail(origin) ELSE origin

(* seq_to_unseq: 16 bits for groups of 16 bytes, 16 more for each of those *)
(* in use.                                                                 *)
read_map(r) ==
  LET in_use16 == get_flags(r, 16)
      groups   == in_use16.got
      Rank(g)  == Cardinality({h \in groups : h < g})
      members  == get_flags(in_use16, 16 * Cardinality(groups))
      InUse(c) == c \div 16 \in groups /\ 16 * Rank(c \div 16) + (c % 16) \in members.got
  IN  IF ~members.ok THEN members
      ELSE IF members.got = {} THEN fail(members)
      ELSE [members EXCEPT !.got = SelectSeq([i \in 1 .. 256 |-> i - 1], InUse)]

MoveToFront(s, i) == <<s[i]>> \o RemoveAt(s, i)

(* The selectors: each is the number of ones before a zero, a place in the *)
(* list of tables used lately.  Each takes a bit at least.                 *)
read_selectors(r, n_groups, n_selectors) ==
  LET Ones(s) == CHOOSE k \in 0 .. n_groups :
                   /\ k < n_groups => s.bits[s.pos + k] = 0
                   /\ \A i \in 0 .. k - 1 : s.bits[s.pos + i] = 1
      ReadOne(s) == IF ~Has(s, n_groups) THEN fail(s)
                    ELSE IF Ones(s) = n_groups THEN fail(s)
                    ELSE [s EXCEPT !.pos = @ + Ones(s) + 1, !.got = Ones(s)]
      selector_mtf == Collect(ReadOne, r, n_selectors)
      order[i \in 0 .. n_selectors] ==
        IF i = 0 THEN [t \in 1 .. n_groups |-> t]
        ELSE MoveToFront(order[i - 1], selector_mtf.got[i] + 1)
  IN  IF ~Has(r, n_selectors) THEN fail(r)
      ELSE IF ~selector_mtf.ok THEN selector_mtf
      ELSE [selector_mtf EXCEPT !.got = [i \in 1 .. n_selectors |-> order[i][1]]]

(* One code length: it is the last one, stepped up or down until a zero.   *)
RECURSIVE read_length(_)
read_length(r) ==
  LET more == get_bits(r, 1)
      down == get_bits(more, 1)
  IN  IF ~more.ok THEN more
      ELSE IF r.got \notin 1 .. 20 THEN fail(r)
      ELSE IF more.got = 0 THEN [more EXCEPT !.got = r.got]
      ELSE read_length([down EXCEPT !.got = r.got + 1 - 2 * @])

(* The tables, each a sequence of code lengths of alpha_size symbols.      *)
read_tables(r, n_groups, alpha_size) ==
  LET ReadTable(s) == Collect(read_length, get_bits(s, 5), alpha_size)
  IN  Collect(ReadTable, r, n_groups)

(* The k-th code of n bits in order of length stands for perm[k].  limit   *)
(* has the last code of each length, base what to take from a code for its *)
(* place in perm.                                                          *)
create_decode_tables(length) ==
  LET symbols    == [i \in DOMAIN length |-> i - 1]
      min_len    == Min(ToSet(length))
      max_len    == Max(ToSet(length))
      OfLength(l) == SelectSeq(symbols, LAMBDA s : length[s + 1] = l)
      vec[l \in min_len .. max_len] ==
        (IF l = min_len THEN 0 ELSE 2 * vec[l - 1]) + Len(OfLength(l))
      Shorter(l) == Cardinality({s \in ToSet(symbols) : length[s + 1] < l})
  IN  [min_len |-> min_len, max_len |-> max_len,
       perm    |-> FlattenSeq([i \in 1 .. max_len - min_len + 1 |->
                                 OfLength(min_len + i - 1)]),
       limit   |-> [l \in min_len .. max_len |-> vec[l] - 1],
       base    |-> [l \in min_len .. max_len |->
                      IF l = min_len THEN 0 ELSE 2 * vec[l - 1] - Shorter(l)]]

(* Symbol k of a block: the shortest code that does not pass the limit of  *)
(* its length.  Beyond the longest length none does, until 20 bits are     *)
(* read.  Places of perm without a symbol hold 0.                          *)
get_mtf_val(r, huff, k) ==
  LET group == k \div BZ_G_SIZE + 1
      t     == huff.tables[huff.selector[group]]
      fits  == {zn \in t.min_len .. t.max_len :
                  Has(r, zn) /\ Number(r, zn) <= t.limit[zn]}
      code  == get_bits(r, Min(fits))
      place == code.got - t.base[Min(fits)]
  IN  IF group > Len(huff.selector) THEN fail(r)
      ELSE IF fits = {} THEN fail(r)
      ELSE IF place \notin 0 .. 257 THEN fail(r)
      ELSE [code EXCEPT !.got = IF place < Len(t.perm) THEN t.perm[place + 1] ELSE 0]

RECURSIVE symbols_from(_, _, _, _)
symbols_from(r, huff, eob, read) ==
  LET next == get_mtf_val(r, huff, Len(read))
  IN  IF ~next.ok THEN next
      ELSE IF next.got = eob THEN [next EXCEPT !.got = read]
      ELSE symbols_from(next, huff, eob, Append(read, next.got))

read_symbols(r, huff, eob) == symbols_from(r, huff, eob, <<>>)

-----------------------------------------------------------------------------
(* The list of recent bytes: lists of 16 in one array, so that a move      *)
(* between lists shifts one place of each and not the whole array.         *)

Top == MTFA_SIZE - 256

Recent ==
  [mtfa    |-> [p \in 0 .. MTFA_SIZE - 1 |-> IF p < Top THEN 0 ELSE p - Top],
   mtfbase |-> [l \in 0 .. 15 |-> Top + MTFL_SIZE * l]]

(* The byte at a rank of the whole list.                                   *)
AtRank(m, nn) == m.mtfa[m.mtfbase[nn \div MTFL_SIZE] + (nn % MTFL_SIZE)]

(* Mutant: the lists are moved, their bytes are not.                       *)
RecompactedInPlace(m) == [m EXCEPT !.mtfbase = Recent.mtfbase]

Recompacted(m) ==
  [mtfa    |-> [p \in DOMAIN m.mtfa |->
                  IF p < Top THEN m.mtfa[p]
                  ELSE AtRank(m, p - Top)],
   mtfbase |-> Recent.mtfbase]

(* mtf_decode, within the first list.                                      *)
MoveWithin(m, nn) ==
  [m EXCEPT !.mtfa =
     [p \in DOMAIN @ |-> IF p = m.mtfbase[0] THEN AtRank(m, nn)
                         ELSE IF p \in m.mtfbase[0] + 1 .. m.mtfbase[0] + nn THEN @[p - 1]
                         ELSE @[p]]]

(* mtf_decode, from list lno: each list before it starts one place earlier *)
(* and gives its last byte to the next.                                    *)
MoveBetween(m, nn) ==
  LET lno   == nn \div MTFL_SIZE
      base  == [l \in 0 .. 15 |-> m.mtfbase[l] - (IF l < lno THEN 1 ELSE 0)]
      Starts(p) == \E l \in 1 .. lno : p = base[l]
      ListAt(p) == CHOOSE l \in 1 .. lno : p = base[l]
      moved == [mtfbase |-> base,
                mtfa |-> [p \in DOMAIN m.mtfa |->
                  IF p = base[0] THEN AtRank(m, nn)
                  ELSE IF Starts(p) THEN m.mtfa[m.mtfbase[ListAt(p) - 1] + MTFL_SIZE - 1]
                  ELSE IF p \in base[lno] + 1 .. base[lno] + (nn % MTFL_SIZE)
                    THEN m.mtfa[p - 1]
                  ELSE m.mtfa[p]]]
  IN  IF base[0] = 0 THEN Recompacted(moved) ELSE moved

mtf_decode(m, nn) == IF nn < MTFL_SIZE THEN MoveWithin(m, nn) ELSE MoveBetween(m, nn)

-----------------------------------------------------------------------------
(* The last column: runs of the first byte of the list, which BZ_RUNA and  *)
(* BZ_RUNB count in base two, and moves of others to its front.            *)

EndRun(s, seq_to_unseq) ==
  IF Len(s.tt) + s.run > BLOCK_SIZE
    THEN [s EXCEPT !.ok = FALSE]
    ELSE [s EXCEPT !.run = 0, !.power = 1,
            !.tt = @ \o [i \in 1 .. s.run |-> seq_to_unseq[AtRank(s.recent, 0) + 1]]]

AddSymbol(s, sym, seq_to_unseq) ==
  LET ended  == EndRun(s, seq_to_unseq)
      recent == mtf_decode(s.recent, sym - 1)
  IN  IF ~s.ok \/ s.run > BLOCK_SIZE THEN [s EXCEPT !.ok = FALSE]
      ELSE IF sym \in {BZ_RUNA, BZ_RUNB}
        THEN [s EXCEPT !.run = @ + (sym + 1) * s.power, !.power = 2 * @]
      ELSE IF ~ended.ok \/ Len(ended.tt) >= BLOCK_SIZE THEN [s EXCEPT !.ok = FALSE]
      ELSE [ended EXCEPT !.recent = recent,
              !.tt = Append(@, seq_to_unseq[AtRank(recent, 0) + 1])]

last_column(symbols, seq_to_unseq) ==
  LET upTo[k \in 0 .. Len(symbols)] ==
        IF k = 0
        THEN [ok |-> TRUE, tt |-> <<>>, run |-> 0, power |-> 1, recent |-> Recent]
        ELSE AddSymbol(upTo[k - 1], symbols[k], seq_to_unseq)
      all == upTo[Len(symbols)]
  IN  IF all.ok THEN EndRun(all, seq_to_unseq) ELSE all

(* The bytes in the order of the block.  T is tt >> 8: the places of the   *)
(* column sorted by their bytes.                                           *)
invert(tt, orig_ptr) ==
  LET T == SortSeq([i \in DOMAIN tt |-> i - 1],
             LAMBDA i, j : tt[i + 1] < tt[j + 1] \/ (tt[i + 1] = tt[j + 1] /\ i < j))
      t_pos[k \in 0 .. Len(tt)] ==
        IF k = 0 THEN T[orig_ptr + 1] ELSE T[t_pos[k - 1] + 1]
  IN  [k \in DOMAIN tt |-> tt[t_pos[k - 1] + 1]]

-----------------------------------------------------------------------------

(* One block behind its header byte: `got` is its bytes.                   *)
read_block(r, layout) ==
  LET origin      == read_origin(r, layout)
      map         == read_map(origin)
      n_groups    == get_bits(map, 3)
      n_selectors == get_bits(n_groups, 15)
      selector    == read_selectors(n_selectors, n_groups.got, n_selectors.got)
      tables      == read_tables(selector, n_groups.got, Len(map.got) + 2)
      huff        == [selector |-> selector.got,
                      tables   |-> [t \in 1 .. n_groups.got |->
                                      create_decode_tables(tables.got[t])]]
      symbols     == read_symbols(tables, huff, Len(map.got) + 1)
      column      == last_column(symbols.got, map.got)
  IN  IF ~n_selectors.ok THEN fail(r)
      ELSE IF n_groups.got \notin 2 .. 6 THEN fail(r)
      ELSE IF n_selectors.got \notin 1 .. BZ_MAX_SELECTORS THEN fail(r)
      ELSE IF ~tables.ok THEN fail(r)
      ELSE IF ~symbols.ok THEN fail(r)
      ELSE IF ~column.ok \/ origin.got >= Len(column.tt) THEN fail(r)
      ELSE [symbols EXCEPT !.got = invert(column.tt, origin.got)]

(* The blocks of a stream and what follows them, under a layout.           *)
RECURSIVE read_stream_from(_, _, _)
read_stream_from(r, layout, blocks) ==
  LET header == get_bits(r, 8)
      block  == read_block(header, layout)
      Ends(tail) == [blocks |-> blocks, tail |-> tail]
  IN  IF ~header.ok THEN Ends("missing")
      ELSE IF header.got = 23 THEN Ends("end")
      ELSE IF header.got # 49 THEN Ends("garbage")
      ELSE IF ~block.ok THEN Ends("bad block")
      ELSE read_stream_from(block, layout, Append(blocks, block.got))

read_stream(bits, layout) == read_stream_from(Reader(bits), layout, <<>>)
================================================================================
