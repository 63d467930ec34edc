------------------------------ MODULE Bzip2Rle --------------------------------
(***************************************************************************)
(* decompress/bzip2.rs: the loop over the blocks of a stream and the       *)
(* run-length stage of decompress_block, which writes the output under a   *)
(* limit.  A block is taken from where its bytes come out of the inverse   *)
(* BWT: the Huffman, MTF and BWT stages either yield a nonempty sequence   *)
(* of bytes or fail before anything is written (the code requires orig_ptr *)
(* < nblock).  One action is one turn of the loop of decompress_block.     *)
(*                                                                         *)
(* The code keeps the byte it has fetched last in k0.  While k0_pending it *)
(* is byte nblock_used of the block, so k0 is no variable here.            *)
(***************************************************************************)
EXTENDS Integers, Sequences

CONSTANTS
  Streams,     (* The compressed streams.                                  *)
  Limits       (* The limits they are decoded under.                       *)

Byte == 0 .. 255

(* What follows the blocks: the end marker 0x17, nothing, a header byte    *)
(* that is neither, or a block that does not decode.                       *)
Tails == {"end", "missing", "garbage", "bad block"}

IsBlock(b)  == b \in Seq(Byte) /\ b # <<>>
IsStream(s) ==
  /\ s.blocks \in Seq(Seq(Byte))
  /\ \A i \in DOMAIN s.blocks : IsBlock(s.blocks[i])
  /\ s.tail \in Tails

DecodeLimit == [kind : {"Exact", "Truncate", "Capped"}, size : Nat]

ASSUME StreamsAssumption == \A s \in Streams : IsStream(s)
ASSUME LimitsAssumption  == Limits \subseteq DecodeLimit

VARIABLES
  stream,        (* The input; never changes.                              *)
  limit,         (* The limit; never changes.                              *)
  pc,            (* Where the decoder is.                                  *)
  current,       (* The block being decoded, or decoded next.              *)
  nblock_used,   (* Bytes of the block consumed.                           *)
  k0_pending,    (* Whether the last of them is data still to be emitted.  *)
  state_out_ch,  (* The byte of the run being emitted,                     *)
  state_out_len, (* and how many of it are still to be emitted.            *)
  stopped,       (* stopped_at_cap.                                        *)
  output,        (* The bytes decoded so far.                              *)
  truncated      (* Decoded::truncated.                                    *)

input    == <<stream, limit>>
runVars  == <<nblock_used, k0_pending, state_out_ch, state_out_len>>
vars     == <<input, pc, current, runVars, stopped, output, truncated>>

(* Mutant: the byte past a cap is not decoded.                             *)
ceiling_at_cap == limit.size

(* One byte past a cap shows that a stream is larger than it.              *)
ceiling == IF limit.kind = "Capped" THEN limit.size + 1 ELSE limit.size

block  == stream.blocks[current]
nblock == Len(block)

Lesser(a, b) == IF a < b THEN a ELSE b
Copies(c, n) == [i \in 1 .. n |-> c]
Room         == ceiling - Len(output)
IsFull       == Len(output) >= ceiling

(* Mutant: a run is emitted whole.                                         *)
EmitUncapped(c, n) == output' = output \o Copies(c, n)

(* As many of n copies of c as there is room for.                          *)
Emit(c, n) == output' = output \o Copies(c, Lesser(n, Room))

-----------------------------------------------------------------------------

(* The decoder is at the first header byte.                                *)
AtStart ==
  /\ pc = "header" /\ current = 1
  /\ nblock_used = 0 /\ k0_pending = FALSE
  /\ state_out_ch = 0 /\ state_out_len = 0
  /\ stopped = FALSE /\ output = <<>> /\ truncated = FALSE

Init == stream \in Streams /\ limit \in Limits /\ AtStart

StartBlock ==
  /\ pc = "header" /\ current <= Len(stream.blocks)
  /\ nblock_used' = 1 /\ k0_pending' = TRUE
  /\ state_out_ch' = 0 /\ state_out_len' = 0
  /\ pc' = "block"
  /\ UNCHANGED <<input, current, stopped, output, truncated>>

EndOfStream ==
  /\ pc = "header" /\ current > Len(stream.blocks) /\ stream.tail = "end"
  /\ pc' = "done"
  /\ UNCHANGED <<input, current, runVars, stopped, output, truncated>>

(* No header byte, a bad one, or a block that does not decode: Err.        *)
FailStream ==
  /\ pc = "header" /\ current > Len(stream.blocks) /\ stream.tail # "end"
  /\ pc' = "failed"
  /\ UNCHANGED <<input, current, runVars, stopped, output, truncated>>

-----------------------------------------------------------------------------

(* decompress_block returns.                                               *)
ReturnBlock(stop) == pc' = "returned" /\ stopped' = stop

StopForRoom ==
  /\ pc = "block" /\ IsFull
  /\ ReturnBlock(TRUE)
  /\ UNCHANGED <<input, current, runVars, output, truncated>>

EmitRun ==
  /\ pc = "block" /\ ~IsFull /\ state_out_len > 0
  /\ Emit(state_out_ch, state_out_len)
  /\ state_out_len' = state_out_len - Lesser(state_out_len, Room)
  /\ IF state_out_len' > 0 \/ Len(output') >= ceiling
       THEN ReturnBlock(TRUE)
       ELSE UNCHANGED <<pc, stopped>>
  /\ UNCHANGED <<input, current, nblock_used, k0_pending, state_out_ch, truncated>>

(* The next run can begin: nothing is pending and there is room.           *)
BetweenRuns == pc = "block" /\ ~IsFull /\ state_out_len = 0

(* Mutant: the loop goes on after a final repeat count.                    *)
EndAfterCountSpins == BetweenRuns /\ ~k0_pending /\ UNCHANGED vars

(* The last byte was a repeat count: it is no data.                        *)
EndAfterCount ==
  /\ BetweenRuns /\ ~k0_pending
  /\ ReturnBlock(FALSE)
  /\ UNCHANGED <<input, current, runVars, output, truncated>>

(* Counting ahead from k0 sees `count` equal bytes, up to four.            *)
RunOf(count) ==
  /\ nblock_used + count - 1 <= nblock
  /\ \A i \in nblock_used .. nblock_used + count - 1 : block[i] = block[nblock_used]

(* One to three equal bytes and then another one.                          *)
ShortRun(count) ==
  /\ BetweenRuns /\ k0_pending
  /\ RunOf(count) /\ nblock_used + count <= nblock /\ ~RunOf(count + 1)
  /\ state_out_ch' = block[nblock_used]
  /\ Emit(block[nblock_used], count)
  /\ nblock_used' = nblock_used + count
  /\ UNCHANGED <<input, pc, current, k0_pending, state_out_len, stopped, truncated>>

(* Mutant: the run is one short.                                           *)
RepeatOneShort ==
  /\ BetweenRuns /\ k0_pending
  /\ RunOf(4) /\ nblock_used + 4 <= nblock
  /\ state_out_ch' = block[nblock_used]
  /\ state_out_len' = block[nblock_used + 4] + 3
  /\ nblock_used' = Lesser(nblock_used + 5, nblock)
  /\ k0_pending' = (nblock_used + 5 <= nblock)
  /\ UNCHANGED <<input, pc, current, stopped, output, truncated>>

(* Four equal bytes and the count of further ones.                         *)
Repeat ==
  /\ BetweenRuns /\ k0_pending
  /\ RunOf(4) /\ nblock_used + 4 <= nblock
  /\ state_out_ch' = block[nblock_used]
  /\ state_out_len' = block[nblock_used + 4] + 4
  /\ nblock_used' = Lesser(nblock_used + 5, nblock)
  /\ k0_pending' = (nblock_used + 5 <= nblock)
  /\ UNCHANGED <<input, pc, current, stopped, output, truncated>>

(* The block ends within the run: what there is room for is emitted.       *)
EndInRun(count) ==
  /\ BetweenRuns /\ k0_pending
  /\ RunOf(count) /\ nblock_used + count - 1 = nblock
  /\ state_out_ch' = block[nblock_used]
  /\ Emit(block[nblock_used], count)
  /\ nblock_used' = nblock
  /\ ReturnBlock(FALSE)
  /\ UNCHANGED <<input, current, k0_pending, state_out_len, truncated>>

-----------------------------------------------------------------------------

(* Mutant: the limit is not looked at between blocks.                      *)
NextBlockAlways ==
  /\ pc = "returned"
  /\ current' = current + 1
  /\ pc' = "header"
  /\ UNCHANGED <<input, runVars, stopped, output, truncated>>

NextBlock ==
  /\ pc = "returned" /\ ~IsFull
  /\ current' = current + 1
  /\ pc' = "header"
  /\ UNCHANGED <<input, runVars, stopped, output, truncated>>

(* The next header byte exists and is not the end marker.                  *)
MoreFollows ==
  current < Len(stream.blocks) \/ stream.tail \in {"garbage", "bad block"}

StopAtLimit ==
  /\ pc = "returned" /\ IsFull /\ limit.kind \in {"Exact", "Truncate"}
  /\ truncated' = (stopped \/ MoreFollows)
  /\ pc' = "done"
  /\ UNCHANGED <<input, current, runVars, stopped, output>>

RefuseTooLarge ==
  /\ pc = "returned" /\ IsFull /\ limit.kind = "Capped"
  /\ pc' = "too large"
  /\ UNCHANGED <<input, current, runVars, stopped, output, truncated>>

Terminated == pc \in {"done", "failed", "too large"}

Finished == Terminated /\ UNCHANGED vars

decompress_block ==
  \/ StartBlock
  \/ StopForRoom \/ EmitRun \/ EndAfterCount
  \/ \E count \in 1 .. 3 : ShortRun(count)
  \/ Repeat
  \/ \E count \in 1 .. 4 : EndInRun(count)

Next ==
  \/ EndOfStream \/ FailStream
  \/ decompress_block
  \/ NextBlock \/ StopAtLimit \/ RefuseTooLarge
  \/ Finished

(* decompress_bzip2 is one call on one thread: it runs until it returns.   *)
Spec == Init /\ [][Next]_vars /\ WF_vars(Next)

-----------------------------------------------------------------------------
(* Reference: the format read one byte at a time.  Four equal bytes in a   *)
(* row are followed by the number of further copies; after that number a   *)
(* new row begins.                                                         *)

Read(s, c) ==
  IF s.row = 4
    THEN [out |-> s.out \o Copies(s.last, c), row |-> 0, last |-> s.last]
    ELSE [out |-> Append(s.out, c),
          row |-> IF s.row > 0 /\ s.last = c THEN s.row + 1 ELSE 1,
          last |-> c]

(* What the first n bytes of block b say.                                  *)
ReadUpTo(b) ==
  LET read[n \in 0 .. Len(b)] ==
        IF n = 0 THEN [out |-> <<>>, row |-> 0, last |-> 0]
                 ELSE Read(read[n - 1], b[n])
  IN  read

Unpacked(b) == ReadUpTo(b)[Len(b)].out

(* What the first n of the blocks bs say.                                  *)
Joined(bs) ==
  LET joined[n \in 0 .. Len(bs)] ==
        IF n = 0 THEN <<>> ELSE joined[n - 1] \o Unpacked(bs[n])
  IN  joined

Whole == Joined(stream.blocks)[Len(stream.blocks)]

-----------------------------------------------------------------------------
(* Properties.                                                             *)

(* The types of the variables; the decoder never consumes more than its    *)
(* block and never writes past the ceiling.                                *)
TypeOK ==
  /\ stream \in Streams /\ limit \in Limits
  /\ pc \in {"header", "block", "returned", "done", "failed", "too large"}
  /\ current \in 1 .. Len(stream.blocks) + 1
  /\ pc \in {"block", "returned"} => current <= Len(stream.blocks)
  /\ pc = "block" => nblock_used \in 1 .. nblock
  /\ k0_pending \in BOOLEAN /\ stopped \in BOOLEAN /\ truncated \in BOOLEAN
  /\ state_out_ch \in Byte /\ state_out_len \in 0 .. 259
  /\ output \in Seq(Byte) /\ Len(output) <= ceiling

(* A decode that succeeds has every byte of the stream, up to the limit.   *)
NothingIsMissing ==
  pc = "done" => output = SubSeq(Whole, 1, Lesser(limit.size, Len(Whole)))

(* What is returned fits the limit, and what is refused did not: the byte  *)
(* decoded past a cap never reaches the caller.                            *)
ResultFitsTheLimit ==
  /\ pc = "done" => Len(output) <= limit.size
  /\ pc = "too large" => Len(output) > limit.size

(* A cap is an error exactly when the blocks hold more than it, and then   *)
(* even if the stream is damaged further on.                               *)
CapRefusesExcess ==
  Terminated =>
    (pc = "too large" <=> limit.kind = "Capped" /\ Len(Whole) > limit.size)

(* Damage behind the bytes that were asked for is never looked at.         *)
DamageBehindTheLimitIsIgnored ==
  pc = "failed" => stream.blocks = <<>> \/ Len(Whole) < ceiling
===============================================================================
