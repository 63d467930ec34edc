---------------------------- MODULE Bzip2RleProofs ----------------------------
(* Whatever the streams and the limits: the decoder stays within its block  *)
(* and under its ceiling, and what it returns is what the blocks say, byte  *)
(* for byte, up to the limit.                                               *)
EXTENDS Bzip2Rle, WellFoundedInduction, TLAPS

LEMMA LesserBounds ==
  ASSUME NEW a \in Nat, NEW b \in Nat
  PROVE  Lesser(a, b) \in Nat /\ Lesser(a, b) <= a /\ Lesser(a, b) <= b
  BY DEF Lesser

LEMMA CopiesType ==
  ASSUME NEW c \in Byte, NEW n \in Nat
  PROVE  Copies(c, n) \in Seq(Byte) /\ Len(Copies(c, n)) = n
  BY DEF Copies

LEMMA CeilingType ==
  ASSUME TypeOK
  PROVE  ceiling \in Nat
<1>1. limit \in DecodeLimit
  BY LimitsAssumption DEF TypeOK
<1>2. limit.size \in Nat
  BY <1>1 DEF DecodeLimit
<1> QED
  BY <1>2 DEF ceiling

(* Emitting appends bytes and stops at the ceiling.                         *)
LEMMA EmitStaysBelow ==
  ASSUME TypeOK, limit' = limit, NEW c \in Byte, NEW n \in Nat, Emit(c, n)
  PROVE  /\ output' \in Seq(Byte)
         /\ Len(output') <= ceiling
         /\ ceiling' = ceiling
<1>1. ceiling \in Nat /\ output \in Seq(Byte) /\ Len(output) <= ceiling
  BY CeilingType DEF TypeOK
<1>2. Room \in Nat
  BY <1>1 DEF Room
<1> DEFINE m == Lesser(n, Room)
<1>3. m \in Nat /\ m <= Room
  BY <1>2, LesserBounds
<1>4. Copies(c, m) \in Seq(Byte) /\ Len(Copies(c, m)) = m
  BY <1>3, CopiesType
<1>5. output' = output \o Copies(c, m)
  BY DEF Emit
<1>6. ceiling' = ceiling
  BY DEF ceiling
<1> HIDE DEF m
<1> QED
  BY <1>1, <1>3, <1>4, <1>5, <1>6 DEF Room

(* A block that is being decoded is a nonempty sequence of bytes.           *)
LEMMA BlockType ==
  ASSUME TypeOK, current <= Len(stream.blocks)
  PROVE  /\ block \in Seq(Byte) /\ nblock \in Nat /\ nblock >= 1
         /\ \A i \in 1 .. nblock : block[i] \in Byte
<1>1. IsStream(stream)
  BY StreamsAssumption DEF TypeOK
<1>2. current \in DOMAIN stream.blocks
  <2>1. current \in Int /\ current >= 1
    <3>1. current \in 1 .. Len(stream.blocks) + 1
      BY DEF TypeOK
    <3>2. Len(stream.blocks) \in Nat
      BY <1>1 DEF IsStream
    <3> QED
      BY <3>1, <3>2
  <2>2. DOMAIN stream.blocks = 1 .. Len(stream.blocks)
    BY <1>1 DEF IsStream
  <2> QED
    BY <2>1, <2>2
<1>3. IsBlock(block)
  BY <1>1, <1>2 DEF IsStream, block
<1> QED
  BY <1>3 DEF IsBlock, nblock

LEMMA InitTypes == Init => TypeOK
<1> SUFFICES ASSUME Init PROVE TypeOK
  OBVIOUS
<1>1. ceiling \in Nat
  <2>1. limit \in DecodeLimit
    BY LimitsAssumption DEF Init, AtStart
  <2>2. limit.size \in Nat
    BY <2>1 DEF DecodeLimit
  <2> QED
    BY <2>2 DEF ceiling
<1>2. Len(stream.blocks) \in Nat
  <2>1. IsStream(stream)
    BY StreamsAssumption DEF Init, AtStart
  <2> QED
    BY <2>1 DEF IsStream
<1>3. 0 \in Byte
  BY DEF Byte
<1>4. output \in Seq(Byte) /\ Len(output) <= ceiling
  BY <1>1 DEF Init, AtStart
<1>5. current \in 1 .. Len(stream.blocks) + 1
  BY <1>2 DEF Init, AtStart
<1>6. state_out_ch \in Byte /\ state_out_len \in 0 .. 259
  BY <1>3 DEF Init, AtStart
<1> QED
  BY <1>4, <1>5, <1>6 DEF Init, AtStart, TypeOK

LEMMA NextTypes ==
  ASSUME TypeOK, [Next]_vars
  PROVE  TypeOK'
<1>1. /\ ceiling \in Nat /\ output \in Seq(Byte) /\ Len(output) <= ceiling
      /\ Len(stream.blocks) \in Nat
      /\ state_out_ch \in Byte /\ state_out_len \in 0 .. 259
      /\ current \in 1 .. Len(stream.blocks) + 1
  <2>1. IsStream(stream)
    BY StreamsAssumption DEF TypeOK
  <2>2. Len(stream.blocks) \in Nat
    BY <2>1 DEF IsStream
  <2> QED
    BY <2>2, CeilingType DEF TypeOK
<1>2. CASE StartBlock
  <2>1. nblock >= 1 /\ nblock \in Nat
    BY <1>2, BlockType DEF StartBlock
  <2> QED
    BY <1>1, <1>2, <2>1
    DEF StartBlock, TypeOK, input, ceiling, nblock, block, Byte
<1>3. CASE EndOfStream \/ FailStream \/ NextBlock \/ StopAtLimit
             \/ RefuseTooLarge
  <2>1. CASE EndOfStream
    BY <1>1, <2>1 DEF EndOfStream, TypeOK, input, runVars, ceiling
  <2>2. CASE FailStream
    BY <1>1, <2>2 DEF FailStream, TypeOK, input, runVars, ceiling
  <2>3. CASE NextBlock
    <3>1. current' \in 1 .. Len(stream.blocks) + 1
      <4>1. current <= Len(stream.blocks) /\ current' = current + 1
        BY <2>3 DEF NextBlock, TypeOK
      <4> QED
        BY <1>1, <4>1
    <3> QED
      BY <1>1, <2>3, <3>1 DEF NextBlock, TypeOK, input, runVars, ceiling
  <2>4. CASE StopAtLimit
    BY <1>1, <2>4 DEF StopAtLimit, MoreFollows, TypeOK, input, runVars, ceiling
  <2>5. CASE RefuseTooLarge
    BY <1>1, <2>5 DEF RefuseTooLarge, TypeOK, input, runVars, ceiling
  <2> QED
    BY <1>3, <2>1, <2>2, <2>3, <2>4, <2>5
<1>4. CASE StopForRoom \/ EndAfterCount
  BY <1>1, <1>4
  DEF StopForRoom, EndAfterCount, BetweenRuns, ReturnBlock, TypeOK, input,
      runVars, ceiling, nblock, block
<1>5. CASE EmitRun
  <2>1. Room \in Nat
    BY <1>1 DEF Room
  <2>2. /\ Lesser(state_out_len, Room) \in Nat
        /\ Lesser(state_out_len, Room) <= state_out_len
    <3>1. state_out_len \in Nat
      BY <1>1
    <3> QED
      BY <2>1, <3>1, LesserBounds
  <2>3. state_out_len' \in 0 .. 259
    <3>1. state_out_len' = state_out_len - Lesser(state_out_len, Room)
      BY <1>5 DEF EmitRun
    <3>2. state_out_len \in 0 .. 259
      BY <1>1
    <3> QED
      BY <2>2, <3>1, <3>2
  <2>4. output' \in Seq(Byte) /\ Len(output') <= ceiling /\ ceiling' = ceiling
    BY <1>1, <1>5, EmitStaysBelow DEF EmitRun, input
  <2> QED
    BY <1>1, <1>5, <2>3, <2>4
    DEF EmitRun, ReturnBlock, TypeOK, input, nblock, block
<1>6. ASSUME NEW count \in 1 .. 4, ShortRun(count) \/ EndInRun(count)
      PROVE  TypeOK'
  <2>1. pc = "block" /\ nblock_used \in 1 .. nblock /\ nblock \in Nat
    BY <1>6, BlockType DEF ShortRun, EndInRun, BetweenRuns, TypeOK
  <2>2. block[nblock_used] \in Byte
    BY <2>1, BlockType DEF TypeOK
  <2>3. output' \in Seq(Byte) /\ Len(output') <= ceiling /\ ceiling' = ceiling
    <3>1. Emit(block[nblock_used], count) /\ limit' = limit
      BY <1>6 DEF ShortRun, EndInRun, input
    <3>2. count \in Nat
      OBVIOUS
    <3> QED
      BY <2>2, <3>1, <3>2, EmitStaysBelow
  <2>4. nblock_used' \in 1 .. nblock
    <3>1. \/ /\ nblock_used + count <= nblock
             /\ nblock_used' = nblock_used + count
          \/ nblock_used' = nblock
      BY <1>6 DEF ShortRun, EndInRun
    <3> QED
      BY <2>1, <3>1
  <2> QED
    BY <1>1, <1>6, <2>1, <2>2, <2>3, <2>4
    DEF ShortRun, EndInRun, ReturnBlock, TypeOK, input, nblock, block
<1>7. CASE Repeat
  <2>1. pc = "block" /\ nblock_used \in 1 .. nblock /\ nblock \in Nat
    BY <1>7, BlockType DEF Repeat, BetweenRuns, TypeOK
  <2>2. /\ block[nblock_used] \in Byte /\ block[nblock_used + 4] \in Byte
        /\ nblock_used + 4 <= nblock
    BY <1>7, <2>1, BlockType DEF Repeat, TypeOK
  <2>3. nblock_used' \in 1 .. nblock
    BY <1>7, <2>1, <2>2 DEF Repeat, Lesser
  <2>4. state_out_len' \in 0 .. 259
    BY <1>7, <2>2 DEF Repeat, Byte
  <2> QED
    BY <1>1, <1>7, <2>1, <2>2, <2>3, <2>4
    DEF Repeat, TypeOK, input, nblock, block, ceiling
<1>8. CASE Finished \/ UNCHANGED vars
  <2>1. UNCHANGED vars
    BY <1>8 DEF Finished
  <2> QED
    BY <2>1 DEF vars, input, runVars, TypeOK, ceiling, nblock, block
<1> QED
  BY <1>2, <1>3, <1>4, <1>5, <1>6, <1>7, <1>8 DEF Next, decompress_block

(* The decoder never consumes more bytes than its block has, never emits a  *)
(* longer run than the format can name, and never writes past its ceiling.  *)
THEOREM TypeCorrect == Spec => []TypeOK
<1>1. Init => TypeOK
  BY InitTypes
<1>2. TypeOK /\ [Next]_vars => TypeOK'
  BY NextTypes
<1> QED
  BY <1>1, <1>2, PTL DEF Spec

-----------------------------------------------------------------------------
(* Why decoding ends: five numbers, of which each step lowers one and       *)
(* leaves those before it as they are.                                      *)

Going      == IF Terminated THEN 0 ELSE 1
BlocksLeft == Len(stream.blocks) + 1 - current
Stage      == IF pc = "header" THEN 2 ELSE IF pc = "block" THEN 1 ELSE 0
BytesLeft  == IF pc = "block" THEN nblock - nblock_used ELSE 0

Counts ==
  /\ Going \in Nat /\ BlocksLeft \in Nat /\ Stage \in Nat /\ BytesLeft \in Nat
  /\ state_out_len \in Nat

CountsDown ==
  \/ Going' < Going
  \/ Going' = Going /\ BlocksLeft' < BlocksLeft
  \/ Going' = Going /\ BlocksLeft' = BlocksLeft /\ Stage' < Stage
  \/ /\ Going' = Going /\ BlocksLeft' = BlocksLeft /\ Stage' = Stage
     /\ \/ BytesLeft' < BytesLeft
        \/ BytesLeft' = BytesLeft /\ state_out_len' < state_out_len

LEMMA CountsAre ==
  ASSUME TypeOK
  PROVE  Counts
<1>1. IsStream(stream)
  BY StreamsAssumption DEF TypeOK
<1>2. Len(stream.blocks) \in Nat
  BY <1>1 DEF IsStream
<1>3. current \in 1 .. Len(stream.blocks) + 1 /\ state_out_len \in 0 .. 259
  BY DEF TypeOK
<1>4. ASSUME pc = "block"
      PROVE  nblock \in Nat /\ nblock_used \in 1 .. nblock
  BY <1>4, BlockType DEF TypeOK
<1>5. BytesLeft \in Nat
  BY <1>4 DEF BytesLeft
<1>6. BlocksLeft \in Nat /\ state_out_len \in Nat
  BY <1>2, <1>3 DEF BlocksLeft
<1>7. Going \in Nat /\ Stage \in Nat
  BY DEF Going, Stage
<1> QED
  BY <1>5, <1>6, <1>7 DEF Counts

LEMMA StepCountsDown ==
  ASSUME TypeOK, Next, vars' # vars
  PROVE  CountsDown
<1>1. Counts
  BY CountsAre
<1>2. CASE EndOfStream \/ FailStream \/ StopAtLimit \/ RefuseTooLarge
  <2>1. ~Terminated
    BY <1>2, Zenon DEF EndOfStream, FailStream, StopAtLimit, RefuseTooLarge, Terminated
  <2>2. Terminated'
    BY <1>2, Zenon DEF EndOfStream, FailStream, StopAtLimit, RefuseTooLarge, Terminated
  <2>3. Going = 1 /\ Going' = 0
    BY <2>1, <2>2, Zenon DEF Going
  <2> QED
    BY <2>3 DEF CountsDown
<1>3. CASE StartBlock
  <2>1. stream' = stream /\ current' = current /\ pc = "header" /\ pc' = "block"
    BY <1>3 DEF StartBlock, input
  <2>2. Going' = Going /\ BlocksLeft' = BlocksLeft /\ Stage' < Stage
    BY <2>1 DEF Going, Terminated, BlocksLeft, Stage
  <2> QED
    BY <2>2, Zenon DEF CountsDown
<1>4. ASSUME UNCHANGED <<input, current>>, pc = "block", pc' = "returned"
      PROVE  CountsDown
  <2>1. Going' = Going /\ BlocksLeft' = BlocksLeft /\ Stage' < Stage
    BY <1>4 DEF input, Going, Terminated, BlocksLeft, Stage
  <2> QED
    BY <2>1 DEF CountsDown
<1>5. CASE StopForRoom \/ EndAfterCount \/ \E count \in 1 .. 4 : EndInRun(count)
  BY <1>4, <1>5 DEF StopForRoom, EndAfterCount, EndInRun, BetweenRuns, ReturnBlock
<1>6. ASSUME UNCHANGED <<input, current, pc>>, pc = "block"
      PROVE  /\ Going' = Going /\ BlocksLeft' = BlocksLeft /\ Stage' = Stage
             /\ nblock' = nblock /\ BytesLeft = nblock - nblock_used
             /\ BytesLeft' = nblock - nblock_used'
             /\ nblock \in Nat /\ nblock_used \in 1 .. nblock
  BY <1>6, BlockType
  DEF input, Going, Terminated, BlocksLeft, Stage, BytesLeft, nblock, block, TypeOK
<1>7. CASE EmitRun
  <2>1. state_out_len \in Nat /\ state_out_len > 0 /\ ~IsFull /\ pc = "block"
        /\ UNCHANGED <<input, current, nblock_used>>
        /\ state_out_len' = state_out_len - Lesser(state_out_len, Room)
    BY <1>7 DEF EmitRun, TypeOK
  <2>2. Len(output) \in Nat /\ ceiling \in Nat
    <3>1. output \in Seq(Byte)
      BY DEF TypeOK
    <3>2. ceiling \in Nat
      BY CeilingType
    <3> QED
      BY <3>1, <3>2
  <2>3. Room \in Nat /\ Room > 0
    BY <2>1, <2>2 DEF Room, IsFull
  <2>4. state_out_len' < state_out_len
    BY <2>1, <2>3 DEF Lesser
  <2>5. CASE pc' = "returned"
    BY <1>4, <2>1, <2>5
  <2>6. CASE pc' = pc
    <3>1. /\ Going' = Going /\ BlocksLeft' = BlocksLeft /\ Stage' = Stage
          /\ BytesLeft' = BytesLeft
      BY <1>6, <2>1, <2>6
    <3> QED
      BY <2>4, <3>1 DEF CountsDown
  <2> QED
    BY <1>7, <2>5, <2>6 DEF EmitRun, ReturnBlock
<1>8. ASSUME UNCHANGED <<input, current, pc>>, pc = "block",
             nblock_used' \in Nat, nblock_used' > nblock_used
      PROVE  CountsDown
  <2>1. /\ Going' = Going /\ BlocksLeft' = BlocksLeft /\ Stage' = Stage
        /\ BytesLeft = nblock - nblock_used /\ BytesLeft' = nblock - nblock_used'
        /\ nblock \in Nat /\ nblock_used \in 1 .. nblock
    BY <1>6, <1>8
  <2>2. \A n, a, b \in Int : b > a => n - b < n - a
    OBVIOUS
  <2>3. nblock \in Int /\ nblock_used \in Int /\ nblock_used' \in Int
    BY <1>8, <2>1
  <2>4. nblock - nblock_used' < nblock - nblock_used
    BY <1>8, <2>2, <2>3
  <2>5. BytesLeft' < BytesLeft
    BY <2>1, <2>4
  <2> QED
    BY <2>1, <2>5 DEF CountsDown
<1>9. pc = "block" => nblock \in Nat /\ nblock_used \in 1 .. nblock
  BY BlockType DEF TypeOK
<1>10. CASE \E count \in 1 .. 3 : ShortRun(count)
  <2>1. /\ UNCHANGED <<input, current, pc>> /\ pc = "block"
        /\ \E count \in 1 .. 3 : nblock_used' = nblock_used + count
    BY <1>10 DEF ShortRun, BetweenRuns
  <2> QED
    BY <1>8, <1>9, <2>1
<1>11. CASE Repeat
  <2>1. /\ UNCHANGED <<input, current, pc>> /\ pc = "block"
        /\ nblock_used + 4 <= nblock /\ nblock_used' = Lesser(nblock_used + 5, nblock)
    BY <1>11 DEF Repeat, BetweenRuns
  <2>2. nblock_used' \in Nat /\ nblock_used' > nblock_used
    BY <1>9, <2>1 DEF Lesser
  <2> QED
    BY <1>8, <2>1, <2>2
<1>12. CASE NextBlock
  <2>1. current' = current + 1 /\ stream' = stream /\ pc = "returned" /\ pc' = "header"
    BY <1>12 DEF NextBlock, input
  <2>2. /\ current \in 1 .. Len(stream.blocks) + 1
        /\ Len(stream.blocks) + 1 - current \in Nat
    BY <1>1 DEF Counts, BlocksLeft, TypeOK
  <2>3. IsStream(stream)
    BY StreamsAssumption DEF TypeOK
  <2>4. Len(stream.blocks) \in Nat
    BY <2>3 DEF IsStream
  <2>5. BlocksLeft' < BlocksLeft
    <3>1. /\ BlocksLeft = Len(stream.blocks) + 1 - current
          /\ BlocksLeft' = Len(stream.blocks) + 1 - (current + 1)
      BY <2>1, Zenon DEF BlocksLeft
    <3>2. \A n, c \in Int : n + 1 - (c + 1) < n + 1 - c
      OBVIOUS
    <3>3. Len(stream.blocks) \in Int /\ current \in Int
      BY <2>2, <2>4
    <3>4. Len(stream.blocks) + 1 - (current + 1) < Len(stream.blocks) + 1 - current
      BY <3>2, <3>3, Zenon
    <3> QED
      BY <3>1, <3>4, Zenon
  <2>6. Going' = Going
    BY <2>1 DEF Going, Terminated
  <2> QED
    BY <2>5, <2>6 DEF CountsDown
<1> QED
  BY <1>2, <1>3, <1>5, <1>7, <1>10, <1>11, <1>12 DEF Next, decompress_block, Finished

(* The decoder cannot go on for ever, whatever the stream and the limit:    *)
(* each turn of its loops takes a block, takes a byte of one, or shortens   *)
(* the run being emitted, and all these are natural numbers.  Bzip2Stream   *)
(* starts it over once at most, with the older block layout.                *)
THEOREM EveryTurnCountsDown == Spec => []Counts /\ [][CountsDown]_vars
<1>1. Init => TypeOK
  BY InitTypes
<1>2. TypeOK /\ [Next]_vars => TypeOK'
  BY NextTypes
<1>3. TypeOK => Counts
  BY CountsAre
<1>4. TypeOK /\ [Next]_vars => [CountsDown]_vars
  BY StepCountsDown
<1> QED
  BY <1>1, <1>2, <1>3, <1>4, PTL DEF Spec

-----------------------------------------------------------------------------
(* A cap is checked whenever a block returns, so the byte past it is never  *)
(* there when a header is read, nor at the end of the stream.               *)
CapKept ==
  limit.kind = "Capped" /\ pc \in {"header", "done"} => Len(output) <= limit.size

FitInv == TypeOK /\ CapKept /\ ResultFitsTheLimit

LEMMA LimitType ==
  ASSUME TypeOK
  PROVE  /\ limit.size \in Nat
         /\ limit.kind = "Capped" => ceiling = limit.size + 1
         /\ limit.kind # "Capped" => ceiling = limit.size
         /\ limit.kind \notin {"Exact", "Truncate"} => limit.kind = "Capped"
         /\ Len(output) \in Nat /\ Len(output) <= ceiling
<1>1. limit \in DecodeLimit
  BY LimitsAssumption DEF TypeOK
<1>2. limit.size \in Nat /\ limit.kind \in {"Exact", "Truncate", "Capped"}
  BY <1>1 DEF DecodeLimit
<1>3. Len(output) \in Nat /\ Len(output) <= ceiling
  <2>1. output \in Seq(Byte) /\ Len(output) <= ceiling
    BY DEF TypeOK
  <2> QED
    BY <2>1
<1> QED
  BY <1>2, <1>3 DEF ceiling

LEMMA InitFits == Init => FitInv
<1> SUFFICES ASSUME Init PROVE FitInv
  OBVIOUS
<1>1. TypeOK
  BY InitTypes
<1>2. limit.size \in Nat
  BY <1>1, LimitType
<1>3. Len(output) = 0 /\ pc = "header"
  BY DEF Init, AtStart
<1> QED
  BY <1>1, <1>2, <1>3 DEF FitInv, CapKept, ResultFitsTheLimit

LEMMA NextFits ==
  ASSUME FitInv, [Next]_vars
  PROVE  FitInv'
<1>1. TypeOK /\ TypeOK'
  BY NextTypes DEF FitInv
<1>2. /\ limit.size \in Nat
      /\ limit.kind = "Capped" => ceiling = limit.size + 1
      /\ limit.kind # "Capped" => ceiling = limit.size
      /\ limit.kind \notin {"Exact", "Truncate"} => limit.kind = "Capped"
      /\ Len(output) \in Nat /\ Len(output) <= ceiling
  BY <1>1, LimitType
<1>3. CapKept' /\ ResultFitsTheLimit'
  <2>1. CASE EndOfStream
    BY <1>2, <2>1 DEF EndOfStream, FitInv, CapKept, ResultFitsTheLimit, input
  <2>2. CASE FailStream
    BY <2>2 DEF FailStream, CapKept, ResultFitsTheLimit, input
  <2>3. CASE decompress_block
    <3>1. pc' \in {"block", "returned"}
      <4>1. CASE StartBlock
        BY <4>1 DEF StartBlock
      <4>2. CASE StopForRoom \/ EndAfterCount
        BY <4>2 DEF StopForRoom, EndAfterCount, ReturnBlock
      <4>3. CASE EmitRun
        BY <4>3 DEF EmitRun, ReturnBlock
      <4>4. ASSUME NEW count \in 1 .. 4, ShortRun(count) \/ EndInRun(count)
            PROVE  pc' \in {"block", "returned"}
        BY <4>4 DEF ShortRun, EndInRun, BetweenRuns, ReturnBlock
      <4>5. CASE Repeat
        BY <4>5 DEF Repeat, BetweenRuns
      <4> QED
        BY <2>3, <4>1, <4>2, <4>3, <4>4, <4>5 DEF decompress_block
    <3> QED
      BY <3>1 DEF CapKept, ResultFitsTheLimit
  <2>4. CASE NextBlock
    BY <1>2, <2>4 DEF NextBlock, IsFull, CapKept, ResultFitsTheLimit, input
  <2>5. CASE StopAtLimit
    <3>1. limit.kind # "Capped" /\ pc' = "done"
      BY <2>5 DEF StopAtLimit
    <3>2. Len(output) <= limit.size
      BY <1>2, <3>1
    <3> QED
      BY <2>5, <3>1, <3>2 DEF StopAtLimit, CapKept, ResultFitsTheLimit, input
  <2>6. CASE RefuseTooLarge
    <3>1. Len(output) >= ceiling /\ ceiling = limit.size + 1
      BY <1>2, <2>6 DEF RefuseTooLarge, IsFull
    <3>2. Len(output) > limit.size
      BY <1>2, <3>1
    <3> QED
      BY <2>6, <3>2 DEF RefuseTooLarge, CapKept, ResultFitsTheLimit, input
  <2>7. CASE Finished \/ UNCHANGED vars
    BY <2>7 DEF Finished, vars, input, FitInv, CapKept, ResultFitsTheLimit
  <2> QED
    BY <2>1, <2>2, <2>3, <2>4, <2>5, <2>6, <2>7 DEF Next
<1> QED
  BY <1>1, <1>3 DEF FitInv

(* Whatever the stream and wherever the limit falls, a result is no longer  *)
(* than was asked for, and only a stream that produced a byte past its cap  *)
(* is refused as too large.                                                 *)
THEOREM LimitIsKept == Spec => []ResultFitsTheLimit
<1>1. Init => FitInv
  BY InitFits
<1>2. FitInv /\ [Next]_vars => FitInv'
  BY NextFits
<1>3. FitInv => ResultFitsTheLimit
  BY DEF FitInv
<1> QED
  BY <1>1, <1>2, <1>3, PTL DEF Spec

-----------------------------------------------------------------------------
(***************************************************************************)
(* Induction over the bytes of a block and the blocks of a stream, stated   *)
(* with sets: the theorems of the library that take an operator cannot be   *)
(* instantiated.                                                           *)

LEMMA LeastNatural ==
  ASSUME NEW T \in SUBSET Nat, T # {}
  PROVE  \E x \in T : \A y \in T : x <= y
<1> DEFINE Below == {ss \in Nat \X Nat : ss[1] < ss[2]}
<1>1. IsWellFoundedOn(Below, Nat)
  BY NatLessThanWellFounded DEF OpToRel
<1>2. PICK x \in T : \A y \in T : <<y, x>> \notin Below
  BY <1>1, WFMin
<1>3. ASSUME NEW y \in T PROVE x <= y
  <2>1. <<y, x>> \notin Below
    BY <1>2
  <2>2. x \in Nat /\ y \in Nat
    OBVIOUS
  <2>3. ~(y < x)
    BY <2>1, <2>2
  <2> HIDE DEF Below
  <2> QED
    BY <2>2, <2>3
<1> QED
  BY <1>3

LEMMA Inductively ==
  ASSUME NEW S, 0 \in S, \A n \in Nat : n \in S => n + 1 \in S
  PROVE  \A n \in Nat : n \in S
<1> SUFFICES ASSUME Nat \ S # {} PROVE FALSE
  OBVIOUS
<1>1. PICK x \in Nat \ S : \A y \in Nat \ S : x <= y
  <2>1. Nat \ S \in SUBSET Nat
    OBVIOUS
  <2> QED
    BY <2>1, LeastNatural
<1>2. x - 1 \in Nat /\ ~(x <= x - 1)
  <2>1. x \in Nat /\ x # 0
    BY <1>1
  <2> QED
    BY <2>1
<1>3. x - 1 \in S
  BY <1>1, <1>2
<1>4. (x - 1) + 1 \in S /\ (x - 1) + 1 = x
  BY <1>2, <1>3
<1> QED
  BY <1>1, <1>4

-----------------------------------------------------------------------------
(* Sequences that begin others.                                            *)

Begins(s, t) == Len(s) <= Len(t) /\ \A i \in 1 .. Len(s) : s[i] = t[i]

LEMMA ConcatIs ==
  ASSUME NEW s \in Seq(Byte), NEW t \in Seq(Byte)
  PROVE  /\ s \o t \in Seq(Byte) /\ Len(s \o t) = Len(s) + Len(t)
         /\ \A i \in 1 .. Len(s) : (s \o t)[i] = s[i]
         /\ \A i \in Len(s) + 1 .. Len(s) + Len(t) : (s \o t)[i] = t[i - Len(s)]
  OBVIOUS

LEMMA SameBytes ==
  ASSUME NEW s \in Seq(Byte), NEW t \in Seq(Byte), Len(s) = Len(t),
         \A i \in 1 .. Len(s) : s[i] = t[i]
  PROVE  s = t
  OBVIOUS

LEMMA Assoc ==
  ASSUME NEW s \in Seq(Byte), NEW t \in Seq(Byte), NEW u \in Seq(Byte)
  PROVE  s \o (t \o u) = (s \o t) \o u
  OBVIOUS

LEMMA ConcatEmpty ==
  ASSUME NEW s \in Seq(Byte)
  PROVE  s \o <<>> = s
  OBVIOUS

LEMMA CopiesSplit ==
  ASSUME NEW c \in Byte, NEW m \in Nat, NEW n \in Nat
  PROVE  Copies(c, m) \o Copies(c, n) = Copies(c, m + n)
  BY CopiesType DEF Copies

LEMMA BeginsItself ==
  ASSUME NEW s \in Seq(Byte)
  PROVE  Begins(s, s)
  BY DEF Begins

LEMMA BeginsLonger ==
  ASSUME NEW s \in Seq(Byte), NEW t \in Seq(Byte)
  PROVE  Begins(s, s \o t)
  BY ConcatIs DEF Begins

LEMMA BeginsOn ==
  ASSUME NEW s \in Seq(Byte), NEW t \in Seq(Byte), NEW u \in Seq(Byte),
         Begins(s, t), Begins(t, u)
  PROVE  Begins(s, u)
  BY DEF Begins

LEMMA BeginsBoth ==
  ASSUME NEW s \in Seq(Byte), NEW t \in Seq(Byte), NEW u \in Seq(Byte),
         Begins(t, u)
  PROVE  Begins(s \o t, s \o u)
<1> DEFINE a == s \o t
           b == s \o u
<1>1. /\ a \in Seq(Byte) /\ Len(a) = Len(s) + Len(t)
      /\ \A i \in 1 .. Len(s) : a[i] = s[i]
      /\ \A i \in Len(s) + 1 .. Len(s) + Len(t) : a[i] = t[i - Len(s)]
  BY ConcatIs
<1>2. /\ b \in Seq(Byte) /\ Len(b) = Len(s) + Len(u)
      /\ \A i \in 1 .. Len(s) : b[i] = s[i]
      /\ \A i \in Len(s) + 1 .. Len(s) + Len(u) : b[i] = u[i - Len(s)]
  BY ConcatIs
<1> HIDE DEF a, b
<1>3. Len(s) \in Nat /\ Len(t) \in Nat /\ Len(u) \in Nat /\ Len(t) <= Len(u)
  BY DEF Begins
<1>4. ASSUME NEW i \in 1 .. Len(a) PROVE a[i] = b[i]
  <2>1. CASE i \in 1 .. Len(s)
    BY <1>1, <1>2, <2>1
  <2>2. CASE i \in Len(s) + 1 .. Len(s) + Len(t)
    <3>1. i - Len(s) \in 1 .. Len(t) /\ i \in Len(s) + 1 .. Len(s) + Len(u)
      BY <1>3, <2>2
    <3>2. t[i - Len(s)] = u[i - Len(s)]
      BY <3>1 DEF Begins
    <3> QED
      BY <1>1, <1>2, <2>2, <3>1, <3>2
  <2> QED
    BY <1>1, <1>3, <2>1, <2>2
<1>5. Len(a) <= Len(b)
  BY <1>1, <1>2, <1>3
<1>6. Begins(a, b)
  BY <1>4, <1>5 DEF Begins
<1> QED
  BY <1>6 DEF a, b

-----------------------------------------------------------------------------
(* The reference definitions satisfy their recursion equations, and only    *)
(* ever grow.                                                              *)

Blank   == [out |-> <<>>, row |-> 0, last |-> 0]
Reading == [out : Seq(Byte), row : 0 .. 4, last : Byte]

LEMMA BlankType == Blank \in Reading
<1>1. 0 \in Byte /\ <<>> \in Seq(Byte)
  BY DEF Byte
<1> QED
  BY <1>1 DEF Blank, Reading

LEMMA ReadType ==
  ASSUME NEW s \in Reading, NEW c \in Byte
  PROVE  Read(s, c) \in Reading /\ Begins(s.out, Read(s, c).out)
<1>1. s.out \in Seq(Byte) /\ s.row \in 0 .. 4 /\ s.last \in Byte
  BY DEF Reading
<1>2. CASE s.row = 4
  <2>1. c \in Nat
    BY DEF Byte
  <2>2. Copies(s.last, c) \in Seq(Byte)
    BY <1>1, <2>1, CopiesType
  <2>3. s.out \o Copies(s.last, c) \in Seq(Byte)
        /\ Begins(s.out, s.out \o Copies(s.last, c))
    BY <1>1, <2>2, BeginsLonger, ConcatIs
  <2>4. Read(s, c) = [out |-> s.out \o Copies(s.last, c), row |-> 0, last |-> s.last]
    BY <1>2 DEF Read
  <2> QED
    BY <1>1, <2>3, <2>4 DEF Reading
<1>3. CASE s.row # 4
  <2> DEFINE row == IF s.row > 0 /\ s.last = c THEN s.row + 1 ELSE 1
  <2>1. row \in 0 .. 4
    BY <1>1, <1>3
  <2>2. Append(s.out, c) \in Seq(Byte) /\ Begins(s.out, Append(s.out, c))
    BY <1>1 DEF Begins
  <2>3. Read(s, c) = [out |-> Append(s.out, c), row |-> row, last |-> c]
    BY <1>3 DEF Read
  <2> HIDE DEF row
  <2> QED
    BY <2>1, <2>2, <2>3 DEF Reading
<1> QED
  BY <1>2, <1>3

(* f begins with `first` and goes on by the steps `step`.                   *)
Stepwise(f, N, V, first, step) ==
  /\ f \in [0 .. N -> V]
  /\ f[0] = first
  /\ \A n \in 1 .. N : f[n] = step[n][f[n - 1]]

(* A function that is given at 0 and by a step exists, and has its type.     *)
LEMMA StepwiseFunction ==
  ASSUME NEW N \in Nat, NEW V, NEW first \in V, NEW step \in [1 .. N -> [V -> V]]
  PROVE  \E f : Stepwise(f, N, V, first, step)
<1> DEFINE Follows(f, m) == /\ f[0] = first
                            /\ \A n \in 1 .. m : f[n] = step[n][f[n - 1]]
           Some(m) == \E f \in [0 .. m -> V] : Follows(f, m)
           S == {m \in Nat : m <= N => Some(m)}
<1>1. 0 \in S
  <2> DEFINE f == [n \in 0 .. 0 |-> first]
  <2>1. f \in [0 .. 0 -> V] /\ Follows(f, 0)
    OBVIOUS
  <2>2. Some(0)
    BY <2>1
  <2> QED
    BY <2>2
<1>2. ASSUME NEW m \in Nat, m \in S, m + 1 <= N PROVE Some(m + 1)
  <2>1. PICK f \in [0 .. m -> V] : Follows(f, m)
    BY <1>2
  <2> DEFINE g == [n \in 0 .. m + 1 |-> IF n = m + 1 THEN step[m + 1][f[m]] ELSE f[n]]
  <2>2. g \in [0 .. m + 1 -> V]
    <3>1. m + 1 \in 1 .. N /\ f[m] \in V
      BY <1>2
    <3>2. step[m + 1][f[m]] \in V
      BY <3>1
    <3> QED
      BY <3>2
  <2>3. Follows(g, m + 1)
    <3>1. g[0] = first
      BY <2>1
    <3>2. ASSUME NEW n \in 1 .. m + 1 PROVE g[n] = step[n][g[n - 1]]
      BY <2>1
    <3> QED
      BY <3>1, <3>2
  <2> QED
    BY <2>2, <2>3
<1>3. ASSUME NEW m \in Nat, m \in S PROVE m + 1 \in S
  <2>1. m + 1 <= N => Some(m + 1)
    BY <1>2, <1>3
  <2> HIDE DEF Some
  <2> QED
    BY <2>1
<1>4. N \in S
  <2> HIDE DEF S
  <2> QED
    BY <1>1, <1>3, Inductively
<1>5. PICK f \in [0 .. N -> V] : Follows(f, N)
  BY <1>4
<1>6. Stepwise(f, N, V, first, step)
  BY <1>5 DEF Stepwise
<1> QED
  BY <1>6

LEMMA ReadUpToIs ==
  ASSUME NEW b \in Seq(Byte)
  PROVE  /\ ReadUpTo(b) \in [0 .. Len(b) -> Reading]
         /\ ReadUpTo(b)[0] = Blank
         /\ \A n \in 1 .. Len(b) : ReadUpTo(b)[n] = Read(ReadUpTo(b)[n - 1], b[n])
<1> DEFINE step == [n \in 1 .. Len(b) |-> [s \in Reading |-> Read(s, b[n])]]
           Step(g) == [n \in 0 .. Len(b) |->
                         IF n = 0 THEN [out |-> <<>>, row |-> 0, last |-> 0]
                                  ELSE Read(g[n - 1], b[n])]
           Same(g) == g = Step(g)
<1>1. step \in [1 .. Len(b) -> [Reading -> Reading]]
  BY ReadType
<1>2. PICK f : Stepwise(f, Len(b), Reading, Blank, step)
  <2>1. Len(b) \in Nat
    OBVIOUS
  <2> HIDE DEF step
  <2> QED
    BY <1>1, <2>1, BlankType, StepwiseFunction, Zenon
<1>3. f = Step(f)
  <2>1. ASSUME NEW n \in 0 .. Len(b) PROVE f[n] = Step(f)[n]
    BY <1>2 DEF Blank, Stepwise
  <2>2. f = [n \in 0 .. Len(b) |-> f[n]]
    BY <1>2 DEF Stepwise
  <2> QED
    BY <2>1, <2>2
<1>4. ReadUpTo(b) = CHOOSE g : g = Step(g)
  BY DEF ReadUpTo
<1>5. ReadUpTo(b) = Step(ReadUpTo(b))
  <2> HIDE DEF Step
  <2> QED
    BY <1>3, <1>4
<1> DEFINE r == ReadUpTo(b)
<1>6. /\ r[0] = Blank
      /\ \A n \in 1 .. Len(b) : r[n] = Read(r[n - 1], b[n])
  BY <1>5 DEF Blank
<1>7. ASSUME NEW n \in 0 .. Len(b) PROVE r[n] \in Reading
  <2> DEFINE S == {m \in Nat : m <= Len(b) => r[m] \in Reading}
  <2> HIDE DEF r
  <2>1. 0 \in S
    BY <1>6, BlankType
  <2>2. ASSUME NEW m \in Nat, m \in S PROVE m + 1 \in S
    <3> SUFFICES ASSUME m + 1 <= Len(b) PROVE r[m + 1] \in Reading
      OBVIOUS
    <3>1. r[m] \in Reading /\ b[m + 1] \in Byte
      BY <2>2
    <3>2. r[m + 1] = Read(r[m], b[m + 1])
      BY <1>6
    <3> QED
      BY <3>1, <3>2, ReadType
  <2>3. n \in S
    <3> HIDE DEF S
    <3> QED
      BY <2>1, <2>2, Inductively
  <2> QED
    BY <2>3
<1>8. r \in [0 .. Len(b) -> Reading]
  <2> HIDE DEF Step
  <2>1. r = Step(r)
    BY <1>5
  <2>2. r = [n \in 0 .. Len(b) |-> r[n]]
    BY <2>1 DEF Step
  <2> HIDE DEF r
  <2> QED
    BY <1>7, <2>2
<1> QED
  BY <1>6, <1>8

(* Reading on only adds.                                                    *)
LEMMA ReadingGrows ==
  ASSUME NEW b \in Seq(Byte), NEW m \in 0 .. Len(b)
  PROVE  Begins(ReadUpTo(b)[m].out, Unpacked(b))
<1> DEFINE r == ReadUpTo(b)
           S == {n \in Nat : m <= n /\ n <= Len(b) => Begins(r[m].out, r[n].out)}
<1>1. /\ r \in [0 .. Len(b) -> Reading]
      /\ \A n \in 1 .. Len(b) : r[n] = Read(r[n - 1], b[n])
  BY ReadUpToIs
<1> HIDE DEF r
<1>2. \A n \in 0 .. Len(b) : r[n].out \in Seq(Byte)
  BY <1>1 DEF Reading
<1>3. 0 \in S
  BY <1>2, BeginsItself
<1>4. ASSUME NEW n \in Nat, n \in S PROVE n + 1 \in S
  <2> SUFFICES ASSUME m <= n + 1, n + 1 <= Len(b)
               PROVE  Begins(r[m].out, r[n + 1].out)
    OBVIOUS
  <2>1. n + 1 \in 0 .. Len(b) /\ n \in 0 .. Len(b)
    OBVIOUS
  <2>2. CASE m = n + 1
    BY <1>2, <2>1, <2>2, BeginsItself
  <2>3. CASE m <= n
    <3>1. Begins(r[m].out, r[n].out)
      BY <1>4, <2>1, <2>3
    <3>2. r[n + 1] = Read(r[n], b[n + 1]) /\ r[n] \in Reading /\ b[n + 1] \in Byte
      BY <1>1
    <3>3. Begins(r[n].out, r[n + 1].out)
      BY <3>2, ReadType
    <3> QED
      BY <1>2, <2>1, <3>1, <3>3, BeginsOn
  <2> QED
    BY <2>2, <2>3
<1>5. Len(b) \in S
  <2> HIDE DEF S
  <2> QED
    BY <1>3, <1>4, Inductively
<1>6. Begins(r[m].out, r[Len(b)].out)
  BY <1>5
<1> QED
  BY <1>6 DEF r, Unpacked

LEMMA UnpackedType ==
  ASSUME NEW b \in Seq(Byte)
  PROVE  Unpacked(b) \in Seq(Byte)
<1>1. ReadUpTo(b)[Len(b)] \in Reading
  BY ReadUpToIs
<1> QED
  BY <1>1 DEF Unpacked, Reading

LEMMA JoinedIs ==
  ASSUME NEW bs \in Seq(Seq(Byte))
  PROVE  /\ Joined(bs) \in [0 .. Len(bs) -> Seq(Byte)]
         /\ Joined(bs)[0] = <<>>
         /\ \A n \in 1 .. Len(bs) : Joined(bs)[n] = Joined(bs)[n - 1] \o Unpacked(bs[n])
<1> DEFINE step == [n \in 1 .. Len(bs) |-> [s \in Seq(Byte) |-> s \o Unpacked(bs[n])]]
           Step(g) == [n \in 0 .. Len(bs) |->
                         IF n = 0 THEN <<>> ELSE g[n - 1] \o Unpacked(bs[n])]
<1>0. /\ Len(bs) \in Nat
      /\ \A n \in 1 .. Len(bs) : Unpacked(bs[n]) \in Seq(Byte)
  BY UnpackedType
<1>1. step \in [1 .. Len(bs) -> [Seq(Byte) -> Seq(Byte)]]
  BY <1>0
<1>2. PICK f : Stepwise(f, Len(bs), Seq(Byte), <<>>, step)
  <2>1. <<>> \in Seq(Byte)
    OBVIOUS
  <2> HIDE DEF step
  <2> QED
    BY <1>0, <1>1, <2>1, StepwiseFunction, Zenon
<1>3. f = Step(f)
  <2>1. ASSUME NEW n \in 0 .. Len(bs) PROVE f[n] = Step(f)[n]
    <3>1. CASE n = 0
      BY <1>2, <3>1 DEF Stepwise
    <3>2. CASE n # 0
      <4>1. n \in 1 .. Len(bs) /\ n - 1 \in 0 .. Len(bs)
        BY <1>0, <3>2
      <4>2. f[n - 1] \in Seq(Byte) /\ f[n] = step[n][f[n - 1]]
        BY <1>2, <4>1 DEF Stepwise
      <4>3. step[n][f[n - 1]] = f[n - 1] \o Unpacked(bs[n])
        BY <4>1, <4>2
      <4> HIDE DEF step
      <4> QED
        BY <3>2, <4>2, <4>3
    <3> QED
      BY <3>1, <3>2
  <2>2. f = [n \in 0 .. Len(bs) |-> f[n]]
    BY <1>2 DEF Stepwise
  <2> QED
    BY <2>1, <2>2
<1>4. Joined(bs) = CHOOSE g : g = Step(g)
  BY DEF Joined
<1>5. Joined(bs) = Step(Joined(bs))
  <2> HIDE DEF Step
  <2> QED
    BY <1>3, <1>4
<1> DEFINE r == Joined(bs)
<1>6. /\ r[0] = <<>>
      /\ \A n \in 1 .. Len(bs) : r[n] = r[n - 1] \o Unpacked(bs[n])
  <2>1. 0 \in 0 .. Len(bs) /\ \A n \in 1 .. Len(bs) : n \in 0 .. Len(bs) /\ n # 0
    BY <1>0
  <2>2. r = [n \in 0 .. Len(bs) |-> IF n = 0 THEN <<>> ELSE r[n - 1] \o Unpacked(bs[n])]
    BY <1>5
  <2> HIDE DEF r
  <2> QED
    BY <2>1, <2>2
<1>7. ASSUME NEW n \in 0 .. Len(bs) PROVE r[n] \in Seq(Byte)
  <2> DEFINE S == {m \in Nat : m <= Len(bs) => r[m] \in Seq(Byte)}
  <2> HIDE DEF r
  <2>1. 0 \in S
    <3>1. r[0] \in Seq(Byte)
      BY <1>6
    <3> QED
      BY <3>1
  <2>2. ASSUME NEW m \in Nat, m \in S PROVE m + 1 \in S
    <3> SUFFICES ASSUME m + 1 <= Len(bs) PROVE r[m + 1] \in Seq(Byte)
      OBVIOUS
    <3>0. m + 1 \in 1 .. Len(bs) /\ (m + 1) - 1 = m
      BY <1>0
    <3>1. r[m] \in Seq(Byte) /\ Unpacked(bs[m + 1]) \in Seq(Byte)
      BY <1>0, <2>2, <3>0
    <3>2. r[m + 1] = r[m] \o Unpacked(bs[m + 1])
      BY <1>6, <3>0
    <3> QED
      BY <3>1, <3>2, ConcatIs
  <2>3. n \in S
    <3>1. n \in Nat
      BY <1>0
    <3> HIDE DEF S
    <3> QED
      BY <2>1, <2>2, <3>1, Inductively
  <2> QED
    BY <1>0, <2>3
<1>8. r \in [0 .. Len(bs) -> Seq(Byte)]
  <2> HIDE DEF Step
  <2>1. r = Step(r)
    BY <1>5
  <2>2. r = [n \in 0 .. Len(bs) |-> r[n]]
    BY <2>1 DEF Step
  <2> HIDE DEF r
  <2> QED
    BY <1>7, <2>2
<1> QED
  BY <1>6, <1>8

(* More blocks only add.                                                    *)
LEMMA JoiningGrows ==
  ASSUME NEW bs \in Seq(Seq(Byte)), NEW m \in 0 .. Len(bs)
  PROVE  Begins(Joined(bs)[m], Joined(bs)[Len(bs)])
<1> DEFINE r == Joined(bs)
           S == {n \in Nat : m <= n /\ n <= Len(bs) => Begins(r[m], r[n])}
<1>0. Len(bs) \in Nat
  OBVIOUS
<1>1. /\ Len(bs) \in Nat /\ r \in [0 .. Len(bs) -> Seq(Byte)]
      /\ \A n \in 1 .. Len(bs) : r[n] = r[n - 1] \o Unpacked(bs[n])
  BY <1>0, JoinedIs, Zenon
<1> HIDE DEF r
<1>2. 0 \in S
  BY <1>1, BeginsItself
<1>3. ASSUME NEW n \in Nat, n \in S PROVE n + 1 \in S
  <2> SUFFICES ASSUME m <= n + 1, n + 1 <= Len(bs)
               PROVE  Begins(r[m], r[n + 1])
    OBVIOUS
  <2>0. n \in 0 .. Len(bs) /\ n + 1 \in 1 .. Len(bs) /\ (n + 1) - 1 = n
        /\ n + 1 \in 0 .. Len(bs)
    BY <1>1
  <2>1. r[n + 1] \in Seq(Byte) /\ r[n] \in Seq(Byte) /\ r[m] \in Seq(Byte)
    BY <1>1, <2>0
  <2>2. CASE m = n + 1
    BY <2>1, <2>2, BeginsItself
  <2>3. CASE m <= n
    <3>1. Begins(r[m], r[n])
      BY <1>3, <2>3
    <3>2. r[n + 1] = r[n] \o Unpacked(bs[n + 1]) /\ Unpacked(bs[n + 1]) \in Seq(Byte)
      <4>1. bs[n + 1] \in Seq(Byte)
        BY <2>0
      <4> QED
        BY <1>1, <2>0, <4>1, UnpackedType
    <3>3. Begins(r[n], r[n + 1])
      BY <2>1, <3>2, BeginsLonger
    <3> QED
      BY <2>1, <3>1, <3>3, BeginsOn
  <2> QED
    BY <2>2, <2>3
<1>4. Len(bs) \in S
  <2> HIDE DEF S
  <2> QED
    BY <1>1, <1>2, <1>3, Inductively
<1> QED
  BY <1>1, <1>4 DEF r

-----------------------------------------------------------------------------
(* The decoder is where the reference is: what it wrote, and the run it     *)
(* still has to write, is what the consumed bytes say, unless the limit has *)
(* cut it.                                                                 *)

consumed  == IF k0_pending THEN nblock_used - 1 ELSE nblock_used
Got       == ReadUpTo(block)[consumed]
Before(n) == Joined(stream.blocks)[n]
Due       == Before(current - 1) \o Got.out

(* A new run can begin here: the byte fetched does not go on with the last. *)
RunEnds ==
  k0_pending => Got.row = 0 \/ (Got.row < 4 /\ Got.last # block[nblock_used])

Cut(all) == IsFull /\ Begins(output, all)

AtHeader ==
  pc = "header" => output = Before(current - 1) /\ (current = 1 \/ ~IsFull)

InBlock ==
  pc = "block" =>
    /\ RunEnds
    /\ ~k0_pending => nblock_used = nblock
    /\ output \o Copies(state_out_ch, state_out_len) = Due \/ Cut(Due)

AfterBlock ==
  pc = "returned" => output = Before(current) \/ Cut(Before(current))

AtEnd ==
  /\ pc = "done" =>
       output = Whole \/ (limit.kind # "Capped" /\ Cut(Whole))
  /\ pc = "failed" => output = Whole /\ (stream.blocks = <<>> \/ ~IsFull)
  /\ pc = "too large" => limit.kind = "Capped" /\ Cut(Whole)

Inv == FitInv /\ AtHeader /\ InBlock /\ AfterBlock /\ AtEnd

LEMMA BlocksType ==
  ASSUME TypeOK
  PROVE  /\ stream.blocks \in Seq(Seq(Byte)) /\ Len(stream.blocks) \in Nat
         /\ current \in 1 .. Len(stream.blocks) + 1
         /\ \A n \in 0 .. Len(stream.blocks) :
              Before(n) \in Seq(Byte) /\ Begins(Before(n), Whole)
         /\ Whole \in Seq(Byte)
<1>1. stream.blocks \in Seq(Seq(Byte))
  BY StreamsAssumption DEF TypeOK, IsStream
<1>2. Len(stream.blocks) \in Nat
  BY <1>1
<1>3. Whole = Before(Len(stream.blocks))
  BY DEF Whole, Before
<1>4. ASSUME NEW n \in 0 .. Len(stream.blocks)
      PROVE  Before(n) \in Seq(Byte) /\ Begins(Before(n), Whole)
  <2>1. Before(n) \in Seq(Byte)
    BY <1>1, JoinedIs DEF Before
  <2>2. Begins(Before(n), Whole)
    BY <1>1, JoiningGrows DEF Before, Whole
  <2> QED
    BY <2>1, <2>2
<1>5. Whole \in Seq(Byte)
  BY <1>2, <1>3, <1>4
<1> QED
  BY <1>1, <1>2, <1>4, <1>5 DEF TypeOK

(* In a block: what is due belongs to what the block adds.                  *)
LEMMA DueType ==
  ASSUME TypeOK, pc = "block"
  PROVE  /\ current <= Len(stream.blocks) /\ consumed \in 0 .. nblock
         /\ Got \in Reading /\ Due \in Seq(Byte)
         /\ Before(current - 1) \in Seq(Byte) /\ Before(current) \in Seq(Byte)
         /\ Begins(Due, Before(current))
         /\ consumed = nblock => Due = Before(current)
<1>1. /\ current <= Len(stream.blocks) /\ nblock_used \in 1 .. nblock
      /\ k0_pending \in BOOLEAN
  BY DEF TypeOK
<1>2. /\ stream.blocks \in Seq(Seq(Byte)) /\ Len(stream.blocks) \in Nat
      /\ current \in 1 .. Len(stream.blocks)
  BY <1>1, BlocksType
<1>3. block \in Seq(Byte) /\ nblock = Len(block) /\ nblock \in Nat
  BY <1>1, BlockType DEF nblock
<1>4. consumed \in 0 .. nblock
  BY <1>1, <1>3 DEF consumed
<1>5. Got \in Reading /\ Begins(Got.out, Unpacked(block)) /\ Unpacked(block) \in Seq(Byte)
  BY <1>3, <1>4, ReadUpToIs, ReadingGrows, UnpackedType DEF Got
<1>6. Got.out \in Seq(Byte)
  BY <1>5 DEF Reading
<1>7. Before(current - 1) \in Seq(Byte)
  <2>1. current - 1 \in 0 .. Len(stream.blocks)
    BY <1>2
  <2> QED
    BY <2>1, BlocksType
<1>8. Before(current) = Before(current - 1) \o Unpacked(block)
  BY <1>2, JoinedIs DEF Before, block
<1>9. Due \in Seq(Byte) /\ Before(current) \in Seq(Byte) /\ Begins(Due, Before(current))
  BY <1>5, <1>6, <1>7, <1>8, ConcatIs, BeginsBoth DEF Due
<1>10. ASSUME consumed = nblock PROVE Due = Before(current)
  BY <1>3, <1>8, <1>10 DEF Due, Got, Unpacked
<1> QED
  BY <1>1, <1>4, <1>5, <1>7, <1>9, <1>10

(* A row of equal bytes is read byte by byte.                               *)
LEMMA RowIsRead ==
  ASSUME NEW b \in Seq(Byte), NEW i \in 1 .. Len(b), NEW count \in 1 .. 4,
         i + count - 1 <= Len(b),
         \A j \in i .. i + count - 1 : b[j] = b[i],
         \/ ReadUpTo(b)[i - 1].row = 0
         \/ ReadUpTo(b)[i - 1].row < 4 /\ ReadUpTo(b)[i - 1].last # b[i]
  PROVE  ReadUpTo(b)[i + count - 1] =
           [out |-> ReadUpTo(b)[i - 1].out \o Copies(b[i], count),
            row |-> count, last |-> b[i]]
<1> DEFINE R == ReadUpTo(b)
           r == ReadUpTo(b)[i - 1]
           After(k) == [out |-> r.out \o Copies(b[i], k), row |-> k, last |-> b[i]]
<1>1. /\ Len(b) \in Nat /\ b[i] \in Byte
      /\ R \in [0 .. Len(b) -> Reading]
      /\ \A n \in 1 .. Len(b) : R[n] = Read(R[n - 1], b[n])
  <2>1. Len(b) \in Nat /\ b[i] \in Byte
    OBVIOUS
  <2>2. /\ R \in [0 .. Len(b) -> Reading]
        /\ \A n \in 1 .. Len(b) : R[n] = Read(R[n - 1], b[n])
    BY ReadUpToIs
  <2> QED
    BY <2>1, <2>2
<1>0. r = R[i - 1] /\ (r.row = 0 \/ (r.row < 4 /\ r.last # b[i]))
  OBVIOUS
<1> HIDE DEF R, r
<1>2. r \in Reading /\ r.out \in Seq(Byte) /\ r.row \in 0 .. 4 /\ r.last \in Byte
  <2>1. r \in Reading
    BY <1>0, <1>1
  <2> QED
    BY <2>1 DEF Reading
<1>3. \A s \in Seq(Byte) : Append(s, b[i]) = s \o Copies(b[i], 1)
  BY <1>1 DEF Copies
<1>4. R[i] = After(1)
  <2>1. R[i] = Read(r, b[i])
    BY <1>0, <1>1
  <2>2. Read(r, b[i]) = [out |-> Append(r.out, b[i]), row |-> 1, last |-> b[i]]
    <3>1. r.row # 4 /\ ~(r.row > 0 /\ r.last = b[i])
      BY <1>0, <1>2
    <3> QED
      BY <3>1 DEF Read
  <2> QED
    BY <1>2, <1>3, <2>1, <2>2
<1>5. ASSUME NEW k \in 1 .. 3, k < count, R[i + k - 1] = After(k)
      PROVE  R[i + k] = After(k + 1)
  <2>1. /\ i + k \in 1 .. Len(b) /\ i + k \in i .. i + count - 1
        /\ (i + k) - 1 = i + k - 1
    BY <1>1, <1>5
  <2>2. R[i + k] = Read(After(k), b[i])
    BY <1>1, <1>5, <2>1
  <2>3. Read(After(k), b[i]) = [out |-> Append(After(k).out, b[i]), row |-> k + 1, last |-> b[i]]
    <3>1. After(k).row # 4 /\ After(k).row > 0 /\ After(k).last = b[i]
          /\ After(k).row + 1 = k + 1
      OBVIOUS
    <3> HIDE DEF After
    <3> QED
      BY <3>1 DEF Read
  <2>4. Append(r.out \o Copies(b[i], k), b[i]) = r.out \o Copies(b[i], k + 1)
    <3>0. k \in Nat /\ 1 \in Nat
      OBVIOUS
    <3>1. Copies(b[i], k) \in Seq(Byte) /\ Copies(b[i], 1) \in Seq(Byte)
      BY <1>1, <3>0, CopiesType
    <3>2. r.out \o Copies(b[i], k) \in Seq(Byte)
      BY <1>2, <3>1, ConcatIs
    <3>3. Append(r.out \o Copies(b[i], k), b[i]) = (r.out \o Copies(b[i], k)) \o Copies(b[i], 1)
      BY <1>3, <3>2
    <3>4. Copies(b[i], k) \o Copies(b[i], 1) = Copies(b[i], k + 1)
      BY <1>1, <3>0, CopiesSplit
    <3>5. r.out \o (Copies(b[i], k) \o Copies(b[i], 1))
            = (r.out \o Copies(b[i], k)) \o Copies(b[i], 1)
      BY <1>2, <3>1, Assoc
    <3> QED
      BY <3>3, <3>4, <3>5
  <2> QED
    BY <2>2, <2>3, <2>4
<1>6. count \in {1, 2, 3, 4}
  OBVIOUS
<1>7. count > 1 => R[i + 1] = After(2)
  BY <1>1, <1>4, <1>5
<1>8. count > 2 => R[i + 2] = After(3)
  BY <1>1, <1>7, <1>5
<1>9. count > 3 => R[i + 3] = After(4)
  BY <1>1, <1>8, <1>5
<1>10. R[i + count - 1] = After(count)
  <2> HIDE DEF After
  <2>1. CASE count = 1
    BY <1>1, <1>4, <2>1
  <2>2. CASE count = 2
    BY <1>1, <1>7, <2>2
  <2>3. CASE count = 3
    BY <1>1, <1>8, <2>3
  <2>4. CASE count = 4
    BY <1>1, <1>9, <2>4
  <2> QED
    BY <1>6, <2>1, <2>2, <2>3, <2>4
<1> QED
  BY <1>10 DEF R, r

(* Emitting n copies of c where n of them are due.                          *)
LEMMA EmitFollows ==
  ASSUME TypeOK, limit' = limit, NEW c \in Byte, NEW n \in Nat, Emit(c, n),
         NEW due \in Seq(Byte), due = output \o Copies(c, n)
  PROVE  /\ output' \in Seq(Byte) /\ Begins(output', due)
         /\ output' \o Copies(c, n - Lesser(n, Room)) = due
         /\ Lesser(n, Room) = n \/ IsFull'
<1> DEFINE m == Lesser(n, Room)
<1>1. ceiling \in Nat /\ output \in Seq(Byte) /\ Len(output) <= ceiling /\ ceiling' = ceiling
  BY CeilingType DEF TypeOK, ceiling
<1>2. Room \in Nat /\ Room = ceiling - Len(output)
  BY <1>1 DEF Room
<1>3. m \in Nat /\ m <= n /\ m <= Room /\ (m = n \/ m = Room)
  BY <1>2, LesserBounds DEF Lesser
<1>4. output' = output \o Copies(c, m)
  BY DEF Emit
<1> HIDE DEF m
<1>5. n - m \in Nat /\ m + (n - m) = n
  BY <1>3
<1>6. Copies(c, m) \in Seq(Byte) /\ Copies(c, n - m) \in Seq(Byte) /\ Len(Copies(c, m)) = m
  BY <1>3, <1>5, CopiesType
<1>7. output' \in Seq(Byte) /\ Len(output') = Len(output) + m
  <2>1. output \o Copies(c, m) \in Seq(Byte)
        /\ Len(output \o Copies(c, m)) = Len(output) + Len(Copies(c, m))
    BY <1>1, <1>6, ConcatIs
  <2> QED
    BY <1>4, <1>6, <2>1
<1>8. output' \o Copies(c, n - m) = due
  <2>1. output \o (Copies(c, m) \o Copies(c, n - m)) = output' \o Copies(c, n - m)
    BY <1>1, <1>4, <1>6, Assoc
  <2>2. Copies(c, m) \o Copies(c, n - m) = Copies(c, n)
    BY <1>3, <1>5, CopiesSplit
  <2> QED
    BY <2>1, <2>2
<1>9. Begins(output', due)
  BY <1>6, <1>7, <1>8, BeginsLonger
<1>10. m = n \/ IsFull'
  <2>1. ASSUME m = Room PROVE IsFull'
    <3>1. Len(output) \in Nat /\ Len(output') >= ceiling'
      BY <1>1, <1>2, <1>7, <2>1
    <3> QED
      BY <3>1 DEF IsFull
  <2> QED
    BY <1>3, <2>1
<1> QED
  BY <1>7, <1>8, <1>9, <1>10 DEF m

(* A step inside a block leaves the input alone.                            *)
LEMMA SameInput ==
  ASSUME input' = input, current' = current
  PROVE  /\ stream' = stream /\ limit' = limit /\ ceiling' = ceiling
         /\ block' = block /\ nblock' = nblock /\ Whole' = Whole
         /\ \A n \in Nat : Before(n)' = Before(n)
  BY DEF input, ceiling, block, nblock, Whole, Before

LEMMA StartsBlock ==
  ASSUME Inv, TypeOK', StartBlock
  PROVE  InBlock'
<1>1. TypeOK /\ output = Before(current - 1)
  BY DEF Inv, FitInv, AtHeader, StartBlock
<1>2. /\ input' = input /\ current' = current /\ output' = output
      /\ nblock_used' = 1 /\ k0_pending' = TRUE /\ state_out_ch' = 0 /\ state_out_len' = 0
      /\ current <= Len(stream.blocks)
  BY DEF StartBlock
<1>3. block \in Seq(Byte) /\ block' = block
  BY <1>1, <1>2, BlockType, SameInput
<1>4. consumed' = 0
  BY <1>2 DEF consumed
<1>5. Got' = Blank
  <2>1. Got' = ReadUpTo(block)[0]
    BY <1>3, <1>4 DEF Got
  <2> QED
    BY <1>3, <2>1, ReadUpToIs
<1>6. RunEnds'
  BY <1>5 DEF RunEnds, Blank
<1>7. Due' = output
  <2>1. output \in Seq(Byte) /\ Before(current - 1)' = Before(current - 1)
    BY <1>1, <1>2 DEF TypeOK, Before, input
  <2>2. Due' = Before(current - 1)' \o <<>>
    BY <1>2, <1>5 DEF Due, Blank
  <2> QED
    BY <1>1, <2>1, <2>2, ConcatEmpty
<1>8. (output \o Copies(state_out_ch, state_out_len))' = Due'
  <2>1. output \in Seq(Byte)
    BY <1>1 DEF TypeOK
  <2>2. Copies(state_out_ch', 0) = <<>>
    BY DEF Copies
  <2> QED
    BY <1>2, <1>7, <2>1, <2>2, ConcatEmpty
<1> QED
  BY <1>2, <1>6, <1>8 DEF InBlock

LEMMA LeavesBlock ==
  ASSUME Inv, TypeOK', StopForRoom \/ EndAfterCount
  PROVE  AfterBlock'
<1>1. /\ pc = "block" /\ TypeOK
      /\ input' = input /\ current' = current /\ output' = output
  BY DEF StopForRoom, EndAfterCount, BetweenRuns, Inv, FitInv
<1>2. /\ Due \in Seq(Byte) /\ Before(current) \in Seq(Byte)
      /\ Begins(Due, Before(current))
      /\ consumed = nblock => Due = Before(current)
  BY <1>1, DueType
<1>3. output \o Copies(state_out_ch, state_out_len) = Due \/ Cut(Due)
  BY <1>1 DEF Inv, InBlock
<1>4. output \in Seq(Byte) /\ state_out_ch \in Byte /\ state_out_len \in Nat
  <2>1. output \in Seq(Byte) /\ state_out_ch \in Byte /\ state_out_len \in 0 .. 259
    BY <1>1 DEF TypeOK
  <2> QED
    BY <2>1
<1>5. Before(current)' = Before(current)
  BY <1>1 DEF Before, input
<1>6. CASE IsFull
  <2>1. Begins(output, Due)
    <3>1. Copies(state_out_ch, state_out_len) \in Seq(Byte)
      BY <1>4, CopiesType
    <3> QED
      BY <1>3, <1>4, <3>1, BeginsLonger DEF Cut
  <2>2. Begins(output, Before(current)) 
    BY <1>2, <1>4, <2>1, BeginsOn
  <2>3. IsFull'
    BY <1>1, <1>6 DEF IsFull, ceiling, input
  <2> QED
    BY <1>1, <1>5, <2>2, <2>3 DEF AfterBlock, Cut
<1>7. CASE ~IsFull
  <2>1. /\ ~k0_pending /\ state_out_len = 0
        /\ nblock_used = nblock
    BY <1>1, <1>7 DEF StopForRoom, EndAfterCount, BetweenRuns, Inv, InBlock
  <2>2. consumed = nblock
    BY <2>1 DEF consumed
  <2>3. Copies(state_out_ch, state_out_len) = <<>>
    BY <2>1 DEF Copies
  <2>4. output = Before(current)
    BY <1>2, <1>3, <1>4, <1>7, <2>2, <2>3, ConcatEmpty DEF Cut
  <2> QED
    BY <1>1, <1>5, <2>4 DEF AfterBlock
<1> QED
  BY <1>6, <1>7

LEMMA EmitsRun ==
  ASSUME Inv, TypeOK', EmitRun
  PROVE  InBlock' /\ AfterBlock'
<1>1. /\ pc = "block" /\ TypeOK /\ ~IsFull
      /\ input' = input /\ current' = current
      /\ nblock_used' = nblock_used /\ k0_pending' = k0_pending
      /\ state_out_ch' = state_out_ch
      /\ Emit(state_out_ch, state_out_len)
      /\ state_out_len' = state_out_len - Lesser(state_out_len, Room)
      /\ IF state_out_len' > 0 \/ Len(output') >= ceiling
           THEN pc' = "returned" ELSE pc' = pc
  BY DEF EmitRun, Inv, FitInv, ReturnBlock
<1>2. /\ Due \in Seq(Byte) /\ Before(current) \in Seq(Byte)
      /\ Begins(Due, Before(current))
  BY <1>1, DueType
<1>3. Due = output \o Copies(state_out_ch, state_out_len)
  BY <1>1 DEF Inv, InBlock, Cut
<1>4. state_out_ch \in Byte /\ state_out_len \in Nat
  <2>1. state_out_ch \in Byte /\ state_out_len \in 0 .. 259
    BY <1>1 DEF TypeOK
  <2> QED
    BY <2>1
<1>5. /\ stream' = stream /\ limit' = limit /\ ceiling' = ceiling
      /\ block' = block /\ nblock' = nblock /\ Before(current)' = Before(current)
      /\ Before(current - 1)' = Before(current - 1)
  BY <1>1, SameInput DEF Before, input
<1>6. /\ output' \in Seq(Byte) /\ Begins(output', Due)
      /\ output' \o Copies(state_out_ch, state_out_len') = Due
      /\ state_out_len' = 0 \/ IsFull'
  <2>1. limit' = limit
    BY <1>5
  <2>2. /\ output' \in Seq(Byte) /\ Begins(output', Due)
        /\ output' \o Copies(state_out_ch, state_out_len - Lesser(state_out_len, Room)) = Due
        /\ Lesser(state_out_len, Room) = state_out_len \/ IsFull'
    BY <1>1, <1>2, <1>3, <1>4, <2>1, EmitFollows
  <2> QED
    BY <1>1, <1>4, <2>2
<1>7. Due' = Due /\ RunEnds' = RunEnds
  <2>1. consumed' = consumed
    BY <1>1 DEF consumed
  <2>2. Got' = Got
    BY <1>5, <2>1 DEF Got
  <2> QED
    BY <1>1, <1>5, <2>2 DEF Due, RunEnds
<1>8. InBlock'
  <2> SUFFICES ASSUME pc' = "block" PROVE InBlock'
    BY DEF InBlock
  <2>1. RunEnds /\ (~k0_pending => nblock_used = nblock)
    BY <1>1 DEF Inv, InBlock
  <2>2. output' \o Copies(state_out_ch', state_out_len') = Due'
    BY <1>1, <1>6, <1>7
  <2> QED
    BY <1>1, <1>5, <1>7, <2>1, <2>2 DEF InBlock
<1>9. AfterBlock'
  <2> SUFFICES ASSUME pc' = "returned" PROVE Cut(Before(current))'
    BY DEF AfterBlock
  <2>1. IsFull'
    <3>1. state_out_len' > 0 \/ Len(output') >= ceiling
      BY <1>1
    <3>2. CASE state_out_len' > 0
      BY <1>6, <3>2
    <3>3. CASE Len(output') >= ceiling
      BY <1>5, <3>3 DEF IsFull
    <3> QED
      BY <3>1, <3>2, <3>3
  <2>2. Begins(output', Before(current))
    BY <1>2, <1>6, BeginsOn
  <2> QED
    BY <1>5, <2>1, <2>2 DEF Cut
<1> QED
  BY <1>8, <1>9

(* What a new run finds.                                                    *)
LEMMA RunBegins ==
  ASSUME Inv, BetweenRuns, k0_pending,
         NEW count \in 1 .. 4, RunOf(count)
  PROVE  /\ TypeOK /\ pc = "block" /\ ~IsFull /\ output = Due /\ nblock \in Nat
         /\ block \in Seq(Byte) /\ nblock = Len(block)
         /\ nblock_used \in 1 .. nblock /\ block[nblock_used] \in Byte
         /\ Got.out \in Seq(Byte) /\ Before(current - 1) \in Seq(Byte)
         /\ ReadUpTo(block)[nblock_used + count - 1] =
              [out |-> Got.out \o Copies(block[nblock_used], count),
               row |-> count, last |-> block[nblock_used]]
<1>1. TypeOK /\ pc = "block" /\ ~IsFull /\ state_out_len = 0
  BY DEF Inv, FitInv, BetweenRuns
<1>2. /\ block \in Seq(Byte) /\ nblock = Len(block) /\ nblock \in Nat
      /\ nblock_used \in 1 .. nblock /\ block[nblock_used] \in Byte
  <2>1. current <= Len(stream.blocks) /\ nblock_used \in 1 .. nblock
    BY <1>1 DEF TypeOK
  <2> QED
    BY <1>1, <2>1, BlockType DEF nblock
<1>3. Got \in Reading /\ Before(current - 1) \in Seq(Byte)
  BY <1>1, DueType
<1>4. Got.out \in Seq(Byte)
  BY <1>3 DEF Reading
<1>5. output = Due
  <2>1. output \o Copies(state_out_ch, state_out_len) = Due
    BY <1>1 DEF Inv, InBlock, Cut
  <2>2. Copies(state_out_ch, state_out_len) = <<>> /\ output \in Seq(Byte)
    BY <1>1 DEF Copies, TypeOK
  <2> QED
    BY <2>1, <2>2, ConcatEmpty
<1>6. Got.row = 0 \/ (Got.row < 4 /\ Got.last # block[nblock_used])
  BY <1>1 DEF Inv, InBlock, RunEnds
<1>7. Got = ReadUpTo(block)[nblock_used - 1]
  BY DEF Got, consumed
<1>8. /\ nblock_used + count - 1 <= Len(block)
      /\ \A j \in nblock_used .. nblock_used + count - 1 : block[j] = block[nblock_used]
  BY <1>2 DEF RunOf
<1>9. ReadUpTo(block)[nblock_used + count - 1] =
              [out |-> Got.out \o Copies(block[nblock_used], count),
               row |-> count, last |-> block[nblock_used]]
  <2>1. nblock_used \in 1 .. Len(block)
    BY <1>2
  <2> QED
    BY <1>2, <1>6, <1>7, <1>8, <2>1, RowIsRead
<1> QED
  BY <1>1, <1>2, <1>3, <1>4, <1>5, <1>9

(* A short run and one the block ends in emit what they read.               *)
LEMMA RunsAreRead ==
  ASSUME Inv, TypeOK', NEW count \in 1 .. 4,
         (count < 4 /\ ShortRun(count)) \/ EndInRun(count)
  PROVE  InBlock' /\ AfterBlock'
<1> DEFINE c == block[nblock_used]
           due == Due \o Copies(c, count)
           row == [out |-> Got.out \o Copies(c, count), row |-> count, last |-> c]
<1>1. /\ BetweenRuns /\ k0_pending /\ RunOf(count) /\ Emit(c, count)
      /\ input' = input /\ current' = current /\ k0_pending' = k0_pending
      /\ state_out_len' = state_out_len
  BY DEF ShortRun, EndInRun
<1>2. /\ TypeOK /\ pc = "block" /\ ~IsFull /\ output = Due /\ nblock \in Nat
      /\ block \in Seq(Byte) /\ nblock = Len(block)
      /\ nblock_used \in 1 .. nblock /\ c \in Byte
      /\ Got.out \in Seq(Byte) /\ Before(current - 1) \in Seq(Byte)
      /\ ReadUpTo(block)[nblock_used + count - 1] = row
  BY <1>1, RunBegins
<1>3. /\ stream' = stream /\ limit' = limit /\ ceiling' = ceiling
      /\ block' = block /\ nblock' = nblock /\ Before(current)' = Before(current)
      /\ Before(current - 1)' = Before(current - 1)
  BY <1>1, SameInput DEF Before, input
<1>4. count \in Nat /\ count >= 1 /\ count <= 4
  OBVIOUS
<1>5. Copies(c, count) \in Seq(Byte)
  BY <1>2, <1>4, CopiesType
<1>6. due \in Seq(Byte) /\ due = Before(current - 1) \o row.out
  <2>1. Due = Before(current - 1) \o Got.out
    BY DEF Due
  <2>2. Due \in Seq(Byte)
    BY <1>2, <2>1, ConcatIs
  <2>3. Due \o Copies(c, count) \in Seq(Byte)
    BY <1>5, <2>2, ConcatIs
  <2>4. (Before(current - 1) \o Got.out) \o Copies(c, count)
          = Before(current - 1) \o (Got.out \o Copies(c, count))
    BY <1>2, <1>5, Assoc
  <2> QED
    BY <2>1, <2>3, <2>4
<1>7. /\ output' \in Seq(Byte) /\ Begins(output', due)
      /\ output' = due \/ IsFull'
  <2>1. due = output \o Copies(c, count)
    BY <1>2
  <2> HIDE DEF c, due
  <2>2. /\ output' \in Seq(Byte) /\ Begins(output', due)
        /\ output' \o Copies(c, count - Lesser(count, Room)) = due
        /\ Lesser(count, Room) = count \/ IsFull'
    BY <1>1, <1>2, <1>3, <1>4, <1>6, <2>1, EmitFollows
  <2>3. ASSUME Lesser(count, Room) = count PROVE output' = due
    <3>1. count - Lesser(count, Room) = 0
      BY <1>4, <2>3
    <3>2. Copies(c, 0) = <<>>
      BY DEF Copies
    <3> QED
      BY <2>2, <3>1, <3>2, ConcatEmpty
  <2> QED
    BY <2>2, <2>3
<1> HIDE DEF c, due
<1>8. CASE count < 4 /\ ShortRun(count)
  <2>1. /\ nblock_used' = nblock_used + count /\ pc' = "block"
        /\ nblock_used + count <= nblock /\ ~RunOf(count + 1)
        /\ state_out_len' = 0
    BY <1>8, <1>2 DEF ShortRun, BetweenRuns
  <2>2. consumed' = nblock_used + count - 1
    BY <1>1, <1>2, <1>4, <2>1 DEF consumed
  <2>3. Got' = row
    BY <1>2, <1>3, <2>2 DEF Got
  <2>4. Due' = due
    BY <1>1, <1>3, <1>6, <2>3 DEF Due
  <2>5. block[nblock_used + count] # c
    <3>1. /\ \A j \in nblock_used .. nblock_used + count - 1 : block[j] = c
      BY <1>1 DEF RunOf, c
    <3>2. PICK j \in nblock_used .. nblock_used + (count + 1) - 1 : block[j] # c
      BY <1>2, <1>4, <2>1 DEF RunOf, c
    <3>3. j = nblock_used + count
      BY <1>2, <1>4, <3>1, <3>2
    <3> QED
      BY <3>2, <3>3
  <2>6. RunEnds'
    <3>1. row.row < 4 /\ row.last # block[nblock_used + count]
      BY <1>4, <1>8, <2>5
    <3> HIDE DEF row
    <3> QED
      BY <1>3, <2>1, <2>3, <3>1 DEF RunEnds
  <2>7. (output \o Copies(state_out_ch, state_out_len))' = Due' \/ Cut(Due)'
    <3>1. Copies(state_out_ch', 0) = <<>>
      BY DEF Copies
    <3>2. output' \o Copies(state_out_ch', state_out_len') = output'
      BY <1>7, <2>1, <3>1, ConcatEmpty
    <3> QED
      BY <1>7, <2>4, <3>2 DEF Cut
  <2> QED
    BY <1>1, <2>1, <2>6, <2>7 DEF InBlock, AfterBlock
<1>9. CASE EndInRun(count)
  <2>1. pc' = "returned" /\ nblock_used + count - 1 = nblock
    BY <1>9 DEF EndInRun, ReturnBlock
  <2>2. row = ReadUpTo(block)[Len(block)]
    BY <1>2, <2>1
  <2>3. Before(current) = Before(current - 1) \o Unpacked(block)
    <3>1. /\ stream.blocks \in Seq(Seq(Byte))
          /\ current \in 1 .. Len(stream.blocks)
      <4>1. /\ stream.blocks \in Seq(Seq(Byte)) /\ Len(stream.blocks) \in Nat
            /\ current \in 1 .. Len(stream.blocks) + 1
            /\ current <= Len(stream.blocks)
        BY <1>2, BlocksType, DueType
      <4> QED
        BY <4>1
    <3> QED
      BY <3>1, JoinedIs DEF Before, block
  <2>4. due = Before(current)
    BY <1>6, <2>2, <2>3 DEF Unpacked
  <2>5. output' = Before(current) \/ Cut(Before(current))'
    BY <1>3, <1>7, <2>4 DEF Cut
  <2> QED
    BY <1>1, <1>3, <2>1, <2>5 DEF InBlock, AfterBlock
<1> QED
  BY <1>8, <1>9

(* Four equal bytes and their count become one run.                         *)
LEMMA RepeatIsRead ==
  ASSUME Inv, TypeOK', Repeat
  PROVE  InBlock'
<1> DEFINE c == block[nblock_used]
           k == block[nblock_used + 4]
           row == [out |-> Got.out \o Copies(c, 4), row |-> 4, last |-> c]
           read == [out |-> row.out \o Copies(c, k), row |-> 0, last |-> c]
<1>1. /\ BetweenRuns /\ k0_pending /\ RunOf(4) /\ nblock_used + 4 <= nblock
      /\ input' = input /\ current' = current /\ pc' = pc /\ output' = output
      /\ state_out_ch' = c /\ state_out_len' = k + 4
      /\ nblock_used' = Lesser(nblock_used + 5, nblock)
      /\ k0_pending' = (nblock_used + 5 <= nblock)
  BY DEF Repeat
<1>2. /\ TypeOK /\ pc = "block" /\ ~IsFull /\ output = Due /\ nblock \in Nat
      /\ block \in Seq(Byte) /\ nblock = Len(block)
      /\ nblock_used \in 1 .. nblock /\ c \in Byte
      /\ Got.out \in Seq(Byte) /\ Before(current - 1) \in Seq(Byte)
      /\ ReadUpTo(block)[nblock_used + 4 - 1] = row
  <2>1. 4 \in 1 .. 4
    OBVIOUS
  <2> QED
    BY <1>1, <2>1, RunBegins
<1>3. nblock_used + 4 \in 1 .. Len(block) /\ (nblock_used + 4) - 1 = nblock_used + 4 - 1
  BY <1>1, <1>2
<1>4. k \in Byte /\ k \in Nat
  <2>1. k \in Byte
    BY <1>2, <1>3
  <2> QED
    BY <2>1 DEF Byte
<1>5. ReadUpTo(block)[nblock_used + 4] = read
  <2>1. ReadUpTo(block)[nblock_used + 4] = Read(row, k)
    BY <1>2, <1>3, ReadUpToIs
  <2>2. row.row = 4 /\ row.last = c
    OBVIOUS
  <2> HIDE DEF row, c, k
  <2> QED
    BY <2>1, <2>2 DEF Read
<1>6. /\ Copies(c, 4) \in Seq(Byte) /\ Copies(c, k) \in Seq(Byte)
      /\ Copies(c, 4) \o Copies(c, k) = Copies(c, k + 4)
  <2>1. 4 \in Nat /\ 4 + k = k + 4
    BY <1>4
  <2> HIDE DEF c, k
  <2>2. Copies(c, 4) \o Copies(c, k) = Copies(c, 4 + k)
    BY <1>2, <1>4, <2>1, CopiesSplit
  <2> QED
    BY <1>2, <1>4, <2>1, <2>2, CopiesType
<1> HIDE DEF c, k
<1>7. read.out = Got.out \o Copies(c, k + 4)
  <2>1. (Got.out \o Copies(c, 4)) \o Copies(c, k) = Got.out \o (Copies(c, 4) \o Copies(c, k))
    BY <1>2, <1>6, Assoc
  <2> QED
    BY <1>6, <2>1
<1>8. consumed' = nblock_used + 4
  <2>1. CASE nblock_used + 5 <= nblock
    <3>1. k0_pending'
      BY <1>1, <2>1
    <3>2. nblock_used' = nblock_used + 5
      BY <1>1, <1>2, <2>1 DEF Lesser
    <3> QED
      BY <1>2, <3>1, <3>2 DEF consumed
  <2>2. CASE ~(nblock_used + 5 <= nblock)
    <3>1. ~k0_pending'
      BY <1>1, <2>2
    <3>2. nblock_used' = nblock
      BY <1>1, <1>2, <2>2 DEF Lesser
    <3> QED
      BY <1>1, <1>2, <2>2, <3>1, <3>2 DEF consumed
  <2> QED
    BY <2>1, <2>2
<1>9. /\ block' = block /\ nblock' = nblock /\ Before(current - 1)' = Before(current - 1)
  BY <1>1, SameInput DEF Before, input
<1>10. Got' = read
  BY <1>5, <1>8, <1>9 DEF Got
<1>11. Due' = output' \o Copies(state_out_ch', state_out_len')
  <2>1. Due' = Before(current - 1) \o (Got.out \o Copies(c, k + 4))
    BY <1>1, <1>7, <1>9, <1>10 DEF Due
  <2>2. Copies(c, k + 4) \in Seq(Byte)
    BY <1>6, ConcatIs
  <2>3. Due' = (Before(current - 1) \o Got.out) \o Copies(c, k + 4)
    BY <1>2, <2>1, <2>2, Assoc
  <2> QED
    BY <1>1, <1>2, <2>3 DEF Due
<1>12. RunEnds'
  BY <1>10 DEF RunEnds
<1>13. ~k0_pending' => nblock_used' = nblock
  <2>1. ASSUME ~k0_pending' PROVE ~(nblock_used + 5 <= nblock)
    BY <1>1, <2>1
  <2> QED
    BY <1>1, <1>2, <2>1 DEF Lesser
<1> QED
  BY <1>9, <1>11, <1>12, <1>13 DEF InBlock

LEMMA InitFollows == Init => Inv
<1> SUFFICES ASSUME Init PROVE Inv
  OBVIOUS
<1>1. FitInv /\ TypeOK
  BY InitFits DEF FitInv
<1>2. pc = "header" /\ current = 1 /\ output = <<>>
  BY DEF Init, AtStart
<1>3. Before(current - 1) = <<>>
  <2>1. current - 1 = 0
    BY <1>2
  <2>2. Joined(stream.blocks)[0] = <<>>
    BY <1>1, BlocksType, JoinedIs
  <2> QED
    BY <2>1, <2>2 DEF Before
<1> QED
  BY <1>1, <1>2, <1>3 DEF Inv, AtHeader, InBlock, AfterBlock, AtEnd

LEMMA NextFollows ==
  ASSUME Inv, [Next]_vars
  PROVE  Inv'
<1>1. FitInv /\ FitInv' /\ TypeOK /\ TypeOK'
  BY NextFits DEF Inv, FitInv
<1>2. /\ Len(stream.blocks) \in Nat /\ current \in 1 .. Len(stream.blocks) + 1
      /\ \A n \in 0 .. Len(stream.blocks) :
           Before(n) \in Seq(Byte) /\ Begins(Before(n), Whole)
      /\ Whole \in Seq(Byte) /\ output \in Seq(Byte)
  BY <1>1, BlocksType DEF TypeOK
<1>3. AtHeader' /\ InBlock' /\ AfterBlock' /\ AtEnd'
  <2>1. CASE decompress_block
    <3>1. pc' \in {"block", "returned"}
      <4>1. CASE StartBlock
        BY <4>1 DEF StartBlock
      <4>2. CASE StopForRoom \/ EndAfterCount
        BY <4>2 DEF StopForRoom, EndAfterCount, ReturnBlock
      <4>3. CASE EmitRun
        BY <4>3 DEF EmitRun, ReturnBlock
      <4>4. ASSUME NEW count \in 1 .. 4, ShortRun(count) \/ EndInRun(count)
            PROVE  pc' \in {"block", "returned"}
        BY <4>4 DEF ShortRun, EndInRun, BetweenRuns, ReturnBlock
      <4>5. CASE Repeat
        BY <4>5 DEF Repeat, BetweenRuns
      <4> QED
        BY <2>1, <4>1, <4>2, <4>3, <4>4, <4>5 DEF decompress_block
    <3>2. AtHeader' /\ AtEnd'
      BY <3>1 DEF AtHeader, AtEnd
    <3>3. InBlock' /\ AfterBlock'
      <4>1. CASE StartBlock
        BY <1>1, <4>1, StartsBlock DEF StartBlock, AfterBlock
      <4>2. CASE StopForRoom \/ EndAfterCount
        <5>1. pc' = "returned"
          BY <4>2 DEF StopForRoom, EndAfterCount, ReturnBlock
        <5> QED
          BY <1>1, <4>2, <5>1, LeavesBlock DEF InBlock
      <4>3. CASE EmitRun
        BY <1>1, <4>3, EmitsRun
      <4>4. ASSUME NEW count \in 1 .. 3, ShortRun(count)
            PROVE  InBlock' /\ AfterBlock'
        <5>1. count \in 1 .. 4 /\ count < 4
          OBVIOUS
        <5> QED
          BY <1>1, <4>4, <5>1, RunsAreRead
      <4>5. ASSUME NEW count \in 1 .. 4, EndInRun(count)
            PROVE  InBlock' /\ AfterBlock'
        BY <1>1, <4>5, RunsAreRead
      <4>6. CASE Repeat
        BY <1>1, <4>6, RepeatIsRead DEF Repeat, BetweenRuns, AfterBlock
      <4> QED
        BY <2>1, <4>1, <4>2, <4>3, <4>4, <4>5, <4>6 DEF decompress_block
    <3> QED
      BY <3>2, <3>3
  <2>2. CASE EndOfStream \/ FailStream
    <3>1. /\ pc = "header" /\ pc' \in {"done", "failed"} /\ output' = output
          /\ input' = input /\ current' = current /\ current > Len(stream.blocks)
      BY <2>2 DEF EndOfStream, FailStream
    <3>2. output = Before(current - 1) /\ (current = 1 \/ ~IsFull)
      BY <3>1 DEF Inv, AtHeader
    <3>3. current - 1 = Len(stream.blocks)
      <4>1. Len(stream.blocks) \in Nat /\ current \in 1 .. Len(stream.blocks) + 1
        BY <1>2
      <4>2. current > Len(stream.blocks)
        BY <3>1
      <4> QED
        BY <4>1, <4>2
    <3>4. output = Whole
      BY <3>2, <3>3 DEF Before, Whole
    <3>5. stream.blocks = <<>> \/ ~IsFull
      <4>1. ASSUME current = 1 PROVE stream.blocks = <<>>
        <5>1. Len(stream.blocks) = 0 /\ stream.blocks \in Seq(Seq(Byte))
          BY <1>1, <1>2, <3>3, <4>1, BlocksType
        <5> QED
          BY <5>1
      <4> QED
        BY <3>2, <4>1
    <3>6. Whole' = Whole /\ stream' = stream /\ IsFull' = IsFull
      BY <3>1 DEF Whole, input, IsFull, ceiling
    <3> QED
      BY <3>1, <3>4, <3>5, <3>6 DEF AtHeader, InBlock, AfterBlock, AtEnd
  <2>3. CASE NextBlock
    <3>1. /\ pc = "returned" /\ pc' = "header" /\ output' = output /\ ~IsFull
          /\ input' = input /\ current' = current + 1
      BY <2>3 DEF NextBlock
    <3>2. output = Before(current)
      BY <3>1 DEF Inv, AfterBlock, Cut
    <3>3. current' - 1 = current /\ IsFull' = IsFull
      BY <1>2, <3>1 DEF IsFull, ceiling, input
    <3>4. Before(current - 1)' = Before(current)
      BY <3>1, <3>3 DEF Before, input
    <3> QED
      BY <3>1, <3>2, <3>3, <3>4 DEF AtHeader, InBlock, AfterBlock, AtEnd
  <2>4. CASE StopAtLimit \/ RefuseTooLarge
    <3>1. /\ pc = "returned" /\ output' = output /\ IsFull
          /\ input' = input /\ current' = current
          /\ \/ pc' = "done" /\ limit.kind # "Capped"
             \/ pc' = "too large" /\ limit.kind = "Capped"
      BY <2>4 DEF StopAtLimit, RefuseTooLarge
    <3>2. Begins(output, Before(current)) /\ Begins(Before(current), Whole)
          /\ Before(current) \in Seq(Byte)
      <4>1. current \in 0 .. Len(stream.blocks)
        <5>1. current <= Len(stream.blocks)
          BY <1>1, <3>1 DEF TypeOK
        <5> QED
          BY <1>2, <5>1
      <4>2. Before(current) \in Seq(Byte) /\ Begins(Before(current), Whole)
        BY <1>2, <4>1
      <4>3. output = Before(current) \/ Begins(output, Before(current))
        BY <3>1 DEF Inv, AfterBlock, Cut
      <4> QED
        BY <4>2, <4>3, BeginsItself
    <3>3. Begins(output, Whole)
      BY <1>2, <3>2, BeginsOn
    <3>4. /\ IsFull' = IsFull /\ Whole' = Whole /\ limit' = limit
          /\ stream' = stream
      BY <3>1 DEF IsFull, ceiling, Whole, input
    <3> QED
      BY <3>1, <3>3, <3>4 DEF AtHeader, InBlock, AfterBlock, AtEnd, Cut
  <2>5. CASE Finished \/ UNCHANGED vars
    <3>1. UNCHANGED vars
      BY <2>5 DEF Finished
    <3>2. /\ IsFull' = IsFull /\ Whole' = Whole /\ RunEnds' = RunEnds
          /\ Due' = Due /\ nblock' = nblock
          /\ Before(current - 1)' = Before(current - 1)
          /\ Before(current)' = Before(current)
      BY <3>1 DEF vars, input, runVars, IsFull, ceiling, Whole, RunEnds, Due, Got,
                  consumed, nblock, block, Before
    <3> QED
      BY <3>1, <3>2 DEF vars, input, runVars, Inv, AtHeader, InBlock, AfterBlock,
                        AtEnd, Cut
  <2> QED
    BY <2>1, <2>2, <2>3, <2>4, <2>5 DEF Next
<1> QED
  BY <1>1, <1>3 DEF Inv

(* What the invariant says of a decoder that has stopped.                   *)
LEMMA EndsRight ==
  ASSUME Inv
  PROVE  NothingIsMissing /\ CapRefusesExcess /\ DamageBehindTheLimitIsIgnored
<1>1. TypeOK /\ CapKept /\ ResultFitsTheLimit
  BY DEF Inv, FitInv
<1>2. /\ Whole \in Seq(Byte) /\ output \in Seq(Byte)
      /\ Len(Whole) \in Nat /\ Len(output) \in Nat
  <2>1. Whole \in Seq(Byte) /\ output \in Seq(Byte)
    BY <1>1, BlocksType DEF TypeOK
  <2> QED
    BY <2>1
<1>3. /\ limit.size \in Nat
      /\ limit.kind = "Capped" => ceiling = limit.size + 1
      /\ limit.kind # "Capped" => ceiling = limit.size
      /\ Len(output) <= ceiling
  BY <1>1, LimitType
<1>4. NothingIsMissing
  <2> SUFFICES ASSUME pc = "done"
               PROVE  output = SubSeq(Whole, 1, Lesser(limit.size, Len(Whole)))
    BY DEF NothingIsMissing
  <2>1. Len(output) <= limit.size
    BY <1>1 DEF ResultFitsTheLimit
  <2>2. Begins(output, Whole) /\ Len(output) = Lesser(limit.size, Len(Whole))
    <3>1. CASE output = Whole
      BY <1>2, <1>3, <2>1, <3>1, BeginsItself DEF Lesser
    <3>2. CASE limit.kind # "Capped" /\ Cut(Whole)
      <4>1. Begins(output, Whole) /\ Len(output) = limit.size
        BY <1>2, <1>3, <2>1, <3>2 DEF Cut, IsFull
      <4>2. Len(output) <= Len(Whole)
        BY <4>1 DEF Begins
      <4> QED
        BY <1>2, <1>3, <4>1, <4>2 DEF Lesser
    <3> QED
      BY <3>1, <3>2 DEF Inv, AtEnd
  <2> DEFINE n == Len(output)
  <2>3. n \in Nat /\ n <= Len(Whole) /\ \A i \in 1 .. n : output[i] = Whole[i]
    BY <1>2, <2>2 DEF Begins
  <2>4. output = SubSeq(Whole, 1, n)
    BY <1>2, <2>3
  <2> QED
    BY <2>2, <2>4
<1>5. CapRefusesExcess
  <2> SUFFICES ASSUME Terminated
               PROVE  pc = "too large" <=> limit.kind = "Capped" /\ Len(Whole) > limit.size
    BY DEF CapRefusesExcess
  <2>1. ASSUME pc = "too large"
        PROVE  limit.kind = "Capped" /\ Len(Whole) > limit.size
    <3>1. limit.kind = "Capped" /\ Len(output) >= ceiling /\ Len(output) <= Len(Whole)
      BY <2>1 DEF Inv, AtEnd, Cut, IsFull, Begins
    <3> QED
      BY <1>2, <1>3, <3>1
  <2>2. ASSUME pc # "too large", limit.kind = "Capped"
        PROVE  ~(Len(Whole) > limit.size)
    <3>1. CASE pc = "done"
      <4>1. output = Whole /\ Len(output) <= limit.size
        BY <1>1, <2>2, <3>1 DEF Inv, AtEnd, ResultFitsTheLimit
      <4> QED
        BY <1>2, <1>3, <4>1
    <3>2. CASE pc = "failed"
      <4>1. output = Whole /\ (stream.blocks = <<>> \/ ~IsFull)
        BY <3>2 DEF Inv, AtEnd
      <4>2. CASE ~IsFull
        <5>1. ceiling = limit.size + 1
          BY <1>3, <2>2
        <5>2. ~(Len(Whole) >= ceiling)
          BY <4>1, <4>2 DEF IsFull
        <5> QED
          BY <1>2, <1>3, <5>1, <5>2
      <4>3. CASE stream.blocks = <<>>
        <5>1. stream.blocks \in Seq(Seq(Byte)) /\ Len(stream.blocks) = 0
          BY <1>1, <4>3, BlocksType
        <5>2. Whole = <<>>
          BY <5>1, JoinedIs DEF Whole
        <5>3. Len(Whole) = 0
          BY <5>2
        <5> QED
          BY <1>3, <5>3
      <4> QED
        BY <4>1, <4>2, <4>3
    <3> QED
      BY <2>2, <3>1, <3>2 DEF Terminated
  <2> QED
    BY <2>1, <2>2
<1>6. DamageBehindTheLimitIsIgnored
  <2> SUFFICES ASSUME pc = "failed", stream.blocks # <<>>
               PROVE  Len(Whole) < ceiling
    BY DEF DamageBehindTheLimitIsIgnored
  <2>1. output = Whole /\ ~IsFull
    BY DEF Inv, AtEnd
  <2>2. ceiling \in Nat
    BY <1>1, CeilingType
  <2> QED
    BY <1>2, <2>1, <2>2 DEF IsFull
<1> QED
  BY <1>4, <1>5, <1>6

LEMMA AlwaysFollows == Spec => []Inv
<1>1. Init => Inv
  BY InitFollows
<1>2. Inv /\ [Next]_vars => Inv'
  BY NextFollows
<1> QED
  BY <1>1, <1>2, PTL DEF Spec

(* Whatever the blocks hold and wherever the limit cuts them, a decode that *)
(* succeeds returns exactly the first bytes the blocks say, byte for byte,  *)
(* as many as the limit asks for and the stream has.                        *)
THEOREM OutputIsWhatTheBlocksSay == Spec => []NothingIsMissing
<1>1. Inv => NothingIsMissing
  BY EndsRight
<1> QED
  BY <1>1, AlwaysFollows, PTL

(* A cap refuses every stream that says more than it and no other, whatever *)
(* comes after the blocks.                                                  *)
THEOREM CapIsExact == Spec => []CapRefusesExcess
<1>1. Inv => CapRefusesExcess
  BY EndsRight
<1> QED
  BY <1>1, AlwaysFollows, PTL

(* A decode fails for what comes after the blocks only if it had to read on *)
(* to find the bytes it was asked for.                                      *)
THEOREM LaterDamageIsNotRead == Spec => []DamageBehindTheLimitIsIgnored
<1>1. Inv => DamageBehindTheLimitIsIgnored
  BY EndsRight
<1> QED
  BY <1>1, AlwaysFollows, PTL
===============================================================================
