------------------------------ MODULE Bzip2Stream -------------------------------
(***************************************************************************)
(* decompress_bzip2: a stream is read under the layout of NSIS 2 and 3,    *)
(* and, whatever goes wrong, once more under that of NSIS 1.  Bzip2Block   *)
(* says what a layout makes of the bits, Bzip2Rle decodes it under the     *)
(* limit.  Reading ahead changes nothing: Bzip2Rle looks at a block, or at *)
(* damage, only when it gets there.                                        *)
(***************************************************************************)
EXTENDS Bzip2Rle, Bzip2Block

CONSTANT Written   (* What was packed: blocks, what follows, the layout.   *)

Writer == INSTANCE Bzip2Writer

VARIABLES
  written,   (* What was packed; never changes.                            *)
  reading,   (* What each layout makes of its bits; never changes.         *)
  layout,    (* The layout of this attempt.                                *)
  modern     (* What the first attempt failed with, if it has.             *)

attempt    == <<written, reading, layout, modern>>
streamVars == <<attempt, vars>>

BlockLayout == {"Modern", "Nsis1"}

StreamInit ==
  /\ written \in Written
  /\ layout = "Modern" /\ modern = "none"
  /\ reading = [l \in BlockLayout |-> read_stream(Writer!PackedBits(written), l)]
  /\ stream = reading["Modern"]
  /\ limit \in Limits
  /\ AtStart

decompress_bzip2_inner ==
  /\ \/ EndOfStream \/ FailStream \/ decompress_block
     \/ NextBlock \/ StopAtLimit \/ RefuseTooLarge
  /\ UNCHANGED attempt

(* Any error of the first attempt, a cap that is passed too.               *)
TryNsis1 ==
  /\ layout = "Modern" /\ pc \in {"failed", "too large"}
  /\ layout' = "Nsis1" /\ modern' = pc
  /\ stream' = reading["Nsis1"]
  /\ pc' = "header" /\ current' = 1
  /\ nblock_used' = 0 /\ k0_pending' = FALSE
  /\ state_out_ch' = 0 /\ state_out_len' = 0
  /\ stopped' = FALSE /\ output' = <<>> /\ truncated' = FALSE
  /\ UNCHANGED <<written, reading, limit>>

(* decompress_bzip2 has returned; an error is the one in `modern`.         *)
Returned == pc = "done" \/ (Terminated /\ layout = "Nsis1")

Idle == Returned /\ UNCHANGED streamVars

StreamNext == decompress_bzip2_inner \/ TryNsis1 \/ Idle

(* One call on one thread: it runs until it returns.                       *)
StreamSpec == StreamInit /\ [][StreamNext]_streamVars /\ WF_streamVars(StreamNext)

-----------------------------------------------------------------------------
(* Properties.                                                             *)

(* What was packed, run lengths undone.                                    *)
Original == FlattenSeq([i \in DOMAIN written.blocks |-> Unpacked(written.blocks[i])])

PassesCap == limit.kind = "Capped" /\ Len(Original) > limit.size

(* The limit is looked at behind a block only.                             *)
DamageIsMet ==
  written.tail # "end" /\ (written.blocks = <<>> \/ Len(Original) < ceiling)

(* A result called truncated fills the limit; one that is not lacks at     *)
(* most three bytes: the rest of a run that ends its block and meets the   *)
(* limit, which the decoder drops in silence.                              *)
TruncationIsTold ==
  IF truncated THEN Len(output) = limit.size
               ELSE Len(Original) - Len(output) <= 3

(* Nothing in a stream says which release packed it, and the layouts are   *)
(* one bit apart: still, what comes out is what was packed, as far as the  *)
(* limit goes, and the flag tells what the limit took from it; an error    *)
(* means damage or a passed cap; and for a stream of NSIS 2 or 3 it says   *)
(* which.                                                                  *)
StreamReadsAsWritten ==
  Returned =>
    IF pc = "done"
      THEN /\ output = SubSeq(Original, 1, Lesser(limit.size, Len(Original)))
           /\ TruncationIsTold
      ELSE /\ PassesCap \/ DamageIsMet
           /\ written.layout = "Modern" => (modern = "too large" <=> PassesCap)

(* The call returns on every stream.                                       *)
CallReturns == <>Returned
================================================================================
