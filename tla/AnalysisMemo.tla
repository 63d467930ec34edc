----------------------------- MODULE AnalysisMemo -----------------------------
(***************************************************************************)
(* What script_analysis() promises its callers: there is one analysis of   *)
(* an installer, decided once, and every successful call returns it.       *)
(***************************************************************************)
CONSTANTS Callers, Analyses, Undecided

VARIABLES
  value,    (* The analysis, once there is one.                            *)
  answers   (* What each caller was given so far.                          *)

Init ==
  /\ value = Undecided
  /\ answers = [c \in Callers |-> {}]

Decide ==
  /\ value = Undecided
  /\ value' \in Analyses
  /\ UNCHANGED answers

Answer(c) ==
  /\ value # Undecided
  /\ answers' = [answers EXCEPT ![c] = @ \cup {value}]
  /\ UNCHANGED value

Next == Decide \/ \E c \in Callers : Answer(c)

Spec == Init /\ [][Next]_<<value, answers>>
===============================================================================
