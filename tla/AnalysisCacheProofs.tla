-------------------------- MODULE AnalysisCacheProofs --------------------------
(***************************************************************************)
(* Theorems about AnalysisCache, for every set of callers and any number   *)
(* of calls.                                                               *)
(***************************************************************************)
EXTENDS AnalysisCache, TLAPS

(* A caller that is about to analyse has not reached its bound.            *)
Bounded ==
  \A c \in Callers : pc[c] \in {"get", "analyze"} => made[c] < MaxAnalyses

(* A caller that has analysed a readable installer either still has its    *)
(* copy in hand or left the cell filled, so it does not miss again.        *)
Spent ==
  readable =>
    \A c \in Callers :
      /\ made[c] <= 1
      /\ made[c] = 1 => pc[c] \in {"publish", "write"} \/ cell # Empty
      /\ pc[c] = "analyze" => made[c] = 0

IInv == TypeOK /\ Bounded /\ Spent

LEMMA InitIInv == Init => IInv
BY CallersAssumption, BoundAssumption DEF Init, IInv, TypeOK, Bounded, Spent

LEMMA StepTypes == IInv /\ [Next]_vars => TypeOK'
<1>. SUFFICES ASSUME IInv, [Next]_vars PROVE TypeOK'
  OBVIOUS
<1>. USE CallersAssumption, BoundAssumption, EmptyAssumption
     DEF IInv, TypeOK, Goto
<1>1. ASSUME NEW c \in Callers, Call(c) PROVE TypeOK'
  BY <1>1 DEF Call
<1>2. ASSUME NEW c \in Callers, Hit(c) PROVE TypeOK'
  BY <1>2 DEF Hit, Return
<1>3. ASSUME NEW c \in Callers, Miss(c) PROVE TypeOK'
  BY <1>3 DEF Miss
<1>4. ASSUME NEW c \in Callers, Analyze(c) PROVE TypeOK'
  <2>1. made' \in [Callers -> 0 .. MaxAnalyses]
    BY <1>4 DEF Analyze, Bounded
  <2>. QED BY <1>4, <2>1 DEF Analyze
<1>5. ASSUME NEW c \in Callers, Claim(c) PROVE TypeOK'
  BY <1>5 DEF Claim
<1>6. ASSUME NEW c \in Callers, Write(c) PROVE TypeOK'
  <2>1. cell' \in Analyses
    BY <1>6 DEF Write, Analyses
  <2>. QED BY <1>6, <2>1 DEF Write
<1>7. ASSUME NEW c \in Callers, Take(c) PROVE TypeOK'
  BY <1>7 DEF Take, Return
<1>8. CASE Quiet \/ UNCHANGED vars
  BY <1>8 DEF Quiet, vars
<1>. QED BY <1>1, <1>2, <1>3, <1>4, <1>5, <1>6, <1>7, <1>8 DEF Next, Step

LEMMA StepIInv == IInv /\ [Next]_vars => IInv'
<1>. SUFFICES ASSUME IInv, [Next]_vars PROVE Bounded' /\ Spent'
  BY StepTypes DEF IInv
<1>. USE EmptyAssumption DEF IInv, TypeOK, Bounded, Spent, Goto
<1>1. ASSUME NEW c \in Callers, Call(c) PROVE Bounded' /\ Spent'
  BY <1>1 DEF Call
<1>2. ASSUME NEW c \in Callers, Hit(c) PROVE Bounded' /\ Spent'
  BY <1>2 DEF Hit
<1>3. ASSUME NEW c \in Callers, Miss(c) PROVE Bounded' /\ Spent'
  BY <1>3 DEF Miss
<1>4. ASSUME NEW c \in Callers, Analyze(c) PROVE Bounded' /\ Spent'
  BY <1>4 DEF Analyze
<1>5. ASSUME NEW c \in Callers, Claim(c) PROVE Bounded' /\ Spent'
  BY <1>5 DEF Claim
<1>6. ASSUME NEW c \in Callers, Write(c) PROVE Bounded' /\ Spent'
  <2>1. cell' # Empty
    BY <1>6 DEF Write, Analyses
  <2>. QED BY <1>6, <2>1 DEF Write
<1>7. ASSUME NEW c \in Callers, Take(c) PROVE Bounded' /\ Spent'
  BY <1>7 DEF Take
<1>8. CASE Quiet \/ UNCHANGED vars
  BY <1>8 DEF Quiet, vars
<1>. QED BY <1>1, <1>2, <1>3, <1>4, <1>5, <1>6, <1>7, <1>8 DEF Next, Step

LEMMA Reached == Spec => []IInv
BY InitIInv, StepIInv, PTL DEF Spec

(* The cell is typed, and written only by its one claimant while empty.    *)
THEOREM TypeCorrect == Spec => []TypeOK
<1>1. IInv => TypeOK
  BY DEF IInv
<1>. QED BY <1>1, Reached, PTL

(* However the calls of script_analysis() overlap, each thread analyses a  *)
(* readable installer at most once.                                        *)
THEOREM OneAnalysisEach == Spec => []AnalysedOnce
<1>1. IInv => AnalysedOnce
  BY DEF IInv, Spent, AnalysedOnce
<1>. QED BY <1>1, Reached, PTL

(* The race of script_analysis() on its OnceLock implements a memo: one    *)
(* value, decided once, given to every caller.                             *)
THEOREM CacheImplementsMemo == Spec => ImplementsMemo
<1>1. Init => Memo!Init
  BY DEF Init, Memo!Init
<1>2. ASSUME IInv, [Next]_vars PROVE [Memo!Next]_<<cell, answers>>
  <2>1. ASSUME NEW c \in Callers, Hit(c) \/ Take(c) PROVE Memo!Answer(c)
    BY <2>1 DEF Hit, Take, Return, Memo!Answer
  <2>2. ASSUME NEW c \in Callers, Write(c) PROVE Memo!Decide
    <3>1. pc[c] = "write" /\ writer = c /\ cell = Empty
      BY <1>2, <2>2, CallersAssumption DEF Write, Goto, IInv, TypeOK
    <3>2. cell' \in Analyses
      BY <1>2, <2>2 DEF Write, Analyses, IInv, TypeOK
    <3>. QED BY <2>2, <3>1, <3>2 DEF Memo!Decide, Write
  <2>3. ASSUME NEW c \in Callers, Call(c) \/ Miss(c) \/ Analyze(c) \/ Claim(c)
        PROVE  UNCHANGED <<cell, answers>>
    BY <2>3 DEF Call, Miss, Analyze, Claim
  <2>4. CASE Quiet \/ UNCHANGED vars
    BY <2>4 DEF Quiet, vars
  <2>. QED BY <1>2, <2>1, <2>2, <2>3, <2>4 DEF Next, Step, Memo!Next
<1>. QED BY <1>1, <1>2, Reached, PTL DEF Spec, ImplementsMemo, Memo!Spec
===============================================================================
