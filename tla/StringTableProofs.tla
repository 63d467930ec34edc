--------------------------- MODULE StringTableProofs ---------------------------
(* The recursion of expand_lang is bounded and never enters a string inside *)
(* itself, its output is bounded by the expansions, and what it produces is *)
(* what the string means: for every language table and pair of limits.  And *)
(* the path a string stands for stays below its directory.                  *)
EXTENDS LangExpand, StringCodecs, WellFoundedInduction, TLAPS

Frames == [index : Index \cup {NoIndex}, rest : String]

LEMMA FrameType ==
  ASSUME NEW i \in Index \cup {NoIndex}, NEW s \in String
  PROVE  Frame(i, s) \in Frames /\ Frame(i, s).index = i
  BY DEF Frame, Frames

(* What the table has of a string that can be read.                         *)
LEMMA TextType ==
  ASSUME IsTable(table), NEW i \in DOMAIN table, table[i].ok
  PROVE  i \in Index /\ table[i].string \in String
<1>1. table[i] \in Reading /\ i \in Index
  BY DEF IsTable
<1>2. table[i] \in [ok : {TRUE}, string : String]
  BY <1>1 DEF Reading
<1> QED
  BY <1>1, <1>2

LEMMA HeadAndTail ==
  ASSUME NEW s \in String, s # <<>>
  PROVE  /\ Head(s) \in Segment /\ Tail(s) \in String
         /\ Len(s) \in Nat /\ Len(Tail(s)) = Len(s) - 1 /\ Len(s) >= 1
  BY DEF String

(* Appending a frame, dropping the last one, moving it on.                  *)
LEMMA AppendFrame ==
  ASSUME NEW s \in Seq(Frames), NEW f \in Frames
  PROVE  /\ Append(s, f) \in Seq(Frames) /\ Len(Append(s, f)) = Len(s) + 1
         /\ Append(s, f) # <<>>
         /\ \A k \in 1 .. Len(s) : Append(s, f)[k] = s[k]
         /\ Append(s, f)[Len(s) + 1] = f
  OBVIOUS

LEMMA DropFrame ==
  ASSUME NEW s \in Seq(Frames), Len(s) > 1
  PROVE  /\ SubSeq(s, 1, Len(s) - 1) \in Seq(Frames)
         /\ Len(SubSeq(s, 1, Len(s) - 1)) = Len(s) - 1
         /\ SubSeq(s, 1, Len(s) - 1) # <<>>
         /\ \A k \in 1 .. Len(s) - 1 : SubSeq(s, 1, Len(s) - 1)[k] = s[k]
<1> DEFINE n == Len(s) - 1
<1>1. n \in Nat /\ n >= 1 /\ n <= Len(s)
  OBVIOUS
<1>2. SubSeq(s, 1, n) = [k \in 1 .. n |-> s[k]]
  BY <1>1
<1>3. \A k \in 1 .. n : s[k] \in Frames
  BY <1>1
<1> HIDE DEF n
<1>4. SubSeq(s, 1, n) \in Seq(Frames) /\ Len(SubSeq(s, 1, n)) = n
  BY <1>1, <1>2, <1>3
<1>5. \A k \in 1 .. n : SubSeq(s, 1, n)[k] = s[k]
  BY <1>2
<1>6. SubSeq(s, 1, n) # <<>>
  BY <1>1, <1>4
<1> QED
  BY <1>4, <1>5, <1>6 DEF n

LEMMA AdvanceFrame ==
  ASSUME stack \in Seq(Frames), stack # <<>>, Top.rest # <<>>
  PROVE  /\ Advanced \in Seq(Frames) /\ Len(Advanced) = Len(stack)
         /\ Advanced # <<>>
         /\ \A k \in 1 .. Len(stack) : Advanced[k].index = stack[k].index
         /\ Visiting \in Segment
<1>1. Len(stack) \in 1 .. Len(stack) /\ DOMAIN stack = 1 .. Len(stack)
  OBVIOUS
<1>2. \A k \in 1 .. Len(stack) : stack[k] \in Frames
  BY <1>1
<1>3. Top \in Frames
  BY <1>1, <1>2 DEF Top
<1>4. Top.rest \in String /\ Top.index \in Index \cup {NoIndex}
  BY <1>3 DEF Frames
<1>5. Tail(Top.rest) \in String /\ Visiting \in Segment
  BY <1>4, HeadAndTail DEF Visiting
<1> DEFINE f == [Top EXCEPT !.rest = Tail(Top.rest)]
<1>6. f \in Frames /\ f.index = Top.index
  BY <1>3, <1>5 DEF Frames
<1>7. Advanced = [stack EXCEPT ![Len(stack)] = f]
  BY DEF Advanced, Top
<1> HIDE DEF f
<1>8. Advanced \in Seq(Frames) /\ Len(Advanced) = Len(stack)
  BY <1>1, <1>6, <1>7
<1>9. \A k \in 1 .. Len(stack) : Advanced[k].index = stack[k].index
  BY <1>1, <1>6, <1>7 DEF Top
<1> QED
  BY <1>1, <1>5, <1>8, <1>9

-----------------------------------------------------------------------------

Inv == TypeOK /\ NoStringInsideItself

LEMMA InitInv == Init => Inv
<1> SUFFICES ASSUME Init PROVE Inv
  OBVIOUS
<1>1. IsTable(table) /\ call \in Call
  BY TablesAssumption, CallsAssumption DEF Init
<1>2. stack \in Seq([index : Index \cup {NoIndex}, rest : String]) /\ Len(stack) = 0
  BY DEF Init
<1>3. out \in String /\ budget \in 0 .. MaxLangExpansions
  BY LimitsAssumption DEF Init, String
<1>4. NoStringInsideItself
  BY DEF Init, NoStringInsideItself
<1> QED
  BY <1>1, <1>2, <1>3, <1>4, LimitsAssumption DEF Init, Inv, TypeOK

(* Each outermost frame is the only one.                                    *)
LEMMA OneFrame ==
  ASSUME NEW i \in Index \cup {NoIndex}, NEW s \in String,
         stack' = <<Frame(i, s)>>
  PROVE  /\ stack' \in Seq(Frames) /\ Len(stack') = 1 /\ stack' # <<>>
         /\ NoStringInsideItself'
<1>1. Frame(i, s) \in Frames
  BY FrameType
<1>2. stack' \in Seq(Frames) /\ Len(stack') = 1 /\ stack' # <<>> /\ DOMAIN stack' = {1}
  BY <1>1
<1> QED
  BY <1>2 DEF NoStringInsideItself

LEMMA NextInv ==
  ASSUME Inv, [Next]_vars
  PROVE  Inv'
<1>1. /\ IsTable(table) /\ call \in Call
      /\ stack \in Seq(Frames) /\ Len(stack) <= MaxLangDepth + 1
      /\ pc = "expand" => stack # <<>>
      /\ budget \in 0 .. MaxLangExpansions /\ out \in String
      /\ NoStringInsideItself
      /\ MaxLangDepth \in Nat \ {0} /\ MaxLangExpansions \in Nat
  BY LimitsAssumption DEF Inv, TypeOK, Frames
<1>2. CASE ReadLang
  <2>1. call.index \in Index /\ table[call.index].string \in String
    BY <1>1, <1>2, TextType DEF ReadLang
  <2>2. /\ stack' \in Seq(Frames) /\ Len(stack') = 1 /\ stack' # <<>>
        /\ NoStringInsideItself'
    BY <1>2, <2>1, OneFrame DEF ReadLang
  <2> QED
    BY <1>1, <1>2, <2>2 DEF ReadLang, Inv, TypeOK, Frames
<1>3. CASE ReadLangFails
  BY <1>1, <1>3 DEF ReadLangFails, Inv, TypeOK, NoStringInsideItself, Frames
<1>4. CASE ResolveLang
  <2>1. call.string \in String
    <3>1. call.name = "resolve_lang"
      BY <1>4 DEF ResolveLang
    <3>2. call \in [name : {"resolve_lang"}, string : String]
      BY <1>1, <3>1 DEF Call
    <3> QED
      BY <3>2
  <2>2. /\ stack' \in Seq(Frames) /\ Len(stack') = 1 /\ stack' # <<>>
        /\ NoStringInsideItself'
    BY <1>4, <2>1, OneFrame DEF ResolveLang
  <2> QED
    BY <1>1, <1>4, <2>2 DEF ResolveLang, Inv, TypeOK, Frames
<1>5. CASE CopySegment
  <2>1. /\ Advanced \in Seq(Frames) /\ Len(Advanced) = Len(stack)
        /\ Advanced # <<>>
        /\ \A k \in 1 .. Len(stack) : Advanced[k].index = stack[k].index
        /\ Visiting \in Segment
    BY <1>1, <1>5, AdvanceFrame DEF CopySegment, AtSegment
  <2>2. out' \in String
    BY <1>1, <1>5, <2>1 DEF CopySegment, String
  <2>3. NoStringInsideItself'
    BY <1>1, <1>5, <2>1 DEF CopySegment, NoStringInsideItself
  <2> QED
    BY <1>1, <1>5, <2>1, <2>2, <2>3 DEF CopySegment, Inv, TypeOK, Frames
<1>6. CASE Expand
  <2> DEFINE f == Frame(Visiting.value, table[Visiting.value].string)
  <2>1. /\ Advanced \in Seq(Frames) /\ Len(Advanced) = Len(stack)
        /\ \A k \in 1 .. Len(stack) : Advanced[k].index = stack[k].index
    BY <1>1, <1>6, AdvanceFrame DEF Expand, AtSegment
  <2>2. /\ Visiting.value \in Index /\ table[Visiting.value].string \in String
        /\ ~OnPath(Visiting.value) /\ PathLength < MaxLangDepth /\ budget > 0
    BY <1>1, <1>6, TextType DEF Expand, MayExpand
  <2>3. f \in Frames /\ f.index = Visiting.value
    BY <2>2, FrameType
  <2>4. stack' = Append(Advanced, f)
    BY <1>6 DEF Expand
  <2> HIDE DEF f
  <2>5. /\ stack' \in Seq(Frames) /\ Len(stack') = Len(stack) + 1
        /\ stack' # <<>>
        /\ \A k \in 1 .. Len(stack) : stack'[k] = Advanced[k]
        /\ stack'[Len(stack) + 1] = f
    BY <2>1, <2>3, <2>4, AppendFrame
  <2>6. Len(stack') <= MaxLangDepth + 1
    BY <1>1, <2>2, <2>5 DEF PathLength
  <2>7. budget' \in 0 .. MaxLangExpansions
    BY <1>1, <1>6, <2>2 DEF Expand
  <2>8. NoStringInsideItself'
    <3>1. \A k \in 1 .. Len(stack) : stack'[k].index = stack[k].index
      BY <2>1, <2>5
    <3>2. \A k \in 1 .. Len(stack) : stack'[k].index # stack'[Len(stack) + 1].index
      BY <2>2, <2>3, <2>5, <3>1, <1>1 DEF OnPath
    <3>3. DOMAIN stack' = 1 .. Len(stack) + 1
      BY <2>5
    <3>4. Len(stack) \in Nat
      BY <1>1
    <3>5. \A j, k \in 1 .. Len(stack) : stack[j].index = stack[k].index => j = k
      BY <1>1 DEF NoStringInsideItself
    <3> SUFFICES ASSUME NEW j \in 1 .. Len(stack) + 1, NEW k \in 1 .. Len(stack) + 1,
                        stack'[j].index = stack'[k].index
                 PROVE  j = k
      BY <3>3 DEF NoStringInsideItself
    <3>6. CASE j \in 1 .. Len(stack) /\ k \in 1 .. Len(stack)
      BY <3>1, <3>5, <3>6
    <3>7. CASE j = Len(stack) + 1 \/ k = Len(stack) + 1
      BY <3>2, <3>4, <3>7
    <3> QED
      BY <3>4, <3>6, <3>7
  <2> QED
    BY <1>1, <1>6, <2>5, <2>6, <2>7, <2>8 DEF Expand, Inv, TypeOK, Frames
<1>7. CASE ExpandFails
  <2>1. budget' \in 0 .. MaxLangExpansions
    BY <1>1, <1>7 DEF ExpandFails, MayExpand
  <2> QED
    BY <1>1, <1>7, <2>1
    DEF ExpandFails, Inv, TypeOK, NoStringInsideItself, Frames
<1>8. CASE Pop
  <2>1. /\ stack' \in Seq(Frames) /\ Len(stack') = Len(stack) - 1
        /\ stack' # <<>>
        /\ \A k \in 1 .. Len(stack) - 1 : stack'[k] = stack[k]
    BY <1>1, <1>8, DropFrame DEF Pop
  <2>2. DOMAIN stack' = 1 .. Len(stack) - 1 /\ DOMAIN stack = 1 .. Len(stack)
    BY <1>1, <2>1
  <2>3. NoStringInsideItself'
    BY <1>1, <2>1, <2>2 DEF NoStringInsideItself
  <2>4. Len(stack') <= MaxLangDepth + 1
    BY <1>1, <2>1
  <2> QED
    BY <1>1, <1>8, <2>1, <2>3, <2>4 DEF Pop, Inv, TypeOK, Frames
<1>9. CASE Return
  BY <1>1, <1>9 DEF Return, Inv, TypeOK, NoStringInsideItself, Frames
<1>10. CASE Finished \/ UNCHANGED vars
  <2>1. UNCHANGED vars
    BY <1>10 DEF Finished
  <2> QED
    BY <1>1, <2>1 DEF vars, Inv, TypeOK, NoStringInsideItself, IsTable, Frames
<1> QED
  BY <1>2, <1>3, <1>4, <1>5, <1>6, <1>7, <1>8, <1>9, <1>10 DEF Next, expand_lang

(* The recursion stays within the limit on nesting and the expansions are   *)
(* never overdrawn.                                                         *)
THEOREM TypeCorrect == Spec => []TypeOK
<1>1. Init => Inv
  BY InitInv
<1>2. Inv /\ [Next]_vars => Inv'
  BY NextInv
<1>3. Inv => TypeOK
  BY DEF Inv
<1> QED
  BY <1>1, <1>2, <1>3, PTL DEF Spec

(* No cycle of references makes a string expand inside its own expansion.   *)
THEOREM NeverInsideItself == Spec => []NoStringInsideItself
<1>1. Init => Inv
  BY InitInv
<1>2. Inv /\ [Next]_vars => Inv'
  BY NextInv
<1>3. Inv => NoStringInsideItself
  BY DEF Inv
<1> QED
  BY <1>1, <1>2, <1>3, PTL DEF Spec

-----------------------------------------------------------------------------
(* Why a call ends: four numbers, of which each step lowers one and leaves  *)
(* those before it as they are.                                             *)

Stage == IF Terminated THEN 0 ELSE IF pc = "expand" THEN 1 ELSE 2
Ahead == IF pc = "expand" THEN Len(Top.rest) ELSE 0

Counts == Stage \in 0 .. 2 /\ budget \in Nat /\ Len(stack) \in Nat /\ Ahead \in Nat

CountsDown ==
  \/ Stage' < Stage
  \/ /\ Stage' = Stage
     /\ \/ budget' < budget
        \/ budget' = budget /\ Len(stack') < Len(stack)
        \/ budget' = budget /\ Len(stack') = Len(stack) /\ Ahead' < Ahead

LEMMA AdvanceShortens ==
  ASSUME stack \in Seq(Frames), stack # <<>>, Top.rest # <<>>
  PROVE  /\ Len(Advanced) = Len(stack)
         /\ Advanced[Len(Advanced)].rest = Tail(Top.rest)
         /\ Len(Tail(Top.rest)) < Len(Top.rest)
<1>1. Len(stack) \in 1 .. Len(stack) /\ DOMAIN stack = 1 .. Len(stack)
  OBVIOUS
<1>2. Top \in Frames
  BY <1>1 DEF Top
<1>3. Top.rest \in String /\ Top \in [index : Index \cup {NoIndex}, rest : String]
  BY <1>2 DEF Frames
<1> DEFINE f == [Top EXCEPT !.rest = Tail(Top.rest)]
<1>4. f.rest = Tail(Top.rest)
  BY <1>3
<1>5. Advanced = [stack EXCEPT ![Len(stack)] = f]
  BY DEF Advanced, Top
<1> HIDE DEF f
<1>6. Len(Advanced) = Len(stack) /\ Advanced[Len(stack)] = f
  BY <1>1, <1>5
<1> QED
  BY <1>3, <1>4, <1>6, HeadAndTail

LEMMA CountsAre ==
  ASSUME Inv
  PROVE  Counts
<1>1. /\ stack \in Seq(Frames) /\ budget \in 0 .. MaxLangExpansions
      /\ pc = "expand" => stack # <<>>
      /\ pc \in {"call", "expand", "done", "failed"} /\ MaxLangExpansions \in Nat
  BY LimitsAssumption DEF Inv, TypeOK, Frames
<1>2. Ahead \in Nat
  <2>1. CASE pc = "expand"
    <3>1. Len(stack) \in DOMAIN stack
      BY <1>1, <2>1
    <3>2. Top \in Frames
      BY <1>1, <3>1 DEF Top
    <3>3. Top.rest \in String
      BY <3>2 DEF Frames
    <3> QED
      BY <2>1, <3>3 DEF Ahead, String
  <2> QED
    BY <2>1 DEF Ahead
<1>3. Stage \in 0 .. 2 /\ budget \in Nat /\ Len(stack) \in Nat
  BY <1>1 DEF Stage
<1> QED
  BY <1>2, <1>3 DEF Counts

LEMMA StepCountsDown ==
  ASSUME Inv, Next, vars' # vars
  PROVE  CountsDown
<1>1. /\ stack \in Seq(Frames) /\ budget \in 0 .. MaxLangExpansions
      /\ pc = "expand" => stack # <<>>
      /\ MaxLangExpansions \in Nat
  BY LimitsAssumption DEF Inv, TypeOK, Frames
<1>2. CASE ReadLang \/ ReadLangFails \/ ResolveLang
  BY <1>2 DEF ReadLang, ReadLangFails, ResolveLang, CountsDown, Stage, Terminated
<1>3. CASE CopySegment
  <2>1. /\ pc = "expand" /\ pc' = pc /\ budget' = budget /\ stack' = Advanced
        /\ Top.rest # <<>>
    BY <1>3 DEF CopySegment, AtSegment
  <2>2. Len(stack') = Len(stack) /\ Ahead' < Ahead
    BY <1>1, <2>1, AdvanceShortens DEF Ahead, Top
  <2>3. Stage' = Stage
    BY <2>1 DEF Stage, Terminated
  <2> QED
    BY <2>1, <2>2, <2>3 DEF CountsDown
<1>4. CASE Expand
  <2>1. Stage' = Stage
    BY <1>4 DEF Expand, Stage, Terminated
  <2>2. budget' < budget
    BY <1>1, <1>4 DEF Expand
  <2> QED
    BY <2>1, <2>2 DEF CountsDown
<1>5. CASE ExpandFails \/ Return
  BY <1>5 DEF ExpandFails, Return, AtSegment, CountsDown, Stage, Terminated
<1>6. CASE Pop
  <2>1. Stage' = Stage /\ budget' = budget
    BY <1>6 DEF Pop, Stage, Terminated
  <2>2. Len(stack') < Len(stack)
    BY <1>1, <1>6, DropFrame DEF Pop
  <2> QED
    BY <2>1, <2>2 DEF CountsDown
<1> QED
  BY <1>2, <1>3, <1>4, <1>5, <1>6 DEF Next, expand_lang, Finished

(* expand_lang cannot go on for ever: each of its steps spends an expansion *)
(* or, none being spent, leaves a frame or moves on in one, and these are   *)
(* natural numbers.  Together with fairness and the absence of deadlock     *)
(* this is Termination, which the prover cannot state.                      *)
THEOREM EveryStepCountsDown == Spec => []Counts /\ [][CountsDown]_vars
<1>1. Init => Inv
  BY InitInv
<1>2. Inv /\ [Next]_vars => Inv'
  BY NextInv
<1>3. Inv => Counts
  BY CountsAre
<1>4. Inv /\ [Next]_vars => [CountsDown]_vars
  BY StepCountsDown
<1> QED
  BY <1>1, <1>2, <1>3, <1>4, PTL DEF Spec

-----------------------------------------------------------------------------
(* Induction, stated with a set: the theorems of the library that take an   *)
(* operator cannot be instantiated.                                         *)

LEMMA Inductively ==
  ASSUME NEW S, 0 \in S, \A n \in Nat : n \in S => n + 1 \in S
  PROVE  \A n \in Nat : n \in S
<1> SUFFICES ASSUME Nat \ S # {} PROVE FALSE
  OBVIOUS
<1> DEFINE Below == {ss \in Nat \X Nat : ss[1] < ss[2]}
<1>1. IsWellFoundedOn(Below, Nat)
  BY NatLessThanWellFounded DEF OpToRel
<1>2. Nat \ S \subseteq Nat
  OBVIOUS
<1>3. PICK x \in Nat \ S : \A y \in Nat \ S : <<y, x>> \notin Below
  BY <1>1, <1>2, WFMin
<1>4. x \in Nat /\ x # 0
  BY <1>3
<1>5. x - 1 \in Nat /\ <<x - 1, x>> \in Below
  BY <1>4
<1>6. x - 1 \in S
  <2> HIDE DEF Below
  <2> QED
    BY <1>3, <1>5
<1>7. (x - 1) + 1 \in S /\ (x - 1) + 1 = x
  BY <1>4, <1>5, <1>6
<1> QED
  BY <1>3, <1>7

(* A table is finite, so it has a longest string.                           *)
LEMMA LongestIs ==
  ASSUME TypeOK
  PROVE  /\ LongestText \in Nat
         /\ \A i \in DOMAIN table : table[i].ok => Len(table[i].string) <= LongestText
<1>0. MaxIndex \in Nat
  BY DEF MaxIndex
<1> DEFINE Good(i) == i \in DOMAIN table /\ table[i].ok
           L(i) == Len(table[i].string)
           Bounds(m, n) == /\ m = 0 \/ \E i \in DOMAIN table : Good(i) /\ L(i) = m
                           /\ \A i \in DOMAIN table : Good(i) /\ i < n => L(i) <= m
           Some(n) == \E m \in Nat : Bounds(m, n)
           S == {n \in Nat : Some(n)}
<1>1. ASSUME NEW i \in DOMAIN table
      PROVE  i \in 0 .. MaxIndex /\ (Good(i) => L(i) \in Nat)
  <2>1. i \in 0 .. MaxIndex
    <3>1. i \in Index
      BY DEF TypeOK, IsTable
    <3> QED
      BY <3>1, IndexAssumption
  <2>2. ASSUME Good(i) PROVE L(i) \in Nat
    <3>1. table[i].string \in String
      BY <2>2, TextType DEF TypeOK
    <3> QED
      BY <3>1 DEF String
  <2> QED
    BY <2>1, <2>2
<1> HIDE DEF Good, L
<1>2. Some(0)
  <2>1. Bounds(0, 0)
    BY <1>1, <1>0
  <2> QED
    BY <2>1
<1>3. ASSUME NEW n \in Nat, Some(n) PROVE Some(n + 1)
  <2>1. PICK m \in Nat : Bounds(m, n)
    BY <1>3
  <2>2. CASE \E i \in DOMAIN table : i = n /\ Good(n) /\ L(n) > m
    <3>1. n \in DOMAIN table /\ Good(n) /\ L(n) \in Nat /\ L(n) > m
      BY <1>1, <2>2
    <3>2. ASSUME NEW i \in DOMAIN table, Good(i), i < n + 1 PROVE L(i) <= L(n)
      <4>1. i \in 0 .. MaxIndex /\ L(i) \in Nat
        BY <1>1, <3>2
      <4>2. i = n \/ i < n
        BY <1>0, <3>2, <4>1
      <4> QED
        BY <2>1, <3>1, <3>2, <4>1, <4>2
    <3>3. Bounds(L(n), n + 1)
      BY <3>1, <3>2
    <3> QED
      BY <3>1, <3>3
  <2>3. CASE ~\E i \in DOMAIN table : i = n /\ Good(n) /\ L(n) > m
    <3>1. ASSUME NEW i \in DOMAIN table, Good(i), i < n + 1 PROVE L(i) <= m
      <4>1. i \in 0 .. MaxIndex /\ L(i) \in Nat
        BY <1>1, <3>1
      <4>2. i = n \/ i < n
        BY <1>0, <3>1, <4>1
      <4> QED
        BY <2>1, <2>3, <3>1, <4>1, <4>2
    <3>2. Bounds(m, n + 1)
      BY <2>1, <3>1
    <3> QED
      BY <3>2
  <2> QED
    BY <2>2, <2>3
<1>4. MaxIndex + 1 \in S
  <2>1. 0 \in S /\ \A n \in Nat : n \in S => n + 1 \in S
    <3> HIDE DEF Some
    <3> QED
      BY <1>2, <1>3
  <2> HIDE DEF S
  <2> QED
    BY <1>0, <2>1, Inductively
<1>5. PICK m \in Nat : Bounds(m, MaxIndex + 1)
  BY <1>4
<1>6. m \in TextLengths \cup {0} /\ \A n \in TextLengths : m >= n
  <2>1. m \in TextLengths \cup {0}
    BY <1>5 DEF TextLengths, Good, L
  <2>2. ASSUME NEW i \in DOMAIN table, table[i].ok PROVE m >= Len(table[i].string)
    <3>1. Good(i) /\ i \in 0 .. MaxIndex
      BY <1>1, <2>2 DEF Good
    <3>2. i < MaxIndex + 1
      BY <1>0, <3>1
    <3>3. L(i) <= m /\ L(i) \in Nat
      BY <1>1, <1>5, <3>1, <3>2
    <3> QED
      BY <3>3 DEF L
  <2> QED
    BY <2>1, <2>2 DEF TextLengths
<1>7. LongestText \in TextLengths \cup {0} /\ \A n \in TextLengths : LongestText >= n
  BY <1>6 DEF LongestText
<1>8. TextLengths \subseteq Nat
  BY <1>1 DEF TextLengths, Good, L
<1>9. ASSUME NEW i \in DOMAIN table, table[i].ok
      PROVE  Len(table[i].string) <= LongestText
  <2>1. Len(table[i].string) \in TextLengths
    BY <1>9 DEF TextLengths
  <2>2. Len(table[i].string) \in Nat /\ LongestText \in Nat
    BY <1>7, <1>8, <2>1
  <2> QED
    BY <1>7, <2>1, <2>2
<1> QED
  BY <1>7, <1>8, <1>9

-----------------------------------------------------------------------------
(* The segments still to be visited in all frames count as produced: each   *)
(* expansion adds at most one longest string to them.                       *)

Weighs(w, s) ==
  /\ w \in [0 .. Len(s) -> Nat]
  /\ w[0] = 0
  /\ \A k \in 1 .. Len(s) : w[k] = w[k - 1] + Len(s[k].rest)

Bound == StartLength + (MaxLangExpansions - budget) * LongestText

Owed == \E w : Weighs(w, stack) /\ Len(out) + w[Len(stack)] <= Bound

Fresh == pc = "call" => out = <<>> /\ budget = MaxLangExpansions

Spent == Inv /\ Fresh /\ Owed

LEMMA BoundIs ==
  ASSUME TypeOK
  PROVE  /\ StartLength \in Nat /\ LongestText \in Nat
         /\ MaxLangExpansions - budget \in Nat /\ Bound \in Nat
         /\ (MaxLangExpansions - budget) * LongestText \in Nat
<1>1. LongestText \in Nat
  BY LongestIs
<1>2. MaxLangExpansions - budget \in Nat
  BY LimitsAssumption DEF TypeOK
<1>3. StartLength \in Nat
  <2>1. CASE call.name = "resolve_lang"
    <3>1. call \in [name : {"resolve_lang"}, string : String]
      BY <2>1 DEF TypeOK, Call
    <3>2. call.string \in String
      BY <3>1
    <3> QED
      BY <2>1, <3>2 DEF StartLength, String
  <2>2. CASE call.name # "resolve_lang"
    BY <1>1, <2>2 DEF StartLength
  <2> QED
    BY <2>1, <2>2
<1> DEFINE n == MaxLangExpansions - budget
<1>4. n * LongestText \in Nat
  <2>1. n \in Nat
    BY <1>2
  <2> HIDE DEF n
  <2> QED
    BY <1>1, <2>1
<1> QED
  BY <1>1, <1>2, <1>3, <1>4 DEF Bound

LEMMA OneFrameWeighs ==
  ASSUME TypeOK, NEW i \in Index \cup {NoIndex}, NEW s \in String,
         out = <<>>, budget = MaxLangExpansions, Len(s) <= StartLength,
         stack' = <<Frame(i, s)>>, UNCHANGED <<table, call, budget, out>>
  PROVE  Owed'
<1> DEFINE w == [k \in 0 .. 1 |-> IF k = 0 THEN 0 ELSE Len(s)]
<1>1. Len(s) \in Nat
  BY DEF String
<1>2. Len(stack') = 1 /\ stack'[1].rest = s
  BY DEF Frame
<1>3. Weighs(w, stack')
  BY <1>1, <1>2 DEF Weighs
<1>4. Bound' = StartLength
  <2>1. Bound' = StartLength + (MaxLangExpansions - MaxLangExpansions) * LongestText
    BY DEF Bound, StartLength, LongestText, TextLengths
  <2> QED
    BY <2>1, BoundIs, LimitsAssumption
<1>5. Len(out') + w[Len(stack')] = Len(s)
  BY <1>1, <1>2
<1> HIDE DEF w
<1> QED
  BY <1>3, <1>4, <1>5 DEF Owed

LEMMA InitSpent == Init => Spent
<1> SUFFICES ASSUME Init PROVE Spent
  OBVIOUS
<1>1. Inv /\ TypeOK
  BY InitInv DEF Inv
<1>2. stack = <<>> /\ out = <<>>
  BY DEF Init
<1> DEFINE w == [k \in 0 .. 0 |-> 0]
<1>3. Weighs(w, stack) /\ w[Len(stack)] = 0
  BY <1>2 DEF Weighs
<1> HIDE DEF w
<1>4. Len(out) + w[Len(stack)] <= Bound
  BY <1>1, <1>2, <1>3, BoundIs
<1> QED
  BY <1>1, <1>3, <1>4 DEF Spent, Owed, Fresh, Init

(* Moving a frame on, pushing one, dropping one.                            *)
LEMMA RestType ==
  ASSUME NEW s \in Seq(Frames), NEW k \in 1 .. Len(s)
  PROVE  s[k].rest \in String /\ Len(s[k].rest) \in Nat
<1>1. s[k] \in Frames
  OBVIOUS
<1>2. s[k].rest \in String
  BY <1>1 DEF Frames
<1> QED
  BY <1>2 DEF String

LEMMA AdvanceWeighs ==
  ASSUME stack \in Seq(Frames), stack # <<>>, Top.rest # <<>>,
         NEW w, Weighs(w, stack)
  PROVE  \E v : Weighs(v, Advanced) /\ v[Len(stack)] = w[Len(stack)] - 1
<1> DEFINE n == Len(stack)
           v == [k \in 0 .. n |-> IF k = n THEN w[n] - 1 ELSE w[k]]
<1>1. n \in Nat /\ n >= 1
  OBVIOUS
<1>2. /\ w \in [0 .. n -> Nat] /\ w[0] = 0
      /\ \A k \in 1 .. n : w[k] = w[k - 1] + Len(stack[k].rest)
  BY DEF Weighs
<1>3. stack[n].rest \in String /\ stack[n].rest # <<>>
  <2>1. n \in 1 .. Len(stack)
    BY <1>1
  <2> QED
    BY <2>1, RestType DEF Top
<1>4. /\ Len(stack[n].rest) \in Nat /\ Len(stack[n].rest) >= 1
      /\ Len(Tail(stack[n].rest)) = Len(stack[n].rest) - 1
  BY <1>3 DEF String
<1>5. /\ Len(Advanced) = n
      /\ Advanced[n].rest = Tail(stack[n].rest)
      /\ \A k \in 1 .. n : k # n => Advanced[k] = stack[k]
  <2>1. \A k \in 1 .. n : stack[k] \in Frames
    OBVIOUS
  <2>2. stack[n] \in Frames
    BY <1>1, <2>1
  <2> QED
    BY <1>1, <2>2 DEF Advanced, Frames
<1>6. w[n] = w[n - 1] + Len(stack[n].rest) /\ w[n - 1] \in Nat /\ w[n] \in Nat
  BY <1>1, <1>2
<1>7. v \in [0 .. n -> Nat]
  BY <1>1, <1>2, <1>4, <1>6
<1>8. v[0] = 0
  BY <1>1, <1>2
<1>9. ASSUME NEW k \in 1 .. n PROVE v[k] = v[k - 1] + Len(Advanced[k].rest)
  <2>1. CASE k = n
    <3>1. v[k] = w[n] - 1 /\ v[k - 1] = w[n - 1]
      BY <1>1, <2>1
    <3>2. Len(Advanced[k].rest) = Len(stack[n].rest) - 1
      BY <1>4, <1>5, <2>1
    <3> HIDE DEF v, n
    <3> QED
      BY <1>4, <1>6, <3>1, <3>2
  <2>2. CASE k # n
    BY <1>1, <1>2, <1>5, <2>2
  <2> QED
    BY <2>1, <2>2
<1>10. v[n] = w[n] - 1
  BY <1>1
<1> HIDE DEF v
<1>11. Weighs(v, Advanced)
  BY <1>5, <1>7, <1>8, <1>9 DEF Weighs
<1> QED
  BY <1>10, <1>11

LEMMA AppendWeighs ==
  ASSUME NEW s \in Seq(Frames), NEW f \in Frames, NEW w, Weighs(w, s)
  PROVE  \E v : /\ Weighs(v, Append(s, f))
                /\ v[Len(s) + 1] = w[Len(s)] + Len(f.rest)
<1> DEFINE n == Len(s)
           a == Append(s, f)
           v == [k \in 0 .. n + 1 |-> IF k = n + 1 THEN w[n] + Len(f.rest) ELSE w[k]]
<1>1. n \in Nat
  OBVIOUS
<1>2. /\ w \in [0 .. n -> Nat] /\ w[0] = 0
      /\ \A k \in 1 .. n : w[k] = w[k - 1] + Len(s[k].rest)
  BY DEF Weighs
<1>3. Len(f.rest) \in Nat
  BY DEF Frames, String
<1>4. /\ Len(a) = n + 1 /\ \A k \in 1 .. n : a[k] = s[k]
      /\ a[n + 1] = f
  BY AppendFrame
<1> HIDE DEF a
<1>5. v \in [0 .. n + 1 -> Nat] /\ v[0] = 0 /\ v[n + 1] = w[n] + Len(f.rest)
  <2>1. w[n] \in Nat /\ \A k \in 0 .. n : w[k] \in Nat
    BY <1>1, <1>2
  <2> DEFINE m == Len(f.rest)
  <2>2. w[n] + m \in Nat
    BY <1>3, <2>1
  <2>3. \A k \in 0 .. n + 1 : k # n + 1 => k \in 0 .. n
    BY <1>1
  <2>4. 0 \in 0 .. n + 1 /\ n + 1 \in 0 .. n + 1 /\ 0 # n + 1
    BY <1>1
  <2> HIDE DEF m, n
  <2>5. \A k \in 0 .. n + 1 : (IF k = n + 1 THEN w[n] + m ELSE w[k]) \in Nat
    BY <2>1, <2>2, <2>3
  <2> QED
    BY <1>2, <2>4, <2>5 DEF m
<1>6. ASSUME NEW k \in 1 .. n + 1 PROVE v[k] = v[k - 1] + Len(a[k].rest)
  <2>1. CASE k = n + 1
    BY <1>1, <1>4, <2>1
  <2>2. CASE k # n + 1
    BY <1>1, <1>2, <1>4, <2>2
  <2> QED
    BY <2>1, <2>2
<1> HIDE DEF v
<1>7. Weighs(v, a)
  BY <1>4, <1>5, <1>6 DEF Weighs
<1> QED
  BY <1>5, <1>7 DEF a

LEMMA DropWeighs ==
  ASSUME stack \in Seq(Frames), Len(stack) > 1, Top.rest = <<>>,
         NEW w, Weighs(w, stack)
  PROVE  \E v : /\ Weighs(v, SubSeq(stack, 1, Len(stack) - 1))
                /\ v[Len(stack) - 1] = w[Len(stack)]
<1> DEFINE n == Len(stack)
           d == SubSeq(stack, 1, Len(stack) - 1)
           v == [k \in 0 .. n - 1 |-> w[k]]
<1>1. n \in Nat /\ n > 1
  OBVIOUS
<1>2. /\ w \in [0 .. n -> Nat] /\ w[0] = 0
      /\ \A k \in 1 .. n : w[k] = w[k - 1] + Len(stack[k].rest)
  BY DEF Weighs
<1>3. /\ Len(d) = n - 1 /\ \A k \in 1 .. n - 1 : d[k] = stack[k]
  BY DropFrame
<1> HIDE DEF d
<1>4. w[n] = w[n - 1]
  <2>1. w[n] = w[n - 1] + Len(stack[n].rest) /\ w[n - 1] \in Nat
    BY <1>1, <1>2
  <2>2. Len(stack[n].rest) = 0
    BY DEF Top
  <2> QED
    BY <2>1, <2>2
<1>5. v \in [0 .. n - 1 -> Nat] /\ v[0] = 0 /\ v[n - 1] = w[n - 1]
  BY <1>1, <1>2
<1>6. ASSUME NEW k \in 1 .. n - 1 PROVE v[k] = v[k - 1] + Len(d[k].rest)
  BY <1>1, <1>2, <1>3
<1> HIDE DEF v
<1>7. Weighs(v, d)
  BY <1>3, <1>5, <1>6 DEF Weighs
<1> QED
  BY <1>4, <1>5, <1>7 DEF d

LEMMA NextSpent ==
  ASSUME Spent, [Next]_vars
  PROVE  Spent'
<1>1. Inv /\ Inv' /\ TypeOK /\ Owed
  BY NextInv DEF Spent, Inv
<1>2. /\ IsTable(table) /\ call \in Call /\ stack \in Seq(Frames)
      /\ pc = "expand" => stack # <<>>
      /\ out \in String /\ Len(out) \in Nat /\ budget \in Int
  BY <1>1 DEF TypeOK, Frames, String
<1>3. /\ StartLength \in Nat /\ LongestText \in Nat
      /\ MaxLangExpansions - budget \in Nat /\ Bound \in Nat
  BY <1>1, BoundIs
<1>4. PICK w : Weighs(w, stack) /\ Len(out) + w[Len(stack)] <= Bound
  BY <1>1 DEF Owed
<1>5. w[Len(stack)] \in Nat
  BY <1>2, <1>4 DEF Weighs
<1>6. ASSUME table' = table, call' = call, budget' = budget
      PROVE  Bound' = Bound
  BY <1>6 DEF Bound, StartLength, LongestText, TextLengths
<1>7. ASSUME table' = table, call' = call, budget' = budget - 1
      PROVE  Bound' = Bound + LongestText
  <2> DEFINE n == MaxLangExpansions - budget
  <2>1. Bound' = StartLength + (MaxLangExpansions - (budget - 1)) * LongestText
    BY <1>7 DEF Bound, StartLength, LongestText, TextLengths
  <2>2. n \in Nat /\ MaxLangExpansions - (budget - 1) = n + 1
    BY <1>2, <1>3, LimitsAssumption
  <2>3. Bound' = StartLength + (n + 1) * LongestText /\ Bound = StartLength + n * LongestText
    BY <2>1, <2>2 DEF Bound
  <2> HIDE DEF n
  <2> QED
    BY <1>3, <2>2, <2>3
<1>8. Owed'
  <2>1. CASE ReadLang
    <3>1. /\ call.name = "read_lang" /\ call.index \in DOMAIN table /\ table[call.index].ok
          /\ stack' = <<Frame(call.index, table[call.index].string)>>
          /\ UNCHANGED <<table, call, budget, out>>
          /\ out = <<>> /\ budget = MaxLangExpansions
      BY <2>1 DEF ReadLang, Spent, Fresh
    <3>2. call.index \in Index /\ table[call.index].string \in String
      BY <1>2, <3>1, TextType
    <3>3. Len(table[call.index].string) <= StartLength
      BY <1>1, <3>1, LongestIs DEF StartLength
    <3> QED
      BY <1>1, <3>1, <3>2, <3>3, OneFrameWeighs
  <2>7. CASE ResolveLang
    <3>1. /\ call.name = "resolve_lang"
          /\ stack' = <<Frame(NoIndex, call.string)>>
          /\ UNCHANGED <<table, call, budget, out>>
          /\ out = <<>> /\ budget = MaxLangExpansions
      BY <2>7 DEF ResolveLang, Spent, Fresh
    <3>2. call.string \in String
      <4>1. call \in [name : {"resolve_lang"}, string : String]
        BY <1>2, <3>1 DEF Call
      <4> QED
        BY <4>1
    <3>3. Len(call.string) <= StartLength
      BY <3>1, <3>2 DEF StartLength, String
    <3> QED
      BY <1>1, <3>1, <3>2, <3>3, OneFrameWeighs
  <2>2. CASE CopySegment
    <3>1. /\ stack' = Advanced /\ out' = Append(out, Visiting) /\ Len(out') = Len(out) + 1
          /\ Len(Advanced) = Len(stack) /\ Bound' = Bound
      <4>1. /\ stack' = Advanced /\ out' = Append(out, Visiting)
            /\ UNCHANGED <<table, call, budget>>
        BY <2>2 DEF CopySegment
      <4>2. Len(Advanced) = Len(stack) /\ Visiting \in Segment
        BY <1>2, <2>2, AdvanceFrame DEF CopySegment, AtSegment
      <4> QED
        BY <1>2, <1>6, <4>1, <4>2 DEF String
    <3>2. PICK v : Weighs(v, Advanced) /\ v[Len(stack)] = w[Len(stack)] - 1
      BY <1>2, <1>4, <2>2, AdvanceWeighs DEF CopySegment, AtSegment
    <3>3. Len(out') + v[Len(stack')] <= Bound'
      BY <1>2, <1>3, <1>4, <1>5, <3>1, <3>2
    <3> QED
      BY <3>1, <3>2, <3>3 DEF Owed
  <2>3. CASE Expand
    <3> DEFINE text == table[Visiting.value].string
               f == Frame(Visiting.value, text)
    <3>1. /\ stack' = Append(Advanced, f) /\ out' = out /\ budget' = budget - 1
          /\ table' = table /\ call' = call
          /\ Visiting.value \in DOMAIN table /\ table[Visiting.value].ok
          /\ stack # <<>> /\ Top.rest # <<>>
      BY <1>2, <2>3 DEF Expand, MayExpand, AtSegment
    <3>2. Visiting.value \in Index /\ text \in String /\ Len(text) \in Nat
          /\ Len(text) <= LongestText
      <4>1. Visiting.value \in Index /\ text \in String
        BY <1>2, <3>1, TextType
      <4>2. Len(text) <= LongestText
        BY <1>1, <3>1, LongestIs
      <4> QED
        BY <4>1, <4>2 DEF String
    <3>3. f \in Frames /\ f.rest = text
      BY <3>2, FrameType DEF Frame
    <3> HIDE DEF text, f
    <3>4. Advanced \in Seq(Frames) /\ Len(Advanced) = Len(stack)
      BY <1>2, <3>1, AdvanceFrame
    <3>5. PICK v : Weighs(v, Advanced) /\ v[Len(stack)] = w[Len(stack)] - 1
      BY <1>2, <1>4, <3>1, AdvanceWeighs
    <3>6. PICK u : /\ Weighs(u, stack')
                   /\ u[Len(stack) + 1] = v[Len(stack)] + Len(text)
      BY <3>1, <3>3, <3>4, <3>5, AppendWeighs
    <3>7. Len(stack') = Len(stack) + 1
      BY <3>1, <3>3, <3>4, AppendFrame
    <3>8. Bound' = Bound + LongestText
      BY <1>7, <3>1
    <3>9. Len(out') + u[Len(stack')] <= Bound'
      BY <1>2, <1>3, <1>4, <1>5, <3>1, <3>2, <3>5, <3>6, <3>7, <3>8
    <3> QED
      BY <3>6, <3>9 DEF Owed
  <2>4. CASE ExpandFails
    <3>1. /\ UNCHANGED <<table, call, stack, out>> /\ budget' = budget - 1
      BY <2>4 DEF ExpandFails
    <3>2. Bound' = Bound + LongestText
      BY <1>7, <3>1
    <3>3. Len(out') + w[Len(stack')] <= Bound'
      BY <1>2, <1>3, <1>4, <1>5, <3>1, <3>2
    <3> QED
      BY <1>4, <3>1, <3>3 DEF Owed
  <2>5. CASE Pop
    <3>1. /\ stack' = SubSeq(stack, 1, Len(stack) - 1) /\ Len(stack) > 1 /\ Top.rest = <<>>
          /\ UNCHANGED <<table, call, budget, out>>
      BY <2>5 DEF Pop
    <3>2. PICK v : Weighs(v, stack') /\ v[Len(stack) - 1] = w[Len(stack)]
      BY <1>2, <1>4, <3>1, DropWeighs
    <3>3. Len(stack') = Len(stack) - 1
      BY <1>2, <3>1, DropFrame
    <3>4. Len(out') + v[Len(stack')] <= Bound'
      BY <1>4, <1>6, <3>1, <3>2, <3>3
    <3> QED
      BY <3>2, <3>4 DEF Owed
  <2>6. CASE ReadLangFails \/ Return \/ Finished \/ UNCHANGED vars
    <3>1. UNCHANGED <<table, call, stack, budget, out>>
      BY <2>6 DEF ReadLangFails, Return, Finished, vars
    <3> QED
      BY <1>4, <1>6, <3>1 DEF Owed
  <2> QED
    BY <2>1, <2>2, <2>3, <2>4, <2>5, <2>6, <2>7 DEF Next, expand_lang
<1>9. Fresh'
  <2>1. CASE pc' # "call"
    BY <2>1 DEF Fresh
  <2>2. CASE pc' = "call"
    <3>1. UNCHANGED vars
      BY <1>2, <2>2 DEF Next, expand_lang, ReadLang, ReadLangFails, ResolveLang, CopySegment,
                  Expand, ExpandFails, Pop, Return, Finished, AtSegment
    <3> QED
      BY <3>1 DEF vars, Spent, Fresh
  <2> QED
    BY <2>1, <2>2
<1> QED
  BY <1>1, <1>8, <1>9 DEF Spent

(* However the strings of a table refer to each other, the output is never  *)
(* longer than the string itself and one longest string for each expansion  *)
(* made, of which there are at most MAX_LANG_EXPANSIONS.                    *)
THEOREM OutputStaysBounded == Spec => []OutputIsBounded
<1>1. Init => Spent
  BY InitSpent
<1>2. Spent /\ [Next]_vars => Spent'
  BY NextSpent
<1>3. Spent => OutputIsBounded
  <2> SUFFICES ASSUME Spent PROVE OutputIsBounded
    OBVIOUS
  <2>1. TypeOK /\ stack \in Seq(Frames) /\ Len(out) \in Nat
    BY DEF Spent, Inv, TypeOK, Frames, String
  <2>2. PICK w : Weighs(w, stack) /\ Len(out) + w[Len(stack)] <= Bound
    BY DEF Spent, Owed
  <2>3. w[Len(stack)] \in Nat /\ Bound \in Nat
    BY <2>1, <2>2, BoundIs DEF Weighs
  <2>4. Len(out) <= Bound
    BY <2>1, <2>2, <2>3
  <2> QED
    BY <2>4 DEF OutputIsBounded, Bound
<1> QED
  BY <1>1, <1>2, <1>3, PTL DEF Spec

-----------------------------------------------------------------------------
(* The reference Meaning satisfies its recursion equation: by induction on  *)
(* the nesting that is left, and within one path on the length of a string. *)

LEMMA ResultType ==
  /\ \A s \in String : Success(s) \in Reading
  /\ Failure \in Reading
  /\ \A r \in Reading : \/ r = Failure /\ r.ok = FALSE
                        \/ r.ok = TRUE /\ r.string \in String /\ r = Success(r.string)
<1>1. \A s \in String : Success(s) \in Reading
  BY DEF Reading, Success
<1>2. Failure \in Reading
  BY DEF Reading, Failure
<1>3. ASSUME NEW r \in [ok : {FALSE}]
      PROVE  r = Failure /\ r.ok = FALSE
  <2>1. r = [ok |-> r.ok] /\ r.ok \in {FALSE}
    OBVIOUS
  <2>2. r.ok = FALSE
    BY <2>1, Zenon
  <2> QED
    BY <2>1, <2>2, Zenon DEF Failure
<1>4. ASSUME NEW r \in [ok : {TRUE}, string : String]
      PROVE  r.ok = TRUE /\ r.string \in String /\ r = Success(r.string)
  <2>1. r = [ok |-> r.ok, string |-> r.string] /\ r.ok \in {TRUE} /\ r.string \in String
    OBVIOUS
  <2>2. r.ok = TRUE
    BY <2>1, Zenon
  <2> QED
    BY <2>1, <2>2, Zenon DEF Success
<1> QED
  BY <1>1, <1>2, <1>3, <1>4, Zenon DEF Reading

LEMMA SuccessIs ==
  ASSUME NEW s
  PROVE  Success(s).ok = TRUE /\ Success(s).string = s /\ Failure.ok = FALSE
  BY DEF Success, Failure

LEMMA Concat ==
  /\ \A a, b \in String : a \o b \in String
  /\ \A a \in String : a \o <<>> = a /\ <<>> \o a = a
  /\ \A a, b, c \in String : (a \o b) \o c = a \o (b \o c)
  /\ <<>> \in String
  BY DEF String

LEMMA BothType ==
  ASSUME NEW a \in Reading, NEW b \in Reading
  PROVE  /\ Both(a, b) \in Reading
         /\ Both(Success(<<>>), b) = b /\ Both(a, Success(<<>>)) = a
         /\ Both(Failure, b) = Failure /\ Both(a, Failure) = Failure
         /\ Both(a, b).ok = TRUE => a.ok = TRUE /\ b.ok = TRUE
<1>0. Both(Failure, b) = Failure /\ Both(a, Failure) = Failure
  BY SuccessIs DEF Both
<1>1. CASE a = Failure
  <2>1. Both(a, b) = Failure
    BY <1>1, SuccessIs DEF Both
  <2>2. Both(a, Success(<<>>)) = Failure
    BY <1>1, SuccessIs DEF Both
  <2>3. Both(Success(<<>>), b) = b
    <3>1. CASE b = Failure
      BY <3>1, SuccessIs DEF Both
    <3>2. CASE b = Success(b.string) /\ b.string \in String
      <4>1. Both(Success(<<>>), b) = Success(<<>> \o b.string)
        BY <3>2, SuccessIs DEF Both
      <4> QED
        BY <3>2, <4>1, Concat
    <3> QED
      BY <3>1, <3>2, ResultType
  <2> QED
    BY <1>0, <1>1, <2>1, <2>2, <2>3, SuccessIs, ResultType
<1>2. CASE b = Failure
  <2>1. Both(a, b) = Failure
    BY <1>2, SuccessIs DEF Both
  <2>2. Both(Success(<<>>), b) = Failure
    BY <1>2, SuccessIs DEF Both
  <2>3. Both(a, Success(<<>>)) = a
    <3>1. CASE a = Failure
      BY <3>1, SuccessIs DEF Both
    <3>2. CASE a = Success(a.string) /\ a.string \in String
      <4>1. Both(a, Success(<<>>)) = Success(a.string \o <<>>)
        BY <3>2, SuccessIs DEF Both
      <4> QED
        BY <3>2, <4>1, Concat
    <3> QED
      BY <3>1, <3>2, ResultType
  <2> QED
    BY <1>0, <1>2, <2>1, <2>2, <2>3, SuccessIs, ResultType
<1>3. CASE a = Success(a.string) /\ a.string \in String /\ b = Success(b.string) /\ b.string \in String
           /\ a.ok = TRUE /\ b.ok = TRUE
  <2>1. Both(a, b) = Success(a.string \o b.string)
    BY <1>3 DEF Both
  <2>2. a.string \o b.string \in String
    BY <1>3, Concat
  <2>3. Both(Success(<<>>), b) = Success(<<>> \o b.string)
        /\ Both(a, Success(<<>>)) = Success(a.string \o <<>>)
    BY <1>3, SuccessIs DEF Both
  <2>4. Both(Failure, b) = Failure /\ Both(a, Failure) = Failure
    BY SuccessIs DEF Both
  <2> QED
    BY <1>3, <2>1, <2>2, <2>3, <2>4, Concat, ResultType
<1> QED
  BY <1>1, <1>2, <1>3, ResultType

LEMMA BothAssoc ==
  ASSUME NEW a \in Reading, NEW b \in Reading, NEW c \in Reading
  PROVE  Both(Both(a, b), c) = Both(a, Both(b, c))
<1>1. CASE a = Failure
  BY <1>1, BothType
<1>2. CASE b = Failure
  <2>1. Both(a, b) = Failure /\ Both(b, c) = Failure
    BY <1>2, BothType
  <2> QED
    BY <2>1, BothType, ResultType
<1>3. CASE c = Failure
  <2>1. Both(a, b) \in Reading /\ Both(b, c) = Failure
    BY <1>3, BothType
  <2> QED
    BY <1>3, <2>1, BothType
<1>4. CASE /\ a = Success(a.string) /\ a.string \in String /\ a.ok = TRUE
           /\ b = Success(b.string) /\ b.string \in String /\ b.ok = TRUE
           /\ c = Success(c.string) /\ c.string \in String /\ c.ok = TRUE
  <2>1. Both(a, b) = Success(a.string \o b.string) /\ Both(b, c) = Success(b.string \o c.string)
    BY <1>4 DEF Both
  <2>2. Both(Both(a, b), c) = Success((a.string \o b.string) \o c.string)
    BY <1>4, <2>1, SuccessIs DEF Both
  <2>3. Both(a, Both(b, c)) = Success(a.string \o (b.string \o c.string))
    BY <1>4, <2>1, SuccessIs DEF Both
  <2>4. (a.string \o b.string) \o c.string = a.string \o (b.string \o c.string)
    BY <1>4, Concat
  <2> QED
    BY <2>2, <2>3, <2>4
<1> QED
  BY <1>1, <1>2, <1>3, <1>4, ResultType

(* k joins what t says of the segments, for strings of up to n.             *)
Joins(k, t, n) ==
  /\ k \in [String -> Reading]
  /\ k[<<>>] = Success(<<>>)
  /\ \A s \in String : s # <<>> /\ Len(s) <= n => k[s] = Both(t[Head(s)], k[Tail(s)])

LEMMA JoinsUpTo ==
  ASSUME NEW t \in [Segment -> Reading], NEW n \in Nat
  PROVE  \E k : Joins(k, t, n)
<1> DEFINE S == {m \in Nat : \E k : Joins(k, t, m)}
<1>1. 0 \in S
  <2> DEFINE k == [s \in String |-> Success(<<>>)]
  <2>1. Success(<<>>) \in Reading /\ <<>> \in String
    BY ResultType, Concat
  <2>2. k \in [String -> Reading] /\ k[<<>>] = Success(<<>>)
    BY <2>1
  <2>3. \A s \in String : s # <<>> => ~(Len(s) <= 0)
    BY HeadAndTail
  <2> HIDE DEF k
  <2>4. Joins(k, t, 0)
    BY <2>2, <2>3 DEF Joins
  <2> QED
    BY <2>4
<1>2. ASSUME NEW m \in Nat, m \in S PROVE m + 1 \in S
  <2>1. PICK k : Joins(k, t, m)
    BY <1>2
  <2>0. k \in [String -> Reading] /\ k[<<>>] = Success(<<>>)
    BY <2>1 DEF Joins
  <2> DEFINE j == [s \in String |-> IF s = <<>> THEN Success(<<>>)
                                    ELSE Both(t[Head(s)], k[Tail(s)])]
  <2>2. j \in [String -> Reading]
    <3> SUFFICES ASSUME NEW s \in String
                 PROVE  (IF s = <<>> THEN Success(<<>>)
                                    ELSE Both(t[Head(s)], k[Tail(s)])) \in Reading
      OBVIOUS
    <3>1. CASE s = <<>>
      BY <3>1, ResultType, Concat
    <3>2. CASE s # <<>>
      BY <2>0, <3>2, HeadAndTail, BothType
    <3> QED
      BY <3>1, <3>2
  <2>3. j[<<>>] = Success(<<>>)
    BY Concat
  <2>4. ASSUME NEW s \in String, s # <<>>, Len(s) <= m + 1
        PROVE  j[s] = Both(t[Head(s)], j[Tail(s)])
    <3>1. j[s] = Both(t[Head(s)], k[Tail(s)])
      BY <2>4
    <3>2. /\ Tail(s) \in String /\ Len(Tail(s)) <= m
      BY <2>4, HeadAndTail
    <3>3. j[Tail(s)] = k[Tail(s)]
      <4>1. CASE Tail(s) = <<>>
        BY <2>0, <3>2, <4>1
      <4>2. CASE Tail(s) # <<>>
        BY <2>1, <3>2, <4>2 DEF Joins
      <4> QED
        BY <4>1, <4>2
    <3> QED
      BY <3>1, <3>3
  <2> HIDE DEF j
  <2>5. Joins(j, t, m + 1)
    BY <2>2, <2>3, <2>4 DEF Joins
  <2> QED
    BY <2>5
<1>3. n \in S
  <2> HIDE DEF S
  <2> QED
    BY <1>1, <1>2, Inductively
<1> QED
  BY <1>3

Agree(k, j, n) == \A s \in String : Len(s) <= n => k[s] = j[s]

LEMMA JoinsOnce ==
  ASSUME NEW t, NEW n \in Nat, NEW k, NEW j, Joins(k, t, n), Joins(j, t, n)
  PROVE  Agree(k, j, n)
<1> DEFINE S == {m \in Nat : \A s \in String : Len(s) <= m /\ m <= n => k[s] = j[s]}
<1>1. 0 \in S
  <2>1. \A s \in String : Len(s) <= 0 => s = <<>>
    BY HeadAndTail
  <2> QED
    BY <2>1 DEF Joins
<1>2. ASSUME NEW m \in Nat, m \in S PROVE m + 1 \in S
  <2> SUFFICES ASSUME NEW s \in String, Len(s) <= m + 1, m + 1 <= n PROVE k[s] = j[s]
    OBVIOUS
  <2>1. CASE s = <<>>
    BY <2>1 DEF Joins
  <2>2. CASE s # <<>>
    <3>1. Tail(s) \in String /\ Len(Tail(s)) <= m /\ m <= n /\ Len(s) <= n
      BY <2>2, HeadAndTail
    <3>2. k[Tail(s)] = j[Tail(s)]
      BY <1>2, <3>1
    <3> QED
      BY <2>2, <3>1, <3>2 DEF Joins
  <2> QED
    BY <2>1, <2>2
<1>3. n \in S
  <2> HIDE DEF S
  <2> QED
    BY <1>1, <1>2, Inductively
<1> QED
  BY <1>3 DEF Agree

(* The same for strings of every length.                                    *)
JoinsAll(k, t) ==
  /\ k \in [String -> Reading]
  /\ k[<<>>] = Success(<<>>)
  /\ \A s \in String : s # <<>> => k[s] = Both(t[Head(s)], k[Tail(s)])

LEMMA JoinsEvery ==
  ASSUME NEW t \in [Segment -> Reading]
  PROVE  \E k : JoinsAll(k, t)
<1> DEFINE f == [n \in Nat |-> CHOOSE k : Joins(k, t, n)]
<1>1. ASSUME NEW n \in Nat PROVE Joins(f[n], t, n)
  BY JoinsUpTo
<1> HIDE DEF f
<1>2. ASSUME NEW n \in Nat PROVE Joins(f[n + 1], t, n)
  BY <1>1 DEF Joins, String
<1> DEFINE k == [s \in String |-> f[Len(s)][s]]
<1>3. \A s \in String : Len(s) \in Nat
  BY DEF String
<1>4. ASSUME NEW s \in String PROVE k[s] \in Reading
  <2>1. f[Len(s)] \in [String -> Reading]
    BY <1>1, <1>3 DEF Joins
  <2> QED
    BY <2>1
<1>5. k \in [String -> Reading]
  <2>1. k = [s \in String |-> k[s]]
    OBVIOUS
  <2> HIDE DEF k
  <2> QED
    BY <1>4, <2>1
<1>6. k[<<>>] = Success(<<>>)
  <2>1. <<>> \in String /\ Len(<<>>) = 0
    BY Concat
  <2>2. f[0][<<>>] = Success(<<>>)
    BY <1>1 DEF Joins
  <2> QED
    BY <2>1, <2>2
<1>7. ASSUME NEW s \in String, s # <<>> PROVE k[s] = Both(t[Head(s)], k[Tail(s)])
  <2> DEFINE m == Len(s) - 1
  <2>1. /\ m \in Nat /\ Len(s) = m + 1 /\ Tail(s) \in String /\ Len(Tail(s)) = m
    BY <1>7, HeadAndTail
  <2> HIDE DEF m
  <2>2. f[m + 1][s] = Both(t[Head(s)], f[m + 1][Tail(s)])
    <3>1. Joins(f[m + 1], t, m + 1)
      BY <1>1, <2>1
    <3> QED
      BY <1>7, <2>1, <3>1 DEF Joins
  <2>3. f[m + 1][Tail(s)] = f[m][Tail(s)]
    <3>1. Joins(f[m + 1], t, m) /\ Joins(f[m], t, m)
      BY <1>1, <1>2, <2>1
    <3>2. Agree(f[m + 1], f[m], m)
      BY <2>1, <3>1, JoinsOnce
    <3>3. Len(Tail(s)) <= m
      BY <2>1
    <3> QED
      BY <2>1, <3>2, <3>3 DEF Agree
  <2>4. k[s] = f[m + 1][s] /\ k[Tail(s)] = f[m][Tail(s)]
    BY <2>1
  <2> QED
    BY <2>2, <2>3, <2>4
<1> HIDE DEF k
<1>8. JoinsAll(k, t)
  BY <1>5, <1>6, <1>7 DEF JoinsAll
<1> QED
  BY <1>8

-----------------------------------------------------------------------------
LEMMA JoinedOnce ==
  ASSUME NEW t, NEW k, NEW j, JoinsAll(k, t), JoinsAll(j, t)
  PROVE  k = j
<1>1. ASSUME NEW s \in String PROVE k[s] = j[s]
  <2> DEFINE n == Len(s)
  <2>1. n \in Nat
    BY DEF String
  <2> HIDE DEF n
  <2>2. Joins(k, t, n) /\ Joins(j, t, n)
    BY DEF Joins, JoinsAll
  <2>3. Agree(k, j, n)
    BY <2>1, <2>2, JoinsOnce
  <2>4. Len(s) <= n
    BY <2>1 DEF n
  <2> QED
    BY <2>3, <2>4 DEF Agree
<1>2. k = [s \in String |-> k[s]] /\ j = [s \in String |-> j[s]]
  BY DEF JoinsAll
<1> QED
  BY <1>1, <1>2

(* Whatever joins readings is a reading.                                    *)
LEMMA JoinedType ==
  ASSUME NEW t \in [Segment -> Reading], NEW k, k = [s \in String |-> k[s]],
         k[<<>>] = Success(<<>>),
         \A s \in String : s # <<>> => k[s] = Both(t[Head(s)], k[Tail(s)])
  PROVE  JoinsAll(k, t)
<1> DEFINE S == {m \in Nat : \A s \in String : Len(s) <= m => k[s] \in Reading}
<1>1. 0 \in S
  <2>1. \A s \in String : Len(s) <= 0 => s = <<>>
    BY HeadAndTail
  <2> QED
    BY <2>1, ResultType, Concat
<1>2. ASSUME NEW m \in Nat, m \in S PROVE m + 1 \in S
  <2> SUFFICES ASSUME NEW s \in String, Len(s) <= m + 1 PROVE k[s] \in Reading
    OBVIOUS
  <2>1. CASE s = <<>>
    BY <2>1, ResultType, Concat
  <2>2. CASE s # <<>>
    <3>1. Tail(s) \in String /\ Len(Tail(s)) <= m /\ Head(s) \in Segment
      BY <2>2, HeadAndTail
    <3>2. k[Tail(s)] \in Reading /\ t[Head(s)] \in Reading
      BY <1>2, <3>1
    <3> DEFINE a == t[Head(s)]
               b == k[Tail(s)]
    <3>3. k[s] = Both(a, b)
      BY <2>2
    <3>4. a \in Reading /\ b \in Reading
      BY <3>2
    <3>5. Both(a, b) \in Reading
      <4> HIDE DEF a, b
      <4> QED
        BY <3>4, BothType
    <3> QED
      BY <3>3, <3>5
  <2> QED
    BY <2>1, <2>2
<1>3. ASSUME NEW s \in String PROVE k[s] \in Reading
  <2>1. Len(s) \in Nat
    BY DEF String
  <2>2. Len(s) \in S
    <3> HIDE DEF S
    <3> QED
      BY <1>1, <1>2, <2>1, Inductively
  <2> QED
    BY <2>1, <2>2
<1>4. k \in [String -> Reading]
  BY <1>3
<1> QED
  BY <1>4 DEF JoinsAll

-----------------------------------------------------------------------------
Paths == Seq(Index)

Told(p, M) == [x \in Segment |-> MeaningOf(x, p, M)]

LEMMA Reference ==
  ASSUME NEW x \in Segment, NEW p \in Paths, ~LeftInPlace(x, p), IsTable(table)
  PROVE  /\ x.value \in Index /\ x.value \in DOMAIN table /\ ~In(p, x.value)
         /\ table[x.value] \in Reading
         /\ Append(p, x.value) \in Paths /\ Len(Append(p, x.value)) = Len(p) + 1
         /\ Len(p) < MaxLangDepth
         /\ table[x.value].ok => table[x.value].string \in String
<1>1. /\ x.tag # "Text" /\ x.value \in DOMAIN table
      /\ ~In(p, x.value) /\ ~(Len(p) >= MaxLangDepth)
  BY DEF LeftInPlace
<1>2. x.value \in Index /\ table[x.value] \in Reading
  BY <1>1 DEF IsTable
<1>3. Append(p, x.value) \in Paths /\ Len(Append(p, x.value)) = Len(p) + 1 /\ Len(p) \in Nat
  BY <1>2 DEF Paths
<1>4. Len(p) < MaxLangDepth
  BY <1>1, <1>3, LimitsAssumption
<1> QED
  BY <1>1, <1>2, <1>3, <1>4, TextType

LEMMA ToldType ==
  ASSUME IsTable(table), NEW M \in [Paths -> [String -> Reading]], NEW p \in Paths
  PROVE  Told(p, M) \in [Segment -> Reading]
<1> SUFFICES ASSUME NEW x \in Segment PROVE MeaningOf(x, p, M) \in Reading
  BY DEF Told
<1>1. CASE LeftInPlace(x, p)
  <2>1. <<x>> \in String
    BY DEF String
  <2> QED
    BY <1>1, <2>1, ResultType DEF MeaningOf
<1>2. CASE ~LeftInPlace(x, p) /\ ~table[x.value].ok
  BY <1>2, ResultType DEF MeaningOf
<1>3. CASE ~LeftInPlace(x, p) /\ table[x.value].ok
  <2>1. Append(p, x.value) \in Paths /\ table[x.value].string \in String
    BY <1>3, Reference
  <2>2. M[Append(p, x.value)] \in [String -> Reading]
    BY <2>1
  <2>3. M[Append(p, x.value)][table[x.value].string] \in Reading
    BY <2>1, <2>2
  <2> QED
    BY <1>3, <2>3 DEF MeaningOf
<1> QED
  BY <1>1, <1>2, <1>3

(* What is told of segments depends on the meanings in longer paths only.   *)
LEMMA ToldSame ==
  ASSUME IsTable(table), NEW M, NEW N, NEW p \in Paths,
         \A i \in Index : Len(p) < MaxLangDepth => M[Append(p, i)] = N[Append(p, i)]
  PROVE  Told(p, M) = Told(p, N)
<1> SUFFICES ASSUME NEW x \in Segment PROVE MeaningOf(x, p, M) = MeaningOf(x, p, N)
  BY DEF Told
<1>1. CASE LeftInPlace(x, p)
  BY <1>1 DEF MeaningOf
<1>2. CASE ~LeftInPlace(x, p)
  <2>1. M[Append(p, x.value)] = N[Append(p, x.value)]
    BY <1>2, Reference
  <2> QED
    BY <1>2, <2>1 DEF MeaningOf
<1> QED
  BY <1>1, <1>2

(* M is right for paths from which no more than d references nest.          *)
Right(M, p) == JoinsAll(M[p], Told(p, M))
RightFrom(M, d) ==
  /\ M \in [Paths -> [String -> Reading]]
  /\ \A p \in Paths : Len(p) + d >= MaxLangDepth => Right(M, p)

LEMMA RightFromAny ==
  ASSUME IsTable(table), NEW d \in Nat
  PROVE  \E M : RightFrom(M, d)
<1> DEFINE S == {m \in Nat : \E M : RightFrom(M, m)}
           Next1(M) == [p \in Paths |-> CHOOSE k : JoinsAll(k, Told(p, M))]
<1>1. ASSUME NEW M \in [Paths -> [String -> Reading]]
      PROVE  /\ Next1(M) \in [Paths -> [String -> Reading]]
             /\ \A p \in Paths : JoinsAll(Next1(M)[p], Told(p, M))
  <2>1. ASSUME NEW p \in Paths
        PROVE  JoinsAll(Next1(M)[p], Told(p, M))
    <3>1. Told(p, M) \in [Segment -> Reading]
      BY ToldType
    <3>2. \E k : JoinsAll(k, Told(p, M))
      BY <3>1, JoinsEvery
    <3> QED
      BY <3>2
  <2>2. ASSUME NEW p \in Paths PROVE Next1(M)[p] \in [String -> Reading]
    <3> HIDE DEF Next1
    <3> QED
      BY <2>1 DEF JoinsAll
  <2>3. Next1(M) = [p \in Paths |-> Next1(M)[p]]
    OBVIOUS
  <2> HIDE DEF Next1
  <2> QED
    BY <2>1, <2>2, <2>3
<1> HIDE DEF Next1
<1>2. 0 \in S
  <2> DEFINE M == [p \in Paths |-> [s \in String |-> Failure]]
             N == Next1(M)
  <2>1. M \in [Paths -> [String -> Reading]]
    BY ResultType
  <2> HIDE DEF M
  <2>2. N \in [Paths -> [String -> Reading]] /\ \A p \in Paths : JoinsAll(N[p], Told(p, M))
    BY <1>1, <2>1
  <2> HIDE DEF N
  <2>3. ASSUME NEW p \in Paths, Len(p) + 0 >= MaxLangDepth PROVE Right(N, p)
    <3>1. ~(Len(p) < MaxLangDepth)
      BY <2>3, LimitsAssumption DEF Paths
    <3>2. Told(p, M) = Told(p, N)
      BY <3>1, ToldSame
    <3>3. JoinsAll(N[p], Told(p, M))
      BY <2>2
    <3> QED
      BY <3>2, <3>3 DEF Right
  <2>4. RightFrom(N, 0)
    BY <2>2, <2>3 DEF RightFrom
  <2> QED
    BY <2>4
<1>3. ASSUME NEW m \in Nat, m \in S PROVE m + 1 \in S
  <2>1. PICK M : RightFrom(M, m)
    BY <1>3
  <2> DEFINE N == Next1(M)
  <2>2. M \in [Paths -> [String -> Reading]]
    BY <2>1 DEF RightFrom
  <2>3. N \in [Paths -> [String -> Reading]] /\ \A p \in Paths : JoinsAll(N[p], Told(p, M))
    BY <1>1, <2>2
  <2> HIDE DEF N
  <2>4. ASSUME NEW p \in Paths, Len(p) + m >= MaxLangDepth PROVE M[p] = N[p]
    <3>1. JoinsAll(M[p], Told(p, M))
      BY <2>1, <2>4 DEF RightFrom, Right
    <3>2. JoinsAll(N[p], Told(p, M))
      BY <2>3
    <3> QED
      BY <3>1, <3>2, JoinedOnce
  <2>5. ASSUME NEW p \in Paths, Len(p) + (m + 1) >= MaxLangDepth PROVE Right(N, p)
    <3>1. ASSUME NEW i \in Index PROVE M[Append(p, i)] = N[Append(p, i)]
      <4>1. Append(p, i) \in Paths /\ Len(Append(p, i)) = Len(p) + 1 /\ Len(p) \in Nat
        BY DEF Paths
      <4>2. Len(Append(p, i)) + m >= MaxLangDepth
        BY <2>5, <4>1, LimitsAssumption
      <4> QED
        BY <2>4, <4>1, <4>2
    <3>2. Told(p, M) = Told(p, N)
      BY <3>1, ToldSame
    <3>3. JoinsAll(N[p], Told(p, M))
      BY <2>3
    <3> QED
      BY <3>2, <3>3 DEF Right
  <2>6. RightFrom(N, m + 1)
    BY <2>3, <2>5 DEF RightFrom
  <2> QED
    BY <2>6
<1>4. d \in S
  <2> HIDE DEF S
  <2> QED
    BY <1>2, <1>3, Inductively
<1> QED
  BY <1>4

MeaningStep(M) ==
  [path \in Seq(Index) |->
     [s \in String |->
        IF s = <<>> THEN Success(<<>>)
        ELSE Both(MeaningOf(Head(s), path, M), M[path][Tail(s)])]]

LEMMA FixedPoint ==
  ASSUME IsTable(table)
  PROVE  \E M : M = MeaningStep(M)
<1> DEFINE d == MaxLangDepth
<1>1. d \in Nat
  BY LimitsAssumption
<1> HIDE DEF d
<1>2. PICK M : RightFrom(M, d)
  BY <1>1, RightFromAny
<1>3. M \in [Paths -> [String -> Reading]]
  BY <1>2 DEF RightFrom
<1>4. ASSUME NEW p \in Paths, NEW s \in String
      PROVE  M[p][s] = IF s = <<>> THEN Success(<<>>)
                       ELSE Both(MeaningOf(Head(s), p, M), M[p][Tail(s)])
  <2>1. Len(p) + d >= MaxLangDepth
    BY <1>1 DEF Paths, d
  <2>2. JoinsAll(M[p], Told(p, M))
    BY <1>2, <2>1 DEF RightFrom, Right
  <2>3. CASE s = <<>>
    BY <2>2, <2>3 DEF JoinsAll
  <2>4. CASE s # <<>>
    <3>1. Head(s) \in Segment
      BY <2>4, HeadAndTail
    <3>2. Told(p, M)[Head(s)] = MeaningOf(Head(s), p, M)
      BY <3>1 DEF Told
    <3>3. M[p][s] = Both(Told(p, M)[Head(s)], M[p][Tail(s)])
      BY <2>2, <2>4 DEF JoinsAll
    <3> QED
      BY <2>4, <3>2, <3>3
  <2> QED
    BY <2>3, <2>4
<1>5. ASSUME NEW p \in Paths
      PROVE  M[p] = [s \in String |->
                       IF s = <<>> THEN Success(<<>>)
                       ELSE Both(MeaningOf(Head(s), p, M), M[p][Tail(s)])]
  <2>1. M[p] \in [String -> Reading]
    BY <1>3
  <2>2. M[p] = [s \in String |-> M[p][s]]
    BY <2>1
  <2> QED
    BY <1>4, <2>2
<1>6. M = [p \in Paths |-> M[p]]
  BY <1>3
<1>7. M = MeaningStep(M)
  BY <1>5, <1>6 DEF MeaningStep, Paths
<1> QED
  BY <1>7

LEMMA MeaningIs ==
  ASSUME IsTable(table)
  PROVE  Meaning = MeaningStep(Meaning)
<1>1. Meaning = CHOOSE M : M = MeaningStep(M)
  BY Zenon DEF Meaning, MeaningStep
<1> QED
  BY <1>1, FixedPoint, Zenon

-----------------------------------------------------------------------------
(* For every table of the right shape the reference is right for every path. *)
LEMMA MeaningRight ==
  ASSUME IsTable(table)
  PROVE  /\ Meaning \in [Paths -> [String -> Reading]]
         /\ \A p \in Paths : Right(Meaning, p)
<1> DEFINE d == MaxLangDepth
<1>1. d \in Nat
  BY LimitsAssumption
<1> HIDE DEF d
<1>2. PICK M : RightFrom(M, d)
  BY <1>1, RightFromAny
<1>3. M \in [Paths -> [String -> Reading]]
  BY <1>2 DEF RightFrom
<1>4. ASSUME NEW p \in Paths PROVE JoinsAll(M[p], Told(p, M))
  <2>1. Len(p) + d >= MaxLangDepth
    BY <1>1 DEF Paths, d
  <2> QED
    BY <1>2, <2>1 DEF RightFrom, Right
<1>5. /\ Meaning = [p \in Paths |-> Meaning[p]]
      /\ \A p \in Paths : Meaning[p] = [s \in String |-> Meaning[p][s]]
      /\ \A p \in Paths : Meaning[p][<<>>] = Success(<<>>)
      /\ \A p \in Paths, s \in String :
           s # <<>> => Meaning[p][s] = Both(MeaningOf(Head(s), p, Meaning), Meaning[p][Tail(s)])
  <2> DEFINE N == Meaning
  <2>1. N = MeaningStep(N)
    BY MeaningIs
  <2> HIDE DEF N
  <2>2. N = [p \in Paths |-> N[p]] /\ \A p \in Paths : N[p] = [s \in String |-> N[p][s]]
    BY <2>1 DEF MeaningStep, Paths
  <2>3. \A p \in Paths : N[p][<<>>] = Success(<<>>)
    BY <2>1, Concat DEF MeaningStep, Paths
  <2>4. \A p \in Paths, s \in String :
           s # <<>> => N[p][s] = Both(MeaningOf(Head(s), p, N), N[p][Tail(s)])
    <3> SUFFICES ASSUME NEW p \in Paths, NEW s \in String, s # <<>>
                 PROVE  N[p][s] = Both(MeaningOf(Head(s), p, N), N[p][Tail(s)])
      OBVIOUS
    <3>1. N[p][s] = MeaningStep(N)[p][s]
      BY <2>1, Zenon
    <3> QED
      BY <3>1, Zenon DEF MeaningStep, Paths
  <2> QED
    BY <2>2, <2>3, <2>4 DEF N
<1> DEFINE S == {m \in Nat : \A p \in Paths : Len(p) + m >= MaxLangDepth => Meaning[p] = M[p]}
<1>6. ASSUME NEW p \in Paths,
             \A i \in Index : Len(p) < MaxLangDepth => Meaning[Append(p, i)] = M[Append(p, i)]
      PROVE  Meaning[p] = M[p]
  <2>1. Told(p, Meaning) = Told(p, M)
    BY <1>6, ToldSame
  <2> DEFINE t == Told(p, M)
             k == Meaning[p]
  <2>2. t \in [Segment -> Reading]
    BY <1>3, ToldType
  <2>3. \A s \in String : s # <<>> => t[Head(s)] = MeaningOf(Head(s), p, Meaning)
    BY <2>1, HeadAndTail DEF Told
  <2>4. k = [s \in String |-> k[s]] /\ k[<<>>] = Success(<<>>)
    BY <1>5
  <2>5. \A s \in String : s # <<>> => k[s] = Both(t[Head(s)], k[Tail(s)])
    BY <1>5, <2>3
  <2> HIDE DEF t, k
  <2>6. JoinsAll(k, t)
    BY <2>2, <2>4, <2>5, JoinedType
  <2>7. JoinsAll(M[p], t)
    BY <1>4 DEF t
  <2>8. k = M[p]
    BY <2>6, <2>7, JoinedOnce
  <2> QED
    BY <2>8 DEF k
<1>7. 0 \in S
  <2> SUFFICES ASSUME NEW p \in Paths, Len(p) + 0 >= MaxLangDepth PROVE Meaning[p] = M[p]
    OBVIOUS
  <2>1. ~(Len(p) < MaxLangDepth)
    BY LimitsAssumption DEF Paths
  <2> QED
    BY <1>6, <2>1
<1>8. ASSUME NEW m \in Nat, m \in S PROVE m + 1 \in S
  <2> SUFFICES ASSUME NEW p \in Paths, Len(p) + (m + 1) >= MaxLangDepth PROVE Meaning[p] = M[p]
    OBVIOUS
  <2>1. ASSUME NEW i \in Index PROVE Meaning[Append(p, i)] = M[Append(p, i)]
    <3>1. Append(p, i) \in Paths /\ Len(Append(p, i)) = Len(p) + 1 /\ Len(p) \in Nat
      BY DEF Paths
    <3>2. Len(Append(p, i)) + m >= MaxLangDepth
      BY <3>1, LimitsAssumption
    <3> QED
      BY <1>8, <3>1, <3>2
  <2> QED
    BY <1>6, <2>1
<1>9. d \in S
  <2> HIDE DEF S
  <2> QED
    BY <1>1, <1>7, <1>8, Inductively
<1>10. ASSUME NEW p \in Paths PROVE Meaning[p] = M[p]
  <2>1. Len(p) + d >= MaxLangDepth
    BY <1>1 DEF Paths, d
  <2> QED
    BY <1>9, <2>1
<1>11. Meaning = M
  <2>1. M = [p \in Paths |-> M[p]]
    BY <1>3
  <2> QED
    BY <1>5, <1>10, <2>1
<1> QED
  BY <1>3, <1>4, <1>11 DEF Right

(* Reading a string from its first segment.                                  *)
LEMMA MeaningTakes ==
  ASSUME IsTable(table), NEW p \in Paths
  PROVE  /\ Meaning[p][<<>>] = Success(<<>>)
         /\ \A s \in String : Meaning[p][s] \in Reading
         /\ \A x \in Segment : MeaningOf(x, p, Meaning) \in Reading
         /\ \A s \in String : s # <<>> =>
              Meaning[p][s] = Both(MeaningOf(Head(s), p, Meaning), Meaning[p][Tail(s)])
<1> DEFINE N == Meaning
<1>0. N \in [Paths -> [String -> Reading]] /\ Right(N, p)
  BY MeaningRight
<1> HIDE DEF N
<1>1. N[p] \in [String -> Reading]
  BY <1>0
<1>2. JoinsAll(N[p], Told(p, N)) /\ Told(p, N) \in [Segment -> Reading]
  BY <1>0, ToldType DEF Right
<1>3. \A x \in Segment : Told(p, N)[x] = MeaningOf(x, p, N)
  BY DEF Told
<1>4. \A s \in String : N[p][s] \in Reading
  BY <1>1
<1>5. \A x \in Segment : MeaningOf(x, p, N) \in Reading
  BY <1>2, <1>3
<1>6. N[p][<<>>] = Success(<<>>)
  BY <1>2 DEF JoinsAll
<1>7. \A s \in String : s # <<>> => N[p][s] = Both(MeaningOf(Head(s), p, N), N[p][Tail(s)])
  BY <1>2, <1>3, HeadAndTail DEF JoinsAll
<1> QED
  BY <1>4, <1>5, <1>6, <1>7 DEF N

LEMMA TableKept ==
  ASSUME table' = table, call' = call
  PROVE  Meaning' = Meaning /\ Meant' = Meant
<1>1. Meaning' = Meaning
  BY DEF Meaning, MeaningOf, LeftInPlace
<1> QED
  BY <1>1 DEF Meant

-----------------------------------------------------------------------------
(* While expansions are left, what is out and what the frames have still to *)
(* say make up the meaning of the string.                                   *)

(* The path of the k-th frame: the references of the frames up to it.       *)
Outermost(st) == IF st[1].index = NoIndex THEN 1 ELSE 0
PathAt(st, k) == [j \in 1 .. k - Outermost(st) |-> st[j + Outermost(st)].index]

Stack == {st \in Seq(Frames) : \A k \in 1 .. Len(st) : k > 1 => st[k].index \in Index}

LEMMA NoIndexIs == NoIndex \notin Index /\ NoIndex = -1
<1>1. MaxIndex \in Nat
  BY DEF MaxIndex
<1> QED
  BY <1>1, IndexAssumption DEF NoIndex

LEMMA OutermostIs ==
  ASSUME NEW st \in Stack, st # <<>>
  PROVE  /\ Outermost(st) \in {0, 1} /\ Len(st) \in Nat /\ Len(st) >= 1
         /\ \A k \in 1 .. Len(st) : k > Outermost(st) <=> st[k].index \in Index
         /\ \A k \in 1 .. Len(st) : st[k] \in Frames
         /\ st \in Seq(Frames)
<1>1. st \in Seq(Frames) /\ Len(st) \in Nat /\ Len(st) >= 1
  BY DEF Stack
<1>2. \A k \in 1 .. Len(st) : st[k] \in Frames
  BY <1>1
<1>3. \A k \in 1 .. Len(st) : k > 1 => st[k].index \in Index
  BY DEF Stack
<1>4. st[1].index \in Index \cup {NoIndex}
  <2>1. st[1] \in Frames
    BY <1>1, <1>2
  <2> QED
    BY <2>1 DEF Frames
<1>5. CASE st[1].index = NoIndex
  <2>1. Outermost(st) = 1 /\ st[1].index \notin Index
    BY <1>5, NoIndexIs DEF Outermost
  <2> QED
    BY <1>1, <1>2, <1>3, <2>1
<1>6. CASE st[1].index # NoIndex
  <2>1. Outermost(st) = 0 /\ st[1].index \in Index
    BY <1>4, <1>6 DEF Outermost
  <2> QED
    BY <1>1, <1>2, <1>3, <2>1
<1> QED
  BY <1>5, <1>6

LEMMA PathType ==
  ASSUME NEW st \in Stack, st # <<>>, NEW k \in 1 .. Len(st)
  PROVE  /\ PathAt(st, k) \in Paths /\ Len(PathAt(st, k)) = k - Outermost(st)
         /\ \A i \in Index : In(PathAt(st, k), i) <=> \E j \in 1 .. k : st[j].index = i
<1> DEFINE o == Outermost(st)
<1>1. /\ o \in {0, 1} /\ Len(st) \in Nat /\ k \in Nat
      /\ \A m \in 1 .. Len(st) : m > o <=> st[m].index \in Index
  BY OutermostIs
<1>2. PathAt(st, k) = [j \in 1 .. k - o |-> st[j + o].index]
  BY DEF PathAt
<1> HIDE DEF o
<1>3. \A j \in 1 .. k - o : st[j + o].index \in Index /\ j + o \in 1 .. k
  BY <1>1
<1>4. k - o \in Nat
  BY <1>1
<1>5. PathAt(st, k) \in Paths /\ Len(PathAt(st, k)) = k - o /\ DOMAIN PathAt(st, k) = 1 .. k - o
  BY <1>2, <1>3, <1>4 DEF Paths
<1>6. ASSUME NEW i \in Index, NEW j \in 1 .. k, st[j].index = i
      PROVE  j - o \in 1 .. k - o /\ st[(j - o) + o].index = i
  <2>1. j > o /\ j \in Nat
    BY <1>1, <1>6
  <2>2. (j - o) + o = j
    BY <1>1, <2>1
  <2> QED
    BY <1>1, <1>6, <2>1, <2>2
<1>7. ASSUME NEW i \in Index
      PROVE  In(PathAt(st, k), i) <=> \E j \in 1 .. k : st[j].index = i
  <2>1. In(PathAt(st, k), i) <=> \E j \in 1 .. k - o : st[j + o].index = i
    BY <1>2, <1>5 DEF In
  <2> QED
    BY <1>3, <1>6, <2>1
<1> QED
  BY <1>5, <1>7 DEF o

LEMMA PathSame ==
  ASSUME NEW st, NEW su, NEW k \in Nat, k >= 1,
         \A j \in 1 .. k : st[j].index = su[j].index
  PROVE  PathAt(st, k) = PathAt(su, k) /\ Outermost(st) = Outermost(su)
<1>1. Outermost(st) = Outermost(su)
  BY DEF Outermost
<1> DEFINE o == Outermost(st)
<1>2. o \in {0, 1}
  BY DEF Outermost
<1>3. PathAt(st, k) = [j \in 1 .. k - o |-> st[j + o].index]
      /\ PathAt(su, k) = [j \in 1 .. k - o |-> su[j + o].index]
  BY <1>1 DEF PathAt
<1> HIDE DEF o
<1>4. \A j \in 1 .. k - o : st[j + o].index = su[j + o].index
  BY <1>2
<1>5. PathAt(st, k) = PathAt(su, k)
  BY <1>3, <1>4
<1> QED
  BY <1>1, <1>5

LEMMA PathGrows ==
  ASSUME NEW st \in Stack, NEW su \in Stack, st # <<>>, su # <<>>,
         Len(su) = Len(st) + 1,
         \A j \in 1 .. Len(st) : st[j].index = su[j].index
  PROVE  PathAt(su, Len(st) + 1) = Append(PathAt(st, Len(st)), su[Len(st) + 1].index)
<1> DEFINE n == Len(st)
           o == Outermost(st)
           i == su[n + 1].index
<1>1. n \in Nat /\ n >= 1 /\ o \in {0, 1}
  BY OutermostIs
<1>2. Outermost(su) = o
  BY <1>1, PathSame
<1>3. PathAt(st, n) = [j \in 1 .. n - o |-> st[j + o].index]
      /\ PathAt(su, n + 1) = [j \in 1 .. (n + 1) - o |-> su[j + o].index]
  BY <1>2 DEF PathAt
<1>4. n \in 1 .. Len(st) /\ n + 1 \in 1 .. Len(su)
  BY <1>1
<1>5. PathAt(st, n) \in Seq(Index) /\ Len(PathAt(st, n)) = n - o
      /\ PathAt(su, n + 1) \in Seq(Index) /\ Len(PathAt(su, n + 1)) = (n + 1) - o
  BY <1>2, <1>4, PathType DEF Paths
<1>6. i \in Index
  BY <1>1, <1>4, OutermostIs, <1>2
<1>7. \A j \in 1 .. n : st[j].index = su[j].index
  OBVIOUS
<1> HIDE DEF n, o, i
<1>8. \A j \in 1 .. n - o : PathAt(su, n + 1)[j] = PathAt(st, n)[j]
  BY <1>1, <1>3, <1>7
<1>9. PathAt(su, n + 1)[(n + 1) - o] = i
  <2>1. (n + 1) - o \in 1 .. (n + 1) - o /\ ((n + 1) - o) + o = n + 1
    BY <1>1
  <2> QED
    BY <1>3, <2>1 DEF i
<1> DEFINE a == PathAt(st, n)
           b == PathAt(su, n + 1)
           m == n - o
<1>10. m \in Nat /\ (n + 1) - o = m + 1
  BY <1>1
<1>11. /\ a \in Seq(Index) /\ b \in Seq(Index) /\ Len(a) = m /\ Len(b) = m + 1
       /\ (\A j \in 1 .. m : b[j] = a[j]) /\ b[m + 1] = i
  BY <1>5, <1>8, <1>9, <1>10
<1> HIDE DEF a, b, m
<1>12. b = Append(a, i)
  BY <1>6, <1>10, <1>11
<1> QED
  BY <1>12 DEF a, b, n, i

-----------------------------------------------------------------------------
(* c[k] is what the frames 1 .. k have still to say, innermost first.        *)
Says(c, st, M) ==
  /\ \A k \in 0 .. Len(st) : c[k] \in Reading
  /\ c[0] = Success(<<>>)
  /\ \A k \in 1 .. Len(st) : c[k] = Both(M[PathAt(st, k)][st[k].rest], c[k - 1])

(* After what a says, the frames make up the meaning m.                      *)
Meanings(st, a, M, m) == \E c : Says(c, st, M) /\ Both(a, c[Len(st)]) = m

LEMMA StackType ==
  ASSUME TypeOK, stack \in Stack
  PROVE  IsTable(table) /\ out \in String /\ stack \in Seq(Frames)
  BY DEF TypeOK, Stack

(* One frame with the whole string.                                          *)
LEMMA OneFrameSays ==
  ASSUME IsTable(table), NEW i \in Index \cup {NoIndex}, NEW s \in String, NEW m,
         m = Meaning[IF i = NoIndex THEN <<>> ELSE <<i>>][s]
  PROVE  <<Frame(i, s)>> \in Stack /\ Meanings(<<Frame(i, s)>>, Success(<<>>), Meaning, m)
<1> DEFINE st == <<Frame(i, s)>>
           p == PathAt(st, 1)
           M == Meaning
<1>1. st[1].index = i /\ st[1].rest = s /\ Len(st) = 1 /\ st[1] \in Frames
  BY FrameType DEF Frame
<1>2. st \in Stack /\ st # <<>>
  BY <1>1 DEF Stack
<1>3. p = IF i = NoIndex THEN <<>> ELSE <<i>>
  <2>1. CASE i = NoIndex
    <3>1. Outermost(st) = 1
      BY <1>1, <2>1 DEF Outermost
    <3>2. p \in Seq(Index) /\ Len(p) = 0
      BY <1>1, <1>2, <3>1, PathType DEF Paths
    <3> QED
      BY <2>1, <3>2
  <2>2. CASE i # NoIndex
    <3>1. Outermost(st) = 0
      BY <1>1, <2>2 DEF Outermost
    <3>2. p \in Seq(Index) /\ Len(p) = 1
      BY <1>1, <1>2, <3>1, PathType DEF Paths
    <3>3. p[1] = i
      BY <1>1, <3>1 DEF PathAt
    <3> HIDE DEF p
    <3> QED
      BY <2>2, <3>2, <3>3
  <2> QED
    BY <2>1, <2>2
<1>4. p \in Paths
  BY <1>1, <1>2, PathType
<1>5. m = M[p][s] /\ m \in Reading
  BY <1>3, <1>4, MeaningTakes
<1> DEFINE c == [k \in 0 .. 1 |-> IF k = 0 THEN Success(<<>>) ELSE m]
<1>6. Success(<<>>) \in Reading
  BY ResultType, Concat
<1>7. c[0] = Success(<<>>) /\ c[1] = m
  OBVIOUS
<1>8. Both(m, Success(<<>>)) = m /\ Both(Success(<<>>), m) = m
  BY <1>5, <1>6, BothType
<1> HIDE DEF c, st, p, M
<1>9. Says(c, st, M)
  <2>1. \A k \in 0 .. Len(st) : k = 0 \/ k = 1
    BY <1>1
  <2>2. \A k \in 1 .. Len(st) : k = 1 /\ k - 1 = 0
    BY <1>1
  <2>3. c[1] = Both(M[PathAt(st, 1)][st[1].rest], c[0])
    BY <1>1, <1>5, <1>7, <1>8 DEF p
  <2> QED
    BY <1>5, <1>6, <1>7, <2>1, <2>2, <2>3 DEF Says
<1>10. Meanings(st, Success(<<>>), M, m)
  BY <1>1, <1>7, <1>8, <1>9 DEF Meanings
<1> QED
  BY <1>2, <1>10 DEF st, M

(* What a frame at a segment has to say.                                     *)
LEMMA AtASegment ==
  ASSUME TypeOK, stack \in Stack, AtSegment,
         NEW c, Says(c, stack, Meaning)
  PROVE  LET n == Len(stack)
             p == PathAt(stack, n)
         IN  /\ n \in Nat /\ n >= 1 /\ p \in Paths
             /\ Visiting \in Segment /\ Tail(Top.rest) \in String
             /\ MeaningOf(Visiting, p, Meaning) \in Reading
             /\ Meaning[p][Tail(Top.rest)] \in Reading /\ c[n - 1] \in Reading
             /\ c[n] = Both(Both(MeaningOf(Visiting, p, Meaning), Meaning[p][Tail(Top.rest)]), c[n - 1])
<1> DEFINE n == Len(stack)
           p == PathAt(stack, n)
<1>0. IsTable(table) /\ stack # <<>> /\ Top.rest # <<>>
  BY DEF TypeOK, AtSegment
<1>1. n \in Nat /\ n >= 1 /\ n \in 1 .. Len(stack) /\ n - 1 \in 0 .. Len(stack)
      /\ stack[n] \in Frames
  BY <1>0, OutermostIs
<1>2. p \in Paths
  BY <1>0, <1>1, PathType
<1>3. Top.rest \in String /\ Top = stack[n]
  BY <1>1 DEF Top, Frames
<1>4. Visiting \in Segment /\ Tail(Top.rest) \in String
  BY <1>0, <1>3, HeadAndTail DEF Visiting
<1>5. c[n - 1] \in Reading /\ c[n] = Both(Meaning[p][Top.rest], c[n - 1])
  BY <1>1, <1>3 DEF Says
<1> HIDE DEF n, p
<1>6. /\ Meaning[p][Top.rest] = Both(MeaningOf(Visiting, p, Meaning), Meaning[p][Tail(Top.rest)])
      /\ MeaningOf(Visiting, p, Meaning) \in Reading
      /\ Meaning[p][Tail(Top.rest)] \in Reading
  BY <1>0, <1>2, <1>3, <1>4, MeaningTakes DEF Visiting
<1> QED
  BY <1>1, <1>2, <1>4, <1>5, <1>6 DEF n, p

(* The limits the code checks are the limits of the reference.               *)
LEMMA SameLimits ==
  ASSUME TypeOK, stack \in Stack, stack # <<>>, budget > 0, NEW x \in Segment
  PROVE  MayExpand(x) <=> ~LeftInPlace(x, PathAt(stack, Len(stack)))
<1> DEFINE n == Len(stack)
           p == PathAt(stack, n)
<1>1. n \in Nat /\ n \in 1 .. Len(stack) /\ DOMAIN stack = 1 .. n
  BY OutermostIs DEF Stack
<1>2. Len(p) = n - Outermost(stack)
      /\ \A i \in Index : In(p, i) <=> \E j \in 1 .. n : stack[j].index = i
  BY <1>1, PathType
<1>3. PathLength = Len(p)
  <2>1. CASE stack[1].index = NoIndex
    <3>1. PathLength = n - 1 /\ Outermost(stack) = 1
      BY <2>1, Zenon DEF PathLength, Outermost
    <3> QED
      BY <1>2, <3>1
  <2>2. CASE stack[1].index # NoIndex
    <3>1. PathLength = n /\ Outermost(stack) = 0
      BY <2>2, Zenon DEF PathLength, Outermost
    <3>2. n - 0 = n
      BY <1>1
    <3> QED
      BY <1>2, <3>1, <3>2
  <2> QED
    BY <2>1, <2>2
<1>4. \A i \in Index : In(p, i) <=> OnPath(i)
  BY <1>1, <1>2 DEF OnPath
<1>5. PathLength < MaxLangDepth <=> ~(Len(p) >= MaxLangDepth)
  <2>1. Len(p) \in Int
    BY <1>1, <1>2, OutermostIs
  <2> QED
    BY <1>3, <2>1, LimitsAssumption
<1>6. x.tag \in {"Text", "LangString"} /\ (x.tag = "LangString" => x.value \in Index)
  BY DEF Segment
<1> HIDE DEF n, p
<1>7. CASE x.tag = "Text"
  BY <1>7 DEF MayExpand, LeftInPlace
<1>8. CASE x.tag = "LangString" /\ x.value \in Index
  BY <1>4, <1>5, <1>8 DEF MayExpand, LeftInPlace, p, n
<1> QED
  BY <1>6, <1>7, <1>8

-----------------------------------------------------------------------------
LEMMA AdvancedIs ==
  ASSUME TypeOK, stack \in Stack, AtSegment
  PROVE  /\ Advanced \in Stack /\ Advanced # <<>> /\ Len(Advanced) = Len(stack)
         /\ \A k \in 1 .. Len(stack) : Advanced[k].index = stack[k].index
         /\ \A k \in 1 .. Len(stack) : k # Len(stack) => Advanced[k] = stack[k]
         /\ Advanced[Len(stack)].rest = Tail(Top.rest)
         /\ Advanced \in Seq(Frames)
<1>1. stack \in Seq(Frames) /\ stack # <<>> /\ Top.rest # <<>>
  BY DEF TypeOK, AtSegment, Stack
<1>2. /\ Advanced \in Seq(Frames) /\ Len(Advanced) = Len(stack) /\ Advanced # <<>>
      /\ \A k \in 1 .. Len(stack) : Advanced[k].index = stack[k].index
  BY <1>1, AdvanceFrame
<1>3. \A k \in 1 .. Len(stack) : k # Len(stack) => Advanced[k] = stack[k]
  BY <1>1 DEF Advanced
<1>4. Len(stack) \in 1 .. Len(stack) /\ stack[Len(stack)] \in Frames
  BY <1>1
<1>5. Advanced[Len(stack)].rest = Tail(Top.rest)
  BY <1>1, <1>4 DEF Advanced, Top, Frames
<1>6. Advanced \in Stack
  BY <1>2 DEF Stack
<1> QED
  BY <1>2, <1>3, <1>5, <1>6

(* What is left when the segment is taken from its frame.                    *)
LEMMA AdvancedSays ==
  ASSUME TypeOK, stack \in Stack, AtSegment, NEW c, Says(c, stack, Meaning)
  PROVE  \E d : /\ Says(d, Advanced, Meaning)
                /\ d[Len(stack)] = Both(Meaning[PathAt(stack, Len(stack))][Tail(Top.rest)],
                                        c[Len(stack) - 1])
<1> DEFINE n == Len(stack)
           p == PathAt(stack, n)
           M == Meaning
           r == M[p][Tail(Top.rest)]
           b == Both(r, c[n - 1])
           d == [k \in 0 .. n |-> IF k = n THEN b ELSE c[k]]
<1>1. /\ n \in Nat /\ n >= 1 /\ r \in Reading /\ c[n - 1] \in Reading
  BY AtASegment
<1>2. b \in Reading
  BY <1>1, BothType
<1>3. \A k \in 1 .. n : PathAt(Advanced, k) = PathAt(stack, k)
  <2> SUFFICES ASSUME NEW k \in 1 .. n PROVE PathAt(Advanced, k) = PathAt(stack, k)
    OBVIOUS
  <2>1. k \in Nat /\ k >= 1 /\ \A j \in 1 .. k : Advanced[j].index = stack[j].index
    BY <1>1, AdvancedIs
  <2> QED
    BY <2>1, PathSame
<1>4. /\ \A k \in 1 .. n : k # n => Advanced[k] = stack[k]
      /\ Advanced[n].rest = Tail(Top.rest) /\ Len(Advanced) = n
  BY AdvancedIs
<1>5. /\ \A k \in 0 .. n : c[k] \in Reading
      /\ c[0] = Success(<<>>)
      /\ \A k \in 1 .. n : c[k] = Both(M[PathAt(stack, k)][stack[k].rest], c[k - 1])
  BY DEF Says
<1>6. b = Both(M[PathAt(Advanced, n)][Advanced[n].rest], c[n - 1])
  BY <1>1, <1>3, <1>4
<1> HIDE DEF b, M, n
<1>7. d[n] = b /\ \A k \in 0 .. n : k # n => d[k] = c[k]
  BY <1>1
<1> HIDE DEF d
<1>8. \A k \in 0 .. n : d[k] \in Reading
  BY <1>2, <1>5, <1>7
<1>9. d[0] = Success(<<>>) /\ d[n - 1] = c[n - 1]
  BY <1>1, <1>5, <1>7
<1>10. ASSUME NEW k \in 1 .. n
       PROVE  d[k] = Both(M[PathAt(Advanced, k)][Advanced[k].rest], d[k - 1])
  <2>1. CASE k = n
    BY <1>6, <1>7, <1>9, <2>1
  <2>2. CASE k # n
    <3>1. d[k] = c[k] /\ d[k - 1] = c[k - 1]
      BY <1>1, <1>7, <2>2
    <3>2. c[k] = Both(M[PathAt(stack, k)][stack[k].rest], c[k - 1])
      BY <1>5
    <3> QED
      BY <1>3, <1>4, <2>2, <3>1, <3>2
  <2> QED
    BY <2>1, <2>2
<1>11. Says(d, Advanced, M)
  BY <1>4, <1>8, <1>9, <1>10 DEF Says
<1> QED
  BY <1>7, <1>11 DEF b, M, n

(* One more frame on top.                                                    *)
LEMMA PushedSays ==
  ASSUME IsTable(table), NEW st \in Stack, st # <<>>, NEW d, Says(d, st, Meaning),
         NEW i \in Index, NEW s \in String, Append(PathAt(st, Len(st)), i) \in Paths
  PROVE  /\ Append(st, Frame(i, s)) \in Stack
         /\ \E e : /\ Says(e, Append(st, Frame(i, s)), Meaning)
                   /\ e[Len(Append(st, Frame(i, s)))]
                        = Both(Meaning[Append(PathAt(st, Len(st)), i)][s], d[Len(st)])
<1> DEFINE n == Len(st)
           f == Frame(i, s)
           su == Append(st, f)
           M == Meaning
           t == M[Append(PathAt(st, n), i)][s]
           b == Both(t, d[n])
           e == [k \in 0 .. n + 1 |-> IF k = n + 1 THEN b ELSE d[k]]
<1>1. n \in Nat /\ n >= 1 /\ st \in Seq(Frames)
  BY OutermostIs
<1>2. f \in Frames /\ f.index = i /\ f.rest = s
  BY FrameType DEF Frame
<1>3. t \in Reading
  BY MeaningTakes
<1>4. /\ \A k \in 0 .. n : d[k] \in Reading
      /\ d[0] = Success(<<>>)
      /\ \A k \in 1 .. n : d[k] = Both(M[PathAt(st, k)][st[k].rest], d[k - 1])
  BY DEF Says
<1>5. b \in Reading
  <2>1. d[n] \in Reading
    BY <1>1, <1>4
  <2> QED
    BY <1>3, <2>1, BothType
<1> HIDE DEF f
<1>6. /\ su \in Seq(Frames) /\ Len(su) = n + 1 /\ su # <<>>
      /\ \A k \in 1 .. n : su[k] = st[k]
      /\ su[n + 1] = f
  BY <1>1, <1>2, AppendFrame
<1>7. su \in Stack
  <2> HIDE DEF su
  <2>1. \A k \in 1 .. n : k > 1 => st[k].index \in Index
    BY DEF Stack
  <2>2. \A k \in 1 .. n + 1 : k > 1 => su[k].index \in Index
    BY <1>1, <1>2, <1>6, <2>1
  <2> QED
    BY <1>6, <2>2 DEF Stack
<1>8. \A k \in 1 .. n : PathAt(su, k) = PathAt(st, k)
  <2> HIDE DEF su
  <2> SUFFICES ASSUME NEW k \in 1 .. n PROVE PathAt(su, k) = PathAt(st, k)
    OBVIOUS
  <2>1. k \in Nat /\ k >= 1 /\ \A j \in 1 .. k : su[j].index = st[j].index
    BY <1>1, <1>6
  <2> QED
    BY <2>1, PathSame
<1>9. PathAt(su, n + 1) = Append(PathAt(st, n), i)
  <2> HIDE DEF su
  <2>1. \A j \in 1 .. Len(st) : st[j].index = su[j].index
    BY <1>6
  <2>2. PathAt(su, Len(st) + 1) = Append(PathAt(st, Len(st)), su[Len(st) + 1].index)
    BY <1>6, <1>7, <2>1, PathGrows
  <2> QED
    BY <1>2, <1>6, <2>2
<1>10. b = Both(M[PathAt(su, n + 1)][su[n + 1].rest], d[n])
  BY <1>2, <1>6, <1>9
<1> HIDE DEF b, M, n, su
<1>11. e[n + 1] = b /\ \A k \in 0 .. n : e[k] = d[k]
  BY <1>1
<1> HIDE DEF e
<1>12. \A k \in 0 .. n + 1 : e[k] \in Reading
  <2>1. \A k \in 0 .. n + 1 : k = n + 1 \/ k \in 0 .. n
    BY <1>1
  <2> QED
    BY <1>4, <1>5, <1>11, <2>1, Zenon
<1>13. e[0] = Success(<<>>) /\ e[(n + 1) - 1] = d[n]
  BY <1>1, <1>4, <1>11
<1>14. ASSUME NEW k \in 1 .. n + 1
       PROVE  e[k] = Both(M[PathAt(su, k)][su[k].rest], e[k - 1])
  <2>1. CASE k = n + 1
    BY <1>10, <1>11, <1>13, <2>1
  <2>2. CASE k # n + 1
    <3>1. k \in 1 .. n /\ k - 1 \in 0 .. n
      BY <1>1, <2>2
    <3>2. d[k] = Both(M[PathAt(st, k)][st[k].rest], d[k - 1])
      BY <1>4, <3>1
    <3> QED
      BY <1>6, <1>8, <1>11, <3>1, <3>2
  <2> QED
    BY <2>1, <2>2
<1>15. Says(e, su, M)
  BY <1>6, <1>12, <1>13, <1>14 DEF Says
<1> QED
  BY <1>6, <1>7, <1>11, <1>15 DEF b, M, n, su, f

-----------------------------------------------------------------------------
(* What each step does to the meanings of the frames, for any reading a of   *)
(* what is out.                                                              *)

LEMMA StartSays ==
  ASSUME TypeOK, ReadLang \/ ResolveLang
  PROVE  stack' \in Stack /\ Meanings(stack', Success(<<>>), Meaning, Meant)
<1>0. IsTable(table)
  BY DEF TypeOK
<1>1. CASE ReadLang
  <2>1. call.index \in DOMAIN table /\ table[call.index].ok /\ call.name = "read_lang"
    BY <1>1 DEF ReadLang
  <2>2. call.index \in Index /\ table[call.index].string \in String
    BY <1>0, <2>1, TextType
  <2>3. call.index # NoIndex
    BY <2>2, NoIndexIs
  <2>4. Meant = Meaning[IF call.index = NoIndex THEN <<>> ELSE <<call.index>>][table[call.index].string]
    BY <2>1, <2>3 DEF Meant
  <2>5. stack' = <<Frame(call.index, table[call.index].string)>>
    BY <1>1 DEF ReadLang
  <2> QED
    BY <1>0, <2>2, <2>4, <2>5, OneFrameSays
<1>2. CASE ResolveLang
  <2>1. call.string \in String /\ call.name = "resolve_lang"
    <3>1. call.name = "resolve_lang"
      BY <1>2 DEF ResolveLang
    <3>2. call \in [name : {"resolve_lang"}, string : String]
      BY <3>1 DEF TypeOK, Call
    <3> QED
      BY <3>1, <3>2
  <2>2. Meant = Meaning[IF NoIndex = NoIndex THEN <<>> ELSE <<NoIndex>>][call.string]
    BY <2>1 DEF Meant
  <2>3. stack' = <<Frame(NoIndex, call.string)>>
    BY <1>2 DEF ResolveLang
  <2> QED
    BY <1>0, <2>1, <2>2, <2>3, OneFrameSays
<1> QED
  BY <1>1, <1>2

LEMMA CopySays ==
  ASSUME TypeOK, stack \in Stack, CopySegment,
         NEW a \in Reading, NEW m, Meanings(stack, a, Meaning, m)
  PROVE  LET x == Visiting
             y == MeaningOf(x, PathAt(stack, Len(stack)), Meaning)
         IN  /\ stack' \in Stack /\ x \in Segment /\ y \in Reading
             /\ PathAt(stack, Len(stack)) \in Paths
             /\ Meanings(stack', Both(a, y), Meaning, m)
             /\ \E z \in Reading : Both(Both(a, y), z) = m
<1>1. AtSegment /\ stack' = Advanced
  BY DEF CopySegment
<1>2. Advanced \in Stack /\ Len(Advanced) = Len(stack)
  BY <1>1, AdvancedIs
<1> DEFINE n == Len(stack)
           p == PathAt(stack, n)
           r == Meaning[p][Tail(Top.rest)]
           y == MeaningOf(Visiting, p, Meaning)
<1>3. PICK c : Says(c, stack, Meaning) /\ Both(a, c[n]) = m
  BY DEF Meanings
<1> DEFINE e == c[n - 1]
<1>4. /\ Visiting \in Segment /\ y \in Reading /\ r \in Reading /\ e \in Reading
      /\ c[n] = Both(Both(y, r), e) /\ p \in Paths
  BY <1>1, <1>3, AtASegment
<1>5. PICK d : Says(d, Advanced, Meaning) /\ d[n] = Both(r, e)
  BY <1>1, <1>3, AdvancedSays
<1> HIDE DEF y, e, r
<1>6. Both(r, e) \in Reading
  BY <1>4, BothType
<1>7. Both(Both(a, y), Both(r, e)) = Both(a, Both(y, Both(r, e)))
  BY <1>4, <1>6, BothAssoc
<1>8. Both(Both(y, r), e) = Both(y, Both(r, e))
  BY <1>4, BothAssoc
<1>9. Both(Both(a, y), d[n]) = m
  BY <1>3, <1>4, <1>5, <1>7, <1>8
<1>10. Meanings(Advanced, Both(a, y), Meaning, m)
  BY <1>2, <1>5, <1>9 DEF Meanings
<1>11. \E z \in Reading : Both(Both(a, y), z) = m
  BY <1>5, <1>6, <1>9
<1> QED
  BY <1>1, <1>2, <1>4, <1>10, <1>11 DEF y

LEMMA ExpandSays ==
  ASSUME TypeOK, stack \in Stack, Expand,
         NEW a \in Reading, NEW m, Meanings(stack, a, Meaning, m)
  PROVE  stack' \in Stack /\ Meanings(stack', a, Meaning, m)
<1> DEFINE x == Visiting
           n == Len(stack)
           p == PathAt(stack, n)
           i == x.value
           s == table[i].string
           r == Meaning[p][Tail(Top.rest)]
           t == Meaning[Append(p, i)][s]
<1>1. /\ AtSegment /\ MayExpand(x) /\ table[i].ok /\ stack # <<>>
      /\ stack' = Append(Advanced, Frame(i, s)) /\ budget > 0
      /\ IsTable(table)
  BY DEF Expand, AtSegment, MayExpand, TypeOK
<1>2. Advanced \in Stack /\ Advanced # <<>> /\ Len(Advanced) = n
      /\ \A k \in 1 .. n : Advanced[k].index = stack[k].index
  BY <1>1, AdvancedIs
<1>3. PICK c : Says(c, stack, Meaning) /\ Both(a, c[n]) = m
  BY DEF Meanings
<1> DEFINE g == c[n - 1]
<1>4. /\ x \in Segment /\ r \in Reading /\ g \in Reading
      /\ MeaningOf(x, p, Meaning) \in Reading /\ p \in Paths
      /\ c[n] = Both(Both(MeaningOf(x, p, Meaning), r), g)
  BY <1>1, <1>3, AtASegment
<1>5. ~LeftInPlace(x, p)
  BY <1>1, <1>4, SameLimits
<1>6. i \in Index /\ s \in String /\ Append(p, i) \in Paths
  BY <1>1, <1>4, <1>5, Reference
<1>7. MeaningOf(x, p, Meaning) = t
  BY <1>1, <1>5 DEF MeaningOf
<1>8. PICK d : Says(d, Advanced, Meaning) /\ d[n] = Both(r, g)
  BY <1>1, <1>3, AdvancedSays
<1>9. PathAt(Advanced, Len(Advanced)) = p
  <2>1. n \in Nat /\ n >= 1
    BY <1>1, OutermostIs
  <2>2. PathAt(Advanced, n) = PathAt(stack, n)
    BY <1>2, <2>1, PathSame
  <2> QED
    BY <1>2, <2>2
<1>10. /\ stack' \in Stack
       /\ \E e : Says(e, stack', Meaning) /\ e[Len(stack')] = Both(t, d[n])
  <2>1. Append(PathAt(Advanced, Len(Advanced)), i) \in Paths
    BY <1>6, <1>9
  <2> HIDE DEF i, s
  <2>2. /\ Append(Advanced, Frame(i, s)) \in Stack
        /\ \E e : /\ Says(e, Append(Advanced, Frame(i, s)), Meaning)
                  /\ e[Len(Append(Advanced, Frame(i, s)))]
                       = Both(Meaning[Append(PathAt(Advanced, Len(Advanced)), i)][s], d[Len(Advanced)])
    BY <1>1, <1>2, <1>6, <1>8, <2>1, PushedSays
  <2> QED
    BY <1>1, <1>2, <1>9, <2>2
<1>11. Meanings(stack', a, Meaning, m)
  <2>1. PICK e : Says(e, stack', Meaning) /\ e[Len(stack')] = Both(t, d[n])
    BY <1>10
  <2>2. t \in Reading
    BY <1>4, <1>7
  <2>3. e[Len(stack')] = Both(t, Both(r, g)) /\ c[n] = Both(Both(t, r), g)
    BY <1>4, <1>7, <1>8, <2>1
  <2> HIDE DEF g, t, r
  <2>4. Both(t, Both(r, g)) = Both(Both(t, r), g)
    BY <1>4, <2>2, BothAssoc
  <2>5. Both(a, e[Len(stack')]) = m
    BY <1>3, <2>3, <2>4
  <2> QED
    BY <2>1, <2>5 DEF Meanings
<1> QED
  BY <1>10, <1>11

LEMMA ExpandFailsSays ==
  ASSUME TypeOK, stack \in Stack, ExpandFails,
         NEW a \in Reading, NEW m, Meanings(stack, a, Meaning, m)
  PROVE  m = Failure
<1>1. /\ AtSegment /\ MayExpand(Visiting) /\ ~table[Visiting.value].ok
      /\ budget > 0 /\ stack # <<>>
  BY DEF ExpandFails, AtSegment, MayExpand, TypeOK
<1> DEFINE n == Len(stack)
           p == PathAt(stack, n)
           x == Visiting
           r == Meaning[p][Tail(Top.rest)]
<1>2. PICK c : Says(c, stack, Meaning) /\ Both(a, c[n]) = m
  BY DEF Meanings
<1>3. /\ x \in Segment /\ r \in Reading /\ c[n - 1] \in Reading
      /\ c[n] = Both(Both(MeaningOf(x, p, Meaning), r), c[n - 1])
  BY <1>1, <1>2, AtASegment
<1>4. ~LeftInPlace(x, p)
  BY <1>1, <1>3, SameLimits
<1>5. MeaningOf(x, p, Meaning) = Failure
  BY <1>1, <1>4 DEF MeaningOf
<1>6. Both(Failure, r) = Failure /\ Both(Failure, c[n - 1]) = Failure
  BY <1>3, BothType
<1>7. Both(a, Failure) = Failure
  BY BothType, ResultType
<1> QED
  BY <1>2, <1>3, <1>5, <1>6, <1>7

LEMMA PopStack ==
  ASSUME stack \in Stack, Pop
  PROVE  stack' \in Stack
<1> DEFINE n == Len(stack)
<1>1. n \in Nat /\ \A k \in 1 .. n : k > 1 => stack[k].index \in Index
  BY DEF Stack
<1>2. /\ stack' \in Seq(Frames) /\ Len(stack') = n - 1
      /\ \A k \in 1 .. n - 1 : stack'[k] = stack[k]
  BY DropFrame DEF Pop, Stack
<1> HIDE DEF n
<1>3. \A k \in 1 .. n - 1 : k > 1 => stack'[k].index \in Index
  BY <1>1, <1>2
<1> QED
  BY <1>2, <1>3 DEF Stack

LEMMA PopSays ==
  ASSUME TypeOK, stack \in Stack, Pop,
         NEW a \in Reading, NEW m, Meanings(stack, a, Meaning, m)
  PROVE  stack' \in Stack /\ Meanings(stack', a, Meaning, m)
<1> DEFINE n == Len(stack)
<1>1. /\ Top.rest = <<>> /\ n > 1 /\ stack' = SubSeq(stack, 1, n - 1)
      /\ stack \in Seq(Frames) /\ n \in Nat /\ IsTable(table)
  BY StackType DEF Pop
<1>2. /\ stack' \in Seq(Frames) /\ Len(stack') = n - 1 /\ stack' # <<>>
      /\ \A k \in 1 .. n - 1 : stack'[k] = stack[k]
  BY <1>1, DropFrame
<1>3. stack' \in Stack
  BY PopStack
<1>4. PICK c : Says(c, stack, Meaning) /\ Both(a, c[n]) = m
  BY DEF Meanings
<1>5. /\ \A k \in 0 .. n : c[k] \in Reading
      /\ c[0] = Success(<<>>)
      /\ \A k \in 1 .. n : c[k] = Both(Meaning[PathAt(stack, k)][stack[k].rest], c[k - 1])
  BY <1>4 DEF Says
<1>6. c[n] = c[n - 1]
  <2>1. n \in 1 .. n /\ n - 1 \in 0 .. n /\ stack # <<>>
    BY <1>1
  <2>2. PathAt(stack, n) \in Paths
    BY <1>1, <2>1, PathType
  <2>3. Meaning[PathAt(stack, n)][<<>>] = Success(<<>>)
    BY <1>1, <2>2, MeaningTakes
  <2>4. stack[n].rest = <<>>
    BY <1>1 DEF Top
  <2>5. c[n] = Both(Success(<<>>), c[n - 1]) /\ c[n - 1] \in Reading
    BY <1>5, <2>1, <2>3, <2>4
  <2> QED
    BY <2>5, BothType, ResultType, Concat
<1>7. \A k \in 1 .. n - 1 : PathAt(stack', k) = PathAt(stack, k)
  <2> SUFFICES ASSUME NEW k \in 1 .. n - 1 PROVE PathAt(stack', k) = PathAt(stack, k)
    OBVIOUS
  <2>1. k \in Nat /\ k >= 1 /\ \A j \in 1 .. k : stack'[j].index = stack[j].index
    BY <1>1, <1>2
  <2> QED
    BY <2>1, PathSame
<1> HIDE DEF n
<1>8. Says(c, stack', Meaning)
  <2>1. \A k \in 0 .. n - 1 : c[k] \in Reading
    BY <1>1, <1>5
  <2>2. \A k \in 1 .. n - 1 : c[k] = Both(Meaning[PathAt(stack', k)][stack'[k].rest], c[k - 1])
    BY <1>1, <1>2, <1>5, <1>7
  <2> QED
    BY <1>2, <1>5, <2>1, <2>2 DEF Says
<1> QED
  BY <1>2, <1>3, <1>4, <1>6, <1>8 DEF Meanings

LEMMA ReturnSays ==
  ASSUME TypeOK, stack \in Stack, Return,
         NEW a \in Reading, NEW m, Meanings(stack, a, Meaning, m)
  PROVE  m = a
<1>1. Top.rest = <<>> /\ Len(stack) = 1 /\ IsTable(table)
  BY StackType DEF Return
<1>2. PICK c : Says(c, stack, Meaning) /\ Both(a, c[1]) = m
  BY <1>1 DEF Meanings
<1>3. stack # <<>> /\ 1 \in 1 .. Len(stack) /\ stack[1].rest = <<>>
  BY <1>1 DEF Top
<1>4. Meaning[PathAt(stack, 1)][<<>>] = Success(<<>>)
  BY <1>1, <1>3, PathType, MeaningTakes
<1>5. c[1] = Both(Success(<<>>), c[0]) /\ c[0] = Success(<<>>)
  <2>1. c[1] = Both(Meaning[PathAt(stack, 1)][stack[1].rest], c[1 - 1]) /\ c[0] = Success(<<>>)
    BY <1>2, <1>3, Zenon DEF Says
  <2> QED
    BY <1>3, <1>4, <2>1
<1> DEFINE b == Success(<<>>)
<1>6. b \in Reading
  BY ResultType, Concat
<1>7. Both(b, b) = b /\ Both(a, b) = a
  BY <1>6, BothType
<1> QED
  BY <1>2, <1>5, <1>7

-----------------------------------------------------------------------------
Kept ==
  /\ pc = "call" => out = <<>>
  /\ pc = "expand" => Meanings(stack, Success(out), Meaning, Meant)
  /\ pc = "failed" => Meant = Failure
  /\ pc = "done" => Meant = Success(out)

Faithful == Inv /\ stack \in Stack /\ (budget > 0 => Kept)

LEMMA InitFaithful == Init => Faithful
<1> SUFFICES ASSUME Init PROVE Faithful
  OBVIOUS
<1>1. Inv
  BY InitInv
<1>2. stack \in Stack
  BY DEF Init, Stack
<1>3. Kept
  BY DEF Init, Kept
<1> QED
  BY <1>1, <1>2, <1>3 DEF Faithful

LEMMA NextFaithful ==
  ASSUME Faithful, [Next]_vars
  PROVE  Faithful'
<1>1. /\ Inv /\ TypeOK /\ out \in String /\ stack \in Stack
      /\ budget \in Nat /\ Inv' /\ Success(out) \in Reading
  BY NextInv, StackType, ResultType DEF Faithful, Inv, TypeOK
<1>2. table' = table /\ call' = call
  BY DEF Next, expand_lang, ReadLang, ReadLangFails, ResolveLang, CopySegment,
         Expand, ExpandFails, Pop, Return, Finished, vars
<1>3. Meaning' = Meaning /\ Meant' = Meant
  BY <1>2, TableKept
<1>4. budget > 0 => Kept
  BY DEF Faithful
<1> SUFFICES stack' \in Stack /\ (budget' > 0 => Kept')
  BY <1>1 DEF Faithful
<1>5. CASE ReadLang \/ ResolveLang
  <2>1. stack' \in Stack /\ Meanings(stack', Success(<<>>), Meaning, Meant)
    BY <1>1, <1>5, StartSays
  <2>2. pc = "call" /\ pc' = "expand" /\ out' = out /\ budget' = budget
    BY <1>5 DEF ReadLang, ResolveLang
  <2> QED
    BY <1>3, <1>4, <2>1, <2>2 DEF Kept
<1>6. CASE ReadLangFails
  <2>1. Meant = Failure
    BY <1>6 DEF ReadLangFails, Meant
  <2> QED
    BY <1>1, <1>3, <1>6, <2>1 DEF ReadLangFails, Kept
<1>7. CASE CopySegment
  <2> DEFINE x == Visiting
             p == PathAt(stack, Len(stack))
  <2>1. /\ pc = "expand" /\ pc' = pc /\ budget' = budget /\ out' = Append(out, x)
        /\ ~MayExpand(x) /\ stack # <<>>
    BY <1>1, <1>7 DEF CopySegment, AtSegment, TypeOK
  <2>2. stack' \in Stack
    BY <1>1, <1>7, AdvancedIs DEF CopySegment
  <2>3. ASSUME budget > 0
        PROVE  Meanings(stack', Success(out'), Meaning, Meant)
    <3>1. Meanings(stack, Success(out), Meaning, Meant)
      BY <1>4, <2>1, <2>3 DEF Kept
    <3>2. /\ x \in Segment
          /\ Meanings(stack', Both(Success(out), MeaningOf(x, p, Meaning)), Meaning, Meant)
      BY <1>1, <1>7, <3>1, CopySays
    <3>3. LeftInPlace(x, p)
      BY <1>1, <2>1, <2>3, <3>2, SameLimits
    <3>4. MeaningOf(x, p, Meaning) = Success(<<x>>)
      BY <3>3 DEF MeaningOf
    <3> HIDE DEF x
    <3>5. out \o <<x>> = out'
      BY <1>1, <2>1, <3>2 DEF String
    <3>6. Both(Success(out), Success(<<x>>)) = Success(out')
      BY <3>5, SuccessIs DEF Both
    <3> QED
      BY <3>2, <3>4, <3>6
  <2> QED
    BY <1>3, <2>1, <2>2, <2>3 DEF Kept
<1>8. CASE Expand
  <2>1. pc = "expand" /\ pc' = pc /\ out' = out /\ budget > 0
    BY <1>8 DEF Expand, AtSegment, MayExpand
  <2>2. Meanings(stack, Success(out), Meaning, Meant)
    BY <1>4, <2>1 DEF Kept
  <2>3. stack' \in Stack /\ Meanings(stack', Success(out), Meaning, Meant)
    BY <1>1, <1>8, <2>2, ExpandSays
  <2> QED
    BY <1>3, <2>1, <2>3 DEF Kept
<1>9. CASE ExpandFails
  <2>1. pc = "expand" /\ pc' = "failed" /\ stack' = stack /\ budget > 0
    BY <1>9 DEF ExpandFails, AtSegment, MayExpand
  <2>2. Meanings(stack, Success(out), Meaning, Meant)
    BY <1>4, <2>1 DEF Kept
  <2>3. Meant = Failure
    BY <1>1, <1>9, <2>2, ExpandFailsSays
  <2> QED
    BY <1>1, <1>3, <2>1, <2>3 DEF Kept
<1>10. CASE Pop
  <2>1. pc = "expand" /\ out' = out /\ pc' = pc /\ budget' = budget
    BY <1>10 DEF Pop
  <2>2. stack' \in Stack
    BY <1>1, <1>10, PopStack
  <2>3. ASSUME budget > 0 PROVE Meanings(stack', Success(out), Meaning, Meant)
    <3>1. Meanings(stack, Success(out), Meaning, Meant)
      BY <1>4, <2>1, <2>3 DEF Kept
    <3> QED
      BY <1>1, <1>10, <3>1, PopSays
  <2> QED
    BY <1>3, <2>1, <2>2, <2>3 DEF Kept
<1>11. CASE Return
  <2>1. pc = "expand" /\ pc' = "done" /\ stack' = stack /\ out' = out /\ budget' = budget
    BY <1>11 DEF Return
  <2>2. ASSUME budget > 0 PROVE Meant = Success(out)
    <3>1. Meanings(stack, Success(out), Meaning, Meant)
      BY <1>4, <2>1, <2>2 DEF Kept
    <3> QED
      BY <1>1, <1>11, <3>1, ReturnSays
  <2> QED
    BY <1>1, <1>3, <2>1, <2>2 DEF Kept
<1>12. CASE Finished \/ UNCHANGED vars
  <2>1. UNCHANGED vars
    BY <1>12 DEF Finished
  <2> QED
    BY <1>1, <1>3, <1>4, <2>1 DEF vars, Kept
<1> QED
  BY <1>5, <1>6, <1>7, <1>8, <1>9, <1>10, <1>11, <1>12 DEF Next, expand_lang

(* As long as the expansions suffice, the loop over frames produces what     *)
(* resolve_lang documents of the string, errors included.                    *)
THEOREM OutputIsTheMeaning == Spec => []MeansWhatItSays
<1>1. Init => Faithful
  BY InitFaithful
<1>2. Faithful /\ [Next]_vars => Faithful'
  BY NextFaithful
<1>3. ASSUME Faithful PROVE MeansWhatItSays
  <2> SUFFICES ASSUME Terminated, budget > 0
               PROVE  /\ pc = "failed" <=> ~Meant.ok
                      /\ pc = "done" => out = Meant.string
    BY DEF MeansWhatItSays
  <2>1. Kept
    BY <1>3 DEF Faithful
  <2>2. CASE pc = "failed"
    BY <2>1, <2>2, SuccessIs DEF Kept
  <2>3. CASE pc = "done"
    BY <2>1, <2>3, SuccessIs DEF Kept
  <2> QED
    BY <2>2, <2>3 DEF Terminated
<1> QED
  BY <1>1, <1>2, <1>3, PTL DEF Spec

-----------------------------------------------------------------------------
(* A string that can be expanded in full inside a path means the same inside *)
(* one with fewer references.                                                *)

Good(r) == r.ok = TRUE /\ IsExpanded(r.string)

LEMMA GoodBoth ==
  ASSUME NEW a \in Reading, NEW b \in Reading, Good(Both(a, b))
  PROVE  Good(a) /\ Good(b)
<1>1. a.ok = TRUE /\ b.ok = TRUE
  BY BothType DEF Good
<1>2. a.string \in String /\ b.string \in String
  BY <1>1, ResultType, SuccessIs
<1>3. Both(a, b).string = a.string \o b.string
  <2>1. Both(a, b) = Success(a.string \o b.string)
    BY <1>1 DEF Both
  <2> QED
    BY <2>1, SuccessIs
<1> DEFINE s == a.string
           t == b.string
           u == s \o t
<1>4. IsExpanded(u)
  BY <1>3 DEF Good
<1>5. /\ Len(s) \in Nat /\ Len(t) \in Nat
      /\ DOMAIN s = 1 .. Len(s) /\ DOMAIN t = 1 .. Len(t)
      /\ DOMAIN u = 1 .. Len(s) + Len(t)
      /\ \A i \in 1 .. Len(s) : u[i] = s[i]
      /\ \A i \in 1 .. Len(t) : u[Len(s) + i] = t[i]
  <2>1. s \in Seq(Segment) /\ t \in Seq(Segment)
    BY <1>2 DEF String
  <2> HIDE DEF s, t
  <2> QED
    BY <2>1
<1> HIDE DEF s, t, u
<1>6. IsExpanded(s)
  BY <1>4, <1>5 DEF IsExpanded
<1>7. IsExpanded(t)
  <2> SUFFICES ASSUME NEW i \in 1 .. Len(t), t[i].tag = "LangString"
               PROVE  t[i].value \notin DOMAIN table
    BY <1>5 DEF IsExpanded
  <2>1. Len(s) + i \in DOMAIN u /\ u[Len(s) + i] = t[i]
    BY <1>5
  <2> QED
    BY <1>4, <2>1 DEF IsExpanded
<1> QED
  BY <1>1, <1>6, <1>7 DEF Good, s, t

Weaker(q, p) == Len(q) <= Len(p) /\ \A i \in Index : In(q, i) => In(p, i)

LEMMA WeakerGrows ==
  ASSUME NEW q \in Paths, NEW p \in Paths, Weaker(q, p), NEW v \in Index
  PROVE  Weaker(Append(q, v), Append(p, v))
<1>1. ASSUME NEW r \in Paths, NEW i \in Index
      PROVE  In(Append(r, v), i) <=> In(r, i) \/ i = v
  <2>1. /\ DOMAIN Append(r, v) = 1 .. Len(r) + 1 /\ DOMAIN r = 1 .. Len(r) /\ Len(r) \in Nat
        /\ \A k \in 1 .. Len(r) : Append(r, v)[k] = r[k]
        /\ Append(r, v)[Len(r) + 1] = v
    BY DEF Paths
  <2>2. \A k : k \in 1 .. Len(r) + 1 <=> k \in 1 .. Len(r) \/ k = Len(r) + 1
    BY <2>1
  <2> QED
    BY <2>1, <2>2, Zenon DEF In
<1>2. Len(Append(q, v)) = Len(q) + 1 /\ Len(Append(p, v)) = Len(p) + 1
      /\ Len(q) \in Nat /\ Len(p) \in Nat
  BY DEF Paths
<1>3. \A i \in Index : In(Append(q, v), i) => In(Append(p, v), i)
  BY <1>1 DEF Weaker
<1>4. Len(Append(q, v)) <= Len(Append(p, v))
  BY <1>2 DEF Weaker
<1> QED
  BY <1>3, <1>4 DEF Weaker

Same(p, q, s) == Good(Meaning[p][s]) => Meaning[q][s] = Meaning[p][s]
SameHead(p, q, x) ==
  Good(MeaningOf(x, p, Meaning)) => MeaningOf(x, q, Meaning) = MeaningOf(x, p, Meaning)

LEMMA HeadSame ==
  ASSUME IsTable(table), NEW q \in Paths, NEW p \in Paths, Weaker(q, p), NEW x \in Segment,
         \A v \in Index, s \in String :
           Len(p) < MaxLangDepth => Same(Append(p, v), Append(q, v), s)
  PROVE  SameHead(p, q, x)
<1> SUFFICES ASSUME Good(MeaningOf(x, p, Meaning))
             PROVE  MeaningOf(x, q, Meaning) = MeaningOf(x, p, Meaning)
  BY DEF SameHead
<1>1. CASE LeftInPlace(x, p)
  <2>1. MeaningOf(x, p, Meaning) = Success(<<x>>)
    BY <1>1 DEF MeaningOf
  <2>2. IsExpanded(<<x>>)
    BY <2>1, SuccessIs DEF Good
  <2>3. x.tag = "LangString" => x.value \notin DOMAIN table
    <3>1. 1 \in DOMAIN <<x>> /\ <<x>>[1] = x
      OBVIOUS
    <3> QED
      BY <2>2, <3>1 DEF IsExpanded
  <2>4. LeftInPlace(x, q)
    <3>1. x.tag \in {"Text", "LangString"}
      BY DEF Segment
    <3> QED
      BY <2>3, <3>1 DEF LeftInPlace
  <2> QED
    BY <2>1, <2>4 DEF MeaningOf
<1>2. CASE ~LeftInPlace(x, p)
  <2>1. /\ x.value \in Index /\ x.value \in DOMAIN table /\ ~In(p, x.value)
        /\ Len(p) < MaxLangDepth /\ x.tag # "Text"
        /\ table[x.value].ok => table[x.value].string \in String
    BY <1>2, Reference DEF LeftInPlace
  <2>2. ~LeftInPlace(x, q)
    <3>1. ~In(q, x.value)
      BY <2>1 DEF Weaker
    <3>2. ~(Len(q) >= MaxLangDepth)
      <4>1. Len(q) \in Nat /\ Len(p) \in Nat
        BY DEF Paths
      <4> QED
        BY <2>1, <4>1, LimitsAssumption DEF Weaker
    <3> QED
      BY <2>1, <3>1, <3>2 DEF LeftInPlace
  <2>3. CASE ~table[x.value].ok
    BY <1>2, <2>2, <2>3 DEF MeaningOf
  <2>4. CASE table[x.value].ok
    <3> DEFINE v == x.value
               s == table[v].string
    <3>1. MeaningOf(x, p, Meaning) = Meaning[Append(p, v)][s]
          /\ MeaningOf(x, q, Meaning) = Meaning[Append(q, v)][s]
      BY <1>2, <2>2, <2>4 DEF MeaningOf
    <3>2. Same(Append(p, v), Append(q, v), s)
      BY <2>1, <2>4
    <3> QED
      BY <3>1, <3>2 DEF Same
  <2> QED
    BY <2>3, <2>4
<1> QED
  BY <1>1, <1>2

LEMMA StringSame ==
  ASSUME IsTable(table), NEW q \in Paths, NEW p \in Paths,
         \A x \in Segment : SameHead(p, q, x), NEW s \in String
  PROVE  Same(p, q, s)
<1> DEFINE S == {m \in Nat : \A u \in String : Len(u) <= m => Same(p, q, u)}
<1>1. /\ \A u \in String : Len(u) <= 0 => u = <<>>
      /\ Meaning[p][<<>>] = Success(<<>>) /\ Meaning[q][<<>>] = Success(<<>>)
  BY HeadAndTail, MeaningTakes
<1>2. Same(p, q, <<>>)
  BY <1>1 DEF Same
<1>3. 0 \in S
  BY <1>1, <1>2
<1>4. ASSUME NEW m \in Nat, m \in S PROVE m + 1 \in S
  <2> SUFFICES ASSUME NEW u \in String, Len(u) <= m + 1 PROVE Same(p, q, u)
    OBVIOUS
  <2>1. CASE u = <<>>
    BY <1>2, <2>1
  <2>2. CASE u # <<>>
    <3> SUFFICES ASSUME Good(Meaning[p][u]) PROVE Meaning[q][u] = Meaning[p][u]
      BY DEF Same
    <3>1. Tail(u) \in String /\ Len(Tail(u)) <= m /\ Head(u) \in Segment
      BY <2>2, HeadAndTail
    <3>2. /\ Meaning[p][u] = Both(MeaningOf(Head(u), p, Meaning), Meaning[p][Tail(u)])
          /\ Meaning[q][u] = Both(MeaningOf(Head(u), q, Meaning), Meaning[q][Tail(u)])
          /\ MeaningOf(Head(u), p, Meaning) \in Reading /\ Meaning[p][Tail(u)] \in Reading
      BY <2>2, <3>1, MeaningTakes
    <3>3. Good(MeaningOf(Head(u), p, Meaning)) /\ Good(Meaning[p][Tail(u)])
      BY <3>2, GoodBoth
    <3>4. MeaningOf(Head(u), q, Meaning) = MeaningOf(Head(u), p, Meaning)
      BY <3>1, <3>3 DEF SameHead
    <3>5. Meaning[q][Tail(u)] = Meaning[p][Tail(u)]
      BY <1>4, <3>1, <3>3 DEF Same
    <3> QED
      BY <3>2, <3>4, <3>5
  <2> QED
    BY <2>1, <2>2
<1>5. Len(s) \in S
  <2>1. Len(s) \in Nat
    BY DEF String
  <2> HIDE DEF S
  <2> QED
    BY <1>3, <1>4, <2>1, Inductively
<1>6. Len(s) <= Len(s)
  BY DEF String
<1> QED
  BY <1>5, <1>6

LEMMA WeakerMeansTheSame ==
  ASSUME IsTable(table), NEW q \in Paths, NEW p \in Paths, Weaker(q, p)
  PROVE  \A x \in Segment : SameHead(p, q, x)
<1> DEFINE From(m) == \A a, b \in Paths, s \in String :
                        Weaker(b, a) /\ Len(a) + m >= MaxLangDepth => Same(a, b, s)
           S == {m \in Nat : From(m)}
           d == MaxLangDepth
<1>1. From(0)
  <2> SUFFICES ASSUME NEW a \in Paths, NEW b \in Paths, NEW s \in String,
                      Weaker(b, a), Len(a) + 0 >= MaxLangDepth
               PROVE  Same(a, b, s)
    BY DEF From
  <2>1. ~(Len(a) < MaxLangDepth)
    BY LimitsAssumption DEF Paths
  <2>2. \A x \in Segment : SameHead(a, b, x)
    BY <2>1, HeadSame
  <2> QED
    BY <2>2, StringSame
<1>2. ASSUME NEW m \in Nat, From(m) PROVE From(m + 1)
  <2> SUFFICES ASSUME NEW a \in Paths, NEW b \in Paths, NEW s \in String,
                      Weaker(b, a), Len(a) + (m + 1) >= MaxLangDepth
               PROVE  Same(a, b, s)
    BY DEF From
  <2>1. ASSUME NEW v \in Index, NEW u \in String
        PROVE  Same(Append(a, v), Append(b, v), u)
    <3>1. /\ Append(a, v) \in Paths /\ Len(Append(a, v)) = Len(a) + 1 /\ Len(a) \in Nat
          /\ Append(b, v) \in Paths
      BY DEF Paths
    <3>2. Len(Append(a, v)) + m >= MaxLangDepth
      BY <3>1, LimitsAssumption
    <3>3. Weaker(Append(b, v), Append(a, v))
      BY WeakerGrows
    <3> QED
      BY <1>2, <3>1, <3>2, <3>3
  <2>2. \A x \in Segment : SameHead(a, b, x)
    BY <2>1, HeadSame
  <2> QED
    BY <2>2, StringSame
<1> HIDE DEF From
<1>3. d \in Nat
  BY LimitsAssumption
<1> HIDE DEF d
<1>4. From(d)
  <2>1. 0 \in S /\ \A m \in Nat : m \in S => m + 1 \in S
    BY <1>1, <1>2
  <2>2. d \in S
    <3> HIDE DEF S
    <3> QED
      BY <1>3, <2>1, Inductively
  <2> QED
    BY <2>2
<1>5. \A v \in Index, s \in String : Same(Append(p, v), Append(q, v), s)
  <2> SUFFICES ASSUME NEW v \in Index, NEW s \in String
               PROVE  Same(Append(p, v), Append(q, v), s)
    OBVIOUS
  <2>1. Append(p, v) \in Paths /\ Append(q, v) \in Paths /\ Len(Append(p, v)) \in Nat
    BY DEF Paths
  <2>2. Len(Append(p, v)) + d >= MaxLangDepth
    BY <1>3, <2>1 DEF d
  <2> QED
    BY <1>4, <2>1, <2>2, WeakerGrows DEF From
<1> QED
  BY <1>5, HeadSame

-----------------------------------------------------------------------------
(* Reading a string up to its last segment.                                  *)
LEMMA MeaningSnoc ==
  ASSUME IsTable(table), NEW p \in Paths, NEW x \in Segment, NEW s \in String
  PROVE  Meaning[p][Append(s, x)] = Both(Meaning[p][s], MeaningOf(x, p, Meaning))
<1> DEFINE M == Meaning[p]
           y == MeaningOf(x, p, Meaning)
           WithLast(u) == M[Append(u, x)] = Both(M[u], y)
           S == {m \in Nat : \A u \in String : Len(u) <= m => WithLast(u)}
<1>1. y \in Reading /\ M[<<>>] = Success(<<>>)
  BY MeaningTakes
<1>2. WithLast(<<>>)
  <2>1. Append(<<>>, x) \in String /\ Append(<<>>, x) # <<>>
        /\ Head(Append(<<>>, x)) = x /\ Tail(Append(<<>>, x)) = <<>>
    BY DEF String
  <2>2. M[Append(<<>>, x)] = Both(y, M[<<>>])
    BY <2>1, MeaningTakes
  <2>3. Both(y, Success(<<>>)) = y /\ Both(Success(<<>>), y) = y
    BY <1>1, BothType, ResultType, Concat
  <2> QED
    BY <1>1, <2>2, <2>3
<1>3. 0 \in S
  <2>1. \A u \in String : Len(u) <= 0 => u = <<>>
    BY HeadAndTail
  <2> HIDE DEF WithLast
  <2> QED
    BY <1>2, <2>1
<1>4. ASSUME NEW m \in Nat, m \in S PROVE m + 1 \in S
  <2> SUFFICES ASSUME NEW u \in String, Len(u) <= m + 1 PROVE WithLast(u)
    OBVIOUS
  <2>1. CASE u = <<>>
    BY <1>2, <2>1
  <2>2. CASE u # <<>>
    <3>1. Tail(u) \in String /\ Len(Tail(u)) <= m /\ Head(u) \in Segment
      BY <2>2, HeadAndTail
    <3>2. Append(u, x) \in String /\ Append(u, x) # <<>>
          /\ Head(Append(u, x)) = Head(u)
      BY <2>2 DEF String
    <3>3. Tail(Append(u, x)) = Append(Tail(u), x)
      <4> DEFINE n == Len(u)
                 a == Tail(Append(u, x))
                 b == Append(Tail(u), x)
      <4>1. n \in Nat /\ n >= 1 /\ u \in Seq(Segment)
        BY <2>2 DEF String
      <4>2. /\ a \in Seq(Segment) /\ Len(a) = n
            /\ \A i \in 1 .. n : a[i] = Append(u, x)[i + 1]
        BY <4>1
      <4>3. /\ b \in Seq(Segment) /\ Len(b) = n
            /\ \A i \in 1 .. n : b[i] = IF i = n THEN x ELSE u[i + 1]
        BY <2>2, <4>1
      <4>4. \A i \in 1 .. n : Append(u, x)[i + 1] = IF i = n THEN x ELSE u[i + 1]
        BY <4>1
      <4>5. \A i \in 1 .. n : a[i] = b[i]
        BY <4>2, <4>3, <4>4
      <4> HIDE DEF a, b, n
      <4>6. a = b
        BY <4>1, <4>2, <4>3, <4>5
      <4> QED
        BY <4>6 DEF a, b
    <3> DEFINE h == MeaningOf(Head(u), p, Meaning)
               t == M[Tail(u)]
    <3>4. M[Append(u, x)] = Both(h, M[Append(Tail(u), x)])
      BY <3>2, <3>3, MeaningTakes
    <3>5. M[u] = Both(h, t) /\ h \in Reading /\ t \in Reading
      BY <2>2, <3>1, MeaningTakes
    <3>6. M[Append(Tail(u), x)] = Both(t, y)
      BY <1>4, <3>1
    <3> HIDE DEF h, t, M, y
    <3>7. Both(h, Both(t, y)) = Both(Both(h, t), y)
      BY <1>1, <3>5, BothAssoc
    <3> QED
      BY <3>4, <3>5, <3>6, <3>7
  <2> QED
    BY <2>1, <2>2
<1>5. Len(s) \in S
  <2>1. Len(s) \in Nat
    BY DEF String
  <2> HIDE DEF S
  <2> QED
    BY <1>3, <1>4, <2>1, Inductively
<1>6. Len(s) <= Len(s)
  BY DEF String
<1> QED
  BY <1>5, <1>6

LEMMA EmptyPath ==
  ASSUME NEW p \in Paths
  PROVE  <<>> \in Paths /\ Weaker(<<>>, p)
<1>1. <<>> \in Paths /\ Len(<<>>) = 0 /\ DOMAIN <<>> = {}
  BY DEF Paths
<1>2. Len(p) \in Nat
  BY DEF Paths
<1> QED
  BY <1>1, <1>2 DEF Weaker, In

(* What is out, read once more, and what the frames have still to say.       *)
Again == Meaning[<<>>][out]

Refined ==
  /\ pc = "call" => out = <<>>
  /\ pc = "expand" => Meanings(stack, Again, Meaning, Meant)
  /\ pc = "done" => Again = Meant

Settled == Faithful /\ (Good(Meant) => Refined)

LEMMA InitSettled == Init => Settled
<1>1. Init => Faithful
  BY InitFaithful
<1>2. Init => Refined
  BY DEF Init, Refined
<1> QED
  BY <1>1, <1>2 DEF Settled

LEMMA NextSettled ==
  ASSUME Settled, [Next]_vars
  PROVE  Settled'
<1>1. /\ Faithful /\ Faithful' /\ TypeOK /\ IsTable(table) /\ out \in String /\ stack \in Stack
      /\ <<>> \in Paths
  <2>1. <<>> \in Paths
    BY DEF Paths
  <2> QED
    BY <2>1, NextFaithful, StackType DEF Settled, Faithful, Inv
<1>2. table' = table /\ call' = call
  BY DEF Next, expand_lang, ReadLang, ReadLangFails, ResolveLang, CopySegment,
         Expand, ExpandFails, Pop, Return, Finished, vars
<1>3. Meaning' = Meaning /\ Meant' = Meant
  BY <1>2, TableKept
<1>4. Good(Meant)' <=> Good(Meant)
  BY <1>2, <1>3 DEF Good, IsExpanded
<1>5. Again \in Reading
  BY <1>1, MeaningTakes DEF Again
<1> SUFFICES ASSUME Good(Meant) PROVE Refined'
  BY <1>1, <1>4 DEF Settled
<1>6. Refined
  BY DEF Settled
<1>7. CASE ReadLang \/ ResolveLang
  <2>1. Meanings(stack', Success(<<>>), Meaning, Meant)
    BY <1>1, <1>7, StartSays
  <2>2. pc = "call" /\ pc' = "expand" /\ out' = out
    BY <1>7 DEF ReadLang, ResolveLang
  <2>3. out' = <<>>
    BY <1>6, <2>2 DEF Refined
  <2>4. Again' = Success(<<>>)
    BY <1>1, <1>3, <2>3, MeaningTakes DEF Again
  <2> QED
    BY <1>3, <2>1, <2>2, <2>4 DEF Refined
<1>8. CASE ReadLangFails \/ ExpandFails
  <2>1. pc' = "failed"
    BY <1>8 DEF ReadLangFails, ExpandFails
  <2> QED
    BY <2>1 DEF Refined
<1>9. CASE CopySegment
  <2> DEFINE x == Visiting
             p == PathAt(stack, Len(stack))
             y == MeaningOf(x, p, Meaning)
             e == <<>>
  <2>1. pc = "expand" /\ pc' = pc /\ out' = Append(out, x)
    BY <1>9 DEF CopySegment, AtSegment
  <2>2. Meanings(stack, Again, Meaning, Meant)
    BY <1>6, <2>1 DEF Refined
  <2>3. /\ x \in Segment /\ y \in Reading /\ p \in Paths
        /\ Meanings(stack', Both(Again, y), Meaning, Meant)
        /\ \E z \in Reading : Both(Both(Again, y), z) = Meant
    BY <1>1, <1>5, <1>9, <2>2, CopySays
  <2>4. Good(y)
    <3>1. PICK z \in Reading : Both(Both(Again, y), z) = Meant
      BY <2>3
    <3> DEFINE a == Both(Again, y)
    <3>2. a \in Reading
      BY <1>5, <2>3, BothType
    <3>3. Good(Both(a, z))
      BY <3>1
    <3> HIDE DEF a, y
    <3>4. Good(a)
      BY <3>2, <3>3, GoodBoth
    <3> QED
      BY <1>5, <2>3, <3>4, GoodBoth DEF a
  <2>5. Weaker(e, p) /\ e \in Paths
    BY <2>3, EmptyPath
  <2>6. MeaningOf(x, e, Meaning) = y
    <3>1. \A u \in Segment : SameHead(p, e, u)
      <4> HIDE DEF p, e
      <4> QED
        BY <1>1, <2>3, <2>5, WeakerMeansTheSame
    <3> QED
      BY <2>3, <2>4, <3>1 DEF SameHead
  <2>7. Again' = Both(Again, y)
    <3>1. Meaning[e][Append(out, x)] = Both(Meaning[e][out], MeaningOf(x, e, Meaning))
      <4> HIDE DEF x, e
      <4> QED
        BY <1>1, <2>3, <2>5, MeaningSnoc
    <3> QED
      BY <1>3, <2>1, <2>6, <3>1 DEF Again
  <2> QED
    BY <1>3, <2>1, <2>3, <2>7 DEF Refined
<1>10. CASE Expand \/ Pop
  <2>1. pc = "expand" /\ pc' = pc /\ out' = out
    BY <1>10 DEF Expand, Pop, AtSegment
  <2>2. Meanings(stack, Again, Meaning, Meant)
    BY <1>6, <2>1 DEF Refined
  <2>3. Meanings(stack', Again, Meaning, Meant)
    BY <1>1, <1>5, <1>10, <2>2, ExpandSays, PopSays
  <2>4. Again' = Again
    BY <1>3, <2>1 DEF Again
  <2> QED
    BY <1>3, <2>1, <2>3, <2>4 DEF Refined
<1>11. CASE Return
  <2>1. pc = "expand" /\ pc' = "done" /\ out' = out
    BY <1>11 DEF Return
  <2>2. Meanings(stack, Again, Meaning, Meant)
    BY <1>6, <2>1 DEF Refined
  <2>3. Meant = Again
    BY <1>1, <1>5, <1>11, <2>2, ReturnSays
  <2> QED
    BY <1>3, <2>1, <2>3 DEF Refined, Again
<1>12. CASE Finished \/ UNCHANGED vars
  <2>1. UNCHANGED vars
    BY <1>12 DEF Finished
  <2> QED
    BY <1>3, <1>6, <2>1 DEF vars, Refined, Again
<1> QED
  BY <1>7, <1>8, <1>9, <1>10, <1>11, <1>12 DEF Next, expand_lang

(* Once the expansions are spent nothing is lost: the result, expanded once  *)
(* more, is what a string that can be expanded in full means.                *)
THEOREM NothingIsLost == Spec => []ResultStillMeansTheString
<1>1. Init => Settled
  BY InitSettled
<1>2. Settled /\ [Next]_vars => Settled'
  BY NextSettled
<1>3. ASSUME Settled PROVE ResultStillMeansTheString
  <2> SUFFICES ASSUME pc = "done", Meant.ok, IsExpanded(Meant.string)
               PROVE  Meaning[<<>>][out] = Meant
    BY DEF ResultStillMeansTheString
  <2>1. Meant.ok = TRUE
    OBVIOUS
  <2>2. Good(Meant)
    BY <2>1 DEF Good
  <2> QED
    BY <1>3, <2>2 DEF Settled, Refined, Again
<1> QED
  BY <1>1, <1>2, <1>3, PTL DEF Spec

-----------------------------------------------------------------------------

(* f begins with `first` and goes on by the steps `step`.                   *)
Stepwise(f, N, V, first, step) ==
  /\ f \in [0 .. N -> V]
  /\ f[0] = first
  /\ \A n \in 1 .. N : f[n] = step[n][f[n - 1]]

(* A function that is given at 0 and by a step exists, and has its type.     *)
LEMMA StepwiseFunction ==
  ASSUME NEW N \in Nat, NEW V, NEW first \in V, NEW step \in [1 .. N -> [V -> V]]
  PROVE  \E f : Stepwise(f, N, V, first, step)
<1> DEFINE Follows(f, m) == /\ f[0] = first
                            /\ \A n \in 1 .. m : f[n] = step[n][f[n - 1]]
           Some(m) == \E f \in [0 .. m -> V] : Follows(f, m)
           S == {m \in Nat : m <= N => Some(m)}
<1>1. 0 \in S
  <2> DEFINE f == [n \in 0 .. 0 |-> first]
  <2>1. f \in [0 .. 0 -> V] /\ Follows(f, 0)
    OBVIOUS
  <2>2. Some(0)
    BY <2>1
  <2> QED
    BY <2>2
<1>2. ASSUME NEW m \in Nat, m \in S, m + 1 <= N PROVE Some(m + 1)
  <2>1. PICK f \in [0 .. m -> V] : Follows(f, m)
    BY <1>2
  <2> DEFINE g == [n \in 0 .. m + 1 |-> IF n = m + 1 THEN step[m + 1][f[m]] ELSE f[n]]
  <2>2. g \in [0 .. m + 1 -> V]
    <3>1. m + 1 \in 1 .. N /\ f[m] \in V
      BY <1>2
    <3>2. step[m + 1][f[m]] \in V
      BY <3>1
    <3> QED
      BY <3>2
  <2>3. Follows(g, m + 1)
    <3>1. g[0] = first
      BY <2>1
    <3>2. ASSUME NEW n \in 1 .. m + 1 PROVE g[n] = step[n][g[n - 1]]
      BY <2>1
    <3> QED
      BY <3>1, <3>2
  <2> QED
    BY <2>2, <2>3
<1>3. ASSUME NEW m \in Nat, m \in S PROVE m + 1 \in S
  <2>1. m + 1 <= N => Some(m + 1)
    BY <1>2, <1>3
  <2> HIDE DEF Some
  <2> QED
    BY <2>1
<1>4. N \in S
  <2> HIDE DEF S
  <2> QED
    BY <1>1, <1>3, Inductively
<1>5. PICK f \in [0 .. N -> V] : Follows(f, N)
  BY <1>4
<1>6. Stepwise(f, N, V, first, step)
  BY <1>5 DEF Stepwise
<1> QED
  BY <1>6

(* Extraction paths.  S is the set of characters.                           *)

Clean(S) == Seq((S \cup {46, 95}) \ Separators)

LEMMA ConstantsAreClean ==
  ASSUME NEW S
  PROVE  Dot \in Clean(S) /\ DotDot \in Clean(S) /\ Underscore \in Clean(S) /\ <<>> \in Clean(S)
         /\ Underscore \notin {<<>>, Dot, DotDot}
  BY DEF Clean, Dot, DotDot, Underscore, Separators, Slash, Backslash

Parts(S) == {ps \in Seq(Clean(S)) : Len(ps) > 0}

LEMMA DividedType ==
  ASSUME NEW S, NEW c \in S, NEW ps \in Parts(S)
  PROVE  Divided(ps, c, Separators) \in Parts(S)
<1>1. ps \in Seq(Clean(S)) /\ Len(ps) > 0
  BY DEF Parts
<1>2. CASE c \in Separators
  <2>1. Append(ps, <<>>) \in Seq(Clean(S)) /\ Len(Append(ps, <<>>)) = Len(ps) + 1
    BY <1>1, ConstantsAreClean
  <2> QED
    BY <1>1, <1>2, <2>1 DEF Divided, Parts
<1>3. CASE c \notin Separators
  <2> DEFINE w == ps[Len(ps)]
             qs == [ps EXCEPT ![Len(ps)] = Append(w, c)]
  <2>1. w \in Clean(S)
    BY <1>1
  <2>2. Append(w, c) \in Clean(S)
    BY <1>3, <2>1 DEF Clean
  <2>3. qs \in Seq(Clean(S)) /\ Len(qs) = Len(ps)
    <3> HIDE DEF w
    <3> QED
      BY <1>1, <2>2
  <2>4. Divided(ps, c, Separators) = qs
    BY <1>3 DEF Divided
  <2> QED
    BY <1>1, <2>3, <2>4 DEF Parts
<1> QED
  BY <1>2, <1>3

LEMMA SplitType ==
  ASSUME NEW S, NEW text \in Seq(S)
  PROVE  SplitOn(Separators, text) \in Parts(S)
<1> DEFINE N == Len(text)
           step == [n \in 1 .. N |-> [ps \in Parts(S) |-> Divided(ps, text[n], Separators)]]
           Step(g) == [n \in 0 .. N |->
                         IF n = 0 THEN <<<<>>>> ELSE Divided(g[n - 1], text[n], Separators)]
<1>1. N \in Nat /\ \A n \in 1 .. N : text[n] \in S
  OBVIOUS
<1>2. step \in [1 .. N -> [Parts(S) -> Parts(S)]]
  BY <1>1, DividedType
<1>3. <<<<>>>> \in Parts(S)
  <2>1. <<>> \in Clean(S)
    BY ConstantsAreClean
  <2> QED
    BY <2>1 DEF Parts
<1>4. PICK f : Stepwise(f, N, Parts(S), <<<<>>>>, step)
  <2> HIDE DEF step, N
  <2> QED
    BY <1>1, <1>2, <1>3, StepwiseFunction, Zenon
<1>5. f \in [0 .. N -> Parts(S)] /\ f[0] = <<<<>>>>
  BY <1>4 DEF Stepwise
<1>6. ASSUME NEW n \in 1 .. N
      PROVE  f[n - 1] \in Parts(S) /\ f[n] = Divided(f[n - 1], text[n], Separators)
  <2>1. n - 1 \in 0 .. N
    BY <1>1
  <2>2. f[n - 1] \in Parts(S)
    BY <1>5, <2>1
  <2>3. f[n] = step[n][f[n - 1]]
    BY <1>4 DEF Stepwise
  <2> QED
    BY <2>2, <2>3
<1>7. f = Step(f)
  <2>1. ASSUME NEW n \in 0 .. N PROVE f[n] = Step(f)[n]
    <3>1. CASE n = 0
      BY <1>5, <3>1
    <3>2. CASE n # 0
      <4>1. n \in 1 .. N
        BY <1>1, <3>2
      <4>2. f[n] = Divided(f[n - 1], text[n], Separators)
        BY <1>6, <4>1
      <4> QED
        BY <3>2, <4>2, Zenon
    <3> QED
      BY <3>1, <3>2
  <2>2. f = [n \in 0 .. N |-> f[n]]
    BY <1>5
  <2> QED
    BY <2>1, <2>2
<1>8. SplitUpTo(Separators, text) = CHOOSE g : g = Step(g)
  BY DEF SplitUpTo
<1> DEFINE r == SplitUpTo(Separators, text)
<1>9. r = Step(r)
  <2> HIDE DEF Step
  <2> QED
    BY <1>7, <1>8
<1>10. r[0] = <<<<>>>> /\ \A n \in 1 .. N : r[n] = Divided(r[n - 1], text[n], Separators)
  <2> HIDE DEF r
  <2>1. r = [n \in 0 .. N |->
               IF n = 0 THEN <<<<>>>> ELSE Divided(r[n - 1], text[n], Separators)]
    BY <1>9
  <2> QED
    BY <1>1, <2>1
<1>11. r[N] \in Parts(S)
  <2> DEFINE T == {m \in Nat : m <= N => r[m] \in Parts(S)}
  <2> HIDE DEF r
  <2>1. 0 \in T
    BY <1>3, <1>10
  <2>2. ASSUME NEW m \in Nat, m \in T PROVE m + 1 \in T
    <3> SUFFICES ASSUME m + 1 <= N PROVE r[m + 1] \in Parts(S)
      OBVIOUS
    <3>1. r[m] \in Parts(S) /\ m + 1 \in 1 .. N
      BY <1>1, <2>2
    <3>2. r[m + 1] = Divided(r[m], text[m + 1], Separators)
      BY <1>10, <3>1
    <3> QED
      BY <1>1, <3>1, <3>2, DividedType
  <2>3. N \in T
    <3> HIDE DEF T, N
    <3> QED
      BY <1>1, <2>1, <2>2, Inductively
  <2> QED
    BY <1>1, <2>3
<1> QED
  BY <1>11 DEF SplitOn

(* What a component is appended as is a component of its own.               *)
LEMMA NameIs ==
  ASSUME NEW S, NEW part \in Clean(S), part # <<>>, part # Dot
  PROVE  /\ Name(part) \in Clean(S)
         /\ Name(part) # <<>> /\ Name(part) # Dot /\ Name(part) # DotDot
  BY ConstantsAreClean DEF Name

(* The characters of paths.                                                 *)
PathChars(S) == S \cup {46, 95, Slash}

LEMMA OneComponent ==
  ASSUME NEW S, NEW name \in Clean(S), name # <<>>, name # Dot, name # DotDot
  PROVE  name \in Seq(PathChars(S)) /\ IsTraversalFree(name)
<1>1. name \in Seq((S \cup {46, 95}) \ Separators) /\ Len(name) \in Nat
  BY DEF Clean
<1>2. name \in Seq(PathChars(S))
  BY <1>1 DEF PathChars
<1>3. \A i \in 1 .. Len(name) : name[i] \notin Separators
  BY <1>1
<1>4. Edges(name) = {0, Len(name) + 1}
  BY <1>1, <1>3 DEF Edges
<1>5. ASSUME NEW i \in 0 .. Len(name) + 1, NEW j \in 0 .. Len(name) + 1, Adjacent(name, i, j)
      PROVE  SubSeq(name, i + 1, j - 1) = name
  <2>1. i = 0 /\ j = Len(name) + 1
    BY <1>1, <1>4, <1>5 DEF Adjacent
  <2>2. SubSeq(name, 1, Len(name)) = name
    BY <1>1
  <2>3. i + 1 = 1 /\ j - 1 = Len(name)
    BY <1>1, <2>1
  <2> QED
    BY <2>2, <2>3
<1> QED
  BY <1>2, <1>5 DEF IsTraversalFree

LEMMA OneMoreComponent ==
  ASSUME NEW S, NEW p \in Seq(PathChars(S)), p # <<>>, IsTraversalFree(p),
         NEW name \in Clean(S), name # <<>>, name # Dot, name # DotDot
  PROVE  /\ Append(p, Slash) \o name \in Seq(PathChars(S))
         /\ IsTraversalFree(Append(p, Slash) \o name)
<1> DEFINE C == PathChars(S)
           q == Append(p, Slash) \o name
           P == Len(p)
           M == Len(name)
<1>1. /\ name \in Seq((S \cup {46, 95}) \ Separators) /\ name \in Seq(C)
      /\ M \in Nat /\ P \in Nat /\ Slash \in C
  BY DEF Clean, PathChars
<1>2. q \in Seq(C) /\ Len(q) = P + 1 + M
  BY <1>1
<1>3. /\ \A i \in 1 .. P : q[i] = p[i]
      /\ q[P + 1] = Slash
      /\ \A i \in 1 .. M : q[P + 1 + i] = name[i]
  BY <1>1
<1>4. \A i \in 1 .. M : q[P + 1 + i] \notin Separators
  BY <1>1, <1>3
<1> HIDE DEF q, P, M, C
<1>5. \A i \in P + 2 .. P + 1 + M : q[i] \notin Separators
  <2>1. ASSUME NEW i \in P + 2 .. P + 1 + M PROVE q[i] \notin Separators
    <3>1. i - P - 1 \in 1 .. M /\ P + 1 + (i - P - 1) = i
      BY <1>1
    <3> QED
      BY <1>4, <3>1
  <2> QED
    BY <2>1
<1>6. Edges(p) = {0, P + 1} \cup {i \in 1 .. P : p[i] \in Separators}
  BY DEF Edges, P
<1>7. Edges(q) = {0, P + 2 + M} \cup {i \in 1 .. P + 1 + M : q[i] \in Separators}
  BY <1>1, <1>2 DEF Edges
<1>8. ASSUME NEW i \in 0 .. P + 1 PROVE i \in Edges(q) <=> i \in Edges(p)
  <2>1. CASE i \in 1 .. P
    BY <1>1, <1>3, <1>6, <1>7, <2>1
  <2>2. CASE i = 0
    BY <1>6, <1>7, <2>2
  <2>3. CASE i = P + 1
    BY <1>1, <1>3, <1>6, <1>7, <2>3 DEF Separators
  <2> QED
    BY <1>1, <2>1, <2>2, <2>3
<1>9. ASSUME NEW i \in Edges(q) PROVE i \in 0 .. P + 1 \/ i = P + 2 + M
  BY <1>1, <1>5, <1>7
<1>10. ASSUME NEW i \in 0 .. P + 2 + M, NEW j \in 0 .. P + 2 + M, Adjacent(q, i, j)
       PROVE  SubSeq(q, i + 1, j - 1) \notin {<<>>, Dot, DotDot}
  <2>0. /\ i \in Edges(q) /\ j \in Edges(q) /\ i < j
        /\ \A k \in Edges(q) : k <= i \/ k >= j
    BY <1>10 DEF Adjacent
  <2>1. CASE j \in 0 .. P + 1
    <3>1. i \in 0 .. P + 1
      BY <1>1, <2>0, <2>1
    <3>2. \A k \in Edges(p) : k \in 0 .. P + 1
      BY <1>1, <1>6
    <3>3. Adjacent(p, i, j)
      BY <1>8, <2>0, <2>1, <3>1, <3>2 DEF Adjacent
    <3>4. SubSeq(p, i + 1, j - 1) \notin {<<>>, Dot, DotDot}
      BY <2>1, <3>1, <3>3 DEF IsTraversalFree, P
    <3>5. SubSeq(q, i + 1, j - 1) = SubSeq(p, i + 1, j - 1)
      BY <1>1, <1>2, <1>3, <2>1, <3>1
      DEF P
    <3> QED
      BY <3>4, <3>5
  <2>2. CASE j = P + 2 + M
    <3>1. P + 1 \in Edges(q)
      BY <1>1, <1>6, <1>8
    <3>2. i = P + 1
      BY <1>1, <1>9, <2>0, <2>2, <3>1
    <3>3. SubSeq(q, P + 2, P + 1 + M) = name
      BY <1>1, <1>2, <1>3 DEF M
    <3>4. i + 1 = P + 2 /\ j - 1 = P + 1 + M
      BY <1>1, <2>2, <3>2
    <3> QED
      BY <3>3, <3>4
  <2> QED
    BY <1>9, <2>0, <2>1, <2>2
<1>11. IsTraversalFree(q)
  <2>1. Len(q) + 1 = P + 2 + M
    BY <1>1, <1>2
  <2> QED
    BY <1>10, <2>1 DEF IsTraversalFree
<1> QED
  BY <1>2, <1>11 DEF q, C

(* Paths without traversals.                                                *)
Below(S) == {p \in Seq(PathChars(S)) : IsTraversalFree(p)}

LEMMA ExtendedType ==
  ASSUME NEW S, NEW p \in Below(S), NEW part \in Clean(S), NEW position \in Nat
  PROVE  Extended(p, part, position) \in Below(S)
<1>1. CASE IsSkipped(part, position)
  BY <1>1 DEF Extended
<1>2. CASE ~IsSkipped(part, position)
  <2>1. part # <<>> /\ part # Dot
    BY <1>2 DEF IsSkipped
  <2>2. /\ Name(part) \in Clean(S)
        /\ Name(part) # <<>> /\ Name(part) # Dot /\ Name(part) # DotDot
    BY <2>1, NameIs
  <2>3. CASE p = <<>>
    <3>1. Extended(p, part, position) = Name(part)
      BY <1>2, <2>3 DEF Extended
    <3> QED
      BY <2>2, <3>1, OneComponent DEF Below
  <2>4. CASE p # <<>>
    <3>1. Extended(p, part, position) = Append(p, Slash) \o Name(part)
      BY <1>2, <2>4 DEF Extended
    <3>2. p \in Seq(PathChars(S)) /\ IsTraversalFree(p)
      BY DEF Below
    <3> QED
      BY <2>2, <2>4, <3>1, <3>2, OneMoreComponent DEF Below
  <2> QED
    BY <2>3, <2>4
<1> QED
  BY <1>1, <1>2

(* The path grows with the components, one after another.                   *)
LEMMA RenderedStepwise ==
  ASSUME NEW S, NEW ps \in Seq(Clean(S))
  PROVE  /\ PathUpTo(ps)[0] = <<>>
         /\ \A n \in 1 .. Len(ps) :
              PathUpTo(ps)[n] = Extended(PathUpTo(ps)[n - 1], ps[n], n)
         /\ \A n \in 0 .. Len(ps) : PathUpTo(ps)[n] \in Below(S)
<1> DEFINE N == Len(ps)
           step == [n \in 1 .. N |-> [p \in Below(S) |-> Extended(p, ps[n], n)]]
           Step(g) == [k \in 0 .. N |->
                         IF k = 0 THEN <<>> ELSE Extended(g[k - 1], ps[k], k)]
<1>1. N \in Nat /\ \A n \in 1 .. N : ps[n] \in Clean(S)
  OBVIOUS
<1>2. step \in [1 .. N -> [Below(S) -> Below(S)]]
  BY <1>1, ExtendedType
<1>3. <<>> \in Below(S)
  BY DEF Below, IsTraversalFree
<1>4. PICK f : Stepwise(f, N, Below(S), <<>>, step)
  <2> HIDE DEF step, N
  <2> QED
    BY <1>1, <1>2, <1>3, StepwiseFunction, Zenon
<1>5. f \in [0 .. N -> Below(S)] /\ f[0] = <<>>
  BY <1>4 DEF Stepwise
<1>6. ASSUME NEW n \in 1 .. N
      PROVE  f[n] = Extended(f[n - 1], ps[n], n)
  <2>1. n - 1 \in 0 .. N
    BY <1>1
  <2>2. f[n - 1] \in Below(S)
    BY <1>5, <2>1
  <2>3. f[n] = step[n][f[n - 1]]
    BY <1>4 DEF Stepwise
  <2> QED
    BY <2>2, <2>3
<1>7. f = Step(f)
  <2>1. ASSUME NEW n \in 0 .. N PROVE f[n] = Step(f)[n]
    <3>1. CASE n = 0
      BY <1>5, <3>1
    <3>2. CASE n # 0
      <4>1. n \in 1 .. N
        BY <1>1, <3>2
      <4>2. f[n] = Extended(f[n - 1], ps[n], n)
        BY <1>6, <4>1
      <4> QED
        BY <3>2, <4>2, Zenon
    <3> QED
      BY <3>1, <3>2
  <2>2. f = [n \in 0 .. N |-> f[n]]
    BY <1>5
  <2> QED
    BY <2>1, <2>2
<1>8. PathUpTo(ps) = CHOOSE g : g = Step(g)
  BY DEF PathUpTo
<1> DEFINE r == PathUpTo(ps)
<1>9. r = Step(r)
  <2> HIDE DEF Step
  <2> QED
    BY <1>7, <1>8
<1>10. r[0] = <<>> /\ \A n \in 1 .. N : r[n] = Extended(r[n - 1], ps[n], n)
  <2> HIDE DEF r
  <2>1. r = [k \in 0 .. N |-> IF k = 0 THEN <<>> ELSE Extended(r[k - 1], ps[k], k)]
    BY <1>9
  <2> QED
    BY <1>1, <2>1
<1>11. \A n \in 0 .. N : r[n] \in Below(S)
  <2> DEFINE T == {m \in Nat : m <= N => r[m] \in Below(S)}
  <2> HIDE DEF r
  <2>1. 0 \in T
    BY <1>3, <1>10
  <2>2. ASSUME NEW m \in Nat, m \in T PROVE m + 1 \in T
    <3> SUFFICES ASSUME m + 1 <= N PROVE r[m + 1] \in Below(S)
      OBVIOUS
    <3>1. r[m] \in Below(S) /\ m + 1 \in 1 .. N /\ m + 1 \in Nat
      BY <1>1, <2>2
    <3>2. r[m + 1] = Extended(r[m], ps[m + 1], m + 1)
      BY <1>10, <3>1
    <3> QED
      BY <1>1, <3>1, <3>2, ExtendedType
  <2>3. \A n \in Nat : n \in T
    <3> HIDE DEF T, N
    <3> QED
      BY <2>1, <2>2, Inductively
  <2> QED
    BY <1>1, <2>3
<1> QED
  BY <1>10, <1>11

(* One component more: no drive comes to the head of the path with it.      *)
LEMMA NoDriveAdded ==
  ASSUME NEW S, NEW path \in Seq(S), ~starts_with_drive_letter(path), NEW part, NEW position,
         path = <<>> => ~starts_with_drive_letter(part) \/ IsSkipped(part, position)
  PROVE  ~starts_with_drive_letter(Extended(path, part, position))
<1>1. CASE IsSkipped(part, position)
  BY <1>1 DEF Extended
<1>2. CASE ~IsSkipped(part, position) /\ path = <<>>
  <2>1. Extended(path, part, position) = Name(part) /\ ~starts_with_drive_letter(part)
    BY <1>2 DEF Extended
  <2>2. ~starts_with_drive_letter(Underscore)
    BY DEF Underscore, starts_with_drive_letter
  <2> QED
    BY <2>1, <2>2 DEF Name
<1>3. CASE ~IsSkipped(part, position) /\ path # <<>>
  <2> DEFINE name == Name(part)
             q == Append(path, Slash) \o name
  <2>1. Extended(path, part, position) = q
    BY <1>3 DEF Extended
  <2>2. Len(path) \in Nat /\ Len(path) > 0
    BY <1>3
  <2>3. q[1] = path[1] /\ q[2] = IF Len(path) > 1 THEN path[2] ELSE Slash
    <3> HIDE DEF name
    <3>1. /\ Append(path, Slash) \in Seq(S \cup {Slash})
          /\ Len(Append(path, Slash)) = Len(path) + 1
          /\ Append(path, Slash)[1] = path[1]
          /\ Append(path, Slash)[2] = IF Len(path) > 1 THEN path[2] ELSE Slash
      BY <2>2
    <3> QED
      BY <2>2, <3>1
  <2>4. CASE Len(path) > 1
    BY <2>1, <2>2, <2>3, <2>4 DEF starts_with_drive_letter
  <2>5. CASE Len(path) = 1
    BY <2>1, <2>3, <2>5 DEF starts_with_drive_letter, Slash
  <2> QED
    BY <2>2, <2>4, <2>5
<1> QED
  BY <1>1, <1>2, <1>3

(* A path is empty while every component was skipped; and a name is not.    *)
PassedOver(ps, path, n) == path = <<>> => \A j \in 1 .. n : ~IsPlainName(ps[j])

LEMMA NameIsKept ==
  ASSUME NEW S, NEW path \in Seq(PathChars(S)), NEW part \in Clean(S), NEW position,
         Extended(path, part, position) = <<>>
  PROVE  path = <<>> /\ ~IsPlainName(part)
<1>1. CASE IsSkipped(part, position)
  <2>1. Extended(path, part, position) = path
    BY <1>1 DEF Extended
  <2>2. part \in {<<>>, Dot} \/ starts_with_drive_letter(part)
    BY <1>1 DEF IsSkipped, is_drive_letter
  <2> QED
    BY <2>1, <2>2 DEF IsPlainName
<1>2. CASE ~IsSkipped(part, position)
  <2>1. part # <<>> /\ part # Dot
    BY <1>2 DEF IsSkipped
  <2> DEFINE name == Name(part)
  <2>2. name \in Clean(S) /\ name # <<>>
    BY <2>1, NameIs
  <2> HIDE DEF name
  <2>3. name \in Seq((S \cup {46, 95}) \ Separators) /\ Len(name) \in Nat /\ Len(name) > 0
    BY <2>2 DEF Clean
  <2>4. CASE path = <<>>
    BY <1>2, <2>2, <2>4 DEF Extended, name
  <2>5. CASE path # <<>>
    <3>1. Extended(path, part, position) = Append(path, Slash) \o name
      BY <1>2, <2>5 DEF Extended, name
    <3>2. Append(path, Slash) \in Seq(PathChars(S)) /\ name \in Seq(PathChars(S))
            /\ Len(Append(path, Slash)) > 0
      BY <2>3 DEF PathChars
    <3>3. Len(Append(path, Slash) \o name) > 0
      BY <2>3, <3>2
    <3> QED
      BY <3>1, <3>3
  <2> QED
    BY <2>4, <2>5
<1> QED
  BY <1>1, <1>2

LEMMA RenderedType ==
  ASSUME NEW S, NEW ps \in Seq(Clean(S))
  PROVE  PathOf(ps) \in Below(S)
<1>1. Len(ps) \in Nat
  OBVIOUS
<1> QED
  BY <1>1, RenderedStepwise DEF PathOf

(* Where the drives of the components can be told, none leads the path.     *)
LEMMA NoDriveLeads ==
  ASSUME NEW S, NEW ps \in Seq(Clean(S)),
         \A k \in DOMAIN ps : starts_with_drive_letter(ps[k]) =>
           (k = 1 /\ Len(ps[k]) = 2) \/ \E j \in 1 .. k - 1 : IsPlainName(ps[j])
  PROVE  ~starts_with_drive_letter(PathOf(ps))
<1> DEFINE r == PathUpTo(ps)
           N == Len(ps)
           T == {n \in Nat : n <= N => ~starts_with_drive_letter(r[n]) /\ PassedOver(ps, r[n], n)}
<1>1. /\ r[0] = <<>>
      /\ \A n \in 1 .. N : r[n] = Extended(r[n - 1], ps[n], n)
      /\ \A n \in 0 .. N : r[n] \in Below(S)
  BY RenderedStepwise
<1>2. N \in Nat /\ DOMAIN ps = 1 .. N /\ \A n \in 1 .. N : ps[n] \in Clean(S)
  OBVIOUS
<1> HIDE DEF r, N
<1>3. 0 \in T
  BY <1>1 DEF PassedOver, starts_with_drive_letter
<1>4. ASSUME NEW n \in Nat, n \in T PROVE n + 1 \in T
  <2> SUFFICES ASSUME n + 1 <= N
               PROVE  ~starts_with_drive_letter(r[n + 1]) /\ PassedOver(ps, r[n + 1], n + 1)
    OBVIOUS
  <2> DEFINE k == n + 1
  <2>1. k \in 1 .. N /\ k - 1 = n /\ n \in 0 .. N
    BY <1>2
  <2>2. ~starts_with_drive_letter(r[n]) /\ PassedOver(ps, r[n], n)
    BY <1>2, <1>4
  <2>3. r[k] = Extended(r[n], ps[k], k) /\ r[n] \in Seq(PathChars(S)) /\ ps[k] \in Clean(S)
    BY <1>1, <1>2, <2>1 DEF Below
  <2> HIDE DEF k
  <2>4. ASSUME r[n] = <<>>, starts_with_drive_letter(ps[k]) PROVE IsSkipped(ps[k], k)
    <3>1. ~\E j \in 1 .. k - 1 : IsPlainName(ps[j])
      BY <2>1, <2>2, <2>4 DEF PassedOver
    <3>2. k = 1 /\ Len(ps[k]) = 2
      BY <1>2, <2>1, <2>4, <3>1
    <3> QED
      BY <2>4, <3>2 DEF IsSkipped, is_drive_letter
  <2>5. ~starts_with_drive_letter(r[k])
    BY <2>2, <2>3, <2>4, NoDriveAdded
  <2>6. ASSUME r[k] = <<>>, NEW j \in 1 .. k PROVE ~IsPlainName(ps[j])
    <3>1. r[n] = <<>> /\ ~IsPlainName(ps[k])
      BY <2>3, <2>6, NameIsKept
    <3>2. j = k \/ j \in 1 .. n
      BY <2>1
    <3> QED
      BY <2>2, <3>1, <3>2 DEF PassedOver
  <2> QED
    BY <2>5, <2>6 DEF PassedOver, k
<1>5. \A n \in Nat : n \in T
  <2> HIDE DEF T
  <2> QED
    BY <1>3, <1>4, Inductively
<1> QED
  BY <1>2, <1>5 DEF PathOf, r, N

(* sanitize_extraction_path: whatever text a path is rendered from, with    *)
(* whatever mixture of separators, dots, drives and names put together from *)
(* several segments, the result has no empty, "." or ".." component; and    *)
(* where its drives can be told, the first component being exactly one or a *)
(* name standing before them, it does not begin with a drive and so is      *)
(* empty or names a place below the directory it is joined to.              *)
THEOREM SanitizedPathsStayBelow ==
  \A S : \A text \in Seq(S) : IsSafe(sanitize_extraction_path(text), text)
<1>1. ASSUME NEW S, NEW text \in Seq(S)
      PROVE  IsSafe(sanitize_extraction_path(text), text)
  <2> DEFINE ps == SplitOn(Separators, text)
  <2>1. ps \in Seq(Clean(S))
    BY SplitType DEF Parts
  <2>2. PathOf(ps) \in Below(S)
    BY <2>1, RenderedType
  <2>3. ASSUME DrivesAreTold(text) PROVE ~starts_with_drive_letter(PathOf(ps))
    <3>1. \A k \in DOMAIN ps : starts_with_drive_letter(ps[k]) =>
            (k = 1 /\ Len(ps[k]) = 2) \/ \E j \in 1 .. k - 1 : IsPlainName(ps[j])
      BY <2>3 DEF DrivesAreTold
    <3> HIDE DEF ps
    <3> QED
      BY <2>1, <3>1, NoDriveLeads
  <2> QED
    BY <2>2, <2>3 DEF Below, sanitize_extraction_path, IsSafe, StaysBelow
<1> QED
  BY <1>1

-----------------------------------------------------------------------------
(* Reading a string: the table is bytes, and what is read of it is text.    *)

(* A nonempty set of numbers has a least element, which is what Min takes.   *)
LEMMA LeastIsMin ==
  ASSUME NEW S \in SUBSET Nat, S # {}
  PROVE  Min(S) \in S
<1> DEFINE Less == {ss \in Nat \X Nat : ss[1] < ss[2]}
<1>1. IsWellFoundedOn(Less, Nat)
  BY NatLessThanWellFounded DEF OpToRel
<1>2. PICK x \in S : \A y \in S : <<y, x>> \notin Less
  BY <1>1, WFMin
<1>3. \A y \in S : x <= y
  <2> SUFFICES ASSUME NEW y \in S PROVE x <= y
    OBVIOUS
  <2>1. x \in Nat /\ y \in Nat
    OBVIOUS
  <2>2. ~(y < x)
    BY <1>2, <2>1
  <2> QED
    BY <2>1, <2>2
<1> QED
  BY <1>2, <1>3 DEF Min

(* Sequences put end to end.                                                *)
LEMMA FlattenIs ==
  ASSUME NEW V, NEW ss \in Seq(Seq(V)), Len(ss) > 0
  PROVE  \E g \in [1 .. Len(ss) -> Seq(V)] :
           /\ FlattenSeq(ss) = g[Len(ss)]
           /\ \A i \in 1 .. Len(ss) : g[i] = IF i = 1 THEN ss[i] ELSE g[i - 1] \o ss[i]
<1> DEFINE N == Len(ss)
           W == Seq(V)
           M == N - 1
           step == [n \in 1 .. M |-> [t \in W |-> t \o ss[n + 1]]]
           Step(g) == [i \in 1 .. N |-> IF i = 1 THEN ss[i] ELSE g[i - 1] \o ss[i]]
<1>1. N \in Nat /\ M \in Nat /\ \A n \in 1 .. N : ss[n] \in W
  OBVIOUS
<1>2. step \in [1 .. M -> [W -> W]]
  <2>1. \A n \in 1 .. M : ss[n + 1] \in W
    BY <1>1
  <2>2. \A s, t \in W : s \o t \in W
    OBVIOUS
  <2> HIDE DEF M, W
  <2> QED
    BY <2>1, <2>2
<1>3. ss[1] \in W
  BY <1>1
<1>4. PICK f : Stepwise(f, M, W, ss[1], step)
  <2> HIDE DEF step, M, W
  <2> QED
    BY <1>1, <1>2, <1>3, StepwiseFunction, Zenon
<1>5. f \in [0 .. M -> W] /\ f[0] = ss[1]
  BY <1>4 DEF Stepwise
<1>6. ASSUME NEW n \in 1 .. M
      PROVE  f[n] = f[n - 1] \o ss[n + 1]
  <2>1. n - 1 \in 0 .. M
    BY <1>1
  <2>2. f[n - 1] \in W
    BY <1>5, <2>1
  <2>3. f[n] = step[n][f[n - 1]]
    BY <1>4 DEF Stepwise
  <2> HIDE DEF W, M
  <2> QED
    BY <2>2, <2>3
<1> DEFINE h == [i \in 1 .. N |-> f[i - 1]]
<1>7. h \in [1 .. N -> W]
  <2>1. \A i \in 1 .. N : i - 1 \in 0 .. M
    BY <1>1
  <2> HIDE DEF M, W, N
  <2> QED
    BY <1>5, <2>1
<1>8. ASSUME NEW i \in 1 .. N
      PROVE  h[i] = IF i = 1 THEN ss[i] ELSE h[i - 1] \o ss[i]
  <2>1. CASE i = 1
    BY <1>5, <2>1
  <2>2. CASE i # 1
    <3>1. i - 1 \in 1 .. M /\ i - 1 \in 1 .. N /\ (i - 1) + 1 = i
      BY <1>1, <2>2
    <3>2. f[i - 1] = f[(i - 1) - 1] \o ss[(i - 1) + 1]
      <4> HIDE DEF M
      <4> QED
        BY <1>6, <3>1
    <3>3. h[i] = f[i - 1] /\ h[i - 1] = f[(i - 1) - 1]
      BY <3>1
    <3> QED
      BY <2>2, <3>1, <3>2, <3>3, Zenon
  <2> QED
    BY <2>1, <2>2
<1>9. h = Step(h)
  <2> HIDE DEF h
  <2>1. h = [i \in 1 .. N |-> h[i]]
    BY <1>7
  <2> QED
    BY <1>8, <2>1
<1> DEFINE r == CHOOSE g : g = Step(g)
<1>10. r = Step(r)
  <2> HIDE DEF Step, h
  <2> QED
    BY <1>9
<1>11. FlattenSeq(ss) = r[N]
  BY DEF FlattenSeq
<1>12. \A i \in 1 .. N : r[i] = IF i = 1 THEN ss[i] ELSE r[i - 1] \o ss[i]
  <2> HIDE DEF r
  <2> QED
    BY <1>10
<1>13. ASSUME NEW i \in 1 .. N PROVE r[i] \in W
  <2> DEFINE T == {m \in Nat : m + 1 <= N => r[m + 1] \in W}
  <2> HIDE DEF r
  <2>1. 0 \in T
    <3>1. 1 \in 1 .. N /\ ss[1] \in W
      BY <1>1
    <3>2. r[1] = ss[1]
      BY <1>12, <3>1
    <3>3. 0 + 1 = 1
      OBVIOUS
    <3> QED
      BY <3>1, <3>2, <3>3
  <2>2. ASSUME NEW m \in Nat, m \in T PROVE m + 1 \in T
    <3> SUFFICES ASSUME m + 2 <= N PROVE r[m + 2] \in W
      OBVIOUS
    <3>1. r[m + 1] \in W /\ m + 2 \in 1 .. N /\ m + 2 # 1 /\ (m + 2) - 1 = m + 1
      BY <1>1, <2>2
    <3>2. r[m + 2] = r[m + 1] \o ss[m + 2]
      BY <1>12, <3>1
    <3>3. ss[m + 2] \in W
      BY <1>1, <3>1
    <3> QED
      BY <3>1, <3>2, <3>3
  <2>3. i - 1 \in T
    <3>1. i - 1 \in Nat
      BY <1>1
    <3> HIDE DEF T
    <3> QED
      BY <2>1, <2>2, <3>1, Inductively
  <2> QED
    BY <1>1, <2>3
<1>14. r \in [1 .. N -> W]
  <2> HIDE DEF r
  <2>1. r = [i \in 1 .. N |-> r[i]]
    BY <1>10
  <2> HIDE DEF W, N
  <2> QED
    BY <1>13, <2>1
<1> HIDE DEF r
<1> QED
  BY <1>11, <1>12, <1>14, Zenon

LEMMA FlattenType ==
  ASSUME NEW V, NEW ss \in Seq(Seq(V))
  PROVE  FlattenSeq(ss) \in Seq(V)
<1>1. CASE Len(ss) = 0
  <2>1. FlattenSeq(ss) = <<>>
    BY <1>1 DEF FlattenSeq
  <2> QED
    BY <2>1
<1>2. CASE Len(ss) > 0
  <2>1. Len(ss) \in 1 .. Len(ss)
    BY <1>2
  <2>2. PICK g \in [1 .. Len(ss) -> Seq(V)] : FlattenSeq(ss) = g[Len(ss)]
    BY <1>2, FlattenIs
  <2> QED
    BY <2>1, <2>2
<1> QED
  BY <1>1, <1>2

(* What is written is bytes.                                                *)
CharLimit(c) == IF IsWide(c) THEN 65535 ELSE 255

WideChars == 0 .. 65535

LEMMA PairType ==
  ASSUME NEW n \in WideChars
  PROVE  <<n % 256, n \div 256>> \in Seq(Byte)
<1>1. n \in Nat /\ n <= 65535
  BY DEF WideChars
<1>2. n % 256 \in 0 .. 255
  BY <1>1
<1>3. n \div 256 \in 0 .. 255
  BY <1>1
<1> QED
  BY <1>2, <1>3 DEF Byte

LEMMA Element ==
  ASSUME NEW V, NEW s \in Seq(V), NEW k \in DOMAIN s
  PROVE  s[k] \in V
  OBVIOUS

LEMMA EndToEnd ==
  ASSUME NEW V, NEW s \in Seq(V), NEW t \in Seq(V)
  PROVE  s \o t \in Seq(V) /\ Len(s \o t) = Len(s) + Len(t)
  OBVIOUS

LEMMA OneOrNone ==
  ASSUME NEW V, NEW x \in V
  PROVE  <<x>> \in Seq(V) /\ <<>> \in Seq(V)
  OBVIOUS

LEMMA PairsType ==
  ASSUME NEW V, \A n \in V : <<n % 256, n \div 256>> \in Seq(Byte), NEW s \in Seq(V)
  PROVE  FlattenSeq([k \in DOMAIN s |-> <<s[k] % 256, s[k] \div 256>>]) \in Seq(Byte)
<1> DEFINE Pair(n) == <<n % 256, n \div 256>>
           pairs == [k \in DOMAIN s |-> Pair(s[k])]
           W == Seq(Byte)
<1>1. \A n \in V : Pair(n) \in W
  OBVIOUS
<1>2. DOMAIN s = 1 .. Len(s) /\ Len(s) \in Nat /\ \A k \in DOMAIN s : s[k] \in V
  OBVIOUS
<1>3. pairs \in Seq(W)
  <2> HIDE DEF Pair, W
  <2> QED
    BY <1>1, <1>2
<1>4. FlattenSeq(pairs) \in Seq(Byte)
  <2> HIDE DEF pairs
  <2> QED
    BY <1>3, FlattenType
<1> QED
  BY <1>4

LEMMA CharsType ==
  ASSUME NEW c, NEW seq \in Seq(0 .. CharLimit(c))
  PROVE  Chars(c, seq) \in Seq(Byte)
<1>1. CASE IsWide(c)
  <2>1. CharLimit(c) = 65535
    BY <1>1 DEF CharLimit
  <2>2. seq \in Seq(WideChars)
    <3>1. WideChars = 0 .. CharLimit(c)
      BY <2>1 DEF WideChars
    <3> QED
      BY <3>1, Zenon
  <2>3. \A n \in WideChars : <<n % 256, n \div 256>> \in Seq(Byte)
    BY PairType
  <2>4. FlattenSeq([k \in DOMAIN seq |-> <<seq[k] % 256, seq[k] \div 256>>]) \in Seq(Byte)
    BY <2>2, <2>3, PairsType, Zenon
  <2> QED
    BY <1>1, <2>4 DEF Chars
<1>2. CASE ~IsWide(c)
  BY <1>2 DEF Chars, CharLimit, Byte
<1> QED
  BY <1>1, <1>2

LEMMA EscapeType ==
  ASSUME NEW c \in Compilers, NEW x \in 0 .. CharLimit(c)
  PROVE  Append(Escape(c, x), x) \in Seq(0 .. CharLimit(c))
<1>1. Escape(c, x) \in Seq(0 .. CharLimit(c))
  <2>1. CASE c = "V1"
    <3>1. CharLimit(c) = 255
      BY <2>1 DEF CharLimit, IsWide
    <3>2. Escape(c, x) \in {<<255>>, <<>>}
      BY <2>1 DEF Escape
    <3>3. 255 \in 0 .. CharLimit(c)
      BY <3>1
    <3> QED
      BY <3>2, <3>3, OneOrNone
  <2>2. CASE c \in {"V2", "V3Ansi", "V3Unicode", "Park"}
    <3>1. c # "V1" /\ Code[c].skip \in 0 .. CharLimit(c)
      BY <2>2 DEF Code, CharLimit, IsWide
    <3>2. Escape(c, x) \in {<<Code[c].skip>>, <<>>}
      BY <3>1 DEF Escape
    <3> QED
      BY <3>1, <3>2, OneOrNone
  <2> QED
    BY <2>1, <2>2 DEF Compilers
<1> QED
  BY <1>1

LEMMA NumberType ==
  ASSUME NEW c, NEW n \in Nat, n < 128 * (IF c = "Park" THEN 256 ELSE 128)
  PROVE  Number(c, n) \in Seq(Byte)
<1>1. CASE c = "Park"
  <2>1. n % 256 \in Byte /\ 128 + n \div 256 \in Byte
    BY <1>1 DEF Byte
  <2> QED
    BY <1>1, <2>1 DEF Number
<1>2. CASE c # "Park"
  <2>1. 128 + (n % 128) \in Byte /\ 128 + n \div 128 \in Byte
    BY <1>2 DEF Byte
  <2> QED
    BY <1>2, <2>1 DEF Number, CodeShort
<1> QED
  BY <1>1, <1>2

LEMMA ArgumentType ==
  ASSUME NEW c \in Compilers \ {"V1"}, NEW part \in Part, part.tag # "Text", IsPart(c, part)
  PROVE  Argument(c, part) \in Seq(Byte)
<1>1. CASE part.tag = "Shell"
  <2>1. part.a \in Byte /\ part.b \in Byte
    BY <1>1 DEF IsPart
  <2> QED
    BY <1>1, <2>1 DEF Argument
<1>2. CASE part.tag = "Registry"
  <2>1. part.a \in 1 .. 2 /\ part.b \in 0 .. 1
    BY <1>2 DEF IsPart
  <2>2. 128 + 64 * part.b + NameOffset(part.a) \in Byte /\ 38 \in Byte
    BY <2>1 DEF NameOffset, Byte
  <2> QED
    BY <1>2, <2>2 DEF Argument
<1>3. CASE part.tag \in {"Variable", "LangString"}
  <2>1. part.a \in Nat /\ part.a < 128 * (IF c = "Park" THEN 256 ELSE 128)
    BY <1>3 DEF IsPart, Part
  <2>2. Argument(c, part) = Number(c, part.a)
    BY <1>3 DEF Argument
  <2> QED
    BY <2>1, <2>2, NumberType
<1> QED
  BY <1>1, <1>2, <1>3 DEF Part

LEMMA PartBytesType ==
  ASSUME NEW c \in Compilers, NEW part \in Part, IsPart(c, part)
  PROVE  PartBytes(c, part) \in Seq(Byte)
<1>1. CASE part.tag = "Text"
  <2>1. part.a \in 0 .. CharLimit(c)
    BY <1>1 DEF IsPart, Part, CharLimit
  <2>2. Chars(c, Append(Escape(c, part.a), part.a)) \in Seq(Byte)
    BY <2>1, EscapeType, CharsType
  <2> QED
    BY <1>1, <2>2 DEF PartBytes
<1>2. CASE part.tag # "Text" /\ c = "V1"
  <2>1. part.a \in Nat /\ part.a < Len(BuiltInV1)
    <3>1. part.a \in Nat
      BY DEF Part
    <3>2. part.a < Len(BuiltInV1)
      BY <1>2 DEF IsPart
    <3> QED
      BY <3>1, <3>2
  <2>2. Len(BuiltInV1) = 34
    BY DEF BuiltInV1, Registers, Digits
  <2>3. 221 + part.a \in Byte
    BY <2>1, <2>2 DEF Byte
  <2> QED
    BY <1>2, <2>3 DEF PartBytes
<1>3. CASE part.tag # "Text" /\ c # "V1"
  <2> DEFINE tag == IF part.tag = "Registry" THEN "Shell" ELSE part.tag
  <2>1. c \in {"V2", "V3Ansi", "V3Unicode", "Park"}
        /\ tag \in {"Variable", "Shell", "LangString"}
    BY <1>3 DEF Compilers, Part
  <2>2. Code[c][tag] \in 0 .. CharLimit(c)
    <3> HIDE DEF tag
    <3> QED
      BY <2>1 DEF Code, CharLimit, IsWide
  <2>3. Chars(c, <<Code[c][tag]>>) \in Seq(Byte)
    <3>1. <<Code[c][tag]>> \in Seq(0 .. CharLimit(c))
      BY <2>2
    <3> QED
      BY <3>1, CharsType
  <2>4. Argument(c, part) \in Seq(Byte)
    BY <1>3, ArgumentType
  <2>5. PartBytes(c, part) = Chars(c, <<Code[c][tag]>>) \o Argument(c, part)
    BY <1>3 DEF PartBytes
  <2> QED
    BY <2>3, <2>4, <2>5
<1> QED
  BY <1>1, <1>2, <1>3

LEMMA StringBytesType ==
  ASSUME NEW c \in Compilers, NEW s \in Seq(Part), \A i \in DOMAIN s : IsPart(c, s[i])
  PROVE  StringBytes(c, s) \in Seq(Byte)
<1> DEFINE parts == [k \in DOMAIN s |-> PartBytes(c, s[k])]
<1>1. parts \in Seq(Seq(Byte))
  <2>1. \A k \in DOMAIN s : PartBytes(c, s[k]) \in Seq(Byte)
    BY Element, PartBytesType
  <2>2. DOMAIN s = 1 .. Len(s) /\ Len(s) \in Nat
    OBVIOUS
  <2> QED
    BY <2>1, <2>2
<1>2. FlattenSeq(parts) \in Seq(Byte)
  <2> HIDE DEF parts
  <2> QED
    BY <1>1, FlattenType
<1>3. Chars(c, <<0>>) \in Seq(Byte)
  <2>1. 0 \in 0 .. CharLimit(c)
    BY DEF CharLimit
  <2> QED
    BY <2>1, OneOrNone, CharsType
<1> QED
  BY <1>2, <1>3 DEF StringBytes

LEMMA TableType ==
  ASSUME NEW f, IsFile(f)
  PROVE  /\ TableParts(f) \in Seq(Seq(Byte))
         /\ Len(f.strings) \in Nat /\ Len(TableParts(f)) = Len(f.strings) + 3
<1> DEFINE c == f.compiler
           first == <<Chars(c, <<0>>)>>
           names == [k \in DOMAIN ValueNames |-> Chars(c, Append(ValueNames[k], 0))]
           texts == [k \in DOMAIN f.strings |-> StringBytes(c, f.strings[k])]
<1>1. c \in Compilers /\ f.strings \in Seq(Seq(Part))
  BY DEF IsFile
<1>2. 0 \in 0 .. CharLimit(c) /\ 80 \in 0 .. CharLimit(c) /\ 67 \in 0 .. CharLimit(c)
  BY DEF CharLimit
<1>3. first \in Seq(Seq(Byte)) /\ Len(first) = 1
  <2>1. Chars(c, <<0>>) \in Seq(Byte)
    BY <1>2, OneOrNone, CharsType
  <2> QED
    BY <2>1
<1>4. names \in Seq(Seq(Byte)) /\ Len(names) = 2
  <2>1. DOMAIN ValueNames = 1 .. 2
    BY DEF ValueNames
  <2>2. ASSUME NEW k \in 1 .. 2 PROVE Chars(c, Append(ValueNames[k], 0)) \in Seq(Byte)
    <3> DEFINE V == 0 .. CharLimit(c)
    <3> HIDE DEF c, V
    <3>1. <<80>> \in Seq(V) /\ <<67>> \in Seq(V)
      BY <1>2, OneOrNone DEF V
    <3>2. ValueNames[1] = <<80>> /\ ValueNames[2] = <<67>>
      BY DEF ValueNames, ProgramFilesDir, CommonFilesDir
    <3>3. ValueNames[k] \in Seq(V)
      <4>1. k = 1 \/ k = 2
        OBVIOUS
      <4> QED
        BY <3>1, <3>2, <4>1, Zenon
    <3>4. Append(ValueNames[k], 0) \in Seq(V)
      <4>1. 0 \in V
        BY <1>2 DEF V
      <4> QED
        BY <3>3, <4>1
    <3> QED
      BY <3>4, CharsType DEF V
  <2> QED
    BY <2>1, <2>2
<1>5. texts \in Seq(Seq(Byte)) /\ Len(texts) = Len(f.strings) /\ Len(f.strings) \in Nat
  <2>1. DOMAIN f.strings = 1 .. Len(f.strings) /\ Len(f.strings) \in Nat
    BY <1>1
  <2>2. ASSUME NEW k \in DOMAIN f.strings PROVE StringBytes(c, f.strings[k]) \in Seq(Byte)
    <3>1. f.strings[k] \in Seq(Part)
      BY <1>1, Element
    <3>2. \A i \in DOMAIN f.strings[k] : IsPart(c, f.strings[k][i])
      BY DEF IsFile
    <3> QED
      BY <1>1, <3>1, <3>2, StringBytesType
  <2> QED
    BY <2>1, <2>2
<1>6. TableParts(f) = first \o names \o texts
  BY DEF TableParts
<1> HIDE DEF first, names, texts
<1> DEFINE W == Seq(Byte)
<1> HIDE DEF W
<1>7. first \o names \in Seq(W) /\ Len(first \o names) = 3
  <2>1. first \in Seq(W) /\ names \in Seq(W)
    BY <1>3, <1>4 DEF W
  <2>2. first \o names \in Seq(W) /\ Len(first \o names) = Len(first) + Len(names)
    BY <2>1, EndToEnd, Zenon
  <2> QED
    BY <1>3, <1>4, <2>2
<1>8. first \o names \o texts \in Seq(W)
      /\ Len(first \o names \o texts) = 3 + Len(f.strings)
  BY <1>5, <1>7 DEF W
<1> QED
  BY <1>5, <1>6, <1>8 DEF W

LEMMA HeaderType ==
  ASSUME NEW f, IsFile(f)
  PROVE  HeaderBlock(f) \in Seq(Byte)
<1>1. StringBlock(f) \in Seq(Byte)
  BY TableType, FlattenType DEF StringBlock
<1> QED
  BY <1>1 DEF HeaderBlock, IsFile

LEMMA ReferencesType ==
  ASSUME NEW f, IsFile(f), NEW ref \in References(f)
  PROVE  ref \in Int
<1>1. ASSUME NEW k \in 1 .. Len(f.strings) + 1 PROVE OffsetOf(f, k) \in Int
  <2> DEFINE before == SubSeq(TableParts(f), 1, k + 2)
  <2>1. before \in Seq(Seq(Byte))
    <3>1. k + 2 \in 1 .. Len(TableParts(f))
      BY TableType
    <3>2. TableParts(f) \in Seq(Seq(Byte))
      BY TableType
    <3> QED
      BY <3>1, <3>2
  <2>2. FlattenSeq(before) \in Seq(Byte)
    <3> HIDE DEF before
    <3> QED
      BY <2>1, FlattenType
  <2>3. Len(FlattenSeq(before)) \in Nat
    BY <2>2
  <2> QED
    BY <2>3 DEF OffsetOf
<1> QED
  BY <1>1 DEF References

-----------------------------------------------------------------------------

(* Segments whose text is characters.                                       *)
Renders(s) == \E V : s \in Seq(V) /\ \A v \in V : Rendered(v) \in Seq(Int)

ReaderTypes ==
  /\ file \in Files
  /\ header \in Seq(Byte)
  /\ stage \in {"detect", "idle", "read", "done", "failed"}
  /\ offset \in Int
  /\ pos \in Nat
  /\ literal \in Seq(Int)
  /\ Renders(segments)

LEMMA NothingRenders == Renders(<<>>)
<1> DEFINE V == {}
<1>1. <<>> \in Seq(V) /\ \A v \in V : Rendered(v) \in Seq(Int)
  OBVIOUS
<1> HIDE DEF V
<1> QED
  BY <1>1, Zenon DEF Renders

LEMMA OneMoreRenders ==
  ASSUME NEW s, Renders(s), NEW seg, Rendered(seg) \in Seq(Int)
  PROVE  Renders(Append(s, seg))
<1>1. PICK V : s \in Seq(V) /\ \A v \in V : Rendered(v) \in Seq(Int)
  BY DEF Renders
<1> DEFINE W == V \cup {seg}
<1>2. Append(s, seg) \in Seq(W)
  BY <1>1
<1>3. \A v \in W : Rendered(v) \in Seq(Int)
  BY <1>1
<1> HIDE DEF W
<1> QED
  BY <1>2, <1>3 DEF Renders

LEMMA PathIsText ==
  ASSUME NEW s, Renders(s)
  PROVE  IsSafe(to_path(s), write_path(s))
<1>1. PICK V : s \in Seq(V) /\ \A v \in V : Rendered(v) \in Seq(Int)
  BY DEF Renders
<1> DEFINE W == Seq(Int)
           texts == [k \in DOMAIN s |-> Rendered(s[k])]
<1>2. DOMAIN s = 1 .. Len(s) /\ Len(s) \in Nat /\ \A k \in DOMAIN s : s[k] \in V
  BY <1>1
<1>3. texts \in Seq(W)
  <2>1. \A k \in DOMAIN s : Rendered(s[k]) \in W
    BY <1>1, <1>2
  <2> HIDE DEF W
  <2> QED
    BY <1>2, <2>1
<1>4. FlattenSeq(texts) \in Seq(Int)
  <2> HIDE DEF texts
  <2> QED
    BY <1>3, FlattenType
<1> HIDE DEF texts
<1>5. IsSafe(sanitize_extraction_path(FlattenSeq(texts)), FlattenSeq(texts))
  BY <1>4, SanitizedPathsStayBelow
<1> QED
  BY <1>5 DEF to_path, write_path, texts

-----------------------------------------------------------------------------

LEMMA LiteralRenders ==
  ASSUME NEW chars \in Seq(Int)
  PROVE  Rendered(Literal(chars)) \in Seq(Int)
  BY DEF Rendered, Literal

LEMMA SymbolType ==
  ASSUME NEW k \in Int, NEW n \in Int
  PROVE  Symbol(k, n) \in Int
  BY DEF Symbol

LEMMA VariableRenders ==
  ASSUME NEW n \in Int
  PROVE  Rendered(VariableRef(n)) \in Seq(Int)
<1> DEFINE v == VariableRef(n)
<1>1. v.tag = "Variable" /\ v.index = n
  BY DEF VariableRef
<1>2. Rendered(v) = write_variable(v)
  <2> HIDE DEF v
  <2> QED
    BY <1>1 DEF Rendered
<1>3. write_variable(v) \in {<<>>, <<Symbol(1, n)>>}
  <2> HIDE DEF v
  <2> QED
    BY <1>1 DEF write_variable
<1>4. Symbol(1, n) \in Int
  BY SymbolType
<1>5. write_variable(v) \in Seq(Int)
  <2> HIDE DEF v
  <2> QED
    BY <1>3, <1>4, OneOrNone
<1> QED
  BY <1>2, <1>5

LEMMA LangRenders ==
  ASSUME NEW n \in Int
  PROVE  Rendered(LangRef(n)) \in Seq(Int)
<1>1. Rendered(LangRef(n)) = <<Symbol(4, n)>>
  BY DEF Rendered, LangRef
<1> QED
  BY <1>1, SymbolType, OneOrNone

LEMMA CharType ==
  ASSUME ReaderTypes, NEW i \in Nat
  PROVE  /\ ByteAt(i) \in Int /\ U16At(i) \in Int /\ CharAt(i) \in Int
         /\ i < Len(header) => ByteAt(i) \in Byte
         /\ i >= Len(header) => CharAt(i) = None
<1>1. header \in Seq(Byte) /\ Len(header) \in Nat
  BY DEF ReaderTypes
<1>2. i < Len(header) => header[i + 1] \in Byte
  BY <1>1, Element
<1>3. i + 1 < Len(header) => header[i + 1] \in Byte /\ header[i + 2] \in Byte
  BY <1>1, Element
<1>4. \A b \in Byte : b \in Int
  BY DEF Byte
<1>5. None \in Int
  BY DEF None
<1>6. ByteAt(i) \in Int /\ (i < Len(header) => ByteAt(i) \in Byte)
  BY <1>1, <1>2, <1>4, <1>5 DEF ByteAt
<1>7. U16At(i) \in Int
  <2>1. CASE i + 1 < Len(header)
    <3>1. header[i + 1] \in Int /\ header[i + 2] \in Int
      BY <1>3, <1>4, <2>1
    <3> DEFINE b == header[i + 1]
               d == header[i + 2]
    <3>2. U16At(i) = b + 256 * d
      BY <2>1 DEF U16At
    <3>3. b + 256 * d \in Int
      <4> HIDE DEF b, d
      <4>1. b \in Int /\ d \in Int
        BY <3>1 DEF b, d
      <4> QED
        BY <4>1
    <3> QED
      BY <3>2, <3>3
  <2>2. CASE ~(i + 1 < Len(header))
    BY <1>5, <2>2 DEF U16At
  <2> QED
    BY <2>1, <2>2
<1>8. i >= Len(header) => ByteAt(i) = None /\ U16At(i) = None
  BY <1>1 DEF ByteAt, U16At
<1> QED
  BY <1>6, <1>7, <1>8 DEF CharAt

LEMMA SizesAre ==
  ASSUME ReaderTypes
  PROVE  char_size \in {1, 2} /\ base \in Nat
<1>1. file.before \in Seq(Byte)
  BY FilesAssumption DEF ReaderTypes, IsFile
<1> QED
  BY <1>1 DEF char_size, base

LEMMA ReadLiteralType ==
  ASSUME ReaderTypes, NEW at \in Nat
  PROVE  read_literal(at) \in Seq(Int)
<1> DEFINE Char(k) == CharAt(base + (at + k) * char_size)
           N == Len(header)
           S == {k \in 0 .. N : EndsLiteral(Char(k))}
<1>1. N \in Nat /\ base \in Nat /\ char_size \in {1, 2}
  BY SizesAre DEF ReaderTypes
<1>2. ASSUME NEW k \in Nat
      PROVE  base + (at + k) * char_size \in Nat /\ base + (at + k) * char_size >= k
  BY <1>1
<1>3. ASSUME NEW k \in Nat PROVE Char(k) \in Int
  BY <1>2, CharType
<1>4. N \in S
  <2>1. Char(N) = None
    BY <1>1, <1>2, CharType
  <2>2. EndsLiteral(None)
    BY DEF EndsLiteral
  <2> HIDE DEF Char, N
  <2> QED
    BY <1>1, <2>1, <2>2
<1>5. Min(S) \in 0 .. N
  <2>1. S \in SUBSET Nat /\ S # {}
    BY <1>1, <1>4
  <2>2. \A k \in S : k \in 0 .. N
    OBVIOUS
  <2> HIDE DEF S
  <2> QED
    BY <2>1, <2>2, LeastIsMin
<1>6. read_literal(at) = [k \in 1 .. Min(S) |-> Char(k - 1)]
  BY DEF read_literal
<1> DEFINE n == Min(S)
<1> HIDE DEF n, Char, N, S
<1>7. n \in Nat
  BY <1>1, <1>5 DEF n
<1>8. \A k \in 1 .. n : Char(k - 1) \in Int
  BY <1>3, <1>7
<1>9. [k \in 1 .. n |-> Char(k - 1)] \in Seq(Int)
  BY <1>7, <1>8
<1> QED
  BY <1>6, <1>9 DEF n

IsTarget(t) == t.id \in Int /\ t.wow64 \in Int /\ t.name \in Seq(Int)

LEMMA TargetIs ==
  ASSUME NEW tag, NEW id \in Int, NEW name \in Seq(Int), NEW w \in Int
  PROVE  IsTarget(Target(tag, id, name, w))
  BY DEF Target, IsTarget

LEMMA TargetRenders ==
  ASSUME NEW t, IsTarget(t)
  PROVE  write_shell_folder(t) \in Seq(Int)
<1>1. t.id \in Int /\ t.wow64 \in Int /\ t.name \in Seq(Int)
  BY DEF IsTarget
<1>2. Symbol(2, t.wow64) \in Int /\ Symbol(3, t.id) \in Int
  BY <1>1 DEF Symbol
<1>3. <<Symbol(2, t.wow64)>> \o t.name \in Seq(Int)
  BY <1>1, <1>2, OneOrNone, EndToEnd
<1>4. <<Symbol(3, t.id)>> \in Seq(Int)
  BY <1>2, OneOrNone
<1> QED
  BY <1>3, <1>4 DEF write_shell_folder

LEMMA FolderRenders ==
  ASSUME ReaderTypes, NEW p \in Byte, NEW q \in Byte
  PROVE  Rendered(ShellFolder(p, q)) \in Seq(Int)
<1> DEFINE t == shell_target(p, q)
           wow64 == (p \div 64) % 2
           name == read_literal(p % 64)
<1>1. p \in Int /\ q \in Int /\ p % 64 \in Nat /\ wow64 \in Int
  BY DEF Byte
<1>2. name \in Seq(Int)
  BY <1>1, ReadLiteralType
<1>3. t \in {Target("ProgramFiles", 0, <<>>, wow64), Target("CommonFiles", 0, <<>>, wow64),
             Target("RegistryValue", 0, name, wow64), Target("Csidl", p, <<>>, 0),
             Target("Csidl", q, <<>>, 0), Target("Unresolved", 0, <<>>, 0)}
  BY DEF shell_target
<1>4. IsTarget(t)
  <2> HIDE DEF t, wow64, name
  <2>1. 0 \in Int /\ <<>> \in Seq(Int)
    OBVIOUS
  <2> QED
    BY <1>1, <1>2, <1>3, <2>1, TargetIs, Zenon
<1>5. write_shell_folder(t) \in Seq(Int)
  BY <1>4, TargetRenders
<1>6. Rendered(ShellFolder(p, q)) = write_shell_folder(t)
  <2> HIDE DEF t
  <2>1. ShellFolder(p, q).tag = "ShellFolder" /\ ShellFolder(p, q).target = t
    BY DEF ShellFolder, t
  <2> QED
    BY <2>1 DEF Rendered
<1> QED
  BY <1>5, <1>6

LEMMA FlushedRenders == ReaderTypes => Renders(Flushed)
<1> SUFFICES ASSUME ReaderTypes PROVE Renders(Flushed)
  OBVIOUS
<1>1. Renders(segments) /\ Rendered(Literal(literal)) \in Seq(Int)
  BY LiteralRenders DEF ReaderTypes
<1> QED
  BY <1>1, OneMoreRenders DEF Flushed

LEMMA NumberOfType ==
  ASSUME NEW b0 \in Byte, NEW b1 \in Byte
  PROVE  NumberOf(b0, b1) \in Int
<1>1. b0 \in Int /\ b1 \in Int
  BY DEF Byte
<1>2. 256 * (b1 % 128) + b0 \in Int /\ 128 * (b1 % 128) + (b0 % 128) \in Int
  BY <1>1
<1> QED
  BY <1>2 DEF NumberOf, decode_short

-----------------------------------------------------------------------------

LEMMA InitReads == ReadInit => ReaderTypes
<1> SUFFICES ASSUME ReadInit PROVE ReaderTypes
  OBVIOUS
<1>1. header \in Seq(Byte)
  BY FilesAssumption, HeaderType DEF ReadInit
<1>2. Renders(segments)
  BY NothingRenders DEF ReadInit
<1> QED
  BY <1>1, <1>2 DEF ReadInit, ReaderTypes

LEMMA DetectReads == ReaderTypes /\ Detect => ReaderTypes'
  BY DEF ReaderTypes, Detect, Renders, Rendered, write_variable, write_shell_folder

(* What a segment renders to does not depend on the state.                   *)
LEMMA ReadReads ==
  ASSUME ReaderTypes, NEW ref \in References(file), Read(ref)
  PROVE  ReaderTypes'
<1>1. ref \in Int
  BY FilesAssumption, ReferencesType DEF ReaderTypes
<1>2. /\ file' = file /\ header' = header /\ literal' = literal /\ offset' = ref
      /\ stage' \in {"done", "failed", "read"}
  BY DEF Read, Answer, Fail
<1>3. pos' \in Nat
  <2>1. pos' = pos \/ (ref >= 0 /\ pos' = base + ref * char_size)
    BY DEF Read, Answer, Fail
  <2>2. ref >= 0 => base + ref * char_size \in Nat
    BY <1>1, SizesAre
  <2>3. pos \in Nat
    BY DEF ReaderTypes
  <2> QED
    BY <2>1, <2>2, <2>3
<1>4. Renders(segments')
  <2>1. segments' \in {segments, <<>>, <<LangRef(-ref - 1)>>}
    BY DEF Read, Answer, Fail
  <2>2. Renders(segments) /\ Renders(<<>>)
    BY NothingRenders DEF ReaderTypes
  <2>3. Renders(<<LangRef(-ref - 1)>>)
    <3>1. Rendered(LangRef(-ref - 1)) \in Seq(Int)
      BY <1>1, LangRenders
    <3>2. Append(<<>>, LangRef(-ref - 1)) = <<LangRef(-ref - 1)>>
      OBVIOUS
    <3> QED
      BY <2>2, <3>1, <3>2, OneMoreRenders, Zenon
  <2> QED
    BY <2>1, <2>2, <2>3
<1>5. Renders(segments)' = Renders(segments')
  BY DEF Renders, Rendered, write_variable, write_shell_folder
<1> QED
  BY <1>1, <1>2, <1>3, <1>4, <1>5 DEF ReaderTypes

LEMMA StepReads ==
  ASSUME ReaderTypes, stage' \in {"read", "done"}, UNCHANGED reading,
         pos' \in Nat, literal' \in Seq(Int), Renders(segments')
  PROVE  ReaderTypes'
<1>1. Renders(segments)' = Renders(segments')
  BY DEF Renders, Rendered, write_variable, write_shell_folder
<1> QED
  BY <1>1 DEF ReaderTypes, reading

LEMMA TextReads == ReaderTypes /\ ReadText => ReaderTypes'
<1> SUFFICES ASSUME ReaderTypes, ReadText PROVE ReaderTypes'
  OBVIOUS
<1>1. char \in Int
  BY CharType DEF char, ReaderTypes
<1>2. literal' \in Seq(Int) /\ pos' \in Nat
  BY <1>1, SizesAre DEF ReadText, ReaderTypes
<1>3. stage' = "read" /\ UNCHANGED reading /\ segments' = segments /\ Renders(segments)
  BY DEF ReadText, ReaderTypes
<1> QED
  BY <1>2, <1>3, StepReads

LEMMA EscapedReads == ReaderTypes /\ ReadEscaped => ReaderTypes'
<1> SUFFICES ASSUME ReaderTypes, ReadEscaped PROVE ReaderTypes'
  OBVIOUS
<1> DEFINE next == CharAt(pos + char_size)
<1>1. next \in Int
  <2>1. pos + char_size \in Nat
    BY SizesAre DEF ReaderTypes
  <2> QED
    BY <2>1, CharType
<1>2. literal' = Append(literal, next) /\ pos' = pos + 2 * char_size
  BY DEF ReadEscaped
<1>3. literal' \in Seq(Int) /\ pos' \in Nat
  <2> HIDE DEF next
  <2> QED
    BY <1>1, <1>2, SizesAre DEF ReaderTypes
<1>4. stage' = "read" /\ UNCHANGED reading /\ segments' = segments /\ Renders(segments)
  BY DEF ReadEscaped, ReaderTypes
<1> QED
  BY <1>3, <1>4, StepReads

LEMMA VariableByteReads == ReaderTypes /\ ReadVariableByte => ReaderTypes'
<1> SUFFICES ASSUME ReaderTypes, ReadVariableByte PROVE ReaderTypes'
  OBVIOUS
<1> DEFINE n == char - VarCodesStart
<1>1. n \in Int
  <2>1. char \in Int
    BY CharType DEF char, ReaderTypes
  <2> QED
    BY <2>1 DEF VarCodesStart
<1>2. Renders(Flushed) /\ Rendered(VariableRef(n)) \in Seq(Int)
  BY <1>1, FlushedRenders, VariableRenders
<1>3. segments' = Append(Flushed, VariableRef(n)) /\ literal' = <<>> /\ pos' = pos + 1
      /\ stage' = "read" /\ UNCHANGED reading
  BY DEF ReadVariableByte
<1> HIDE DEF n
<1>4. Renders(segments')
  BY <1>2, <1>3, OneMoreRenders
<1>5. literal' \in Seq(Int) /\ pos' \in Nat
  BY <1>3 DEF ReaderTypes
<1> QED
  BY <1>3, <1>4, <1>5, StepReads

LEMMA ReferenceReads == ReaderTypes /\ ReadReference => ReaderTypes'
<1> SUFFICES ASSUME ReaderTypes, ReadReference PROVE ReaderTypes'
  OBVIOUS
<1> DEFINE b0 == ByteAt(pos + char_size)
           b1 == ByteAt(pos + char_size + 1)
<1>1. b0 \in Byte /\ b1 \in Byte
  <2>1. pos + char_size \in Nat /\ pos + char_size + 1 \in Nat
    BY SizesAre DEF ReaderTypes
  <2>2. Len(header) \in Nat
    BY DEF ReaderTypes
  <2>3. pos + char_size + 1 < Len(header)
    BY DEF ReadReference, HasArgument
  <2>4. pos + char_size < Len(header)
    BY <2>1, <2>2, <2>3
  <2> QED
    BY <2>1, <2>3, <2>4, CharType
<1>2. \/ segments' = Append(Flushed, VariableRef(NumberOf(b0, b1)))
      \/ segments' = Append(Flushed, LangRef(NumberOf(b0, b1)))
      \/ segments' = Append(Flushed, ShellFolder(b0, b1))
  BY DEF ReadReference
<1>3. literal' = <<>> /\ pos' = pos + char_size + 2 /\ stage' = "read" /\ UNCHANGED reading
  BY DEF ReadReference
<1> HIDE DEF b0, b1
<1>4. /\ Rendered(VariableRef(NumberOf(b0, b1))) \in Seq(Int)
      /\ Rendered(LangRef(NumberOf(b0, b1))) \in Seq(Int)
      /\ Rendered(ShellFolder(b0, b1)) \in Seq(Int)
  BY <1>1, NumberOfType, VariableRenders, LangRenders, FolderRenders
<1>5. Renders(segments')
  BY <1>2, <1>4, FlushedRenders, OneMoreRenders
<1>6. literal' \in Seq(Int) /\ pos' \in Nat
  BY <1>3, SizesAre DEF ReaderTypes
<1> QED
  BY <1>3, <1>5, <1>6, StepReads

LEMMA EndReads == ReaderTypes /\ EndString => ReaderTypes'
<1> SUFFICES ASSUME ReaderTypes, EndString PROVE ReaderTypes'
  OBVIOUS
<1>1. segments' = Flushed /\ literal' = <<>> /\ pos' = pos /\ stage' = "done"
      /\ UNCHANGED reading
  BY DEF EndString
<1>2. Renders(segments') /\ literal' \in Seq(Int) /\ pos' \in Nat
  BY <1>1, FlushedRenders DEF ReaderTypes
<1> QED
  BY <1>1, <1>2, StepReads

LEMMA NextReads == ReaderTypes /\ [ReadNext]_readVars => ReaderTypes'
<1> SUFFICES ASSUME ReaderTypes, [ReadNext]_readVars PROVE ReaderTypes'
  OBVIOUS
<1>1. CASE Done \/ UNCHANGED readVars
  <2>1. UNCHANGED readVars
    BY <1>1 DEF Done
  <2> QED
    BY <2>1 DEF readVars, ReaderTypes, Renders, Rendered, write_variable, write_shell_folder
<1>2. CASE \E ref \in References(file) : Read(ref)
  BY <1>2, ReadReads
<1> QED
  BY <1>1, <1>2, DetectReads, TextReads, EscapedReads, VariableByteReads, ReferenceReads,
     EndReads DEF ReadNext

(* NsisString::to_path: whatever table is read, in whichever encoding it is *)
(* taken to be, and whatever reference into it, evident or damaged, the     *)
(* path of the string that is read has no component that leads out of the   *)
(* directory, and stays below it where the drives of its text can be told.  *)
THEOREM ReadPathsStayBelow == ReadSpec => []PathsStayBelow
<1>1. ReadInit => ReaderTypes
  BY InitReads
<1>2. ReaderTypes /\ [ReadNext]_readVars => ReaderTypes'
  BY NextReads
<1>3. ReaderTypes => PathsStayBelow
  BY PathIsText DEF ReaderTypes, PathsStayBelow
<1> QED
  BY <1>1, <1>2, <1>3, PTL DEF ReadSpec
================================================================================
