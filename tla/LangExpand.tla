------------------------------ MODULE LangExpand ------------------------------
(***************************************************************************)
(* strings/mod.rs, read_lang and resolve_lang: the text of a string in one *)
(* language.  A language string may refer to others, to itself, to strings *)
(* the table does not have and to text outside the string table; the       *)
(* recursion of expand_lang is limited in depth and in expansions.         *)
(*                                                                         *)
(* The call stack of expand_lang is the variable stack: a frame holds the  *)
(* segments its loop has still to visit and the reference it expands.  The *)
(* code's path is the references of the frames.                            *)
(***************************************************************************)
EXTENDS Integers, Sequences

CONSTANTS
  Index,             (* Numbers of language strings.                       *)
  Texts,             (* The segments other than references.                *)
  Tables,            (* The language tables.                               *)
  Calls,             (* The calls made.                                    *)
  MaxLangDepth,      (* MAX_LANG_DEPTH, 16 in the code.                    *)
  MaxLangExpansions  (* MAX_LANG_EXPANSIONS, 1024 in the code.             *)

Segment ==
  [tag : {"Text"}, value : Texts] \cup [tag : {"LangString"}, value : Index]
String  == Seq(Segment)

(* What self.read(offset) makes of the offset a table holds: a string, or  *)
(* the error of an offset beyond the string table.  A negative offset is   *)
(* the string that is one reference.                                       *)
Reading == [ok : {TRUE}, string : String] \cup [ok : {FALSE}]

(* A table has some of the strings.                                        *)
IsTable(t) == DOMAIN t \subseteq Index /\ \A i \in DOMAIN t : t[i] \in Reading

Call == [name : {"read_lang"}, index : Index]
          \cup [name : {"resolve_lang"}, string : String]

(* The largest number of a language string.                                *)
MaxIndex == 65535

ASSUME LimitsAssumption == MaxLangDepth \in Nat \ {0} /\ MaxLangExpansions \in Nat
ASSUME TablesAssumption == \A t \in Tables : IsTable(t)
ASSUME CallsAssumption  == Calls \subseteq Call
ASSUME IndexAssumption  == Index \subseteq 0 .. MaxIndex

VARIABLES
  table,    (* The language table; never changes.                          *)
  call,     (* The call; never changes.                                    *)
  pc,       (* "call", "expand", "done" or "failed".                       *)
  stack,    (* The frames of expand_lang, innermost last.                  *)
  budget,   (* Expansions left.                                            *)
  out       (* The segments produced.                                      *)

vars == <<table, call, pc, stack, budget, out>>

(* The outermost frame of resolve_lang expands no reference.               *)
NoIndex == -1

Frame(i, s) == [index |-> i, rest |-> s]

Top == stack[Len(stack)]

(* path.len() and path.contains(i): only the outermost frame may have no   *)
(* index.                                                                  *)
PathLength  == IF stack[1].index = NoIndex THEN Len(stack) - 1 ELSE Len(stack)
OnPath(i)   == \E k \in DOMAIN stack : stack[k].index = i

Init ==
  /\ table \in Tables /\ call \in Calls
  /\ pc = "call" /\ stack = <<>>
  /\ budget = MaxLangExpansions /\ out = <<>>

(* Mutant: the string itself is not on the path.                           *)
ReadLangOffPath ==
  /\ pc = "call" /\ call.name = "read_lang"
  /\ call.index \in DOMAIN table /\ table[call.index].ok
  /\ stack' = <<Frame(NoIndex, table[call.index].string)>>
  /\ pc' = "expand"
  /\ UNCHANGED <<table, call, budget, out>>

(* read_lang: the string itself counts as the first reference.             *)
ReadLang ==
  /\ pc = "call" /\ call.name = "read_lang"
  /\ call.index \in DOMAIN table /\ table[call.index].ok
  /\ stack' = <<Frame(call.index, table[call.index].string)>>
  /\ pc' = "expand"
  /\ UNCHANGED <<table, call, budget, out>>

ReadLangFails ==
  /\ pc = "call" /\ call.name = "read_lang"
  /\ call.index \in DOMAIN table => ~table[call.index].ok
  /\ pc' = "failed"
  /\ UNCHANGED <<table, call, stack, budget, out>>

ResolveLang ==
  /\ pc = "call" /\ call.name = "resolve_lang"
  /\ stack' = <<Frame(NoIndex, call.string)>>
  /\ pc' = "expand"
  /\ UNCHANGED <<table, call, budget, out>>

-----------------------------------------------------------------------------

(* Mutants: a reference back is followed; the depth limit is off by one.   *)
MayExpandBack(segment) ==
  /\ segment.tag = "LangString"
  /\ budget > 0 /\ PathLength < MaxLangDepth
  /\ segment.value \in DOMAIN table

MayExpandDeeper(segment) ==
  /\ segment.tag = "LangString"
  /\ budget > 0 /\ PathLength <= MaxLangDepth /\ ~OnPath(segment.value)
  /\ segment.value \in DOMAIN table

(* A reference is expanded within the limits, if it is no reference back,  *)
(* and if the table has the string.                                        *)
MayExpand(segment) ==
  /\ segment.tag = "LangString"
  /\ budget > 0 /\ PathLength < MaxLangDepth /\ ~OnPath(segment.value)
  /\ segment.value \in DOMAIN table

AtSegment == pc = "expand" /\ Top.rest # <<>>
Visiting  == Head(Top.rest)
Advanced  == [stack EXCEPT ![Len(stack)].rest = Tail(@)]

(* Mutant: without expansions left, references are skipped.                *)
CopyWithinBudget ==
  /\ AtSegment /\ ~MayExpand(Visiting)
  /\ out' = IF budget = 0 /\ Visiting.tag = "LangString" THEN out
                                                       ELSE Append(out, Visiting)
  /\ stack' = Advanced
  /\ UNCHANGED <<table, call, pc, budget>>

CopySegment ==
  /\ AtSegment /\ ~MayExpand(Visiting)
  /\ out' = Append(out, Visiting)
  /\ stack' = Advanced
  /\ UNCHANGED <<table, call, pc, budget>>

(* Mutant: expansions are not counted.                                     *)
ExpandUncounted ==
  /\ AtSegment /\ MayExpand(Visiting) /\ table[Visiting.value].ok
  /\ stack' = Append(Advanced, Frame(Visiting.value, table[Visiting.value].string))
  /\ UNCHANGED <<table, call, pc, budget, out>>

Expand ==
  /\ AtSegment /\ MayExpand(Visiting) /\ table[Visiting.value].ok
  /\ budget' = budget - 1
  /\ stack' = Append(Advanced, Frame(Visiting.value, table[Visiting.value].string))
  /\ UNCHANGED <<table, call, pc, out>>

(* The error of a nested read leaves every frame.                          *)
ExpandFails ==
  /\ AtSegment /\ MayExpand(Visiting) /\ ~table[Visiting.value].ok
  /\ budget' = budget - 1
  /\ pc' = "failed"
  /\ UNCHANGED <<table, call, stack, out>>

Pop ==
  /\ pc = "expand" /\ Top.rest = <<>> /\ Len(stack) > 1
  /\ stack' = SubSeq(stack, 1, Len(stack) - 1)
  /\ UNCHANGED <<table, call, pc, budget, out>>

Return ==
  /\ pc = "expand" /\ Top.rest = <<>> /\ Len(stack) = 1
  /\ pc' = "done"
  /\ UNCHANGED <<table, call, stack, budget, out>>

Terminated == pc \in {"done", "failed"}
Finished   == Terminated /\ UNCHANGED vars

expand_lang == CopySegment \/ Expand \/ ExpandFails \/ Pop \/ Return

Next == ReadLang \/ ReadLangFails \/ ResolveLang \/ expand_lang \/ Finished

(* One call on one thread: it runs until it returns.                       *)
Spec == Init /\ [][Next]_vars /\ WF_vars(Next)

-----------------------------------------------------------------------------
(* Reference: what resolve_lang documents of a string inside the expansion *)
(* of the strings of path, if expansions are not counted.                  *)

Failure    == [ok |-> FALSE]
Success(s) == [ok |-> TRUE, string |-> s]

Both(a, b) == IF a.ok /\ b.ok THEN Success(a.string \o b.string) ELSE Failure

In(path, i) == \E k \in DOMAIN path : path[k] = i

LeftInPlace(segment, path) ==
  \/ segment.tag = "Text"
  \/ segment.value \notin DOMAIN table
  \/ In(path, segment.value)
  \/ Len(path) >= MaxLangDepth

(* The meaning of one segment, given the meaning of strings inside longer  *)
(* paths.                                                                  *)
MeaningOf(segment, path, meaning) ==
  IF LeftInPlace(segment, path) THEN Success(<<segment>>)
  ELSE IF ~table[segment.value].ok THEN Failure
  ELSE meaning[Append(path, segment.value)][table[segment.value].string]

Meaning[path \in Seq(Index)] ==
  [s \in String |->
     IF s = <<>> THEN Success(<<>>)
     ELSE Both(MeaningOf(Head(s), path, Meaning), Meaning[path][Tail(s)])]

Meant ==
  IF call.name = "resolve_lang" THEN Meaning[<<>>][call.string]
  ELSE IF call.index \in DOMAIN table /\ table[call.index].ok
    THEN Meaning[<<call.index>>][table[call.index].string]
    ELSE Failure

IsExpanded(s) ==
  \A i \in DOMAIN s : s[i].tag = "LangString" => s[i].value \notin DOMAIN table

TextLengths == {Len(table[i].string) : i \in {j \in DOMAIN table : table[j].ok}}
LongestText == CHOOSE n \in TextLengths \cup {0} : \A m \in TextLengths : n >= m
StartLength == IF call.name = "resolve_lang" THEN Len(call.string) ELSE LongestText

-----------------------------------------------------------------------------
(* Properties.                                                             *)

(* The types of the variables; the stack never has more frames than the    *)
(* limit on nesting allows, one of them for the string itself.             *)
TypeOK ==
  /\ IsTable(table) /\ call \in Call
  /\ pc \in {"call", "expand", "done", "failed"}
  /\ stack \in Seq([index : Index \cup {NoIndex}, rest : String])
  /\ Len(stack) <= MaxLangDepth + 1
  /\ pc = "expand" => stack # <<>>
  /\ budget \in 0 .. MaxLangExpansions
  /\ out \in String

(* No string is expanded inside its own expansion.                         *)
NoStringInsideItself ==
  \A j, k \in DOMAIN stack : stack[j].index = stack[k].index => j = k

(* As long as the expansions suffice the result is the documented one,     *)
(* errors included.                                                        *)
MeansWhatItSays ==
  Terminated /\ budget > 0 =>
    /\ pc = "failed" <=> ~Meant.ok
    /\ pc = "done" => out = Meant.string

(* Once they are spent nothing is lost: if the string can be expanded in   *)
(* full, expanding the result once more gives what the string means.       *)
ResultStillMeansTheString ==
  pc = "done" /\ Meant.ok /\ IsExpanded(Meant.string) => Meaning[<<>>][out] = Meant

(* The output is bounded by the expansions spent on it, however often the  *)
(* strings of a table refer to each other.                                 *)
OutputIsBounded ==
  Len(out) <= StartLength + (MaxLangExpansions - budget) * LongestText
===============================================================================
