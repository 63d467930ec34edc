------------------------------ MODULE StringWriter ------------------------------
(***************************************************************************)
(* How each compiler writes a string table: the five encodings, from       *)
(* fileform.h and state.h of NSIS 1.98, 2 and 3 and of the Park fork, as   *)
(* src/strings quotes them.                                                *)
(*                                                                         *)
(* A string is a sequence of parts; a text part is one character.          *)
(***************************************************************************)
EXTENDS Integers, Sequences, SequencesExt, TLC

Compilers == {"V1", "V2", "V3Ansi", "V3Unicode", "Park"}

Text(c)         == [tag |-> "Text", a |-> c, b |-> 0]
Variable(n)     == [tag |-> "Variable", a |-> n, b |-> 0]
Shell(p, f)     == [tag |-> "Shell", a |-> p, b |-> f]
LangString(n)   == [tag |-> "LangString", a |-> n, b |-> 0]

(* $PROGRAMFILES and $COMMONFILES are looked up in the registry: the first *)
(* argument byte says which name, where in the table, and which view.      *)
Registry(name, wow64) == [tag |-> "Registry", a |-> name, b |-> wow64]

(* The two value names stand first in a table; one character each here.    *)
ProgramFilesDir == <<80>>
CommonFilesDir  == <<67>>
ValueNames      == <<ProgramFilesDir, CommonFilesDir>>

-----------------------------------------------------------------------------
(* Variables, in the order each compiler numbers them.                     *)

Digits    == <<"$0", "$1", "$2", "$3", "$4", "$5", "$6", "$7", "$8", "$9">>
Registers == Digits \o
  <<"$R0", "$R1", "$R2", "$R3", "$R4", "$R5", "$R6", "$R7", "$R8", "$R9">>
System    ==
  <<"$CMDLINE", "$INSTDIR", "$OUTDIR", "$EXEDIR", "$LANGUAGE", "$TEMP", "$PLUGINSDIR">>

(* By the number of built-in variables: 2.04 added $_OUTDIR to the list of *)
(* 2.03, and 2.26 two variables in its middle.                             *)
BuiltIn(count) ==
  Registers \o System
    \o (IF count = 32 THEN <<"$EXEPATH", "$EXEFILE">> ELSE <<>>)
    \o <<"$HWNDPARENT", "$_CLICK">>
    \o (IF count >= 30 THEN <<"$_OUTDIR">> ELSE <<>>)

BuiltInV1 ==
  <<"$HWNDPARENT">> \o Registers
    \o <<"$CMDLINE", "$INSTDIR", "$OUTDIR", "$EXEDIR", "$PROGRAMFILES", "$SMPROGRAMS",
         "$SMSTARTUP", "$DESKTOP", "$STARTMENU", "$QUICKLAUNCH", "$TEMP", "$WINDIR",
         "$SYSDIR">>

NameOf(f, n) ==
  LET names == IF f.compiler = "V1" THEN BuiltInV1 ELSE BuiltIn(f.built_in)
  IN IF n < Len(names) THEN names[n + 1] ELSE "$_" \o ToString(n - Len(names)) \o "_"

-----------------------------------------------------------------------------
(* The codes of each dialect; makensis 1.98 has one code per variable.     *)
Code ==
  [V2        |-> [skip |-> 252, Variable |-> 253, Shell |-> 254, LangString |-> 255],
   V3Ansi    |-> [skip |-> 4, Variable |-> 3, Shell |-> 2, LangString |-> 1],
   V3Unicode |-> [skip |-> 4, Variable |-> 3, Shell |-> 2, LangString |-> 1],
   Park      |-> [skip |-> 57344, Variable |-> 57345, Shell |-> 57346, LangString |-> 57347]]

IsWide(c) == c \in {"V3Unicode", "Park"}

Escape(c, char) ==
  IF c = "V1" THEN (IF char >= 221 THEN <<255>> ELSE <<>>)
  ELSE IF \E k \in DOMAIN Code[c] : Code[c][k] = char THEN <<Code[c].skip>> ELSE <<>>

(* CODE_SHORT: seven bits in each byte, under a bit that is always set.    *)
CodeShort(n) == <<128 + (n % 128), 128 + n \div 128>>

Number(c, n) ==
  IF c = "Park" THEN <<n % 256, 128 + n \div 256>> ELSE CodeShort(n)

(* Where a value name stands, in characters.                               *)
NameOffset(k) == 1 + 2 * (k - 1)

Argument(c, part) ==
  CASE part.tag = "Shell"    -> <<part.a, part.b>>
    [] part.tag = "Registry" -> <<128 + 64 * part.b + NameOffset(part.a), 38>>
    [] OTHER                 -> Number(c, part.a)

(* Characters as bytes.                                                    *)
Chars(c, seq) ==
  IF IsWide(c) THEN FlattenSeq([k \in DOMAIN seq |-> <<seq[k] % 256, seq[k] \div 256>>])
  ELSE seq

PartBytes(c, part) ==
  IF part.tag = "Text" THEN Chars(c, Append(Escape(c, part.a), part.a))
  ELSE IF c = "V1" THEN <<221 + part.a>>
  ELSE LET tag == IF part.tag = "Registry" THEN "Shell" ELSE part.tag
       IN Chars(c, <<Code[c][tag]>>) \o Argument(c, part)

StringBytes(c, s) ==
  FlattenSeq([k \in DOMAIN s |-> PartBytes(c, s[k])]) \o Chars(c, <<0>>)

-----------------------------------------------------------------------------
(* What each compiler can write: numbers that fit their bytes.             *)
Byte == 0 .. 255

Part == [tag : {"Text", "Variable", "Shell", "LangString", "Registry"}, a : Nat, b : Nat]

IsPart(c, part) ==
  IF part.tag = "Text" THEN part.a <= (IF IsWide(c) THEN 65535 ELSE 255)
  ELSE IF c = "V1" THEN part.tag = "Variable" /\ part.a < Len(BuiltInV1)
  ELSE
  CASE part.tag = "Shell"    -> part.a \in Byte /\ part.b \in Byte
    [] part.tag = "Registry" -> part.a \in 1 .. 2 /\ part.b \in 0 .. 1
    [] OTHER                 -> part.a < 128 * (IF c = "Park" THEN 256 ELSE 128)

IsFile(f) ==
  /\ f.compiler \in Compilers
  /\ f.strings \in Seq(Seq(Part))
  /\ \A k \in DOMAIN f.strings : \A i \in DOMAIN f.strings[k] :
       IsPart(f.compiler, f.strings[k][i])
  /\ f.before \in Seq(Byte) /\ f.behind \in Seq(Byte)

-----------------------------------------------------------------------------
(* The table: the empty string, the value names, the strings.              *)
TableParts(f) ==
  <<Chars(f.compiler, <<0>>)>>
    \o [k \in DOMAIN ValueNames |-> Chars(f.compiler, Append(ValueNames[k], 0))]
    \o [k \in DOMAIN f.strings |-> StringBytes(f.compiler, f.strings[k])]

StringBlock(f) == FlattenSeq(TableParts(f))

(* The offset of string k, in characters.                                  *)
OffsetOf(f, k) ==
  Len(FlattenSeq(SubSeq(TableParts(f), 1, k + 2))) \div (IF IsWide(f.compiler) THEN 2 ELSE 1)

(* The header block: other tables lie before the strings and behind them.  *)
HeaderBlock(f) == f.before \o StringBlock(f) \o f.behind

(* What an instruction may refer to: a string, or a language string by a   *)
(* negative number; a damaged one may point behind the table.              *)
References(f) ==
  {OffsetOf(f, k) : k \in 1 .. Len(f.strings) + 1}
    \cup {-1, -6, -65536, -65537, 65536}
================================================================================
