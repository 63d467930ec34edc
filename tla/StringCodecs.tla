------------------------------ MODULE StringCodecs ------------------------------
(***************************************************************************)
(* src/strings: which of five encodings a string table is in, read off its *)
(* bytes; the decoder of each; and the path a decoded string stands for.   *)
(*                                                                         *)
(* The four readers are one loop: they differ in the size of a character,  *)
(* in the codes, in how many argument bytes follow a code and in what ends *)
(* a string early.  Rendered text is a sequence of characters in which the *)
(* name of a reference is one symbol.                                      *)
(*                                                                         *)
(* The machine is ReadSpec: what it yields is expanded by that of          *)
(* LangExpand, whose names are Spec, Init and Next.                        *)
(***************************************************************************)
EXTENDS StringWriter, ExtractionPath, FiniteSetsExt

CONSTANT Files   (* What the compilers wrote.                              *)

ASSUME FilesAssumption == \A f \in Files : IsFile(f)

VARIABLES
  file,      (* What was compiled; never changes.                          *)
  header,    (* The header block; never changes.                           *)
  stage,     (* "detect", "idle", "read", "done" or "failed".              *)
  encoding,  (* Ansi, Unicode or Park.                                     *)
  codes,     (* AnsiCodeRange.                                             *)
  offset,    (* The reference being read.                                  *)
  pos,       (* The next byte.                                             *)
  literal,   (* Characters not yet in a segment.                           *)
  segments   (* What was read.                                             *)

readVars == <<file, header, stage, encoding, codes, offset, pos, literal, segments>>

base == Len(file.before)

None == -1

ByteAt(i) == IF i < Len(header) THEN header[i + 1] ELSE None

U16At(i) == IF i + 1 < Len(header) THEN header[i + 1] + 256 * header[i + 2] ELSE None

-----------------------------------------------------------------------------
(* detect_encoding and NsisVersion::detect, over the header block from the *)
(* string table on.                                                        *)

DetectLimit == 4096

detect_encoding ==
  LET len     == Len(header) - base
      limit   == Min({len, DetectLimit})
      Marks   == {i \in 2 .. limit - 2 :
                    i % 2 = 0 /\ U16At(base + i) \in 1 .. 4 \cup 57344 .. 57347}
  IN IF len < 4 \/ ByteAt(base) # 0 \/ ByteAt(base + 1) # 0 THEN "Ansi"
     ELSE IF Marks # {} /\ U16At(base + Min(Marks)) >= 57344 THEN "Park"
     ELSE "Unicode"

detect_ansi_nsis3 ==
  \E i \in base .. Len(header) - 3 :
    ByteAt(i) = 0 /\ ByteAt(i + 1) = 3 /\ ByteAt(i + 2) >= 128

Detect ==
  /\ stage = "detect"
  /\ stage' = "idle"
  /\ encoding' = IF file.compiler = "V1" THEN "Ansi" ELSE detect_encoding
  /\ codes' = IF file.compiler = "V1" THEN "Nsis1"
              ELSE IF encoding' = "Unicode" \/ (encoding' = "Ansi" /\ detect_ansi_nsis3)
                   THEN "Nsis3"
              ELSE "Nsis2"
  /\ UNCHANGED <<file, header, offset, pos, literal, segments>>

-----------------------------------------------------------------------------
(* The codes of each encoding.                                             *)

char_size == IF encoding = "Ansi" THEN 1 ELSE 2

CharAt(i) == IF encoding = "Ansi" THEN ByteAt(i) ELSE U16At(i)

Dialect == IF encoding = "Ansi" THEN codes ELSE encoding

SpecialCodes ==
  LET Low == [lang |-> 1, shell |-> 2, var |-> 3, skip |-> 4]
  IN [Nsis2   |-> [skip |-> 252, var |-> 253, shell |-> 254, lang |-> 255],
      Nsis3   |-> Low,
      Unicode |-> Low,
      Park    |-> [skip |-> 57344, var |-> 57345, shell |-> 57346, lang |-> 57347]]

VarCodesStart == 221
VarCodeEscape == 255

(* Mutant: a byte of either range is a code.                               *)
IntroducesInEither(dialect, class, c) ==
  \/ SpecialCodes[dialect][class] = c
  \/ dialect \in {"Nsis2", "Nsis3"} /\ \E d \in {"Nsis2", "Nsis3"} : SpecialCodes[d][class] = c

Introduces(dialect, class, c) == SpecialCodes[dialect][class] = c

Is(class, c) ==
  IF Dialect = "Nsis1"
  THEN \/ class = "skip" /\ c = VarCodeEscape
       \/ class = "var" /\ c \in VarCodesStart .. VarCodeEscape - 1
  ELSE Introduces(Dialect, class, c)

IsText(c) == ~\E class \in {"lang", "shell", "var", "skip"} : Is(class, c)

-----------------------------------------------------------------------------
(* What a reference stands for.                                            *)

decode_short(b0, b1) == 128 * (b1 % 128) + (b0 % 128)

NumberOf(b0, b1) ==
  IF Dialect = "Park" THEN 256 * (b1 % 128) + b0 ELSE decode_short(b0, b1)

VARIABLE_NAMES ==
  <<"$0", "$1", "$2", "$3", "$4", "$5", "$6", "$7", "$8", "$9",
    "$R0", "$R1", "$R2", "$R3", "$R4", "$R5", "$R6", "$R7", "$R8", "$R9",
    "$CMDLINE", "$INSTDIR", "$OUTDIR", "$EXEDIR", "$LANGUAGE", "$TEMP", "$PLUGINSDIR",
    "$EXEPATH", "$EXEFILE", "$HWNDPARENT", "$_CLICK", "$_OUTDIR">>

V1_VARIABLES ==
  <<"$HWNDPARENT", "$0", "$1", "$2", "$3", "$4", "$5", "$6", "$7", "$8", "$9",
    "$R0", "$R1", "$R2", "$R3", "$R4", "$R5", "$R6", "$R7", "$R8", "$R9",
    "$CMDLINE", "$INSTDIR", "$OUTDIR", "$EXEDIR", "$PROGRAMFILES", "$SMPROGRAMS",
    "$SMSTARTUP", "$DESKTOP", "$STARTMENU", "$QUICKLAUNCH", "$TEMP", "$WINDIR", "$SYSDIR">>

NSIS_2_25_INTERNAL_VARS == 30
VAR_EXEPATH == 27

UserVariable(n) == "$_" \o ToString(n) \o "_"

variable_name_v1(i) ==
  IF i < Len(V1_VARIABLES) THEN V1_VARIABLES[i + 1] ELSE UserVariable(i - Len(V1_VARIABLES))

variable_name(i) ==
  IF codes = "Nsis1" THEN variable_name_v1(i)
  ELSE IF i >= file.built_in THEN UserVariable(i - file.built_in)
  ELSE IF file.built_in = NSIS_2_25_INTERNAL_VARS /\ i >= VAR_EXEPATH
       THEN VARIABLE_NAMES[i + 3]
  ELSE VARIABLE_NAMES[i + 1]

(* csidl_name: the folders are named by their numbers.                     *)
NoFolder == {12, 15, 50, 51, 52, 60}
IsFolder(id) == id \in 0 .. 61 \ NoFolder

EndsLiteral(c) ==
  IF encoding = "Ansi" THEN c \in {None, 0} \/ ~IsText(c)
  ELSE c \in {None} \cup 0 .. 4 \cup 57344 .. 57347

read_literal(at) ==
  LET Char(k) == CharAt(base + (at + k) * char_size)
      len == Min({k \in 0 .. Len(header) : EndsLiteral(Char(k))})
  IN [k \in 1 .. len |-> Char(k - 1)]

Target(tag, id, name, wow64) == [tag |-> tag, id |-> id, name |-> name, wow64 |-> wow64]

shell_target(primary, fallback) ==
  LET wow64 == (primary \div 64) % 2
      name  == read_literal(primary % 64)
  IN IF primary >= 128
     THEN IF name = ProgramFilesDir THEN Target("ProgramFiles", 0, <<>>, wow64)
          ELSE IF name = CommonFilesDir THEN Target("CommonFiles", 0, <<>>, wow64)
          ELSE Target("RegistryValue", 0, name, wow64)
     ELSE IF IsFolder(primary) THEN Target("Csidl", primary, <<>>, 0)
     ELSE IF IsFolder(fallback) THEN Target("Csidl", fallback, <<>>, 0)
     ELSE Target("Unresolved", 0, <<>>, 0)

Literal(chars)    == [tag |-> "Literal", text |-> chars]
VariableRef(n)    == [tag |-> "Variable", index |-> n, name |-> variable_name(n)]
ShellFolder(p, f) == [tag |-> "ShellFolder", primary |-> p, fallback |-> f,
                      target |-> shell_target(p, f)]
LangRef(n)        == [tag |-> "LangString", index |-> n]

-----------------------------------------------------------------------------
(* StringTable::read: a negative reference is a language string, or in     *)
(* NSIS 1.x no string at all.                                              *)

ReadInit ==
  /\ file \in Files
  /\ header = HeaderBlock(file)
  /\ stage = "detect"
  /\ encoding = "Ansi" /\ codes = "Nsis2"
  /\ offset = 0 /\ pos = 0
  /\ literal = <<>> /\ segments = <<>>

Answer(result) ==
  /\ stage' = "done"
  /\ segments' = result
  /\ UNCHANGED pos

Fail == stage' = "failed" /\ UNCHANGED <<pos, segments>>

Read(ref) ==
  /\ stage = "idle"
  /\ offset' = ref
  /\ \/ ref < 0 /\ codes = "Nsis1" /\ Answer(<<>>)
     \/ ref < 0 /\ codes # "Nsis1" /\ -ref - 1 <= 65535 /\ Answer(<<LangRef(-ref - 1)>>)
     \/ ref < 0 /\ codes # "Nsis1" /\ -ref - 1 > 65535 /\ Fail
     \/ ref >= 0 /\ base + ref * char_size >= Len(header) /\ Fail
     \/ /\ ref >= 0 /\ base + ref * char_size < Len(header)
        /\ stage' = "read"
        /\ pos' = base + ref * char_size
        /\ UNCHANGED segments
  /\ UNCHANGED <<file, header, encoding, codes, literal>>

-----------------------------------------------------------------------------
(* The loop of the readers.                                                *)

char == CharAt(pos)

Flushed == IF literal = <<>> THEN segments ELSE Append(segments, Literal(literal))

reading == <<file, header, encoding, codes, offset>>

ReadText ==
  /\ stage = "read"
  /\ char \notin {None, 0} /\ IsText(char)
  /\ literal' = Append(literal, char)
  /\ pos' = pos + char_size
  /\ UNCHANGED <<reading, stage, segments>>

(* The character after an escape is text, whatever it is; Park ends the    *)
(* string at a zero there.                                                 *)
ReadEscaped ==
  LET next == CharAt(pos + char_size)
  IN /\ stage = "read"
     /\ Is("skip", char)
     /\ next # None /\ ~(Dialect = "Park" /\ next = 0)
     /\ literal' = Append(literal, next)
     /\ pos' = pos + 2 * char_size
     /\ UNCHANGED <<reading, stage, segments>>

(* NSIS 1.x: the byte is the variable.                                     *)
ReadVariableByte ==
  /\ stage = "read"
  /\ Dialect = "Nsis1" /\ Is("var", char)
  /\ segments' = Append(Flushed, VariableRef(char - VarCodesStart))
  /\ literal' = <<>>
  /\ pos' = pos + 1
  /\ UNCHANGED <<reading, stage>>

(* Two argument bytes: two numbers for a folder, one for anything else.    *)
HasArgument ==
  LET at == pos + char_size
  IN /\ at + 1 < Len(header)
     /\ ~(Dialect = "Park" /\ U16At(at) = 0)

ReadReference ==
  LET b0 == ByteAt(pos + char_size)
      b1 == ByteAt(pos + char_size + 1)
  IN /\ stage = "read"
     /\ Dialect # "Nsis1"
     /\ HasArgument
     /\ \/ Is("var", char) /\ segments' = Append(Flushed, VariableRef(NumberOf(b0, b1)))
        \/ Is("lang", char) /\ segments' = Append(Flushed, LangRef(NumberOf(b0, b1)))
        \/ Is("shell", char) /\ segments' = Append(Flushed, ShellFolder(b0, b1))
     /\ literal' = <<>>
     /\ pos' = pos + char_size + 2
     /\ UNCHANGED <<reading, stage>>

(* The terminator, the end of the block, or a code cut short by it.        *)
EndString ==
  /\ stage = "read"
  /\ \/ char \in {None, 0}
     \/ /\ Is("skip", char)
        /\ LET next == CharAt(pos + char_size)
           IN next = None \/ (Dialect = "Park" /\ next = 0)
     \/ /\ Dialect # "Nsis1" /\ ~HasArgument
        /\ \E class \in {"var", "lang", "shell"} : Is(class, char)
  /\ stage' = "done"
  /\ segments' = Flushed
  /\ literal' = <<>>
  /\ UNCHANGED <<reading, pos>>

(* read has returned.                                                      *)
Done == stage \in {"done", "failed"} /\ UNCHANGED readVars

ReadNext ==
  \/ Detect \/ ReadText \/ ReadEscaped \/ ReadVariableByte \/ ReadReference \/ EndString \/ Done
  \/ \E ref \in References(file) : Read(ref)

ReadSpec == ReadInit /\ [][ReadNext]_readVars

-----------------------------------------------------------------------------
(* to_path.  A symbol that stands for a name is above every character.     *)

Symbol(kind, n) == 100000 * kind + n

VAR_INSTDIR == 21
VAR_OUTDIR  == 22

write_variable(v) ==
  IF v.index \in {VAR_INSTDIR, VAR_OUTDIR} THEN <<>> ELSE <<Symbol(1, v.index)>>

write_shell_folder(t) ==
  IF t.tag = "RegistryValue" THEN <<Symbol(2, t.wow64)>> \o t.name ELSE <<Symbol(3, t.id)>>

Rendered(seg) ==
  CASE seg.tag = "Literal"     -> seg.text
    [] seg.tag = "Variable"    -> write_variable(seg)
    [] seg.tag = "ShellFolder" -> write_shell_folder(seg.target)
    [] OTHER                   -> <<Symbol(4, seg.index)>>

write_path(s) == FlattenSeq([k \in DOMAIN s |-> Rendered(s[k])])

to_path(s) == sanitize_extraction_path(write_path(s))

-----------------------------------------------------------------------------
(* What was written, as segments.                                          *)

SegmentOf(f, part) ==
  CASE part.tag = "Text"       -> Literal(<<part.a>>)
    [] part.tag = "Variable"   -> [tag |-> "Variable", index |-> part.a,
                                   name |-> NameOf(f, part.a)]
    [] part.tag = "LangString" -> LangRef(part.a)
    [] part.tag = "Registry"   ->
         [tag |-> "ShellFolder", primary |-> 128 + 64 * part.b + NameOffset(part.a),
          fallback |-> 38,
          target |-> Target(<<"ProgramFiles", "CommonFiles">>[part.a], 0, <<>>, part.b)]
    [] OTHER ->
         [tag |-> "ShellFolder", primary |-> part.a, fallback |-> part.b,
          target |-> LET known == SelectSeq(<<part.a, part.b>>, IsFolder)
                     IN IF known = <<>> THEN Target("Unresolved", 0, <<>>, 0)
                        ELSE Target("Csidl", known[1], <<>>, 0)]

Lengthened(s, seg) ==
  IF s # <<>> /\ seg.tag = "Literal" /\ s[Len(s)].tag = "Literal"
  THEN [s EXCEPT ![Len(s)] = Literal(@.text \o seg.text)]
  ELSE Append(s, seg)

SegmentsOf(f, s) == FoldLeft(Lengthened, <<>>, [k \in DOMAIN s |-> SegmentOf(f, s[k])])

(* A table is evident when its first mark is its own compiler's: a wide    *)
(* table's first code or private-use character, and in a narrow one a      *)
(* string that begins with a variable of NSIS 3.                           *)
AllParts(f) == FlattenSeq(f.strings)

PrivateUse(p) == p.tag = "Text" /\ p.a \in 57344 .. 57347
LowControl(p) == p.tag = "Text" /\ p.a \in 1 .. 4
IsReference(p) == p.tag # "Text"

StartsWith(f, P(_)) == \E k \in DOMAIN f.strings : P(f.strings[k][1])

FirstMark(f) == SelectInSeq(AllParts(f), LAMBDA p : ~(p.tag = "Text" /\ p.a \in 5 .. 57343))

IsOwnMark(f) ==
  LET k == FirstMark(f)
  IN k = 0 \/ IsReference(AllParts(f)[k])
     \/ (IF f.compiler = "Park" THEN PrivateUse(AllParts(f)[k]) ELSE LowControl(AllParts(f)[k]))

Evident(f) ==
  CASE f.compiler = "V1"     -> TRUE
    [] f.compiler = "V2"     -> ~StartsWith(f, LowControl)
    [] f.compiler = "V3Ansi" -> StartsWith(f, LAMBDA p : p.tag = "Variable")
    [] OTHER                 -> IsOwnMark(f)

-----------------------------------------------------------------------------
(* Every string of an evident table reads back as what its compiler wrote: *)
(* the same text whatever characters are codes elsewhere, the same         *)
(* variables by the names of that version's list, the same folders.  An    *)
(* error is given for no string of the table.                              *)
StringsReadAsWritten ==
  Evident(file) =>
    \A k \in DOMAIN file.strings :
      stage \in {"done", "failed"} /\ offset = OffsetOf(file, k) =>
        stage = "done" /\ segments = SegmentsOf(file, file.strings[k])

(* NsisString::to_path names a place below the directory it is joined to:  *)
(* no component is empty, "." or "..", even where one is put together from *)
(* several segments and both separators are mixed, and it does not begin   *)
(* with a drive.  strings/mod.rs:255 and :295 promise that of "any leading *)
(* drive letter"; it holds where the drive is the whole first component,   *)
(* mod.rs:446, not behind a separator or with a name in its component: the *)
(* paths of \C:\x, $INSTDIR\C:\x, C:\D:\x and C:x begin with a drive.     *)
PathsStayBelow ==
  stage = "done" => IsSafe(to_path(segments), write_path(segments))

(* opcode/version.rs: the version of an installer is decided by "the raw   *)
(* string block", whatever tables lie behind it.                           *)
VersionIsOfTheStrings ==
  stage # "detect" /\ file.compiler = "V2" /\ Evident(file) => codes = "Nsis2"
================================================================================
