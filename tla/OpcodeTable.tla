------------------------------- MODULE OpcodeTable -------------------------------
(***************************************************************************)
(* opcode/info.rs: the operand slots and the effects of each instruction   *)
(* in the numbering of NSIS 2 and 3, and the form its operands select.     *)
(*                                                                         *)
(* A row keeps the mnemonic, the parameter count, what each slot holds and *)
(* the effects; names and descriptions are wording.  A row stands for its  *)
(* number, so the code's match on "which" is a match on the mnemonic here. *)
(***************************************************************************)
EXTENDS Integers, Sequences, InstructionEffects

(* What an operand slot holds.  Literal is the code's Int.                 *)
Unused           == [kind |-> "Unused", access |-> "None"]
String           == [kind |-> "String", access |-> "None"]
Number           == [kind |-> "Number", access |-> "None"]
RawString        == [kind |-> "RawString", access |-> "None"]
Jump             == [kind |-> "Jump", access |-> "None"]
Literal          == [kind |-> "Int", access |-> "None"]
DataOffset       == [kind |-> "DataOffset", access |-> "None"]
Variable(access) == [kind |-> "Variable", access |-> access]
Flag(access)     == [kind |-> "Flag", access |-> access]

is_string(type)   == type.kind \in {"String", "Number", "RawString"}
is_variable(type) == type.kind = "Variable"

OUT     == Variable("Write")
MAY_OUT == Variable("MayWrite")
IN_VAR  == Variable("Read")

FAILS           == failing(NONE)
FAILS_REPORTING == reporting(FAILS)
REGISTRY        == reading(FAILS, {"AlterRegView"})

OUTSIDE           == acting_outside(NONE)
FAILS_OUTSIDE     == acting_outside(FAILS)
REPORTING_OUTSIDE == acting_outside(FAILS_REPORTING)
REGISTRY_OUTSIDE  == acting_outside(REGISTRY)

Slots == 0 .. 5

(* The slots of a list of types; the rest are unused.                      *)
Typed(types) ==
  [slot \in Slots |-> IF slot < Len(types) THEN types[slot + 1] ELSE Unused]

Op(mnemonic, param_count, types, effects) ==
  [op |-> mnemonic, count |-> param_count, types |-> Typed(types),
   effects |-> effects]

-----------------------------------------------------------------------------
(* The table, in pieces named for the number of their first row.           *)

OpcodesFrom0 == <<
  Op("INVALID_OPCODE", 0, <<>>, NONE),
  Op("RET", 0, <<>>, NONE),
  Op("NOP", 1, <<Jump>>, NONE),
  Op("ABORT", 1, <<String>>,
        acting_outside(with_termination(reporting(NONE), "Always"))),
  Op("QUIT", 0, <<>>, with_termination(NONE, "Always")),
  Op("CALL", 2, <<Jump, Literal>>, with_termination(NONE, "May")),
  Op("UPDATETEXT", 6, <<String>>, acting_outside(reporting(NONE))),
  Op("SLEEP", 1, <<Number>>, OUTSIDE),
  Op("BRINGTOFRONT", 0, <<>>, OUTSIDE),
  Op("CHDETAILSVIEW", 2, <<Literal, Literal>>, OUTSIDE),
  Op("SETFILEATTRIBUTES", 2, <<String, Literal>>, FAILS_OUTSIDE),
  Op("CREATEDIR", 3, <<String, Literal, Literal>>, REPORTING_OUTSIDE),
  Op("IFFILEEXISTS", 3, <<String, Jump, Jump>>, OUTSIDE),
  Op("SETFLAG", 4, <<Flag("Write"), Number, Literal>>, NONE),
  Op("IFFLAG", 4, <<Jump, Jump, Flag("Update"), Literal>>, NONE)
>>

OpcodesFrom15 == <<
  Op("GETFLAG", 2, <<OUT, Flag("Read")>>, NONE),
  Op("RENAME", 4, <<String, String, Literal, String>>, REPORTING_OUTSIDE),
  Op("GETFULLPATHNAME", 3, <<String, OUT, Literal>>, FAILS_OUTSIDE),
  Op("SEARCHPATH", 2, <<OUT, String>>, FAILS_OUTSIDE),
  Op("GETTEMPFILENAME", 2, <<OUT, String>>, FAILS_OUTSIDE),
  Op("EXTRACTFILE", 6, <<Literal, String, DataOffset, Literal, Literal, String>>,
        acting_outside(with_termination(with_outdir(asking(FAILS_REPORTING), "Read"), "May"))),
  Op("DELETEFILE", 2, <<String, Literal>>, REPORTING_OUTSIDE),
  Op("MESSAGEBOX", 6, <<Literal, String, Literal, Jump, Literal, Jump>>,
        acting_outside(asking(FAILS))),
  Op("RMDIR", 2, <<String, Literal>>, REPORTING_OUTSIDE),
  Op("STRLEN", 2, <<OUT, String>>, NONE),
  Op("ASSIGNVAR", 4, <<OUT, String, Number, Number>>, NONE),
  Op("STRCMP", 5, <<String, String, Jump, Jump, Literal>>, NONE),
  Op("READENVSTR", 3, <<OUT, String, Literal>>, FAILS_OUTSIDE),
  Op("INTCMP", 6, <<Number, Number, Jump, Jump, Jump, Literal>>, NONE)
>>

OpcodesFrom29 == <<
  Op("INTOP", 4, <<OUT, Number, Number, Literal>>, NONE),
  Op("INTFMT", 4, <<OUT, String, Number, Literal>>, NONE),
  Op("PUSHPOP", 6, <<String, Literal, Literal>>, with_stack(NONE, "Push")),
  Op("FINDWINDOW", 6, <<OUT, String, String, Number, Number, Literal>>, OUTSIDE),
  Op("SENDMESSAGE", 6, <<OUT, Number, Number, Number, Number, Literal>>, OUTSIDE),
  Op("ISWINDOW", 3, <<Number, Jump, Jump>>, OUTSIDE),
  Op("GETDLGITEM", 3, <<OUT, Number, Number>>, OUTSIDE),
  Op("SETCTLCOLORS", 2, <<Number, Literal>>, OUTSIDE),
  Op("LOADANDSETIMAGE", 4, <<OUT, Literal, Literal, Literal>>, OUTSIDE),
  Op("CREATEFONT", 5, <<OUT, String, Number, Number, Literal>>, OUTSIDE),
  Op("SHOWWINDOW", 4, <<Number, Number, Literal, Literal>>, OUTSIDE),
  Op("SHELLEXEC", 6, <<String, String, String, Literal, Literal, String>>,
        acting_outside(with_outdir(FAILS_REPORTING, "Read"))),
  Op("EXECUTE", 3, <<String, MAY_OUT, Literal>>, REPORTING_OUTSIDE),
  Op("GETFILETIME", 3, <<OUT, OUT, String>>, FAILS_OUTSIDE),
  Op("GETDLLVERSION", 4, <<OUT, OUT, String, Literal>>, FAILS_OUTSIDE)
>>

OpcodesFrom44 == <<
  Op("REGISTERDLL", 6, <<String, String, String, Literal, Literal>>, REPORTING_OUTSIDE),
  Op("CREATESHORTCUT", 6, <<String, String, String, String, Literal, String>>,
        acting_outside(with_outdir(FAILS_REPORTING, "Read"))),
  Op("COPYFILES", 4, <<String, String, Literal, String>>, REPORTING_OUTSIDE),
  Op("REBOOT", 1, <<Literal>>, acting_outside(writing(NONE, {"RebootCalled"}))),
  Op("WRITEINI", 5, <<String, String, String, String, Literal>>, FAILS_OUTSIDE),
  Op("READINISTR", 4, <<OUT, String, String, String>>, FAILS_OUTSIDE),
  Op("DELREG", 5, <<Unused, Literal, String, String, Literal>>, REGISTRY_OUTSIDE),
  Op("WRITEREG", 6, <<Literal, String, String, String, Literal, Literal>>,
        REGISTRY_OUTSIDE),
  Op("READREGSTR", 5, <<OUT, Literal, String, String, Literal>>, REGISTRY_OUTSIDE),
  Op("REGENUM", 5, <<OUT, Literal, String, Number, Literal>>, REGISTRY_OUTSIDE),
  Op("FCLOSE", 1, <<IN_VAR>>, OUTSIDE),
  Op("FOPEN", 4, <<OUT, Literal, Literal, String>>, FAILS_OUTSIDE),
  Op("FPUTS", 3, <<IN_VAR, String, Literal>>, FAILS_OUTSIDE),
  Op("FGETS", 4, <<IN_VAR, MAY_OUT, Number, Literal>>, FAILS_OUTSIDE)
>>

OpcodesFrom58 == <<
  Op("FSEEK", 4, <<IN_VAR, MAY_OUT, Number, Literal>>, OUTSIDE),
  Op("FINDCLOSE", 1, <<IN_VAR>>, OUTSIDE),
  Op("FINDNEXT", 2, <<OUT, IN_VAR>>, FAILS_OUTSIDE),
  Op("FINDFIRST", 3, <<OUT, OUT, String>>, FAILS_OUTSIDE),
  Op("WRITEUNINSTALLER", 4, <<String, DataOffset, Literal, String>>, REPORTING_OUTSIDE),
  Op("SECTIONSET", 5, <<Number, Number, Literal, Literal, String>>, FAILS_OUTSIDE),
  Op("INSTTYPESET", 4, <<Number, Unused, Literal, Literal>>, FAILS_OUTSIDE),
  Op("GETOSINFO", 6, <<Unused, OUT, String, Literal>>, FAILS_OUTSIDE),
  Op("RESERVEDOPCODE", 2, <<>>, NONE),
  Op("LOCKWINDOW", 1, <<Literal>>, OUTSIDE),
  Op("FPUTWS", 4, <<IN_VAR, String, Literal, Literal>>, FAILS_OUTSIDE),
  Op("FGETWS", 4, <<IN_VAR, MAY_OUT, Number, Literal>>, FAILS_OUTSIDE),
  Op("LOG", 2, <<Literal, String>>, OUTSIDE),
  Op("FINDPROC", 2, <<OUT, String>>, OUTSIDE),
  Op("GETFONTVERSION", 2, <<MAY_OUT, String>>, FAILS_OUTSIDE),
  Op("GETFONTNAME", 2, <<MAY_OUT, String>>, FAILS_OUTSIDE)
>>

(* The row of number n is OPCODES[n + 1].                                  *)
OPCODES ==
  OpcodesFrom0 \o OpcodesFrom15 \o OpcodesFrom29 \o OpcodesFrom44 \o OpcodesFrom58

(* What NSIS 2 stores under the number of LOADANDSETIMAGE.                 *)
SET_BRANDING_IMAGE ==
  Op("SETBRANDINGIMAGE", 3, <<String, Literal, Literal>>, OUTSIDE)

-----------------------------------------------------------------------------
(* The form of an instruction.                                             *)

fixed(info) == [types |-> info.types, count |-> info.count, effects |-> info.effects]

(* set and retype: names are not modelled, so both give a slot a type.     *)
retype(layout, slot, type) == [layout EXCEPT !.types[slot] = type]
clear(layout, slot)        == retype(layout, slot, Unused)
affecting(layout, effects) == [layout EXCEPT !.effects = effects]

(* A change that depends on an operand.                                    *)
Given(condition, changed, layout) == IF condition THEN changed ELSE layout

HasBit(v, bit) == (v \div bit) % 2 = 1

REBOOT_MAGIC == 195948557

(* The flags a registry root reads: a predefined key is negative, SHCTX is *)
(* not and resolves as SetShellVarContext says.                            *)
shell_context(root) == IF root >= 0 THEN {"AllUserVar"} ELSE NoFlags

in_context(layout, root) == affecting(layout, reading(layout.effects, shell_context(root)))

Form(types, count, effects) ==
  [types |-> Typed(types), count |-> count, effects |-> effects]

(* Push, Pop or Exch, chosen by which slot carries something.              *)
pushpop_form(pop, depth, v1) ==
  LET exchanging == with_termination(with_stack(NONE, "Exch"), "May") IN
  IF depth # 0
    THEN Form(<<Unused, Unused, Literal>>, 3,
              IF v1 THEN exchanging ELSE asking(exchanging))
  ELSE IF pop # 0 THEN Form(<<MAY_OUT, Literal>>, 2, with_stack(FAILS, "Pop"))
  ELSE Form(<<String>>, 1, with_stack(NONE, "Push"))

(* A negative operation sets the property -(op + 1), the others get theirs.*)
(* Setting the text, property 0, takes it from the fifth slot.             *)
section_form(layout, op) ==
  LET form(types, count) == [layout EXCEPT !.types = Typed(types), !.count = count] IN
  IF op = -1 THEN form(<<Number, Literal, Literal, Literal, String>>, 5)
  ELSE IF op < 0 THEN form(<<Number, Number, Literal, Literal>>, 4)
  ELSE form(<<Number, MAY_OUT, Literal>>, 3)

(* The four commands of INSTTYPESET.                                       *)
inst_type_form(layout, set, current) ==
  LET typed(type) ==
        [layout EXCEPT !.types = Typed(<<Number, type, Literal, Literal>>), !.count = 4] IN
  IF current # 0 THEN typed(IF set # 0 THEN Unused ELSE MAY_OUT)
  ELSE IF set # 0 THEN typed(RawString)
  ELSE [typed(MAY_OUT) EXCEPT !.effects.hidden = "ReadsAny"]

(* FINDWINDOW and SENDMESSAGE: without an output variable slot 0 is -1,    *)
(* and the low bits of slot 5 say which message parameters are strings.    *)
window_form(layout, v) ==
  LET target == Given(v[0] < 0, clear(layout, 0), layout)
      wparam == Given(HasBit(v[5], 1), retype(target, 3, String), target)
  IN  Given(HasBit(v[5], 2), retype(wparam, 4, String), wparam)

image_form(layout, v) ==
  LET target == Given(v[0] < 0, clear(layout, 0), layout)
      named  == Given(HasBit(v[3], 65536), retype(target, 1, String), target)
  IN  Given(HasBit(v[3], 256), retype(named, 2, Number), named)

(* A zero section or key is absent, and the value without a fifth operand. *)
ini_form(layout, v) ==
  LET section == Given(v[0] = 0, clear(layout, 0), layout)
      key     == Given(v[1] = 0, clear(section, 1), section)
  IN  Given(v[4] = 0, clear(key, 2), key)

(* The kind of the value decides its slot: REG_SZ, REG_BINARY, REG_DWORD.  *)
registry_value_form(layout, kind) ==
  IF kind = 1 THEN retype(layout, 3, String)
  ELSE IF kind = 3 THEN retype(layout, 3, DataOffset)
  ELSE IF kind = 4 THEN retype(layout, 3, Number)
  ELSE clear(layout, 3)

(* GETOSINFO reads a known folder, a word of memory, or nothing named.     *)
os_info_form(layout, which) ==
  IF which = 0 THEN affecting(retype(layout, 2, String), FAILS_OUTSIDE)
  ELSE IF which = 1
    THEN affecting(retype(retype(layout, 2, Number), 4, Number),
                   acting_outside(reading(NONE, ExecFlag)))
  ELSE clear(layout, 1)

(* What a move deferred to the next reboot, a division by zero, a message  *)
(* with a timeout, SetOutPath and a shortcut without a directory change.   *)
form_effects(op, v, effects) ==
  IF \/ op = "RENAME" /\ v[2] # 0
     \/ op \in {"DELETEFILE", "RMDIR"} /\ HasBit(v[1], 4)
    THEN writing(effects, {"ExecReboot"})
  ELSE IF \/ op = "INTOP" /\ v[3] \in {3, 10}
          \/ op = "SENDMESSAGE" /\ v[5] \div 4 # 0
    THEN failing(effects)
  ELSE IF op = "CREATEDIR" /\ v[1] # 0 THEN with_outdir(effects, "Write")
  ELSE IF op = "CREATESHORTCUT" /\ HasBit(v[4], 32768) THEN with_outdir(effects, "None")
  ELSE IF op = "REBOOT" /\ v[0] # REBOOT_MAGIC
    THEN acting_outside(with_termination(asking(NONE), "Always"))
  ELSE effects

(* The layout of one instruction: its fixed one, changed as its operands   *)
(* say.                                                                    *)
param_layout(info, v) ==
  LET layout == affecting(fixed(info), form_effects(info.op, v, info.effects)) IN
  CASE info.op = "SETFLAG" /\ v[2] > 0 -> retype(clear(layout, 1), 3, Literal)
    [] info.op = "IFFLAG" /\ v[3] = -1 -> retype(layout, 2, Flag("Read"))
    [] info.op = "PUSHPOP"             -> pushpop_form(v[1], v[2], FALSE)
    [] info.op \in {"FINDWINDOW", "SENDMESSAGE"} -> window_form(layout, v)
    [] info.op = "LOADANDSETIMAGE"     -> image_form(layout, v)
    [] info.op = "EXECUTE" /\ (v[2] = 0 \/ v[1] < 0) -> clear(layout, 1)
    [] info.op = "REGISTERDLL" /\ v[2] = 0 ->
         affecting(clear(layout, 2), of_plugin(layout.effects, ExecFlag))
    [] info.op = "WRITEINI"            -> ini_form(layout, v)
    [] info.op = "DELREG" ->
         in_context(Given(v[4] # 0, clear(layout, 3), layout), v[1])
    [] info.op = "WRITEREG" -> in_context(registry_value_form(layout, v[4]), v[0])
    [] info.op \in {"READREGSTR", "REGENUM"} -> in_context(layout, v[1])
    [] info.op \in {"FPUTS", "FPUTWS"} /\ v[2] # 0 -> retype(layout, 1, Number)
    [] info.op = "FSEEK" /\ v[1] < 0   -> clear(layout, 1)
    [] info.op = "SECTIONSET"          -> section_form(layout, v[2])
    [] info.op = "INSTTYPESET"         -> inst_type_form(layout, v[2], v[3])
    [] info.op = "GETOSINFO"           -> os_info_form(layout, v[3])
    [] info.op = "LOG" /\ v[0] # 0     -> retype(layout, 1, Literal)
    [] OTHER                           -> layout

(* The slots of a layout that carry an operand of one of these kinds.      *)
slots_of(layout, kinds) ==
  {slot \in Slots : slot < layout.count /\ layout.types[slot].kind \in kinds}
===============================================================================
