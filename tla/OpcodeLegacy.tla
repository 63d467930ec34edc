------------------------------ MODULE OpcodeLegacy ------------------------------
(***************************************************************************)
(* opcode/v1.rs: the instructions of NSIS 1.x, which have a table, operand *)
(* orders and forms of their own, and their numbers in the canonical       *)
(* numbering.                                                              *)
(***************************************************************************)
EXTENDS OpcodeTable

ERROR  == {"ExecError"}
REBOOT == {"ExecReboot"}

CORRUPT     == with_termination(NONE, "Always")
EXTRACT     == [with_termination(with_outdir(FAILS_REPORTING, "Read"), "May")
                  EXCEPT !.hidden = "ReadsAny"]
UNINSTALLER == [reporting(NONE) EXCEPT !.instdir = "Read"]

LegacyOpcodesFrom0 == <<
  Op("INVALID_OPCODE", 0, <<>>, CORRUPT),
  Op("RET", 0, <<>>, NONE),
  Op("NOP", 1, <<Jump>>, NONE),
  Op("ABORT", 1, <<String>>,
        acting_outside(with_termination(reporting(NONE), "Always"))),
  Op("QUIT", 0, <<>>, with_termination(NONE, "Always")),
  Op("CALL", 2, <<Jump, Literal>>, with_termination(NONE, "May")),
  Op("UPDATETEXT", 2, <<String, Literal>>, acting_outside(reporting(NONE))),
  Op("SLEEP", 1, <<Number>>, OUTSIDE),
  Op("SETSFCONTEXT", 1, <<Literal>>, writing(NONE, {"AllUserVar"})),
  Op("HIDEWINDOW", 0, <<>>, OUTSIDE),
  Op("BRINGTOFRONT", 0, <<>>, OUTSIDE),
  Op("SETWINDOWCLOSE", 1, <<Literal>>, writing(NONE, {"AutoClose"})),
  Op("CHDETAILSVIEW", 2, <<Literal, Literal>>, OUTSIDE),
  Op("SETFILEATTRIBUTES", 2, <<String, Literal>>, FAILS_OUTSIDE)
>>

LegacyOpcodesFrom14 == <<
  Op("CREATEDIR", 2, <<String, Literal>>, acting_outside(reporting(NONE))),
  Op("IFFILEEXISTS", 3, <<String, Jump, Jump>>, OUTSIDE),
  Op("IFERRORS", 3, <<Jump, Jump, Literal>>, writing(reading(NONE, ERROR), ERROR)),
  Op("RENAME", 3, <<String, String, Literal>>, REPORTING_OUTSIDE),
  Op("GETFULLPATHNAME", 3, <<OUT, String, Literal>>, FAILS_OUTSIDE),
  Op("SEARCHPATH", 2, <<OUT, String>>, FAILS_OUTSIDE),
  Op("GETTEMPFILENAME", 1, <<OUT>>, FAILS_OUTSIDE),
  Op("EXTRACTFILE", 5, <<Literal, String, DataOffset, Literal, Literal>>,
        acting_outside(EXTRACT)),
  Op("DELETEFILE", 2, <<String, Literal>>, REPORTING_OUTSIDE),
  Op("MESSAGEBOX", 5, <<Literal, String, Literal, Jump, Jump>>, FAILS_OUTSIDE),
  Op("RMDIR", 2, <<String, Literal>>, REPORTING_OUTSIDE),
  Op("STRLEN", 2, <<OUT, String>>, NONE),
  Op("ASSIGNVAR", 4, <<OUT, String, Number, Number>>, NONE),
  Op("STRCMP", 4, <<String, String, Jump, Jump>>, NONE)
>>

LegacyOpcodesFrom28 == <<
  Op("READENVSTR", 3, <<OUT, String, Literal>>, FAILS_OUTSIDE),
  Op("INTCMP", 5, <<Number, Number, Jump, Jump, Jump>>, NONE),
  Op("INTCMPU", 5, <<Number, Number, Jump, Jump, Jump>>, NONE),
  Op("INTOP", 4, <<OUT, Number, Number, Literal>>, NONE),
  Op("INTFMT", 3, <<OUT, String, Number>>, NONE),
  Op("PUSHPOP", 3, <<String, Literal, Literal>>, with_stack(NONE, "Push")),
  Op("FINDWINDOW", 5, <<OUT, String, String, Number, Number>>, OUTSIDE),
  Op("SENDMESSAGE", 5, <<OUT, Number, Number, Number, Number>>, OUTSIDE),
  Op("ISWINDOW", 3, <<Number, Jump, Jump>>, OUTSIDE),
  Op("SHELLEXEC", 4, <<String, String, String, Literal>>,
        acting_outside(with_outdir(FAILS_REPORTING, "Read"))),
  Op("EXECUTE", 3, <<String, Literal, MAY_OUT>>,
        acting_outside(with_outdir(FAILS_REPORTING, "Read"))),
  Op("GETFILETIME", 3, <<String, OUT, OUT>>, FAILS_OUTSIDE),
  Op("GETDLLVERSION", 3, <<String, OUT, OUT>>, FAILS_OUTSIDE),
  Op("REGISTERDLL", 3, <<String, String, String>>, REPORTING_OUTSIDE)
>>

LegacyOpcodesFrom42 == <<
  Op("CREATESHORTCUT", 5, <<String, String, String, String, Literal>>,
        acting_outside(with_outdir(FAILS_REPORTING, "Read"))),
  Op("COPYFILES", 3, <<String, String, Literal>>, REPORTING_OUTSIDE),
  Op("REBOOT", 1, <<Literal>>, acting_outside(with_termination(FAILS, "May"))),
  Op("IFREBOOTFLAG", 2, <<Jump, Jump>>, reading(NONE, REBOOT)),
  Op("SETREBOOTFLAG", 1, <<Literal>>, writing(NONE, REBOOT)),
  Op("WRITEINI", 4, <<String, String, String, String>>, FAILS_OUTSIDE),
  Op("READINISTR", 4, <<OUT, String, String, String>>, FAILS_OUTSIDE),
  Op("DELREG", 4, <<Literal, String, String, Literal>>, FAILS_OUTSIDE),
  Op("WRITEREG", 5, <<Literal, String, String, String, Literal>>, FAILS_OUTSIDE),
  Op("READREGSTR", 5, <<OUT, Literal, String, String, Literal>>, FAILS_OUTSIDE),
  Op("REGENUM", 5, <<OUT, Literal, String, Number, Literal>>, FAILS_OUTSIDE),
  Op("FCLOSE", 1, <<IN_VAR>>, OUTSIDE)
>>

LegacyOpcodesFrom54 == <<
  Op("FOPEN", 4, <<String, Literal, Literal, OUT>>, FAILS_OUTSIDE),
  Op("FPUTS", 3, <<IN_VAR, String, Literal>>, FAILS_OUTSIDE),
  Op("FGETS", 4, <<IN_VAR, MAY_OUT, Number, Literal>>, FAILS_OUTSIDE),
  Op("FSEEK", 4, <<IN_VAR, Number, Literal, MAY_OUT>>, OUTSIDE),
  Op("FINDCLOSE", 1, <<IN_VAR>>, OUTSIDE),
  Op("FINDNEXT", 2, <<OUT, IN_VAR>>, FAILS_OUTSIDE),
  Op("FINDFIRST", 3, <<String, OUT, OUT>>, FAILS_OUTSIDE),
  Op("WRITEUNINSTALLER", 1, <<String>>, acting_outside(UNINSTALLER)),
  Op("LOG", 2, <<Literal, String>>, OUTSIDE),
  Op("SECTIONSET", 3, <<Number, Literal, String>>, FAILS_OUTSIDE),
  Op("GETLABELADDR", 2, <<OUT, Jump>>, NONE),
  Op("GETFUNCTIONADDR", 2, <<OUT, Jump>>, NONE)
>>

(* The row of number n is OPCODES_V1[n + 1].                               *)
OPCODES_V1 ==
  LegacyOpcodesFrom0 \o LegacyOpcodesFrom14 \o LegacyOpcodesFrom28
    \o LegacyOpcodesFrom42 \o LegacyOpcodesFrom54

(* The first number no NSIS 1.x installer stores.                          *)
EW_V1_GETLABELADDR == 64

(* The instructions that NSIS 2.0 dropped keep their 1.x number.           *)
Dropped == {8, 9, 11, 16, 30, 45, 46, 64, 65}

(* V1_TO_CANONICAL, as the distance by which each run of numbers moved.    *)
canonical_opcode(which) ==
  IF which \in Dropped THEN which
  ELSE IF which \in 12 .. 15 THEN which - 3
  ELSE IF which \in {10} \cup 31 .. 36 THEN which - 2
  ELSE IF which \in 17 .. 29 THEN which - 1
  ELSE IF which \in 37 .. 44 THEN which + 3
  ELSE IF which \in 47 .. 61 THEN which + 1
  ELSE IF which = 62 THEN 70
  ELSE which

OptionalOutput(layout, v, slot) == Given(v[slot] < 0, clear(layout, slot), layout)

(* A kind of zero or one is a string.                                      *)
registry_value_form_v1(layout, kind) ==
  IF kind \in {0, 1} THEN layout
  ELSE IF kind = 2 THEN retype(layout, 3, Number)
  ELSE IF kind = 3 THEN retype(layout, 3, DataOffset)
  ELSE clear(layout, 3)

section_form_v1(layout, op, v2) ==
  IF op = 0 THEN retype(layout, 2, IF v2 < 0 THEN Unused ELSE String)
  ELSE IF op = 1 THEN [retype(layout, 2, MAY_OUT) EXCEPT !.effects.hidden = "ReadsAny"]
  ELSE retype(layout, 2, IF op = 2 THEN Number ELSE MAY_OUT)

form_effects_v1(op, v, effects) ==
  IF op = "CREATEDIR" /\ v[1] # 0 THEN with_outdir(effects, "Write")
  ELSE IF \/ op = "RENAME" /\ v[2] # 0
          \/ op = "DELETEFILE" /\ v[1] # 0
    THEN writing(effects, REBOOT)
  ELSE IF op = "INTOP" /\ v[3] \in {3, 11} THEN failing(effects)
  ELSE IF op = "REBOOT" /\ v[0] # REBOOT_MAGIC THEN with_termination(effects, "Always")
  ELSE effects

(* The layout of one NSIS 1.x instruction.                                 *)
param_layout_v1(info, v) ==
  LET layout == affecting(fixed(info), form_effects_v1(info.op, v, info.effects)) IN
  CASE info.op = "UPDATETEXT" /\ v[1] # 0 ->
         affecting(clear(layout, 0), writing(NONE, {"StatusUpdate"}))
    [] info.op = "PUSHPOP"                  -> pushpop_form(v[1], v[2], TRUE)
    [] info.op \in {"FINDWINDOW", "SENDMESSAGE"} -> OptionalOutput(layout, v, 0)
    [] info.op = "EXECUTE" /\ (v[1] = 0 \/ v[2] < 0) -> clear(layout, 2)
    [] info.op = "REGISTERDLL" /\ v[2] < 0 ->
         affecting(clear(layout, 2), of_plugin(layout.effects, NoFlags))
    [] info.op = "WRITEINI" -> OptionalOutput(OptionalOutput(layout, v, 1), v, 2)
    [] info.op = "DELREG"                   -> clear(layout, IF v[2] = -1 THEN 2 ELSE 3)
    [] info.op = "WRITEREG"                 -> registry_value_form_v1(layout, v[4])
    [] info.op = "FPUTS" /\ v[2] # 0        -> retype(layout, 1, Number)
    [] info.op = "FSEEK"                    -> OptionalOutput(layout, v, 3)
    [] info.op = "LOG" /\ v[0] # 0          -> retype(layout, 1, Literal)
    [] info.op = "SECTIONSET"               -> section_form_v1(layout, v[1], v[2])
    [] OTHER                                -> layout
===============================================================================
