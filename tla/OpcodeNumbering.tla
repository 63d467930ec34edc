----------------------------- MODULE OpcodeNumbering -----------------------------
(***************************************************************************)
(* opcode/mod.rs and NsisInstaller::normalize_opcode: the number an entry  *)
(* stores depends on the instructions its compiler was built with, and is  *)
(* translated into one numbering before anything else looks at it.         *)
(***************************************************************************)
EXTENDS Integers

EW_ASSIGNVAR        == 25
EW_GETDLGITEM       == 35
EW_LOADANDSETIMAGE  == 37
EW_REGISTERDLL      == 44
EW_FSEEK            == 58
EW_WRITEUNINSTALLER == 62
EW_SECTIONSET       == 63
EW_GETOSINFO        == 65
EW_RESERVEDOPCODE   == 66
EW_LOCKWINDOW       == 67
EW_FPUTWS           == 68
EW_FGETWS           == 69
(* Numbers that only the translation uses.                                 *)
EW_LOG              == 70
EW_FINDPROC         == 71
EW_GETFONTVERSION   == 72
EW_GETFONTNAME      == 73

(* u32::MAX, which reads as -1 once it is an i32 again.                    *)
NoOpcode == -1

ParkSubVersion == {"Park1", "Park2", "Park3"}

(* The font instructions a Park release inserts before EW_REGISTERDLL.     *)
FontInserts(sub) == IF sub = "Park3" THEN 2 ELSE IF sub = "Park2" THEN 1 ELSE 0

(* Undoes the insertions of the Park fork from the lowest to the highest:  *)
(* fonts before EW_REGISTERDLL, UTF-16 files before EW_FSEEK, the log      *)
(* before EW_SECTIONSET, FindProc after EW_LOCKWINDOW.                     *)
normalize_park_opcode(raw, sub, log) ==
  LET unfonted == raw - FontInserts(sub)
      unwide   == IF unfonted >= EW_FSEEK THEN unfonted - 2 ELSE unfonted
      unlogged == IF log /\ unwide >= EW_SECTIONSET THEN unwide - 1 ELSE unwide
  IN  IF raw < EW_REGISTERDLL THEN raw
      ELSE IF unfonted < EW_REGISTERDLL THEN EW_GETFONTVERSION + raw - EW_REGISTERDLL
      ELSE IF unfonted \in {EW_FSEEK, EW_FSEEK + 1} THEN EW_FPUTWS + unfonted - EW_FSEEK
      ELSE IF log /\ unwide = EW_SECTIONSET THEN EW_LOG
      ELSE IF unlogged = EW_FPUTWS THEN EW_FINDPROC
      ELSE IF unlogged > EW_FPUTWS THEN NoOpcode
      ELSE unlogged

(* Undoes the log instruction of NSIS 2 and 3.                             *)
normalize_log_opcode(raw) ==
  IF raw < EW_SECTIONSET THEN raw
  ELSE IF raw = EW_SECTIONSET THEN EW_LOG
  ELSE raw - 1

-----------------------------------------------------------------------------
(* The numbers a compiler gives its instructions, from the order of the    *)
(* instructions in its source: the reference the translation undoes.       *)

(* The number of instructions a Park compiler inserts below this one.      *)
ParkInserts(op, sub, log) ==
  (IF op >= EW_REGISTERDLL THEN FontInserts(sub) ELSE 0)
    + (IF op >= EW_FSEEK THEN 2 ELSE 0)
    + (IF log /\ op >= EW_SECTIONSET THEN 1 ELSE 0)

park_stores(op, sub, log) ==
  IF op <= EW_LOCKWINDOW THEN op + ParkInserts(op, sub, log)
  ELSE IF op \in {EW_FPUTWS, EW_FGETWS} THEN EW_FSEEK + op - EW_FPUTWS + FontInserts(sub)
  ELSE IF op = EW_LOG THEN EW_SECTIONSET + FontInserts(sub) + 2
  ELSE IF op = EW_FINDPROC THEN EW_LOCKWINDOW + 1 + ParkInserts(EW_LOCKWINDOW, sub, log)
  ELSE EW_REGISTERDLL + op - EW_GETFONTVERSION

log_stores(op) ==
  IF op = EW_LOG THEN EW_SECTIONSET ELSE IF op >= EW_SECTIONSET THEN op + 1 ELSE op

(* The instructions a compiler has.                                        *)
ParkOpcodes(sub, log) ==
  (0 .. EW_FGETWS \ {EW_GETOSINFO, EW_RESERVEDOPCODE}) \cup {EW_FINDPROC}
    \cup (EW_GETFONTVERSION .. EW_GETFONTVERSION + FontInserts(sub) - 1)
    \cup (IF log THEN {EW_LOG} ELSE {})

StandardOpcodes(log) == 0 .. EW_FGETWS \cup (IF log THEN {EW_LOG} ELSE {})
===============================================================================
