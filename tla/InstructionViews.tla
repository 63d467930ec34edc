----------------------------- MODULE InstructionViews -----------------------------
(***************************************************************************)
(* The typed views of installer/analysis.rs and installer/files.rs: which  *)
(* view an instruction gets, by its canonical number, and the operand      *)
(* slots the accessors of that view read.                                  *)
(***************************************************************************)
EXTENDS Integers

EW_CREATEDIR      == 11
EW_EXTRACTFILE    == 20
EW_SHELLEXEC      == 40
EW_EXECUTE        == 41
EW_PLUGIN         == 44
EW_CREATESHORTCUT == 45
EW_DELREG         == 50
EW_WRITEREG       == 51
EW_READREGSTR     == 52
EW_UNINSTALLER    == 62

(* InstructionIter::next                                                   *)
ViewOf(op) ==
  IF op = EW_EXTRACTFILE THEN "File"
  ELSE IF op = EW_PLUGIN THEN "PluginCall"
  ELSE IF op = EW_EXECUTE THEN "Exec"
  ELSE IF op = EW_SHELLEXEC THEN "ShellExec"
  ELSE IF op = EW_WRITEREG THEN "RegWrite"
  ELSE IF op = EW_DELREG THEN "RegDelete"
  ELSE IF op = EW_READREGSTR THEN "RegRead"
  ELSE IF op = EW_CREATESHORTCUT THEN "Shortcut"
  ELSE IF op = EW_UNINSTALLER THEN "Uninstaller"
  ELSE "Other"

(* Mutant: CreateDirectory passes for a SetOutPath.                        *)
selects_any_dir(op, v) == op = EW_CREATEDIR

(* SetOutPath is a CREATEDIR with a second operand.                        *)
selects_out_dir(op, v) == op = EW_CREATEDIR /\ v[1] # 0

PluginStrings      == {0, 1}         (* dll, function                      *)
ExecStrings        == {0}            (* command_line                       *)
ShellExecStrings   == {0, 1, 2}      (* verb, file, params                 *)
RegWriteStrings    == {1, 2}         (* key, value_name                    *)
RegDeleteStrings   == {2, 3}         (* key, value_name                    *)
RegReadStrings     == {2, 3}         (* key, value_name                    *)
ShortcutStrings    == {0, 1, 2}      (* link_path, target, parameters      *)
UninstallerStrings == {0}            (* path                               *)
FileStrings        == {1}            (* name                               *)

(* RegValueType::from_params                                               *)
reg_type(kind, flags) ==
  IF kind = 1 THEN (IF flags = 2 THEN "ExpandStr" ELSE "Str")
  ELSE IF kind = 2 THEN "ExpandStr"
  ELSE IF kind = 3 THEN (IF flags = 7 THEN "MultiStr" ELSE "Bin")
  ELSE IF kind = 4 THEN "Dword"
  ELSE "Unknown"

(* The slots a view reads as strings.  RegWrite::data reads one whatever   *)
(* the value is; a binary one is documented to be an offset there.         *)
StringSlots(op, v) ==
  LET view == ViewOf(op) IN
  CASE view = "PluginCall"  -> PluginStrings
    [] view = "Exec"        -> ExecStrings
    [] view = "ShellExec"   -> ShellExecStrings
    [] view = "RegWrite"    ->
         RegWriteStrings \cup (IF reg_type(v[4], v[5]) = "Bin" THEN {} ELSE {3})
    [] view = "RegDelete"   -> RegDeleteStrings
    [] view = "RegRead"     -> RegReadStrings
    [] view = "Shortcut"    -> ShortcutStrings
    [] view = "Uninstaller" -> UninstallerStrings
    [] view = "File"        -> FileStrings
    [] OTHER                -> {}

(* The slot a view reads as a registry root.                               *)
RootSlots(op) ==
  IF op = EW_WRITEREG THEN {0} ELSE IF op \in {EW_DELREG, EW_READREGSTR} THEN {1} ELSE {}

(* The slot a view reads as an offset into the data block.  NSIS 1.x keeps *)
(* the offset of the uninstaller in its header.                            *)
DataSlots(op, legacy) ==
  IF op = EW_EXTRACTFILE THEN {2}
  ELSE IF op = EW_UNINSTALLER /\ ~legacy THEN {1}
  ELSE {}

is_plugin_call(op, v) == op = EW_PLUGIN /\ v[2] = 0
is_wait(op, v)        == op = EW_EXECUTE /\ v[2] # 0
===============================================================================
