------------------------------- MODULE EntryReading -------------------------------
(***************************************************************************)
(* How the entry block of an installer is read: NsisInstaller::parse works *)
(* out which compiler wrote it (steps 5b to 5e), then EntryIter yields the *)
(* entries and every reader resolves their numbers under that build.       *)
(*                                                                         *)
(* The build is hidden: the file holds the numbers it gave the             *)
(* instructions, and literals in its stub unless that was altered.  A      *)
(* string is a sequence of segments: a variable is its index, a literal is *)
(* a negative number.                                                      *)
(***************************************************************************)
EXTENDS Sequences, FiniteSets, OpcodeNumbering, InstructionViews

Table == INSTANCE OpcodeLegacy
Flow  == INSTANCE ScriptFlow

CONSTANTS
  Builds,      (* The compilers an installer may come from.                *)
  Codes,       (* The instructions each of them may have compiled.         *)
  Strings      (* The string table: offsets to strings.                    *)

NsisVersion     == {"V1", "V2", "V3", "Park"}
Nsis2SubVersion == {"UpTo203", "UpTo225", "From226"}

(* An instruction: its number in the canonical numbering (of NSIS 1.x: in  *)
(* its own), its operands, and which of them were compiled from strings.   *)
(* sub is the Park release, vars the variable layout; log: the compiler    *)
(* has the log instructions.                                               *)
Build ==
  [version : NsisVersion, sub : ParkSubVersion, vars : Nsis2SubVersion, log : BOOLEAN]

Operands == [Table!Slots -> Int]

ASSUME BuildsAssumption == Builds \subseteq Build
ASSUME CodesAssumption  ==
  \A b \in Builds : \A code \in Codes[b] : \A k \in DOMAIN code :
    /\ code[k].op \in Nat /\ code[k].values \in Operands
    /\ code[k].strings \subseteq Table!Slots
ASSUME StringsAssumption == \A o \in DOMAIN Strings : Strings[o] \in Seq(Int)

VARIABLES
  build, stub, code,   (* The file: its compiler, whether its stub can be  *)
                       (* read, and the instructions compiled.             *)
  entry_count,         (* The count of the block header.                   *)
  phase,               (* The next step of the parse, then "Read".         *)
  park_sub, log_build, nsis2_sub,
  index,               (* Entries taken.                                   *)
  item                 (* What the iterator returned last.                 *)

file == <<build, stub, code, entry_count>>
vars == <<file, phase, park_sub, log_build, nsis2_sub, index, item>>

NoSub  == "None"
NoItem == [kind |-> "None"]
TooShort == [kind |-> "TooShort"]

-----------------------------------------------------------------------------
(* What the file holds.                                                    *)

(* The number the compiler stored for an instruction.                      *)
stored(op) ==
  IF build.version = "Park" THEN park_stores(op, build.sub, build.log)
  ELSE IF build.version # "V1" /\ build.log THEN log_stores(op)
  ELSE op

Entry(k) == [which |-> stored(code[k].op), offsets |-> code[k].values]

(* The scans stop where the header data ends; the iterator reports it.     *)
Entries == {Entry(k) : k \in DOMAIN code}

has_string(o) == o \in DOMAIN Strings

(* RuntimeFeatures::of: what the stub says.                                *)
logs        == stub /\ build.log
reads_fonts == stub /\ build.version = "Park" /\ FontInserts(build.sub) > 0

Init ==
  /\ build \in Builds /\ stub \in BOOLEAN /\ code \in Codes[build]
  /\ entry_count \in {Len(code), Len(code) + 1}
  /\ phase = "ParkSub" /\ index = 0 /\ item = NoItem
  /\ park_sub = NoSub /\ log_build = FALSE /\ nsis2_sub = NoSub

-----------------------------------------------------------------------------
(* Step 5c: the Park release.                                              *)

(* RuntimeFeatures::park_sub                                               *)
features_park_sub == IF ~reads_fonts THEN "Park1" ELSE IF logs THEN "Park3" ELSE "Park2"

INSTDIR == 21

(* WriteUninstaller stores its name and, beside it, its full path.         *)
names_full_path(v) ==
  /\ has_string(v[0]) /\ has_string(v[3])
  /\ Strings[v[3]] = <<INSTDIR>> \o Strings[v[0]]

(* Mutant: any four operands in the range pass for a WriteUninstaller.     *)
LooksLikeUninstaller(e) ==
  /\ e.which \in EW_WRITEUNINSTALLER .. EW_WRITEUNINSTALLER + 4
  /\ e.offsets[0] > 1 /\ e.offsets[3] > 1 /\ e.offsets[4] = 0 /\ e.offsets[5] = 0

IsUninstaller(e) ==
  /\ e.which \in EW_WRITEUNINSTALLER .. EW_WRITEUNINSTALLER + 4
  /\ e.offsets[0] > 1 /\ e.offsets[3] > 1 /\ e.offsets[4] = 0 /\ e.offsets[5] = 0
  /\ names_full_path(e.offsets)

(* How many instructions the entries show to be inserted.                  *)
Inserts == {e.which - EW_WRITEUNINSTALLER : e \in {x \in Entries : IsUninstaller(x)}}

detect_park_sub_version ==
  IF Inserts = {} THEN NoSub
  ELSE IF 4 \in Inserts THEN "Park3"
  ELSE IF 3 \in Inserts THEN "Park2"
  ELSE "Park1"

DetectParkSub ==
  /\ phase = "ParkSub" /\ phase' = "LogBuild"
  /\ park_sub' = IF build.version # "Park" THEN NoSub
                 ELSE IF detect_park_sub_version # NoSub THEN detect_park_sub_version
                 ELSE features_park_sub
  /\ UNCHANGED <<file, log_build, nsis2_sub, index, item>>

-----------------------------------------------------------------------------
(* Step 5d: the log instructions.                                          *)

NoRow == [op |-> "None", count |-> 0]

lookup(which) ==
  IF which \in 0 .. Len(Table!OPCODES) - 1 THEN Table!OPCODES[which + 1] ELSE NoRow

standard_layout(raw) == IF raw >= EW_LOG THEN NoRow ELSE lookup(raw)
log_layout(raw) == IF raw > EW_LOG THEN NoRow ELSE lookup(normalize_log_opcode(raw))

(* The slots an entry uses.                                                *)
used(e) == {slot \in Table!Slots : e.offsets[slot] # 0}

(* find_bad_opcode: an entry contradicts a layout that has no such opcode, *)
(* or one that takes fewer parameters.  Only whether one does is used.     *)
Fits(e, row) == row # NoRow /\ \A slot \in used(e) : slot < row.count

standard_is_bad == \E e \in Entries : ~Fits(e, standard_layout(e.which))
log_is_bad      == \E e \in Entries : ~Fits(e, log_layout(e.which))

uses_shiftable_opcode == \E e \in Entries : e.which >= EW_SECTIONSET

detect_log_build == uses_shiftable_opcode /\ standard_is_bad /\ ~log_is_bad

DetectLogBuild ==
  /\ phase = "LogBuild" /\ phase' = "Nsis2Sub"
  /\ log_build' = \/ build.version = "Park" /\ logs
                  \/ build.version \in {"V2", "V3"} /\ (logs \/ detect_log_build)
  /\ UNCHANGED <<file, park_sub, nsis2_sub, index, item>>

-----------------------------------------------------------------------------
(* Step 5e: the variable layout of NSIS 2.                                 *)

HWNDPARENT_225  == 27
OUTDIR          == 22
SPEC_OUTDIR_225 == 29

is_variable(o, index_of) == has_string(o) /\ Strings[o] = <<index_of>>

(* A dialog item of the window, at the index it had before 2.26.           *)
IsOldDialogItem(e) ==
  e.which = EW_GETDLGITEM /\ is_variable(e.offsets[1], HWNDPARENT_225)

(* Mutant: a variable the save assigns is no longer looked at.             *)
IsAnyDirectorySave(e) ==
  /\ e.which = EW_ASSIGNVAR
  /\ e.offsets[2] = 0 /\ e.offsets[3] = 0 /\ is_variable(e.offsets[1], OUTDIR)

(* StrCpy $_OUTDIR $OUTDIR, at the index it had before 2.26.               *)
IsOldDirectorySave(e) ==
  /\ e.which = EW_ASSIGNVAR /\ e.offsets[0] = SPEC_OUTDIR_225
  /\ e.offsets[2] = 0 /\ e.offsets[3] = 0 /\ is_variable(e.offsets[1], OUTDIR)

detect_nsis2_sub_version ==
  IF \E e \in Entries : IsOldDialogItem(e) /\ e.offsets[0] = SPEC_OUTDIR_225
    THEN "UpTo203"
  ELSE IF \E e \in Entries : IsOldDialogItem(e) \/ IsOldDirectorySave(e)
    THEN "UpTo225"
  ELSE "From226"

DetectNsis2Sub ==
  /\ phase = "Nsis2Sub" /\ phase' = "Read"
  /\ nsis2_sub' = IF build.version = "V2" THEN detect_nsis2_sub_version ELSE NoSub
  /\ UNCHANGED <<file, park_sub, log_build, index, item>>

-----------------------------------------------------------------------------
(* Reading: EntryIter, and how every reader resolves an entry.             *)

normalize_opcode(raw) ==
  IF raw < 0 THEN raw
  ELSE IF park_sub # NoSub THEN normalize_park_opcode(raw, park_sub, log_build)
  ELSE IF log_build THEN normalize_log_opcode(raw)
  ELSE IF build.version = "V1" THEN Table!canonical_opcode(raw)
  ELSE raw

lookup_v1(which) ==
  IF which < Table!EW_V1_GETLABELADDR THEN Table!OPCODES_V1[which + 1] ELSE NoRow

lookup_for(which, version) ==
  IF version \in {"V2", "Park"} /\ which = EW_LOADANDSETIMAGE
    THEN Table!SET_BRANDING_IMAGE
  ELSE IF version \in {"V2", "Park"} /\ which \in {EW_GETOSINFO, EW_RESERVEDOPCODE}
    THEN NoRow
  ELSE lookup(which)

resolve_opcode(raw) ==
  IF raw < 0 THEN NoRow
  ELSE IF build.version = "V1" THEN lookup_v1(raw)
  ELSE lookup_for(normalize_opcode(raw), build.version)

param_layout(raw, v) ==
  IF build.version = "V1" THEN Table!param_layout_v1(resolve_opcode(raw), v)
  ELSE Table!param_layout(resolve_opcode(raw), v)

ReadEntry ==
  /\ phase = "Read" /\ index < entry_count /\ index' = index + 1
  /\ item' = IF index' \in DOMAIN code
               THEN LET e == Entry(index') IN
                    [kind |-> "Entry", op |-> normalize_opcode(e.which),
                     row |-> resolve_opcode(e.which), which |-> e.which,
                     offsets |-> e.offsets]
               ELSE TooShort
  /\ UNCHANGED <<file, phase, park_sub, log_build, nsis2_sub>>

Done == phase = "Read" /\ index = entry_count /\ UNCHANGED vars

Next == DetectParkSub \/ DetectLogBuild \/ DetectNsis2Sub \/ ReadEntry \/ Done

Spec == Init /\ [][Next]_vars

-----------------------------------------------------------------------------
(* What an installer may hold: what the code takes for granted of the      *)
(* compilers, of an instruction i one of them stored under the build b.    *)

RowOf(b, op) ==
  IF b.version = "V1" THEN lookup_v1(op) ELSE lookup_for(op, b.version)

LayoutOf(b, i) ==
  IF b.version = "V1" THEN Table!param_layout_v1(RowOf(b, i.op), i.values)
  ELSE Table!param_layout(RowOf(b, i.op), i.values)

(* The slots whose operand is set and is read as a string.                 *)
SetStrings(layout, v) ==
  {slot \in Table!Slots :
     v[slot] # 0 /\ slot < layout.count /\ Table!is_string(layout.types[slot])}

(* A compiler stores its own instructions, and the operands they have.     *)
IsItsOwn(b, i) ==
  /\ b.version \in {"V2", "V3"} => i.op \in StandardOpcodes(b.log)
  /\ b.version = "Park" => i.op \in ParkOpcodes(b.sub, b.log)
  /\ b.version # "V1" => Fits([offsets |-> i.values], lookup(i.op))
  /\ RowOf(b, i.op) # NoRow
  /\ i.strings = SetStrings(LayoutOf(b, i), i.values)

(* WriteUninstaller, and nothing else, is stored with "the full path the   *)
(* compiler always writes beside the name".                                *)
NamesItsPath(b, i) ==
  b.version = "Park" =>
    (i.op = EW_WRITEUNINSTALLER <=>
       /\ i.values[0] > 1 /\ i.values[3] > 1 /\ i.values[4] = 0 /\ i.values[5] = 0
       /\ names_full_path(i.values))

(* From 2.26 on variable 27 is a path, which is no window, and 29 is the   *)
(* window, which is not assigned; "only 2.03 and earlier put $_OUTDIR in a *)
(* dialog-item handle".                                                    *)
UsesItsVariables(b, i) ==
  /\ b.version = "V2" /\ b.vars = "From226" =>
       /\ i.op = EW_GETDLGITEM => ~is_variable(i.values[1], HWNDPARENT_225)
       /\ i.op = EW_ASSIGNVAR => i.values[0] # SPEC_OUTDIR_225
  /\ b.version = "V2" /\ b.vars = "UpTo225" /\ i.op = EW_GETDLGITEM =>
       i.values[0] # SPEC_OUTDIR_225

(* "Park 3 added logging."                                                 *)
ReleasesAssumption ==
  \A b \in Builds : b.version = "Park" => (b.log <=> b.sub = "Park3")
ASSUME ReleasesAssumption

InstructionsAssumption ==
  \A b \in Builds : \A c \in Codes[b] : \A k \in DOMAIN c :
    IsItsOwn(b, c[k]) /\ NamesItsPath(b, c[k]) /\ UsesItsVariables(b, c[k])
ASSUME InstructionsAssumption

-----------------------------------------------------------------------------
(* What reading must come to.                                              *)

(* The control flow classify_opcode knows, by canonical number.            *)
FlowOpcodes ==
  {<<1, "RET">>, <<2, "NOP">>, <<3, "ABORT">>, <<4, "QUIT">>, <<5, "CALL">>,
   <<12, "IFFILEEXISTS">>, <<14, "IFFLAG">>, <<22, "MESSAGEBOX">>, <<26, "STRCMP">>,
   <<28, "INTCMP">>, <<34, "ISWINDOW">>}

flow_of(op) ==
  IF \E f \in FlowOpcodes : f[1] = op
    THEN (CHOOSE f \in FlowOpcodes : f[1] = op)[2]
    ELSE "OTHER"

(* An entry of a logging compiler that no standard one can have written: a *)
(* section text, an OS query, or an instruction past the end of the table. *)
TellsLogging(k) ==
  \/ code[k].op = EW_SECTIONSET /\ code[k].values[4] # 0
  \/ code[k].op = EW_GETOSINFO /\ \E slot \in 2 .. 5 : code[k].values[slot] # 0
  \/ code[k].op = EW_FGETWS

(* The file shows which compiler wrote it: its stub can be read, or an     *)
(* entry tells, or nothing was inserted.                                   *)
Evident ==
  \/ stub
  \/ /\ build.version \in {"V2", "V3"}
     /\ build.log => \E k \in DOMAIN code : TellsLogging(k)
  \/ /\ build.version = "Park" /\ ~build.log
     /\ build.sub = "Park1" \/ \E k \in DOMAIN code : code[k].op = EW_WRITEUNINSTALLER

IsRead == item.kind = "Entry" /\ item.row # NoRow

Layout == param_layout(item.which, item.offsets)

ReadAsStrings == SetStrings(Layout, item.offsets)

(* Entries are compared in the canonical numbering.                        *)
Numbered(op) == IF build.version = "V1" THEN Table!canonical_opcode(op) ELSE op

(* Whatever the compiler, an entry that the file shows how to read is read *)
(* as the instruction that was compiled, and the operands read as strings  *)
(* are exactly those that were compiled from strings.                      *)
EntriesReadAsWritten ==
  Evident /\ item.kind = "Entry" =>
    /\ item.op = Numbered(code[index].op) /\ item.row # NoRow
    /\ ReadAsStrings = code[index].strings

Age(vars_of) == IF vars_of = "UpTo203" THEN 0 ELSE IF vars_of = "UpTo225" THEN 1 ELSE 2

(* Detection errs towards the plain build only: no file is taken for one   *)
(* with instructions its compiler did not have, or for an older NSIS 2.    *)
BuildIsNotOverstated ==
  /\ log_build => build.log
  /\ park_sub # NoSub => FontInserts(park_sub) <= FontInserts(build.sub)
  /\ nsis2_sub # NoSub => Age(nsis2_sub) >= Age(build.vars)

Edges ==
  Flow!classify_opcode([op |-> flow_of(item.op), args |-> item.offsets],
                       index - 1, entry_count)

EdgeSlots == {edge.operand : edge \in Edges} \ {Flow!NoOperand}
Jumps     == Table!slots_of(Layout, {"Jump"})

(* The control-flow analysis follows an operand exactly where the opcode   *)
(* tables declare a jump, whatever form the instruction takes, and an      *)
(* entry ends its code exactly where the tables say it always does.        *)
(* REBOOT without its magic number is an entry no compiler writes.         *)
FlowFollowsTheLayout ==
  IsRead =>
    /\ {slot \in Jumps : item.offsets[slot] # 0} \subseteq EdgeSlots
    /\ EdgeSlots \subseteq Jumps
    /\ item.row.op \notin {"RET", "REBOOT"} =>
         ((\E e \in Edges : e.target = Flow!ExitTarget /\ e.operand = Flow!NoOperand)
            <=> Layout.effects.terminates = "Always")

(* The entry writes a REG_MULTI_SZ to the registry.                        *)
IsMultiString ==
  item.op = EW_WRITEREG /\ reg_type(item.offsets[4], item.offsets[5]) = "MultiStr"

(* "For Str, ExpandStr, and MultiStr, this is the string data": RegWrite    *)
(* reads the data of a REG_MULTI_SZ where the table has a string.          *)
MultiStringsAreStrings ==
  IsRead /\ IsMultiString => Table!is_string(Layout.types[3])

(* Every typed view reads each operand as what the layout of the entry     *)
(* declares it to be, the replay follows exactly the entries that set the  *)
(* output directory, and a plugin call is what runs a plugin.  The data of *)
(* a REG_MULTI_SZ is left out: see MultiStringsAreStrings.                 *)
ViewsReadTheirSlots ==
  IsRead =>
    LET kind(slot) == Layout.types[slot].kind IN
    /\ \A slot \in StringSlots(item.op, item.offsets) :
         \/ Table!is_string(Layout.types[slot]) \/ kind(slot) = "Unused"
         \/ slot = 3 /\ IsMultiString
    /\ \A slot \in RootSlots(item.op) : kind(slot) = "Int"
    /\ \A slot \in DataSlots(item.op, build.version = "V1") : kind(slot) = "DataOffset"
    /\ selects_out_dir(item.op, item.offsets) <=> Layout.effects.outdir = "Write"
    /\ is_plugin_call(item.op, item.offsets) <=> Layout.effects.plugin
    /\ item.op = EW_EXECUTE /\ ~is_wait(item.op, item.offsets) =>
         ~\E slot \in Table!Slots : Table!is_variable(Layout.types[slot])
===============================================================================
