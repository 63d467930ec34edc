--------------------------- MODULE InstructionReplay ---------------------------
(***************************************************************************)
(* installer/analysis.rs, InstructionIter: the output directory is         *)
(* reconstructed by replaying the entries in order, and each file is       *)
(* paired with the directory in effect (dest_path in installer/files.rs).  *)
(*                                                                         *)
(* A string is the sequence of its segments, and a segment is what the     *)
(* code tells apart at its head.  Separators are layout: joining paths is  *)
(* concatenation.  An entry is the operands the replay reads.              *)
(***************************************************************************)
EXTENDS Integers, Sequences

CONSTANTS
  Instructions,   (* What an entry may be.                                 *)
  MaxEntries      (* The entries of an installer.                          *)

(* Variables whose value is a location, which rooted_vars lists.           *)
RootedVars == {"INSTDIR", "EXEDIR", "TEMP", "PLUGINSDIR"}
References == {"OUTDIR", "_OUTDIR"}

(* Literals with a drive letter or a UNC share, other literals, shell      *)
(* folders, other variables, language strings.                             *)
Segments ==
  RootedVars \cup References \cup {"Drive", "Text", "Folder", "Variable", "LangString"}

String == Seq(Segments)

None    == [some |-> FALSE]
Some(x) == [some |-> TRUE, value |-> x]
Option  == {None} \cup [some : {TRUE}, value : String]

(* What read_string makes of an operand: None is its error.                *)
Instruction ==
  [op : {"SetOutPath"}, target : Option]
    \cup [op : {"AssignSaved"}, source : Option, whole : BOOLEAN]
    \cup [op : {"File"}, name : Option, in_bounds : BOOLEAN]
    \cup [op : {"Other", "Malformed"}]

ASSUME InstructionsAssumption == Instructions \subseteq Instruction
ASSUME EntriesAssumption      == MaxEntries \in Nat

VARIABLES
  index,           (* Entries taken.                                       *)
  out_dir,         (* The directory SetOutPath has selected.               *)
  saved_out_dir,   (* The directory saved in $_OUTDIR.                     *)
  item,            (* What next() has returned last.                       *)
  run_dir,         (* History: the directory a run of the same entries has *)
  run_saved        (* selected, and what it has in $_OUTDIR, as far as the *)
                   (* entries tell.                                        *)

vars == <<index, out_dir, saved_out_dir, item, run_dir, run_saved>>

NoItem == [kind |-> "None"]

(* A file that was yielded: its name and the directory paired with it.     *)
File(name, dir) == [kind |-> "File", name |-> name, dir |-> dir]

Starts(s, segments) == s # <<>> /\ Head(s) \in segments

(* Option::unwrap_or_default                                               *)
OrEmpty(o) == IF o.some THEN o.value ELSE <<>>

Init ==
  /\ index = 0 /\ item = NoItem
  /\ out_dir = <<"INSTDIR">> /\ saved_out_dir = None
  /\ run_dir = Some(<<"INSTDIR">>) /\ run_saved = Some(<<>>)

Take(op) == {i \in Instructions : i.op = op}

TakeEntry == index < MaxEntries /\ index' = index + 1

-----------------------------------------------------------------------------
(* A run: the rule of the installer at run time.                           *)

Extended(o, s) == IF o.some THEN Some(o.value \o s) ELSE None

(* The value of a string.  One that refers to a directory after its head   *)
(* is beyond the replay.                                                   *)
RunValue(s) ==
  IF \E k \in 2 .. Len(s) : s[k] \in References THEN None
  ELSE IF Starts(s, {"OUTDIR"})  THEN Extended(run_dir, Tail(s))
  ELSE IF Starts(s, {"_OUTDIR"}) THEN Extended(run_saved, Tail(s))
  ELSE Some(s)

RunSetOutPath(target) == run_dir' = IF target.some THEN RunValue(target.value) ELSE None

(* Only a copy of $OUTDIR says what the variable holds.                    *)
RunAssign(source, whole) ==
  run_saved' = IF whole /\ source = Some(<<"OUTDIR">>) THEN run_dir ELSE None

-----------------------------------------------------------------------------

(* Mutant: $_OUTDIR is read as $OUTDIR.                                    *)
resolved_to_current(target) ==
  IF Starts(target, References) THEN out_dir \o Tail(target) ELSE target

(* set_out_path: the new directory.                                        *)
resolved(target) ==
  IF Starts(target, {"OUTDIR"}) THEN out_dir \o Tail(target)
  ELSE IF Starts(target, {"_OUTDIR"}) THEN OrEmpty(saved_out_dir) \o Tail(target)
  ELSE target

SetOutPath ==
  /\ TakeEntry
  /\ \E i \in Take("SetOutPath") :
       /\ out_dir' = IF i.target.some THEN resolved(i.target.value) ELSE out_dir
       /\ RunSetOutPath(i.target)
  /\ item' = [kind |-> "Other"]
  /\ UNCHANGED <<saved_out_dir, run_saved>>

(* save_out_path                                                           *)
SaveOutPath ==
  /\ TakeEntry
  /\ \E i \in Take("AssignSaved") :
       /\ saved_out_dir' = IF i.whole /\ i.source = Some(<<"OUTDIR">>)
                             THEN Some(out_dir) ELSE None
       /\ RunAssign(i.source, i.whole)
  /\ item' = [kind |-> "Other"]
  /\ UNCHANGED <<out_dir, run_dir>>

(* Mutant: the directory applies to every name.                            *)
out_dir_for_all(name) == Some(out_dir)

out_dir_for(name) ==
  IF name.some /\ Starts(name.value, RootedVars \cup {"Drive"}) THEN None
                                                              ELSE Some(out_dir)

ExtractFile ==
  /\ TakeEntry
  /\ \E i \in Take("File") :
       item' = IF i.in_bounds THEN File(i.name, out_dir_for(i.name))
                              ELSE [kind |-> "Err"]
  /\ UNCHANGED <<out_dir, saved_out_dir, run_dir, run_saved>>

(* Every other instruction, CreateDirectory among them.                    *)
OtherInstruction ==
  /\ TakeEntry
  /\ Take("Other") # {}
  /\ item' = [kind |-> "Other"]
  /\ UNCHANGED <<out_dir, saved_out_dir, run_dir, run_saved>>

(* An entry that does not parse is skipped.                                *)
MalformedEntry ==
  /\ TakeEntry
  /\ Take("Malformed") # {}
  /\ item' = [kind |-> "Err"]
  /\ UNCHANGED <<out_dir, saved_out_dir, run_dir, run_saved>>

Exhausted == index = MaxEntries /\ UNCHANGED vars

Next ==
  \/ SetOutPath \/ SaveOutPath \/ ExtractFile
  \/ OtherInstruction \/ MalformedEntry
  \/ Exhausted

Spec == Init /\ [][Next]_vars

(* ExtractedFile::dest_path, for a name that can be read.                  *)
dest_path(file) ==
  IF file.dir.some THEN file.dir.value \o file.name.value ELSE file.name.value

-----------------------------------------------------------------------------
(* Properties.                                                             *)

(* The types of the variables; as long as the entries tell where a run is, *)
(* the tracked directory does not begin with a reference to a directory.   *)
TypeOK ==
  /\ index \in 0 .. MaxEntries
  /\ out_dir \in String
  /\ saved_out_dir \in Option /\ run_dir \in Option /\ run_saved \in Option
  /\ run_dir.some => ~Starts(out_dir, References)

(* Whenever the entries tell which directory a run has selected, through   *)
(* any sequence of saves, restores and relative paths, it is the tracked   *)
(* one.                                                                    *)
FollowsTheRun == run_dir.some => out_dir = run_dir.value

(* Where a run writes a file whose name begins with a location, with a     *)
(* plain text, or not at all.                                              *)
Roots      == RootedVars \cup {"Drive", "Folder"}
Written(s) == IF Starts(s, Roots) THEN s ELSE run_dir.value \o s

(* A file is reported where the run writes it (out_dir_for names the roots *)
(* a name may have: a location variable, a drive, a share).                *)
FilesGoWhereTheyAreWritten ==
  item.kind = "File" /\ item.name.some /\ run_dir.some =>
    LET name == item.name.value
    IN  name = <<>> \/ Starts(name, RootedVars \cup {"Drive", "Text"}) =>
          dest_path(item) = Written(name)
===============================================================================
