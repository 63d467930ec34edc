------------------------ MODULE InstructionReplayProofs ------------------------
(* The replayed directory is the one a run selects, for entries of any      *)
(* kind and number.                                                         *)
EXTENDS InstructionReplay, TLAPS

(* The saved directory agrees too, and a file is paired with the directory  *)
(* in effect.                                                               *)
SavedFollows ==
  run_saved.some =>
    OrEmpty(saved_out_dir) = run_saved.value /\ ~Starts(run_saved.value, References)

PairedNow ==
  item.kind = "File" => item.name \in Option /\ item.dir = out_dir_for(item.name)

Inv == TypeOK /\ FollowsTheRun /\ SavedFollows /\ PairedNow

LEMMA SomeType ==
  ASSUME NEW s \in String
  PROVE  Some(s) \in Option /\ Some(s).some /\ Some(s).value = s
  BY DEF Some, Option

LEMMA NoneType == None \in Option /\ ~None.some
  BY DEF None, Option

LEMMA OptionValue ==
  ASSUME NEW o \in Option
  PROVE  /\ OrEmpty(o) \in String
         /\ o.some => o.value \in String /\ o = Some(o.value)
<1>1. CASE o = None
  BY <1>1, NoneType DEF OrEmpty, String
<1>2. CASE o \in [some : {TRUE}, value : String]
  BY <1>2 DEF OrEmpty, Some
<1> QED
  BY <1>1, <1>2 DEF Option

(* Joining a directory and the rest of a path without references.           *)
LEMMA JoinType ==
  ASSUME NEW d \in String, NEW s \in String, s # <<>>
  PROVE  /\ d \o Tail(s) \in String
         /\ (~Starts(d, References) /\ (\A k \in 2 .. Len(s) : s[k] \notin References))
               => ~Starts(d \o Tail(s), References)
<1>1. d \in Seq(Segments) /\ s \in Seq(Segments) /\ Len(s) \in Nat /\ Len(s) >= 1
  BY DEF String
<1>2. Tail(s) \in Seq(Segments) /\ d \o Tail(s) \in Seq(Segments)
  BY <1>1
<1>3. CASE d # <<>>
  <2>1. Head(d \o Tail(s)) = Head(d)
    BY <1>1, <1>2, <1>3
  <2> QED
    BY <1>2, <1>3, <2>1 DEF Starts, String
<1>4. CASE d = <<>>
  <2>1. d \o Tail(s) = Tail(s)
    BY <1>1, <1>2, <1>4
  <2>2. Tail(s) # <<>> => Len(s) >= 2 /\ Head(Tail(s)) = s[2]
    BY <1>1
  <2> QED
    BY <1>1, <1>2, <2>1, <2>2 DEF Starts, String
<1> QED
  BY <1>3, <1>4

LEMMA InitInv == Init => Inv
<1> SUFFICES ASSUME Init PROVE Inv
  OBVIOUS
<1>1. <<"INSTDIR">> \in String /\ <<>> \in String
  BY DEF String, Segments, RootedVars
<1>2. ~Starts(<<"INSTDIR">>, References) /\ ~Starts(<<>>, References)
  BY DEF Starts, References
<1>3. OrEmpty(None) = <<>>
  BY DEF OrEmpty, None
<1>4. item.kind # "File"
  BY DEF Init, NoItem
<1> QED
  BY <1>1, <1>2, <1>3, <1>4, SomeType, NoneType, EntriesAssumption
  DEF Init, Inv, TypeOK, FollowsTheRun, SavedFollows, PairedNow

(* The new directory is the run's, if the entries tell.                     *)
LEMMA ResolvedFollows ==
  ASSUME Inv, NEW s \in String
  PROVE  /\ resolved(s) \in String /\ RunValue(s) \in Option
         /\ RunValue(s).some => /\ RunValue(s).value = resolved(s)
                                /\ ~Starts(resolved(s), References)
<1>1. /\ out_dir \in String /\ saved_out_dir \in Option
      /\ run_dir \in Option /\ run_saved \in Option
      /\ run_dir.some => ~Starts(out_dir, References)
      /\ run_dir.some => out_dir = run_dir.value
      /\ run_saved.some => /\ OrEmpty(saved_out_dir) = run_saved.value
                           /\ ~Starts(run_saved.value, References)
  BY DEF Inv, TypeOK, FollowsTheRun, SavedFollows
<1>2. OrEmpty(saved_out_dir) \in String
  BY <1>1, OptionValue
<1> DEFINE later == \E k \in 2 .. Len(s) : s[k] \in References
<1>3. CASE Starts(s, {"OUTDIR"})
  <2>1. s # <<>> /\ resolved(s) = out_dir \o Tail(s)
    BY <1>3 DEF Starts, resolved
  <2>2. resolved(s) \in String
    BY <1>1, <2>1, JoinType
  <2>3. RunValue(s) = IF later THEN None ELSE Extended(run_dir, Tail(s))
    BY <1>3 DEF RunValue
  <2>4. CASE ~later /\ run_dir.some
    <3>1. RunValue(s) = Some(resolved(s))
      BY <1>1, <2>1, <2>3, <2>4 DEF Extended
    <3>2. ~Starts(resolved(s), References)
      BY <1>1, <2>1, <2>4, JoinType
    <3> QED
      BY <2>2, <3>1, <3>2, SomeType
  <2>5. CASE ~(~later /\ run_dir.some)
    BY <2>2, <2>3, <2>5, NoneType DEF Extended
  <2> QED
    BY <2>4, <2>5
<1>4. CASE Starts(s, {"_OUTDIR"})
  <2>1. s # <<>> /\ ~Starts(s, {"OUTDIR"})
    BY <1>4 DEF Starts
  <2>2. resolved(s) = OrEmpty(saved_out_dir) \o Tail(s)
    BY <1>4, <2>1 DEF resolved
  <2>3. resolved(s) \in String
    BY <1>2, <2>1, <2>2, JoinType
  <2>4. RunValue(s) = IF later THEN None ELSE Extended(run_saved, Tail(s))
    BY <1>4, <2>1 DEF RunValue
  <2>5. CASE ~later /\ run_saved.some
    <3>1. RunValue(s) = Some(resolved(s))
      BY <1>1, <2>2, <2>4, <2>5 DEF Extended
    <3>2. ~Starts(resolved(s), References)
      BY <1>1, <1>2, <2>1, <2>2, <2>5, JoinType
    <3> QED
      BY <2>3, <3>1, <3>2, SomeType
  <2>6. CASE ~(~later /\ run_saved.some)
    BY <2>3, <2>4, <2>6, NoneType DEF Extended
  <2> QED
    BY <2>5, <2>6
<1>5. CASE ~Starts(s, {"OUTDIR"}) /\ ~Starts(s, {"_OUTDIR"})
  <2>1. resolved(s) = s /\ ~Starts(s, References)
    BY <1>5 DEF resolved, Starts, References
  <2>2. RunValue(s) = IF later THEN None ELSE Some(s)
    BY <1>5 DEF RunValue
  <2> QED
    BY <2>1, <2>2, SomeType, NoneType
<1> QED
  BY <1>3, <1>4, <1>5

LEMMA NextInv ==
  ASSUME Inv, [Next]_vars
  PROVE  Inv'
<1>1. /\ index \in 0 .. MaxEntries /\ out_dir \in String
      /\ saved_out_dir \in Option /\ run_dir \in Option /\ run_saved \in Option
      /\ run_dir.some => ~Starts(out_dir, References)
      /\ FollowsTheRun /\ SavedFollows /\ PairedNow
  BY DEF Inv, TypeOK
<1>2. ASSUME TakeEntry PROVE index' \in 0 .. MaxEntries
  BY <1>1, <1>2, EntriesAssumption DEF TakeEntry
<1>3. CASE SetOutPath
  <2>1. PICK i \in Take("SetOutPath") :
          /\ out_dir' = IF i.target.some THEN resolved(i.target.value) ELSE out_dir
          /\ RunSetOutPath(i.target)
    BY <1>3 DEF SetOutPath
  <2>2. i.target \in Option
    BY InstructionsAssumption DEF Take, Instruction
  <2>3. /\ out_dir' \in String /\ run_dir' \in Option
        /\ run_dir'.some => run_dir'.value = out_dir' /\ ~Starts(out_dir', References)
    <3>1. CASE i.target.some
      <4>1. i.target.value \in String
        BY <2>2, <3>1, OptionValue
      <4>2. out_dir' = resolved(i.target.value) /\ run_dir' = RunValue(i.target.value)
        BY <2>1, <3>1 DEF RunSetOutPath
      <4> QED
        BY <4>1, <4>2, ResolvedFollows
    <3>2. CASE ~i.target.some
      BY <1>1, <2>1, <3>2, NoneType DEF RunSetOutPath
    <3> QED
      BY <3>1, <3>2
  <2>4. UNCHANGED <<saved_out_dir, run_saved>> /\ item'.kind # "File" /\ TakeEntry
    BY <1>3 DEF SetOutPath
  <2> QED
    BY <1>1, <1>2, <2>3, <2>4
    DEF Inv, TypeOK, FollowsTheRun, SavedFollows, PairedNow
<1>4. CASE SaveOutPath
  <2>1. PICK i \in Take("AssignSaved") :
          /\ saved_out_dir' = IF i.whole /\ i.source = Some(<<"OUTDIR">>)
                                THEN Some(out_dir) ELSE None
          /\ RunAssign(i.source, i.whole)
    BY <1>4 DEF SaveOutPath
  <2>2. UNCHANGED <<out_dir, run_dir>> /\ item'.kind # "File" /\ TakeEntry
    BY <1>4 DEF SaveOutPath
  <2>3. saved_out_dir' \in Option /\ run_saved' \in Option
    BY <1>1, <2>1, SomeType, NoneType DEF RunAssign
  <2>4. SavedFollows'
    <3>1. CASE i.whole /\ i.source = Some(<<"OUTDIR">>)
      <4>1. saved_out_dir' = Some(out_dir) /\ run_saved' = run_dir
        BY <2>1, <3>1 DEF RunAssign
      <4>2. OrEmpty(saved_out_dir') = out_dir
        BY <1>1, <4>1, SomeType DEF OrEmpty
      <4> QED
        BY <1>1, <4>1, <4>2 DEF SavedFollows, FollowsTheRun, OrEmpty
    <3>2. CASE ~(i.whole /\ i.source = Some(<<"OUTDIR">>))
      BY <2>1, <3>2, NoneType DEF RunAssign, SavedFollows
    <3> QED
      BY <3>1, <3>2
  <2> QED
    BY <1>1, <1>2, <2>2, <2>3, <2>4 DEF Inv, TypeOK, FollowsTheRun, PairedNow
<1>5. CASE ExtractFile
  <2>1. PICK i \in Take("File") :
          item' = IF i.in_bounds THEN File(i.name, out_dir_for(i.name))
                                 ELSE [kind |-> "Err"]
    BY <1>5 DEF ExtractFile
  <2>2. i.name \in Option
    BY InstructionsAssumption DEF Take, Instruction
  <2>3. UNCHANGED <<out_dir, saved_out_dir, run_dir, run_saved>> /\ TakeEntry
    BY <1>5 DEF ExtractFile
  <2>4. PairedNow'
    BY <2>1, <2>2, <2>3 DEF PairedNow, File, out_dir_for
  <2> QED
    BY <1>1, <1>2, <2>3, <2>4 DEF Inv, TypeOK, FollowsTheRun, SavedFollows
<1>6. CASE OtherInstruction \/ MalformedEntry
  <2>1. /\ UNCHANGED <<out_dir, saved_out_dir, run_dir, run_saved>>
        /\ item'.kind # "File" /\ TakeEntry
    BY <1>6 DEF OtherInstruction, MalformedEntry
  <2> QED
    BY <1>1, <1>2, <2>1 DEF Inv, TypeOK, FollowsTheRun, SavedFollows, PairedNow
<1>7. CASE Exhausted \/ UNCHANGED vars
  <2>1. UNCHANGED vars
    BY <1>7 DEF Exhausted
  <2> QED
    BY <1>1, <2>1
    DEF vars, Inv, TypeOK, FollowsTheRun, SavedFollows, PairedNow, out_dir_for
<1> QED
  BY <1>3, <1>4, <1>5, <1>6, <1>7 DEF Next

LEMMA Inductive == Spec => []Inv
<1>1. Init => Inv
  BY InitInv
<1>2. Inv /\ [Next]_vars => Inv'
  BY NextInv
<1> QED
  BY <1>1, <1>2, PTL DEF Spec

(* Through any sequence of entries, saves, restores and relative paths      *)
(* among them, the tracked directory is the one the run has selected.       *)
THEOREM DirectoryFollowsTheRun == Spec => []FollowsTheRun
<1>1. Inv => FollowsTheRun
  BY DEF Inv
<1> QED
  BY <1>1, Inductive, PTL

(* A file whose name begins with a location the doc names, or with none, is *)
(* reported where the run writes it.                                        *)
THEOREM FilesAreReportedWhereWritten == Spec => []FilesGoWhereTheyAreWritten
<1>1. Inv => FilesGoWhereTheyAreWritten
  <2> SUFFICES ASSUME Inv, item.kind = "File", item.name.some, run_dir.some,
                      item.name.value = <<>>
                        \/ Starts(item.name.value, RootedVars \cup {"Drive", "Text"})
               PROVE  dest_path(item) = Written(item.name.value)
    BY DEF FilesGoWhereTheyAreWritten
  <2> DEFINE name == item.name.value
  <2>1. item.dir = out_dir_for(item.name) /\ out_dir = run_dir.value
    BY DEF Inv, PairedNow, FollowsTheRun
  <2>2. CASE Starts(name, RootedVars \cup {"Drive"})
    <3>1. ~item.dir.some
      BY <2>1, <2>2, NoneType DEF out_dir_for
    <3>2. Starts(name, Roots)
      BY <2>2 DEF Starts, Roots
    <3> QED
      BY <3>1, <3>2 DEF dest_path, Written
  <2>3. CASE ~Starts(name, RootedVars \cup {"Drive"})
    <3>1. item.dir = Some(out_dir)
      BY <2>1, <2>3 DEF out_dir_for
    <3>2. item.dir.some /\ item.dir.value = out_dir
      BY <3>1 DEF Some
    <3>3. ~Starts(name, Roots)
      BY <2>3 DEF Starts, Roots
    <3> QED
      BY <2>1, <3>2, <3>3 DEF dest_path, Written
  <2> QED
    BY <2>2, <2>3
<1> QED
  BY <1>1, Inductive, PTL
===============================================================================
