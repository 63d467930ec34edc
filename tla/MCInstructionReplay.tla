-------------------------- MODULE MCInstructionReplay --------------------------
(* Every kind of operand, for InstructionReplay.                            *)
EXTENDS InstructionReplay

CONSTANTS Paths, Names    (* Targets of SetOutPath, names of files.        *)

Readable(S) == {Some(s) : s \in S}

(* A StrCpy to $_OUTDIR: the save, and assignments that are not.            *)
Sources == Readable({<<"OUTDIR">>, <<"OUTDIR", "Text">>, <<"TEMP">>}) \cup {None}

SmallInstructions ==
  [op : {"SetOutPath"}, target : Readable(Paths) \cup {None}]
    \cup [op : {"AssignSaved"}, source : Sources, whole : BOOLEAN]
    \cup [op : {"File"}, name : Readable(Names) \cup {None}, in_bounds : BOOLEAN]
    \cup [op : {"Other", "Malformed"}]

FullPaths     == {<<"TEMP">>, <<"Folder", "Text">>}
RelativePaths == {<<"OUTDIR">>, <<"OUTDIR", "Text">>, <<"_OUTDIR">>, <<"_OUTDIR", "Text">>}
OddPaths      == {<<>>, <<"Text">>, <<"Variable">>, <<"Text", "OUTDIR">>}

AllPaths == FullPaths \cup RelativePaths \cup OddPaths

SmallNames ==
  {<<>>, <<"Text">>, <<"PLUGINSDIR", "Text">>, <<"Drive">>, <<"Folder", "Text">>,
   <<"OUTDIR", "Text">>, <<"LangString">>}
===============================================================================
