--------------------------- MODULE InstructionEffects ---------------------------
(***************************************************************************)
(* opcode/semantics.rs: what an instruction does to the state the runtime  *)
(* keeps between instructions, beyond what its operand slots name.  A set  *)
(* of flags is a set; an effect is a record that combinators extend.       *)
(***************************************************************************)
EXTENDS FiniteSets

(* How an instruction uses a variable or a flag.                           *)
Access == {"Read", "Write", "MayWrite", "Update"}

reads(access)    == access \in {"Read", "Update"}
writes(access)   == access # "Read"

(* exec_flags_t: the flags, and the index by which an operand names each.  *)
ExecFlag ==
  {"AutoClose", "AllUserVar", "ExecError", "Abort", "ExecReboot", "RebootCalled",
   "CurInstType", "PluginApiVersion", "Silent", "InstdirError", "Rtl",
   "ErrorLevel", "AlterRegView", "StatusUpdate"}

NoFlags == {}

(* Nothing beyond the slots.                                               *)
NONE ==
  [outdir |-> "None", instdir |-> "None", hidden |-> "None",
   flags_read |-> NoFlags, flags_written |-> NoFlags, stack |-> "None",
   plugin |-> FALSE, terminates |-> "Never", outside |-> FALSE]

acting_outside(e)         == [e EXCEPT !.outside = TRUE]
reading(e, flags)         == [e EXCEPT !.flags_read = @ \cup flags]
writing(e, flags)         == [e EXCEPT !.flags_written = @ \cup flags]
with_outdir(e, access)    == [e EXCEPT !.outdir = access]
with_stack(e, stack)      == [e EXCEPT !.stack = stack]
with_termination(e, kind) == [e EXCEPT !.terminates = kind]

(* It sets the error flag when it fails.                                   *)
failing(e) == writing(e, {"ExecError"})

(* It reports a status line, which consults SetDetailsPrint.               *)
reporting(e) == reading(e, {"StatusUpdate"})

(* It shows a message box, silently answered and laid out right to left.   *)
asking(e) == reading(e, {"Silent", "Rtl"})

(* It hands the variables, the stack and these flags to a plugin.          *)
of_plugin(e, flags) ==
  [writing(reading(e, flags), flags) EXCEPT !.hidden = "Any", !.plugin = TRUE]
===============================================================================
