------------------------------ MODULE ScriptFlow ------------------------------
(***************************************************************************)
(* How one NSIS instruction passes control on: the pure half of            *)
(* installer/script.rs.  Every operator takes the instruction, its index   *)
(* and the number of entries of the script, as classify_opcode does.       *)
(*                                                                         *)
(* Data is reduced to what control flow can tell apart: an instruction is  *)
(* its canonical opcode (every opcode without control flow is "OTHER") and *)
(* its six operands; the condition of a branch is determined by the opcode *)
(* and the operand slot, so an edge keeps the slot only.                   *)
(***************************************************************************)
EXTENDS Integers

MaxU16 == 65535

Terminators == {"RET", "ABORT", "QUIT"}

(* Mutant: a comparison of integers forgets its third target.              *)
BranchSlotsOfStrCmp ==
  ({"IFFILEEXISTS", "ISWINDOW"} \X {1, 2}) \cup ({"IFFLAG"} \X {0, 1})
    \cup ({"STRCMP", "INTCMP"} \X {2, 3})

(* The operand slots a conditional opcode branches through.                *)
BranchSlots ==
  ({"IFFILEEXISTS", "ISWINDOW"} \X {1, 2}) \cup ({"IFFLAG"} \X {0, 1})
    \cup ({"STRCMP"} \X {2, 3}) \cup ({"INTCMP"} \X {2, 3, 4})

Opcodes ==
  {"RET", "ABORT", "QUIT", "NOP", "CALL", "IFFILEEXISTS", "IFFLAG", "MESSAGEBOX",
   "STRCMP", "INTCMP", "ISWINDOW", "OTHER"}

Slots == 0 .. 5
Instruction == [op : Opcodes, args : [Slots -> Int]]

(* Option::None for an operand and for a block.                            *)
NoOperand == -1
NoBlock   == -1

EntryTarget(e)   == [tag |-> "Entry", value |-> e]
DynamicTarget(v) == [tag |-> "DynamicVariable", value |-> v]
InvalidTarget(r) == [tag |-> "Invalid", value |-> r]
ExitTarget       == [tag |-> "Exit", value |-> 0]
NoTarget         == [tag |-> "None", value |-> 0]

CallKinds == {"CallFunction", "CallLabel"}
EdgeKinds == CallKinds \cup Terminators \cup {"Fallthrough", "Jump", "Branch"}

-----------------------------------------------------------------------------

(* A root operand (section code, callback, page handler) is a plain index. *)
direct_index(raw, n) == 0 <= raw /\ raw < n

(* Mutant: a one-based target may be one past the last entry.              *)
resolve_one_past(raw, n) ==
  IF raw = 0 THEN NoTarget
  ELSE IF raw \in 1 .. n + 1 THEN EntryTarget(raw - 1)
  ELSE InvalidTarget(raw)

(* A branch operand: positive is one-based, negative names a variable.     *)
resolve(raw, n) ==
  IF raw = 0 THEN NoTarget
  ELSE IF raw \in 1 .. n THEN EntryTarget(raw - 1)
  ELSE IF raw < 0 /\ -raw - 1 <= MaxU16 THEN DynamicTarget(-raw - 1)
  ELSE InvalidTarget(raw)

(* A zero branch operand means "go on with the next entry".                *)
branch_target(raw, i, n) ==
  IF raw # 0 THEN resolve(raw, n)
  ELSE IF i + 1 < n THEN EntryTarget(i + 1)
  ELSE ExitTarget

(* The slots an instruction branches through; a message box only has the   *)
(* branches whose button or target is set.                                 *)
MessageBoxSlots(ins) == {t \in {3, 5} : ins.args[t - 1] # 0 \/ ins.args[t] # 0}

TakenOperands(ins) ==
  {t \in Slots : <<ins.op, t>> \in BranchSlots}
    \cup {t \in MessageBoxSlots(ins) : ins.op = "MESSAGEBOX"}

IsJump(ins) == ins.op = "NOP" /\ ins.args[0] # 0

(* Mutant: a message box only leaves through its buttons.                  *)
fallthrough_without_message_box(ins) ==
  \/ ins.op \in {"CALL", "OTHER"}
  \/ ins.op = "NOP" /\ ~IsJump(ins)

add_fallthrough(ins) ==
  \/ ins.op \in {"CALL", "MESSAGEBOX", "OTHER"}
  \/ ins.op = "NOP" /\ ~IsJump(ins)

Edge(i, slot, kind, target) ==
  [source |-> i, operand |-> slot, kind |-> kind, target |-> target]

CallKind(ins) == IF ins.args[1] = 1 THEN "CallLabel" ELSE "CallFunction"

ExitEdge(ins, i) ==
  {Edge(i, NoOperand, k, ExitTarget) : k \in {ins.op} \cap Terminators}

JumpEdge(ins, i, n) ==
  IF IsJump(ins) THEN {Edge(i, 0, "Jump", resolve(ins.args[0], n))} ELSE {}

CallEdge(ins, i, n) ==
  IF ins.op = "CALL" THEN {Edge(i, 0, CallKind(ins), resolve(ins.args[0], n))} ELSE {}

BranchEdges(ins, i, n) ==
  {Edge(i, t, "Branch", branch_target(ins.args[t], i, n)) :
     t \in TakenOperands(ins)}

FallthroughEdge(ins, i, n) ==
  IF add_fallthrough(ins) /\ i + 1 < n
    THEN {Edge(i, NoOperand, "Fallthrough", EntryTarget(i + 1))}
    ELSE {}

classify_opcode(ins, i, n) ==
  ExitEdge(ins, i) \cup JumpEdge(ins, i, n) \cup CallEdge(ins, i, n)
    \cup BranchEdges(ins, i, n) \cup FallthroughEdge(ins, i, n)

(* After these the next entry starts a block of its own.                   *)
starts_next_block(ins) == ins.op # "OTHER" /\ (ins.op = "NOP" => IsJump(ins))

StructuralKinds == {"Section", "Callback", "Page"}
RootKinds == StructuralKinds
               \cup {"EntryZero", "CalledFunction", "CalledLabel", "Label"}

(* Mutant: the target of a branch is no label.                             *)
RootOfEdgeNotBranch ==
  {<<"Jump", "Label">>, <<"CallLabel", "CalledLabel">>,
   <<"CallFunction", "CalledFunction">>}

(* The root a static edge gives its target.                                *)
RootOfEdge == {<<"Jump", "Label">>, <<"Branch", "Label">>,
               <<"CallLabel", "CalledLabel">>, <<"CallFunction", "CalledFunction">>}

(* Every root but a label is entered from outside its own control flow.    *)
starts_function(root) == root.kind # "Label"
===============================================================================
