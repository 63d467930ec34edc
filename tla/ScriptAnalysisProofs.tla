------------------------- MODULE ScriptAnalysisProofs -------------------------
(***************************************************************************)
(* Theorems about ScriptAnalysis, for every set of scripts.                *)
(***************************************************************************)
EXTENDS ScriptAnalysis, WellFoundedInduction, FiniteSetTheorems, TLAPS

Targets == [tag : {"Entry", "DynamicVariable", "Invalid", "Exit", "None"},
            value : Int]

GoodTarget(t, n) == t \in Targets /\ (t.tag = "Entry" => t.value \in 0 .. n - 1)

(* resolve and branch_target never name an entry outside the script.       *)
LEMMA ResolveInScript ==
  ASSUME NEW n \in Nat, NEW i \in 0 .. n - 1, NEW raw \in Int
  PROVE  GoodTarget(resolve(raw, n), n) /\ GoodTarget(branch_target(raw, i, n), n)
<1>1. GoodTarget(resolve(raw, n), n)
  BY DEF GoodTarget, Targets, resolve, NoTarget, EntryTarget, DynamicTarget,
         InvalidTarget, MaxU16
<1>2. GoodTarget(branch_target(raw, i, n), n)
  BY <1>1 DEF GoodTarget, Targets, branch_target, EntryTarget, ExitTarget
<1>. QED BY <1>1, <1>2

(* An edge of an instruction starts at that instruction, and its static    *)
(* target is an entry of the script.                                       *)
LEMMA FlowType ==
  ASSUME NEW n \in Nat, NEW i \in 0 .. n - 1, NEW ins \in Instruction,
         NEW x \in classify_opcode(ins, i, n)
  PROVE  /\ x.source = i
         /\ x \in [source : {i}, operand : Slots \cup {NoOperand},
                   kind : EdgeKinds, target : Targets]
         /\ x.target.tag = "Entry" => x.target.value \in 0 .. n - 1
<1> DEFINE Kinds == EdgeKinds
           E(s, k, t) == /\ s \in Slots \cup {NoOperand}
                         /\ k \in EdgeKinds
                         /\ GoodTarget(t, n)
<1>1. SUFFICES \E s, k, t : E(s, k, t) /\ x = Edge(i, s, k, t)
  BY <1>1 DEF Edge, GoodTarget
<1>2. \A s \in Slots : ins.args[s] \in Int
  BY DEF Instruction
<1>3. 0 \in Slots /\ TakenOperands(ins) \subseteq Slots
  BY DEF TakenOperands, MessageBoxSlots, Slots
<1>4. GoodTarget(resolve(ins.args[0], n), n)
  BY <1>2, <1>3, ResolveInScript
<1>5. GoodTarget(ExitTarget, n)
  BY DEF GoodTarget, Targets, ExitTarget
<1>6. CASE x \in ExitEdge(ins, i)
  BY <1>5, <1>6 DEF ExitEdge, EdgeKinds
<1>7. CASE x \in JumpEdge(ins, i, n)
  BY <1>3, <1>4, <1>7 DEF JumpEdge, EdgeKinds
<1>8. CASE x \in CallEdge(ins, i, n)
  BY <1>3, <1>4, <1>8 DEF CallEdge, CallKind, EdgeKinds, CallKinds
<1>9. CASE x \in BranchEdges(ins, i, n)
  BY <1>2, <1>3, <1>9, ResolveInScript DEF BranchEdges, EdgeKinds
<1>10. CASE x \in FallthroughEdge(ins, i, n)
  BY <1>10 DEF FallthroughEdge, EdgeKinds, EntryTarget, GoodTarget, Targets
<1>. QED BY <1>6, <1>7, <1>8, <1>9, <1>10 DEF classify_opcode

(* Whatever an instruction is, the next entry starts a block: it falls     *)
(* through to it, or the builder splits after it.                          *)
LEMMA NextEntryLeads ==
  ASSUME NEW n \in Nat, NEW i \in 0 .. n - 1, NEW ins \in Instruction, i + 1 < n,
         ~starts_next_block(ins)
  PROVE  i + 1 \in StaticTargets(classify_opcode(ins, i, n))
<1>1. add_fallthrough(ins)
  BY DEF starts_next_block, add_fallthrough, IsJump
<1>2. Edge(i, NoOperand, "Fallthrough", EntryTarget(i + 1)) \in classify_opcode(ins, i, n)
  BY <1>1 DEF classify_opcode, FallthroughEdge
<1>. QED BY <1>2 DEF StaticTargets, EntryEdges, Edge, EntryTarget

-----------------------------------------------------------------------------
(* The inductive invariant, in parts.                                      *)

(* Before the blocks exist nothing that speaks of blocks does.             *)
Unbuilt ==
  phase \in {"roots", "scan", "blocks", "failed"} =>
    /\ edges = {} /\ todo = {} /\ seen = {} /\ frontier = {}
    /\ functions = <<>> /\ pass = "functions"

(* Every entry ends up a leader, so a block is its one entry.              *)
Leading ==
  /\ phase = "roots" => index = 0
  /\ phase = "scan" => \A e \in Entries : e <= index => e \in leaders
  /\ phase \notin {"roots", "scan", "failed"} => leaders = Entries
  /\ Built => \A e \in Entries : blockOf[e] = e

Foundation == TypeOK /\ Unbuilt /\ Leading

LEMMA ScriptFacts ==
  ASSUME script \in Scripts
  PROVE  /\ entry_count \in Nat
         /\ script.code \in [Entries -> Instruction]
         /\ script.hooks \subseteq [kind : StructuralKinds, raw : Int]
BY ScriptsAssumption DEF IsScript, entry_count, Entries

LEMMA SameScript ==
  ASSUME [Next]_vars
  PROVE  script' = script /\ entry_count' = entry_count /\ Entries' = Entries
<1>1. script' = script
  BY DEF Next, vars, Fail, CollectRoots, ClassifyEntry, EndScan, BuildBlocks,
         StartFunction, StartSearch, BeginLabels, SkipCoveredLabel,
         StartOrphanLabel, Search, SearchBlock, PushFunction, EndFunctions,
         assign_block_functions, Finished
<1>. QED BY <1>1 DEF entry_count, Entries

LEMMA InitFoundation == Init => Foundation
<1>. SUFFICES ASSUME Init PROVE Foundation
  OBVIOUS
<1>. USE DEF Init
<1>1. entry_count \in Nat
  BY ScriptFacts
<1>2. TypeOK
  BY <1>1 DEF TypeOK, Phases, Built
<1>3. Unbuilt
  BY DEF Unbuilt
<1>4. Leading
  BY DEF Leading, Built
<1>. QED BY <1>2, <1>3, <1>4 DEF Foundation

(* The scan finds entries of the script only, whatever the instruction.    *)
LEMMA ScanTypes ==
  ASSUME Foundation, ClassifyEntry
  PROVE  /\ roots' \subseteq [entry : Entries, kind : RootKinds]
         /\ leaders' \subseteq Entries
         /\ \A x \in pending' : IsPending(x)
         /\ \A d \in diagnostics' : d.entry \in Entries /\ d.raw \in Int
         /\ index' \in 0 .. entry_count
<1> DEFINE ins  == script.code[index]
           flow == classify_opcode(ins, index, entry_count)
<1>1. entry_count \in Nat /\ index \in 0 .. entry_count - 1 /\ ins \in Instruction
  BY ScriptFacts DEF Foundation, TypeOK, ClassifyEntry, Entries
<1>2. \A x \in flow : /\ x.source = index /\ x \in Edges
                      /\ x.target.tag = "Entry" => x.target.value \in Entries
  BY <1>1, FlowType DEF Edges, Targets, Entries
<1> HIDE DEF flow, ins
<1>3. \A x \in flow : IsPending(x)
  BY <1>2 DEF IsPending
<1>4. \A x \in flow : x.source \in Entries /\ x.target.value \in Int
  BY <1>2 DEF Edges
<1>5. StaticTargets(flow) \subseteq Entries
  BY <1>2 DEF StaticTargets, EntryEdges
<1>6. DiscoveredRoots(flow) \subseteq [entry : Entries, kind : RootKinds]
  BY DEF DiscoveredRoots
<1>7. NextLeader(ins, index) \subseteq Entries
  BY <1>1 DEF NextLeader, Entries
<1>8. \A d \in InvalidTargets(flow) : d.entry \in Entries /\ d.raw \in Int
  BY <1>4 DEF InvalidTargets
<1>9. /\ leaders' = leaders \cup NextLeader(ins, index) \cup StaticTargets(flow)
      /\ roots' = roots \cup DiscoveredRoots(flow)
      /\ diagnostics' = diagnostics \cup InvalidTargets(flow)
      /\ pending' = pending \cup flow
      /\ index' = index + 1
  BY DEF ClassifyEntry, ins, flow
<1>. QED BY <1>1, <1>3, <1>5, <1>6, <1>7, <1>8, <1>9 DEF Foundation, TypeOK

(* When the blocks are built every entry leads one, and edges join blocks. *)
LEMMA BuildTypes ==
  ASSUME Foundation, BuildBlocks
  PROVE  /\ blockOf' = [e \in Entries |-> e]
         /\ \A x \in edges' : IsEdge(x)
<1>1. leaders = Entries /\ Entries \subseteq Int
  BY ScriptFacts DEF Foundation, TypeOK, Leading, Built, BuildBlocks, Entries
<1>2. \A e \in Entries : IsBlockOf(e, e)
  BY <1>1 DEF IsBlockOf
<1>3. \A e, b \in Entries : IsBlockOf(b, e) => b = e
  BY <1>1 DEF IsBlockOf
<1>4. blockOf' = [e \in Entries |-> e]
  <2>1. \A e \in Entries : (CHOOSE b \in Entries : IsBlockOf(b, e)) = e
    BY <1>2, <1>3
  <2>. QED BY <2>1, <1>2 DEF BuildBlocks, build_blocks
<1>5. \A x \in pending : /\ x.source \in Entries /\ x.kind \in EdgeKinds
                         /\ x.target.tag = "Entry" => x.target.value \in Entries
  BY DEF Foundation, TypeOK, IsPending, Edges
<1>6. edges' = materialize_edges(blockOf')
  BY DEF BuildBlocks
<1>7. ASSUME NEW x \in pending
      PROVE  TargetBlock(blockOf', x.target) \in leaders \cup {NoBlock}
  BY <1>1, <1>4, <1>5, <1>7 DEF TargetBlock
<1>8. ASSUME NEW y \in edges' PROVE IsEdge(y)
  <2>1. PICK x \in pending :
          y = [source_block |-> blockOf'[x.source], source_entry |-> x.source,
               kind |-> x.kind, target_block |-> TargetBlock(blockOf', x.target),
               target |-> x.target]
    BY <1>6, <1>8 DEF materialize_edges
  <2>2. blockOf'[x.source] = x.source
    BY <1>4, <1>5
  <2>. QED BY <1>1, <1>5, <1>7, <2>1, <2>2 DEF IsEdge
<1>. QED BY <1>4, <1>8

(* A nonempty set of positions has a first one.                            *)
LEMMA LeastPosition ==
  ASSUME NEW S, S \subseteq Nat, S # {}
  PROVE  \E f \in S : \A g \in S : f <= g
<1> DEFINE R == OpToRel(<, Nat)
<1>1. IsWellFoundedOn(R, Nat)
  BY NatLessThanWellFounded
<1>2. \A x, y \in Nat : y < x => <<y, x>> \in R
  BY DEF OpToRel
<1> HIDE DEF R
<1>3. PICK f \in S : \A g \in S : ~(<<g, f>> \in R)
  BY <1>1, WFMin
<1>4. \A g \in S : ~(g < f)
  BY <1>2, <1>3
<1>. QED BY <1>4

(* A covered block is owned by the first function that holds it, any other *)
(* block by none.                                                          *)
LEMMA HolderFacts ==
  ASSUME functions \in Seq([entry : Entries, blocks : SUBSET leaders]), NEW b
  PROVE  /\ b \notin covered => FirstHolder(b) = NoOwner
         /\ b \in covered =>
              /\ FirstHolder(b) \in DOMAIN functions
              /\ b \in functions[FirstHolder(b)].blocks
              /\ \A g \in DOMAIN functions :
                   b \in functions[g].blocks => FirstHolder(b) <= g
<1> DEFINE H == {f \in DOMAIN functions : b \in functions[f].blocks}
           First(f) == /\ b \in functions[f].blocks
                       /\ \A g \in DOMAIN functions : b \in functions[g].blocks => f <= g
<1>1. DOMAIN functions \subseteq Nat
  OBVIOUS
<1>2. ASSUME b \in covered
      PROVE  \E f \in DOMAIN functions : First(f)
  <2>1. H # {} /\ H \subseteq Nat
    BY <1>1, <1>2 DEF covered
  <2>2. PICK f \in H : \A g \in H : f <= g
    BY <2>1, LeastPosition
  <2>. QED BY <2>2
<1>3. b \in covered => FirstHolder(b) = CHOOSE f \in DOMAIN functions : First(f)
  BY DEF FirstHolder
<1>4. b \in covered => FirstHolder(b) \in DOMAIN functions /\ First(FirstHolder(b))
  <2>. HIDE DEF First
  <2>. QED BY <1>2, <1>3
<1>. QED BY <1>4 DEF FirstHolder

LEMMA HolderTypes ==
  ASSUME Foundation, assign_block_functions
  PROVE  owner' \in [leaders -> 0 .. Len(functions)]
<1>1. functions \in Seq([entry : Entries, blocks : SUBSET leaders])
  BY DEF Foundation, TypeOK
<1>2. DOMAIN functions = 1 .. Len(functions) /\ Len(functions) \in Nat
  BY <1>1
<1>3. \A b \in leaders : FirstHolder(b) \in 0 .. Len(functions)
  BY <1>1, <1>2, HolderFacts DEF NoOwner
<1>. QED BY <1>3 DEF assign_block_functions

LEMMA StepFoundation == Foundation /\ [Next]_vars => Foundation'
<1>. SUFFICES ASSUME Foundation, [Next]_vars PROVE Foundation'
  OBVIOUS
<1>1. script' = script /\ entry_count' = entry_count /\ Entries' = Entries
  BY SameScript
<1>2. entry_count \in Nat /\ Entries \subseteq Int /\ index \in 0 .. entry_count
  BY ScriptFacts DEF Foundation, TypeOK, Entries
<1>3. CASE Fail
  <2>1. TypeOK'
    BY <1>1, <1>3 DEF Foundation, TypeOK, Fail, Phases, Built, IsPending, IsEdge,
       Edges, graphVars, blockVars, functionVars, searchVars
  <2>2. Unbuilt' /\ Leading'
    BY <1>1, <1>3 DEF Foundation, Unbuilt, Leading, Built, Fail, graphVars,
       blockVars, functionVars, searchVars
  <2>. QED BY <2>1, <2>2 DEF Foundation
<1>4. CASE CollectRoots
  <2>1. roots' \subseteq [entry : Entries, kind : RootKinds]
    BY <1>2, <1>4, ScriptFacts DEF Foundation, TypeOK, CollectRoots, Root,
       collect_structural_roots, EntryZeroRoot, direct_index, Entries, RootKinds,
       StructuralKinds
  <2>2. leaders' \subseteq Entries
    BY <2>1, <1>4 DEF CollectRoots
  <2>3. entry_count > 0 => 0 \in leaders'
    <3>1. entry_count > 0 => Root(0, "EntryZero") \in roots'
      BY <1>4 DEF CollectRoots, EntryZeroRoot
    <3>. QED BY <3>1, <1>4 DEF CollectRoots, Root
  <2>3a. index = 0 /\ \A e \in Entries : e <= 0 => e \in leaders'
    BY <2>3, <1>2, <1>4 DEF Foundation, Leading, CollectRoots, Entries
  <2>4. TypeOK'
    BY <1>1, <1>4, <2>1, <2>2 DEF Foundation, TypeOK, Unbuilt, CollectRoots, Phases, Built,
       IsPending, IsEdge, Edges, blockVars, functionVars, searchVars
  <2>5. Unbuilt' /\ Leading'
    BY <1>1, <1>4, <2>3a DEF Foundation, Unbuilt, Leading, Built, CollectRoots,
       blockVars, functionVars, searchVars
  <2>. QED BY <2>4, <2>5 DEF Foundation
<1>5. CASE ClassifyEntry
  <2>1. TypeOK'
    BY <1>1, <1>5, ScanTypes DEF Foundation, TypeOK, Unbuilt, ClassifyEntry, Phases,
       Built, IsPending, IsEdge, Edges, blockVars, functionVars, searchVars
  <2>2. index + 1 < entry_count => index + 1 \in leaders'
    <3>1. script.code[index] \in Instruction /\ index \in 0 .. entry_count - 1
      BY <1>2, <1>5, ScriptFacts DEF Foundation, TypeOK, ClassifyEntry, Entries
    <3>2. CASE starts_next_block(script.code[index])
      BY <3>2, <1>5 DEF ClassifyEntry, NextLeader
    <3>3. CASE ~starts_next_block(script.code[index])
      BY <1>2, <1>5, <3>1, <3>3, NextEntryLeads DEF ClassifyEntry
    <3>. QED BY <3>2, <3>3
  <2>3. leaders \subseteq leaders' /\ index' = index + 1 /\ phase' = "scan" /\ phase = "scan"
    BY <1>5 DEF ClassifyEntry
  <2>4. \A e \in Entries : e <= index' => e \in leaders'
    <3>1. \A e \in Entries : e <= index => e \in leaders
      BY <2>3 DEF Foundation, Leading
    <3>2. \A e \in Entries : e <= index + 1 => e <= index \/ (e = index + 1 /\ index + 1 < entry_count)
      BY <1>2 DEF Entries
    <3>. QED BY <2>2, <2>3, <3>1, <3>2
  <2>5. Unbuilt' /\ Leading'
    BY <1>1, <1>5, <2>4 DEF Foundation, Unbuilt, Leading, Built, ClassifyEntry,
       blockVars, functionVars, searchVars
  <2>. QED BY <2>1, <2>5 DEF Foundation
<1>6. CASE EndScan
  <2>1. leaders' = Entries
    <3>1. \A e \in Entries : e \in leaders
      BY <1>2, <1>6 DEF Foundation, Leading, EndScan, Entries
    <3>2. {r.entry : r \in roots} \subseteq Entries
      BY DEF Foundation, TypeOK
    <3>. QED BY <1>6, <3>1, <3>2 DEF Foundation, TypeOK, EndScan
  <2>2. TypeOK'
    BY <1>1, <1>6, <2>1 DEF Foundation, TypeOK, Unbuilt, EndScan, Phases, Built,
       IsPending, IsEdge, Edges, blockVars, functionVars, searchVars
  <2>3. Unbuilt' /\ Leading'
    BY <1>1, <1>6, <2>1 DEF Foundation, Unbuilt, Leading, Built, EndScan,
       blockVars, functionVars, searchVars
  <2>. QED BY <2>2, <2>3 DEF Foundation
<1>7. CASE BuildBlocks
  <2>1. leaders = Entries
    BY <1>7 DEF Foundation, Leading, BuildBlocks
  <2>2. function_entries \subseteq Entries
    BY DEF Foundation, TypeOK, function_entries
  <2>3. TypeOK'
    BY <1>1, <1>7, <2>1, <2>2, BuildTypes DEF Foundation, TypeOK, Unbuilt, BuildBlocks, Phases,
       Built, IsPending, IsEdge, Edges, graphVars, searchVars
  <2>4. Unbuilt' /\ Leading'
    BY <1>1, <1>7, <2>1, BuildTypes DEF Foundation, Unbuilt, Leading, Built,
       BuildBlocks, graphVars, searchVars
  <2>. QED BY <2>3, <2>4 DEF Foundation
<1>8. ASSUME NEW e \in Entries, StartFunction(e) \/ StartOrphanLabel(e)
      PROVE  Foundation'
  <2>1. StartSearch(e) /\ phase = "functions"
    BY <1>8 DEF StartFunction, StartOrphanLabel
  <2>2. blockOf[e] = e /\ leaders = Entries
    BY <2>1 DEF Foundation, Leading, Built
  <2>3. TypeOK'
    BY <1>1, <2>1, <2>2 DEF Foundation, TypeOK, StartSearch, Phases, Built, IsPending,
       IsEdge, Edges, graphVars, blockVars
  <2>4. Unbuilt' /\ Leading'
    BY <1>1, <2>1, <2>2 DEF Foundation, Unbuilt, Leading, Built, StartSearch,
       graphVars, blockVars
  <2>. QED BY <2>3, <2>4 DEF Foundation
<1>9. CASE BeginLabels
  <2>1. label_entries \subseteq Entries
    BY DEF Foundation, TypeOK, label_entries
  <2>2. TypeOK'
    BY <1>1, <1>9, <2>1 DEF Foundation, TypeOK, BeginLabels, Phases, Built, IsPending, IsEdge,
       Edges, graphVars, blockVars, searchVars
  <2>3. Unbuilt' /\ Leading'
    BY <1>1, <1>9 DEF Foundation, Unbuilt, Leading, Built, BeginLabels,
       graphVars, blockVars, searchVars
  <2>. QED BY <2>2, <2>3 DEF Foundation
<1>10. ASSUME NEW e \in Entries, SkipCoveredLabel(e) PROVE Foundation'
  <2>1. TypeOK'
    BY <1>1, <1>10 DEF Foundation, TypeOK, SkipCoveredLabel, Phases, Built, IsPending,
       IsEdge, Edges, graphVars, blockVars, searchVars
  <2>2. Unbuilt' /\ Leading'
    BY <1>1, <1>10 DEF Foundation, Unbuilt, Leading, Built, SkipCoveredLabel,
       graphVars, blockVars, searchVars
  <2>. QED BY <2>1, <2>2 DEF Foundation
<1>11. ASSUME NEW b \in Entries, SearchBlock(b) PROVE Foundation'
  <2>1. Successors(b, blockOf[entering]) \subseteq leaders
    BY DEF Foundation, TypeOK, Successors, MayFollow, IsEdge
  <2>2. TypeOK'
    BY <1>1, <1>11, <2>1 DEF Foundation, TypeOK, SearchBlock, Phases, Built, IsPending,
       IsEdge, Edges, graphVars, blockVars
  <2>3. Unbuilt' /\ Leading'
    BY <1>1, <1>11 DEF Foundation, Unbuilt, Leading, Built, SearchBlock,
       graphVars, blockVars
  <2>. QED BY <2>2, <2>3 DEF Foundation
<1>12. CASE PushFunction
  <2>1. [entry |-> entering, blocks |-> seen] \in [entry : Entries, blocks : SUBSET leaders]
    BY <1>12 DEF Foundation, TypeOK, PushFunction
  <2>2. functions' \in Seq([entry : Entries, blocks : SUBSET leaders])
    BY <1>12, <2>1 DEF Foundation, TypeOK, PushFunction
  <2>3. TypeOK'
    BY <1>1, <1>12, <2>2 DEF Foundation, TypeOK, PushFunction, Phases, Built, IsPending,
       IsEdge, Edges, graphVars, blockVars, searchVars
  <2>4. Unbuilt' /\ Leading'
    BY <1>1, <1>12 DEF Foundation, Unbuilt, Leading, Built, PushFunction,
       graphVars, blockVars, searchVars
  <2>. QED BY <2>3, <2>4 DEF Foundation
<1>13. CASE EndFunctions
  <2>1. TypeOK'
    BY <1>1, <1>13 DEF Foundation, TypeOK, EndFunctions, Phases, Built, IsPending, IsEdge,
       Edges, graphVars, blockVars, functionVars, searchVars
  <2>2. Unbuilt' /\ Leading'
    BY <1>1, <1>13 DEF Foundation, Unbuilt, Leading, Built, EndFunctions,
       graphVars, blockVars, functionVars, searchVars
  <2>. QED BY <2>1, <2>2 DEF Foundation
<1>14. CASE assign_block_functions
  <2>1. owner' \in [leaders -> 0 .. Len(functions)]
    BY <1>14, HolderTypes DEF Foundation, assign_block_functions
  <2>2. TypeOK'
    BY <1>1, <1>14, <2>1 DEF Foundation, TypeOK, assign_block_functions, Phases, Built,
       IsPending, IsEdge, Edges, graphVars, blockVars, functionVars, searchVars
  <2>3. Unbuilt' /\ Leading'
    BY <1>1, <1>14 DEF Foundation, Unbuilt, Leading, Built, assign_block_functions,
       graphVars, blockVars, functionVars, searchVars
  <2>. QED BY <2>2, <2>3 DEF Foundation
<1>15. CASE Finished \/ UNCHANGED vars
  <2>1. UNCHANGED vars
    BY <1>15 DEF Finished
  <2>2. TypeOK'
    BY <1>1, <2>1 DEF Foundation, TypeOK, Built, IsPending, IsEdge, Edges, vars,
       graphVars, blockVars, functionVars, searchVars
  <2>3. Unbuilt' /\ Leading'
    BY <1>1, <2>1 DEF Foundation, Unbuilt, Leading, Built, vars,
       graphVars, blockVars, functionVars, searchVars
  <2>. QED BY <2>2, <2>3 DEF Foundation
<1>. QED
  BY <1>3, <1>4, <1>5, <1>6, <1>7, <1>8, <1>9, <1>10, <1>11, <1>12, <1>13, <1>14,
     <1>15 DEF Next, Search

(* What holds of every variable holds for every set of scripts: once the   *)
(* blocks exist, edges, search sets, functions and owners name only        *)
(* existing blocks.                                                        *)
THEOREM TypeCorrect == Spec => []TypeOK
<1>1. Spec => []Foundation
  BY InitFoundation, StepFoundation, PTL DEF Spec
<1>2. Foundation => TypeOK
  BY DEF Foundation
<1>. QED BY <1>1, <1>2, PTL

-----------------------------------------------------------------------------
(* Why the analysis ends: the phases to come, the entries to be scanned,    *)
(* the entries whose functions are still to be built, whether one is being  *)
(* built, the entries its search has not seen, and its frontier.  Each step *)
(* lowers the first of these that it changes.                               *)

PhasesLeft ==
  IF phase = "roots" THEN 6
  ELSE IF phase = "scan" THEN 5
  ELSE IF phase = "blocks" THEN 4
  ELSE IF phase = "assign" THEN 1
  ELSE IF phase \in {"done", "failed"} THEN 0
  ELSE IF pass = "functions" THEN 3
  ELSE 2

Unscanned == IF phase = "scan" THEN entry_count - index ELSE 0
Building  == IF phase = "search" THEN 1 ELSE 0
Unseen    == Entries \ seen

Counts ==
  /\ PhasesLeft \in Nat /\ Unscanned \in Nat /\ Building \in Nat
  /\ IsFiniteSet(todo) /\ IsFiniteSet(Unseen) /\ IsFiniteSet(frontier)

Within(A, B) == A \subseteq B /\ A # B

SearchShrinks ==
  \/ Within(Unseen', Unseen)
  \/ Unseen' = Unseen /\ Within(frontier', frontier)

ListShrinks ==
  \/ Within(todo', todo)
  \/ todo' = todo /\ Building' < Building
  \/ todo' = todo /\ Building' = Building /\ SearchShrinks

CountsDown ==
  \/ PhasesLeft' < PhasesLeft
  \/ PhasesLeft' = PhasesLeft /\ Unscanned' < Unscanned
  \/ PhasesLeft' = PhasesLeft /\ Unscanned' = Unscanned /\ ListShrinks

LEMMA CountsAre == Foundation => Counts
<1>. SUFFICES ASSUME Foundation PROVE Counts
  OBVIOUS
<1>1. entry_count \in Nat /\ index \in 0 .. entry_count
  BY ScriptFacts DEF Foundation, TypeOK
<1>2. PhasesLeft \in Nat /\ Unscanned \in Nat /\ Building \in Nat
  BY <1>1 DEF PhasesLeft, Unscanned, Building
<1>3. IsFiniteSet(Entries)
  <2>1. 0 \in Int /\ entry_count - 1 \in Int
    BY <1>1
  <2>. QED BY <2>1, FS_Interval DEF Entries
<1>4. /\ todo \in SUBSET Entries
      /\ Unseen \in SUBSET Entries
      /\ frontier \in SUBSET Entries
  BY DEF Foundation, TypeOK, Unseen
<1>. QED BY <1>2, <1>3, <1>4, FS_Subset DEF Counts

LEMMA StepCountsDown == Foundation /\ Next /\ vars' # vars => CountsDown
<1>. SUFFICES ASSUME Foundation, Next, vars' # vars PROVE CountsDown
  OBVIOUS
<1>1. entry_count' = entry_count /\ Entries' = Entries
  BY SameScript
<1>2. entry_count \in Nat /\ index \in 0 .. entry_count /\ pass \in {"functions", "labels"}
      /\ todo \subseteq Entries /\ leaders \subseteq Entries
      /\ seen \subseteq leaders /\ frontier \subseteq seen
  BY ScriptFacts DEF Foundation, TypeOK
<1>3. CASE Fail \/ CollectRoots \/ EndScan \/ BuildBlocks \/ BeginLabels \/ EndFunctions
           \/ assign_block_functions
  <2>1. PhasesLeft' < PhasesLeft
    BY <1>2, <1>3
    DEF Fail, CollectRoots, EndScan, BuildBlocks, BeginLabels, EndFunctions,
        assign_block_functions, PhasesLeft, functionVars
  <2>. QED BY <2>1 DEF CountsDown
<1>4. CASE ClassifyEntry
  <2>1. PhasesLeft' = PhasesLeft
    BY <1>4 DEF ClassifyEntry, PhasesLeft, functionVars
  <2>2. Unscanned' < Unscanned
    BY <1>1, <1>2, <1>4 DEF ClassifyEntry, Unscanned
  <2>. QED BY <2>1, <2>2 DEF CountsDown
<1>5. ASSUME NEW e \in Entries, e \in todo, todo' = todo \ {e}, pass' = pass,
             phase = "functions", phase' \in {"functions", "search"}
      PROVE  CountsDown
  <2>1. PhasesLeft' = PhasesLeft /\ Unscanned' = Unscanned
    BY <1>5 DEF PhasesLeft, Unscanned
  <2>2. Within(todo', todo)
    BY <1>5 DEF Within
  <2>. QED BY <2>1, <2>2 DEF CountsDown, ListShrinks
<1>6. CASE \E e \in Entries : StartFunction(e) \/ SkipCoveredLabel(e) \/ StartOrphanLabel(e)
  BY <1>5, <1>6
  DEF StartFunction, SkipCoveredLabel, StartOrphanLabel, StartSearch, IsNext
<1>7. ASSUME NEW b \in Entries, SearchBlock(b) PROVE CountsDown
  <2>1. phase = "search" /\ phase' = "search" /\ pass' = pass /\ todo' = todo
    BY <1>7 DEF SearchBlock
  <2>2. PhasesLeft' = PhasesLeft /\ Unscanned' = Unscanned /\ Building' = Building
    BY <2>1 DEF PhasesLeft, Unscanned, Building
  <2> DEFINE found == Successors(b, blockOf[entering]) \ seen
  <2>3. seen' = seen \cup found /\ frontier' = (frontier \ {b}) \cup found /\ b \in frontier
    BY <1>7 DEF SearchBlock
  <2>4. found \subseteq Entries /\ found \cap seen = {}
    BY <1>2 DEF Foundation, TypeOK, IsEdge, Successors, MayFollow
  <2>. HIDE DEF found
  <2>5. ASSUME found = {} PROVE SearchShrinks
    BY <1>1, <2>3, <2>5 DEF SearchShrinks, Within, Unseen
  <2>6. ASSUME found # {} PROVE SearchShrinks
    BY <1>1, <2>3, <2>4, <2>6 DEF SearchShrinks, Within, Unseen
  <2>. QED BY <2>1, <2>2, <2>5, <2>6 DEF CountsDown, ListShrinks
<1>8. CASE PushFunction
  <2>1. phase = "search" /\ phase' = "functions" /\ pass' = pass /\ todo' = todo
    BY <1>8 DEF PushFunction
  <2>2. PhasesLeft' = PhasesLeft /\ Unscanned' = Unscanned /\ Building' < Building
    BY <2>1 DEF PhasesLeft, Unscanned, Building
  <2>. QED BY <2>1, <2>2 DEF CountsDown, ListShrinks
<1>9. CASE Finished
  BY <1>9 DEF Finished
<1>. QED
  BY <1>3, <1>4, <1>6, <1>7, <1>8, <1>9 DEF Next, Search

(* analyze() cannot go on for ever, however the script jumps around itself: *)
(* each step lowers the rank, which is made of natural numbers and finite   *)
(* sets.  Together with fairness and the absence of deadlock this is        *)
(* Termination, which the prover cannot state.                              *)
THEOREM EveryStepCountsDown == Spec => []Counts /\ [][CountsDown]_vars
<1>1. Foundation /\ [Next]_vars => [CountsDown]_vars
  BY StepCountsDown
<1>. QED BY <1>1, CountsAre, InitFoundation, StepFoundation, PTL DEF Spec

-----------------------------------------------------------------------------

(* Wherever an instruction leaves a next entry, it has an edge: control    *)
(* goes on, jumps, branches or ends there.                                 *)
LEMMA SomethingLeaves ==
  ASSUME NEW n \in Nat, NEW i \in 0 .. n - 1, NEW ins \in Instruction, i + 1 < n
  PROVE  \E x \in classify_opcode(ins, i, n) : x.source = i
<1>1. ins.op \in Opcodes
  BY DEF Instruction
<1>2. CASE ins.op \in Terminators
  <2>1. Edge(i, NoOperand, ins.op, ExitTarget) \in classify_opcode(ins, i, n)
    BY <1>2 DEF classify_opcode, ExitEdge
  <2>. QED BY <2>1 DEF Edge
<1>3. CASE add_fallthrough(ins)
  <2>1. Edge(i, NoOperand, "Fallthrough", EntryTarget(i + 1)) \in classify_opcode(ins, i, n)
    BY <1>3 DEF classify_opcode, FallthroughEdge
  <2>. QED BY <2>1 DEF Edge
<1>4. CASE IsJump(ins)
  <2>1. Edge(i, 0, "Jump", resolve(ins.args[0], n)) \in classify_opcode(ins, i, n)
    BY <1>4 DEF classify_opcode, JumpEdge
  <2>. QED BY <2>1 DEF Edge
<1>5. ASSUME NEW t \in Slots, <<ins.op, t>> \in BranchSlots
      PROVE  \E x \in classify_opcode(ins, i, n) : x.source = i
  <2>1. Edge(i, t, "Branch", branch_target(ins.args[t], i, n)) \in classify_opcode(ins, i, n)
    BY <1>5 DEF classify_opcode, BranchEdges, TakenOperands
  <2>. QED BY <2>1 DEF Edge
<1>6. \/ ins.op \in Terminators \/ add_fallthrough(ins) \/ IsJump(ins)
      \/ ins.op \in {"IFFILEEXISTS", "ISWINDOW", "IFFLAG", "STRCMP", "INTCMP"}
  BY <1>1 DEF Opcodes, Terminators, add_fallthrough, IsJump
<1>7. ins.op \in {"IFFILEEXISTS", "ISWINDOW", "IFFLAG"} => <<ins.op, 1>> \in BranchSlots
  BY DEF BranchSlots
<1>8. ins.op \in {"STRCMP", "INTCMP"} => <<ins.op, 2>> \in BranchSlots
  BY DEF BranchSlots
<1>9. 1 \in Slots /\ 2 \in Slots
  BY DEF Slots
<1>. QED BY <1>2, <1>3, <1>4, <1>5, <1>6, <1>7, <1>8, <1>9

LEMMA StepControl == Foundation /\ ControlNeverVanishes /\ [Next]_vars => ControlNeverVanishes'
<1>. SUFFICES ASSUME Foundation, ControlNeverVanishes, [Next]_vars
              PROVE  ControlNeverVanishes'
  OBVIOUS
<1>1. entry_count \in Nat /\ entry_count' = entry_count /\ index \in 0 .. entry_count
  BY ScriptFacts, SameScript DEF Foundation, TypeOK
<1>2. CASE ClassifyEntry
  <2> DEFINE flow == classify_opcode(script.code[index], index, entry_count)
  <2>1. index \in 0 .. entry_count - 1 /\ script.code[index] \in Instruction
    BY <1>1, <1>2, ScriptFacts DEF Foundation, TypeOK, ClassifyEntry, Entries
  <2>2. index + 1 < entry_count => \E x \in flow : x.source = index
    BY <1>1, <2>1, SomethingLeaves
  <2>3. index' = index + 1 /\ pending' = pending \cup flow
    BY <1>2 DEF ClassifyEntry
  <2> HIDE DEF flow
  <2>4. \A i \in 0 .. index' - 1 : i \in 0 .. index - 1 \/ i = index
    BY <1>1, <2>3
  <2>. QED BY <1>1, <2>2, <2>3, <2>4 DEF ControlNeverVanishes
<1>3. CASE ~ClassifyEntry
  <2>1. index' = index /\ pending' = pending
    BY <1>3 DEF Next, vars, Fail, CollectRoots, EndScan, BuildBlocks, StartFunction,
       StartSearch, BeginLabels, SkipCoveredLabel, StartOrphanLabel, Search, SearchBlock,
       PushFunction, EndFunctions, assign_block_functions, Finished, graphVars
  <2>. QED BY <1>1, <2>1 DEF ControlNeverVanishes
<1>. QED BY <1>2, <1>3

(* Every instruction analyze() has classified, the last one aside, passes  *)
(* control on or ends it: the classification leaves no opcode without an   *)
(* edge, whatever the script.                                              *)
THEOREM ControlIsKept == Spec => []ControlNeverVanishes
<1>1. Init => ControlNeverVanishes
  BY DEF Init, ControlNeverVanishes
<1>. QED BY <1>1, InitFoundation, StepFoundation, StepControl, PTL DEF Spec

-----------------------------------------------------------------------------
(* The functions that are published are the regions FunctionRegions        *)
(* defines.                                                                *)

Entered == {functions[f].entry : f \in DOMAIN functions}

(* Closed under the flow that stays in the function entered at e.          *)
Closes(e, S) ==
  /\ e \in S
  /\ \A x \in Flow : x[1] \in S /\ x[2] \notin function_entries => x[2] \in S

(* The search has found nothing but what every closed set holds, and what  *)
(* it has already searched leads nowhere else.                             *)
Searching ==
  phase = "search" =>
    /\ entering \in seen
    /\ \A x \in Flow :
         x[1] \in seen \ frontier /\ x[2] \notin function_entries => x[2] \in seen
    /\ \A S \in SUBSET leaders : Closes(entering, S) => seen \subseteq S
    /\ seen \cap function_entries \subseteq {entering}

(* Published functions are closed, hold no other function's entry, and are *)
(* entered where no earlier function is.                                   *)
Listed ==
  \A f \in DOMAIN functions :
    /\ Closes(functions[f].entry, functions[f].blocks)
    /\ functions[f].blocks \cap function_entries \subseteq {functions[f].entry}
    /\ \A g \in DOMAIN functions : g < f => functions[f].entry \notin functions[g].blocks

(* The first pass still owes every function entry it has not entered.      *)
FirstPass ==
  Built /\ pass = "functions" =>
    /\ phase \in {"functions", "search"}
    /\ phase = "functions" => todo = function_entries \ Entered
    /\ phase = "search" =>
         /\ entering \in function_entries \ Entered
         /\ todo = (function_entries \ Entered) \ {entering}
         /\ \A d \in todo : entering <= d

(* The second pass still owes every label no function holds.               *)
SecondPass ==
  Built /\ pass = "labels" =>
    /\ function_entries \subseteq Entered
    /\ todo \subseteq label_entries
    /\ phase = "functions" => label_entries \ covered \subseteq todo
    /\ phase = "search" =>
         /\ entering \in label_entries \ covered
         /\ (label_entries \ covered) \ {entering} \subseteq todo
         /\ \A d \in todo : entering <= d
    /\ phase \in {"assign", "done"} => label_entries \subseteq covered

RegionInv == Searching /\ Listed /\ FirstPass /\ SecondPass

(* Owners are assigned once, from the finished list.                       *)
Owned == phase = "done" => owner = [b \in leaders |-> FirstHolder(b)]

-----------------------------------------------------------------------------

(* Once the blocks exist the graph does not change.                        *)
LEMMA GraphFixed ==
  ASSUME [Next]_vars, Built
  PROVE  /\ Built' /\ roots' = roots /\ leaders' = leaders /\ edges' = edges
         /\ blockOf' = blockOf /\ Flow' = Flow
         /\ function_entries' = function_entries /\ label_entries' = label_entries
<1>1. Built' /\ roots' = roots /\ leaders' = leaders /\ edges' = edges /\ blockOf' = blockOf
  BY DEF Built, Next, vars, Fail, CollectRoots, ClassifyEntry, EndScan, BuildBlocks,
     StartFunction, StartSearch, BeginLabels, SkipCoveredLabel, StartOrphanLabel, Search,
     SearchBlock, PushFunction, EndFunctions, assign_block_functions, Finished,
     graphVars, blockVars
<1>. QED BY <1>1 DEF Flow, function_entries, label_entries

LEMMA GraphFacts ==
  ASSUME Foundation, Built
  PROVE  /\ leaders = Entries /\ Entries \subseteq Int
         /\ \A e \in Entries : blockOf[e] = e
         /\ Flow \subseteq leaders \X leaders
         /\ function_entries \subseteq Entries /\ label_entries \subseteq Entries
         /\ function_entries \cap label_entries = {}
         /\ \A r \in roots : r.entry \in function_entries \cup label_entries
<1>1. leaders = Entries /\ \A e \in Entries : blockOf[e] = e
  BY DEF Foundation, Leading, Built
<1>2. Entries \subseteq Int
  BY ScriptFacts DEF Foundation, TypeOK, Entries
<1>3. Flow \subseteq leaders \X leaders
  BY DEF Foundation, TypeOK, IsEdge, Flow
<1>4. function_entries \subseteq Entries /\ label_entries \subseteq Entries
  BY DEF Foundation, TypeOK, function_entries, label_entries
<1>. QED BY <1>1, <1>2, <1>3, <1>4 DEF function_entries, label_entries

(* What MayFollow follows, as flow.                                        *)
LEMMA SuccessorFlow ==
  ASSUME NEW b, NEW e, NEW c
  PROVE  c \in Successors(b, e) <=>
           /\ <<b, c>> \in Flow
           /\ c = e \/ c \notin function_entries
<1>1. c \in Successors(b, e) <=>
        \E x \in edges : /\ x.source_block = b /\ x.target_block = c
                         /\ x.kind \notin CallKinds /\ c # NoBlock
                         /\ c = e \/ c \notin function_entries
  BY DEF Successors, MayFollow
<1>2. <<b, c>> \in Flow <=>
        \E x \in edges : /\ x.source_block = b /\ x.target_block = c
                         /\ x.kind \notin CallKinds /\ c # NoBlock
  BY DEF Flow
<1>. QED BY <1>1, <1>2

LEMMA InitRegions == Init => RegionInv
BY DEF Init, RegionInv, Searching, Listed, FirstPass, SecondPass, Built

(* Building the blocks starts the first pass with every function entry.    *)
LEMMA BuildRegions == Foundation /\ RegionInv /\ BuildBlocks => RegionInv'
<1>. SUFFICES ASSUME Foundation, RegionInv, BuildBlocks PROVE RegionInv'
  OBVIOUS
<1>1. functions = <<>> /\ functions' = functions /\ phase' = "functions"
        /\ pass' = "functions" /\ todo' = function_entries
  BY DEF Foundation, Unbuilt, BuildBlocks
<1>2. function_entries' = function_entries
  BY DEF BuildBlocks, graphVars, function_entries
<1>3. Entered' = {}
  BY <1>1 DEF Entered
<1>. QED BY <1>1, <1>2, <1>3 DEF RegionInv, Searching, Listed, FirstPass, SecondPass

(* Steps that leave the published functions alone keep what holds of them. *)
LEMMA ListedFixed ==
  ASSUME [Next]_vars, Built, Listed, functions' = functions
  PROVE  Listed' /\ Entered' = Entered /\ covered' = covered
BY GraphFixed DEF Listed, Closes, Entered, covered

(* A search starts at an entry no published function is entered at.        *)
LEMMA StartRegions ==
  ASSUME Foundation, RegionInv, [Next]_vars,
         NEW e \in Entries, StartFunction(e) \/ StartOrphanLabel(e)
  PROVE  RegionInv'
<1>1. /\ phase = "functions" /\ Built /\ IsNext(e)
      /\ entering' = e /\ todo' = todo \ {e} /\ phase' = "search"
      /\ pass' = pass /\ functions' = functions
      /\ seen' = {blockOf[e]} /\ frontier' = {blockOf[e]}
  BY DEF StartFunction, StartOrphanLabel, StartSearch, Built
<1>2. /\ leaders' = leaders /\ Flow' = Flow
      /\ function_entries' = function_entries /\ label_entries' = label_entries
  BY <1>1, GraphFixed
<1>3. blockOf[e] = e
  BY <1>1, GraphFacts
<1>4. Listed' /\ Entered' = Entered /\ covered' = covered
  BY <1>1, ListedFixed DEF RegionInv
<1>5. Searching'
  BY <1>1, <1>2, <1>3 DEF Searching, Closes
<1>6. FirstPass'
  BY <1>1, <1>2, <1>4 DEF RegionInv, FirstPass, IsNext, Built
<1>7. SecondPass'
  <2>1. pass = "labels" => e \in label_entries \ covered
    BY <1>1, <1>3 DEF RegionInv, SecondPass, StartFunction, StartOrphanLabel, IsNext
  <2>. QED BY <1>1, <1>2, <1>4, <2>1 DEF RegionInv, SecondPass, IsNext, Built
<1>. QED BY <1>4, <1>5, <1>6, <1>7 DEF RegionInv

(* One block searched: its successors join, and nothing else.              *)
LEMMA SearchRegions ==
  ASSUME Foundation, RegionInv, [Next]_vars, NEW b \in Entries, SearchBlock(b)
  PROVE  RegionInv'
<1> DEFINE found == Successors(b, entering) \ seen
<1>1. /\ phase = "search" /\ phase' = phase /\ Built /\ b \in frontier
      /\ functions' = functions /\ pass' = pass /\ todo' = todo
      /\ entering' = entering
  BY DEF SearchBlock, Built
<1>2. /\ leaders' = leaders /\ Flow' = Flow
      /\ function_entries' = function_entries /\ label_entries' = label_entries
  BY <1>1, GraphFixed
<1>3. /\ b \in seen /\ frontier \subseteq seen /\ seen \subseteq leaders
      /\ blockOf[entering] = entering
  BY <1>1, GraphFacts DEF Foundation, TypeOK
<1>4. seen' = seen \cup found /\ frontier' = (frontier \ {b}) \cup found
  BY <1>3 DEF SearchBlock
<1>5. \A c : c \in found <=> /\ <<b, c>> \in Flow /\ c \notin seen
                             /\ c = entering \/ c \notin function_entries
  BY SuccessorFlow
<1> HIDE DEF found
<1>6. Listed' /\ Entered' = Entered /\ covered' = covered
  BY <1>1, ListedFixed DEF RegionInv
<1>7. Searching'
  <2>1. entering \in seen /\ seen \cap function_entries \subseteq {entering}
    BY <1>1 DEF RegionInv, Searching
  <2>2. ASSUME NEW x \in Flow, x[1] \in seen' \ frontier', x[2] \notin function_entries
        PROVE  x[2] \in seen'
    <3>1. x[1] = b \/ x[1] \in seen \ frontier
      BY <1>3, <1>4, <2>2
    <3>2. x = <<x[1], x[2]>>
      BY <1>1, GraphFacts
    <3>3. CASE x[1] = b
      BY <1>4, <1>5, <2>2, <3>2, <3>3
    <3>4. CASE x[1] \in seen \ frontier
      BY <1>1, <1>4, <2>2, <3>4 DEF RegionInv, Searching
    <3>. QED BY <3>1, <3>3, <3>4
  <2>3. ASSUME NEW S \in SUBSET leaders, Closes(entering, S) PROVE seen' \subseteq S
    <3>1. seen \subseteq S
      BY <1>1, <2>3 DEF RegionInv, Searching
    <3>2. ASSUME NEW c \in found PROVE c \in S
      <4>1. <<b, c>> \in Flow /\ (c = entering \/ c \notin function_entries)
        BY <1>5, <3>2
      <4>2. b \in S /\ entering \in S
        BY <1>3, <3>1, <2>1
      <4>3. CASE c = entering
        BY <4>2, <4>3
      <4>4. CASE c \notin function_entries
        <5>1. <<b, c>>[1] = b /\ <<b, c>>[2] = c
          OBVIOUS
        <5>. QED BY <2>3, <4>1, <4>2, <4>4, <5>1 DEF Closes
      <4>. QED BY <4>1, <4>3, <4>4
    <3>. QED BY <1>4, <3>1, <3>2
  <2>4. seen' \cap function_entries \subseteq {entering}
    BY <1>4, <1>5, <2>1
  <2>5. entering \in seen'
    BY <1>4, <2>1
  <2>. QED
    <3>1. (\A S \in SUBSET leaders : Closes(entering, S) => seen \subseteq S)'
      BY <1>1, <1>2, <2>3 DEF Closes
    <3>. QED BY <1>1, <1>2, <2>2, <2>4, <2>5, <3>1 DEF Searching
<1>8. FirstPass' /\ SecondPass'
  BY <1>1, <1>2, <1>6 DEF RegionInv, FirstPass, SecondPass, Built
<1>. QED BY <1>6, <1>7, <1>8 DEF RegionInv

(* A search that is over has found a closed set: the function is listed.   *)
LEMMA PushRegions ==
  ASSUME Foundation, RegionInv, [Next]_vars, PushFunction
  PROVE  RegionInv'
<1>1. /\ phase = "search" /\ phase' = "functions" /\ Built /\ frontier = {}
      /\ pass' = pass /\ todo' = todo
      /\ functions' = Append(functions, [entry |-> entering, blocks |-> seen])
  BY DEF PushFunction, Built, searchVars
<1>2. /\ leaders' = leaders /\ Flow' = Flow
      /\ function_entries' = function_entries /\ label_entries' = label_entries
  BY <1>1, GraphFixed
<1>3. functions \in Seq([entry : Entries, blocks : SUBSET leaders])
  BY DEF Foundation, TypeOK
<1> DEFINE n == Len(functions)
<1>4. /\ n \in Nat /\ DOMAIN functions = 1 .. n
      /\ DOMAIN functions' = 1 .. n + 1
      /\ \A f \in 1 .. n : functions'[f] = functions[f]
      /\ functions'[n + 1] = [entry |-> entering, blocks |-> seen]
  BY <1>1, <1>3
<1> HIDE DEF n
<1>5. /\ Closes(entering, seen)
      /\ seen \cap function_entries \subseteq {entering}
  BY <1>1 DEF RegionInv, Searching, Closes
<1>6. \A g \in DOMAIN functions : entering \notin functions[g].blocks
  <2>1. CASE pass = "functions"
    <3>1. entering \in function_entries /\ entering \notin Entered
      BY <1>1, <2>1 DEF RegionInv, FirstPass
    <3>2. \A g \in DOMAIN functions :
            functions[g].blocks \cap function_entries \subseteq {functions[g].entry}
      BY DEF RegionInv, Listed
    <3>. QED BY <3>1, <3>2 DEF Entered
  <2>2. CASE pass = "labels"
    BY <1>1, <2>2 DEF RegionInv, SecondPass, covered
  <2>. QED BY <2>1, <2>2 DEF Foundation, TypeOK
<1>7. Entered' = Entered \cup {entering}
  BY <1>4 DEF Entered
<1>8. covered' = covered \cup seen
  BY <1>4 DEF covered
<1>9. Listed'
  <2>1. \A f \in DOMAIN functions :
          /\ Closes(functions[f].entry, functions[f].blocks)
          /\ functions[f].blocks \cap function_entries \subseteq {functions[f].entry}
          /\ \A g \in DOMAIN functions : g < f => functions[f].entry \notin functions[g].blocks
    BY DEF RegionInv, Listed
  <2>2. \A f \in 1 .. n + 1 : f \in 1 .. n \/ f = n + 1
    BY <1>4
  <2>3. ASSUME NEW f \in 1 .. n + 1
        PROVE  /\ functions'[f].entry \in functions'[f].blocks
               /\ \A x \in Flow :
                    x[1] \in functions'[f].blocks /\ x[2] \notin function_entries
                      => x[2] \in functions'[f].blocks
               /\ functions'[f].blocks \cap function_entries \subseteq {functions'[f].entry}
    <3>1. CASE f \in 1 .. n
      BY <1>4, <2>1, <3>1 DEF Closes
    <3>2. CASE f = n + 1
      BY <1>4, <1>5, <3>2 DEF Closes
    <3>. QED BY <2>2, <3>1, <3>2
  <2>4. ASSUME NEW f \in 1 .. n + 1, NEW g \in 1 .. n + 1, g < f
        PROVE  functions'[f].entry \notin functions'[g].blocks
    <3>1. g \in 1 .. n
      BY <1>4, <2>4
    <3>2. CASE f \in 1 .. n
      BY <1>4, <2>1, <2>4, <3>1, <3>2
    <3>3. CASE f = n + 1
      BY <1>4, <1>6, <3>1, <3>3
    <3>. QED BY <2>2, <3>2, <3>3
  <2>. QED BY <1>2, <1>4, <2>3, <2>4 DEF Listed, Closes
<1>10. Searching'
  BY <1>1 DEF Searching
<1>11. FirstPass'
  BY <1>1, <1>2, <1>7 DEF RegionInv, FirstPass, Built
<1>12. SecondPass'
  <2>1. pass = "labels" => function_entries \subseteq Entered'
    BY <1>1, <1>7 DEF RegionInv, SecondPass
  <2>2. pass = "labels" => label_entries \ covered' \subseteq todo
    BY <1>1, <1>5, <1>8 DEF RegionInv, SecondPass, Closes
  <2>3. pass = "labels" => todo \subseteq label_entries
    BY <1>1 DEF RegionInv, SecondPass
  <2>. QED BY <1>1, <1>2, <2>1, <2>2, <2>3 DEF SecondPass
<1>. QED BY <1>9, <1>10, <1>11, <1>12 DEF RegionInv

LEMMA StepRegions == Foundation /\ RegionInv /\ [Next]_vars => RegionInv'
<1>. SUFFICES ASSUME Foundation, RegionInv, [Next]_vars PROVE RegionInv'
  OBVIOUS
<1>1. CASE Fail \/ CollectRoots \/ ClassifyEntry \/ EndScan
  <2>1. functions = <<>> /\ functions' = functions
    BY <1>1 DEF Foundation, Unbuilt, Fail, CollectRoots, ClassifyEntry, EndScan,
       functionVars
  <2>2. phase' \in {"failed", "scan", "blocks"}
    BY <1>1 DEF Fail, CollectRoots, ClassifyEntry, EndScan
  <2>. QED BY <2>1, <2>2 DEF RegionInv, Searching, Listed, FirstPass, SecondPass, Built
<1>2. CASE BuildBlocks
  BY <1>2, BuildRegions
<1>3. ASSUME NEW e \in Entries, StartFunction(e) \/ StartOrphanLabel(e) PROVE RegionInv'
  BY <1>3, StartRegions
<1>4. CASE BeginLabels
  <2>1. /\ phase = "functions" /\ phase' = phase /\ Built /\ todo = {}
        /\ pass = "functions" /\ pass' = "labels" /\ todo' = label_entries
        /\ functions' = functions
    BY <1>4 DEF BeginLabels, Built
  <2>2. Listed' /\ Entered' = Entered /\ covered' = covered
          /\ function_entries' = function_entries /\ label_entries' = label_entries
    BY <2>1, ListedFixed, GraphFixed DEF RegionInv
  <2>3. function_entries \subseteq Entered
    BY <2>1 DEF RegionInv, FirstPass
  <2>. QED BY <2>1, <2>2, <2>3 DEF RegionInv, Searching, FirstPass, SecondPass
<1>5. ASSUME NEW e \in Entries, SkipCoveredLabel(e) PROVE RegionInv'
  <2>1. /\ phase = "functions" /\ phase' = phase /\ Built
        /\ pass = "labels" /\ pass' = pass /\ todo' = todo \ {e}
        /\ functions' = functions /\ blockOf[e] \in covered
    BY <1>5 DEF SkipCoveredLabel, Built
  <2>2. Listed' /\ Entered' = Entered /\ covered' = covered
          /\ function_entries' = function_entries /\ label_entries' = label_entries
    BY <2>1, ListedFixed, GraphFixed DEF RegionInv
  <2>3. e \in covered
    BY <2>1, GraphFacts
  <2>. QED BY <2>1, <2>2, <2>3 DEF RegionInv, Searching, FirstPass, SecondPass
<1>6. ASSUME NEW b \in Entries, SearchBlock(b) PROVE RegionInv'
  BY <1>6, SearchRegions
<1>7. CASE PushFunction
  BY <1>7, PushRegions
<1>8. CASE EndFunctions \/ assign_block_functions
  <2>1. /\ Built /\ phase' \in {"assign", "done"} /\ functions' = functions
        /\ pass' = pass /\ todo' = todo
        /\ \/ phase = "functions" /\ pass = "labels" /\ todo = {}
           \/ phase = "assign"
    BY <1>8 DEF EndFunctions, assign_block_functions, Built, functionVars
  <2>2. Listed' /\ Entered' = Entered /\ covered' = covered
          /\ function_entries' = function_entries /\ label_entries' = label_entries
    BY <2>1, ListedFixed, GraphFixed DEF RegionInv
  <2>. QED BY <2>1, <2>2 DEF RegionInv, Searching, FirstPass, SecondPass
<1>9. CASE Finished \/ UNCHANGED vars
  <2>1. UNCHANGED vars
    BY <1>9 DEF Finished
  <2>. QED BY <2>1 DEF RegionInv, Searching, Listed, Closes, FirstPass, SecondPass,
         Entered, covered, Flow, function_entries, label_entries, Built, vars,
         graphVars, blockVars, functionVars, searchVars
<1>. QED BY <1>1, <1>2, <1>3, <1>4, <1>5, <1>6, <1>7, <1>8, <1>9 DEF Next, Search

LEMMA StepOwned == Foundation /\ Owned /\ [Next]_vars => Owned'
<1>. SUFFICES ASSUME Foundation, Owned, [Next]_vars, phase' = "done" PROVE Owned'
  BY DEF Owned
<1>1. assign_block_functions \/ (phase = "done" /\ UNCHANGED vars)
  BY DEF Next, Fail, CollectRoots, ClassifyEntry, EndScan, BuildBlocks, StartFunction,
     StartOrphanLabel, StartSearch, BeginLabels, SkipCoveredLabel, Search, SearchBlock,
     PushFunction, EndFunctions, Finished, vars
<1>2. CASE assign_block_functions
  BY <1>2 DEF Owned, assign_block_functions, FirstHolder, covered, graphVars, functionVars
<1>3. CASE phase = "done" /\ UNCHANGED vars
  BY <1>3 DEF Owned, FirstHolder, covered, vars, graphVars, functionVars
<1>. QED BY <1>1, <1>2, <1>3

LEMMA Reached == Spec => [](Foundation /\ RegionInv /\ Owned)
<1>1. Init => Owned
  BY DEF Init, Owned
<1>. QED BY <1>1, InitFoundation, InitRegions, StepFoundation, StepRegions, StepOwned,
         PTL DEF Spec

-----------------------------------------------------------------------------

(* No function runs on into the entry of another (build_functions,         *)
(* reachable_blocks), whatever the script.                                 *)
THEOREM FunctionsStopAtEntries == Spec => []NoFunctionEntersAnother
<1>1. RegionInv => NoFunctionEntersAnother
  BY DEF RegionInv, Listed, NoFunctionEntersAnother
<1>. QED BY <1>1, Reached, PTL

(* When build_functions returns every root is in a function and everything *)
(* that is entered from outside is entered as exactly one.                 *)
THEOREM RootsAreHeld == Spec => []EveryRootIsHeld
<1>1. ASSUME Foundation, RegionInv, Complete PROVE EveryRootIsHeld
  <2>1. Built /\ function_entries \subseteq Entered /\ label_entries \subseteq covered
    BY <1>1 DEF Complete, Built, RegionInv, FirstPass, SecondPass, Foundation, TypeOK
  <2>2. \A f \in DOMAIN functions : functions[f].entry \in functions[f].blocks
    BY <1>1 DEF RegionInv, Listed, Closes
  <2>3. \A f, g \in DOMAIN functions : functions[f].entry = functions[g].entry => f = g
    <3>1. DOMAIN functions \subseteq Nat
      BY <1>1 DEF Foundation, TypeOK
    <3>2. \A f, g \in DOMAIN functions : g < f => functions[f].entry # functions[g].entry
      BY <1>1, <2>2 DEF RegionInv, Listed
    <3>. QED BY <3>1, <3>2
  <2>4. Entered \subseteq covered
    BY <2>2 DEF Entered, covered
  <2>5. ASSUME NEW r \in roots PROVE blockOf[r.entry] = r.entry /\ r.entry \in covered
    BY <1>1, <2>1, <2>4, GraphFacts
  <2>6. ASSUME NEW r \in roots, starts_function(r) PROVE r.entry \in Entered
    BY <2>1, <2>6 DEF function_entries
  <2>. QED BY <2>3, <2>5, <2>6 DEF EveryRootIsHeld, Entered
<1>2. Foundation /\ RegionInv => EveryRootIsHeld
  BY <1>1 DEF EveryRootIsHeld
<1>. QED BY <1>2, Reached, PTL

LEMMA MemberOfSeq ==
  ASSUME NEW S, NEW s \in Seq(S), NEW i \in DOMAIN s
  PROVE  s[i] \in S
OBVIOUS

(* A function owns the block it is entered at: assign_block_functions      *)
(* gives it to the first holder, and no earlier function holds it.         *)
THEOREM EntriesAreOwned == Spec => []FunctionOwnsItsEntry
<1>1. ASSUME Foundation, RegionInv, Owned, phase = "done", NEW f \in DOMAIN functions
      PROVE  owner[blockOf[functions[f].entry]] = f
  <2> DEFINE e == functions[f].entry
  <2>1. /\ functions \in Seq([entry : Entries, blocks : SUBSET leaders])
        /\ DOMAIN functions \subseteq Nat
    BY <1>1 DEF Foundation, TypeOK
  <2>2. e \in Entries /\ blockOf[e] = e /\ e \in leaders
    <3>1. functions[f] \in [entry : Entries, blocks : SUBSET leaders]
      BY <1>1, <2>1, MemberOfSeq
    <3>2. Built
      BY <1>1 DEF Built
    <3>. QED BY <1>1, <3>1, <3>2, GraphFacts
  <2>3. e \in functions[f].blocks /\ e \in covered
    BY <1>1 DEF RegionInv, Listed, Closes, covered
  <2>4. FirstHolder(e) \in DOMAIN functions /\ e \in functions[FirstHolder(e)].blocks
          /\ FirstHolder(e) <= f
    BY <2>1, <2>3, HolderFacts
  <2>5. ~(FirstHolder(e) < f)
    BY <1>1, <2>4 DEF RegionInv, Listed
  <2>6. FirstHolder(e) = f
    BY <2>1, <2>4, <2>5
  <2>. QED BY <1>1, <2>2, <2>6 DEF Owned
<1>2. Foundation /\ RegionInv /\ Owned => FunctionOwnsItsEntry
  BY <1>1 DEF FunctionOwnsItsEntry
<1>. QED BY <1>2, Reached, PTL

-----------------------------------------------------------------------------
(* Dead code.                                                              *)

(* Whatever an edge names as its target, unless it only falls through to   *)
(* it, is a root.                                                          *)
Rooted ==
  /\ phase = "roots" => pending = {}
  /\ \A x \in pending :
       x.target.tag = "Entry" =>
         x.kind = "Fallthrough" \/ \E r \in roots : r.entry = x.target.value
  /\ \A x \in edges :
       x.target_block # NoBlock =>
         x.kind = "Fallthrough" \/ \E r \in roots : r.entry = x.target_block

(* An edge to an entry has a kind whose target becomes a root, or falls    *)
(* through.                                                                *)
LEMMA StaticKinds ==
  ASSUME NEW n, NEW i, NEW ins,
         NEW x \in classify_opcode(ins, i, n), x.target.tag = "Entry"
  PROVE  x.kind \in {"Fallthrough", "Jump", "Branch", "CallLabel", "CallFunction"}
<1>1. x \notin ExitEdge(ins, i)
  BY DEF ExitEdge, Edge, ExitTarget
<1>2. CASE x \in JumpEdge(ins, i, n)
  BY <1>2 DEF JumpEdge, Edge
<1>3. CASE x \in CallEdge(ins, i, n)
  BY <1>3 DEF CallEdge, CallKind, Edge
<1>4. CASE x \in BranchEdges(ins, i, n)
  BY <1>4 DEF BranchEdges, Edge
<1>5. CASE x \in FallthroughEdge(ins, i, n)
  BY <1>5 DEF FallthroughEdge, Edge
<1>. QED BY <1>1, <1>2, <1>3, <1>4, <1>5 DEF classify_opcode

LEMMA ScanRooted ==
  ASSUME Foundation, Rooted, ClassifyEntry
  PROVE  Rooted'
<1> DEFINE flow == classify_opcode(script.code[index], index, entry_count)
<1>1. entry_count \in Nat /\ index \in 0 .. entry_count - 1
        /\ script.code[index] \in Instruction
  BY ScriptFacts DEF Foundation, TypeOK, ClassifyEntry, Entries
<1>2. \A x \in flow : x.target.tag = "Entry" =>
        /\ x.target.value \in Entries
        /\ x.kind \in {"Fallthrough", "Jump", "Branch", "CallLabel", "CallFunction"}
  BY <1>1, FlowType, StaticKinds DEF Entries
<1> HIDE DEF flow
<1>3. /\ roots' = roots \cup DiscoveredRoots(flow) /\ pending' = pending \cup flow
      /\ phase' = "scan" /\ edges' = edges
  BY DEF ClassifyEntry, blockVars, flow
<1>4. ASSUME NEW x \in flow, x.target.tag = "Entry", x.kind # "Fallthrough"
      PROVE  \E r \in roots' : r.entry = x.target.value
  <2>1. PICK k \in RootKinds : <<x.kind, k>> \in RootOfEdge
    BY <1>2, <1>4 DEF RootOfEdge, RootKinds
  <2>2. [entry |-> x.target.value, kind |-> k] \in DiscoveredRoots(flow)
    BY <1>2, <1>4, <2>1 DEF DiscoveredRoots, EntryEdges
  <2>. QED BY <1>3, <2>2
<1>. QED BY <1>3, <1>4 DEF Rooted

LEMMA BuildRooted ==
  ASSUME Foundation, Rooted, BuildBlocks
  PROVE  Rooted'
<1>1. /\ roots' = roots /\ pending' = pending /\ phase' = "functions"
      /\ edges' = materialize_edges(blockOf') /\ blockOf' = [e \in Entries |-> e]
  BY BuildTypes DEF BuildBlocks, graphVars
<1>2. ASSUME NEW y \in edges', y.target_block # NoBlock
      PROVE  y.kind = "Fallthrough" \/ \E r \in roots : r.entry = y.target_block
  <2>1. PICK x \in pending :
          y = [source_block |-> blockOf'[x.source], source_entry |-> x.source,
               kind |-> x.kind, target_block |-> TargetBlock(blockOf', x.target),
               target |-> x.target]
    <3>1. edges' = materialize_edges(blockOf')
      BY <1>1
    <3>. QED BY <1>2, <3>1 DEF materialize_edges
  <2>2. x.target.tag = "Entry" /\ x.target.value \in Entries
    BY <1>2, <2>1 DEF TargetBlock, Foundation, TypeOK, IsPending
  <2>3. y.target_block = x.target.value
    BY <1>1, <2>1, <2>2 DEF TargetBlock
  <2>. QED BY <2>1, <2>2, <2>3 DEF Rooted
<1>. QED BY <1>1, <1>2 DEF Rooted

LEMMA StepRooted == Foundation /\ Rooted /\ [Next]_vars => Rooted'
<1>. SUFFICES ASSUME Foundation, Rooted, [Next]_vars PROVE Rooted'
  OBVIOUS
<1>1. CASE ClassifyEntry
  BY <1>1, ScanRooted
<1>2. CASE BuildBlocks
  BY <1>2, BuildRooted
<1>3. CASE CollectRoots
  BY <1>3 DEF Rooted, Foundation, Unbuilt, CollectRoots, blockVars
<1>4. CASE ~ClassifyEntry /\ ~BuildBlocks /\ ~CollectRoots
  <2>1. /\ roots' = roots /\ pending' = pending /\ edges' = edges
        /\ phase' = "roots" => phase = "roots"
    BY <1>4 DEF Next, vars, Fail, EndScan, StartFunction, StartSearch, BeginLabels,
       SkipCoveredLabel, StartOrphanLabel, Search, SearchBlock, PushFunction,
       EndFunctions, assign_block_functions, Finished, graphVars, blockVars
  <2>. QED BY <2>1 DEF Rooted
<1>. QED BY <1>1, <1>2, <1>3, <1>4

(* A block assign_block_functions leaves without a function is dead code   *)
(* nothing names: every root is in some function, every static target that *)
(* is not fallen into is a root, and a function that holds the source of a *)
(* fall-through holds its target or stops there at another's entry.        *)
THEOREM DeadCodeIsUnnamed == Spec => []UnownedIsUnreferenced
<1>1. ASSUME Foundation, RegionInv, Owned, Rooted, phase = "done",
             NEW x \in edges, x.target_block # NoBlock, owner[x.target_block] = NoOwner
      PROVE  x.kind = "Fallthrough" /\ owner[x.source_block] = NoOwner
  <2> DEFINE b == x.source_block
             c == x.target_block
  <2>1. Built /\ function_entries \subseteq Entered /\ label_entries \subseteq covered
    BY <1>1 DEF Built, RegionInv, FirstPass, SecondPass, Foundation, TypeOK
  <2>2. Entered \subseteq covered
    BY <1>1 DEF RegionInv, Listed, Closes, Entered, covered
  <2>3. /\ functions \in Seq([entry : Entries, blocks : SUBSET leaders])
        /\ \A f \in DOMAIN functions : f # NoOwner
    BY <1>1 DEF Foundation, TypeOK, NoOwner
  <2>4. b \in leaders /\ c \in leaders
    BY <1>1 DEF Foundation, TypeOK, IsEdge
  <2>5. \A l \in leaders : owner[l] = NoOwner <=> l \notin covered
    BY <1>1, <2>3, HolderFacts DEF Owned
  <2>6. c \notin covered /\ c \notin function_entries
    BY <1>1, <2>1, <2>2, <2>4, <2>5
  <2>7. x.kind = "Fallthrough"
    <3>1. \A r \in roots : r.entry \in covered
      BY <1>1, <2>1, <2>2, GraphFacts
    <3>. QED BY <1>1, <2>6, <3>1 DEF Rooted
  <2>8. <<b, c>> \in Flow
    BY <1>1, <2>7 DEF Flow, CallKinds
  <2>9. ASSUME NEW f \in DOMAIN functions, b \in functions[f].blocks
        PROVE  c \in functions[f].blocks
    <3>1. <<b, c>>[1] = b /\ <<b, c>>[2] = c
      OBVIOUS
    <3>2. Closes(functions[f].entry, functions[f].blocks)
      BY <1>1 DEF RegionInv, Listed
    <3>. HIDE DEF b, c
    <3>. QED BY <2>6, <2>8, <2>9, <3>1, <3>2 DEF Closes
  <2>10. b \notin covered
    BY <2>6, <2>9 DEF covered
  <2>. QED BY <2>4, <2>5, <2>7, <2>10
<1>2. Foundation /\ RegionInv /\ Owned /\ Rooted => UnownedIsUnreferenced
  BY <1>1 DEF UnownedIsUnreferenced
<1>3. Init => Rooted
  BY DEF Init, Rooted
<1>4. Spec => []Rooted
  BY <1>3, InitFoundation, StepFoundation, StepRooted, PTL DEF Spec
<1>. QED BY <1>2, <1>4, Reached, PTL

-----------------------------------------------------------------------------
(* The refinement.                                                         *)

LEMMA DiscoveredFields ==
  ASSUME Built
  PROVE  /\ DiscoveredGraph.known = TRUE /\ DiscoveredGraph.blocks = leaders
         /\ DiscoveredGraph.entries = function_entries
         /\ DiscoveredGraph.labels = label_entries /\ DiscoveredGraph.flow = Flow
         /\ DiscoveredGraph # Regions!NoGraph
<1>1. DiscoveredGraph = [known |-> TRUE, blocks |-> leaders, entries |-> function_entries,
                         labels |-> label_entries, flow |-> Flow]
  BY DEF DiscoveredGraph
<1>2. Regions!NoGraph.known = FALSE
  BY DEF Regions!NoGraph
<1>. QED BY <1>1, <1>2

(* What a finished search has seen is the region of its entry.             *)
LEMMA SeenIsRegion ==
  ASSUME Foundation, RegionInv, PushFunction
  PROVE  seen = Regions!Region(DiscoveredGraph, entering)
<1>1. phase = "search" /\ frontier = {} /\ Built /\ seen \subseteq leaders
  BY DEF PushFunction, Built, Foundation, TypeOK
<1>2. \A S : Regions!Closed(DiscoveredGraph, entering, S) <=> Closes(entering, S)
  BY <1>1, DiscoveredFields DEF Regions!Closed, Closes
<1>3. Closes(entering, seen)
  BY <1>1 DEF RegionInv, Searching, Closes
<1>4. \A S \in SUBSET leaders : Closes(entering, S) => seen \subseteq S
  BY <1>1 DEF RegionInv, Searching
<1>. QED BY <1>1, <1>2, <1>3, <1>4, DiscoveredFields DEF Regions!Region

LEMMA PublishStep ==
  ASSUME Foundation, RegionInv, [Next]_vars, PushFunction
  PROVE  Regions!Next
<1>1. phase = "search" /\ Built /\ DiscoveredGraph' = DiscoveredGraph
  <2>1. Built /\ phase = "search"
    BY DEF PushFunction, Built
  <2>. QED BY <2>1, GraphFixed DEF DiscoveredGraph
<1>2. Regions!Publish(entering)
  BY <1>1, SeenIsRegion DEF Regions!Publish, PushFunction
<1>3. Regions!Entered = Entered /\ Regions!Held = covered
  BY DEF Regions!Entered, Regions!Held, Entered, covered
<1>4. CASE pass = "functions"
  <2>1. /\ entering \in function_entries \ Entered
        /\ todo = (function_entries \ Entered) \ {entering}
        /\ \A d \in todo : entering <= d
    BY <1>1, <1>4 DEF RegionInv, FirstPass
  <2>2. \A d \in function_entries \ Entered : entering <= d
    BY <1>1, <2>1, GraphFacts
  <2>3. Regions!PublishEntry
    BY <1>1, <1>2, <1>3, <2>1, <2>2, DiscoveredFields DEF Regions!PublishEntry
  <2>. QED BY <2>3 DEF Regions!Next
<1>5. CASE pass = "labels"
  <2>1. /\ entering \in label_entries \ covered
        /\ (label_entries \ covered) \ {entering} \subseteq todo
        /\ \A d \in todo : entering <= d
        /\ function_entries \subseteq Entered
    BY <1>1, <1>5 DEF RegionInv, SecondPass
  <2>2. \A d \in label_entries \ covered : entering <= d
    BY <1>1, <2>1, GraphFacts
  <2>3. Regions!PublishOrphanLabel
    BY <1>1, <1>2, <1>3, <2>1, <2>2, DiscoveredFields DEF Regions!PublishOrphanLabel
  <2>. QED BY <2>3 DEF Regions!Next
<1>. QED BY <1>4, <1>5 DEF Foundation, TypeOK

LEMMA GraphInBlocks ==
  Foundation /\ Built => /\ Flow \subseteq leaders \X leaders
                         /\ function_entries \subseteq leaders
                         /\ label_entries \subseteq leaders
BY GraphFacts

LEMMA DiscoverStep ==
  ASSUME Foundation, Foundation', [Next]_vars, BuildBlocks
  PROVE  Regions!Next
<1>1. ~Built /\ Built' /\ functions' = functions
  BY DEF BuildBlocks, Built
<1>2. DiscoveredGraph = Regions!NoGraph
  BY <1>1 DEF DiscoveredGraph, Regions!NoGraph
<1>3. /\ Flow' \subseteq leaders' \X leaders'
      /\ function_entries' \subseteq leaders' /\ label_entries' \subseteq leaders'
  <2>1. (Foundation /\ Built => /\ Flow \subseteq leaders \X leaders
                                /\ function_entries \subseteq leaders
                                /\ label_entries \subseteq leaders)'
    BY GraphInBlocks, PTL
  <2>. QED BY <1>1, <2>1
<1>4. DiscoveredGraph' = [known |-> TRUE, blocks |-> leaders', entries |-> function_entries',
                          labels |-> label_entries', flow |-> Flow']
  BY <1>1 DEF DiscoveredGraph
<1>5. Regions!IsGraph(DiscoveredGraph')
  BY <1>3, <1>4 DEF Regions!IsGraph
<1>. QED BY <1>1, <1>2, <1>5 DEF Regions!Next, Regions!Discover

(* The search over blocks implements the definition of regions: every step *)
(* of analyze() discovers the graph, publishes the region of the entry or  *)
(* label that is due, or changes nothing FunctionRegions speaks of.        *)
THEOREM SearchImplementsRegions == Spec => ImplementsRegions
<1>1. Init => Regions!Init
  BY DEF Init, Regions!Init, DiscoveredGraph, Regions!NoGraph, Built
<1>2. ASSUME Foundation, Foundation', RegionInv, [Next]_vars
      PROVE  [Regions!Next]_<<DiscoveredGraph, functions>>
  <2>1. CASE BuildBlocks
    BY <1>2, <2>1, DiscoverStep
  <2>2. CASE PushFunction
    BY <1>2, <2>2, PublishStep
  <2>3. CASE Built /\ ~PushFunction
    <3>1. DiscoveredGraph' = DiscoveredGraph
      BY <1>2, <2>3, GraphFixed DEF DiscoveredGraph
    <3>2. functions' = functions
      BY <1>2, <2>3 DEF Next, vars, Fail, CollectRoots, ClassifyEntry, EndScan, BuildBlocks,
         StartFunction, StartSearch, BeginLabels, SkipCoveredLabel, StartOrphanLabel, Search,
         SearchBlock, EndFunctions, assign_block_functions, Finished, functionVars
    <3>. QED BY <3>1, <3>2
  <2>4. CASE ~Built /\ ~BuildBlocks
    <3>1. ~Built' /\ functions' = functions
      BY <1>2, <2>4 DEF Built, Next, vars, Fail, CollectRoots, ClassifyEntry, EndScan,
         StartFunction, StartSearch, BeginLabels, SkipCoveredLabel, StartOrphanLabel, Search,
         SearchBlock, PushFunction, EndFunctions, assign_block_functions, Finished, functionVars
    <3>. QED BY <2>4, <3>1 DEF DiscoveredGraph
  <2>. QED BY <2>1, <2>2, <2>3, <2>4
<1>. QED
  BY <1>1, <1>2, Reached, PTL DEF Spec, ImplementsRegions, Regions!Spec
===============================================================================
