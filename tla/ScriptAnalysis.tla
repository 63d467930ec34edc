---------------------------- MODULE ScriptAnalysis ----------------------------
(***************************************************************************)
(* installer/script.rs, analyze(): from the entries of one installer to    *)
(* roots, basic blocks, edges and functions.  The scan takes one step per  *)
(* entry, the search for a function's blocks one step per block.           *)
(*                                                                         *)
(* A block is named by its first entry: the code numbers the leaders in    *)
(* ascending order, so the two namings are in bijection and order.  The    *)
(* code's queue of blocks to search is a set here, so a block is taken in  *)
(* every order; what the search returns is a sorted set.                   *)
(***************************************************************************)
EXTENDS ScriptFlow, Sequences, FiniteSets

CONSTANT Scripts     (* The installers analyze() may be given.             *)

(***************************************************************************)
(* A script: its entries, the raw operands the header names as roots       *)
(* (section code, callback slots, page handlers), and whether every entry, *)
(* section and page structure parses.                                      *)
(***************************************************************************)
IsScript(s) ==
  /\ s.count \in Nat
  /\ s.code \in [0 .. s.count - 1 -> Instruction]
  /\ s.hooks \subseteq [kind : StructuralKinds, raw : Int]
  /\ s.readable \in BOOLEAN

ASSUME ScriptsAssumption == \A s \in Scripts : IsScript(s)

VARIABLES
  script,       (* The installer under analysis; never changes.            *)
  phase,        (* Where analyze() is.                                     *)
  index,        (* The next entry to classify.                             *)
  roots,        (* ScriptAnalysis::roots, unordered.                       *)
  leaders,      (* First entries of blocks.                                *)
  pending,      (* PendingEdges.                                           *)
  diagnostics,  (* InvalidTarget diagnostics.                              *)
  blockOf,      (* entry_to_block.                                         *)
  edges,        (* Materialised edges.                                     *)
  pass,         (* Which loop of build_functions is running.               *)
  todo,         (* Entries of that loop still to come.                     *)
  entering,     (* The entry whose function is being built.                *)
  seen,         (* reachable_blocks: blocks found.                         *)
  frontier,     (* reachable_blocks: blocks found and not yet searched.    *)
  functions,    (* ScriptAnalysis::functions.                              *)
  owner         (* BasicBlock::function, by block.                         *)

graphVars    == <<roots, leaders, pending, diagnostics, index>>
blockVars    == <<blockOf, edges>>
searchVars   == <<entering, seen, frontier>>
functionVars == <<pass, todo, functions, searchVars>>
vars == <<script, phase, graphVars, blockVars, functionVars, owner>>

Phases == {"roots", "scan", "blocks", "functions", "search", "assign",
           "done", "failed"}

entry_count == script.count
Entries     == 0 .. entry_count - 1

NoOwner == 0

Root(e, k) == [entry |-> e, kind |-> k]

-----------------------------------------------------------------------------

Init ==
  /\ script \in Scripts
  /\ phase = "roots"
  /\ index = 0
  /\ roots = {} /\ leaders = {} /\ pending = {} /\ diagnostics = {}
  /\ blockOf = <<>> /\ edges = {}
  /\ pass = "functions" /\ todo = {}
  /\ entering = 0 /\ seen = {} /\ frontier = {}
  /\ functions = <<>> /\ owner = <<>>

(* Any structure that does not parse fails the whole analysis.             *)
Fail ==
  /\ phase = "roots" /\ ~script.readable
  /\ phase' = "failed"
  /\ UNCHANGED <<script, graphVars, blockVars, functionVars, owner>>

collect_structural_roots ==
  {Root(h.raw, h.kind) : h \in {x \in script.hooks : direct_index(x.raw, entry_count)}}

EntryZeroRoot == IF entry_count > 0 THEN {Root(0, "EntryZero")} ELSE {}

CollectRoots ==
  /\ phase = "roots" /\ script.readable
  /\ roots' = collect_structural_roots \cup EntryZeroRoot
  /\ leaders' = {r.entry : r \in roots'}
  /\ phase' = "scan"
  /\ UNCHANGED <<script, pending, diagnostics, index, blockVars, functionVars,
                 owner>>

(* The static targets of a set of edges.                                   *)
EntryEdges(E)     == {x \in E : x.target.tag = "Entry"}
StaticTargets(E)  == {x.target.value : x \in EntryEdges(E)}
DiscoveredRoots(E) ==
  {r \in [entry : Entries, kind : RootKinds] :
     \E x \in EntryEdges(E) : x.target.value = r.entry /\ <<x.kind, r.kind>> \in RootOfEdge}
InvalidTargets(E) ==
  {[entry |-> x.source, operand |-> x.operand, raw |-> x.target.value] :
     x \in {y \in E : y.target.tag = "Invalid"}}

NextLeader(ins, i) == IF starts_next_block(ins) /\ i + 1 < entry_count THEN {i + 1} ELSE {}

ClassifyEntry ==
  /\ phase = "scan" /\ index < entry_count
  /\ LET ins  == script.code[index]
         flow == classify_opcode(ins, index, entry_count)
     IN  /\ leaders' = leaders \cup NextLeader(ins, index) \cup StaticTargets(flow)
         /\ roots' = roots \cup DiscoveredRoots(flow)
         /\ diagnostics' = diagnostics \cup InvalidTargets(flow)
         /\ pending' = pending \cup flow
  /\ index' = index + 1
  /\ UNCHANGED <<script, phase, blockVars, functionVars, owner>>

EndScan ==
  /\ phase = "scan" /\ index = entry_count
  /\ leaders' = leaders \cup {r.entry : r \in roots}
  /\ phase' = "blocks"
  /\ UNCHANGED <<script, index, roots, pending, diagnostics, blockVars,
                 functionVars, owner>>

(* The block an entry is in starts at the last leader not after it.        *)
IsBlockOf(b, e) ==
  /\ b \in leaders /\ b <= e
  /\ \A l \in leaders : l <= e => l <= b

build_blocks ==
  [e \in Entries |->
     IF \E b \in Entries : IsBlockOf(b, e)
       THEN CHOOSE b \in Entries : IsBlockOf(b, e)
       ELSE NoBlock]

TargetBlock(map, target) ==
  IF target.tag = "Entry" THEN map[target.value] ELSE NoBlock

materialize_edges(map) ==
  {[source_block |-> map[x.source], source_entry |-> x.source, kind |-> x.kind,
    target_block |-> TargetBlock(map, x.target), target |-> x.target] :
     x \in {y \in pending : map[y.source] # NoBlock}}

function_entries == {r.entry : r \in {x \in roots : starts_function(x)}}
label_entries    == {r.entry : r \in roots} \ function_entries

BuildBlocks ==
  /\ phase = "blocks"
  /\ blockOf' = build_blocks
  /\ edges' = materialize_edges(blockOf')
  /\ phase' = "functions" /\ pass' = "functions" /\ todo' = function_entries
  /\ UNCHANGED <<script, graphVars, searchVars, functions, owner>>

-----------------------------------------------------------------------------

(* The entry a BTreeMap yields next.                                       *)
IsNext(e) == e \in todo /\ \A f \in todo : e <= f

(* push_function up to its call of reachable_blocks.                       *)
StartSearch(e) ==
  /\ entering' = e
  /\ seen' = {blockOf[e]} /\ frontier' = {blockOf[e]}
  /\ todo' = todo \ {e}
  /\ phase' = "search"
  /\ UNCHANGED <<script, graphVars, blockVars, pass, functions, owner>>

StartFunction(e) ==
  /\ phase = "functions" /\ pass = "functions" /\ IsNext(e)
  /\ StartSearch(e)

covered == UNION {functions[f].blocks : f \in DOMAIN functions}

(* Mutant: the second loop is missing.                                     *)
BeginLabelsWithNone ==
  /\ phase = "functions" /\ pass = "functions" /\ todo = {}
  /\ pass' = "labels" /\ todo' = {}
  /\ UNCHANGED <<script, phase, graphVars, blockVars, searchVars, functions, owner>>

BeginLabels ==
  /\ phase = "functions" /\ pass = "functions" /\ todo = {}
  /\ pass' = "labels" /\ todo' = label_entries
  /\ UNCHANGED <<script, phase, graphVars, blockVars, searchVars, functions, owner>>

SkipCoveredLabel(e) ==
  /\ phase = "functions" /\ pass = "labels" /\ IsNext(e)
  /\ blockOf[e] \in covered
  /\ todo' = todo \ {e}
  /\ UNCHANGED <<script, phase, graphVars, blockVars, pass, searchVars,
                 functions, owner>>

StartOrphanLabel(e) ==
  /\ phase = "functions" /\ pass = "labels" /\ IsNext(e)
  /\ blockOf[e] \notin covered
  /\ StartSearch(e)

(* Mutants: a function runs on into the next one; only blocks further on   *)
(* are searched.                                                           *)
MayFollowIntoEntries(x, start) ==
  x.kind \notin CallKinds /\ x.target_block # NoBlock

MayFollowForward(x, start) ==
  /\ x.kind \notin CallKinds
  /\ x.target_block > x.source_block
  /\ x.target_block = start \/ x.target_block \notin function_entries

(* Calls are not followed, and another function's entry is not entered.    *)
MayFollow(x, start) ==
  /\ x.kind \notin CallKinds
  /\ x.target_block # NoBlock
  /\ x.target_block = start \/ x.target_block \notin function_entries

Successors(b, start) ==
  {x.target_block : x \in {y \in edges : y.source_block = b /\ MayFollow(y, start)}}

(* Mutant: a block that was seen before is queued again.                   *)
SearchBlockAgain(b) ==
  /\ phase = "search" /\ b \in frontier
  /\ LET found == Successors(b, blockOf[entering])
     IN  /\ seen' = seen \cup found
         /\ frontier' = (frontier \ {b}) \cup found
  /\ UNCHANGED <<script, phase, graphVars, blockVars, pass, todo, entering,
                 functions, owner>>

(* One turn of the loop of reachable_blocks.                               *)
SearchBlock(b) ==
  /\ phase = "search" /\ b \in frontier
  /\ LET found == Successors(b, blockOf[entering]) \ seen
     IN  /\ seen' = seen \cup found
         /\ frontier' = (frontier \ {b}) \cup found
  /\ UNCHANGED <<script, phase, graphVars, blockVars, pass, todo, entering,
                 functions, owner>>

(* push_function once reachable_blocks has returned.                       *)
PushFunction ==
  /\ phase = "search" /\ frontier = {}
  /\ functions' = Append(functions, [entry |-> entering, blocks |-> seen])
  /\ phase' = "functions"
  /\ UNCHANGED <<script, graphVars, blockVars, pass, todo, searchVars, owner>>

EndFunctions ==
  /\ phase = "functions" /\ pass = "labels" /\ todo = {}
  /\ phase' = "assign"
  /\ UNCHANGED <<script, graphVars, blockVars, functionVars, owner>>

(* Mutant: a later function takes a block from an earlier one.             *)
LastHolder(b) ==
  IF b \in covered
    THEN CHOOSE f \in DOMAIN functions :
           /\ b \in functions[f].blocks
           /\ \A g \in DOMAIN functions : b \in functions[g].blocks => f >= g
    ELSE NoOwner

(* The first function that holds a block owns it.                          *)
FirstHolder(b) ==
  IF b \in covered
    THEN CHOOSE f \in DOMAIN functions :
           /\ b \in functions[f].blocks
           /\ \A g \in DOMAIN functions : b \in functions[g].blocks => f <= g
    ELSE NoOwner

assign_block_functions ==
  /\ phase = "assign"
  /\ owner' = [b \in leaders |-> FirstHolder(b)]
  /\ phase' = "done"
  /\ UNCHANGED <<script, graphVars, blockVars, functionVars>>

Finished == phase \in {"done", "failed"} /\ UNCHANGED vars

Search == (\E b \in Entries : SearchBlock(b)) \/ PushFunction

Next ==
  \/ Fail \/ CollectRoots
  \/ ClassifyEntry \/ EndScan
  \/ BuildBlocks
  \/ \E e \in Entries : StartFunction(e)
  \/ BeginLabels
  \/ \E e \in Entries : SkipCoveredLabel(e)
  \/ \E e \in Entries : StartOrphanLabel(e)
  \/ Search
  \/ EndFunctions
  \/ assign_block_functions
  \/ Finished

(* analyze() is one call on one thread: it runs until it returns.          *)
Spec == Init /\ [][Next]_vars /\ WF_vars(Next)
-----------------------------------------------------------------------------
(* Properties.                                                             *)

Built    == phase \in {"functions", "search", "assign", "done"}
Complete == phase \in {"assign", "done"}

Edges == [source : Entries, operand : Slots \cup {NoOperand}, kind : EdgeKinds,
          target : [tag : {"Entry", "DynamicVariable", "Invalid", "Exit", "None"},
                    value : Int]]

IsPending(x) ==
  /\ x \in Edges
  /\ x.target.tag = "Entry" => x.target.value \in Entries

IsEdge(x) ==
  /\ x.source_entry \in Entries /\ x.kind \in EdgeKinds
  /\ x.source_block \in leaders
  /\ x.target_block \in leaders \cup {NoBlock}

(* The types of the variables; once the blocks exist every edge, search    *)
(* set and function speaks of existing blocks only.                        *)
TypeOK ==
  /\ script \in Scripts
  /\ phase \in Phases /\ pass \in {"functions", "labels"}
  /\ index \in 0 .. entry_count
  /\ roots \subseteq [entry : Entries, kind : RootKinds]
  /\ leaders \subseteq Entries
  /\ \A x \in pending : IsPending(x)
  /\ \A d \in diagnostics : d.entry \in Entries /\ d.raw \in Int
  /\ Built => blockOf \in [Entries -> leaders \cup {NoBlock}]
  /\ \A x \in edges : IsEdge(x)
  /\ todo \subseteq Entries
  /\ phase = "search" => entering \in Entries
  /\ seen \subseteq leaders /\ frontier \subseteq seen
  /\ functions \in Seq([entry : Entries, blocks : SUBSET leaders])
  /\ phase = "done" => owner \in [leaders -> 0 .. Len(functions)]

(* No instruction swallows control: an entry that was classified has an    *)
(* edge, unless it is the last one and control runs off the script's end.  *)
ControlNeverVanishes ==
  \A i \in 0 .. index - 1 :
    i + 1 < entry_count => \E x \in pending : x.source = i

(* A function runs until the next function's entry (script.rs:971): no     *)
(* function's blocks include another function's entry.                     *)
NoFunctionEntersAnother ==
  \A f \in DOMAIN functions :
    functions[f].blocks \cap function_entries \subseteq {functions[f].entry}

(* When build_functions returns, what can be entered from outside is a     *)
(* function of its own, exactly one, and every label is in some function.  *)
EveryRootIsHeld ==
  Complete =>
    \A r \in roots :
      /\ blockOf[r.entry] \in covered
      /\ starts_function(r) =>
           \E f \in DOMAIN functions :
             /\ functions[f].entry = r.entry
             /\ \A g \in DOMAIN functions : functions[g].entry = r.entry => g = f

(* A function owns the block it is entered at, whatever other functions    *)
(* reach and however early they were numbered.                             *)
FunctionOwnsItsEntry ==
  phase = "done" =>
    \A f \in DOMAIN functions : owner[blockOf[functions[f].entry]] = f

(* A block without a function is dead code nothing names: every edge into  *)
(* it falls through from a block without a function.                       *)
UnownedIsUnreferenced ==
  phase = "done" =>
    \A x \in edges :
      x.target_block # NoBlock /\ owner[x.target_block] = NoOwner =>
        x.kind = "Fallthrough" /\ owner[x.source_block] = NoOwner

(* Non-call edges between blocks, which a function's region follows.       *)
Flow ==
  {<<x.source_block, x.target_block>> :
     x \in {y \in edges : y.kind \notin CallKinds /\ y.target_block # NoBlock}}

DiscoveredGraph ==
  IF Built
    THEN [known |-> TRUE, blocks |-> leaders, entries |-> function_entries,
          labels |-> label_entries, flow |-> Flow]
    ELSE [known |-> FALSE]

Regions == INSTANCE FunctionRegions WITH graph <- DiscoveredGraph

(* The search publishes exactly the regions FunctionRegions defines, for   *)
(* exactly the entries it names and in its order.                          *)
ImplementsRegions == Regions!Spec

(* analyze() returns, however the script jumps around itself.              *)
Termination == <>(phase \in {"done", "failed"})
===============================================================================
