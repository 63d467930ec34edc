--------------------------- MODULE FunctionRegions ----------------------------
(***************************************************************************)
(* What installer/script.rs promises of the functions of a script, without *)
(* the search that finds them.  A graph of blocks is discovered; then, one *)
(* at a time, each function entry and after them each label that no        *)
(* function holds becomes a function, whose blocks are its region: all that *)
(* flow reaches from its entry without entering another function.          *)
(***************************************************************************)
EXTENDS Integers, Sequences

VARIABLES
  graph,      (* The control-flow graph, or NoGraph before it is known.    *)
  functions   (* The functions published so far, in order.                 *)

NoGraph == [known |-> FALSE]

(* Flow that stays in a function: calls are not flow.                      *)
IsGraph(g) ==
  /\ g.known = TRUE
  /\ g.flow \subseteq g.blocks \X g.blocks
  /\ g.entries \subseteq g.blocks
  /\ g.labels \subseteq g.blocks

Closed(g, e, S) ==
  /\ e \in S
  /\ \A x \in g.flow : x[1] \in S /\ x[2] \notin g.entries => x[2] \in S

(* The least set that holds e and is closed under flow.                    *)
Region(g, e) == {b \in g.blocks : \A S \in SUBSET g.blocks : Closed(g, e, S) => b \in S}

Entered == {functions[f].entry : f \in DOMAIN functions}
Held    == UNION {functions[f].blocks : f \in DOMAIN functions}

Init == graph = NoGraph /\ functions = <<>>

Discover ==
  /\ graph = NoGraph
  /\ IsGraph(graph')
  /\ UNCHANGED functions

Publish(e) ==
  /\ functions' = Append(functions, [entry |-> e, blocks |-> Region(graph, e)])
  /\ UNCHANGED graph

(* Function entries are published first, in ascending order.               *)
PublishEntry ==
  /\ graph # NoGraph
  /\ \E e \in graph.entries \ Entered :
       /\ \A d \in graph.entries \ Entered : e <= d
       /\ Publish(e)

(* Then the labels still in no function, in ascending order.               *)
PublishOrphanLabel ==
  /\ graph # NoGraph
  /\ graph.entries \subseteq Entered
  /\ \E e \in graph.labels \ Held :
       /\ \A d \in graph.labels \ Held : e <= d
       /\ Publish(e)

Next == Discover \/ PublishEntry \/ PublishOrphanLabel

Spec == Init /\ [][Next]_<<graph, functions>>
===============================================================================
