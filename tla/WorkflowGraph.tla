--------------------------- MODULE WorkflowGraph ---------------------------
(***************************************************************************)
(* Compilation of a workflow definition: the dependencies its input        *)
(* bindings imply, and the order its nodes run in                          *)
(* (orchestration/src/domain/graph/compile.rs).                            *)
(*                                                                         *)
(* A definition has nodes, which are numbers in the order of their names,  *)
(* explicit edges <<source, target>>, and outputs: the pairs <<source,     *)
(* target>> such that an input of target is bound to an output of source.  *)
(* What a node's own contract asks of its action and inputs is summarised  *)
(* by wellTyped.                                                           *)
(***************************************************************************)
EXTENDS Naturals, Sequences, FiniteSets

CONSTANT MaxEdges

Definitions ==
    [nodes : SUBSET Nat, edges : SUBSET (Nat \X Nat), outputs : SUBSET (Nat \X Nat),
     wellTyped : BOOLEAN]

Dependencies(d) == d.edges \cup d.outputs

\* Every edge and every binding names nodes of the definition.
Closed(d) == \A e \in Dependencies(d) : e[1] \in d.nodes /\ e[2] \in d.nodes

\* The nodes no remaining node must precede.
Ready(dependencies, remaining) ==
    {n \in remaining : \A e \in dependencies : e[2] = n => e[1] \notin remaining}

First(S) == CHOOSE n \in S : \A m \in S : n <= m

(***************************************************************************)
(* The loop over the remaining nodes: the first ready one goes next, and   *)
(* the loop ends early when none is ready, which is a cycle.               *)
(***************************************************************************)
Sorted(nodes, dependencies) ==
    LET after[remaining \in SUBSET nodes] ==
          LET ready == Ready(dependencies, remaining)
          IN  IF ready = {} THEN <<>>
              ELSE <<First(ready)>> \o after[remaining \ {First(ready)}]
    IN  after[nodes]

Order(d) == Sorted(d.nodes, Dependencies(d))

Compiles(d) ==
    /\ d.nodes # {}
    /\ d.wellTyped
    /\ Closed(d)
    /\ Cardinality(Dependencies(d)) <= MaxEdges
    /\ Len(Order(d)) = Cardinality(d.nodes)

\* The definition a version keeps: the implied dependencies have become edges.
Compiled(d) == [d EXCEPT !.edges = Dependencies(d)]

-----------------------------------------------------------------------------
\* order runs every node of d once, and none before what it depends on.
Executable(d, order) ==
    /\ Len(order) = Cardinality(d.nodes)
    /\ {order[i] : i \in DOMAIN order} = d.nodes
    /\ \A i, j \in DOMAIN order : <<order[i], order[j]>> \in Dependencies(d) => i < j

\* The order that compilation finds can be run.
OrderRuns(d) == Compiles(d) => Executable(d, Order(d))

Orderings(S) == {p \in [1 .. Cardinality(S) -> S] : {p[i] : i \in DOMAIN p} = S}

\* What compilation is for: it succeeds on exactly the well-typed definitions whose nodes
\* some order could run, and then its own order is such an order.
CompilesWhatCanRun(d) ==
    LET runnable == /\ d.nodes # {} /\ d.wellTyped /\ Closed(d)
                    /\ Cardinality(Dependencies(d)) <= MaxEdges
                    /\ \E p \in Orderings(d.nodes) : Executable(d, p)
    IN  /\ Compiles(d) <=> runnable
        /\ OrderRuns(d)
=============================================================================
