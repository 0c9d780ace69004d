------------------------ MODULE MCWorkflowAdmission ------------------------
(***************************************************************************)
(* Small instances of WorkflowAdmission, and the compilation of every      *)
(* graph of up to three nodes.                                             *)
(***************************************************************************)
EXTENDS WorkflowAdmission

CONSTANTS k1, k2, k3, k4, k5

Definition(nodes, edges, outputs, wellTyped) ==
    [nodes |-> nodes, edges |-> edges, outputs |-> outputs, wellTyped |-> wellTyped]

\* Node 2 feeds node 1, only through a binding.
Feeding == Definition({1, 2}, {}, {<<2, 1>>}, TRUE)
\* The same two nodes the other way round, by an edge.
Chain == Definition({1, 2}, {<<1, 2>>}, {}, TRUE)
\* The edge and the binding contradict each other.
Loop == Definition({1, 2}, {<<1, 2>>}, {<<2, 1>>}, TRUE)

Drafts == {Feeding, Chain, Loop}

Puts(keys, workflows, expected, drafts, triggers) ==
    keys \X [op : {"put"}, workflow : workflows, expected : expected, definition : drafts,
             trigger : triggers]
Changes(op, keys, workflows, expected) ==
    keys \X [op : {op}, workflow : workflows, expected : expected]

-----------------------------------------------------------------------------
(* One workflow is saved, edited while it is activated and run once, and paused. *)
Editing ==
    Puts({k1}, {1}, {0}, {Feeding}, {"every_minute"})
      \cup Puts({k2}, {1}, {1}, {Chain}, {"every_minute"})
      \cup Puts({k2}, {1}, {1}, {Feeding}, {"unparsable"})
      \cup Changes("activate", {k3}, {1}, {1, 2})
      \cup Changes("run_once", {k4}, {1}, {2})
      \cup Changes("pause", {k5}, {1}, {3})

-----------------------------------------------------------------------------
Graphs ==
    UNION {[nodes : {nodes}, edges : SUBSET ((1 .. 3) \X (1 .. 3)),
            outputs : SUBSET ({1, 4} \X nodes), wellTyped : {TRUE}] :
             nodes \in SUBSET (1 .. 3)}

\* Compilation accepts what can run, in an order that can run it.
ASSUME CompilationIsExact == \A d \in Graphs : CompilesWhatCanRun(d)
=============================================================================
