---------------------------- MODULE MCAgentStop ----------------------------
(***************************************************************************)
(* Instances of AgentStop: two requests in flight, two ids a preview may   *)
(* mint, two attempts to stop, and every kind of plan.                     *)
(***************************************************************************)
EXTENDS AgentStop

CONSTANTS o1, o2, c1, c2, a1, a2

\* Typed, carried and as a turn; and a checkout of its own that a stop can remove.
MCPlan ==
    {[native |-> TRUE, prompt |-> TRUE, carries |-> FALSE, dedicated |-> FALSE],
     [native |-> TRUE, prompt |-> TRUE, carries |-> TRUE, dedicated |-> FALSE],
     [native |-> FALSE, prompt |-> TRUE, carries |-> FALSE, dedicated |-> FALSE],
     [native |-> FALSE, prompt |-> FALSE, carries |-> FALSE, dedicated |-> TRUE]}
=============================================================================
