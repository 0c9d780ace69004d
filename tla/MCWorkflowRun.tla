--------------------------- MODULE MCWorkflowRun ---------------------------
(***************************************************************************)
(* Two backend processes execute a run that mixes both kinds of action.    *)
(***************************************************************************)
EXTENDS WorkflowRun

Mixed == <<"command", "agent", "command">>
=============================================================================
