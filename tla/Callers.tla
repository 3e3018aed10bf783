------------------------------- MODULE Callers -------------------------------
(***************************************************************************)
(* The judge's two callers that are no HTTP server (src/main.rs): a        *)
(* process is the MCP server or an evaluation.                             *)
(***************************************************************************)
EXTENDS Mcp, Evaluation

CallersInit == Init /\ EvaluationInit /\ up = (command = "mcp")
CallersNext ==
    \/ Next /\ UNCHANGED evaluation
    \/ EvaluationNext /\ UNCHANGED mcp
CallersSpec == CallersInit /\ [][CallersNext]_<<vars, evaluation>>
==============================================================================
