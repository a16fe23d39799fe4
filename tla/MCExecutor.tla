----------------------------- MODULE MCExecutor -----------------------------
(* Small instances of Executor for TLC. *)
EXTENDS Executor

\* Calls are integers so that they can be mapped to ids.
TwoCalls == 1..2
FreshTwo == [e \in TwoCalls |-> e]         \* ids the MCP server generates
SharedTwo == [e \in TwoCalls |-> 1]        \* both callers chose the same id
=============================================================================
