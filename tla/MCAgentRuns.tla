---------------------------- MODULE MCAgentRuns ----------------------------
(* AgentRuns for TLC: callers are interchangeable, and so are tasks. *)
EXTENDS AgentRuns, TLC

Symmetry == Permutations(Callers) \union Permutations(Tasks)

\* The task's limit binds, the workspace's, or both.
TaskBinds      == [task |-> 1, workspace |-> 4, operations |-> 2]
WorkspaceBinds == [task |-> 2, workspace |-> 1, operations |-> 1]
Either == {TaskBinds, WorkspaceBinds}
Both   == {[task |-> 1, workspace |-> 1, operations |-> 0]}
=============================================================================
