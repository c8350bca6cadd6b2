-------------------------- MODULE MCSubagentRuntime --------------------------
(* Model values and symmetry for checking SubagentRuntime with TLC.        *)
EXTENDS SubagentRuntime, TLC

Symmetry == Permutations(Parents) \cup Permutations(Jobs)
=============================================================================
