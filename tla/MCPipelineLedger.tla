------------------------- MODULE MCPipelineLedger -------------------------
(* Instances of PipelineLedger for TLC: policy pA lets the last gate be    *)
(* not-applicable, policy pB requires every gate.                          *)
EXTENDS PipelineLedger, TLC

CONSTANTS pA, pB
MCConditional == [p \in Policies |-> IF p = pA THEN {NumGates} ELSE {}]

Permutable == Permutations(Findings) \cup Permutations(Commits) \cup Permutations(Versions)
=============================================================================
