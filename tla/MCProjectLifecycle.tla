------------------------ MODULE MCProjectLifecycle ------------------------
(* An instance of ProjectLifecycle for TLC: the rule is shipped by the first *)
(* version only, the agent from the second on, everything else by both.      *)
EXTENDS ProjectLifecycle

CONSTANTS rule, agent, memory

MCNeutralOf == [p \in OldMemory |-> memory]
MCShips(v) == Paths \ (IF v = 1 THEN {agent} ELSE {rule})
MCPolicies == {{}, {"claude"}}
=============================================================================
