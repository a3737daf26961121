---------------------------- MODULE MCManagedGates ----------------------------
EXTENDS ManagedGates, TLC

\* A review, a conditional build that rests on it, and the closeout.
MCDependsOn == [review |-> {}, build |-> {"review"}, closeout |-> {"review", "build"}]

\* The conditional stage owns the last gate.
MCOwner == <<"review", "build">>

Found(id, severity) == [id |-> id, severity |-> severity]

\* The review finds up to two medium findings; the build may rate one of them
\* low, which makes the evidence conflict, and the closeout finds nothing.
MCFindings == {Found("a", "medium"), Found("b", "medium"), Found("a", "low")}
MCMayFind == [review |-> {Found("a", "medium"), Found("b", "medium")},
              build |-> {Found("a", "low"), Found("b", "medium")}, closeout |-> {}]

\* Dispatch ids are only compared.
MCSymmetry == Permutations(Dispatches)
=============================================================================
