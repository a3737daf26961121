-------------------------- MODULE MCWorkflowExecutor --------------------------
EXTENDS WorkflowExecutor

\* Two reviewers in one parallel panel, one of them conditional, and a build
\* that rests on both and owns the only gate.
MCDependsOn == [review |-> {}, risk |-> {}, build |-> {"review", "risk"}]
MCOrder == <<"review", "risk", "build">>
MCOwner == <<"build">>

\* The current release takes two locks, an earlier one only the last; they
\* disagree about the condition.
MCLocksOf == [new |-> <<"root", "legacy">>, old |-> <<"legacy">>]
MCDecisionOf == [new |-> TRUE, old |-> FALSE]

MCFindings == {[id |-> "a", severity |-> "medium"]}

MCMayFind == [s \in Stages |-> Findings]

\* Every kind of result, at the stage where it matters.
MCOutcomes == [review |-> {"pass", "crash"}, risk |-> {"reject", "human"},
               build |-> {"findings", "timeout", "reject"}]
=============================================================================
