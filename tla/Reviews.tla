-------------------------------- MODULE Reviews --------------------------------
(***************************************************************************)
(* The artifacts and reviews of a maker-checker run (maker_checker.py).    *)
(***************************************************************************)
EXTENDS Integers, Sequences, FiniteSets

CONSTANTS Artifacts,     \* what a maker may submit
          Blockers,      \* finding ids a reviewer may cite as blocking
          MaxSeverity,   \* the rank of the worst severity
          MaxRevisions,  \* max_revisions of the frozen policy
          None           \* the absent value

ASSUME ReviewAssumption == /\ MaxSeverity \in Nat \ {0}
                           /\ MaxRevisions \in Nat
                           /\ None \notin Artifacts

\* The blocking findings of a review with their rank; 0 is not cited.
Findings == [Blockers -> 0 .. MaxSeverity]
Cited(f) == {b \in Blockers : f[b] > 0}

\* _has_strict_blocking_finding_progress
Progress(prior, current) == /\ Cited(current) \subseteq Cited(prior)
                            /\ Cited(current) # Cited(prior)
                            /\ \A b \in Blockers : current[b] <= prior[b]
=============================================================================
