--------------------------- MODULE MakerCheckerLoop ---------------------------
(***************************************************************************)
(* What a maker-checker run promises (maker_checker.py): artifacts are     *)
(* submitted and reviewed in turns, a failed review opens another round    *)
(* only while the revision budget lasts and the blocking findings shrink,  *)
(* and only a review ends the run as passed.  A project holds one run at a *)
(* time; MakerChecker is the coordinator that keeps this promise.          *)
(***************************************************************************)
EXTENDS Reviews

VARIABLES phase,     \* where the run stands
          artifact,  \* the artifact submitted last
          reviews    \* the findings of its failed reviews

loop == <<phase, artifact, reviews>>

LoopTypeOK == /\ phase \in {"none", "making", "reviewing", "passed", "stopped"}
              /\ artifact \in Artifacts \cup {None}
              /\ reviews \in Seq(Findings)

LoopInit == phase = "none" /\ artifact = None /\ reviews = <<>>

Start == /\ phase \in {"none", "passed", "stopped"}
         /\ phase' = "making"
         /\ artifact' = None
         /\ reviews' = <<>>

\* A revision differs from what was reviewed before.
Submit(a) == /\ phase = "making"
             /\ a # artifact
             /\ phase' = "reviewing"
             /\ artifact' = a
             /\ UNCHANGED reviews

Pass == phase = "reviewing" /\ phase' = "passed" /\ UNCHANGED <<artifact, reviews>>

Continues(f) == /\ Len(reviews) < MaxRevisions
                /\ reviews # <<>> => Progress(reviews[Len(reviews)], f)

\* A failed review opens another round, or is the last thing that happens.
Fail(f) == /\ phase = "reviewing"
           /\ Cited(f) # {}
           /\ reviews' = Append(reviews, f)
           /\ phase' = IF Continues(f) THEN "making" ELSE "stopped"
           /\ UNCHANGED artifact

Stop == /\ phase \in {"making", "reviewing"}
        /\ phase' = "stopped"
        /\ UNCHANGED <<artifact, reviews>>


LoopNext == \/ Start \/ Pass \/ Stop
            \/ \E a \in Artifacts : Submit(a)
            \/ \E f \in Findings : Fail(f)

LoopSpec == LoopInit /\ [][LoopNext]_loop

---------------------------------------------------------------------------
\* The budget of the policy holds: at most MaxRevisions + 1 reviews fail, and
\* none of them is left to answer once the run goes on making.
WithinBudget == /\ Len(reviews) <= MaxRevisions + 1
                /\ phase \in {"making", "reviewing"} => Len(reviews) <= MaxRevisions

\* Every failed review but the last cited strictly more than any later one
\* that opened a round.
Shrinking == \A i, j \in 1 .. Len(reviews) :
    /\ i < j
    /\ j < Len(reviews) \/ phase \in {"making", "reviewing", "passed"}
    => Progress(reviews[i], reviews[j])
=============================================================================
