---------------------------- MODULE GateLedger ----------------------------
(***************************************************************************)
(* What a pipeline run promises its readers, without evidence, findings or *)
(* risks: the installed gates are resolved one after the other, each once  *)
(* and for good; a run with a pending human stop resolves nothing; a run   *)
(* completes only when every gate is resolved; a terminal run never        *)
(* changes again and is kept, as it ended, when the next run begins.       *)
(***************************************************************************)
EXTENDS Integers, Sequences

CONSTANT NumGates        \* how many gates the installed policy orders, at least one

VARIABLES status,        \* "none" before the first run
          base,          \* gates an adoption declared historical
          outcomes,      \* how the gates after base were resolved, in order
          held,          \* a human stop is pending
          past           \* the terminal runs before this one

vars == <<status, base, outcomes, held, past>>

Outcomes == {"passed", "not-applicable", "accepted-risk"}
Terminal == {"completed", "aborted"}

Ended == [status |-> status, base |-> base, outcomes |-> outcomes]

Init == /\ status = "none"
        /\ base = 0
        /\ outcomes = <<>>
        /\ held = FALSE
        /\ past = <<>>

Begin(historical) ==
    /\ \/ status = "none" /\ past' = past
       \/ status \in Terminal /\ past' = Append(past, Ended)
    /\ status' = "active"
    /\ base' = historical
    /\ outcomes' = <<>>
    /\ held' = FALSE

Resolve(outcome) ==
    /\ status = "active"
    /\ ~held
    /\ base + Len(outcomes) < NumGates
    /\ outcomes' = Append(outcomes, outcome)
    /\ UNCHANGED <<status, base, held, past>>

Hold == /\ status = "active"
        /\ ~held
        /\ held' = TRUE
        /\ UNCHANGED <<status, base, outcomes, past>>

Release == /\ status = "active"
           /\ held
           /\ held' = FALSE
           /\ UNCHANGED <<status, base, outcomes, past>>

Complete == /\ status = "active"
            /\ ~held
            /\ base + Len(outcomes) = NumGates
            /\ status' = "completed"
            /\ UNCHANGED <<base, outcomes, held, past>>

Abort == /\ status = "active"
         /\ status' = "aborted"
         /\ UNCHANGED <<base, outcomes, held, past>>

Next == \/ \E historical \in 0 .. NumGates - 1 : Begin(historical)
        \/ \E outcome \in Outcomes : Resolve(outcome)
        \/ Hold
        \/ Release
        \/ Complete
        \/ Abort

Spec == Init /\ [][Next]_vars

---------------------------------------------------------------------------
EndedRun == [status : Terminal, base : 0 .. NumGates - 1, outcomes : Seq(Outcomes)]

\* Every variable has its type.
TypeOK == /\ status \in {"none", "active"} \cup Terminal
          /\ base \in 0 .. NumGates - 1
          /\ outcomes \in Seq(Outcomes)
          /\ held \in BOOLEAN
          /\ past \in Seq(EndedRun)

\* A completed run, current or kept, has one outcome for every gate after the
\* historical ones; no run ever has more (complete() and its unresolved check).
CompletedAll ==
    /\ base + Len(outcomes) <= NumGates
    /\ status = "completed" => base + Len(outcomes) = NumGates
    /\ \A i \in DOMAIN past : past[i].status = "completed"
          => past[i].base + Len(past[i].outcomes) = NumGates

\* Within a run the outcomes only grow at the end, a terminal run only leaves by
\* being kept exactly as it ended, and what is kept stays kept.
History ==
    [][/\ SubSeq(past', 1, Len(past)) = past
       /\ Len(past') = Len(past)
            => SubSeq(outcomes', 1, Len(outcomes)) = outcomes
       /\ status \in Terminal => past' = Append(past, Ended)]_vars
=============================================================================
