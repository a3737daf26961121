---------------------------- MODULE ProgramOrder ----------------------------
(***************************************************************************)
(* What executing a program promises (program_execution.py): its units     *)
(* succeed once each, a wave only after everything before it was done and  *)
(* gated, gates pass in their order after their owners, and nothing of a   *)
(* program that has begun is planned anew.                                 *)
(***************************************************************************)
EXTENDS ProgramPlan

CONSTANT None  \* no manifest

VARIABLES plan,   \* the digest of the frozen manifest
          done,   \* the units that succeeded
          passed, \* the gates checkpointed, in order
          phase   \* active, completed or aborted

order == <<plan, done, passed, phase>>

OrderInit == plan = None /\ done = {} /\ passed = <<>> /\ phase = "active"

Freeze(m) == /\ phase = "active" /\ done = {} /\ passed = <<>>
             /\ m \in ValidPlans
             /\ plan' = m
             /\ UNCHANGED <<done, passed, phase>>

EarlierDone(u) == \A w \in 1 .. WaveOf[plan][u] - 1 : /\ UnitsIn[plan][w] \subseteq done
                                                      /\ GatesIn[plan][w] \subseteq ToSet(passed)

Succeed(u) == /\ phase = "active"
              /\ u \notin done \cup Manifest[plan].final
              /\ Manifest[plan].needs[u] \subseteq done
              /\ EarlierDone(u)
              /\ done' = done \cup {u}
              /\ UNCHANGED <<plan, passed, phase>>

PassGate(g) == /\ phase = "active"
               /\ Len(passed) < Len(OrderedGates[plan])
               /\ g = OrderedGates[plan][Len(passed) + 1]
               /\ Manifest[plan].owner[g] \in done
               /\ passed' = Append(passed, g)
               /\ UNCHANGED <<plan, done, phase>>

Conclude == /\ phase = "active"
            /\ done = UnitsOf[plan]
            /\ passed = OrderedGates[plan]
            /\ phase' = "completed"
            /\ UNCHANGED <<plan, done, passed>>

\* A run can be given up even after its program was done.
GiveUp == phase # "aborted" /\ phase' = "aborted" /\ UNCHANGED <<plan, done, passed>>

OrderNext == \/ GiveUp
             \/ \E m \in Digests : Freeze(m)
             \/ /\ plan # None
                /\ \/ Conclude
                   \/ \E u \in UnitsOf[plan] : Succeed(u)
                   \/ \E g \in ToSet(OrderedGates[plan]) : PassGate(g)

OrderSpec == OrderInit /\ [][OrderNext]_order
=============================================================================
