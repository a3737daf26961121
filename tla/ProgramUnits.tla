---------------------------- MODULE ProgramUnits ----------------------------
(***************************************************************************)
(* Mode E: the program unit ledger of pipeline.py and the coordinator of   *)
(* program_execution.py that drives it.  A ledger call is one step, under  *)
(* the snapshot lock (ProjectMutation); coordinators exclude each other by *)
(* the managed execution lease (WorkflowExecutor), so there is one.  It is *)
(* interrupted or killed anywhere; meanwhile the workspace is edited, the  *)
(* checkout's HEAD moves, wall clocks run out and gates of the run pass.   *)
(*                                                                         *)
(* The workspace is the set of areas that differ from its base commit, an  *)
(* area being a boundary or all that lies outside of them.  Routes,        *)
(* capabilities, evidence and result files, which the calls compare with   *)
(* frozen or hashed values, are left out, and so are the ledger's own      *)
(* copies of what can be counted in its attempts (spawns, turns, units).   *)
(***************************************************************************)
EXTENDS ProgramPlan, Integers

CONSTANTS RunGates,      \* ordered_gates of the run
          Areas,         \* of the workspace: boundaries and what is outside
          MaxAttempts,   \* max_attempts_per_unit (and max_turns_per_worker)
          SpawnCap,      \* hard_spawn_cap of a wave
          Ceiling,       \* token_ceiling of a wave, in prompts
          MaxOutput,     \* bound: size of an output, in prompts
          MaxRevisions,  \* bound: manifests bound one after the other
          MaxFaults,     \* bound: edits of others, moves of HEAD, clocks that run
                         \* out, interruptions and kills
          None           \* no manifest, no unit, no result

ASSUME BudgetAssumption == /\ {MaxAttempts, SpawnCap, Ceiling} \subseteq Nat \ {0}
                           /\ {MaxOutput, MaxRevisions, MaxFaults} \subseteq Nat
ASSUME GatesAssumption == RunGates \in Seq(ToSet(RunGates))

VARIABLES program, \* the program_execution contract of the run
          run,     \* the run around it: status, pending human stop, gates resolved
          ws,      \* the areas of the workspace that differ from its base
          moved,   \* HEAD of the source checkout is not the manifest's commit
          late,    \* waves whose wall clock ran out
          co,      \* the coordinator, and the worker it waits for
          faults   \* how many of the bounded faults there were

vars == <<program, run, ws, moved, late, co, faults>>

---------------------------------------------------------------------------
(* The ledger.                                                             *)

\* The program bound to a manifest.  A cancelled attempt is a failed one here and
\* post is kept of a success only: no call tells or reads more.
Program(m) ==
    [plan : {m}, revision : Nat, base : SUBSET Areas, status : {"active", "completed", "aborted"},
     attempts : Seq([unit : UnitsOf[m], status : {"running", "succeeded", "failed"},
                     pre : SUBSET Areas, post : SUBSET Areas, size : Nat]),
     gates : Seq([gate : GatesOf[m], ws : SUBSET Areas]),
     audited : BOOLEAN, final : SUBSET Areas,
     waves : [Waves[m] -> [status : {"pending", "running", "completed"}, tokens : Nat]]]

ASSUME AbsentAssumption == \A m \in Digests : None \notin Program(m) \cup Digests

\* A program as it is bound to a workspace.
Fresh(m, n) == [plan |-> m, revision |-> n, base |-> ws, status |-> "active",
                attempts |-> <<>>, gates |-> <<>>, audited |-> FALSE, final |-> {},
                waves |-> [w \in Waves[m] |-> [status |-> "pending", tokens |-> 0]]]

Bound == program # None
Plan == Manifest[program.plan]

Completed(p) == {a.unit : a \in {b \in ToSet(p.attempts) : b.status = "succeeded"}}
Running(p) == \E a \in ToSet(p.attempts) : a.status = "running"
OfUnit(p, u) == {i \in DOMAIN p.attempts : p.attempts[i].unit = u}
OfWave(p, w) == {i \in DOMAIN p.attempts : p.attempts[i].unit \in UnitsIn[p.plan][w]}

\* The checkpoint the next attempt starts from: a failed attempt's own start,
\* whatever it left in the workspace.
Leaves(a) == IF a.status = "succeeded" THEN a.post ELSE a.pre
Baseline(p, n) == IF n = 0 THEN p.base ELSE Leaves(p.attempts[n])

\* The successful attempt of a gate's owner.
OwnerAttempt(p, g) == CHOOSE a \in ToSet(p.attempts) :
    a.unit = Manifest[p.plan].owner[g] /\ a.status = "succeeded"

Checkpointed(p) == {c.gate : c \in ToSet(p.gates)}

NextGates(p) == IF Len(p.gates) < Len(OrderedGates[p.plan])
                THEN {OrderedGates[p.plan][Len(p.gates) + 1]} ELSE {}

\* Positions in the order of the units.
Pending(p) == {i \in DOMAIN OrderedUnits[p.plan] : OrderedUnits[p.plan][i] \notin Completed(p)}

\* The prompts that attempts cost, counted one by one.
Prompts(p, i) == {i} \X (1 .. p.attempts[i].size)
Sizes(p, indices) == Cardinality(UNION {Prompts(p, i) : i \in indices})

\* The attempt that succeeded last.
IsLastSuccess(p, i) == /\ p.attempts[i].status = "succeeded"
                       /\ \A j \in DOMAIN p.attempts :
                            j > i => p.attempts[j].status # "succeeded"

---------------------------------------------------------------------------
(* _program_execution_problem, which every call asks of the stored         *)
(* document and of the one it is about to store.  The parts that depend on *)
(* the document alone are an invariant, DocumentHolds: no call is refused  *)
(* by them.  What others can break makes the run unusable, below.          *)

\* An attempt starts at its baseline, and none follows its unit's success.
ChainHolds(p) == \A i \in DOMAIN p.attempts :
    /\ p.attempts[i].pre = Baseline(p, i - 1)
    /\ \A j \in 1 .. i - 1 : p.attempts[j].unit = p.attempts[i].unit
                               => p.attempts[j].status # "succeeded"

GatesHold(p, resolved) ==
    /\ \A i \in DOMAIN p.gates :
         /\ p.gates[i].gate = OrderedGates[p.plan][i]
         /\ Manifest[p.plan].owner[p.gates[i].gate] \in Completed(p)
         /\ p.gates[i].ws = OwnerAttempt(p, p.gates[i].gate).post
         /\ p.gates[i].gate \in Manifest[p.plan].outer => p.gates[i].gate \in resolved
    /\ p.audited = (GatesIn[p.plan][2] \subseteq Checkpointed(p))
    /\ p.audited \/ \A a \in ToSet(p.attempts) : UnitKind[p.plan][a.unit] # "execution"

CountersHold(p) ==
    /\ \A w \in Waves[p.plan] : /\ Cardinality(OfWave(p, w)) <= SpawnCap
                                /\ p.waves[w].tokens = Sizes(p, OfWave(p, w))
    /\ \A u \in UnitsOf[p.plan] : Cardinality(OfUnit(p, u)) <= MaxAttempts

CompletionHolds(p) == p.status = "completed" =>
    /\ Completed(p) = UnitsOf[p.plan]
    /\ Len(p.gates) = Len(OrderedGates[p.plan])

Resolved == ToSet(run.resolved)

\* HEAD is the commit of the manifest, and a completed program is still what
\* is in the workspace.
Usable == Bound => ~moved /\ (program.status = "completed" => program.final = ws)

\* _active_v2_run, with and without a pending human stop.
Unended == run.status = "active" /\ Usable
Active == Unended /\ ~run.stop

---------------------------------------------------------------------------
(* The coordinator: off, deciding, claiming, waiting for its worker,       *)
(* finishing the attempt, and, when it was interrupted or refused,         *)
(* cleaning up and closing the attempt as best it can.                     *)

Off == [pc |-> "off", contained |-> FALSE, unit |-> None, before |-> {}, after |-> {},
        result |-> None]

Return == co' = Off

At(pc) == co.pc = pc
GoTo(pc) == co' = [co EXCEPT !.pc = pc]

Environment == <<ws, moved, late, faults>>

\* pause_for_human, and the coordinator returns.
AskHuman == /\ run' = [run EXCEPT !.stop = @ \/ Active]
            /\ Return
            /\ UNCHANGED program

\* A ledger call that, refused, makes the coordinator give up.
CallOrReturn(allowed, p, pc) ==
    /\ IF allowed /\ Active THEN program' = p /\ GoTo(pc) ELSE Return /\ UNCHANGED program
    /\ UNCHANGED run

---------------------------------------------------------------------------
(* bind_program_execution: another manifest only while nothing happened.   *)

\* Mutant: also when units have run.
RebindableAnyTime == program.revision < MaxRevisions

Rebindable == /\ program.attempts = <<>> /\ program.gates = <<>>
              /\ run.resolved = <<>>
              /\ program.revision < MaxRevisions

Invoke(m, contained) ==
    /\ At("off")
    /\ Active /\ ~moved
    /\ m \in ValidPlans /\ OuterGates[m] = RunGates
    /\ \/ ~Bound /\ program' = Fresh(m, 1)
       \/ Bound /\ program.plan = m /\ UNCHANGED program
       \/ Bound /\ program.plan # m /\ Rebindable
          /\ program' = Fresh(m, program.revision + 1)
    /\ co' = [Off EXCEPT !.pc = "deciding", !.contained = contained]
    /\ UNCHANGED <<run, Environment>>

---------------------------------------------------------------------------
(* What execute_program_manifest decides to do next.                       *)

OwnedGates == {g \in NextGates(program) : Plan.owner[g] \in Completed(program)}
Awaited(g) == g \in Plan.outer \ Resolved

\* Nothing left, or a gate of the run is to be resolved first.
Stop == /\ At("deciding")
        /\ program.status = "completed" \/ \E g \in OwnedGates : Awaited(g)
        /\ Return
        /\ UNCHANGED <<program, run, Environment>>

WithGate(g) ==
    LET gates == Append(program.gates, [gate |-> g, ws |-> ws])
        checkpointed == {c.gate : c \in ToSet(gates)}
        Gated(w) == g \in GatesIn[program.plan][w]
                    /\ GatesIn[program.plan][w] \subseteq checkpointed
    IN  [program EXCEPT
           !.gates = gates,
           !.audited = GatesIn[program.plan][2] \subseteq checkpointed,
           !.waves = [w \in Waves[program.plan] |->
                        IF Gated(w) THEN [@[w] EXCEPT !.status = "completed"] ELSE @[w]]]

\* checkpoint_program_gate
CheckpointGate(g) == /\ At("deciding") /\ program.status = "active"
                     /\ ~Awaited(g)
                     /\ CallOrReturn(ws = OwnerAttempt(program, g).post, WithGate(g), "deciding")
                     /\ UNCHANGED Environment

\* complete_program_execution
CompleteProgram ==
    /\ At("deciding") /\ program.status = "active"
    /\ OwnedGates = {} /\ Pending(program) = {}
    /\ CallOrReturn(/\ NextGates(program) = {}
                    /\ ToSet(RunGates) \subseteq Resolved
                    /\ \E i \in DOMAIN program.attempts :
                         IsLastSuccess(program, i) /\ ws = program.attempts[i].post,
                    [program EXCEPT !.status = "completed", !.final = ws], "deciding")
    /\ UNCHANGED Environment

\* The ledger never lets a person continue these: only the manifest, the
\* dispatcher or the audit wave could be other than they are.
NeedsHuman(u) == \/ u \in Plan.final
                 \/ UnitKind[program.plan][u] = "execution" /\ ~program.audited
                 \/ UnitKind[program.plan][u] # "audit" /\ ~co.contained

\* The workspace is captured before the dispatch and the claim.
Prepare == /\ At("deciding") /\ program.status = "active"
           /\ OwnedGates = {}
           /\ \E i \in Pending(program) :
                /\ \A j \in Pending(program) : i <= j
                /\ LET u == OrderedUnits[program.plan][i]
                   IN  IF NeedsHuman(u) THEN AskHuman
                       ELSE /\ co' = [co EXCEPT !.pc = "claiming", !.unit = u, !.before = ws]
                            /\ UNCHANGED <<program, run>>
           /\ UNCHANGED Environment
---------------------------------------------------------------------------
(* claim_program_unit                                                      *)

Wave == WaveOf[program.plan][co.unit]
Spawns == Cardinality(OfWave(program, Wave))
Tokens == program.waves[Wave].tokens

AttemptsLeft == Cardinality(OfUnit(program, co.unit)) < MaxAttempts
TimeLeft == ~(program.waves[Wave].status = "running" /\ Wave \in late)
BudgetLeft == AttemptsLeft /\ Spawns < SpawnCap /\ Tokens + 1 <= Ceiling /\ TimeLeft

Eligible == /\ program.status = "active"
            /\ co.unit \notin Completed(program) \cup Plan.final
            /\ ~Running(program)
            /\ Plan.needs[co.unit] \subseteq Completed(program)
            /\ \A w \in 1 .. Wave - 1 : program.waves[w].status = "completed"
            /\ UnitKind[program.plan][co.unit] = "execution" => program.audited

\* Mutant: a retry starts from what the failed attempt left.
AtAnyBaseline == ws = co.before

AtBaseline == ws = co.before /\ ws = Baseline(program, Len(program.attempts))

\* Mutant: every attempt starts the wave's counters anew.
WithAttemptAnew ==
    [program EXCEPT
       !.attempts = Append(@, [unit |-> co.unit, status |-> "running", pre |-> co.before,
                               post |-> {}, size |-> 1]),
       !.waves[Wave] = [status |-> "running", tokens |-> 1]]

WithAttempt ==
    [program EXCEPT
       !.attempts = Append(@, [unit |-> co.unit, status |-> "running", pre |-> co.before,
                               post |-> {}, size |-> 1]),
       !.waves[Wave] = [status |-> "running", tokens |-> @.tokens + 1]]

\* Exhausted attempts, tokens or time ask a human for another manifest; an
\* exhausted spawn cap is not recognised as a budget and only ends the call.
AsksForBudget == \/ ~AttemptsLeft
                 \/ Spawns < SpawnCap /\ ~BudgetLeft

Claim == /\ At("claiming")
         /\ IF Active /\ Eligible /\ AsksForBudget THEN AskHuman
            ELSE CallOrReturn(Eligible /\ BudgetLeft /\ AtBaseline, WithAttempt, "waiting")
         /\ UNCHANGED Environment

---------------------------------------------------------------------------
(* The host, which may write anything of the workspace while it runs.      *)

Toggled(area) == (ws \cup {area}) \ (ws \cap {area})

HostWrites(area) == /\ At("waiting")
                    /\ ws' = Toggled(area)
                    /\ UNCHANGED <<program, run, moved, late, co, faults>>

---------------------------------------------------------------------------
(* Collecting a result, and finish_program_unit.                           *)

Changed == (co.before \cup co.after) \ (co.before \cap co.after)

\* Mutant: one change within the boundary vouches for the others.
MostlyOutside(u, changed) == changed # {} /\ changed \cap Plan.writes[u] = {}

\* Units that audit or verify may change nothing.
Outside(u, changed) == IF UnitKind[program.plan][u] \in {"audit", "verification"}
                       THEN changed # {}
                       ELSE ~(changed \subseteq Plan.writes[u])

\* _collect_one: the host's result, of which a failure may ask for a human,
\* or, after a timeout, that of its cancellation.
Collect(result) == /\ At("waiting")
                   /\ co' = [co EXCEPT !.pc = "finishing", !.after = ws, !.result = result]
                   /\ UNCHANGED <<program, run, Environment>>

\* The status to finish with: the coordinator checks boundaries first.
Status == IF \/ co.result = "stop"
             \/ co.result = "succeeded" /\ Outside(co.unit, Changed)
          THEN "failed" ELSE co.result

Current == CHOOSE k \in DOMAIN program.attempts : program.attempts[k].status = "running"

IsCurrent == /\ Running(program)
             /\ program.attempts[Current].unit = co.unit
             /\ ws = co.after

\* Mutant: a success is not measured against the budgets.
Unmetered(n, proven) == IF \/ Outside(co.unit, Changed)
                           \/ Status = "succeeded" /\ ~proven
                        THEN "failed" ELSE Status

\* What is recorded of a result with an output of n prompts, whose evidence
\* is proven or not, whatever the result itself was.
Enforced(n, proven) == IF \/ Outside(co.unit, Changed)
                          \/ Tokens + n > Ceiling
                          \/ Wave \in late
                          \/ Status = "succeeded" /\ ~proven
                       THEN "failed" ELSE Status

WithResult(n, proven) ==
    LET good == Enforced(n, proven) = "succeeded"
        ended == [program.attempts[Current] EXCEPT
                    !.status = IF good THEN "succeeded" ELSE "failed",
                    !.post = IF good THEN co.after ELSE {},
                    !.size = @ + n]
        attempts == [program.attempts EXCEPT ![Current] = ended]
        done == {a.unit : a \in {b \in ToSet(attempts) : b.status = "succeeded"}}
        over == UnitsIn[program.plan][Wave] \subseteq done /\ GatesIn[program.plan][Wave] = {}
    IN  [program EXCEPT
           !.attempts = attempts,
           !.waves[Wave] = [status |-> IF over THEN "completed" ELSE @.status,
                            tokens |-> @.tokens + n]]

\* The result artifact says what the attempt is recorded as; only a success
\* may be recorded as the failure that the ledger made of it.
ArtifactFits(n, proven) == Enforced(n, proven) \in
    {Status} \cup (IF Status = "succeeded" THEN {"failed"} ELSE {})

Recordable(n, proven) == Active /\ IsCurrent /\ ArtifactFits(n, proven)

\* Recorded as it was: on to the next unit, to a person, or no further.
\* Otherwise the attempt is terminalized, though it may be recorded by now.
AfterFinish(n, proven) ==
    IF ~Recordable(n, proven) \/ Enforced(n, proven) # Status THEN "cleaning"
    ELSE IF Status = "succeeded" THEN "deciding"
    ELSE IF co.result = "stop" THEN "asking" ELSE "off"

Finish(n, proven) ==
    /\ At("finishing")
    /\ program' = IF Recordable(n, proven) THEN WithResult(n, proven) ELSE program
    /\ LET next == AfterFinish(n, proven)
       IN  IF next = "off" THEN Return ELSE GoTo(next)
    /\ UNCHANGED <<run, Environment>>

Ask == At("asking") /\ AskHuman /\ UNCHANGED Environment

---------------------------------------------------------------------------
(* _terminalize_interrupted_attempt, once and as best it can.              *)

\* What the host ended with if it failed meanwhile; its success is cancelled.
Clean(result) == /\ At("cleaning")
                 /\ co' = [co EXCEPT !.pc = "closing", !.after = ws, !.result = result]
                 /\ UNCHANGED <<program, run, Environment>>

Close(n) == /\ At("closing")
            /\ program' = IF Recordable(n, FALSE) THEN WithResult(n, FALSE) ELSE program
            /\ Return
            /\ UNCHANGED <<run, Environment>>
---------------------------------------------------------------------------
(* Interruptions, and what others do to the run and to the workspace.      *)

Fault == faults < MaxFaults /\ faults' = faults + 1

\* An exception: after the claim it makes the coordinator clean up.
Interrupt == /\ co.pc \in {"waiting", "finishing"}
             /\ Fault
             /\ GoTo("cleaning")
             /\ UNCHANGED <<program, run, ws, moved, late>>

\* A kill, or an exception between the claim and its acknowledgement.
Kill == /\ co.pc # "off"
        /\ Fault
        /\ Return
        /\ UNCHANGED <<program, run, ws, moved, late>>

Edit(area) == /\ Fault
              /\ ws' = Toggled(area)
              /\ UNCHANGED <<program, run, moved, late, co>>

MoveHead == Fault /\ moved' = TRUE /\ UNCHANGED <<program, run, ws, late, co>>

\* What the refusals ask for, before the next call: HEAD back at the commit,
\* the workspace back at the checkpoint that the next attempt starts from.
Restore == /\ At("off")
           /\ moved' = FALSE
           /\ ws' = Baseline(program, Len(program.attempts))
           /\ UNCHANGED <<program, run, late, co, faults>>

\* The wall clock of a wave runs from its first claim.
Expire(w) == /\ program.waves[w].status = "running"
             /\ w \notin late /\ late' = late \cup {w}
             /\ Fault
             /\ UNCHANGED <<program, run, ws, moved, co>>

\* A gate of the run is resolved on what its owner left.
ResolveGate == /\ Active
               /\ Len(run.resolved) < Len(RunGates)
               /\ LET g == RunGates[Len(run.resolved) + 1]
                  IN  /\ Plan.owner[g] \in Completed(program)
                      /\ ws = OwnerAttempt(program, g).post
                      /\ run' = [run EXCEPT !.resolved = Append(@, g)]
               /\ UNCHANGED <<program, co, Environment>>

\* resolve_human_stop: only a rejection, which lets the run go on.
RejectStop == /\ Unended /\ run.stop
              /\ run' = [run EXCEPT !.stop = FALSE]
              /\ UNCHANGED <<program, co, Environment>>

\* _reconcile_stale_program_attempt_under_lease; only audit units are
\* without side effects.
Reconcile == /\ At("off")
             /\ Active /\ Running(program)
             /\ UnitKind[program.plan][program.attempts[Current].unit] = "audit"
             /\ ws = program.attempts[Current].pre
             /\ program' = [program EXCEPT !.attempts[Current] = [@ EXCEPT !.status = "failed"]]
             /\ UNCHANGED <<run, co, Environment>>

\* abort, and complete of the run around the program
Abort == /\ At("off")
         /\ Unended
         /\ program' = [program EXCEPT !.status = "aborted"]
         /\ run' = [run EXCEPT !.status = "aborted"]
         /\ UNCHANGED <<co, Environment>>

CompleteRun == /\ Active
               /\ Resolved = ToSet(RunGates)
               /\ program.status = "completed"
               /\ program.final = ws
               /\ run' = [run EXCEPT !.status = "completed"]
               /\ UNCHANGED <<program, co, Environment>>

---------------------------------------------------------------------------
(* The specification.                                                      *)

Coordinate == \/ Stop \/ CompleteProgram \/ Prepare \/ Claim \/ Ask
              \/ \E g \in OwnedGates : CheckpointGate(g)
              \/ \E result \in {"succeeded", "failed", "stop", "cancelled"} : Collect(result)
              \/ \E result \in {"failed", "cancelled"} : Clean(result)
              \/ \E n \in 0 .. MaxOutput : Close(n) \/ \E proven \in BOOLEAN : Finish(n, proven)

Others == \/ Interrupt \/ Kill \/ MoveHead \/ Restore
          \/ \E area \in Areas : Edit(area)
          \/ \E w \in Waves[program.plan] : Expire(w)
          \/ ResolveGate \/ RejectStop \/ Reconcile \/ Abort \/ CompleteRun

Init == /\ program = None
        /\ run = [status |-> "active", stop |-> FALSE, resolved |-> <<>>]
        /\ ws = {} /\ moved = FALSE /\ late = {}
        /\ co = Off
        /\ faults = 0

Next == \/ \E m \in Digests, contained \in BOOLEAN : Invoke(m, contained)
        \/ Bound /\ (Coordinate \/ Others \/ \E area \in Areas : HostWrites(area))

Spec == Init /\ [][Next]_vars

---------------------------------------------------------------------------
(* Properties.                                                             *)

TypeOK == /\ Bound => \E m \in ValidPlans : program \in Program(m)
          /\ run.status \in {"active", "completed", "aborted"} /\ run.stop \in BOOLEAN
          /\ ws \subseteq Areas /\ moved \in BOOLEAN
          /\ co.before \cup co.after \subseteq Areas
          /\ faults \in 0 .. MaxFaults

\* What validation demands of the document alone holds after every call, with
\* any faults between them: the run can always be loaded, continued or aborted
\* once its workspace and HEAD are restored (_program_execution_problem).
DocumentHolds == Bound => /\ ChainHolds(program)
                          /\ GatesHold(program, Resolved)
                          /\ CountersHold(program)
                          /\ CompletionHolds(program)

\* What successes add up to differs from the base only within the boundaries
\* of the units that succeeded: nothing of a failed, timed out, interrupted
\* or reconciled attempt, and nothing anybody else wrote, is carried along
\* (finish_program_unit's boundary check, claim_program_unit's baseline).
OnlyOwnersChange == Bound =>
    \A i \in DOMAIN program.attempts :
        LET done == {j \in 1 .. i : program.attempts[j].status = "succeeded"}
            post == program.attempts[i].post
        IN  i \in done => (post \cup program.base) \ (post \cap program.base)
                          \subseteq UNION {Plan.writes[program.attempts[j].unit] : j \in done}

\* Work after a verification wave starts from exactly the workspace that all
\* of that wave's gates were checkpointed on (claim_program_unit with
\* checkpoint_program_gate).
VerifiedIsBuiltOn == Bound =>
    \A i \in DOMAIN program.attempts :
        LET w == WaveOf[program.plan][program.attempts[i].unit]
            earlier == {j \in 1 .. i - 1 : /\ program.attempts[j].status = "succeeded"
                                          /\ WaveOf[program.plan][program.attempts[j].unit] = w}
        IN  w > 1 /\ earlier = {} =>
              \A g \in GatesIn[program.plan][w - 1] :
                  \E c \in ToSet(program.gates) : c.gate = g /\ c.ws = program.attempts[i].pre

\* No success was bought over budget: counting everything its wave spent
\* until then, failures and interrupted attempts included, it is within the
\* wave's spawn cap and token ceiling (claim and finish_program_unit).
BudgetsHold == Bound =>
    \A i \in DOMAIN program.attempts :
        LET soFar == {j \in OfWave(program, WaveOf[program.plan][program.attempts[i].unit]) :
                        j <= i}
        IN  program.attempts[i].status = "succeeded" =>
              Cardinality(soFar) <= SpawnCap /\ Sizes(program, soFar) <= Ceiling

Order == INSTANCE ProgramOrder WITH
            plan <- IF Bound THEN program.plan ELSE None,
            done <- IF Bound THEN Completed(program) ELSE {},
            passed <- IF Bound THEN [i \in DOMAIN program.gates |-> program.gates[i].gate]
                      ELSE <<>>,
            phase <- IF Bound THEN program.status ELSE "active"

\* Whatever interrupts it, execution follows the order of the frozen plan.
ImplementsProgramOrder == Order!OrderSpec
=============================================================================
