------------------------- MODULE ProgramUnitsProofs -------------------------
(***************************************************************************)
(* Proofs about ProgramUnits: whatever interrupts it, executing a program  *)
(* keeps its document valid, carries nothing but successes along, builds   *)
(* on what was verified, buys no success over budget and follows the order *)
(* of its plan.  What a call does to the attempts is stated first, as a    *)
(* relation between two programs: one attempt more (Grown) or the running  *)
(* one ended (Ended).                                                      *)
(***************************************************************************)
EXTENDS ProgramUnits, SequenceTheorems, FiniteSetTheorems, TLAPS

---------------------------------------------------------------------------
(* Valid plans.                                                            *)

\* A valid plan puts every unit and every gate in one of its waves.
LEMMA PlanShape ==
    ASSUME NEW m \in ValidPlans
    PROVE  /\ m \in Digests
           /\ Len(Kind[m]) \in Nat /\ Waves[m] = 1 .. Len(Kind[m])
           /\ OrderedUnits[m] \in Seq(UnitsOf[m]) /\ OrderedGates[m] \in Seq(GatesOf[m])
           /\ \A u \in UnitsOf[m] : WaveOf[m][u] \in Waves[m]
           /\ \A w \in Waves[m] : UnitsIn[m][w] = {u \in UnitsOf[m] : WaveOf[m][u] = w}
           /\ \A u \in UnitsOf[m] : UnitKind[m][u] = Kind[m][WaveOf[m][u]]
<1>1. m \in Digests /\ ValidPlan(m)
  BY DEF ValidPlans
<1>2. /\ Manifest[m].kinds \in Seq({"audit", "execution", "verification", "closeout"})
      /\ Manifest[m].units \in Seq(DOMAIN Manifest[m].waveOf)
      /\ Manifest[m].gates \in Seq(DOMAIN Manifest[m].gateWave)
  BY <1>1, ManifestAssumption
<1>3. /\ Kind[m] = Manifest[m].kinds /\ Waves[m] = DOMAIN Manifest[m].kinds
      /\ OrderedUnits[m] = Manifest[m].units /\ OrderedGates[m] = Manifest[m].gates
  BY <1>1 DEF Kind, Waves, OrderedUnits, OrderedGates
<1>4. UnitsOf[m] = ToSet(OrderedUnits[m]) /\ GatesOf[m] = ToSet(OrderedGates[m])
  BY <1>1 DEF UnitsOf, GatesOf
<1>5. OrderedUnits[m] \in Seq(UnitsOf[m]) /\ OrderedGates[m] \in Seq(GatesOf[m])
  <2>1. ASSUME NEW S, NEW s \in Seq(S) PROVE s \in Seq(ToSet(s))
    BY <2>1 DEF ToSet
  <2> QED BY <1>2, <1>3, <1>4, <2>1
<1>6. \A u \in UnitsOf[m] : WaveOf[m][u] \in Waves[m]
  BY <1>1 DEF ValidPlan, EveryUnitOnce
<1>7. \A w \in Waves[m] : UnitsIn[m][w] = {u \in UnitsOf[m] : WaveOf[m][u] = w}
  BY <1>1 DEF UnitsIn
<1>8. \A u \in UnitsOf[m] : UnitKind[m][u] = Kind[m][WaveOf[m][u]]
  BY <1>1 DEF UnitKind
<1> QED BY <1>1, <1>2, <1>3, <1>5, <1>6, <1>7, <1>8

\* The gates of a wave are owned by its units, which verify, and every unit of
\* a wave that verifies owns one of its gates.
LEMMA PlanGates ==
    ASSUME NEW m \in ValidPlans, NEW w \in Waves[m]
    PROVE  /\ \A g \in GatesIn[m][w] : /\ g \in GatesOf[m] /\ Kind[m][w] = "verification"
                                       /\ Manifest[m].owner[g] \in UnitsIn[m][w]
           /\ Kind[m][w] = "verification" =>
                 UnitsIn[m][w] = {Manifest[m].owner[g] : g \in GatesIn[m][w]}
<1>1. m \in Digests /\ GatesOwned(m)
  BY DEF ValidPlans, ValidPlan
<1>2. GatesIn[m][w] = {g \in GatesOf[m] : Manifest[m].gateWave[g] = w}
  BY <1>1 DEF GatesIn
<1> QED BY <1>1, <1>2 DEF GatesOwned

\* A valid plan has units, and gates in its second wave.
LEMMA PlanWaves ==
    ASSUME NEW m \in ValidPlans
    PROVE  2 \in Waves[m] /\ GatesIn[m][2] # {} /\ UnitsOf[m] # {}
<1>1. m \in Digests /\ WavesAlternate(m) /\ GatesOwned(m)
  BY DEF ValidPlans, ValidPlan
<1>2. Len(Kind[m]) \in Nat /\ Waves[m] = 1 .. Len(Kind[m])
  BY PlanShape
<1> DEFINE last == Len(Kind[m])
<1>3. PICK x \in Waves[m] : Kind[m][x] = "execution"
  BY <1>1 DEF WavesAlternate
<1>4. 1 \in Waves[m] /\ Kind[m][1] = "audit" /\ x # 1
  <2>1. 1 \in Waves[m] /\ x \in Nat
    BY <1>2
  <2>2. Kind[m][1] = "audit"
    BY <2>1, <1>1 DEF WavesAlternate
  <2> QED BY <1>3, <2>1, <2>2
<1>5. 1 \in 1 .. last - 1 /\ 2 \in Waves[m]
  BY <1>2, <1>4
<1>6. Kind[m][2] = "verification"
  <2>1. (Kind[m][1] \in {"audit", "execution"}) = (Kind[m][1 + 1] \in {"verification"})
    BY <1>1, <1>5 DEF WavesAlternate
  <2> QED BY <2>1, <1>4
<1>7. GatesIn[m][2] # {}
  BY <1>1, <1>5, <1>6 DEF GatesOwned
<1>8. last \in Waves[m] /\ Cardinality(UnitsIn[m][last]) = 1
  <2>1. Cardinality(UnitsIn[m][last]) = 1
    BY <1>1 DEF WavesAlternate
  <2> QED BY <2>1, <1>2, <1>5
<1>9. UnitsIn[m][last] # {}
  <2>1. Cardinality({}) = 0
    BY FS_EmptySet
  <2>2. ASSUME UnitsIn[m][last] = {} PROVE Cardinality(UnitsIn[m][last]) = 0
    BY <2>1, <2>2
  <2>3. 0 # 1
    OBVIOUS
  <2> HIDE DEF last
  <2> QED BY <1>8, <2>2, <2>3
<1>10. UnitsIn[m][last] \subseteq UnitsOf[m]
  BY <1>8, PlanShape
<1> QED BY <1>5, <1>7, <1>9, <1>10

---------------------------------------------------------------------------
(* What holds of a program after every call.                               *)

Succeeded(p, i) == p.attempts[i].status = "succeeded"
UnitAt(p, i) == p.attempts[i].unit
WaveAt(p, i) == WaveOf[p.plan][UnitAt(p, i)]
Tries(p) == Len(p.attempts)

WellFormed(p) == p.plan \in ValidPlans /\ p \in Program(p.plan)

\* Only the last attempt may be running.
OnlyLastRuns(p) == \A i \in 1 .. Tries(p) - 1 : p.attempts[i].status # "running"

\* A unit is attempted with what it needs, and the waves before, behind it; an
\* irreversible one is not.
Ready(p) == \A i \in 1 .. Tries(p) :
    /\ UnitAt(p, i) \notin Manifest[p.plan].final
    /\ Manifest[p.plan].needs[UnitAt(p, i)] \subseteq Completed(p)
    /\ \A w \in 1 .. WaveAt(p, i) - 1 : p.waves[w].status = "completed"

InWaveOrder(p) == \A i, j \in 1 .. Tries(p) : i <= j => WaveAt(p, i) <= WaveAt(p, j)

\* A completed wave has nothing left to do or to gate.
WavesDone(p) == \A w \in Waves[p.plan] : p.waves[w].status = "completed" =>
    /\ UnitsIn[p.plan][w] \subseteq Completed(p)
    /\ GatesIn[p.plan][w] \subseteq Checkpointed(p)

GatesFit(p) == Len(p.gates) <= Len(OrderedGates[p.plan])

\* What verifies leaves everything as it was.
VerifiesOnly(p) == \A i \in 1 .. Tries(p) :
    Succeeded(p, i) /\ UnitKind[p.plan][UnitAt(p, i)] = "verification"
        => p.attempts[i].post = p.attempts[i].pre

\* What a verification left stands until something of another wave succeeds.
Stands(p) == \A n \in 0 .. Tries(p) : \A j \in 1 .. n :
    /\ Succeeded(p, j) /\ UnitKind[p.plan][UnitAt(p, j)] = "verification"
    /\ \A k \in j + 1 .. n : Succeeded(p, k) => WaveAt(p, k) = WaveAt(p, j)
    => Baseline(p, n) = p.attempts[j].post

Differs(S, T) == (S \cup T) \ (S \cap T)

\* A checkpoint differs from the base by what the units that succeeded may write.
Owned(p) == \A n \in 0 .. Tries(p) :
    Differs(Baseline(p, n), p.base) \subseteq
        UNION {Manifest[p.plan].writes[UnitAt(p, j)] : j \in {k \in 1 .. n : Succeeded(p, k)}}

\* OnlyOwnersChange, VerifiedIsBuiltOn and BudgetsHold of a program.
BuiltOnVerified(p) == \A i \in 1 .. Tries(p) :
    /\ WaveAt(p, i) > 1
    /\ \A j \in 1 .. i - 1 : Succeeded(p, j) => WaveAt(p, j) # WaveAt(p, i)
    => \A g \in GatesIn[p.plan][WaveAt(p, i) - 1] :
          \E c \in ToSet(p.gates) : c.gate = g /\ c.ws = p.attempts[i].pre

SoFar(p, i) == {j \in OfWave(p, WaveAt(p, i)) : j <= i}
Metered(p) == \A i \in 1 .. Tries(p) : Succeeded(p, i) =>
    Cardinality(SoFar(p, i)) <= SpawnCap /\ Sizes(p, SoFar(p, i)) <= Ceiling

\* What does not depend on the gates of the run around the program.
Sound(p) == /\ WellFormed(p)
            /\ ChainHolds(p) /\ OnlyLastRuns(p)
            /\ Ready(p) /\ InWaveOrder(p) /\ WavesDone(p) /\ GatesFit(p)
            /\ VerifiesOnly(p) /\ Stands(p) /\ Owned(p) /\ BuiltOnVerified(p)
            /\ CountersHold(p) /\ Metered(p)
            /\ CompletionHolds(p)

---------------------------------------------------------------------------
(* What a call does to the attempts.                                       *)

\* One attempt more, which is running.
Grown(p, q) ==
    /\ q.plan = p.plan /\ q.base = p.base
    /\ Tries(q) = Tries(p) + 1
    /\ \A i \in 1 .. Tries(p) : q.attempts[i] = p.attempts[i]
    /\ q.attempts[Tries(q)].status = "running"
    /\ UnitAt(q, Tries(q)) \in UnitsOf[p.plan]

\* The attempt that ran last has ended.
Ended(p, q) ==
    /\ q.plan = p.plan /\ q.base = p.base
    /\ Tries(q) = Tries(p) /\ Tries(p) > 0
    /\ \A i \in 1 .. Tries(p) - 1 : q.attempts[i] = p.attempts[i]
    /\ p.attempts[Tries(p)].status = "running"
    /\ q.attempts[Tries(p)].status \in {"succeeded", "failed"}
    /\ UnitAt(q, Tries(p)) = UnitAt(p, Tries(p))
    /\ q.attempts[Tries(p)].pre = p.attempts[Tries(p)].pre

\* The fields of a well-formed program.
LEMMA Fields ==
    ASSUME NEW p, WellFormed(p)
    PROVE  /\ Tries(p) \in Nat /\ DOMAIN p.attempts = 1 .. Tries(p)
           /\ \A i \in 1 .. Tries(p) :
                /\ UnitAt(p, i) \in UnitsOf[p.plan]
                /\ WaveAt(p, i) \in Waves[p.plan] /\ WaveAt(p, i) \in Nat /\ WaveAt(p, i) > 0
                /\ UnitAt(p, i) \in UnitsIn[p.plan][WaveAt(p, i)]
                /\ p.attempts[i].status \in {"running", "succeeded", "failed"}
                /\ p.attempts[i].pre \subseteq Areas /\ p.attempts[i].post \subseteq Areas
                /\ p.attempts[i].size \in Nat
           /\ Len(p.gates) \in Nat /\ DOMAIN p.gates = 1 .. Len(p.gates)
           /\ \A i \in 1 .. Len(p.gates) : p.gates[i].gate \in GatesOf[p.plan]
           /\ p.gates \in Seq([gate : GatesOf[p.plan], ws : SUBSET Areas])
           /\ p.base \subseteq Areas
           /\ p.waves \in [Waves[p.plan] -> [status : {"pending", "running", "completed"},
                                             tokens : Nat]]
           /\ p.status \in {"active", "completed", "aborted"}
<1> DEFINE S == [unit : UnitsOf[p.plan], status : {"running", "succeeded", "failed"},
                 pre : SUBSET Areas, post : SUBSET Areas, size : Nat]
<1>1. /\ p.attempts \in Seq(S)
      /\ p.gates \in Seq([gate : GatesOf[p.plan], ws : SUBSET Areas])
      /\ p.base \subseteq Areas
      /\ p.waves \in [Waves[p.plan] -> [status : {"pending", "running", "completed"},
                                        tokens : Nat]]
      /\ p.status \in {"active", "completed", "aborted"}
  BY DEF WellFormed, Program
<1>2. Tries(p) \in Nat /\ DOMAIN p.attempts = 1 .. Tries(p)
  BY <1>1 DEF Tries
<1>3. ASSUME NEW i \in 1 .. Tries(p)
      PROVE  /\ UnitAt(p, i) \in UnitsOf[p.plan]
             /\ p.attempts[i].status \in {"running", "succeeded", "failed"}
             /\ p.attempts[i].pre \subseteq Areas /\ p.attempts[i].post \subseteq Areas
             /\ p.attempts[i].size \in Nat
  <2>1. p.attempts[i] \in S
    <3> HIDE DEF S
    <3> QED BY <1>1, <1>2, ElementOfSeq
  <2> QED BY <2>1 DEF UnitAt
<1>4. ASSUME NEW i \in 1 .. Tries(p)
      PROVE  /\ WaveAt(p, i) \in Waves[p.plan] /\ WaveAt(p, i) \in Nat /\ WaveAt(p, i) > 0
             /\ UnitAt(p, i) \in UnitsIn[p.plan][WaveAt(p, i)]
  <2>1. p.plan \in ValidPlans
    BY DEF WellFormed
  <2> QED BY <1>3, <2>1, PlanShape DEF WaveAt
<1>5. Len(p.gates) \in Nat /\ DOMAIN p.gates = 1 .. Len(p.gates)
  BY <1>1
<1>6. ASSUME NEW i \in 1 .. Len(p.gates) PROVE p.gates[i].gate \in GatesOf[p.plan]
  <2>1. p.gates[i] \in [gate : GatesOf[p.plan], ws : SUBSET Areas]
    BY <1>1, <1>5, ElementOfSeq
  <2> QED BY <2>1
<1> QED BY <1>1, <1>2, <1>3, <1>4, <1>5, <1>6

\* Completed units, by attempt.
LEMMA CompletedUnits ==
    ASSUME NEW p, WellFormed(p)
    PROVE  Completed(p) = {UnitAt(p, i) : i \in {j \in 1 .. Tries(p) : Succeeded(p, j)}}
<1>1. DOMAIN p.attempts = 1 .. Tries(p)
  BY Fields
<1> QED BY <1>1 DEF Completed, UnitAt, Succeeded, ToSet

\* A running attempt completes nothing.
LEMMA CompletedGrown ==
    ASSUME NEW p, NEW q, WellFormed(p), WellFormed(q), Grown(p, q)
    PROVE  Completed(q) = Completed(p)
<1>1. Tries(p) \in Nat
  BY Fields
<1>2. \A i \in 1 .. Tries(p) : i \in 1 .. Tries(q) /\ UnitAt(q, i) = UnitAt(p, i)
                                /\ (Succeeded(q, i) <=> Succeeded(p, i))
  BY <1>1 DEF Grown, UnitAt, Succeeded
<1>3. \A i \in 1 .. Tries(q) : Succeeded(q, i) => i \in 1 .. Tries(p)
  BY <1>1 DEF Grown, Succeeded
<1> QED BY <1>2, <1>3, CompletedUnits

\* An attempt that succeeded completes its unit.
LEMMA CompletedEnded ==
    ASSUME NEW p, NEW q, WellFormed(p), WellFormed(q), Ended(p, q)
    PROVE  Completed(q) = IF Succeeded(q, Tries(p))
                          THEN Completed(p) \cup {UnitAt(p, Tries(p))} ELSE Completed(p)
<1>1. Tries(p) \in Nat /\ Tries(p) > 0 /\ Tries(q) = Tries(p)
  BY Fields DEF Ended
<1>2. \A i \in 1 .. Tries(p) : UnitAt(q, i) = UnitAt(p, i)
  BY <1>1 DEF Ended, UnitAt
<1>3. \A i \in 1 .. Tries(p) : i # Tries(p) => (Succeeded(q, i) <=> Succeeded(p, i))
  BY <1>1 DEF Ended, Succeeded
<1>4. ~Succeeded(p, Tries(p))
  BY DEF Ended, Succeeded
<1> QED BY <1>1, <1>2, <1>3, <1>4, CompletedUnits

---------------------------------------------------------------------------
(* One attempt more.                                                       *)

\* What grows, index by index.
LEMMA GrownFacts ==
    ASSUME NEW p, NEW q, WellFormed(p), WellFormed(q), Grown(p, q)
    PROVE  /\ q.plan = p.plan /\ q.base = p.base
           /\ Tries(p) \in Nat /\ Tries(q) = Tries(p) + 1
           /\ DOMAIN p.attempts = 1 .. Tries(p) /\ DOMAIN q.attempts = 1 .. Tries(q)
           /\ \A i \in 1 .. Tries(p) : /\ i \in 1 .. Tries(q) /\ q.attempts[i] = p.attempts[i]
                                       /\ (Succeeded(q, i) <=> Succeeded(p, i))
                                       /\ UnitAt(q, i) = UnitAt(p, i)
                                       /\ WaveAt(q, i) = WaveAt(p, i)
           /\ Tries(q) \in 1 .. Tries(q)
           /\ \A i \in 1 .. Tries(q) : i \in 1 .. Tries(p) \/ i = Tries(q)
           /\ q.attempts[Tries(q)].status = "running" /\ ~Succeeded(q, Tries(q))
<1>1. /\ q.plan = p.plan /\ q.base = p.base /\ Tries(q) = Tries(p) + 1
      /\ \A i \in 1 .. Tries(p) : q.attempts[i] = p.attempts[i]
      /\ q.attempts[Tries(q)].status = "running"
  BY DEF Grown
<1>2. Tries(p) \in Nat /\ DOMAIN p.attempts = 1 .. Tries(p) /\ DOMAIN q.attempts = 1 .. Tries(q)
  BY Fields
<1>3. /\ \A i \in 1 .. Tries(p) : i \in 1 .. Tries(q)
      /\ Tries(q) \in 1 .. Tries(q)
      /\ \A i \in 1 .. Tries(q) : i \in 1 .. Tries(p) \/ i = Tries(q)
  BY <1>1, <1>2
<1> QED BY <1>1, <1>2, <1>3 DEF Succeeded, UnitAt, WaveAt

\* The baseline before an attempt is the same, and after a running one as well.
LEMMA BaselineGrown ==
    ASSUME NEW p, NEW q, WellFormed(p), WellFormed(q), Grown(p, q)
    PROVE  /\ \A n \in 0 .. Tries(p) : Baseline(q, n) = Baseline(p, n)
           /\ Baseline(q, Tries(q)) = q.attempts[Tries(q)].pre
<1>1. Tries(p) \in Nat /\ Tries(q) = Tries(p) + 1
  BY GrownFacts
<1>2. \A i \in 1 .. Tries(p) : q.attempts[i] = p.attempts[i]
  BY DEF Grown
<1>3. q.base = p.base
  BY DEF Grown
<1>4. q.attempts[Tries(q)].status = "running"
  BY DEF Grown
<1> QED BY <1>1, <1>2, <1>3, <1>4 DEF Baseline, Leaves

\* An attempt that starts at the last checkpoint, of a unit that is not
\* completed, keeps the chain.
LEMMA ChainGrown ==
    ASSUME NEW p, NEW q, WellFormed(p), WellFormed(q), Grown(p, q), ChainHolds(p),
           q.attempts[Tries(q)].pre = Baseline(p, Tries(p)),
           UnitAt(q, Tries(q)) \notin Completed(p)
    PROVE  ChainHolds(q)
<1>1. /\ Tries(p) \in Nat /\ Tries(q) = Tries(p) + 1
      /\ DOMAIN p.attempts = 1 .. Tries(p) /\ DOMAIN q.attempts = 1 .. Tries(q)
      /\ \A i \in 1 .. Tries(p) : q.attempts[i] = p.attempts[i]
  BY GrownFacts
<1>2. ASSUME NEW i \in 1 .. Tries(p)
      PROVE  /\ q.attempts[i].pre = Baseline(q, i - 1)
             /\ \A j \in 1 .. i - 1 : q.attempts[j].unit = q.attempts[i].unit
                                        => q.attempts[j].status # "succeeded"
  <2>1. /\ p.attempts[i].pre = Baseline(p, i - 1)
        /\ \A j \in 1 .. i - 1 : p.attempts[j].unit = p.attempts[i].unit
                                   => p.attempts[j].status # "succeeded"
    BY <1>1 DEF ChainHolds
  <2>2. i - 1 \in 0 .. Tries(p) /\ \A j \in 1 .. i - 1 : j \in 1 .. Tries(p)
    BY <1>1
  <2> QED BY <1>1, <2>1, <2>2, BaselineGrown
<1>3. q.attempts[Tries(q)].pre = Baseline(q, Tries(q) - 1)
  BY <1>1, BaselineGrown
<1>4. ASSUME NEW j \in 1 .. Tries(q) - 1, q.attempts[j].unit = q.attempts[Tries(q)].unit
      PROVE  q.attempts[j].status # "succeeded"
  <2>1. j \in 1 .. Tries(p) /\ q.attempts[j] = p.attempts[j]
    BY <1>1
  <2> QED BY <1>4, <2>1, CompletedUnits DEF UnitAt, Succeeded
<1>5. \A i \in 1 .. Tries(q) : i \in 1 .. Tries(p) \/ i = Tries(q)
  BY <1>1
<1> QED BY <1>1, <1>2, <1>3, <1>4, <1>5 DEF ChainHolds

\* An attempt is added only when none is running.
LEMMA OnlyLastRunsGrown ==
    ASSUME NEW p, NEW q, WellFormed(p), WellFormed(q), Grown(p, q), ~Running(p)
    PROVE  OnlyLastRuns(q)
<1>1. /\ Tries(p) \in Nat /\ Tries(q) = Tries(p) + 1
      /\ DOMAIN p.attempts = 1 .. Tries(p)
      /\ \A i \in 1 .. Tries(p) : q.attempts[i] = p.attempts[i]
  BY GrownFacts
<1>2. \A i \in 1 .. Tries(p) : p.attempts[i].status # "running"
  BY <1>1 DEF Running, ToSet
<1> QED BY <1>1, <1>2 DEF OnlyLastRuns

\* Completed waves stay completed.
WavesKept(p, q) ==
    \A w \in Waves[p.plan] : p.waves[w].status = "completed" => q.waves[w].status = "completed"

\* A claim asks for what its unit needs and for the waves before it.
LEMMA ReadyGrown ==
    ASSUME NEW p, NEW q, WellFormed(p), WellFormed(q), Grown(p, q), Ready(p), WavesKept(p, q),
           UnitAt(q, Tries(q)) \notin Manifest[p.plan].final,
           Manifest[p.plan].needs[UnitAt(q, Tries(q))] \subseteq Completed(p),
           \A w \in 1 .. WaveAt(q, Tries(q)) - 1 : q.waves[w].status = "completed"
    PROVE  Ready(q)
<1>1. /\ Tries(p) \in Nat /\ Tries(q) = Tries(p) + 1 /\ q.plan = p.plan
      /\ \A i \in 1 .. Tries(p) : UnitAt(q, i) = UnitAt(p, i) /\ WaveAt(q, i) = WaveAt(p, i)
      /\ \A i \in 1 .. Tries(q) : i \in 1 .. Tries(p) \/ i = Tries(q)
  BY GrownFacts
<1>2. Completed(q) = Completed(p)
  BY CompletedGrown
<1>3. p.plan \in ValidPlans
  BY DEF WellFormed
<1>4. ASSUME NEW i \in 1 .. Tries(p), NEW w \in 1 .. WaveAt(p, i) - 1 PROVE w \in Waves[p.plan]
  <2>1. WaveAt(p, i) \in Waves[p.plan] /\ WaveAt(p, i) \in Nat
    BY Fields
  <2>2. Len(Kind[p.plan]) \in Nat /\ Waves[p.plan] = 1 .. Len(Kind[p.plan])
    BY <1>3, PlanShape
  <2> QED BY <2>1, <2>2
<1> QED BY <1>1, <1>2, <1>4 DEF Ready, WavesKept

\* A unit is eligible only in the wave that comes next.
LEMMA InWaveOrderGrown ==
    ASSUME NEW p, NEW q, WellFormed(p), WellFormed(q), Grown(p, q),
           InWaveOrder(p), Ready(p), WavesDone(p),
           UnitAt(q, Tries(q)) \notin Completed(p)
    PROVE  InWaveOrder(q)
<1>1. /\ Tries(p) \in Nat /\ Tries(q) = Tries(p) + 1 /\ q.plan = p.plan
      /\ \A i \in 1 .. Tries(p) : WaveAt(q, i) = WaveAt(p, i)
      /\ \A i \in 1 .. Tries(q) : i \in 1 .. Tries(p) \/ i = Tries(q)
  BY GrownFacts
<1> DEFINE v == WaveAt(q, Tries(q))
<1>2. Tries(q) \in 1 .. Tries(q)
  BY <1>1
<1>3. v \in Waves[p.plan] /\ v \in Nat /\ v > 0 /\ UnitAt(q, Tries(q)) \in UnitsIn[p.plan][v]
  BY <1>1, <1>2, Fields
<1>4. ASSUME NEW i \in 1 .. Tries(p) PROVE WaveAt(p, i) <= v
  <2>1. WaveAt(p, i) \in Nat
    BY Fields
  <2>2. ASSUME v < WaveAt(p, i) PROVE FALSE
    <3>1. v \in 1 .. WaveAt(p, i) - 1
      BY <1>3, <2>1, <2>2
    <3>2. p.waves[v].status = "completed"
      BY <3>1 DEF Ready
    <3> QED BY <1>3, <3>2 DEF WavesDone
  <2> QED BY <1>3, <2>1, <2>2
<1>5. v <= v
  BY <1>3
<1>6. \A i, j \in 1 .. Tries(p) : i <= j => WaveAt(p, i) <= WaveAt(p, j)
  BY DEF InWaveOrder
<1> HIDE DEF v
<1>7. \A i, j \in 1 .. Tries(q) : i <= j => WaveAt(q, i) <= WaveAt(q, j)
  <2>1. \A j \in 1 .. Tries(p) : ~(Tries(q) <= j)
    BY <1>1
  <2> QED BY <1>1, <1>4, <1>5, <1>6, <2>1 DEF v
<1> QED BY <1>7 DEF InWaveOrder

\* A running attempt left nothing.
LEMMA VerifiesOnlyGrown ==
    ASSUME NEW p, NEW q, WellFormed(p), WellFormed(q), Grown(p, q), VerifiesOnly(p)
    PROVE  VerifiesOnly(q)
<1>1. /\ Tries(p) \in Nat /\ Tries(q) = Tries(p) + 1 /\ q.plan = p.plan
      /\ \A i \in 1 .. Tries(p) : q.attempts[i] = p.attempts[i]
      /\ \A i \in 1 .. Tries(q) : i \in 1 .. Tries(p) \/ i = Tries(q)
      /\ q.attempts[Tries(q)].status = "running"
  BY GrownFacts
<1> QED BY <1>1 DEF VerifiesOnly, Succeeded, UnitAt

\* A running attempt leaves the checkpoint as it was.
LEMMA StandsGrown ==
    ASSUME NEW p, NEW q, WellFormed(p), WellFormed(q), Grown(p, q), Stands(p),
           q.attempts[Tries(q)].pre = Baseline(p, Tries(p))
    PROVE  Stands(q)
<1>1. /\ Tries(p) \in Nat /\ Tries(q) = Tries(p) + 1 /\ q.plan = p.plan
      /\ \A i \in 1 .. Tries(p) : /\ q.attempts[i] = p.attempts[i]
                                  /\ (Succeeded(q, i) <=> Succeeded(p, i))
                                  /\ WaveAt(q, i) = WaveAt(p, i) /\ UnitAt(q, i) = UnitAt(p, i)
      /\ ~Succeeded(q, Tries(q))
  BY GrownFacts
<1>2. SUFFICES ASSUME NEW n \in 0 .. Tries(q), NEW j \in 1 .. n, Succeeded(q, j),
                      UnitKind[q.plan][UnitAt(q, j)] = "verification",
                      \A k \in j + 1 .. n : Succeeded(q, k) => WaveAt(q, k) = WaveAt(q, j)
               PROVE  Baseline(q, n) = q.attempts[j].post
  BY DEF Stands
<1>3. j \in 1 .. Tries(p)
  BY <1>1, <1>2
<1>4. CASE n \in 0 .. Tries(p)
  <2>1. \A k \in j + 1 .. n : k \in 1 .. Tries(p)
    BY <1>1, <1>3, <1>4
  <2>2. \A k \in j + 1 .. n : Succeeded(p, k) => WaveAt(p, k) = WaveAt(p, j)
    BY <1>1, <1>2, <1>3, <2>1
  <2>3. Baseline(p, n) = p.attempts[j].post
    BY <1>1, <1>2, <1>3, <1>4, <2>2 DEF Stands
  <2> QED BY <1>1, <1>3, <1>4, <2>3, BaselineGrown
<1>5. CASE n = Tries(q)
  <2>1. \A k \in j + 1 .. Tries(p) : k \in 1 .. Tries(p) /\ k \in j + 1 .. n
    BY <1>1, <1>3, <1>5
  <2>2. \A k \in j + 1 .. Tries(p) : Succeeded(p, k) => WaveAt(p, k) = WaveAt(p, j)
    BY <1>1, <1>2, <1>3, <2>1
  <2>3. Tries(p) \in 0 .. Tries(p)
    BY <1>1
  <2>4. Baseline(p, Tries(p)) = p.attempts[j].post
    BY <1>1, <1>2, <1>3, <2>2, <2>3 DEF Stands
  <2> QED BY <1>1, <1>3, <1>5, <2>4, BaselineGrown
<1> QED BY <1>1, <1>4, <1>5

\* A running attempt leaves the checkpoint as it was: it stays owned.
LEMMA OwnedGrown ==
    ASSUME NEW p, NEW q, WellFormed(p), WellFormed(q), Grown(p, q), Owned(p),
           q.attempts[Tries(q)].pre = Baseline(p, Tries(p))
    PROVE  Owned(q)
<1>1. /\ Tries(p) \in Nat /\ Tries(q) = Tries(p) + 1 /\ q.plan = p.plan /\ q.base = p.base
      /\ \A i \in 1 .. Tries(p) : /\ (Succeeded(q, i) <=> Succeeded(p, i))
                                  /\ UnitAt(q, i) = UnitAt(p, i)
      /\ ~Succeeded(q, Tries(q))
  BY GrownFacts
<1> DEFINE W(x, n) == UNION {Manifest[x.plan].writes[UnitAt(x, j)] :
                               j \in {k \in 1 .. n : Succeeded(x, k)}}
<1>2. SUFFICES ASSUME NEW n \in 0 .. Tries(q)
               PROVE  Differs(Baseline(q, n), q.base) \subseteq W(q, n)
  BY DEF Owned
<1>3. CASE n \in 0 .. Tries(p)
  <2>1. \A k \in 1 .. n : k \in 1 .. Tries(p)
    BY <1>1, <1>3
  <2>2. {k \in 1 .. n : Succeeded(q, k)} = {k \in 1 .. n : Succeeded(p, k)}
    BY <1>1, <2>1
  <2>3. W(q, n) = W(p, n)
    BY <1>1, <2>1, <2>2
  <2>4. Differs(Baseline(p, n), p.base) \subseteq W(p, n)
    BY <1>3 DEF Owned
  <2> HIDE DEF W
  <2> QED BY <1>1, <1>3, <2>3, <2>4, BaselineGrown
<1>4. CASE n = Tries(q)
  <2>1. {k \in 1 .. n : Succeeded(q, k)} = {k \in 1 .. Tries(p) : Succeeded(p, k)}
    BY <1>1, <1>4
  <2>2. W(q, n) = W(p, Tries(p))
    BY <1>1, <2>1
  <2>3. Tries(p) \in 0 .. Tries(p)
    BY <1>1
  <2>4. Differs(Baseline(p, Tries(p)), p.base) \subseteq W(p, Tries(p))
    BY <2>3 DEF Owned
  <2> HIDE DEF W
  <2> QED BY <1>1, <1>4, <2>2, <2>4, BaselineGrown
<1> QED BY <1>1, <1>3, <1>4

\* The gate's owner succeeded once.
LEMMA OwnerIs ==
    ASSUME NEW p, WellFormed(p), ChainHolds(p), NEW g, NEW j \in 1 .. Tries(p),
           Succeeded(p, j), UnitAt(p, j) = Manifest[p.plan].owner[g]
    PROVE  OwnerAttempt(p, g) = p.attempts[j]
<1>1. Tries(p) \in Nat /\ DOMAIN p.attempts = 1 .. Tries(p)
  BY Fields
<1>2. ASSUME NEW i \in 1 .. Tries(p), Succeeded(p, i), UnitAt(p, i) = UnitAt(p, j)
      PROVE  i = j
  <2>1. ~(i < j)
    <3>1. i < j => i \in 1 .. j - 1
      BY <1>1
    <3> QED BY <1>1, <1>2, <3>1 DEF ChainHolds, Succeeded, UnitAt
  <2>2. ~(j < i)
    <3>1. j < i => j \in 1 .. i - 1
      BY <1>1
    <3> QED BY <1>1, <1>2, <3>1 DEF ChainHolds, Succeeded, UnitAt
  <2> QED BY <1>1, <2>1, <2>2
<1> DEFINE P(a) == a.unit = Manifest[p.plan].owner[g] /\ a.status = "succeeded"
<1>3. p.attempts[j] \in ToSet(p.attempts) /\ P(p.attempts[j])
  BY <1>1 DEF ToSet, Succeeded, UnitAt
<1>4. ASSUME NEW a \in ToSet(p.attempts), P(a) PROVE a = p.attempts[j]
  <2>1. PICK i \in 1 .. Tries(p) : a = p.attempts[i]
    BY <1>1 DEF ToSet
  <2> QED BY <1>2, <1>4, <2>1 DEF Succeeded, UnitAt
<1> HIDE DEF P
<1>5. (CHOOSE a \in ToSet(p.attempts) : P(a)) = p.attempts[j]
  BY <1>3, <1>4
<1> QED BY <1>5 DEF OwnerAttempt, P

\* A gate was checkpointed on what its owner left.
LEMMA CheckpointIs ==
    ASSUME NEW p, NEW R, WellFormed(p), ChainHolds(p), GatesHold(p, R),
           NEW i \in 1 .. Len(p.gates)
    PROVE  \E j \in 1 .. Tries(p) : /\ Succeeded(p, j)
                                    /\ UnitAt(p, j) = Manifest[p.plan].owner[p.gates[i].gate]
                                    /\ OwnerAttempt(p, p.gates[i].gate) = p.attempts[j]
                                    /\ p.gates[i].ws = p.attempts[j].post
<1>1. DOMAIN p.gates = 1 .. Len(p.gates)
  BY Fields
<1>2. /\ Manifest[p.plan].owner[p.gates[i].gate] \in Completed(p)
      /\ p.gates[i].ws = OwnerAttempt(p, p.gates[i].gate).post
  BY <1>1 DEF GatesHold
<1>3. PICK j \in 1 .. Tries(p) : Succeeded(p, j)
                                 /\ UnitAt(p, j) = Manifest[p.plan].owner[p.gates[i].gate]
  BY <1>2, CompletedUnits
<1>4. OwnerAttempt(p, p.gates[i].gate) = p.attempts[j]
  BY <1>3, OwnerIs
<1> QED BY <1>2, <1>3, <1>4

\* The first attempt of a wave starts from what the gates of the wave before
\* were checkpointed on: their owners left it, and nothing else succeeded since.
LEMMA BuiltOnVerifiedGrown ==
    ASSUME NEW p, NEW q, NEW R, WellFormed(p), WellFormed(q), Grown(p, q),
           ChainHolds(p), InWaveOrder(q), WavesDone(p), Stands(p), GatesHold(p, R),
           BuiltOnVerified(p), q.gates = p.gates,
           q.attempts[Tries(q)].pre = Baseline(p, Tries(p)),
           \A w \in 1 .. WaveAt(q, Tries(q)) - 1 : p.waves[w].status = "completed"
    PROVE  BuiltOnVerified(q)
<1>1. SUFFICES ASSUME NEW i \in 1 .. Tries(q), WaveAt(q, i) > 1,
                      \A j \in 1 .. i - 1 : Succeeded(q, j) => WaveAt(q, j) # WaveAt(q, i),
                      NEW g \in GatesIn[q.plan][WaveAt(q, i) - 1]
               PROVE  \E c \in ToSet(q.gates) : c.gate = g /\ c.ws = q.attempts[i].pre
  BY DEF BuiltOnVerified
<1>2. /\ q.plan = p.plan /\ Tries(p) \in Nat /\ Tries(q) = Tries(p) + 1
      /\ \A k \in 1 .. Tries(p) : /\ k \in 1 .. Tries(q) /\ q.attempts[k] = p.attempts[k]
                                  /\ (Succeeded(q, k) <=> Succeeded(p, k))
                                  /\ UnitAt(q, k) = UnitAt(p, k)
                                  /\ WaveAt(q, k) = WaveAt(p, k)
      /\ i \in 1 .. Tries(p) \/ i = Tries(q)
  BY GrownFacts
<1>3. CASE i \in 1 .. Tries(p)
  <2>1. \A j \in 1 .. i - 1 : j \in 1 .. Tries(p)
    BY <1>2, <1>3
  <2>2. \A j \in 1 .. i - 1 : Succeeded(p, j) => WaveAt(p, j) # WaveAt(p, i)
    BY <1>1, <1>2, <1>3, <2>1
  <2>3. WaveAt(p, i) > 1 /\ g \in GatesIn[p.plan][WaveAt(p, i) - 1]
    BY <1>1, <1>2, <1>3
  <2>4. \E c \in ToSet(p.gates) : c.gate = g /\ c.ws = p.attempts[i].pre
    BY <1>3, <2>2, <2>3 DEF BuiltOnVerified
  <2> QED BY <1>2, <1>3, <2>4
<1>4. CASE i = Tries(q)
  <2> DEFINE v == WaveAt(q, i)
             w == v - 1
  <2>1. v \in Waves[p.plan] /\ v \in Nat
    BY <1>1, <1>2, Fields
  <2>2. w \in Waves[p.plan] /\ w \in 1 .. v - 1 /\ p.plan \in ValidPlans
    <3>1. Len(Kind[p.plan]) \in Nat /\ Waves[p.plan] = 1 .. Len(Kind[p.plan])
      BY PlanShape DEF WellFormed
    <3> QED BY <1>1, <2>1, <3>1 DEF WellFormed
  <2>3. g \in GatesIn[p.plan][w]
    BY <1>1, <1>2
  <2>4. p.waves[w].status = "completed"
    BY <1>4, <2>2
  <2>5. g \in Checkpointed(p)
    BY <2>2, <2>3, <2>4 DEF WavesDone
  <2>6. PICK x \in 1 .. Len(p.gates) : p.gates[x].gate = g
    <3>1. DOMAIN p.gates = 1 .. Len(p.gates)
      BY Fields
    <3> QED BY <2>5, <3>1 DEF Checkpointed, ToSet
  <2>7. PICK j \in 1 .. Tries(p) : /\ Succeeded(p, j)
                                   /\ UnitAt(p, j) = Manifest[p.plan].owner[g]
                                   /\ p.gates[x].ws = p.attempts[j].post
    BY <2>6, CheckpointIs
  <2>8. Kind[p.plan][w] = "verification" /\ UnitAt(p, j) \in UnitsIn[p.plan][w]
    BY <2>2, <2>3, <2>7, PlanGates
  <2>9. WaveAt(p, j) = w /\ UnitKind[p.plan][UnitAt(p, j)] = "verification"
    <3>1. UnitAt(p, j) \in UnitsOf[p.plan] /\ WaveOf[p.plan][UnitAt(p, j)] = w
      BY <2>2, <2>8, PlanShape
    <3> QED BY <2>2, <2>8, <3>1, PlanShape DEF WaveAt
  <2>10. ASSUME NEW k \in j + 1 .. Tries(p), Succeeded(p, k)
         PROVE  WaveAt(p, k) = WaveAt(p, j)
    <3>1. k \in 1 .. Tries(p) /\ j <= k /\ k \in 1 .. i - 1 /\ k <= i
      BY <1>2, <1>4
    <3>2. WaveAt(q, k) \in Nat /\ WaveAt(q, j) \in Nat
      BY <1>2, <3>1, Fields
    <3>3. WaveAt(q, j) <= WaveAt(q, k) /\ WaveAt(q, k) <= v
      BY <1>2, <3>1 DEF InWaveOrder
    <3>4. WaveAt(q, k) # v
      BY <1>1, <1>2, <2>10, <3>1
    <3>5. WaveAt(q, k) = WaveAt(p, k) /\ WaveAt(q, j) = w
      BY <1>2, <2>9, <3>1
    <3> HIDE DEF v
    <3>6. v \in Nat /\ w = v - 1
      BY <2>1
    <3> HIDE DEF w
    <3> QED BY <2>9, <3>2, <3>3, <3>4, <3>5, <3>6
  <2>11. Baseline(p, Tries(p)) = p.attempts[j].post
    <3>1. Tries(p) \in 0 .. Tries(p)
      BY <1>2
    <3> QED BY <2>7, <2>9, <2>10, <3>1 DEF Stands
  <2>12. p.gates[x] \in ToSet(q.gates)
    <3>1. DOMAIN p.gates = 1 .. Len(p.gates)
      BY Fields
    <3> QED BY <2>6, <3>1 DEF ToSet
  <2>13. p.gates[x].gate = g /\ p.gates[x].ws = q.attempts[i].pre
    BY <1>4, <2>6, <2>7, <2>11
  <2> QED BY <2>12, <2>13
<1> QED BY <1>2, <1>3, <1>4

\* A claim keeps the gates.
LEMMA GatesGrown ==
    ASSUME NEW p, NEW q, NEW R, WellFormed(p), WellFormed(q), Grown(p, q),
           ChainHolds(p), ChainHolds(q), GatesHold(p, R), q.gates = p.gates, q.audited = p.audited,
           p.audited \/ UnitKind[p.plan][UnitAt(q, Tries(q))] # "execution"
    PROVE  GatesHold(q, R)
<1>1. /\ q.plan = p.plan
      /\ DOMAIN p.attempts = 1 .. Tries(p) /\ DOMAIN q.attempts = 1 .. Tries(q)
      /\ \A k \in 1 .. Tries(p) : /\ k \in 1 .. Tries(q) /\ q.attempts[k] = p.attempts[k]
                                  /\ (Succeeded(q, k) <=> Succeeded(p, k))
                                  /\ UnitAt(q, k) = UnitAt(p, k)
      /\ \A i \in 1 .. Tries(q) : i \in 1 .. Tries(p) \/ i = Tries(q)
  BY GrownFacts
<1>2. Completed(q) = Completed(p) /\ Checkpointed(q) = Checkpointed(p)
  BY CompletedGrown DEF Checkpointed
<1>3. DOMAIN p.gates = 1 .. Len(p.gates)
  BY Fields
<1>4. ASSUME NEW i \in 1 .. Len(p.gates)
      PROVE  OwnerAttempt(q, p.gates[i].gate) = OwnerAttempt(p, p.gates[i].gate)
  <2>1. PICK j \in 1 .. Tries(p) : /\ Succeeded(p, j)
                                   /\ UnitAt(p, j) = Manifest[p.plan].owner[p.gates[i].gate]
                                   /\ OwnerAttempt(p, p.gates[i].gate) = p.attempts[j]
    BY CheckpointIs
  <2>2. OwnerAttempt(q, p.gates[i].gate) = q.attempts[j]
    BY <1>1, <2>1, OwnerIs
  <2> QED BY <1>1, <2>1, <2>2
<1>5. \A i \in 1 .. Len(p.gates) :
        /\ q.gates[i].gate = OrderedGates[q.plan][i]
        /\ Manifest[q.plan].owner[q.gates[i].gate] \in Completed(q)
        /\ q.gates[i].ws = OwnerAttempt(q, q.gates[i].gate).post
        /\ q.gates[i].gate \in Manifest[q.plan].outer => q.gates[i].gate \in R
  BY <1>1, <1>2, <1>3, <1>4 DEF GatesHold
<1>6. q.audited = (GatesIn[q.plan][2] \subseteq Checkpointed(q))
  BY <1>1, <1>2 DEF GatesHold
<1>7. q.audited \/ \A a \in ToSet(q.attempts) : UnitKind[q.plan][a.unit] # "execution"
  <2>1. p.audited \/ \A i \in 1 .. Tries(p) : UnitKind[p.plan][UnitAt(p, i)] # "execution"
    BY <1>1 DEF GatesHold, ToSet, UnitAt
  <2>2. q.audited \/ \A i \in 1 .. Tries(q) : UnitKind[q.plan][UnitAt(q, i)] # "execution"
    BY <1>1, <2>1
  <2> QED BY <1>1, <2>2 DEF ToSet, UnitAt
<1> QED BY <1>3, <1>5, <1>6, <1>7 DEF GatesHold

---------------------------------------------------------------------------
(* Counting.                                                               *)

\* The prompts of attempts are finitely many.
LEMMA PromptsFinite ==
    ASSUME NEW p, NEW I, IsFiniteSet(I), \A i \in I : p.attempts[i].size \in Nat
    PROVE  IsFiniteSet(UNION {Prompts(p, i) : i \in I})
<1> DEFINE f == [i \in I |-> Prompts(p, i)]
           T == {Prompts(p, i) : i \in I}
<1>1. f \in Surjection(I, T)
  BY DEF Surjection
<1>2. IsFiniteSet(T)
  <2> HIDE DEF f, T
  <2> QED BY <1>1, FS_Surjection
<1>3. ASSUME NEW i \in I PROVE IsFiniteSet(Prompts(p, i))
  <2>1. p.attempts[i].size \in Nat
    OBVIOUS
  <2>2. IsFiniteSet(1 .. p.attempts[i].size)
    BY <2>1, FS_Interval
  <2>3. IsFiniteSet({i})
    BY FS_Singleton
  <2> QED BY <2>2, <2>3, FS_Product DEF Prompts
<1>4. \A S \in T : IsFiniteSet(S)
  BY <1>3
<1> HIDE DEF T
<1>5. IsFiniteSet(UNION T)
  BY <1>2, <1>4, FS_UNION
<1> QED BY <1>5 DEF T

SizesAgree(p, q, I) == \A i \in I : q.attempts[i].size = p.attempts[i].size

\* One more attempt adds its own size.
LEMMA SizesAdd ==
    ASSUME NEW p, NEW q, NEW I, IsFiniteSet(I), NEW j, j \notin I, q.attempts[j].size \in Nat,
           \A i \in I : p.attempts[i].size \in Nat, SizesAgree(p, q, I)
    PROVE  Sizes(p, I) \in Nat /\ Sizes(q, I \cup {j}) = Sizes(p, I) + q.attempts[j].size
<1> DEFINE S == UNION {Prompts(p, i) : i \in I}
           T == Prompts(q, j)
           n == q.attempts[j].size
<1>1. IsFiniteSet(S)
  BY PromptsFinite
<1>2. IsFiniteSet(T) /\ Cardinality(T) = n
  <2>1. IsFiniteSet(1 .. n) /\ Cardinality(1 .. n) = n
    <3>1. 1 \in Int /\ n \in Int /\ n \in Nat
      OBVIOUS
    <3> HIDE DEF n
    <3>2. IsFiniteSet(1 .. n) /\ Cardinality(1 .. n) = IF 1 > n THEN 0 ELSE n - 1 + 1
      BY <3>1, FS_Interval
    <3> QED BY <3>1, <3>2
  <2>2. IsFiniteSet({j}) /\ Cardinality({j}) = 1
    BY FS_Singleton
  <2>3. IsFiniteSet({j} \X (1 .. n)) /\ Cardinality({j} \X (1 .. n)) = 1 * n
    <3> HIDE DEF n
    <3>1. /\ IsFiniteSet({j} \X (1 .. n))
          /\ Cardinality({j} \X (1 .. n)) = Cardinality({j}) * Cardinality(1 .. n)
      BY <2>1, <2>2, FS_Product
    <3> QED BY <2>1, <2>2, <3>1
  <2> QED BY <2>3 DEF Prompts
<1>3. S \cap T = {}
  BY DEF Prompts
<1>4. UNION {Prompts(q, i) : i \in I \cup {j}} = S \cup T
  <2>1. \A i \in I : Prompts(q, i) = Prompts(p, i)
    BY DEF Prompts, SizesAgree
  <2> QED BY <2>1
<1>5. Cardinality(S) \in Nat
  BY <1>1, FS_CardinalityType
<1>6. Cardinality(S \cup T) = Cardinality(S) + n
  <2>1. Cardinality({}) = 0
    BY FS_EmptySet
  <2> HIDE DEF S, T, n
  <2>2. Cardinality(S \cup T) = Cardinality(S) + Cardinality(T) - Cardinality(S \cap T)
    BY <1>1, <1>2, FS_Union
  <2>3. n \in Nat
    BY DEF n
  <2>4. Cardinality(S \cap T) = 0
    BY <1>3, <2>1
  <2> QED BY <1>2, <1>5, <2>2, <2>3, <2>4
<1> QED BY <1>4, <1>5, <1>6 DEF Sizes

\* Sizes of one attempt more, counted in its own program.
LEMMA SizesAddOwn ==
    ASSUME NEW p, NEW I, IsFiniteSet(I), NEW j, j \notin I, p.attempts[j].size \in Nat,
           \A i \in I : p.attempts[i].size \in Nat
    PROVE  Sizes(p, I) \in Nat /\ Sizes(p, I \cup {j}) = Sizes(p, I) + p.attempts[j].size
<1>1. SizesAgree(p, p, I)
  BY DEF SizesAgree
<1> QED BY <1>1, SizesAdd

\* Sizes depend on the attempts only.
LEMMA SizesSame ==
    ASSUME NEW p, NEW q, NEW I, \A i \in I : q.attempts[i].size = p.attempts[i].size
    PROVE  Sizes(q, I) = Sizes(p, I)
<1>1. \A i \in I : Prompts(q, i) = Prompts(p, i)
  BY DEF Prompts
<1>2. {Prompts(q, i) : i \in I} = {Prompts(p, i) : i \in I}
  BY <1>1
<1> QED BY <1>2 DEF Sizes

\* The attempts of a wave and of a unit.
LEMMA OfFinite ==
    ASSUME NEW p, WellFormed(p), NEW w
    PROVE  /\ OfWave(p, w) \subseteq 1 .. Tries(p) /\ IsFiniteSet(OfWave(p, w))
           /\ Cardinality(OfWave(p, w)) \in Nat
           /\ OfUnit(p, w) \subseteq 1 .. Tries(p) /\ IsFiniteSet(OfUnit(p, w))
           /\ Cardinality(OfUnit(p, w)) \in Nat
<1>1. Tries(p) \in Nat /\ DOMAIN p.attempts = 1 .. Tries(p)
  BY Fields
<1>2. OfWave(p, w) \subseteq 1 .. Tries(p) /\ OfUnit(p, w) \subseteq 1 .. Tries(p)
  BY <1>1 DEF OfWave, OfUnit
<1>3. IsFiniteSet(1 .. Tries(p))
  BY <1>1, FS_Interval
<1> QED BY <1>2, <1>3, FS_Subset, FS_CardinalityType

\* The attempts of a wave, by the wave of each.
LEMMA OfWaveIs ==
    ASSUME NEW p, WellFormed(p), NEW w \in Waves[p.plan]
    PROVE  OfWave(p, w) = {i \in 1 .. Tries(p) : WaveAt(p, i) = w}
<1>1. Tries(p) \in Nat /\ DOMAIN p.attempts = 1 .. Tries(p)
  BY Fields
<1>2. UnitsIn[p.plan][w] = {u \in UnitsOf[p.plan] : WaveOf[p.plan][u] = w}
  BY PlanShape DEF WellFormed
<1>3. \A i \in 1 .. Tries(p) : UnitAt(p, i) \in UnitsOf[p.plan]
  BY Fields
<1> QED BY <1>1, <1>2, <1>3 DEF OfWave, WaveAt, UnitAt

\* A claim counts its spawn and its prompt.
LEMMA CountersGrown ==
    ASSUME NEW p, NEW q, WellFormed(p), WellFormed(q), Grown(p, q), CountersHold(p),
           q.attempts[Tries(q)].size = 1,
           NEW v, v = WaveAt(q, Tries(q)),
           Cardinality(OfWave(p, v)) < SpawnCap,
           Cardinality(OfUnit(p, UnitAt(q, Tries(q)))) < MaxAttempts,
           q.waves[v].tokens = p.waves[v].tokens + 1,
           \A w \in Waves[p.plan] : w # v => q.waves[w] = p.waves[w]
    PROVE  CountersHold(q)
<1> DEFINE t == Tries(q)
           u == UnitAt(q, Tries(q))
<1>1. /\ q.plan = p.plan /\ Tries(p) \in Nat /\ t = Tries(p) + 1
      /\ DOMAIN p.attempts = 1 .. Tries(p) /\ DOMAIN q.attempts = 1 .. t
      /\ \A i \in 1 .. Tries(p) : /\ i \in 1 .. t /\ q.attempts[i] = p.attempts[i]
                                  /\ UnitAt(q, i) = UnitAt(p, i) /\ WaveAt(q, i) = WaveAt(p, i)
      /\ t \in 1 .. t
      /\ \A i \in 1 .. t : i \in 1 .. Tries(p) \/ i = t
  BY GrownFacts
<1>2. t \notin 1 .. Tries(p)
  BY <1>1
<1>3. SpawnCap \in Nat /\ MaxAttempts \in Nat
  BY BudgetAssumption
<1> HIDE DEF t
<1>4. ASSUME NEW w \in Waves[p.plan]
      PROVE  OfWave(q, w) = IF w = v THEN OfWave(p, w) \cup {t} ELSE OfWave(p, w)
  <2>1. OfWave(q, w) = {i \in 1 .. t : WaveAt(q, i) = w}
    BY <1>1, OfWaveIs DEF t
  <2>2. OfWave(p, w) = {i \in 1 .. Tries(p) : WaveAt(p, i) = w}
    BY OfWaveIs
  <2>3. WaveAt(q, t) = v
    BY DEF t
  <2> QED BY <1>1, <2>1, <2>2, <2>3
<1>5. ASSUME NEW w \in Waves[p.plan], w # v
      PROVE  Cardinality(OfWave(q, w)) <= SpawnCap /\ q.waves[w].tokens = Sizes(q, OfWave(q, w))
  <2>1. OfWave(q, w) = OfWave(p, w)
    BY <1>4, <1>5
  <2>2. \A i \in OfWave(p, w) : q.attempts[i].size = p.attempts[i].size
    BY <1>1, OfFinite
  <2>3. Sizes(q, OfWave(p, w)) = Sizes(p, OfWave(p, w))
    BY <2>2, SizesSame
  <2> QED BY <1>5, <2>1, <2>3 DEF CountersHold
<1>6. v \in Waves[p.plan]
  BY <1>1, Fields DEF t
<1>7. Cardinality(OfWave(q, v)) <= SpawnCap /\ q.waves[v].tokens = Sizes(q, OfWave(q, v))
  <2>1. OfWave(q, v) = OfWave(p, v) \cup {t}
    BY <1>4, <1>6
  <2>2. IsFiniteSet(OfWave(p, v)) /\ Cardinality(OfWave(p, v)) \in Nat /\ t \notin OfWave(p, v)
    BY <1>2, OfFinite
  <2>3. Cardinality(OfWave(q, v)) = Cardinality(OfWave(p, v)) + 1
    <3>1. ASSUME NEW S, NEW x, IsFiniteSet(S), x \notin S
          PROVE  Cardinality(S \cup {x}) = Cardinality(S) + 1
      BY <3>1, FS_AddElement
    <3> QED BY <2>1, <2>2, <3>1
  <2>4. \A i \in OfWave(p, v) : p.attempts[i].size \in Nat /\ q.attempts[i].size = p.attempts[i].size
    <3>1. \A i \in 1 .. Tries(p) : p.attempts[i].size \in Nat
      BY Fields
    <3> QED BY <1>1, <3>1, OfFinite
  <2>5. q.attempts[t].size = 1
    BY DEF t
  <2>6. Sizes(q, OfWave(p, v) \cup {t}) = Sizes(p, OfWave(p, v)) + 1
    <3>1. q.attempts[t].size \in Nat
      BY <2>5
    <3>2. Sizes(q, OfWave(p, v) \cup {t}) = Sizes(p, OfWave(p, v)) + q.attempts[t].size
      BY <2>2, <2>4, <3>1, SizesAdd DEF SizesAgree
    <3> QED BY <2>5, <3>2
  <2>7. p.waves[v].tokens = Sizes(p, OfWave(p, v))
    BY <1>6 DEF CountersHold
  <2> QED BY <1>3, <2>1, <2>2, <2>3, <2>6, <2>7
<1>8. ASSUME NEW x \in UnitsOf[p.plan] PROVE Cardinality(OfUnit(q, x)) <= MaxAttempts
  <2>1. IsFiniteSet(OfUnit(p, x)) /\ Cardinality(OfUnit(p, x)) \in Nat /\ t \notin OfUnit(p, x)
    BY <1>2, OfFinite
  <2>2. OfUnit(q, x) = IF x = u THEN OfUnit(p, x) \cup {t} ELSE OfUnit(p, x)
    <3>1. q.attempts[t].unit = u
      BY DEF t, UnitAt
    <3>2. OfUnit(q, x) = {i \in 1 .. t : q.attempts[i].unit = x}
      BY <1>1 DEF OfUnit
    <3>3. OfUnit(p, x) = {i \in 1 .. Tries(p) : p.attempts[i].unit = x}
      BY <1>1 DEF OfUnit
    <3> HIDE DEF u
    <3> QED BY <1>1, <3>1, <3>2, <3>3
  <2>3. CASE x = u
    <3>1. Cardinality(OfUnit(q, x)) = Cardinality(OfUnit(p, x)) + 1
      <4>1. OfUnit(q, x) = OfUnit(p, x) \cup {t}
        BY <2>2, <2>3
      <4> QED BY <2>1, <4>1, FS_AddElement
    <3>2. Cardinality(OfUnit(p, x)) < MaxAttempts
      BY <2>3
    <3> QED BY <1>3, <2>1, <3>1, <3>2
  <2>4. CASE x # u
    BY <2>2, <2>4 DEF CountersHold
  <2> QED BY <2>3, <2>4
<1> QED BY <1>1, <1>5, <1>7, <1>8 DEF CountersHold

\* A running attempt bought nothing.
LEMMA MeteredGrown ==
    ASSUME NEW p, NEW q, WellFormed(p), WellFormed(q), Grown(p, q), Metered(p)
    PROVE  Metered(q)
<1>1. /\ q.plan = p.plan /\ Tries(p) \in Nat /\ Tries(q) = Tries(p) + 1
      /\ \A i \in 1 .. Tries(p) : /\ i \in 1 .. Tries(q) /\ q.attempts[i] = p.attempts[i]
                                  /\ (Succeeded(q, i) <=> Succeeded(p, i))
                                  /\ WaveAt(q, i) = WaveAt(p, i)
      /\ \A i \in 1 .. Tries(q) : i \in 1 .. Tries(p) \/ i = Tries(q)
      /\ ~Succeeded(q, Tries(q))
  BY GrownFacts
<1>2. SUFFICES ASSUME NEW i \in 1 .. Tries(p), Succeeded(p, i)
               PROVE  Cardinality(SoFar(q, i)) <= SpawnCap /\ Sizes(q, SoFar(q, i)) <= Ceiling
  BY <1>1 DEF Metered
<1> DEFINE w == WaveAt(p, i)
<1>3. w \in Waves[p.plan] /\ WaveAt(q, i) = w
  BY <1>1, Fields
<1>4. SoFar(q, i) = SoFar(p, i)
  <2> HIDE DEF w
  <2>1. OfWave(q, w) = {k \in 1 .. Tries(q) : WaveAt(q, k) = w}
    BY <1>1, <1>3, OfWaveIs
  <2>2. OfWave(p, w) = {k \in 1 .. Tries(p) : WaveAt(p, k) = w}
    BY <1>3, OfWaveIs
  <2>3. ~(Tries(q) <= i)
    BY <1>1
  <2>4. SoFar(q, i) = {k \in OfWave(q, w) : k <= i} /\ SoFar(p, i) = {k \in OfWave(p, w) : k <= i}
    BY <1>3 DEF SoFar, w
  <2> QED BY <1>1, <2>1, <2>2, <2>3, <2>4
<1>5. \A k \in SoFar(p, i) : q.attempts[k].size = p.attempts[k].size
  <2>1. SoFar(p, i) \subseteq 1 .. Tries(p)
    BY OfFinite DEF SoFar
  <2> QED BY <1>1, <2>1
<1>6. Sizes(q, SoFar(p, i)) = Sizes(p, SoFar(p, i))
  BY <1>5, SizesSame
<1> QED BY <1>2, <1>4, <1>6 DEF Metered

---------------------------------------------------------------------------
(* The running attempt ended.                                              *)

\* What ends, index by index.
LEMMA EndedFacts ==
    ASSUME NEW p, NEW q, WellFormed(p), WellFormed(q), Ended(p, q)
    PROVE  /\ q.plan = p.plan /\ q.base = p.base
           /\ Tries(p) \in Nat /\ Tries(q) = Tries(p) /\ Tries(p) \in 1 .. Tries(p)
           /\ DOMAIN p.attempts = 1 .. Tries(p) /\ DOMAIN q.attempts = 1 .. Tries(p)
           /\ \A i \in 1 .. Tries(p) : /\ UnitAt(q, i) = UnitAt(p, i)
                                       /\ WaveAt(q, i) = WaveAt(p, i)
                                       /\ q.attempts[i].pre = p.attempts[i].pre
                                       /\ (Succeeded(p, i) => Succeeded(q, i))
           /\ \A i \in 1 .. Tries(p) : i \in 1 .. Tries(p) - 1 \/ i = Tries(p)
           /\ \A i \in 1 .. Tries(p) - 1 : /\ i \in 1 .. Tries(p) /\ i # Tries(p)
                                           /\ q.attempts[i] = p.attempts[i]
                                           /\ (Succeeded(q, i) <=> Succeeded(p, i))
           /\ ~Succeeded(p, Tries(p))
<1>1. /\ q.plan = p.plan /\ q.base = p.base /\ Tries(q) = Tries(p) /\ Tries(p) > 0
      /\ \A i \in 1 .. Tries(p) - 1 : q.attempts[i] = p.attempts[i]
      /\ UnitAt(q, Tries(p)) = UnitAt(p, Tries(p))
      /\ q.attempts[Tries(p)].pre = p.attempts[Tries(p)].pre
      /\ ~Succeeded(p, Tries(p))
  BY DEF Ended, Succeeded
<1>2. Tries(p) \in Nat /\ DOMAIN p.attempts = 1 .. Tries(p) /\ DOMAIN q.attempts = 1 .. Tries(q)
  BY Fields
<1>3. /\ Tries(p) \in 1 .. Tries(p)
      /\ \A i \in 1 .. Tries(p) : i \in 1 .. Tries(p) - 1 \/ i = Tries(p)
      /\ \A i \in 1 .. Tries(p) - 1 : i \in 1 .. Tries(p) /\ i # Tries(p)
  BY <1>1, <1>2
<1>4. \A i \in 1 .. Tries(p) : UnitAt(q, i) = UnitAt(p, i)
  BY <1>1, <1>3 DEF UnitAt
<1>5. \A i \in 1 .. Tries(p) - 1 : Succeeded(q, i) <=> Succeeded(p, i)
  BY <1>1 DEF Succeeded
<1> QED BY <1>1, <1>2, <1>3, <1>4, <1>5 DEF WaveAt

\* The checkpoints before the attempt that ended are as they were.
LEMMA BaselineEnded ==
    ASSUME NEW p, NEW q, WellFormed(p), WellFormed(q), Ended(p, q), ChainHolds(p)
    PROVE  /\ \A n \in 0 .. Tries(p) - 1 : Baseline(q, n) = Baseline(p, n)
           /\ p.attempts[Tries(p)].pre = Baseline(p, Tries(p) - 1)
           /\ Tries(p) - 1 \in 0 .. Tries(p) /\ Tries(p) - 1 \in 0 .. Tries(p) - 1
           /\ Baseline(q, Tries(p)) = IF Succeeded(q, Tries(p)) THEN q.attempts[Tries(p)].post
                                      ELSE p.attempts[Tries(p)].pre
<1>1. /\ q.base = p.base /\ Tries(p) \in Nat /\ Tries(p) \in 1 .. Tries(p)
      /\ DOMAIN p.attempts = 1 .. Tries(p)
      /\ \A i \in 1 .. Tries(p) - 1 : q.attempts[i] = p.attempts[i]
      /\ q.attempts[Tries(p)].pre = p.attempts[Tries(p)].pre
  BY EndedFacts
<1>2. p.attempts[Tries(p)].pre = Baseline(p, Tries(p) - 1)
  BY <1>1 DEF ChainHolds
<1> QED BY <1>1, <1>2 DEF Baseline, Leaves, Succeeded

\* An end keeps the chain.
LEMMA ChainEnded ==
    ASSUME NEW p, NEW q, WellFormed(p), WellFormed(q), Ended(p, q), ChainHolds(p)
    PROVE  ChainHolds(q)
<1>1. /\ Tries(p) \in Nat
      /\ DOMAIN p.attempts = 1 .. Tries(p) /\ DOMAIN q.attempts = 1 .. Tries(p)
      /\ \A i \in 1 .. Tries(p) : UnitAt(q, i) = UnitAt(p, i)
                                  /\ q.attempts[i].pre = p.attempts[i].pre
      /\ \A i \in 1 .. Tries(p) - 1 : Succeeded(q, i) <=> Succeeded(p, i)
  BY EndedFacts
<1>2. SUFFICES ASSUME NEW i \in 1 .. Tries(p)
               PROVE  /\ q.attempts[i].pre = Baseline(q, i - 1)
                      /\ \A j \in 1 .. i - 1 : UnitAt(q, j) = UnitAt(q, i) => ~Succeeded(q, j)
  BY <1>1 DEF ChainHolds, UnitAt, Succeeded
<1>3. /\ p.attempts[i].pre = Baseline(p, i - 1)
      /\ \A j \in 1 .. i - 1 : UnitAt(p, j) = UnitAt(p, i) => ~Succeeded(p, j)
  BY <1>1 DEF ChainHolds, UnitAt, Succeeded
<1>4. i - 1 \in 0 .. Tries(p) - 1
      /\ \A j \in 1 .. i - 1 : j \in 1 .. Tries(p) /\ j \in 1 .. Tries(p) - 1
  BY <1>1
<1> QED BY <1>1, <1>3, <1>4, BaselineEnded

\* After an end nothing runs.
LEMMA OnlyLastRunsEnded ==
    ASSUME NEW p, NEW q, WellFormed(p), WellFormed(q), Ended(p, q), OnlyLastRuns(p)
    PROVE  OnlyLastRuns(q)
BY EndedFacts DEF OnlyLastRuns

\* An end completes units and waves only.
LEMMA ReadyEnded ==
    ASSUME NEW p, NEW q, WellFormed(p), WellFormed(q), Ended(p, q), Ready(p), WavesKept(p, q)
    PROVE  Ready(q)
<1>1. /\ Tries(q) = Tries(p) /\ q.plan = p.plan
      /\ \A i \in 1 .. Tries(p) : UnitAt(q, i) = UnitAt(p, i) /\ WaveAt(q, i) = WaveAt(p, i)
  BY EndedFacts
<1>2. Completed(p) \subseteq Completed(q)
  BY CompletedEnded
<1>3. ASSUME NEW i \in 1 .. Tries(p), NEW w \in 1 .. WaveAt(p, i) - 1 PROVE w \in Waves[p.plan]
  <2>1. WaveAt(p, i) \in Waves[p.plan] /\ WaveAt(p, i) \in Nat
    BY Fields
  <2>2. Len(Kind[p.plan]) \in Nat /\ Waves[p.plan] = 1 .. Len(Kind[p.plan])
    BY PlanShape DEF WellFormed
  <2> QED BY <2>1, <2>2
<1> QED BY <1>1, <1>2, <1>3 DEF Ready, WavesKept

\* An end leaves the units of the attempts as they are.
LEMMA InWaveOrderEnded ==
    ASSUME NEW p, NEW q, WellFormed(p), WellFormed(q), Ended(p, q), InWaveOrder(p)
    PROVE  InWaveOrder(q)
<1>1. /\ Tries(q) = Tries(p)
      /\ \A i \in 1 .. Tries(p) : WaveAt(q, i) = WaveAt(p, i)
  BY EndedFacts
<1> QED BY <1>1 DEF InWaveOrder

\* An end completes a wave only when its units are done and it has no gates.
LEMMA WavesDoneEnded ==
    ASSUME NEW p, NEW q, WellFormed(p), WellFormed(q), Ended(p, q), WavesDone(p),
           q.gates = p.gates,
           \A w \in Waves[p.plan] : q.waves[w].status = "completed" =>
              \/ p.waves[w].status = "completed"
              \/ UnitsIn[p.plan][w] \subseteq Completed(q) /\ GatesIn[p.plan][w] = {}
    PROVE  WavesDone(q)
<1>1. q.plan = p.plan /\ Completed(p) \subseteq Completed(q) /\ Checkpointed(q) = Checkpointed(p)
  BY EndedFacts, CompletedEnded DEF Checkpointed
<1> QED BY <1>1 DEF WavesDone

\* A verification succeeds only when it changed nothing.
LEMMA VerifiesOnlyEnded ==
    ASSUME NEW p, NEW q, WellFormed(p), WellFormed(q), Ended(p, q), VerifiesOnly(p),
           Succeeded(q, Tries(p)) /\ UnitKind[p.plan][UnitAt(p, Tries(p))] = "verification"
               => q.attempts[Tries(p)].post = q.attempts[Tries(p)].pre
    PROVE  VerifiesOnly(q)
BY EndedFacts DEF VerifiesOnly

\* What a verification left stands while only its own wave succeeds.
LEMMA StandsEnded ==
    ASSUME NEW p, NEW q, WellFormed(p), WellFormed(q), Ended(p, q), ChainHolds(p),
           Stands(p), VerifiesOnly(q)
    PROVE  Stands(q)
<1> DEFINE t == Tries(p)
<1>1. /\ t \in Nat /\ Tries(q) = t /\ t \in 1 .. t /\ q.plan = p.plan
      /\ \A i \in 1 .. t : /\ WaveAt(q, i) = WaveAt(p, i) /\ UnitAt(q, i) = UnitAt(p, i)
                           /\ q.attempts[i].pre = p.attempts[i].pre
      /\ \A i \in 1 .. t : i \in 1 .. t - 1 \/ i = t
      /\ \A i \in 1 .. t - 1 : /\ i \in 1 .. t /\ q.attempts[i] = p.attempts[i]
                               /\ (Succeeded(q, i) <=> Succeeded(p, i))
  BY EndedFacts
<1>2. /\ \A n \in 0 .. t - 1 : Baseline(q, n) = Baseline(p, n)
      /\ p.attempts[t].pre = Baseline(p, t - 1)
      /\ t - 1 \in 0 .. t /\ t - 1 \in 0 .. t - 1
      /\ Baseline(q, t) = IF Succeeded(q, t) THEN q.attempts[t].post ELSE p.attempts[t].pre
  BY BaselineEnded
<1> HIDE DEF t
<1>3. SUFFICES ASSUME NEW n \in 0 .. t, NEW j \in 1 .. n, Succeeded(q, j),
                      UnitKind[q.plan][UnitAt(q, j)] = "verification",
                      \A k \in j + 1 .. n : Succeeded(q, k) => WaveAt(q, k) = WaveAt(q, j)
               PROVE  Baseline(q, n) = q.attempts[j].post
  BY <1>1 DEF Stands
<1>4. ASSUME NEW l \in 0 .. t - 1, l <= n, j <= l
      PROVE  j \in 1 .. t - 1 /\ Baseline(p, l) = p.attempts[j].post
  <2>1. j \in 1 .. t - 1 /\ j \in 1 .. l /\ l \in 0 .. Tries(p)
    BY <1>1, <1>3, <1>4 DEF t
  <2>2. \A k \in j + 1 .. l : k \in 1 .. t - 1 /\ k \in j + 1 .. n
    BY <1>1, <1>3, <1>4
  <2>3. \A k \in j + 1 .. l : Succeeded(p, k) => WaveAt(p, k) = WaveAt(p, j)
    BY <1>1, <1>3, <2>1, <2>2
  <2>4. Succeeded(p, j) /\ UnitKind[p.plan][UnitAt(p, j)] = "verification"
    BY <1>1, <1>3, <2>1
  <2>5. Baseline(p, l) = p.attempts[j].post
    BY <2>1, <2>3, <2>4 DEF Stands
  <2> QED BY <2>1, <2>5
<1>5. CASE n \in 0 .. t - 1
  <2>1. j \in 1 .. t - 1 /\ Baseline(p, n) = p.attempts[j].post
    BY <1>1, <1>3, <1>4, <1>5
  <2> QED BY <1>1, <1>2, <1>5, <2>1
<1>6. CASE n = t /\ j = t
  BY <1>2, <1>3, <1>6
<1>7. CASE n = t /\ j # t
  <2>1. j <= t - 1 /\ t - 1 <= n /\ t \in j + 1 .. n
    BY <1>1, <1>3, <1>7
  <2>2. j \in 1 .. t - 1 /\ Baseline(p, t - 1) = p.attempts[j].post
    BY <1>2, <1>4, <2>1
  <2>3. q.attempts[j] = p.attempts[j]
    BY <1>1, <2>2
  <2>4. Baseline(q, t) = p.attempts[t].pre
    <3>1. CASE ~Succeeded(q, t)
      BY <1>2, <3>1
    <3>2. CASE Succeeded(q, t)
      <4>1. WaveAt(q, t) = WaveAt(q, j)
        BY <1>3, <2>1, <3>2
      <4>2. WellFormed(q) /\ q.plan \in ValidPlans /\ j \in 1 .. Tries(q) /\ t \in 1 .. Tries(q)
        BY <1>1, <2>2 DEF WellFormed
      <4>3. UnitKind[q.plan][UnitAt(q, t)] = UnitKind[q.plan][UnitAt(q, j)]
        <5>1. UnitAt(q, t) \in UnitsOf[q.plan] /\ UnitAt(q, j) \in UnitsOf[q.plan]
          BY <4>2, Fields
        <5>2. \A u \in UnitsOf[q.plan] : UnitKind[q.plan][u] = Kind[q.plan][WaveOf[q.plan][u]]
          BY <4>2, PlanShape
        <5> QED BY <4>1, <5>1, <5>2 DEF WaveAt
      <4>4. q.attempts[t].post = q.attempts[t].pre
        BY <1>3, <3>2, <4>2, <4>3 DEF VerifiesOnly
      <4> QED BY <1>1, <1>2, <3>2, <4>4
    <3> QED BY <3>1, <3>2
  <2> QED BY <1>2, <1>7, <2>2, <2>3, <2>4
<1> QED BY <1>1, <1>5, <1>6, <1>7

\* A success adds only what its unit may write.
LEMMA OwnedEnded ==
    ASSUME NEW p, NEW q, WellFormed(p), WellFormed(q), Ended(p, q), ChainHolds(p), Owned(p),
           Succeeded(q, Tries(p)) =>
               Differs(p.attempts[Tries(p)].pre, q.attempts[Tries(p)].post)
                   \subseteq Manifest[p.plan].writes[UnitAt(p, Tries(p))]
    PROVE  Owned(q)
<1> DEFINE t == Tries(p)
           W(x, n) == UNION {Manifest[x.plan].writes[UnitAt(x, j)] :
                               j \in {k \in 1 .. n : Succeeded(x, k)}}
<1>1. /\ t \in Nat /\ Tries(q) = t /\ t \in 1 .. t /\ q.plan = p.plan /\ q.base = p.base
      /\ \A i \in 1 .. t : UnitAt(q, i) = UnitAt(p, i)
      /\ \A i \in 1 .. t : i \in 1 .. t - 1 \/ i = t
      /\ \A i \in 1 .. t - 1 : i \in 1 .. t /\ (Succeeded(q, i) <=> Succeeded(p, i))
  BY EndedFacts
<1>2. /\ \A n \in 0 .. t - 1 : Baseline(q, n) = Baseline(p, n)
      /\ p.attempts[t].pre = Baseline(p, t - 1)
      /\ t - 1 \in 0 .. t /\ t - 1 \in 0 .. t - 1
      /\ Baseline(q, t) = IF Succeeded(q, t) THEN q.attempts[t].post ELSE p.attempts[t].pre
  BY BaselineEnded
<1>3. ASSUME NEW n \in 0 .. t - 1 PROVE Differs(Baseline(p, n), p.base) \subseteq W(q, n)
  <2>1. n \in 0 .. Tries(p) /\ \A k \in 1 .. n : k \in 1 .. t - 1
    BY <1>1
  <2>2. {k \in 1 .. n : Succeeded(q, k)} = {k \in 1 .. n : Succeeded(p, k)}
    BY <1>1, <2>1
  <2>3. W(q, n) = W(p, n)
    BY <1>1, <2>1, <2>2
  <2>4. Differs(Baseline(p, n), p.base) \subseteq W(p, n)
    BY <2>1 DEF Owned
  <2> QED BY <2>3, <2>4
<1>4. Differs(Baseline(q, t), q.base) \subseteq W(q, t)
  <2>1. Differs(p.attempts[t].pre, p.base) \subseteq W(q, t - 1)
    BY <1>2, <1>3
  <2>2. W(q, t - 1) \subseteq W(q, t)
    <3>1. \A k \in 1 .. t - 1 : k \in 1 .. t
      BY <1>1
    <3> QED BY <3>1
  <2>3. CASE ~Succeeded(q, t)
    <3> HIDE DEF W
    <3> QED BY <1>1, <1>2, <2>1, <2>2, <2>3
  <2>4. CASE Succeeded(q, t)
    <3>1. Manifest[q.plan].writes[UnitAt(q, t)] \subseteq W(q, t)
      BY <1>1, <2>4
    <3>2. Differs(p.attempts[t].pre, q.attempts[t].post) \subseteq W(q, t)
      <4>1. /\ Differs(p.attempts[t].pre, q.attempts[t].post)
                 \subseteq Manifest[p.plan].writes[UnitAt(p, t)]
            /\ UnitAt(q, t) = UnitAt(p, t) /\ q.plan = p.plan
        BY <1>1, <2>4
      <4> HIDE DEF W, t
      <4> QED BY <3>1, <4>1
    <3>3. Baseline(q, t) = q.attempts[t].post
      BY <1>2, <2>4
    <3> HIDE DEF W
    <3> QED BY <1>1, <2>1, <2>2, <3>2, <3>3 DEF Differs
  <2> QED BY <2>3, <2>4
<1>5. \A n \in 0 .. t : Differs(Baseline(q, n), q.base) \subseteq W(q, n)
  <2> HIDE DEF W
  <2>1. \A n \in 0 .. t : n \in 0 .. t - 1 \/ n = t
    BY <1>1
  <2> QED BY <1>1, <1>2, <1>3, <1>4, <2>1
<1> QED BY <1>1, <1>5 DEF Owned

\* An end leaves where attempts started, and adds no first attempt of a wave.
LEMMA BuiltOnVerifiedEnded ==
    ASSUME NEW p, NEW q, WellFormed(p), WellFormed(q), Ended(p, q),
           BuiltOnVerified(p), q.gates = p.gates
    PROVE  BuiltOnVerified(q)
<1>1. /\ q.plan = p.plan /\ Tries(p) \in Nat /\ Tries(q) = Tries(p)
      /\ \A k \in 1 .. Tries(p) : WaveAt(q, k) = WaveAt(p, k)
                                  /\ q.attempts[k].pre = p.attempts[k].pre
      /\ \A k \in 1 .. Tries(p) - 1 : k \in 1 .. Tries(p) /\ (Succeeded(q, k) <=> Succeeded(p, k))
  BY EndedFacts
<1>2. SUFFICES ASSUME NEW i \in 1 .. Tries(p), WaveAt(q, i) > 1,
                      \A j \in 1 .. i - 1 : Succeeded(q, j) => WaveAt(q, j) # WaveAt(q, i),
                      NEW g \in GatesIn[q.plan][WaveAt(q, i) - 1]
               PROVE  \E c \in ToSet(q.gates) : c.gate = g /\ c.ws = q.attempts[i].pre
  BY <1>1 DEF BuiltOnVerified
<1>3. \A j \in 1 .. i - 1 : j \in 1 .. Tries(p) - 1
  BY <1>1
<1>4. \A j \in 1 .. i - 1 : Succeeded(p, j) => WaveAt(p, j) # WaveAt(p, i)
  BY <1>1, <1>2, <1>3
<1>5. WaveAt(p, i) > 1 /\ g \in GatesIn[p.plan][WaveAt(p, i) - 1]
  BY <1>1, <1>2
<1>6. \E c \in ToSet(p.gates) : c.gate = g /\ c.ws = p.attempts[i].pre
  BY <1>4, <1>5 DEF BuiltOnVerified
<1> QED BY <1>1, <1>6

\* An end keeps the gates: an owner succeeds once.
LEMMA GatesEnded ==
    ASSUME NEW p, NEW q, NEW R, WellFormed(p), WellFormed(q), Ended(p, q),
           ChainHolds(p), ChainHolds(q), GatesHold(p, R), q.gates = p.gates, q.audited = p.audited
    PROVE  GatesHold(q, R)
<1>1. /\ q.plan = p.plan /\ Tries(q) = Tries(p)
      /\ DOMAIN p.attempts = 1 .. Tries(p) /\ DOMAIN q.attempts = 1 .. Tries(p)
      /\ \A k \in 1 .. Tries(p) : UnitAt(q, k) = UnitAt(p, k)
      /\ \A k \in 1 .. Tries(p) : k \in 1 .. Tries(p) - 1 \/ k = Tries(p)
      /\ \A k \in 1 .. Tries(p) - 1 : /\ q.attempts[k] = p.attempts[k]
                                      /\ (Succeeded(q, k) <=> Succeeded(p, k))
      /\ ~Succeeded(p, Tries(p))
  BY EndedFacts
<1>2. Completed(p) \subseteq Completed(q) /\ Checkpointed(q) = Checkpointed(p)
  BY CompletedEnded DEF Checkpointed
<1>3. DOMAIN p.gates = 1 .. Len(p.gates)
  BY Fields
<1>4. ASSUME NEW i \in 1 .. Len(p.gates)
      PROVE  OwnerAttempt(q, p.gates[i].gate) = OwnerAttempt(p, p.gates[i].gate)
  <2>1. PICK j \in 1 .. Tries(p) : /\ Succeeded(p, j)
                                   /\ UnitAt(p, j) = Manifest[p.plan].owner[p.gates[i].gate]
                                   /\ OwnerAttempt(p, p.gates[i].gate) = p.attempts[j]
    BY CheckpointIs
  <2>2. j \in 1 .. Tries(p) - 1
    BY <1>1, <2>1
  <2>3. j \in 1 .. Tries(q) /\ Succeeded(q, j)
        /\ UnitAt(q, j) = Manifest[q.plan].owner[p.gates[i].gate]
    BY <1>1, <2>1, <2>2
  <2>4. OwnerAttempt(q, p.gates[i].gate) = q.attempts[j]
    BY <2>3, OwnerIs
  <2> QED BY <1>1, <2>1, <2>2, <2>4
<1>5. \A i \in 1 .. Len(p.gates) :
        /\ q.gates[i].gate = OrderedGates[q.plan][i]
        /\ Manifest[q.plan].owner[q.gates[i].gate] \in Completed(q)
        /\ q.gates[i].ws = OwnerAttempt(q, q.gates[i].gate).post
        /\ q.gates[i].gate \in Manifest[q.plan].outer => q.gates[i].gate \in R
  BY <1>1, <1>2, <1>3, <1>4 DEF GatesHold
<1>6. q.audited = (GatesIn[q.plan][2] \subseteq Checkpointed(q))
  BY <1>1, <1>2 DEF GatesHold
<1>7. q.audited \/ \A a \in ToSet(q.attempts) : UnitKind[q.plan][a.unit] # "execution"
  <2>1. p.audited \/ \A i \in 1 .. Tries(p) : UnitKind[p.plan][UnitAt(p, i)] # "execution"
    BY <1>1 DEF GatesHold, ToSet, UnitAt
  <2>2. q.audited \/ \A i \in 1 .. Tries(p) : UnitKind[q.plan][UnitAt(q, i)] # "execution"
    BY <1>1, <2>1
  <2> QED BY <1>1, <2>2 DEF ToSet, UnitAt
<1> QED BY <1>3, <1>5, <1>6, <1>7 DEF GatesHold

\* An end counts the prompts of its output.
LEMMA CountersEnded ==
    ASSUME NEW p, NEW q, WellFormed(p), WellFormed(q), Ended(p, q), CountersHold(p),
           NEW n \in Nat, q.attempts[Tries(p)].size = p.attempts[Tries(p)].size + n,
           NEW v, v = WaveAt(p, Tries(p)),
           q.waves[v].tokens = p.waves[v].tokens + n,
           \A w \in Waves[p.plan] : w # v => q.waves[w] = p.waves[w]
    PROVE  CountersHold(q)
<1> DEFINE t == Tries(p)
<1>1. /\ q.plan = p.plan /\ Tries(p) \in Nat /\ Tries(q) = t /\ t \in 1 .. t
      /\ DOMAIN p.attempts = 1 .. t /\ DOMAIN q.attempts = 1 .. t
      /\ \A i \in 1 .. t : UnitAt(q, i) = UnitAt(p, i) /\ WaveAt(q, i) = WaveAt(p, i)
      /\ \A i \in 1 .. t : i \in 1 .. t - 1 \/ i = t
      /\ \A i \in 1 .. t - 1 : q.attempts[i] = p.attempts[i]
  BY EndedFacts
<1>2. \A i \in 1 .. t : p.attempts[i].size \in Nat
  BY Fields
<1> HIDE DEF t
<1>3. ASSUME NEW w PROVE OfWave(q, w) = OfWave(p, w) /\ OfUnit(q, w) = OfUnit(p, w)
  BY <1>1 DEF OfWave, OfUnit, UnitAt
<1>4. v \in Waves[p.plan] /\ v = WaveAt(p, t)
  BY <1>1, Fields DEF t
<1>5. ASSUME NEW w \in Waves[p.plan], w # v
      PROVE  q.waves[w].tokens = Sizes(q, OfWave(q, w))
  <2>1. OfWave(p, w) = {i \in 1 .. t : WaveAt(p, i) = w}
    BY OfWaveIs DEF t
  <2>2. \A i \in OfWave(p, w) : i \in 1 .. t - 1
    BY <1>1, <1>4, <1>5, <2>1
  <2>3. Sizes(q, OfWave(p, w)) = Sizes(p, OfWave(p, w))
    BY <1>1, <2>2, SizesSame
  <2> QED BY <1>3, <1>5, <2>3 DEF CountersHold
<1>6. q.waves[v].tokens = Sizes(q, OfWave(q, v))
  <2> DEFINE I == OfWave(p, v) \ {t}
  <2>1. OfWave(p, v) = {i \in 1 .. t : WaveAt(p, i) = v}
    BY <1>4, OfWaveIs DEF t
  <2>2. OfWave(p, v) = I \cup {t} /\ t \notin I /\ \A i \in I : i \in 1 .. t - 1 /\ i \in 1 .. t
    BY <1>1, <1>4, <2>1
  <2>3. IsFiniteSet(I)
    BY OfFinite, FS_RemoveElement
  <2> HIDE DEF I
  <2>4. \A i \in I : p.attempts[i].size \in Nat /\ q.attempts[i].size = p.attempts[i].size
    BY <1>1, <1>2, <2>2
  <2>5. p.attempts[t].size \in Nat /\ q.attempts[t].size = p.attempts[t].size + n
    BY <1>1, <1>2 DEF t
  <2>6. Sizes(p, I) \in Nat /\ Sizes(p, I \cup {t}) = Sizes(p, I) + p.attempts[t].size
    BY <2>2, <2>3, <2>4, <2>5, SizesAddOwn
  <2>7. Sizes(q, I \cup {t}) = Sizes(p, I) + q.attempts[t].size
    <3>1. q.attempts[t].size \in Nat
      BY <2>5
    <3> QED BY <2>2, <2>3, <2>4, <3>1, SizesAdd DEF SizesAgree
  <2>8. p.waves[v].tokens = Sizes(p, I \cup {t})
    BY <1>4, <2>2 DEF CountersHold
  <2>9. OfWave(q, v) = I \cup {t}
    BY <1>3, <2>2
  <2>10. q.waves[v].tokens = Sizes(p, I) + p.attempts[t].size + n
    BY <2>6, <2>8
  <2> QED BY <2>5, <2>6, <2>7, <2>9, <2>10
<1>7. \A w \in Waves[p.plan] : Cardinality(OfWave(q, w)) <= SpawnCap
  BY <1>3 DEF CountersHold
<1>8. \A u \in UnitsOf[p.plan] : Cardinality(OfUnit(q, u)) <= MaxAttempts
  BY <1>3 DEF CountersHold
<1> QED BY <1>1, <1>5, <1>6, <1>7, <1>8 DEF CountersHold

\* The last attempt is measured by all that its wave spent.
LEMMA MeteredEnded ==
    ASSUME NEW p, NEW q, WellFormed(p), WellFormed(q), Ended(p, q), Metered(p), CountersHold(q),
           Succeeded(q, Tries(p)) => q.waves[WaveAt(p, Tries(p))].tokens <= Ceiling
    PROVE  Metered(q)
<1> DEFINE t == Tries(p)
<1>1. /\ q.plan = p.plan /\ Tries(p) \in Nat /\ Tries(q) = t /\ t \in 1 .. t
      /\ DOMAIN p.attempts = 1 .. t /\ DOMAIN q.attempts = 1 .. t
      /\ \A i \in 1 .. t : UnitAt(q, i) = UnitAt(p, i) /\ WaveAt(q, i) = WaveAt(p, i)
      /\ \A i \in 1 .. t : i \in 1 .. t - 1 \/ i = t
      /\ \A i \in 1 .. t - 1 : /\ q.attempts[i] = p.attempts[i]
                               /\ (Succeeded(q, i) <=> Succeeded(p, i))
  BY EndedFacts
<1>2. ASSUME NEW w PROVE OfWave(q, w) = OfWave(p, w)
  BY <1>1 DEF OfWave, UnitAt
<1>3. ASSUME NEW i \in 1 .. t - 1, Succeeded(q, i)
      PROVE  Cardinality(SoFar(q, i)) <= SpawnCap /\ Sizes(q, SoFar(q, i)) <= Ceiling
  <2>1. i \in 1 .. t /\ Succeeded(p, i) /\ WaveAt(q, i) = WaveAt(p, i)
    BY <1>1, <1>3
  <2>2. SoFar(q, i) = SoFar(p, i)
    BY <1>2, <2>1 DEF SoFar
  <2>3. \A k \in SoFar(p, i) : k \in 1 .. t - 1
    <3>1. OfWave(p, WaveAt(p, i)) \subseteq 1 .. t
      BY OfFinite
    <3>2. \A k \in SoFar(p, i) : k \in 1 .. t /\ k <= i
      BY <3>1 DEF SoFar
    <3> HIDE DEF t
    <3> QED BY <1>1, <3>2 DEF t
  <2>4. Sizes(q, SoFar(p, i)) = Sizes(p, SoFar(p, i))
    BY <1>1, <2>3, SizesSame
  <2> QED BY <2>1, <2>2, <2>4 DEF Metered
<1>4. ASSUME Succeeded(q, t)
      PROVE  Cardinality(SoFar(q, t)) <= SpawnCap /\ Sizes(q, SoFar(q, t)) <= Ceiling
  <2> DEFINE v == WaveAt(p, t)
  <2>1. v \in Waves[q.plan] /\ WaveAt(q, t) = v
    BY <1>1, Fields
  <2>2. \A k \in OfWave(q, v) : k <= t
    <3>1. OfWave(q, v) \subseteq 1 .. t
      BY <1>1, OfFinite
    <3> QED BY <1>1, <3>1
  <2>3. SoFar(q, t) = OfWave(q, v)
    BY <2>1, <2>2 DEF SoFar
  <2>4. Cardinality(OfWave(q, v)) <= SpawnCap /\ q.waves[v].tokens = Sizes(q, OfWave(q, v))
    BY <2>1 DEF CountersHold
  <2> QED BY <1>4, <2>3, <2>4
<1> QED BY <1>1, <1>3, <1>4 DEF Metered

\* A program with a running attempt is not completed.
LEMMA RunningIsNotCompleted ==
    ASSUME NEW p, WellFormed(p), ChainHolds(p), CompletionHolds(p),
           Tries(p) > 0, p.attempts[Tries(p)].status = "running"
    PROVE  UnitAt(p, Tries(p)) \notin Completed(p) /\ p.status # "completed"
<1> DEFINE t == Tries(p)
<1>1. t \in Nat /\ t \in 1 .. t /\ DOMAIN p.attempts = 1 .. t /\ UnitAt(p, t) \in UnitsOf[p.plan]
  <2>1. t \in Nat /\ DOMAIN p.attempts = 1 .. t
    BY Fields
  <2>2. t \in 1 .. t
    BY <2>1
  <2> QED BY <2>1, <2>2, Fields
<1>2. ASSUME NEW j \in 1 .. t, Succeeded(p, j) PROVE UnitAt(p, j) # UnitAt(p, t)
  <2>1. j # t
    BY <1>2 DEF Succeeded
  <2>2. j \in 1 .. t - 1
    BY <1>1, <2>1
  <2> QED BY <1>1, <1>2, <2>2 DEF ChainHolds, Succeeded, UnitAt
<1>3. UnitAt(p, t) \notin Completed(p)
  BY <1>2, CompletedUnits
<1> QED BY <1>1, <1>3 DEF CompletionHolds

---------------------------------------------------------------------------
(* A call keeps a sound program sound.                                     *)

\* A claim: conditions of the unit it starts, and what it does to the wave.
Claimable(p, u, v) ==
    /\ u \in UnitsOf[p.plan] /\ v = WaveOf[p.plan][u]
    /\ p.status = "active" /\ ~Running(p)
    /\ u \notin Completed(p) \cup Manifest[p.plan].final
    /\ Manifest[p.plan].needs[u] \subseteq Completed(p)
    /\ \A w \in 1 .. v - 1 : p.waves[w].status = "completed"
    /\ UnitKind[p.plan][u] = "execution" => p.audited
    /\ Cardinality(OfUnit(p, u)) < MaxAttempts
    /\ Cardinality(OfWave(p, v)) < SpawnCap

Claims(p, q, u, v) ==
    /\ UnitAt(q, Tries(q)) = u
    /\ q.attempts[Tries(q)].pre = Baseline(p, Tries(p))
    /\ q.attempts[Tries(q)].size = 1
    /\ q.waves[v].tokens = p.waves[v].tokens + 1
    /\ \A w \in Waves[p.plan] : w # v => q.waves[w] = p.waves[w]
    /\ q.waves[v].status = "running"
    /\ q.gates = p.gates /\ q.audited = p.audited /\ q.status = p.status

\* A claim keeps a sound program sound.
LEMMA SoundGrown ==
    ASSUME NEW p, NEW q, NEW R, NEW u, NEW v,
           Sound(p), GatesHold(p, R), WellFormed(q), Grown(p, q),
           Claimable(p, u, v), Claims(p, q, u, v)
    PROVE  Sound(q) /\ GatesHold(q, R)
<1>1. /\ WellFormed(p) /\ ChainHolds(p) /\ OnlyLastRuns(p) /\ Ready(p) /\ InWaveOrder(p)
      /\ WavesDone(p) /\ GatesFit(p) /\ VerifiesOnly(p) /\ Stands(p) /\ Owned(p)
      /\ BuiltOnVerified(p) /\ CountersHold(p) /\ Metered(p) /\ CompletionHolds(p)
  BY DEF Sound
<1>2. q.plan = p.plan /\ Tries(q) = Tries(p) + 1 /\ Completed(q) = Completed(p)
  BY <1>1, CompletedGrown DEF Grown
<1>3. UnitAt(q, Tries(q)) = u /\ WaveAt(q, Tries(q)) = v
      /\ q.attempts[Tries(q)].pre = Baseline(p, Tries(p))
  BY <1>2 DEF Claims, Claimable, WaveAt
<1>4. p.plan \in ValidPlans /\ v \in Waves[p.plan] /\ u \in UnitsIn[p.plan][v]
  BY <1>1, PlanShape DEF WellFormed, Claimable
<1>5. p.waves[v].status # "completed"
  BY <1>1, <1>4 DEF WavesDone, Claimable
<1>6. WavesKept(p, q)
  BY <1>5 DEF WavesKept, Claims
<1>7. Len(Kind[p.plan]) \in Nat /\ Waves[p.plan] = 1 .. Len(Kind[p.plan]) /\ v \in Nat
  BY <1>4, PlanShape
<1>8. \A w \in 1 .. v - 1 : w \in Waves[p.plan] /\ q.waves[w].status = "completed"
  BY <1>4, <1>6, <1>7 DEF WavesKept, Claimable
<1>9. ChainHolds(q)
  BY <1>1, <1>3, ChainGrown DEF Claimable
<1>10. OnlyLastRuns(q)
  BY <1>1, OnlyLastRunsGrown DEF Claimable
<1>11. Ready(q)
  BY <1>1, <1>3, <1>6, <1>8, ReadyGrown DEF Claimable
<1>12. InWaveOrder(q)
  BY <1>1, <1>3, InWaveOrderGrown DEF Claimable
<1>13. WavesDone(q) /\ GatesFit(q)
  <2>1. Checkpointed(q) = Checkpointed(p)
    BY DEF Checkpointed, Claims
  <2>2. \A w \in Waves[p.plan] : q.waves[w].status = "completed" => p.waves[w].status = "completed"
    BY DEF Claims
  <2> QED BY <1>1, <1>2, <2>1, <2>2 DEF WavesDone, GatesFit, Claims
<1>14. VerifiesOnly(q) /\ Stands(q) /\ Owned(q)
  BY <1>1, <1>3, VerifiesOnlyGrown, StandsGrown, OwnedGrown
<1>15. q.gates = p.gates /\ q.audited = p.audited /\ q.status = p.status
  BY DEF Claims
<1>16. BuiltOnVerified(q)
  <2>1. \A w \in 1 .. WaveAt(q, Tries(q)) - 1 : p.waves[w].status = "completed"
    BY <1>3 DEF Claimable
  <2> QED BY <1>1, <1>3, <1>12, <1>15, <2>1, BuiltOnVerifiedGrown
<1>17. CountersHold(q)
  <2>1. /\ Cardinality(OfWave(p, v)) < SpawnCap
        /\ Cardinality(OfUnit(p, UnitAt(q, Tries(q)))) < MaxAttempts
    BY <1>3 DEF Claimable
  <2>2. /\ q.attempts[Tries(q)].size = 1 /\ q.waves[v].tokens = p.waves[v].tokens + 1
        /\ \A w \in Waves[p.plan] : w # v => q.waves[w] = p.waves[w]
    BY DEF Claims
  <2> QED BY <1>1, <1>3, <2>1, <2>2, CountersGrown
<1>18. Metered(q)
  BY <1>1, MeteredGrown
<1>19. CompletionHolds(q)
  BY <1>15 DEF CompletionHolds, Claimable
<1>20. GatesHold(q, R)
  <2>1. p.audited \/ UnitKind[p.plan][UnitAt(q, Tries(q))] # "execution"
    BY <1>3 DEF Claimable
  <2> QED BY <1>1, <1>9, <1>15, <2>1, GatesGrown
<1> QED BY <1>9, <1>10, <1>11, <1>12, <1>13, <1>14, <1>16, <1>17, <1>18, <1>19, <1>20 DEF Sound

\* An end: what is asked of a success, and what it does to the wave.
Ends(p, q, n) ==
    LET t == Tries(p)
        v == WaveAt(p, t)
        a == q.attempts[t]
    IN  /\ n \in Nat
        /\ Succeeded(q, t) =>
             /\ Differs(p.attempts[t].pre, a.post) \subseteq Manifest[p.plan].writes[UnitAt(p, t)]
             /\ UnitKind[p.plan][UnitAt(p, t)] = "verification" => a.post = a.pre
             /\ q.waves[v].tokens <= Ceiling
        /\ a.size = p.attempts[t].size + n
        /\ q.waves[v].tokens = p.waves[v].tokens + n
        /\ \A w \in Waves[p.plan] : w # v => q.waves[w] = p.waves[w]
        /\ \/ q.waves[v].status = p.waves[v].status
           \/ /\ q.waves[v].status = "completed"
              /\ UnitsIn[p.plan][v] \subseteq Completed(q) /\ GatesIn[p.plan][v] = {}
        /\ q.gates = p.gates /\ q.audited = p.audited /\ q.status = p.status

\* An end keeps a sound program sound.
LEMMA SoundEnded ==
    ASSUME NEW p, NEW q, NEW R, NEW n,
           Sound(p), GatesHold(p, R), WellFormed(q), Ended(p, q), Ends(p, q, n)
    PROVE  Sound(q) /\ GatesHold(q, R)
<1>1. /\ WellFormed(p) /\ ChainHolds(p) /\ OnlyLastRuns(p) /\ Ready(p) /\ InWaveOrder(p)
      /\ WavesDone(p) /\ GatesFit(p) /\ VerifiesOnly(p) /\ Stands(p) /\ Owned(p)
      /\ BuiltOnVerified(p) /\ CountersHold(p) /\ Metered(p) /\ CompletionHolds(p)
  BY DEF Sound
<1> DEFINE t == Tries(p)
           v == WaveAt(p, t)
<1>2. q.gates = p.gates /\ q.audited = p.audited /\ q.status = p.status /\ n \in Nat
  BY DEF Ends
<1>3. q.plan = p.plan /\ t > 0 /\ p.attempts[t].status = "running"
  BY DEF Ended
<1>4. \A w \in Waves[p.plan] :
        \/ q.waves[w].status = p.waves[w].status
        \/ /\ q.waves[w].status = "completed"
           /\ UnitsIn[p.plan][w] \subseteq Completed(q) /\ GatesIn[p.plan][w] = {}
  BY DEF Ends
<1>5. WavesKept(p, q)
  BY <1>4 DEF WavesKept
<1>6. ChainHolds(q)
  BY <1>1, ChainEnded
<1>7. OnlyLastRuns(q) /\ InWaveOrder(q)
  BY <1>1, OnlyLastRunsEnded, InWaveOrderEnded
<1>8. Ready(q)
  BY <1>1, <1>5, ReadyEnded
<1>9. WavesDone(q)
  BY <1>1, <1>2, <1>4, WavesDoneEnded
<1>10. GatesFit(q)
  BY <1>1, <1>2, <1>3 DEF GatesFit
<1>11. VerifiesOnly(q)
  <2>1. Succeeded(q, Tries(p)) /\ UnitKind[p.plan][UnitAt(p, Tries(p))] = "verification"
               => q.attempts[Tries(p)].post = q.attempts[Tries(p)].pre
    BY DEF Ends
  <2> QED BY <1>1, <2>1, VerifiesOnlyEnded
<1>12. Stands(q)
  BY <1>1, <1>11, StandsEnded
<1>13. Owned(q)
  <2>1. Succeeded(q, Tries(p)) =>
               Differs(p.attempts[Tries(p)].pre, q.attempts[Tries(p)].post)
                   \subseteq Manifest[p.plan].writes[UnitAt(p, Tries(p))]
    BY DEF Ends
  <2> QED BY <1>1, <2>1, OwnedEnded
<1>14. BuiltOnVerified(q)
  BY <1>1, <1>2, BuiltOnVerifiedEnded
<1>15. CountersHold(q)
  <2>1. /\ q.attempts[Tries(p)].size = p.attempts[Tries(p)].size + n
        /\ q.waves[v].tokens = p.waves[v].tokens + n
        /\ \A w \in Waves[p.plan] : w # v => q.waves[w] = p.waves[w]
    BY DEF Ends
  <2> HIDE DEF v
  <2>2. v = WaveAt(p, Tries(p))
    BY DEF v
  <2> QED BY <1>1, <1>2, <2>1, <2>2, CountersEnded
<1>16. Metered(q)
  <2>1. Succeeded(q, Tries(p)) => q.waves[WaveAt(p, Tries(p))].tokens <= Ceiling
    BY DEF Ends
  <2> QED BY <1>1, <1>15, <2>1, MeteredEnded
<1>17. CompletionHolds(q)
  BY <1>1, <1>2, <1>3, RunningIsNotCompleted DEF CompletionHolds
<1>18. GatesHold(q, R)
  BY <1>1, <1>2, <1>6, GatesEnded
<1> QED BY <1>6, <1>7, <1>8, <1>9, <1>10, <1>11, <1>12, <1>13, <1>14, <1>15, <1>16, <1>17, <1>18
        DEF Sound

\* A gate more, on what its owner left.
Gated(p, q, g) ==
    /\ q.plan = p.plan /\ q.base = p.base /\ q.attempts = p.attempts
    /\ Len(q.gates) = Len(p.gates) + 1
    /\ \A i \in 1 .. Len(p.gates) : q.gates[i] = p.gates[i]
    /\ q.gates[Len(q.gates)].gate = g
    /\ q.gates[Len(q.gates)].ws = OwnerAttempt(p, g).post
    /\ Len(p.gates) < Len(OrderedGates[p.plan])
    /\ g = OrderedGates[p.plan][Len(p.gates) + 1]
    /\ Manifest[p.plan].owner[g] \in Completed(p)
    /\ q.audited = (GatesIn[p.plan][2] \subseteq Checkpointed(q))
    /\ \A w \in Waves[p.plan] :
         /\ q.waves[w].tokens = p.waves[w].tokens
         /\ \/ q.waves[w].status = p.waves[w].status
            \/ g \in GatesIn[p.plan][w] /\ GatesIn[p.plan][w] \subseteq Checkpointed(q)
         /\ p.waves[w].status = "completed" => q.waves[w].status = "completed"
    /\ p.status = "active" /\ q.status = p.status

\* What depends on the attempts alone.
LEMMA SameAttempts ==
    ASSUME NEW p, NEW q, q.plan = p.plan, q.base = p.base, q.attempts = p.attempts
    PROVE  /\ Tries(q) = Tries(p) /\ Completed(q) = Completed(p)
           /\ \A g : OwnerAttempt(q, g) = OwnerAttempt(p, g)
           /\ ChainHolds(p) => ChainHolds(q)
           /\ OnlyLastRuns(p) => OnlyLastRuns(q)
           /\ InWaveOrder(p) => InWaveOrder(q)
           /\ VerifiesOnly(p) => VerifiesOnly(q)
           /\ Stands(p) => Stands(q)
           /\ Owned(p) => Owned(q)
           /\ Metered(p) => Metered(q)
<1>1. Tries(q) = Tries(p)
  BY DEF Tries
<1>2. Completed(q) = Completed(p)
  BY DEF Completed
<1>3. \A g : OwnerAttempt(q, g) = OwnerAttempt(p, g)
  BY DEF OwnerAttempt
<1>4. \A i : /\ UnitAt(q, i) = UnitAt(p, i) /\ WaveAt(q, i) = WaveAt(p, i)
             /\ Succeeded(q, i) = Succeeded(p, i)
  BY DEF UnitAt, WaveAt, Succeeded
<1>5. \A n : Baseline(q, n) = Baseline(p, n)
  BY DEF Baseline, Leaves
<1>6. ChainHolds(p) => ChainHolds(q)
  BY <1>5 DEF ChainHolds
<1>7. OnlyLastRuns(p) => OnlyLastRuns(q)
  BY <1>1 DEF OnlyLastRuns
<1>8. InWaveOrder(p) => InWaveOrder(q)
  BY <1>1, <1>4 DEF InWaveOrder
<1>9. VerifiesOnly(p) => VerifiesOnly(q)
  BY <1>1, <1>4 DEF VerifiesOnly
<1>10. Stands(p) => Stands(q)
  BY <1>1, <1>4, <1>5 DEF Stands
<1>11. Owned(p) => Owned(q)
  BY <1>1, <1>4, <1>5 DEF Owned
<1>12. Metered(p) => Metered(q)
  <2>1. \A i : SoFar(q, i) = SoFar(p, i)
    BY <1>4 DEF SoFar, OfWave
  <2>2. \A I : Sizes(q, I) = Sizes(p, I)
    BY SizesSame
  <2> QED BY <1>1, <1>4, <2>1, <2>2 DEF Metered
<1> QED BY <1>1, <1>2, <1>3, <1>6, <1>7, <1>8, <1>9, <1>10, <1>11, <1>12

\* Its counters, when their tokens are the same too.
LEMMA SameCounters ==
    ASSUME NEW p, NEW q, q.plan = p.plan, q.attempts = p.attempts, CountersHold(p),
           \A w \in Waves[p.plan] : q.waves[w].tokens = p.waves[w].tokens
    PROVE  CountersHold(q)
<1>1. \A x : OfWave(q, x) = OfWave(p, x) /\ OfUnit(q, x) = OfUnit(p, x)
  BY DEF OfWave, OfUnit
<1>2. \A I : Sizes(q, I) = Sizes(p, I)
  BY SizesSame
<1> QED BY <1>1, <1>2 DEF CountersHold

\* What a checkpoint adds, index by index.
LEMMA GatedFacts ==
    ASSUME NEW p, NEW q, NEW g, WellFormed(p), WellFormed(q), Gated(p, q, g)
    PROVE  /\ Len(p.gates) \in Nat /\ Len(q.gates) = Len(p.gates) + 1
           /\ DOMAIN p.gates = 1 .. Len(p.gates) /\ DOMAIN q.gates = 1 .. Len(q.gates)
           /\ Len(q.gates) \in 1 .. Len(q.gates)
           /\ \A i \in 1 .. Len(p.gates) : i \in 1 .. Len(q.gates) /\ q.gates[i] = p.gates[i]
           /\ \A i \in 1 .. Len(q.gates) : i \in 1 .. Len(p.gates) \/ i = Len(q.gates)
           /\ Checkpointed(q) = Checkpointed(p) \cup {g}
           /\ ToSet(p.gates) \subseteq ToSet(q.gates)
<1>1. /\ Len(p.gates) \in Nat
      /\ DOMAIN p.gates = 1 .. Len(p.gates) /\ DOMAIN q.gates = 1 .. Len(q.gates)
  BY Fields
<1>2. /\ Len(q.gates) = Len(p.gates) + 1 /\ q.gates[Len(q.gates)].gate = g
      /\ \A i \in 1 .. Len(p.gates) : q.gates[i] = p.gates[i]
  BY DEF Gated
<1>3. /\ Len(q.gates) \in 1 .. Len(q.gates)
      /\ \A i \in 1 .. Len(p.gates) : i \in 1 .. Len(q.gates)
      /\ \A i \in 1 .. Len(q.gates) : i \in 1 .. Len(p.gates) \/ i = Len(q.gates)
  BY <1>1, <1>2
<1>4. Checkpointed(q) = Checkpointed(p) \cup {g}
  BY <1>1, <1>2, <1>3 DEF Checkpointed, ToSet
<1>5. ToSet(p.gates) \subseteq ToSet(q.gates)
  BY <1>1, <1>2, <1>3 DEF ToSet
<1> QED BY <1>1, <1>2, <1>3, <1>4, <1>5

\* A checkpoint keeps a sound program sound.
LEMMA SoundGated ==
    ASSUME NEW p, NEW q, NEW R, NEW g,
           Sound(p), GatesHold(p, R), WellFormed(q), Gated(p, q, g),
           g \in Manifest[p.plan].outer => g \in R
    PROVE  Sound(q) /\ GatesHold(q, R)
<1>1. /\ WellFormed(p) /\ ChainHolds(p) /\ OnlyLastRuns(p) /\ Ready(p) /\ InWaveOrder(p)
      /\ WavesDone(p) /\ GatesFit(p) /\ VerifiesOnly(p) /\ Stands(p) /\ Owned(p)
      /\ BuiltOnVerified(p) /\ CountersHold(p) /\ Metered(p) /\ CompletionHolds(p)
  BY DEF Sound
<1>2. q.plan = p.plan /\ q.base = p.base /\ q.attempts = p.attempts
  BY DEF Gated
<1>3. /\ Tries(q) = Tries(p) /\ Completed(q) = Completed(p)
      /\ \A x : OwnerAttempt(q, x) = OwnerAttempt(p, x)
      /\ ChainHolds(q) /\ OnlyLastRuns(q) /\ InWaveOrder(q) /\ VerifiesOnly(q) /\ Stands(q)
      /\ Owned(q) /\ Metered(q)
  BY <1>1, <1>2, SameAttempts
<1>4. /\ Len(p.gates) \in Nat /\ Len(q.gates) = Len(p.gates) + 1
      /\ DOMAIN p.gates = 1 .. Len(p.gates) /\ DOMAIN q.gates = 1 .. Len(q.gates)
      /\ \A i \in 1 .. Len(p.gates) : i \in 1 .. Len(q.gates) /\ q.gates[i] = p.gates[i]
      /\ \A i \in 1 .. Len(q.gates) : i \in 1 .. Len(p.gates) \/ i = Len(q.gates)
      /\ Checkpointed(q) = Checkpointed(p) \cup {g}
      /\ ToSet(p.gates) \subseteq ToSet(q.gates)
  BY <1>1, GatedFacts
<1>5. \A i : UnitAt(q, i) = UnitAt(p, i) /\ WaveAt(q, i) = WaveAt(p, i)
             /\ (Succeeded(q, i) <=> Succeeded(p, i))
  BY <1>2 DEF UnitAt, WaveAt, Succeeded
<1>6. \A w \in Waves[p.plan] :
         /\ q.waves[w].tokens = p.waves[w].tokens
         /\ \/ q.waves[w].status = p.waves[w].status
            \/ g \in GatesIn[p.plan][w] /\ GatesIn[p.plan][w] \subseteq Checkpointed(q)
         /\ p.waves[w].status = "completed" => q.waves[w].status = "completed"
  BY DEF Gated
<1>7. \A i \in 1 .. Len(q.gates) :
        /\ q.gates[i].gate = OrderedGates[q.plan][i]
        /\ Manifest[q.plan].owner[q.gates[i].gate] \in Completed(q)
        /\ q.gates[i].ws = OwnerAttempt(q, q.gates[i].gate).post
        /\ q.gates[i].gate \in Manifest[q.plan].outer => q.gates[i].gate \in R
  <2>1. \A i \in 1 .. Len(p.gates) :
          /\ p.gates[i].gate = OrderedGates[p.plan][i]
          /\ Manifest[p.plan].owner[p.gates[i].gate] \in Completed(p)
          /\ p.gates[i].ws = OwnerAttempt(p, p.gates[i].gate).post
          /\ p.gates[i].gate \in Manifest[p.plan].outer => p.gates[i].gate \in R
    BY <1>4 DEF GatesHold
  <2>2. /\ q.gates[Len(q.gates)].gate = g
        /\ q.gates[Len(q.gates)].ws = OwnerAttempt(p, g).post
        /\ g = OrderedGates[p.plan][Len(p.gates) + 1]
        /\ Manifest[p.plan].owner[g] \in Completed(p)
    BY DEF Gated
  <2>3. q.gates[Len(q.gates)].gate = OrderedGates[q.plan][Len(q.gates)]
    BY <1>2, <1>4, <2>2
  <2>4. \A i \in 1 .. Len(p.gates) :
          /\ q.gates[i].gate = OrderedGates[q.plan][i]
          /\ Manifest[q.plan].owner[q.gates[i].gate] \in Completed(q)
          /\ q.gates[i].ws = OwnerAttempt(q, q.gates[i].gate).post
          /\ q.gates[i].gate \in Manifest[q.plan].outer => q.gates[i].gate \in R
    <3> SUFFICES ASSUME NEW i \in 1 .. Len(p.gates)
                 PROVE  /\ q.gates[i].gate = OrderedGates[q.plan][i]
                        /\ Manifest[q.plan].owner[q.gates[i].gate] \in Completed(q)
                        /\ q.gates[i].ws = OwnerAttempt(q, q.gates[i].gate).post
                        /\ q.gates[i].gate \in Manifest[q.plan].outer => q.gates[i].gate \in R
      OBVIOUS
    <3>1. q.gates[i] = p.gates[i]
      BY <1>4
    <3> QED BY <1>2, <1>3, <2>1, <3>1
  <2>5. /\ Manifest[q.plan].owner[g] \in Completed(q)
        /\ q.gates[Len(q.gates)].ws = OwnerAttempt(q, g).post
        /\ g \in Manifest[q.plan].outer => g \in R
    BY <1>2, <1>3, <2>2
  <2>6. \A i \in 1 .. Len(q.gates) : i \in 1 .. Len(p.gates) \/ i = Len(q.gates)
    BY <1>4
  <2> QED BY <2>2, <2>3, <2>4, <2>5, <2>6
<1>8. GatesHold(q, R)
  <2>1. q.audited = (GatesIn[q.plan][2] \subseteq Checkpointed(q))
    BY <1>2 DEF Gated
  <2>2. p.audited => q.audited
    BY <1>2, <1>4, <2>1 DEF GatesHold
  <2>3. q.audited \/ \A a \in ToSet(q.attempts) : UnitKind[q.plan][a.unit] # "execution"
    BY <1>2, <2>2 DEF GatesHold
  <2> QED BY <1>4, <1>7, <2>1, <2>3 DEF GatesHold
<1>9. Ready(q)
  <2>1. Len(Kind[p.plan]) \in Nat /\ Waves[p.plan] = 1 .. Len(Kind[p.plan])
    BY <1>1, PlanShape DEF WellFormed
  <2>2. ASSUME NEW i \in 1 .. Tries(p), NEW w \in 1 .. WaveAt(p, i) - 1
        PROVE  q.waves[w].status = "completed"
    <3>1. WaveAt(p, i) \in Waves[p.plan] /\ WaveAt(p, i) \in Nat
      BY <1>1, Fields
    <3>2. w \in Waves[p.plan]
      BY <2>1, <3>1
    <3> QED BY <1>1, <1>6, <3>2 DEF Ready
  <2> QED BY <1>1, <1>2, <1>3, <1>5, <2>2 DEF Ready
<1>10. WavesDone(q)
  <2> SUFFICES ASSUME NEW w \in Waves[p.plan], q.waves[w].status = "completed"
               PROVE  /\ UnitsIn[p.plan][w] \subseteq Completed(p)
                      /\ GatesIn[p.plan][w] \subseteq Checkpointed(q)
    BY <1>2, <1>3 DEF WavesDone
  <2>1. CASE p.waves[w].status = "completed"
    BY <1>1, <1>4, <2>1 DEF WavesDone
  <2>2. CASE p.waves[w].status # "completed"
    <3>1. g \in GatesIn[p.plan][w] /\ GatesIn[p.plan][w] \subseteq Checkpointed(q)
      BY <1>6, <2>2
    <3>2. UnitsIn[p.plan][w] = {Manifest[p.plan].owner[x] : x \in GatesIn[p.plan][w]}
      BY <1>1, <3>1, PlanGates DEF WellFormed
    <3>3. \A x \in Checkpointed(q) : Manifest[p.plan].owner[x] \in Completed(p)
      BY <1>2, <1>3, <1>4, <1>7 DEF Checkpointed, ToSet
    <3> QED BY <3>1, <3>2, <3>3
  <2> QED BY <2>1, <2>2
<1>11. GatesFit(q)
  <2>1. Len(p.gates) < Len(OrderedGates[p.plan])
    BY DEF Gated
  <2>2. Len(OrderedGates[p.plan]) \in Nat
    BY <1>1, PlanShape DEF WellFormed
  <2> QED BY <1>2, <1>4, <2>1, <2>2 DEF GatesFit
<1>12. BuiltOnVerified(q)
  BY <1>1, <1>2, <1>3, <1>4, <1>5 DEF BuiltOnVerified
<1>13. CountersHold(q)
  BY <1>1, <1>2, <1>6, SameCounters
<1>14. CompletionHolds(q)
  BY DEF CompletionHolds, Gated
<1> QED BY <1>3, <1>8, <1>9, <1>10, <1>11, <1>12, <1>13, <1>14 DEF Sound

\* Another status only.
LEMMA SoundStatus ==
    ASSUME NEW p, NEW q, NEW R, Sound(p), GatesHold(p, R), WellFormed(q),
           q.plan = p.plan, q.base = p.base, q.attempts = p.attempts, q.waves = p.waves,
           q.gates = p.gates, q.audited = p.audited, CompletionHolds(q)
    PROVE  Sound(q) /\ GatesHold(q, R)
<1>1. /\ WellFormed(p) /\ ChainHolds(p) /\ OnlyLastRuns(p) /\ Ready(p) /\ InWaveOrder(p)
      /\ WavesDone(p) /\ GatesFit(p) /\ VerifiesOnly(p) /\ Stands(p) /\ Owned(p)
      /\ BuiltOnVerified(p) /\ CountersHold(p) /\ Metered(p)
  BY DEF Sound
<1>2. /\ Tries(q) = Tries(p) /\ Completed(q) = Completed(p)
      /\ \A x : OwnerAttempt(q, x) = OwnerAttempt(p, x)
      /\ ChainHolds(q) /\ OnlyLastRuns(q) /\ InWaveOrder(q) /\ VerifiesOnly(q) /\ Stands(q)
      /\ Owned(q) /\ Metered(q)
  BY <1>1, SameAttempts
<1>3. \A i : UnitAt(q, i) = UnitAt(p, i) /\ WaveAt(q, i) = WaveAt(p, i)
             /\ (Succeeded(q, i) <=> Succeeded(p, i))
  BY DEF UnitAt, WaveAt, Succeeded
<1>4. Checkpointed(q) = Checkpointed(p)
  BY DEF Checkpointed
<1>5. Ready(q) /\ WavesDone(q) /\ GatesFit(q)
  BY <1>1, <1>2, <1>3, <1>4 DEF Ready, WavesDone, GatesFit
<1>6. BuiltOnVerified(q)
  BY <1>1, <1>2, <1>3 DEF BuiltOnVerified
<1>7. CountersHold(q)
  BY <1>1, SameCounters
<1>8. GatesHold(q, R)
  BY <1>2, <1>4 DEF GatesHold
<1> QED BY <1>2, <1>5, <1>6, <1>7, <1>8 DEF Sound

---------------------------------------------------------------------------
(* The inductive invariant: the bound program is sound, its last attempt   *)
(* is the one that a coordinator that claimed waits for or cleans up, and  *)
(* a program is given up with its run only.                                *)

ProgramHolds == Bound => Sound(program) /\ GatesHold(program, Resolved)

RunHolds == /\ run \in [status : {"active", "completed", "aborted"}, stop : BOOLEAN,
                        resolved : Seq(ToSet(RunGates))]
            /\ Bound /\ program.status = "aborted" => run.status = "aborted"

WorkspaceHolds == ws \subseteq Areas /\ moved \in BOOLEAN /\ faults \in 0 .. MaxFaults

\* The attempt the coordinator claimed is the last one.
IsClaimed == /\ Tries(program) > 0
             /\ UnitAt(program, Tries(program)) = co.unit
             /\ program.attempts[Tries(program)].pre = co.before

Phases == {"off", "deciding", "claiming", "waiting", "finishing", "asking", "cleaning", "closing"}
Claimed == {"waiting", "finishing", "cleaning", "closing"}

Coordinators ==
    [pc : Phases, contained : BOOLEAN, unit : {None} \cup UNION {UnitsOf[m] : m \in Digests},
     before : SUBSET Areas, after : SUBSET Areas,
     result : {"succeeded", "failed", "stop", "cancelled", None}]

CoordinatorHolds ==
    /\ co \in Coordinators
    /\ Bound \/ At("off")
    /\ At("claiming") => co.unit \in UnitsOf[program.plan]
    /\ co.pc \in Claimed => IsClaimed

IInv == ProgramHolds /\ RunHolds /\ WorkspaceHolds /\ CoordinatorHolds

\* Gates of the run that are resolved stay resolved.
LEMMA GatesStay ==
    ASSUME NEW p, NEW R, NEW S, R \subseteq S, GatesHold(p, R)
    PROVE  GatesHold(p, S)
BY DEF GatesHold

\* A program that was just bound is sound.
LEMMA FreshIsSound ==
    ASSUME NEW m \in ValidPlans, NEW n \in Nat, NEW R, ws \subseteq Areas
    PROVE  /\ Sound(Fresh(m, n)) /\ GatesHold(Fresh(m, n), R)
           /\ Fresh(m, n) # None /\ Fresh(m, n).plan = m /\ Fresh(m, n).status = "active"
<1> DEFINE p == Fresh(m, n)
<1>1. /\ p.plan = m /\ p.base = ws /\ p.status = "active" /\ p.attempts = <<>>
      /\ p.gates = <<>> /\ p.audited = FALSE /\ p.waves \in [Waves[m] ->
                  [status : {"pending", "running", "completed"}, tokens : Nat]]
      /\ \A w \in Waves[m] : p.waves[w].status = "pending" /\ p.waves[w].tokens = 0
  BY DEF Fresh
<1>2. m \in Digests
  BY PlanShape
<1>3. p \in Program(m)
  <2>1. [w \in Waves[m] |-> [status |-> "pending", tokens |-> 0]]
            \in [Waves[m] -> [status : {"pending", "running", "completed"}, tokens : Nat]]
    OBVIOUS
  <2>2. \A S : <<>> \in Seq(S)
    OBVIOUS
  <2> QED BY <2>1, <2>2 DEF Fresh, Program
<1>4. WellFormed(p)
  BY <1>1, <1>3 DEF WellFormed
<1>5. p # None
  BY <1>2, <1>3, AbsentAssumption
<1> HIDE DEF p
<1>6. Tries(p) = 0 /\ DOMAIN p.attempts = {} /\ ToSet(p.attempts) = {}
  BY <1>1 DEF Tries, ToSet
<1>7. ChainHolds(p) /\ OnlyLastRuns(p) /\ Ready(p) /\ InWaveOrder(p)
  BY <1>6 DEF ChainHolds, OnlyLastRuns, Ready, InWaveOrder
<1>8. VerifiesOnly(p) /\ BuiltOnVerified(p) /\ Metered(p) /\ Stands(p)
  BY <1>6 DEF VerifiesOnly, BuiltOnVerified, Metered, Stands
<1>9. WavesDone(p)
  BY <1>1 DEF WavesDone
<1>10. GatesFit(p)
  <2>1. Len(p.gates) = 0
    BY <1>1
  <2>2. Len(OrderedGates[m]) \in Nat
    BY PlanShape
  <2> QED BY <1>1, <2>1, <2>2 DEF GatesFit
<1>11. Owned(p)
  <2>1. Baseline(p, 0) = p.base
    BY DEF Baseline
  <2> QED BY <1>6, <2>1 DEF Owned, Differs
<1>12. CompletionHolds(p)
  BY <1>1 DEF CompletionHolds
<1>13. CountersHold(p)
  <2>1. \A x : OfWave(p, x) = {} /\ OfUnit(p, x) = {}
    BY <1>6 DEF OfWave, OfUnit
  <2>2. Cardinality({}) = 0
    BY FS_EmptySet
  <2>3. Sizes(p, {}) = 0
    BY <2>2 DEF Sizes
  <2>4. 0 <= SpawnCap /\ 0 <= MaxAttempts
    BY BudgetAssumption
  <2>5. \A w \in Waves[m] : p.waves[w].tokens = 0
    BY <1>1
  <2>6. \A w \in Waves[m] : Cardinality(OfWave(p, w)) <= SpawnCap
                            /\ p.waves[w].tokens = Sizes(p, OfWave(p, w))
    BY <2>1, <2>2, <2>3, <2>4, <2>5
  <2>7. \A u \in UnitsOf[m] : Cardinality(OfUnit(p, u)) <= MaxAttempts
    BY <2>1, <2>2, <2>4
  <2> QED BY <1>1, <2>6, <2>7 DEF CountersHold
<1>14. GatesHold(p, R)
  <2>1. GatesIn[m][2] # {}
    BY PlanWaves
  <2>2. Checkpointed(p) = {}
    BY <1>1 DEF Checkpointed, ToSet
  <2>3. p.audited = (GatesIn[m][2] \subseteq Checkpointed(p))
    BY <1>1, <2>1, <2>2
  <2>4. DOMAIN p.gates = {}
    BY <1>1
  <2> QED BY <1>1, <1>6, <2>3, <2>4 DEF GatesHold
<1>15. Sound(p)
  BY <1>4, <1>7, <1>8, <1>9, <1>10, <1>11, <1>12, <1>13 DEF Sound
<1> QED BY <1>1, <1>5, <1>14, <1>15 DEF p

\* The attempt that runs is the last one.
LEMMA CurrentIsLast ==
    ASSUME Sound(program), Running(program)
    PROVE  /\ Current = Tries(program) /\ Tries(program) \in Nat /\ Tries(program) > 0
           /\ program.attempts[Tries(program)].status = "running"
<1>1. WellFormed(program) /\ OnlyLastRuns(program)
  BY DEF Sound
<1>2. DOMAIN program.attempts = 1 .. Tries(program) /\ Tries(program) \in Nat
  BY <1>1, Fields
<1>3. \A k \in 1 .. Tries(program) : program.attempts[k].status = "running" => k = Tries(program)
  BY <1>1, <1>2 DEF OnlyLastRuns
<1>4. \E k \in 1 .. Tries(program) : program.attempts[k].status = "running"
  BY <1>2 DEF Running, ToSet
<1> QED BY <1>2, <1>3, <1>4 DEF Current

---------------------------------------------------------------------------
(* The ledger's calls.                                                     *)

\* A claim adds an attempt that keeps the program sound.
LEMMA ClaimIsSound ==
    ASSUME ProgramHolds, Bound, co.unit \in UnitsOf[program.plan], co.before \subseteq Areas,
           Eligible, BudgetLeft, AtBaseline
    PROVE  /\ Sound(WithAttempt) /\ GatesHold(WithAttempt, Resolved)
           /\ Grown(program, WithAttempt) /\ WithAttempt # None
           /\ WithAttempt.status = program.status /\ WithAttempt.gates = program.gates
           /\ UnitAt(WithAttempt, Tries(WithAttempt)) = co.unit
           /\ WithAttempt.attempts[Tries(WithAttempt)].pre = co.before
<1> DEFINE q == WithAttempt
           e == [unit |-> co.unit, status |-> "running", pre |-> co.before, post |-> {},
                 size |-> 1]
           m == program.plan
           S == [unit : UnitsOf[m], status : {"running", "succeeded", "failed"},
                 pre : SUBSET Areas, post : SUBSET Areas, size : Nat]
<1>1. Sound(program) /\ GatesHold(program, Resolved) /\ WellFormed(program)
  BY DEF ProgramHolds, Sound
<1>2. m \in ValidPlans /\ program \in Program(m) /\ m \in Digests
  BY <1>1, PlanShape DEF WellFormed
<1>3. e \in S
  OBVIOUS
<1>4. program.attempts \in Seq(S)
  BY <1>2 DEF Program
<1>5. /\ Append(program.attempts, e) \in Seq(S)
      /\ Len(Append(program.attempts, e)) = Len(program.attempts) + 1
      /\ Append(program.attempts, e)[Len(program.attempts) + 1] = e
      /\ \A i \in 1 .. Len(program.attempts) :
           Append(program.attempts, e)[i] = program.attempts[i]
  <2> HIDE DEF e, S
  <2> QED BY <1>3, <1>4, AppendProperties
<1>6. Wave \in Waves[m]
  BY <1>2, PlanShape DEF Wave
<1>7. /\ program.waves \in [Waves[m] -> [status : {"pending", "running", "completed"},
                                          tokens : Nat]]
      /\ program.waves[Wave].tokens \in Nat
  <2>1. program.waves \in [Waves[m] -> [status : {"pending", "running", "completed"},
                                         tokens : Nat]]
    BY <1>2 DEF Program
  <2>2. program.waves[Wave] \in [status : {"pending", "running", "completed"}, tokens : Nat]
    BY <2>1, <1>6
  <2> QED BY <2>1, <2>2
<1> DEFINE x == [status |-> "running", tokens |-> program.waves[Wave].tokens + 1]
<1>8. x \in [status : {"pending", "running", "completed"}, tokens : Nat]
  BY <1>7
<1>9. q = [program EXCEPT !.attempts = Append(@, e), !.waves[Wave] = x]
  BY DEF WithAttempt
<1>10. /\ q.plan = program.plan /\ q.revision = program.revision /\ q.base = program.base
       /\ q.status = program.status /\ q.gates = program.gates /\ q.audited = program.audited
       /\ q.final = program.final
       /\ q.attempts = Append(program.attempts, e)
       /\ q.waves = [program.waves EXCEPT ![Wave] = x]
  <2> HIDE DEF e, x, S
  <2> QED BY <1>2, <1>9 DEF Program
<1>11. q \in Program(m)
  <2>1. [program.waves EXCEPT ![Wave] = x] \in
           [Waves[m] -> [status : {"pending", "running", "completed"}, tokens : Nat]]
    <3> HIDE DEF x
    <3> QED BY <1>6, <1>7, <1>8
  <2>2. Append(program.attempts, e) \in
           Seq([unit : UnitsOf[m], status : {"running", "succeeded", "failed"},
                pre : SUBSET Areas, post : SUBSET Areas, size : Nat])
    BY <1>5
  <2> HIDE DEF e, x, S, m
  <2> QED BY <1>2, <1>9, <2>1, <2>2 DEF Program
<1>12. WellFormed(q) /\ q # None
  <2> HIDE DEF q
  <2> QED BY <1>2, <1>10, <1>11, AbsentAssumption DEF WellFormed
<1>13. Tries(program) \in Nat /\ Tries(q) = Tries(program) + 1 /\ q.attempts[Tries(q)] = e
       /\ \A i \in 1 .. Tries(program) : q.attempts[i] = program.attempts[i]
  <2>1. Tries(program) \in Nat
    BY <1>1, Fields
  <2> HIDE DEF e, q
  <2> QED BY <2>1, <1>5, <1>10 DEF Tries
<1>14. UnitAt(q, Tries(q)) = co.unit /\ q.attempts[Tries(q)].pre = co.before
       /\ q.attempts[Tries(q)].status = "running" /\ q.attempts[Tries(q)].size = 1
  <2> HIDE DEF q
  <2> QED BY <1>13 DEF UnitAt
<1>15. Grown(program, q)
  <2> HIDE DEF q, e
  <2> QED BY <1>10, <1>13, <1>14 DEF Grown
<1>16. Claimable(program, co.unit, Wave)
  BY DEF Claimable, Eligible, BudgetLeft, AttemptsLeft, Spawns, Wave, Plan
<1>17. /\ q.waves[Wave].tokens = program.waves[Wave].tokens + 1
       /\ q.waves[Wave].status = "running"
       /\ \A w \in Waves[m] : w # Wave => q.waves[w] = program.waves[w]
  <2>1. q.waves[Wave] = x
    <3> HIDE DEF x, q
    <3> QED BY <1>6, <1>7, <1>10
  <2>2. \A w \in Waves[m] : w # Wave => q.waves[w] = program.waves[w]
    <3> HIDE DEF x, q
    <3> QED BY <1>7, <1>10
  <2> HIDE DEF q
  <2> QED BY <2>1, <2>2
<1>18. Claims(program, q, co.unit, Wave)
  <2>1. co.before = Baseline(program, Tries(program))
    BY DEF AtBaseline, Tries
  <2> HIDE DEF q
  <2> QED BY <1>10, <1>14, <1>17, <2>1 DEF Claims
<1>19. Sound(q) /\ GatesHold(q, Resolved)
  <2> HIDE DEF q
  <2> QED BY <1>1, <1>12, <1>15, <1>16, <1>18, SoundGrown
<1> HIDE DEF q
<1>20. q = WithAttempt
  BY DEF q
<1> QED BY <1>10, <1>12, <1>14, <1>15, <1>19, <1>20

\* Ending the attempt of the coordinator keeps the program sound.
LEMMA ResultIsSound ==
    ASSUME ProgramHolds, Bound, IsClaimed, co.after \subseteq Areas, IsCurrent,
           NEW n \in Nat, NEW proven \in BOOLEAN
    PROVE  /\ Sound(WithResult(n, proven)) /\ GatesHold(WithResult(n, proven), Resolved)
           /\ Ended(program, WithResult(n, proven)) /\ WithResult(n, proven) # None
           /\ WithResult(n, proven).status = program.status
           /\ WithResult(n, proven).gates = program.gates
<1> DEFINE q == WithResult(n, proven)
           t == Tries(program)
           m == program.plan
           S == [unit : UnitsOf[m], status : {"running", "succeeded", "failed"},
                 pre : SUBSET Areas, post : SUBSET Areas, size : Nat]
           good == Enforced(n, proven) = "succeeded"
           e == [program.attempts[t] EXCEPT !.status = IF good THEN "succeeded" ELSE "failed",
                                            !.post = IF good THEN co.after ELSE {},
                                            !.size = @ + n]
           attempts == [program.attempts EXCEPT ![t] = e]
<1>1. Sound(program) /\ GatesHold(program, Resolved) /\ WellFormed(program)
  BY DEF ProgramHolds, Sound
<1>2. m \in ValidPlans /\ program \in Program(m) /\ m \in Digests
  BY <1>1, PlanShape DEF WellFormed
<1>3. Current = t /\ t \in Nat /\ t > 0 /\ program.attempts[t].status = "running"
  BY <1>1, CurrentIsLast DEF IsCurrent
<1>4. program.attempts \in Seq(S) /\ DOMAIN program.attempts = 1 .. t /\ t \in 1 .. t
      /\ t = Len(program.attempts)
  BY <1>2, <1>3 DEF Program, Tries
<1>5. program.attempts[t] \in S
  <2> HIDE DEF S, t
  <2> QED BY <1>4, ElementOfSeq
<1>6. /\ e \in S /\ e.status \in {"succeeded", "failed"} /\ (e.status = "succeeded" <=> good)
      /\ e.post = (IF good THEN co.after ELSE {}) /\ e.pre = program.attempts[t].pre
      /\ e.unit = program.attempts[t].unit /\ e.size = program.attempts[t].size + n
  <2> DEFINE d == program.attempts[t]
             s == IF good THEN "succeeded" ELSE "failed"
             c == IF good THEN co.after ELSE {}
  <2>1. d \in S
    BY <1>5
  <2>2. s \in {"succeeded", "failed"} /\ c \subseteq Areas /\ (s = "succeeded" <=> good)
    OBVIOUS
  <2>3. e = [d EXCEPT !.status = s, !.post = c, !.size = @ + n]
    OBVIOUS
  <2> HIDE DEF d, s, c, e
  <2>4. d.size + n \in Nat
    BY <2>1
  <2>5. e = [d EXCEPT !.status = s, !.post = c, !.size = d.size + n]
    BY <2>3
  <2>6. e = [unit |-> d.unit, status |-> s, pre |-> d.pre, post |-> c, size |-> d.size + n]
    BY <2>1, <2>5
  <2>7. /\ e \in S /\ e.status = s /\ e.post = c /\ e.pre = d.pre /\ e.unit = d.unit
        /\ e.size = d.size + n
    BY <2>1, <2>2, <2>4, <2>6
  <2> QED BY <2>2, <2>7 DEF c, d
<1> HIDE DEF e, S
<1>7. /\ attempts \in Seq(S) /\ Len(attempts) = t /\ attempts[t] = e
      /\ \A i \in 1 .. t - 1 : attempts[i] = program.attempts[i]
      /\ DOMAIN attempts = 1 .. t
  BY <1>3, <1>4, <1>6
<1>8. Wave \in Waves[m] /\ Wave = WaveAt(program, t) /\ co.unit = UnitAt(program, t)
      /\ co.before = program.attempts[t].pre /\ co.unit \in UnitsOf[m]
      /\ WaveAt(program, t) \in Waves[m]
  <2>1. UnitAt(program, t) \in UnitsOf[m] /\ WaveAt(program, t) \in Waves[m]
    BY <1>1, <1>4, Fields
  <2> QED BY <2>1 DEF IsClaimed, Wave, WaveAt
<1>9. /\ program.waves \in [Waves[m] -> [status : {"pending", "running", "completed"},
                                          tokens : Nat]]
      /\ program.waves[Wave].tokens \in Nat
      /\ program.waves[Wave].status \in {"pending", "running", "completed"}
  <2>1. program.waves \in [Waves[m] -> [status : {"pending", "running", "completed"},
                                         tokens : Nat]]
    BY <1>2 DEF Program
  <2>2. program.waves[Wave] \in [status : {"pending", "running", "completed"}, tokens : Nat]
    BY <2>1, <1>8
  <2> QED BY <2>1, <2>2
<1> DEFINE done == {a.unit : a \in {b \in ToSet(attempts) : b.status = "succeeded"}}
           over == UnitsIn[m][Wave] \subseteq done /\ GatesIn[m][Wave] = {}
           x == [status |-> IF over THEN "completed" ELSE program.waves[Wave].status,
                 tokens |-> program.waves[Wave].tokens + n]
<1>10. /\ x \in [status : {"pending", "running", "completed"}, tokens : Nat]
       /\ x.status = (IF over THEN "completed" ELSE program.waves[Wave].status)
       /\ x.tokens = program.waves[Wave].tokens + n
  BY <1>9
<1>11. q = [program EXCEPT !.attempts = attempts, !.waves[Wave] = x]
  <2> DEFINE f(k) == [program.attempts[k] EXCEPT
                        !.status = IF good THEN "succeeded" ELSE "failed",
                        !.post = IF good THEN co.after ELSE {},
                        !.size = @ + n]
             new == [program.attempts EXCEPT ![Current] = f(Current)]
             all == {a.unit : a \in {b \in ToSet(new) : b.status = "succeeded"}}
             y == [status |-> IF UnitsIn[m][Wave] \subseteq all /\ GatesIn[m][Wave] = {}
                              THEN "completed" ELSE program.waves[Wave].status,
                   tokens |-> program.waves[Wave].tokens + n]
  <2>1. q = [program EXCEPT !.attempts = new, !.waves[Wave] = y]
    BY DEF WithResult
  <2>2. f(Current) = e
    BY <1>3 DEF e
  <2>3. new = attempts
    <3> HIDE DEF f
    <3> QED BY <1>3, <2>2
  <2> HIDE DEF new
  <2> QED BY <2>1, <2>3
<1> HIDE DEF x, q
<1>12. /\ q.plan = program.plan /\ q.base = program.base
       /\ q.status = program.status /\ q.gates = program.gates /\ q.audited = program.audited
       /\ q.attempts = attempts /\ q.waves = [program.waves EXCEPT ![Wave] = x]
  <2> HIDE DEF attempts
  <2> QED BY <1>2, <1>11 DEF Program
<1>13. q \in Program(m)
  <2>1. [program.waves EXCEPT ![Wave] = x] \in
           [Waves[m] -> [status : {"pending", "running", "completed"}, tokens : Nat]]
    BY <1>8, <1>9, <1>10
  <2>2. attempts \in
           Seq([unit : UnitsOf[m], status : {"running", "succeeded", "failed"},
                pre : SUBSET Areas, post : SUBSET Areas, size : Nat])
    BY <1>7 DEF S
  <2> HIDE DEF m, attempts
  <2> QED BY <1>2, <1>11, <2>1, <2>2 DEF Program
<1>14. WellFormed(q) /\ q # None
  BY <1>2, <1>12, <1>13, AbsentAssumption DEF WellFormed
<1>15. Tries(q) = t /\ q.attempts[t] = e
       /\ \A i \in 1 .. t - 1 : q.attempts[i] = program.attempts[i]
  <2> HIDE DEF attempts
  <2> QED BY <1>7, <1>12 DEF Tries
<1>16. Ended(program, q)
  <2> HIDE DEF t
  <2> QED BY <1>3, <1>6, <1>12, <1>15 DEF Ended, UnitAt, t
<1>17. Completed(q) = done
  BY <1>12 DEF Completed
<1>18. /\ q.waves[Wave] = x
       /\ \A w \in Waves[m] : w # Wave => q.waves[w] = program.waves[w]
  BY <1>8, <1>9, <1>12
<1>19. good => /\ ~Outside(co.unit, Changed)
               /\ Tokens + n <= Ceiling
  <2>1. program.waves[Wave].tokens + n \in Nat /\ Ceiling \in Nat
    BY <1>9, BudgetAssumption
  <2>2. ~(Tokens + n > Ceiling) => Tokens + n <= Ceiling
    BY <2>1 DEF Tokens
  <2>3. good => ~Outside(co.unit, Changed) /\ ~(Tokens + n > Ceiling)
    BY DEF Enforced
  <2> QED BY <2>2, <2>3
<1>20. ASSUME Succeeded(q, t)
       PROVE  /\ Differs(program.attempts[t].pre, q.attempts[t].post)
                   \subseteq Manifest[m].writes[UnitAt(program, t)]
              /\ UnitKind[m][UnitAt(program, t)] = "verification" =>
                    q.attempts[t].post = q.attempts[t].pre
              /\ q.waves[WaveAt(program, t)].tokens <= Ceiling
  <2>1. good
    BY <1>6, <1>15, <1>20 DEF Succeeded
  <2>2. Changed = Differs(program.attempts[t].pre, q.attempts[t].post)
    BY <1>6, <1>8, <1>15, <2>1 DEF Changed, Differs
  <2>3. Differs(program.attempts[t].pre, q.attempts[t].post)
                   \subseteq Manifest[m].writes[UnitAt(program, t)]
    BY <1>8, <1>19, <2>1, <2>2 DEF Outside, Plan
  <2>4. UnitKind[m][UnitAt(program, t)] = "verification" => Changed = {}
    BY <1>8, <1>19, <2>1 DEF Outside
  <2>5. UnitKind[m][UnitAt(program, t)] = "verification" =>
                    q.attempts[t].post = q.attempts[t].pre
    BY <2>2, <2>4, <1>6, <1>15 DEF Differs
  <2>6. q.waves[WaveAt(program, t)].tokens <= Ceiling
    BY <1>8, <1>10, <1>18, <1>19, <2>1 DEF Tokens
  <2> QED BY <2>3, <2>5, <2>6
<1>21. Ends(program, q, n)
  <2>1. q.attempts[t].size = program.attempts[t].size + n
    BY <1>6, <1>15
  <2>2. q.waves[WaveAt(program, t)].tokens = program.waves[WaveAt(program, t)].tokens + n
    BY <1>8, <1>10, <1>18
  <2>3. \/ q.waves[WaveAt(program, t)].status = program.waves[WaveAt(program, t)].status
        \/ /\ q.waves[WaveAt(program, t)].status = "completed"
           /\ UnitsIn[m][WaveAt(program, t)] \subseteq Completed(q)
           /\ GatesIn[m][WaveAt(program, t)] = {}
    <3> HIDE DEF done
    <3> QED BY <1>8, <1>10, <1>17, <1>18
  <2>4. \A w \in Waves[m] : w # WaveAt(program, t) => q.waves[w] = program.waves[w]
    BY <1>8, <1>18
  <2> QED BY <1>12, <1>20, <2>1, <2>2, <2>3, <2>4 DEF Ends
<1>22. Sound(q) /\ GatesHold(q, Resolved)
  BY <1>1, <1>14, <1>16, <1>21, SoundEnded
<1>23. q = WithResult(n, proven)
  BY DEF q
<1> QED BY <1>12, <1>14, <1>16, <1>22, <1>23

\* Checkpointing a gate keeps the program sound.
LEMMA GateIsSound ==
    ASSUME ProgramHolds, Bound, NEW g \in OwnedGates, ~Awaited(g),
           program.status = "active", ws \subseteq Areas, ws = OwnerAttempt(program, g).post
    PROVE  /\ Sound(WithGate(g)) /\ GatesHold(WithGate(g), Resolved)
           /\ Gated(program, WithGate(g), g) /\ WithGate(g) # None
<1> DEFINE q == WithGate(g)
           m == program.plan
           e == [gate |-> g, ws |-> ws]
           gates == Append(program.gates, e)
           W == [status : {"pending", "running", "completed"}, tokens : Nat]
<1>1. Sound(program) /\ GatesHold(program, Resolved) /\ WellFormed(program)
  BY DEF ProgramHolds, Sound
<1>2. m \in ValidPlans /\ program \in Program(m) /\ m \in Digests
  BY <1>1, PlanShape DEF WellFormed
<1>3. /\ Len(program.gates) < Len(OrderedGates[m])
      /\ g = OrderedGates[m][Len(program.gates) + 1]
      /\ Manifest[m].owner[g] \in Completed(program)
      /\ g \in Manifest[m].outer => g \in Resolved
  BY DEF OwnedGates, NextGates, Awaited, Plan
<1>4. program.gates \in Seq([gate : GatesOf[m], ws : SUBSET Areas])
      /\ Len(program.gates) \in Nat /\ program.waves \in [Waves[m] -> W]
  BY <1>2 DEF Program
<1>5. g \in GatesOf[m]
  <2>1. OrderedGates[m] \in Seq(GatesOf[m])
    BY <1>2, PlanShape
  <2>2. Len(program.gates) + 1 \in 1 .. Len(OrderedGates[m])
    BY <2>1, <1>3, <1>4
  <2> QED BY <2>1, <2>2, <1>3, ElementOfSeq
<1>6. /\ gates \in Seq([gate : GatesOf[m], ws : SUBSET Areas])
      /\ Len(gates) = Len(program.gates) + 1 /\ gates[Len(gates)] = e
      /\ \A i \in 1 .. Len(program.gates) : gates[i] = program.gates[i]
  <2>1. e \in [gate : GatesOf[m], ws : SUBSET Areas]
    BY <1>5
  <2> HIDE DEF e
  <2> QED BY <2>1, <1>4, AppendProperties
<1> DEFINE checkpointed == {c.gate : c \in ToSet(gates)}
           all == GatesIn[m][2] \subseteq checkpointed
           done(w) == g \in GatesIn[m][w] /\ GatesIn[m][w] \subseteq checkpointed
           x == [w \in Waves[m] |-> IF done(w)
                                    THEN [program.waves[w] EXCEPT !.status = "completed"]
                                    ELSE program.waves[w]]
<1>7. q = [program EXCEPT !.gates = gates, !.audited = all, !.waves = x]
  BY DEF WithGate
<1>8. x \in [Waves[m] -> W]
  <2>1. \A w \in Waves[m] : program.waves[w] \in W
    BY <1>4
  <2>2. ASSUME NEW d \in W PROVE [d EXCEPT !.status = "completed"] \in W
    OBVIOUS
  <2> HIDE DEF W, done
  <2> QED BY <2>1, <2>2
<1>9. \A w \in Waves[m] :
        /\ x[w].tokens = program.waves[w].tokens
        /\ x[w].status = IF done(w) THEN "completed" ELSE program.waves[w].status
  <2>1. \A w \in Waves[m] : program.waves[w] \in W
    BY <1>4
  <2>2. ASSUME NEW d \in W
        PROVE  /\ [d EXCEPT !.status = "completed"].tokens = d.tokens
               /\ [d EXCEPT !.status = "completed"].status = "completed"
    OBVIOUS
  <2> HIDE DEF W, done
  <2> QED BY <2>1, <2>2
<1> HIDE DEF x, q, gates, done
<1>10. all \in BOOLEAN
  OBVIOUS
<1> HIDE DEF all
<1>11. /\ q.plan = program.plan /\ q.base = program.base /\ q.attempts = program.attempts
       /\ q.status = program.status
       /\ q.gates = gates /\ q.audited = all /\ q.waves = x
  BY <1>2, <1>7 DEF Program
<1>12. q \in Program(m)
  <2> HIDE DEF m
  <2> QED BY <1>2, <1>6, <1>7, <1>8, <1>10 DEF Program
<1>13. WellFormed(q) /\ q # None
  BY <1>2, <1>11, <1>12, AbsentAssumption DEF WellFormed
<1>14. Checkpointed(q) = checkpointed
  BY <1>11 DEF Checkpointed
<1>15. /\ q.gates[Len(q.gates)].gate = g /\ q.gates[Len(q.gates)].ws = ws
       /\ Len(q.gates) = Len(program.gates) + 1
       /\ \A i \in 1 .. Len(program.gates) : q.gates[i] = program.gates[i]
  BY <1>6, <1>11
<1>16. q.audited = (GatesIn[m][2] \subseteq Checkpointed(q))
  BY <1>11, <1>14 DEF all
<1>17. \A w \in Waves[m] :
         /\ q.waves[w].tokens = program.waves[w].tokens
         /\ \/ q.waves[w].status = program.waves[w].status
            \/ g \in GatesIn[m][w] /\ GatesIn[m][w] \subseteq Checkpointed(q)
         /\ program.waves[w].status = "completed" => q.waves[w].status = "completed"
  BY <1>9, <1>11, <1>14 DEF done
<1>18. Gated(program, q, g)
  BY <1>3, <1>11, <1>15, <1>16, <1>17 DEF Gated
<1>19. Sound(q) /\ GatesHold(q, Resolved)
  BY <1>1, <1>3, <1>13, <1>18, SoundGated
<1> QED BY <1>13, <1>18, <1>19 DEF q

\* Failing the attempt that runs keeps the program sound.
LEMMA FailedIsSound ==
    ASSUME ProgramHolds, Bound, Running(program)
    PROVE  LET q == [program EXCEPT !.attempts[Current] = [@ EXCEPT !.status = "failed"]]
           IN  /\ Sound(q) /\ GatesHold(q, Resolved) /\ Ended(program, q) /\ q # None
               /\ q.status = program.status /\ q.gates = program.gates
               /\ ~Succeeded(q, Tries(program))
<1> DEFINE q == [program EXCEPT !.attempts[Current] = [@ EXCEPT !.status = "failed"]]
           t == Tries(program)
           m == program.plan
           S == [unit : UnitsOf[m], status : {"running", "succeeded", "failed"},
                 pre : SUBSET Areas, post : SUBSET Areas, size : Nat]
           e == [program.attempts[t] EXCEPT !.status = "failed"]
           attempts == [program.attempts EXCEPT ![t] = e]
<1>1. Sound(program) /\ GatesHold(program, Resolved) /\ WellFormed(program)
  BY DEF ProgramHolds, Sound
<1>2. m \in ValidPlans /\ program \in Program(m) /\ m \in Digests
  BY <1>1, PlanShape DEF WellFormed
<1>3. Current = t /\ t \in Nat /\ t > 0 /\ program.attempts[t].status = "running"
  BY <1>1, CurrentIsLast
<1>4. program.attempts \in Seq(S) /\ DOMAIN program.attempts = 1 .. t /\ t \in 1 .. t
      /\ t = Len(program.attempts)
  BY <1>2, <1>3 DEF Program, Tries
<1>5. program.attempts[t] \in S
  <2> HIDE DEF S, t
  <2> QED BY <1>4, ElementOfSeq
<1>6. /\ e \in S /\ e.status = "failed" /\ e.pre = program.attempts[t].pre
      /\ e.unit = program.attempts[t].unit /\ e.size = program.attempts[t].size
      /\ e.size \in Nat
  <2> DEFINE d == program.attempts[t]
  <2>1. d \in S /\ e = [d EXCEPT !.status = "failed"]
    BY <1>5
  <2> HIDE DEF d, e
  <2>2. /\ e \in S /\ e.status = "failed" /\ e.pre = d.pre /\ e.unit = d.unit
        /\ e.size = d.size /\ e.size \in Nat
    BY <2>1
  <2> QED BY <2>2 DEF d
<1> HIDE DEF e, S
<1>7. /\ attempts \in Seq(S) /\ Len(attempts) = t /\ attempts[t] = e
      /\ \A i \in 1 .. t - 1 : attempts[i] = program.attempts[i]
      /\ DOMAIN attempts = 1 .. t
  BY <1>3, <1>4, <1>6
<1>8. q = [program EXCEPT !.attempts = attempts]
  BY <1>3 DEF e
<1> HIDE DEF q
<1>9. /\ q.plan = program.plan /\ q.base = program.base
      /\ q.status = program.status /\ q.gates = program.gates /\ q.audited = program.audited
      /\ q.attempts = attempts /\ q.waves = program.waves
  <2> HIDE DEF attempts
  <2> QED BY <1>2, <1>8 DEF Program
<1>10. q \in Program(m)
  <2>1. attempts \in
           Seq([unit : UnitsOf[m], status : {"running", "succeeded", "failed"},
                pre : SUBSET Areas, post : SUBSET Areas, size : Nat])
    BY <1>7 DEF S
  <2> HIDE DEF m, attempts
  <2> QED BY <1>2, <1>8, <2>1 DEF Program
<1>11. WellFormed(q) /\ q # None
  BY <1>2, <1>9, <1>10, AbsentAssumption DEF WellFormed
<1>12. Tries(q) = t /\ q.attempts[t] = e
       /\ \A i \in 1 .. t - 1 : q.attempts[i] = program.attempts[i]
  <2> HIDE DEF attempts
  <2> QED BY <1>7, <1>9 DEF Tries
<1>13. Ended(program, q)
  <2> HIDE DEF t
  <2> QED BY <1>3, <1>6, <1>9, <1>12 DEF Ended, UnitAt, t
<1>14. ~Succeeded(q, t)
  BY <1>6, <1>12 DEF Succeeded
<1>15. WaveAt(program, t) \in Waves[m]
  BY <1>1, <1>4, Fields
<1>16. /\ q.waves[WaveAt(program, t)].tokens = program.waves[WaveAt(program, t)].tokens + 0
       /\ q.attempts[t].size = program.attempts[t].size + 0
  <2>1. program.waves[WaveAt(program, t)] \in
            [status : {"pending", "running", "completed"}, tokens : Nat]
    BY <1>2, <1>15 DEF Program
  <2>2. program.waves[WaveAt(program, t)].tokens \in Nat
    BY <2>1
  <2> QED BY <2>2, <1>6, <1>9, <1>12
<1>17. Ends(program, q, 0)
  BY <1>9, <1>14, <1>16 DEF Ends
<1>18. Sound(q) /\ GatesHold(q, Resolved)
  BY <1>1, <1>11, <1>13, <1>17, SoundEnded
<1> QED BY <1>9, <1>11, <1>13, <1>14, <1>18 DEF q

\* A call that changes only the status and the final workspace, and says that
\* the program is completed when it is.
LEMMA StatusIsSound ==
    ASSUME ProgramHolds, Bound, NEW s \in {"active", "completed", "aborted"},
           NEW f \in SUBSET Areas, NEW q,
           \/ q = [program EXCEPT !.status = s, !.final = f]
           \/ q = [program EXCEPT !.status = s],
           s = "completed" => /\ Completed(program) = UnitsOf[program.plan]
                              /\ Len(program.gates) = Len(OrderedGates[program.plan])
    PROVE  /\ Sound(q) /\ GatesHold(q, Resolved) /\ q # None
           /\ q.plan = program.plan /\ q.attempts = program.attempts
           /\ q.gates = program.gates /\ q.status = s
<1> DEFINE m == program.plan
<1>1. Sound(program) /\ GatesHold(program, Resolved) /\ WellFormed(program)
  BY DEF ProgramHolds, Sound
<1>2. m \in ValidPlans /\ program \in Program(m) /\ m \in Digests
  BY <1>1, PlanShape DEF WellFormed
<1>3. /\ q \in Program(m) /\ q.plan = m /\ q.base = program.base
      /\ q.attempts = program.attempts /\ q.gates = program.gates
      /\ q.audited = program.audited /\ q.waves = program.waves /\ q.status = s
  <2> HIDE DEF m
  <2> QED BY <1>2 DEF Program, m
<1>4. WellFormed(q) /\ q # None
  BY <1>2, <1>3, AbsentAssumption DEF WellFormed
<1>5. Completed(q) = Completed(program)
  BY <1>3 DEF Completed
<1>6. CompletionHolds(q)
  BY <1>3, <1>5 DEF CompletionHolds
<1>7. Sound(q) /\ GatesHold(q, Resolved)
  BY <1>1, <1>3, <1>4, <1>6, SoundStatus
<1> QED BY <1>3, <1>4, <1>7

---------------------------------------------------------------------------
(* The invariant is inductive.                                             *)

\* A coordinator that is off.
LEMMA OffIs == Off \in Coordinators /\ Off.pc = "off"
<1>1. None \in {None} \cup UNION {UnitsOf[m] : m \in Digests}
  OBVIOUS
<1> DEFINE U == {None} \cup UNION {UnitsOf[m] : m \in Digests}
<1> HIDE DEF U
<1>2. None \in {"succeeded", "failed", "stop", "cancelled", None} /\ {} \in SUBSET Areas
      /\ "off" \in Phases
  BY DEF Phases
<1>3. Off \in [pc : Phases, contained : BOOLEAN, unit : U,
              before : SUBSET Areas, after : SUBSET Areas,
              result : {"succeeded", "failed", "stop", "cancelled", None}]
  BY <1>1, <1>2 DEF Off, U
<1> QED BY <1>3 DEF Coordinators, Off, U

\* The program and the gates of the run around it stay as they are.
LEMMA ProgramStays ==
    ASSUME IInv, program' = program, run'.resolved = run.resolved
    PROVE  ProgramHolds' /\ (Bound' <=> Bound)
<1>1. Resolved' = Resolved
  BY DEF Resolved
<1>2. Bound' <=> Bound
  BY DEF Bound
<1> QED BY <1>1, <1>2 DEF IInv, ProgramHolds

\* A call that stored a sound program; the run around it is as it was.
LEMMA ProgramStored ==
    ASSUME IInv, Bound, NEW q, program' = q, run' = run, q # None,
           Sound(q), GatesHold(q, Resolved),
           q.status = "aborted" => program.status = "aborted"
    PROVE  ProgramHolds' /\ RunHolds' /\ Bound'
<1>1. Resolved' = Resolved
  BY DEF Resolved
<1>2. Bound'
  BY DEF Bound
<1>3. RunHolds'
  BY DEF IInv, RunHolds
<1> QED BY <1>1, <1>2, <1>3 DEF ProgramHolds

\* Nothing happened to the program and the run.
LEMMA BothStay ==
    ASSUME IInv, program' = program, run' = run
    PROVE  ProgramHolds' /\ RunHolds' /\ (Bound' <=> Bound)
<1>1. ProgramHolds' /\ (Bound' <=> Bound)
  BY ProgramStays
<1>2. RunHolds'
  BY <1>1 DEF IInv, RunHolds
<1> QED BY <1>1, <1>2

\* The coordinator is as it was, and so is what it claimed.
LEMMA CoordinatorStays ==
    ASSUME IInv, program' = program, co' = co
    PROVE  CoordinatorHolds'
BY DEF IInv, CoordinatorHolds, Bound, At, IsClaimed, Tries, UnitAt

\* The workspace is as it was.
LEMMA WorkspaceStays ==
    ASSUME IInv, UNCHANGED Environment
    PROVE  WorkspaceHolds'
BY DEF IInv, WorkspaceHolds, Environment

\* A coordinator that returned.
LEMMA ReturnHolds ==
    ASSUME Return
    PROVE  CoordinatorHolds'
<1>1. co' \in Coordinators /\ co'.pc = "off"
  BY OffIs DEF Return
<1> QED BY <1>1 DEF CoordinatorHolds, At, Claimed

\* A coordinator that goes on.
LEMMA GoToHolds ==
    ASSUME CoordinatorHolds, NEW x \in Phases \ {"claiming"}, GoTo(x), Bound',
           x \in Claimed => /\ Tries(program') > 0
                            /\ UnitAt(program', Tries(program')) = co.unit
                            /\ program'.attempts[Tries(program')].pre = co.before
    PROVE  CoordinatorHolds'
<1>1. co \in Coordinators
  BY DEF CoordinatorHolds
<1>2. /\ co' \in Coordinators /\ co'.pc = x /\ co'.unit = co.unit /\ co'.before = co.before
  BY <1>1 DEF Coordinators, GoTo
<1> QED BY <1>2 DEF CoordinatorHolds, At, IsClaimed

\* pause_for_human.
LEMMA AskHumanHolds ==
    ASSUME IInv, AskHuman, UNCHANGED Environment
    PROVE  IInv'
<1>1. Active \in BOOLEAN
  BY DEF Active, Unended
<1>2. run' = [run EXCEPT !.stop = run.stop \/ Active] /\ program' = program /\ Return
  BY DEF AskHuman
<1>3. run \in [status : {"active", "completed", "aborted"}, stop : BOOLEAN,
               resolved : Seq(ToSet(RunGates))]
  BY DEF IInv, RunHolds
<1>4. (run.stop \/ Active) \in BOOLEAN
  OBVIOUS
<1>5. /\ run' \in [status : {"active", "completed", "aborted"}, stop : BOOLEAN,
                   resolved : Seq(ToSet(RunGates))]
      /\ run'.status = run.status /\ run'.resolved = run.resolved
  BY <1>2, <1>3, <1>4
<1>6. ProgramHolds' /\ (Bound' <=> Bound)
  BY <1>2, <1>5, ProgramStays
<1>7. RunHolds'
  BY <1>2, <1>5, <1>6 DEF IInv, RunHolds
<1> QED BY <1>2, <1>6, <1>7, WorkspaceStays, ReturnHolds DEF IInv

\* Initially nothing is bound.
LEMMA InitHolds ==
    ASSUME Init
    PROVE  IInv
<1>1. ~Bound
  BY DEF Init, Bound
<1>2. RunHolds
  <2>1. <<>> \in Seq(ToSet(RunGates))
    OBVIOUS
  <2> QED BY <1>1, <2>1 DEF Init, RunHolds
<1>3. WorkspaceHolds
  <2>1. 0 \in 0 .. MaxFaults
    BY BudgetAssumption
  <2> QED BY <2>1 DEF Init, WorkspaceHolds
<1>4. CoordinatorHolds
  <2> QED BY OffIs DEF Init, CoordinatorHolds, At, Claimed
<1> QED BY <1>1, <1>2, <1>3, <1>4 DEF IInv, ProgramHolds

\* bind_program_execution.
LEMMA InvokeHolds ==
    ASSUME IInv, NEW m \in Digests, NEW contained \in BOOLEAN, Invoke(m, contained)
    PROVE  IInv'
<1>1. m \in ValidPlans /\ ws \subseteq Areas /\ run' = run /\ UNCHANGED Environment
  BY DEF Invoke, IInv, WorkspaceHolds, Environment
<1>2. /\ co' \in Coordinators /\ co'.pc = "deciding"
  <2>1. Off \in Coordinators
    BY OffIs
  <2>2. co' = [Off EXCEPT !.pc = "deciding", !.contained = contained]
    BY DEF Invoke
  <2> QED BY <2>1, <2>2 DEF Coordinators, Phases
<1>3. Bound' => CoordinatorHolds'
  BY <1>2 DEF CoordinatorHolds, At, Claimed
<1>4. ASSUME NEW n \in Nat, program' = Fresh(m, n)
      PROVE  ProgramHolds' /\ RunHolds' /\ Bound'
  <2>1. Sound(program') /\ GatesHold(program', Resolved) /\ program' # None
        /\ program'.status = "active"
    BY <1>1, <1>4, FreshIsSound
  <2>2. Resolved' = Resolved /\ Bound'
    BY <1>1, <2>1 DEF Resolved, Bound
  <2> QED BY <1>1, <2>1, <2>2 DEF ProgramHolds, RunHolds, IInv
<1>5. CASE ~Bound /\ program' = Fresh(m, 1)
  BY <1>1, <1>3, <1>4, <1>5, WorkspaceStays DEF IInv
<1>6. CASE Bound /\ program' = program
  BY <1>1, <1>3, <1>6, BothStay, WorkspaceStays DEF IInv
<1>7. CASE Bound /\ program' = Fresh(m, program.revision + 1)
  <2>1. program.revision \in Nat
    BY <1>7 DEF IInv, ProgramHolds, Sound, WellFormed, Program
  <2>2. program.revision + 1 \in Nat
    BY <2>1
  <2> QED BY <1>1, <1>3, <1>4, <1>7, <2>2, WorkspaceStays DEF IInv
<1> QED BY <1>5, <1>6, <1>7 DEF Invoke

\* Calls that are refused, or that store a sound program and go on.
LEMMA CallHolds ==
    ASSUME IInv, Bound, NEW allowed, NEW q, NEW x \in Phases \ {"claiming"},
           CallOrReturn(allowed, q, x), UNCHANGED Environment,
           allowed => /\ Sound(q) /\ GatesHold(q, Resolved) /\ q # None
                      /\ q.status # "aborted" \/ q.status = program.status
                      /\ x \in Claimed => /\ Tries(q) > 0 /\ UnitAt(q, Tries(q)) = co.unit
                                          /\ q.attempts[Tries(q)].pre = co.before
    PROVE  IInv'
<1>1. run' = run /\ WorkspaceHolds'
  BY WorkspaceStays DEF CallOrReturn
<1>2. CASE Return /\ program' = program
  BY <1>1, <1>2, BothStay, ReturnHolds DEF IInv
<1>3. CASE allowed /\ program' = q /\ GoTo(x)
  <2>1. ProgramHolds' /\ RunHolds' /\ Bound'
    BY <1>1, <1>3, ProgramStored
  <2>2. CoordinatorHolds'
    BY <1>3, <2>1, GoToHolds DEF IInv
  <2> QED BY <1>1, <2>1, <2>2 DEF IInv
<1> QED BY <1>2, <1>3 DEF CallOrReturn

\* checkpoint_program_gate.
LEMMA CheckpointGateHolds ==
    ASSUME IInv, Bound, NEW g \in OwnedGates, CheckpointGate(g)
    PROVE  IInv'
<1>1. "deciding" \in Phases \ {"claiming"} /\ "deciding" \notin Claimed
  BY DEF Phases, Claimed
<1>2. /\ CallOrReturn(ws = OwnerAttempt(program, g).post, WithGate(g), "deciding")
      /\ UNCHANGED Environment /\ ~Awaited(g) /\ program.status = "active"
      /\ ProgramHolds /\ ws \subseteq Areas
  BY DEF CheckpointGate, IInv, WorkspaceHolds
<1>3. ws = OwnerAttempt(program, g).post =>
        /\ Sound(WithGate(g)) /\ GatesHold(WithGate(g), Resolved) /\ WithGate(g) # None
        /\ WithGate(g).status = program.status
  BY <1>2, GateIsSound DEF Gated
<1> QED BY <1>1, <1>2, <1>3, CallHolds

\* complete_program_execution.
LEMMA CompleteProgramIsSound ==
    ASSUME IInv, Bound, Pending(program) = {}, NextGates(program) = {}
    PROVE  LET q == [program EXCEPT !.status = "completed", !.final = ws]
           IN  /\ Sound(q) /\ GatesHold(q, Resolved) /\ q # None
               /\ q.plan = program.plan /\ q.attempts = program.attempts
               /\ q.gates = program.gates /\ q.status = "completed"
               /\ Completed(program) = UnitsOf[program.plan]
               /\ Len(program.gates) = Len(OrderedGates[program.plan])
<1> DEFINE m == program.plan
<1>1. /\ ProgramHolds /\ WellFormed(program) /\ GatesFit(program) /\ m \in ValidPlans
      /\ ws \in SUBSET Areas
  BY DEF IInv, ProgramHolds, Sound, WellFormed, WorkspaceHolds
<1>2. Completed(program) \subseteq UnitsOf[m]
  <2>1. Completed(program) =
          {UnitAt(program, i) : i \in {j \in 1 .. Tries(program) : Succeeded(program, j)}}
    BY <1>1, CompletedUnits
  <2>2. \A i \in 1 .. Tries(program) : UnitAt(program, i) \in UnitsOf[m]
    BY <1>1, Fields
  <2> QED BY <2>1, <2>2
<1>3. UnitsOf[m] \subseteq Completed(program)
  <2>1. UnitsOf[m] = ToSet(OrderedUnits[m])
    BY <1>1, PlanShape DEF UnitsOf
  <2> QED BY <2>1 DEF Pending, ToSet
<1>4. Len(program.gates) = Len(OrderedGates[m])
  <2>1. Len(program.gates) \in Nat /\ Len(OrderedGates[m]) \in Nat
    BY <1>1, Fields, PlanShape
  <2>2. ~(Len(program.gates) < Len(OrderedGates[m]))
    BY DEF NextGates
  <2> QED BY <1>1, <2>1, <2>2 DEF GatesFit
<1> QED BY <1>1, <1>2, <1>3, <1>4, StatusIsSound

\* complete_program_execution keeps the invariant.
LEMMA CompleteProgramHolds ==
    ASSUME IInv, Bound, CompleteProgram
    PROVE  IInv'
<1> DEFINE q == [program EXCEPT !.status = "completed", !.final = ws]
           allowed == /\ NextGates(program) = {}
                      /\ ToSet(RunGates) \subseteq Resolved
                      /\ \E i \in DOMAIN program.attempts :
                           IsLastSuccess(program, i) /\ ws = program.attempts[i].post
<1>1. "deciding" \in Phases \ {"claiming"} /\ "deciding" \notin Claimed
  BY DEF Phases, Claimed
<1>2. CallOrReturn(allowed, q, "deciding") /\ UNCHANGED Environment /\ Pending(program) = {}
  BY DEF CompleteProgram
<1>3. allowed => Sound(q) /\ GatesHold(q, Resolved) /\ q # None /\ q.status = "completed"
  BY <1>2, CompleteProgramIsSound
<1> HIDE DEF q, allowed
<1> QED BY <1>1, <1>2, <1>3, CallHolds

\* The coordinator prepares a claim.
LEMMA PrepareHolds ==
    ASSUME IInv, Bound, Prepare
    PROVE  IInv'
<1> DEFINE m == program.plan
<1>1. PICK i \in Pending(program) :
        IF NeedsHuman(OrderedUnits[m][i]) THEN AskHuman
        ELSE /\ co' = [co EXCEPT !.pc = "claiming", !.unit = OrderedUnits[m][i], !.before = ws]
             /\ UNCHANGED <<program, run>>
  BY DEF Prepare
<1>2. UNCHANGED Environment
  BY DEF Prepare
<1>3. CASE AskHuman
  BY <1>2, <1>3, AskHumanHolds
<1>4. CASE /\ co' = [co EXCEPT !.pc = "claiming", !.unit = OrderedUnits[m][i], !.before = ws]
           /\ program' = program /\ run' = run
  <2>1. ProgramHolds' /\ RunHolds' /\ Bound'
    BY <1>4, BothStay
  <2>2. m \in ValidPlans /\ OrderedUnits[m][i] \in UnitsOf[m] /\ m \in Digests
    <3>1. m \in ValidPlans
      BY DEF IInv, ProgramHolds, Sound, WellFormed
    <3>2. OrderedUnits[m] \in Seq(UnitsOf[m]) /\ m \in Digests
      BY <3>1, PlanShape
    <3> QED BY <3>1, <3>2, ElementOfSeq DEF Pending
  <2>3. co \in Coordinators /\ ws \subseteq Areas
    BY DEF IInv, CoordinatorHolds, WorkspaceHolds
  <2> DEFINE u == OrderedUnits[m][i]
             U == {None} \cup UNION {UnitsOf[x] : x \in Digests}
  <2>4. u \in U /\ "claiming" \in Phases
    BY <2>2 DEF Phases
  <2> HIDE DEF u, U
  <2>5. co \in [pc : Phases, contained : BOOLEAN, unit : U, before : SUBSET Areas,
                after : SUBSET Areas,
                result : {"succeeded", "failed", "stop", "cancelled", None}]
    BY <2>3 DEF Coordinators, U
  <2>6. co' = [co EXCEPT !.pc = "claiming", !.unit = u, !.before = ws]
    BY <1>4 DEF u
  <2>7. /\ co' \in [pc : Phases, contained : BOOLEAN, unit : U, before : SUBSET Areas,
                    after : SUBSET Areas,
                    result : {"succeeded", "failed", "stop", "cancelled", None}]
        /\ co'.pc = "claiming" /\ co'.unit = u
    BY <2>3, <2>4, <2>5, <2>6
  <2>8. co' \in Coordinators
    BY <2>7 DEF Coordinators, U
  <2>9. CoordinatorHolds'
    BY <1>4, <2>1, <2>2, <2>7, <2>8 DEF CoordinatorHolds, At, Claimed, u
  <2> QED BY <1>2, <2>1, <2>9, WorkspaceStays DEF IInv
<1> QED BY <1>1, <1>3, <1>4

\* claim_program_unit.
LEMMA ClaimHolds ==
    ASSUME IInv, Bound, Claim
    PROVE  IInv'
<1>1. UNCHANGED Environment /\ At("claiming")
  BY DEF Claim
<1>2. CASE AskHuman
  BY <1>1, <1>2, AskHumanHolds
<1>3. CASE CallOrReturn(Eligible /\ BudgetLeft /\ AtBaseline, WithAttempt, "waiting")
  <2>1. /\ ProgramHolds /\ co.unit \in UnitsOf[program.plan] /\ co.before \subseteq Areas
    BY <1>1 DEF IInv, CoordinatorHolds, Coordinators
  <2>2. "waiting" \in Phases \ {"claiming"}
    BY DEF Phases
  <2>3. Eligible /\ BudgetLeft /\ AtBaseline =>
          /\ Sound(WithAttempt) /\ GatesHold(WithAttempt, Resolved) /\ WithAttempt # None
          /\ WithAttempt.status = program.status
          /\ Tries(WithAttempt) > 0
          /\ UnitAt(WithAttempt, Tries(WithAttempt)) = co.unit
          /\ WithAttempt.attempts[Tries(WithAttempt)].pre = co.before
    <3>1. Tries(program) \in Nat
      BY <2>1, Fields DEF ProgramHolds, Sound
    <3>2. Grown(program, WithAttempt) => Tries(WithAttempt) > 0
      BY <3>1 DEF Grown
    <3> QED BY <2>1, <3>2, ClaimIsSound
  <2> QED BY <1>1, <1>3, <2>2, <2>3, CallHolds
<1> QED BY <1>2, <1>3 DEF Claim

\* The coordinator asks for a person and returns.
LEMMA AskHolds ==
    ASSUME IInv, Bound, Ask
    PROVE  IInv'
BY AskHumanHolds DEF Ask

\* The coordinator only returns.
LEMMA StopHolds ==
    ASSUME IInv, Bound, Stop
    PROVE  IInv'
<1>1. program' = program /\ run' = run /\ UNCHANGED Environment /\ Return
  BY DEF Stop, Environment
<1> QED BY <1>1, BothStay, ReturnHolds, WorkspaceStays DEF IInv

\* The coordinator keeps the attempt it claimed, and goes on.
LEMMA WaitingHolds ==
    ASSUME IInv, Bound, co.pc \in Claimed, program' = program, run' = run,
           co' \in Coordinators, co'.pc \in Phases \ {"claiming"},
           co'.unit = co.unit, co'.before = co.before
    PROVE  ProgramHolds' /\ RunHolds' /\ CoordinatorHolds'
<1>1. ProgramHolds' /\ RunHolds' /\ Bound'
  BY BothStay
<1>2. IsClaimed
  BY DEF IInv, CoordinatorHolds
<1>3. IsClaimed'
  BY <1>2 DEF IsClaimed, Tries, UnitAt
<1> QED BY <1>1, <1>3 DEF CoordinatorHolds, At

\* Collecting a result, of a worker or of its cancellation.
LEMMA CollectHolds ==
    ASSUME IInv, Bound,
           \/ \E result \in {"succeeded", "failed", "stop", "cancelled"} : Collect(result)
           \/ \E result \in {"failed", "cancelled"} : Clean(result)
    PROVE  IInv'
<1>1. PICK x \in {"finishing", "closing"}, r \in {"succeeded", "failed", "stop", "cancelled"} :
        co' = [co EXCEPT !.pc = x, !.after = ws, !.result = r]
  BY DEF Collect, Clean
<1>2. /\ co.pc \in Claimed /\ program' = program /\ run' = run /\ UNCHANGED Environment
  BY DEF Collect, Clean, At, Claimed, Environment
<1>3. /\ co' \in Coordinators /\ co'.pc = x /\ co'.unit = co.unit /\ co'.before = co.before
  <2>1. co \in Coordinators /\ ws \subseteq Areas
    BY DEF IInv, CoordinatorHolds, WorkspaceHolds
  <2>2. x \in Phases
    BY DEF Phases
  <2> QED BY <1>1, <2>1, <2>2 DEF Coordinators
<1>4. x \in Phases \ {"claiming"}
  BY DEF Phases
<1> QED BY <1>2, <1>3, <1>4, WaitingHolds, WorkspaceStays DEF IInv

\* An end of the attempt is recorded, or refused.
LEMMA RecordHolds ==
    ASSUME IInv, Bound, co.pc \in Claimed, run' = run, NEW n \in 0 .. MaxOutput,
           NEW proven \in BOOLEAN,
           program' = IF Recordable(n, proven) THEN WithResult(n, proven) ELSE program
    PROVE  /\ ProgramHolds' /\ RunHolds' /\ Bound'
           /\ Tries(program') > 0
           /\ UnitAt(program', Tries(program')) = co.unit
           /\ program'.attempts[Tries(program')].pre = co.before
<1>1. IsClaimed /\ co.after \subseteq Areas /\ ProgramHolds
  BY DEF IInv, CoordinatorHolds, Coordinators
<1>2. CASE ~Recordable(n, proven)
  BY <1>1, <1>2, BothStay DEF IsClaimed
<1>3. CASE Recordable(n, proven)
  <2>1. n \in Nat
    BY BudgetAssumption
  <2> DEFINE q == WithResult(n, proven)
  <2>2. /\ Sound(q) /\ GatesHold(q, Resolved) /\ Ended(program, q) /\ q # None
        /\ q.status = program.status
    BY <1>1, <1>3, <2>1, ResultIsSound DEF Recordable
  <2> HIDE DEF q
  <2>3. program' = q
    BY <1>3 DEF q
  <2>4. Tries(q) > 0 /\ UnitAt(q, Tries(q)) = co.unit /\ q.attempts[Tries(q)].pre = co.before
    BY <1>1, <2>2 DEF Ended, IsClaimed
  <2> QED BY <2>2, <2>3, <2>4, ProgramStored
<1> QED BY <1>2, <1>3

\* finish_program_unit, and the call that ends an interrupted attempt.
LEMMA FinishHolds ==
    ASSUME IInv, Bound, NEW n \in 0 .. MaxOutput, NEW proven \in BOOLEAN, Finish(n, proven)
    PROVE  IInv'
<1>1. /\ co.pc \in Claimed /\ run' = run /\ UNCHANGED Environment
      /\ program' = IF Recordable(n, proven) THEN WithResult(n, proven) ELSE program
  BY DEF Finish, At, Claimed, Environment
<1>2. /\ ProgramHolds' /\ RunHolds' /\ Bound'
      /\ Tries(program') > 0
      /\ UnitAt(program', Tries(program')) = co.unit
      /\ program'.attempts[Tries(program')].pre = co.before
  BY <1>1, RecordHolds
<1>3. CASE Return
  BY <1>1, <1>2, <1>3, ReturnHolds, WorkspaceStays DEF IInv
<1>4. ASSUME NEW x \in {"cleaning", "deciding", "asking"}, GoTo(x)
      PROVE  CoordinatorHolds'
  <2>1. x \in Phases \ {"claiming"} /\ CoordinatorHolds
    BY DEF Phases, IInv
  <2> QED BY <1>2, <1>4, <2>1, GoToHolds
<1>5. AfterFinish(n, proven) \in {"cleaning", "deciding", "asking", "off"}
  BY DEF AfterFinish
<1>6. IF AfterFinish(n, proven) = "off" THEN Return ELSE GoTo(AfterFinish(n, proven))
  BY DEF Finish
<1> QED BY <1>1, <1>2, <1>3, <1>4, <1>5, <1>6, WorkspaceStays DEF IInv

\* _terminalize_interrupted_attempt keeps the invariant.
LEMMA CloseHolds ==
    ASSUME IInv, Bound, NEW n \in 0 .. MaxOutput, Close(n)
    PROVE  IInv'
<1>1. /\ co.pc \in Claimed /\ run' = run /\ UNCHANGED Environment /\ Return
      /\ program' = IF Recordable(n, FALSE) THEN WithResult(n, FALSE) ELSE program
  BY DEF Close, At, Claimed, Environment
<1>2. ProgramHolds' /\ RunHolds'
  <2>1. FALSE \in BOOLEAN
    OBVIOUS
  <2> QED BY <1>1, <2>1, RecordHolds
<1> QED BY <1>1, <1>2, ReturnHolds, WorkspaceStays DEF IInv

\* Interruptions and kills.
LEMMA FaultCounted ==
    ASSUME WorkspaceHolds, Fault
    PROVE  faults' \in 0 .. MaxFaults
BY BudgetAssumption DEF WorkspaceHolds, Fault

\* An interruption or a kill keeps the invariant.
LEMMA InterruptHolds ==
    ASSUME IInv, Bound, Interrupt \/ Kill
    PROVE  IInv'
<1>1. /\ program' = program /\ run' = run /\ ws' = ws /\ moved' = moved
      /\ faults' \in 0 .. MaxFaults
  BY FaultCounted DEF Interrupt, Kill, IInv
<1>2. WorkspaceHolds'
  BY <1>1 DEF IInv, WorkspaceHolds
<1>3. CASE Interrupt
  <2>1. co.pc \in Claimed /\ "cleaning" \in Phases \ {"claiming"}
    BY <1>3 DEF Interrupt, Claimed, Phases
  <2>2. /\ co' \in Coordinators /\ co'.pc = "cleaning" /\ co'.unit = co.unit
        /\ co'.before = co.before
    <3>1. co \in Coordinators /\ co' = [co EXCEPT !.pc = "cleaning"]
      BY <1>3 DEF Interrupt, GoTo, IInv, CoordinatorHolds
    <3> QED BY <2>1, <3>1 DEF Coordinators
  <2> QED BY <1>1, <1>2, <2>1, <2>2, WaitingHolds DEF IInv
<1>4. CASE Kill
  BY <1>1, <1>2, <1>4, BothStay, ReturnHolds DEF IInv, Kill
<1> QED BY <1>3, <1>4

\* A checkpoint is of the workspace.
LEMMA BaselineIn ==
    ASSUME NEW p, WellFormed(p), NEW n \in 0 .. Tries(p)
    PROVE  Baseline(p, n) \subseteq Areas
<1>1. p.base \subseteq Areas
  BY Fields
<1>2. CASE n = 0
  BY <1>1, <1>2 DEF Baseline
<1>3. CASE n # 0
  <2>1. n \in 1 .. Tries(p)
    BY <1>3
  <2>2. p.attempts[n].pre \subseteq Areas /\ p.attempts[n].post \subseteq Areas
    BY <2>1, Fields
  <2> QED BY <1>3, <2>2 DEF Baseline, Leaves
<1> QED BY <1>2, <1>3

\* What others do to the workspace, the checkout and the clocks.
LEMMA EnvironmentHolds ==
    ASSUME IInv, Bound,
           \/ \E area \in Areas : Edit(area) \/ HostWrites(area)
           \/ MoveHead \/ Restore
           \/ \E w \in Waves[program.plan] : Expire(w)
    PROVE  IInv'
<1>1. /\ program' = program /\ run' = run /\ co' = co
  BY DEF Edit, HostWrites, MoveHead, Restore, Expire
<1>2. ws' \subseteq Areas
  <2>1. ws \subseteq Areas /\ WellFormed(program)
    BY DEF IInv, WorkspaceHolds, ProgramHolds, Sound
  <2>2. CASE \E area \in Areas : Edit(area) \/ HostWrites(area)
    BY <2>1, <2>2 DEF Edit, HostWrites, Toggled
  <2>3. CASE Restore
    <3>1. Tries(program) \in 0 .. Tries(program)
      <4>1. Tries(program) \in Nat
        BY <2>1, Fields
      <4> QED BY <4>1
    <3> QED BY <2>1, <2>3, <3>1, BaselineIn DEF Restore, Tries
  <2>4. CASE ws' = ws
    BY <2>1, <2>4
  <2> QED BY <2>2, <2>3, <2>4 DEF MoveHead, Expire
<1>3. moved' \in BOOLEAN
  BY DEF IInv, WorkspaceHolds, Edit, HostWrites, MoveHead, Restore, Expire
<1>4. faults' \in 0 .. MaxFaults
  BY FaultCounted DEF IInv, WorkspaceHolds, Edit, HostWrites, MoveHead, Restore, Expire
<1> QED BY <1>1, <1>2, <1>3, <1>4, BothStay, CoordinatorStays DEF IInv, WorkspaceHolds

\* What people and the run's own ledger do to the run.
LEMMA RunStepHolds ==
    ASSUME IInv, Bound, ResolveGate \/ RejectStop \/ CompleteRun
    PROVE  IInv'
<1> DEFINE R == [status : {"active", "completed", "aborted"}, stop : BOOLEAN,
                 resolved : Seq(ToSet(RunGates))]
<1>1. program' = program /\ co' = co /\ UNCHANGED Environment /\ run \in R
      /\ (program.status = "aborted" => run.status = "aborted")
  BY DEF ResolveGate, RejectStop, CompleteRun, Environment, IInv, RunHolds
<1>2. /\ run' \in R /\ \A g \in Resolved : g \in ToSet(run'.resolved)
      /\ run'.status = run.status \/ run.status # "aborted"
  <2>1. CASE ResolveGate
    <3> DEFINE g == RunGates[Len(run.resolved) + 1]
    <3>1. run' = [run EXCEPT !.resolved = Append(@, g)] /\ Len(run.resolved) < Len(RunGates)
      BY <2>1 DEF ResolveGate
    <3>2. run.resolved \in Seq(ToSet(RunGates)) /\ Len(run.resolved) \in Nat
      BY <1>1
    <3>3. g \in ToSet(RunGates)
      <4>1. Len(run.resolved) + 1 \in 1 .. Len(RunGates) /\ RunGates \in Seq(ToSet(RunGates))
        BY <3>1, <3>2, GatesAssumption
      <4> QED BY <4>1, ElementOfSeq
    <3> HIDE DEF g
    <3>4. /\ Append(run.resolved, g) \in Seq(ToSet(RunGates))
          /\ Len(Append(run.resolved, g)) = Len(run.resolved) + 1
          /\ \A i \in 1 .. Len(run.resolved) : Append(run.resolved, g)[i] = run.resolved[i]
      BY <3>2, <3>3, AppendProperties
    <3>5. run' \in R /\ run'.status = run.status /\ run'.resolved = Append(run.resolved, g)
      BY <1>1, <3>1, <3>4
    <3>6. \A x \in Resolved : x \in ToSet(run'.resolved)
      <4> DEFINE old == run.resolved
                 new == Append(run.resolved, g)
      <4> HIDE DEF old, new
      <4>1. DOMAIN old = 1 .. Len(old) /\ DOMAIN new = 1 .. Len(new)
        BY <3>2, <3>4 DEF old, new
      <4>2. /\ Len(new) = Len(old) + 1 /\ Len(old) \in Nat
            /\ \A i \in 1 .. Len(old) : new[i] = old[i]
        BY <3>2, <3>4 DEF old, new
      <4>3. \A i \in DOMAIN old : i \in DOMAIN new /\ new[i] = old[i]
        BY <4>1, <4>2
      <4>4. ToSet(old) \subseteq ToSet(new)
        BY <4>3 DEF ToSet
      <4> QED BY <3>5, <4>4 DEF Resolved, old, new
    <3> QED BY <3>5, <3>6
  <2>2. CASE RejectStop
    <3>1. run' \in R /\ run'.status = run.status /\ run'.resolved = run.resolved
      BY <1>1, <2>2 DEF RejectStop
    <3> QED BY <3>1 DEF Resolved
  <2>3. CASE CompleteRun
    <3>1. run' \in R /\ run'.resolved = run.resolved /\ run.status = "active"
      BY <1>1, <2>3 DEF CompleteRun, Active, Unended
    <3> QED BY <3>1 DEF Resolved
  <2> QED BY <2>1, <2>2, <2>3
<1>3. Bound' <=> Bound
  BY <1>1 DEF Bound
<1>4. ProgramHolds'
  <2>1. Resolved \subseteq Resolved' /\ Sound(program) /\ GatesHold(program, Resolved)
    BY <1>2 DEF Resolved, IInv, ProgramHolds
  <2>2. GatesHold(program, Resolved')
    BY <2>1, GatesStay
  <2> QED BY <1>1, <2>1, <2>2 DEF ProgramHolds
<1>5. RunHolds'
  <2>1. program.status = "aborted" => run'.status = "aborted"
    BY <1>1, <1>2
  <2> QED BY <1>1, <1>2, <2>1 DEF RunHolds
<1> QED BY <1>1, <1>4, <1>5, CoordinatorStays, WorkspaceStays DEF IInv

\* _reconcile_stale_program_attempt_under_lease.
LEMMA ReconcileHolds ==
    ASSUME IInv, Bound, Reconcile
    PROVE  IInv'
<1> DEFINE q == [program EXCEPT !.attempts[Current] = [@ EXCEPT !.status = "failed"]]
<1>1. /\ Sound(q) /\ GatesHold(q, Resolved) /\ q # None /\ q.status = program.status
  BY FailedIsSound DEF IInv, Reconcile
<1>2. /\ program' = q /\ run' = run /\ co' = co /\ UNCHANGED Environment /\ At("off")
  BY DEF Reconcile, Environment
<1> HIDE DEF q
<1>3. ProgramHolds' /\ RunHolds' /\ Bound'
  BY <1>1, <1>2, ProgramStored
<1>4. CoordinatorHolds'
  BY <1>2 DEF IInv, CoordinatorHolds, At, Claimed
<1> QED BY <1>2, <1>3, <1>4, WorkspaceStays DEF IInv

\* abort, which gives the program up with its run.
LEMMA AbortHolds ==
    ASSUME IInv, Bound, Abort
    PROVE  IInv'
<1> DEFINE q == [program EXCEPT !.status = "aborted"]
<1>1. /\ program' = q /\ co' = co /\ UNCHANGED Environment /\ At("off")
      /\ run' = [run EXCEPT !.status = "aborted"]
  BY DEF Abort, Environment
<1>2. Sound(q) /\ GatesHold(q, Resolved) /\ q # None
  <2>1. {} \in SUBSET Areas /\ "aborted" \in {"active", "completed", "aborted"} /\ ProgramHolds
    BY DEF IInv
  <2> QED BY <2>1, StatusIsSound
<1> HIDE DEF q
<1>3. /\ run' \in [status : {"active", "completed", "aborted"}, stop : BOOLEAN,
                   resolved : Seq(ToSet(RunGates))]
      /\ run'.status = "aborted" /\ run'.resolved = run.resolved
  BY <1>1 DEF IInv, RunHolds
<1>4. ProgramHolds'
  BY <1>1, <1>2, <1>3 DEF ProgramHolds, Resolved
<1>5. RunHolds'
  BY <1>3 DEF RunHolds
<1>6. CoordinatorHolds'
  BY <1>1, <1>2 DEF IInv, CoordinatorHolds, At, Claimed, Bound
<1> QED BY <1>1, <1>4, <1>5, <1>6, WorkspaceStays DEF IInv

\* Every step keeps the invariant.
LEMMA NextHolds ==
    ASSUME IInv, [Next]_vars
    PROVE  IInv'
<1>1. CASE \E m \in Digests, contained \in BOOLEAN : Invoke(m, contained)
  BY <1>1, InvokeHolds
<1>2. CASE Bound /\ Coordinate
  <2>1. CASE Stop \/ CompleteProgram \/ Prepare \/ Claim \/ Ask
    BY <1>2, <2>1, StopHolds, CompleteProgramHolds, PrepareHolds, ClaimHolds, AskHolds
  <2>2. CASE \E g \in OwnedGates : CheckpointGate(g)
    BY <1>2, <2>2, CheckpointGateHolds
  <2>3. CASE \/ \E result \in {"succeeded", "failed", "stop", "cancelled"} : Collect(result)
             \/ \E result \in {"failed", "cancelled"} : Clean(result)
    BY <1>2, <2>3, CollectHolds
  <2>4. CASE \E n \in 0 .. MaxOutput : Close(n) \/ \E proven \in BOOLEAN : Finish(n, proven)
    BY <1>2, <2>4, CloseHolds, FinishHolds
  <2> QED BY <1>2, <2>1, <2>2, <2>3, <2>4 DEF Coordinate
<1>3. CASE Bound /\ Others
  <2>1. CASE Interrupt \/ Kill
    BY <1>3, <2>1, InterruptHolds
  <2>2. CASE \/ MoveHead \/ Restore
             \/ \E area \in Areas : Edit(area)
             \/ \E w \in Waves[program.plan] : Expire(w)
    BY <1>3, <2>2, EnvironmentHolds
  <2>3. CASE ResolveGate \/ RejectStop \/ CompleteRun
    BY <1>3, <2>3, RunStepHolds
  <2>4. CASE Reconcile \/ Abort
    BY <1>3, <2>4, ReconcileHolds, AbortHolds
  <2> QED BY <1>3, <2>1, <2>2, <2>3, <2>4 DEF Others
<1>4. CASE Bound /\ \E area \in Areas : HostWrites(area)
  BY <1>4, EnvironmentHolds
<1>5. CASE UNCHANGED vars
  <2>1. /\ program' = program /\ run' = run /\ co' = co /\ UNCHANGED Environment
    BY <1>5 DEF vars, Environment
  <2> QED BY <2>1, BothStay, CoordinatorStays, WorkspaceStays DEF IInv
<1> QED BY <1>1, <1>2, <1>3, <1>4, <1>5 DEF Next

\* The invariant holds in every behaviour.
THEOREM Inductive == Spec => []IInv
<1>1. Init => IInv
  BY InitHolds
<1>2. IInv /\ [Next]_vars => IInv'
  BY NextHolds
<1> QED BY <1>1, <1>2, PTL DEF Spec

---------------------------------------------------------------------------
(* What the invariant says.                                                *)

\* A program is always one of its plan, and the workspace of its areas.
THEOREM TypeCorrect == Spec => []TypeOK
<1>1. IInv => TypeOK
  BY DEF IInv, ProgramHolds, RunHolds, WorkspaceHolds, CoordinatorHolds, Coordinators, TypeOK,
         Sound, WellFormed
<1> QED BY <1>1, Inductive, PTL

\* The stored document is valid after every call and fault, so that the run
\* can always be loaded, continued or aborted (_program_execution_problem).
THEOREM DocumentAlwaysHolds == Spec => []DocumentHolds
<1>1. IInv => DocumentHolds
  BY DEF IInv, ProgramHolds, Sound, DocumentHolds
<1> QED BY <1>1, Inductive, PTL

\* Successes differ from the base only within the boundaries of the units
\* that succeeded (claim_program_unit's baseline, finish_program_unit's
\* boundary check).
THEOREM OnlyOwnersChangeAlways == Spec => []OnlyOwnersChange
<1>1. IInv => OnlyOwnersChange
  <2> SUFFICES ASSUME IInv, Bound, NEW i \in DOMAIN program.attempts,
                      program.attempts[i].status = "succeeded"
               PROVE  Differs(program.attempts[i].post, program.base) \subseteq
                        UNION {Plan.writes[program.attempts[j].unit] :
                                 j \in {k \in 1 .. i : program.attempts[k].status = "succeeded"}}
    BY DEF OnlyOwnersChange, Differs
  <2>1. WellFormed(program) /\ Owned(program)
    BY DEF IInv, ProgramHolds, Sound
  <2>2. i \in 1 .. Tries(program) /\ Tries(program) \in Nat
    BY <2>1, Fields
  <2>3. i \in 0 .. Tries(program) /\ i # 0
    BY <2>2
  <2>4. Baseline(program, i) = program.attempts[i].post
    BY <2>3 DEF Baseline, Leaves
  <2> QED BY <2>1, <2>3, <2>4 DEF Owned, Succeeded, UnitAt, Plan
<1> QED BY <1>1, Inductive, PTL

\* Work after a verification wave starts from exactly the workspace that the
\* wave's gates were checkpointed on (claim_program_unit,
\* checkpoint_program_gate).
THEOREM VerifiedIsAlwaysBuiltOn == Spec => []VerifiedIsBuiltOn
<1>1. IInv => VerifiedIsBuiltOn
  <2> SUFFICES ASSUME IInv, Bound, NEW i \in DOMAIN program.attempts,
                      WaveAt(program, i) > 1,
                      {j \in 1 .. i - 1 : /\ Succeeded(program, j)
                                          /\ WaveAt(program, j) = WaveAt(program, i)} = {},
                      NEW g \in GatesIn[program.plan][WaveAt(program, i) - 1]
               PROVE  \E c \in ToSet(program.gates) :
                        c.gate = g /\ c.ws = program.attempts[i].pre
    BY DEF VerifiedIsBuiltOn, WaveAt, UnitAt, Succeeded
  <2>1. WellFormed(program) /\ BuiltOnVerified(program)
    BY DEF IInv, ProgramHolds, Sound
  <2>2. i \in 1 .. Tries(program)
    <3>1. DOMAIN program.attempts = 1 .. Tries(program)
      BY <2>1, Fields
    <3> QED BY <3>1
  <2>3. \A j \in 1 .. i - 1 : Succeeded(program, j) => WaveAt(program, j) # WaveAt(program, i)
    OBVIOUS
  <2> QED BY <2>1, <2>2, <2>3 DEF BuiltOnVerified
<1> QED BY <1>1, Inductive, PTL

\* No success was bought over its wave's spawn cap or token ceiling.
THEOREM BudgetsAlwaysHold == Spec => []BudgetsHold
<1>1. IInv => BudgetsHold
  <2> SUFFICES ASSUME IInv, Bound, NEW i \in DOMAIN program.attempts, Succeeded(program, i)
               PROVE  /\ Cardinality(SoFar(program, i)) <= SpawnCap
                      /\ Sizes(program, SoFar(program, i)) <= Ceiling
    BY DEF BudgetsHold, SoFar, WaveAt, UnitAt, Succeeded
  <2>1. WellFormed(program) /\ Metered(program)
    BY DEF IInv, ProgramHolds, Sound
  <2>2. i \in 1 .. Tries(program)
    BY <2>1, Fields
  <2> QED BY <2>1, <2>2 DEF Metered
<1> QED BY <1>1, Inductive, PTL

---------------------------------------------------------------------------
(* The order of the frozen plan.                                           *)

\* What the abstract specification sees of a state.
ThePlan == IF Bound THEN program.plan ELSE None
TheDone == IF Bound THEN Completed(program) ELSE {}
ThePassed == IF Bound THEN [i \in DOMAIN program.gates |-> program.gates[i].gate] ELSE <<>>
ThePhase == IF Bound THEN program.status ELSE "active"

\* The abstract specification speaks of the same plans.
LEMMA SamePlans ==
    /\ Order!Digests = Digests
    /\ Order!ValidPlans = ValidPlans /\ Order!UnitsOf = UnitsOf
    /\ Order!OrderedGates = OrderedGates /\ Order!WaveOf = WaveOf
    /\ Order!UnitsIn = UnitsIn /\ Order!GatesIn = GatesIn
<1>1. /\ Order!Digests = Digests
  BY DEF Order!Digests, Digests
<1>2. /\ Order!OrderedUnits = OrderedUnits /\ Order!OrderedGates = OrderedGates
      /\ Order!Waves = Waves /\ Order!WaveOf = WaveOf /\ Order!Kind = Kind
  BY <1>1 DEF Order!OrderedUnits, OrderedUnits, Order!OrderedGates, OrderedGates, Order!Waves,
              Waves, Order!WaveOf, WaveOf, Order!Kind, Kind
<1>3. /\ Order!UnitsOf = UnitsOf /\ Order!GatesOf = GatesOf
  BY <1>1, <1>2 DEF Order!UnitsOf, UnitsOf, Order!GatesOf, GatesOf, Order!ToSet, ToSet
<1>4. /\ Order!UnitsIn = UnitsIn /\ Order!GatesIn = GatesIn /\ Order!UnitKind = UnitKind
  BY <1>1, <1>2, <1>3 DEF Order!UnitsIn, UnitsIn, Order!GatesIn, GatesIn, Order!UnitKind, UnitKind
<1>5. \A m : Order!ValidPlan(m) <=> ValidPlan(m)
  <2> SUFFICES ASSUME NEW m PROVE Order!ValidPlan(m) <=> ValidPlan(m)
    OBVIOUS
  <2>1. Order!EveryUnitOnce(m) <=> EveryUnitOnce(m)
    BY <1>2, <1>3 DEF Order!EveryUnitOnce, EveryUnitOnce, Order!IsInjective, IsInjective
  <2>2. Order!DeclaredInOrder(m) <=> DeclaredInOrder(m)
    BY <1>2 DEF Order!DeclaredInOrder, DeclaredInOrder
  <2>3. Order!NeedsAreEarlier(m) <=> NeedsAreEarlier(m)
    BY <1>2, <1>3 DEF Order!NeedsAreEarlier, NeedsAreEarlier
  <2>4. Order!WavesAlternate(m) <=> WavesAlternate(m)
    <3>1. \A S : Order!Cardinality(S) = Cardinality(S)
      BY DEF Order!Cardinality, Cardinality
    <3> QED BY <1>2, <1>4, <3>1 DEF Order!WavesAlternate, WavesAlternate
  <2>5. Order!NeedsFollowWaves(m) <=> NeedsFollowWaves(m)
    BY <1>2, <1>3, <1>4 DEF Order!NeedsFollowWaves, NeedsFollowWaves
  <2>6. Order!BoundariesFit(m) <=> BoundariesFit(m)
    BY <1>3, <1>4 DEF Order!BoundariesFit, BoundariesFit
  <2>7. Order!GatesOwned(m) <=> GatesOwned(m)
    BY <1>2, <1>3, <1>4 DEF Order!GatesOwned, GatesOwned
  <2>8. Order!FinalUnitsLast(m) <=> FinalUnitsLast(m)
    BY <1>2, <1>3, <1>4 DEF Order!FinalUnitsLast, FinalUnitsLast
  <2> QED BY <2>1, <2>2, <2>3, <2>4, <2>5, <2>6, <2>7, <2>8 DEF Order!ValidPlan, ValidPlan
<1>6. Order!ValidPlans = ValidPlans
  BY <1>1, <1>5 DEF Order!ValidPlans, ValidPlans
<1> QED BY <1>1, <1>2, <1>3, <1>4, <1>6

\* A step that the order does not see.
Unseen == UNCHANGED <<ThePlan, TheDone, ThePassed, ThePhase>>

\* Such a step is a stutter of the order; the others are its steps.
LEMMA OrderStutters == ASSUME Unseen PROVE UNCHANGED Order!order
BY DEF Unseen, Order!order, ThePlan, TheDone, ThePassed, ThePhase

\* A step that freezes a plan.
LEMMA OrderFreezes ==
    ASSUME NEW m \in ValidPlans, ThePhase = "active", TheDone = {}, ThePassed = <<>>,
           ThePlan' = m, UNCHANGED <<TheDone, ThePassed, ThePhase>>
    PROVE  Order!OrderNext
<1>1. Order!Freeze(m)
  BY SamePlans DEF Order!Freeze, ThePlan, TheDone, ThePassed, ThePhase
<1>2. m \in Order!Digests
  BY SamePlans, PlanShape
<1> QED BY <1>1, <1>2 DEF Order!OrderNext

\* A step that has a unit succeed.
LEMMA OrderSucceeds ==
    ASSUME ThePlan # None, NEW u \in UnitsOf[ThePlan], ThePhase = "active",
           u \notin TheDone \cup Manifest[ThePlan].final,
           Manifest[ThePlan].needs[u] \subseteq TheDone,
           \A w \in 1 .. WaveOf[ThePlan][u] - 1 : /\ UnitsIn[ThePlan][w] \subseteq TheDone
                                                  /\ GatesIn[ThePlan][w] \subseteq ToSet(ThePassed),
           TheDone' = TheDone \cup {u}, UNCHANGED <<ThePlan, ThePassed, ThePhase>>
    PROVE  Order!OrderNext
<1>1. Order!EarlierDone(u)
  BY SamePlans DEF Order!EarlierDone, ThePlan, TheDone, ThePassed, Order!ToSet, ToSet
<1>2. Order!Succeed(u)
  BY <1>1 DEF Order!Succeed, ThePlan, TheDone, ThePassed, ThePhase
<1>3. u \in Order!UnitsOf[ThePlan]
  BY SamePlans
<1> QED BY <1>2, <1>3 DEF Order!OrderNext, ThePlan

\* A step that passes a gate.
LEMMA OrderPassesGate ==
    ASSUME ThePlan # None, NEW g, g \in ToSet(OrderedGates[ThePlan]), ThePhase = "active",
           Len(ThePassed) < Len(OrderedGates[ThePlan]),
           g = OrderedGates[ThePlan][Len(ThePassed) + 1],
           Manifest[ThePlan].owner[g] \in TheDone,
           ThePassed' = Append(ThePassed, g), UNCHANGED <<ThePlan, TheDone, ThePhase>>
    PROVE  Order!OrderNext
<1>1. Order!PassGate(g)
  BY SamePlans DEF Order!PassGate, ThePlan, TheDone, ThePassed, ThePhase
<1>2. g \in Order!ToSet(Order!OrderedGates[ThePlan])
  BY SamePlans DEF Order!ToSet, ToSet
<1> QED BY <1>1, <1>2 DEF Order!OrderNext, ThePlan

\* A step that concludes the program.
LEMMA OrderConcludes ==
    ASSUME ThePlan # None, ThePhase = "active", TheDone = UnitsOf[ThePlan],
           ThePassed = OrderedGates[ThePlan],
           ThePhase' = "completed", UNCHANGED <<ThePlan, TheDone, ThePassed>>
    PROVE  Order!OrderNext
<1>1. Order!Conclude
  BY SamePlans DEF Order!Conclude, ThePlan, TheDone, ThePassed, ThePhase
<1> QED BY <1>1 DEF Order!OrderNext, ThePlan

\* A step that gives the program up.
LEMMA OrderGivesUp ==
    ASSUME ThePhase # "aborted", ThePhase' = "aborted",
           UNCHANGED <<ThePlan, TheDone, ThePassed>>
    PROVE  Order!OrderNext
BY DEF Order!OrderNext, Order!GiveUp, ThePlan, TheDone, ThePassed, ThePhase

\* What is seen of a bound program.
LEMMA Seen ==
    ASSUME IInv, Bound
    PROVE  /\ ThePlan = program.plan /\ TheDone = Completed(program)
           /\ ThePhase = program.status /\ ThePlan # None /\ ThePlan \in ValidPlans
           /\ ThePassed \in Seq(GatesOf[program.plan])
           /\ Len(ThePassed) = Len(program.gates) /\ Len(ThePassed) \in Nat
           /\ \A i \in 1 .. Len(ThePassed) : ThePassed[i] = program.gates[i].gate
           /\ ToSet(ThePassed) = Checkpointed(program)
<1>1. WellFormed(program)
  BY DEF IInv, ProgramHolds, Sound
<1>2. program.plan \in ValidPlans /\ program.plan \in Digests
  BY <1>1, PlanShape DEF WellFormed
<1>3. program.plan # None
  BY <1>2, AbsentAssumption
<1>4. /\ Len(program.gates) \in Nat /\ DOMAIN program.gates = 1 .. Len(program.gates)
      /\ \A i \in 1 .. Len(program.gates) : program.gates[i].gate \in GatesOf[program.plan]
  BY <1>1, Fields
<1>5. ThePassed = [i \in 1 .. Len(program.gates) |-> program.gates[i].gate]
  BY <1>4 DEF ThePassed
<1>6. /\ ThePassed \in Seq(GatesOf[program.plan]) /\ Len(ThePassed) = Len(program.gates)
      /\ \A i \in 1 .. Len(program.gates) : ThePassed[i] = program.gates[i].gate
      /\ DOMAIN ThePassed = 1 .. Len(program.gates)
  BY <1>4, <1>5
<1>7. ToSet(ThePassed) = Checkpointed(program)
  BY <1>4, <1>6 DEF ToSet, Checkpointed
<1> QED BY <1>2, <1>3, <1>4, <1>6, <1>7 DEF ThePlan, TheDone, ThePhase

\* Programs that look the same.
LEMMA LooksSame ==
    ASSUME Bound, Bound', program'.plan = program.plan, program'.status = program.status,
           program'.gates = program.gates, Completed(program') = Completed(program)
    PROVE  Unseen
BY DEF Unseen, ThePlan, TheDone, ThePassed, ThePhase

\* Binding a manifest freezes its plan, while nothing was done.
LEMMA InvokeIsFreeze ==
    ASSUME IInv, NEW m \in Digests, NEW contained \in BOOLEAN, Invoke(m, contained)
    PROVE  Order!OrderNext \/ Unseen
<1>1. m \in ValidPlans /\ ws \subseteq Areas /\ Active
  BY DEF Invoke, IInv, WorkspaceHolds
<1>2. ASSUME NEW n \in Nat, program' = Fresh(m, n)
      PROVE  ThePlan' = m /\ TheDone' = {} /\ ThePassed' = <<>> /\ ThePhase' = "active"
  <2>1. Fresh(m, n) # None /\ Fresh(m, n).plan = m /\ Fresh(m, n).status = "active"
    BY <1>1, FreshIsSound
  <2>2. Fresh(m, n).attempts = <<>> /\ Fresh(m, n).gates = <<>>
    BY DEF Fresh
  <2> DEFINE p == Fresh(m, n)
  <2> HIDE DEF p
  <2>3. program' = p /\ p # None /\ p.plan = m /\ p.status = "active" /\ p.attempts = <<>>
        /\ p.gates = <<>>
    BY <1>2, <2>1, <2>2 DEF p
  <2>4. Bound'
    BY <2>3 DEF Bound
  <2>5. Completed(program') = {}
    BY <2>3 DEF Completed, ToSet
  <2>6. [i \in DOMAIN program'.gates |-> program'.gates[i].gate] = <<>>
    BY <2>3
  <2> QED BY <2>3, <2>4, <2>5, <2>6 DEF ThePlan, TheDone, ThePassed, ThePhase
<1>3. CASE ~Bound /\ program' = Fresh(m, 1)
  <2>1. TheDone = {} /\ ThePassed = <<>> /\ ThePhase = "active"
    BY <1>3 DEF TheDone, ThePassed, ThePhase
  <2> QED BY <1>1, <1>2, <1>3, <2>1, OrderFreezes
<1>4. CASE program' = program
  BY <1>4 DEF Unseen, ThePlan, TheDone, ThePassed, ThePhase, Bound
<1>5. CASE Bound /\ Rebindable /\ program' = Fresh(m, program.revision + 1)
  <2>1. program.attempts = <<>> /\ program.gates = <<>>
    BY <1>5 DEF Rebindable
  <2>2. Completed(program) = {}
    BY <2>1 DEF Completed, ToSet
  <2>3. ThePassed = <<>>
    <3>1. [i \in DOMAIN program.gates |-> program.gates[i].gate] = <<>>
      BY <2>1
    <3> QED BY <1>5, <3>1 DEF ThePassed
  <2>4. /\ Sound(program) /\ WellFormed(program) /\ CompletionHolds(program)
        /\ (program.status = "aborted" => run.status = "aborted")
    BY <1>5 DEF IInv, ProgramHolds, RunHolds, Sound
  <2>5. program.status = "active"
    <3>1. program.status # "completed"
      BY <2>2, <2>4, PlanWaves DEF CompletionHolds, WellFormed
    <3>2. program.status # "aborted"
      BY <1>1, <2>4 DEF Active, Unended
    <3> QED BY <2>4, <3>1, <3>2, Fields
  <2>6. TheDone = {} /\ ThePhase = "active"
    BY <1>5, <2>2, <2>5 DEF TheDone, ThePhase
  <2>7. program.revision + 1 \in Nat
    <3>1. program.revision \in Nat
      BY <2>4 DEF WellFormed, Program
    <3> QED BY <3>1
  <2> QED BY <1>1, <1>2, <1>5, <2>3, <2>6, <2>7, OrderFreezes
<1> QED BY <1>3, <1>4, <1>5 DEF Invoke

\* A checkpoint passes the next gate.
LEMMA CheckpointIsPass ==
    ASSUME IInv, Bound, NEW g \in OwnedGates, CheckpointGate(g)
    PROVE  Order!OrderNext \/ Unseen
<1>1. CASE program' = program
  BY <1>1 DEF Unseen, ThePlan, TheDone, ThePassed, ThePhase, Bound
<1>2. CASE program' = WithGate(g) /\ ws = OwnerAttempt(program, g).post
  <2> DEFINE q == WithGate(g)
  <2>1. Gated(program, q, g) /\ q # None /\ Sound(program) /\ WellFormed(program)
        /\ Sound(q) /\ WellFormed(q)
    BY <1>2, GateIsSound DEF CheckpointGate, IInv, ProgramHolds, WorkspaceHolds, Sound
  <2> HIDE DEF q
  <2>2. program' = q /\ Bound'
    BY <1>2, <2>1 DEF q, Bound
  <2>3. /\ q.plan = program.plan /\ q.status = program.status /\ program.status = "active"
        /\ q.attempts = program.attempts /\ g = OrderedGates[program.plan][Len(program.gates) + 1]
        /\ Len(program.gates) < Len(OrderedGates[program.plan])
        /\ Manifest[program.plan].owner[g] \in Completed(program)
        /\ q.gates[Len(q.gates)].gate = g
    BY <2>1 DEF Gated
  <2>4. /\ Len(program.gates) \in Nat /\ Len(q.gates) = Len(program.gates) + 1
        /\ DOMAIN q.gates = 1 .. Len(q.gates)
        /\ \A i \in 1 .. Len(program.gates) : q.gates[i] = program.gates[i]
    BY <2>1, GatedFacts
  <2>5. Completed(q) = Completed(program)
    BY <2>3 DEF Completed
  <2>6. ThePlan' = q.plan /\ TheDone' = Completed(q) /\ ThePhase' = q.status
        /\ ThePassed' = [i \in DOMAIN q.gates |-> q.gates[i].gate]
    BY <2>2 DEF ThePlan, TheDone, ThePassed, ThePhase
  <2>7. /\ ThePlan = program.plan /\ TheDone = Completed(program) /\ ThePhase = program.status
        /\ ThePlan # None /\ ThePlan \in ValidPlans
        /\ ThePassed \in Seq(GatesOf[program.plan]) /\ Len(ThePassed) = Len(program.gates)
        /\ \A i \in 1 .. Len(ThePassed) : ThePassed[i] = program.gates[i].gate
    BY Seen
  <2>8. g \in GatesOf[program.plan] /\ g \in ToSet(OrderedGates[ThePlan])
    <3>1. OrderedGates[program.plan] \in Seq(GatesOf[program.plan])
      BY <2>7, PlanShape
    <3>2. Len(program.gates) + 1 \in 1 .. Len(OrderedGates[program.plan])
      BY <2>3, <2>4, <3>1
    <3>3. g \in GatesOf[program.plan]
      BY <2>3, <3>1, <3>2, ElementOfSeq
    <3> QED BY <2>3, <2>7, <3>1, <3>2, <3>3 DEF ToSet
  <2>9. ThePassed' = Append(ThePassed, g)
    <3> DEFINE s == [i \in 1 .. Len(program.gates) + 1 |-> q.gates[i].gate]
               G == GatesOf[program.plan]
    <3>1. ThePassed' = s
      BY <2>4, <2>6
    <3> HIDE DEF G
    <3>2. /\ Append(ThePassed, g) \in Seq(G)
          /\ Len(Append(ThePassed, g)) = Len(program.gates) + 1
          /\ Append(ThePassed, g)[Len(program.gates) + 1] = g
          /\ \A i \in 1 .. Len(program.gates) : Append(ThePassed, g)[i] = ThePassed[i]
      BY <2>7, <2>8, AppendProperties DEF G
    <3>3. ASSUME NEW i \in 1 .. Len(program.gates) + 1
          PROVE  q.gates[i].gate = Append(ThePassed, g)[i]
      <4>1. CASE i = Len(program.gates) + 1
        BY <2>3, <2>4, <3>2, <4>1
      <4>2. CASE i # Len(program.gates) + 1
        <5>1. i \in 1 .. Len(program.gates)
          BY <2>4, <4>2
        <5> QED BY <2>4, <2>7, <3>2, <5>1
      <4> QED BY <4>1, <4>2
    <3>4. \A i \in 1 .. Len(program.gates) + 1 : q.gates[i].gate \in G
      BY <3>2, <3>3, ElementOfSeq
    <3>5. s \in Seq(G) /\ Len(s) = Len(program.gates) + 1
          /\ \A i \in 1 .. Len(program.gates) + 1 : s[i] = q.gates[i].gate
      BY <2>4, <3>4
    <3> HIDE DEF s
    <3> QED BY <3>1, <3>2, <3>3, <3>5, SeqEqual
  <2> QED BY <2>3, <2>5, <2>6, <2>7, <2>8, <2>9, OrderPassesGate
<1> QED BY <1>1, <1>2 DEF CheckpointGate, CallOrReturn

\* Completing the program concludes it.
LEMMA CompleteIsConclude ==
    ASSUME IInv, Bound, CompleteProgram
    PROVE  Order!OrderNext \/ Unseen
<1> DEFINE q == [program EXCEPT !.status = "completed", !.final = ws]
<1>1. CASE program' = program
  BY <1>1 DEF Unseen, ThePlan, TheDone, ThePassed, ThePhase, Bound
<1>2. CASE program' = q /\ NextGates(program) = {}
  <2>1. /\ q # None /\ q.plan = program.plan /\ q.attempts = program.attempts
        /\ q.gates = program.gates /\ q.status = "completed"
        /\ Completed(program) = UnitsOf[program.plan]
        /\ Len(program.gates) = Len(OrderedGates[program.plan])
    BY <1>2, CompleteProgramIsSound DEF CompleteProgram
  <2> HIDE DEF q
  <2>2. Bound' /\ Completed(program') = Completed(program)
    BY <1>2, <2>1 DEF Bound, Completed
  <2>3. /\ ThePlan' = program.plan /\ TheDone' = Completed(program) /\ ThePhase' = "completed"
        /\ ThePassed' = ThePassed
    BY <1>2, <2>1, <2>2 DEF ThePlan, TheDone, ThePassed, ThePhase
  <2>4. /\ ThePlan = program.plan /\ TheDone = Completed(program) /\ ThePhase = program.status
        /\ ThePlan # None /\ ThePlan \in ValidPlans
        /\ ThePassed \in Seq(GatesOf[program.plan]) /\ Len(ThePassed) = Len(program.gates)
        /\ \A i \in 1 .. Len(ThePassed) : ThePassed[i] = program.gates[i].gate
    BY Seen
  <2>5. ThePassed = OrderedGates[ThePlan]
    <3>1. OrderedGates[program.plan] \in Seq(GatesOf[program.plan])
      BY <2>4, PlanShape
    <3>2. GatesHold(program, Resolved) /\ WellFormed(program)
      BY DEF IInv, ProgramHolds, Sound
    <3>3. DOMAIN program.gates = 1 .. Len(program.gates)
      BY <3>2, Fields
    <3>4. \A i \in 1 .. Len(program.gates) :
            program.gates[i].gate = OrderedGates[program.plan][i]
      BY <3>2, <3>3 DEF GatesHold
    <3> QED BY <2>1, <2>4, <3>1, <3>4, SeqEqual
  <2> QED BY <2>1, <2>3, <2>4, <2>5, OrderConcludes DEF CompleteProgram
<1> QED BY <1>1, <1>2 DEF CompleteProgram, CallOrReturn

\* A claim is not seen.
LEMMA ClaimIsUnseen ==
    ASSUME IInv, Bound, Claim
    PROVE  Unseen
<1>1. CASE program' = program
  BY <1>1 DEF Unseen, ThePlan, TheDone, ThePassed, ThePhase, Bound
<1>2. CASE program' = WithAttempt /\ Eligible /\ BudgetLeft /\ AtBaseline
  <2> DEFINE q == WithAttempt
  <2>1. /\ ProgramHolds /\ co.unit \in UnitsOf[program.plan] /\ co.before \subseteq Areas
    BY DEF IInv, CoordinatorHolds, Coordinators, Claim
  <2>2. /\ Sound(q) /\ Grown(program, q) /\ q # None
        /\ q.status = program.status /\ q.gates = program.gates
    BY <1>2, <2>1, ClaimIsSound
  <2> HIDE DEF q
  <2>3. program' = q
    BY <1>2 DEF q
  <2>4. Completed(q) = Completed(program)
    BY <2>1, <2>2, CompletedGrown DEF ProgramHolds, Sound
  <2>5. Bound' /\ q.plan = program.plan
    BY <2>2, <2>3 DEF Bound, Grown
  <2> QED BY <2>2, <2>3, <2>4, <2>5, LooksSame
<1> QED BY <1>1, <1>2 DEF Claim, CallOrReturn, AskHuman

\* An attempt that ended has its unit succeed, or is not seen.
LEMMA EndIsSucceed ==
    ASSUME IInv, Bound, NEW q, program' = q, q # None, Sound(q), Ended(program, q),
           q.status = program.status, q.gates = program.gates,
           Succeeded(q, Tries(program)) => run.status = "active"
    PROVE  Order!OrderNext \/ Unseen
<1> DEFINE t == Tries(program)
           u == UnitAt(program, t)
           m == program.plan
<1>1. /\ WellFormed(program) /\ ChainHolds(program) /\ CompletionHolds(program)
      /\ Ready(program) /\ WavesDone(program) /\ WellFormed(q)
      /\ (program.status = "aborted" => run.status = "aborted")
  BY DEF IInv, ProgramHolds, RunHolds, Sound
<1>2. q.plan = m /\ t > 0 /\ program.attempts[t].status = "running"
  BY DEF Ended
<1>3. Bound' /\ Completed(q) = IF Succeeded(q, t) THEN Completed(program) \cup {u}
                               ELSE Completed(program)
  BY <1>1, CompletedEnded DEF Bound
<1>4. CASE ~Succeeded(q, t)
  BY <1>2, <1>3, <1>4, LooksSame
<1>5. CASE Succeeded(q, t)
  <2>1. t \in Nat /\ t \in 1 .. t
    <3>1. t \in Nat
      BY <1>1, Fields
    <3> QED BY <1>2, <3>1
  <2>2. u \in UnitsOf[m] /\ WaveAt(program, t) \in Waves[m]
    BY <1>1, <2>1, Fields
  <2>3. u \notin Completed(program) /\ program.status # "completed"
    BY <1>1, <1>2, RunningIsNotCompleted
  <2>4. program.status = "active"
    <3>1. program.status # "aborted"
      BY <1>1, <1>5
    <3> QED BY <1>1, <2>3, <3>1, Fields
  <2>5. /\ u \notin Manifest[m].final /\ Manifest[m].needs[u] \subseteq Completed(program)
        /\ \A w \in 1 .. WaveAt(program, t) - 1 : program.waves[w].status = "completed"
    BY <1>1, <2>1 DEF Ready
  <2>6. ASSUME NEW w \in 1 .. WaveAt(program, t) - 1
        PROVE  /\ UnitsIn[m][w] \subseteq Completed(program)
               /\ GatesIn[m][w] \subseteq Checkpointed(program)
    <3>1. Len(Kind[m]) \in Nat /\ Waves[m] = 1 .. Len(Kind[m])
      BY <1>1, PlanShape DEF WellFormed
    <3>2. w \in Waves[m]
      BY <2>2, <3>1
    <3> QED BY <1>1, <2>5, <3>2 DEF WavesDone
  <2>7. /\ ThePlan = m /\ TheDone = Completed(program) /\ ThePhase = program.status
        /\ ThePlan # None /\ ToSet(ThePassed) = Checkpointed(program)
    BY Seen
  <2>8. /\ ThePlan' = m /\ TheDone' = Completed(program) \cup {u} /\ ThePhase' = program.status
        /\ ThePassed' = ThePassed
    BY <1>2, <1>3, <1>5 DEF ThePlan, TheDone, ThePassed, ThePhase
  <2>9. WaveAt(program, t) = WaveOf[m][u]
    BY DEF WaveAt
  <2> HIDE DEF t, u, m
  <2> QED BY <2>2, <2>3, <2>4, <2>5, <2>6, <2>7, <2>8, <2>9, OrderSucceeds
<1> QED BY <1>4, <1>5

\* finish_program_unit, and the call that ends an interrupted attempt.
LEMMA RecordIsSucceed ==
    ASSUME IInv, Bound, NEW n \in 0 .. MaxOutput, NEW proven \in BOOLEAN,
           Finish(n, proven) \/ (Close(n) /\ proven = FALSE)
    PROVE  Order!OrderNext \/ Unseen
<1>1. /\ co.pc \in Claimed
      /\ program' = IF Recordable(n, proven) THEN WithResult(n, proven) ELSE program
  BY DEF Finish, Close, At, Claimed
<1>2. CASE program' = program
  BY <1>2 DEF Unseen, ThePlan, TheDone, ThePassed, ThePhase, Bound
<1>3. CASE program' = WithResult(n, proven) /\ Recordable(n, proven)
  <2> DEFINE q == WithResult(n, proven)
  <2>1. IsClaimed /\ co.after \subseteq Areas /\ ProgramHolds /\ n \in Nat
    BY <1>1, BudgetAssumption DEF IInv, CoordinatorHolds, Coordinators
  <2>2. /\ Sound(q) /\ Ended(program, q) /\ q # None
        /\ q.status = program.status /\ q.gates = program.gates
    BY <1>3, <2>1, ResultIsSound DEF Recordable
  <2> HIDE DEF q
  <2>3. program' = q /\ run.status = "active"
    BY <1>3 DEF q, Recordable, Active, Unended
  <2> QED BY <2>2, <2>3, EndIsSucceed
<1> QED BY <1>1, <1>2, <1>3

\* Reconciling a stale attempt is not seen.
LEMMA ReconcileIsUnseen ==
    ASSUME IInv, Bound, Reconcile
    PROVE  Order!OrderNext \/ Unseen
<1> DEFINE q == [program EXCEPT !.attempts[Current] = [@ EXCEPT !.status = "failed"]]
<1>1. /\ Sound(q) /\ Ended(program, q) /\ q # None
      /\ q.status = program.status /\ q.gates = program.gates /\ ~Succeeded(q, Tries(program))
  BY FailedIsSound DEF IInv, Reconcile
<1>2. program' = q
  BY DEF Reconcile
<1> HIDE DEF q
<1> QED BY <1>1, <1>2, EndIsSucceed

\* Aborting the run gives the program up.
LEMMA AbortIsGiveUp ==
    ASSUME IInv, Bound, Abort
    PROVE  Order!OrderNext
<1> DEFINE q == [program EXCEPT !.status = "aborted"]
<1>1. /\ q # None /\ q.plan = program.plan /\ q.attempts = program.attempts
      /\ q.gates = program.gates /\ q.status = "aborted"
  <2>1. {} \in SUBSET Areas /\ "aborted" \in {"active", "completed", "aborted"} /\ ProgramHolds
    BY DEF IInv
  <2> QED BY <2>1, StatusIsSound
<1>2. program' = q /\ program.status # "aborted"
  BY DEF Abort, IInv, RunHolds, Unended
<1> HIDE DEF q
<1>3. Bound' /\ Completed(program') = Completed(program)
  BY <1>1, <1>2 DEF Bound, Completed
<1>4. ThePhase # "aborted" /\ ThePhase' = "aborted" /\ UNCHANGED <<ThePlan, TheDone, ThePassed>>
  BY <1>1, <1>2, <1>3 DEF ThePlan, TheDone, ThePassed, ThePhase
<1> QED BY <1>4, OrderGivesUp

\* Every step is a step of the order, or not seen by it.
LEMMA NextIsOrder ==
    ASSUME IInv, [Next]_vars
    PROVE  [Order!OrderNext]_(Order!order)
<1> SUFFICES Order!OrderNext \/ Unseen
  BY OrderStutters
<1>1. CASE \E m \in Digests, contained \in BOOLEAN : Invoke(m, contained)
  BY <1>1, InvokeIsFreeze
<1>2. CASE program' = program
  BY <1>2 DEF Unseen, ThePlan, TheDone, ThePassed, ThePhase, Bound
<1>3. CASE Bound /\ Coordinate
  <2>1. CASE Stop \/ Prepare \/ Ask
             \/ (\E result \in {"succeeded", "failed", "stop", "cancelled"} : Collect(result))
             \/ (\E result \in {"failed", "cancelled"} : Clean(result))
    BY <1>2, <2>1 DEF Stop, Prepare, Ask, AskHuman, Collect, Clean
  <2>2. CASE \E n \in 0 .. MaxOutput : Close(n) \/ \E proven \in BOOLEAN : Finish(n, proven)
    BY <1>3, <2>2, RecordIsSucceed
  <2>3. CASE CompleteProgram \/ Claim \/ \E g \in OwnedGates : CheckpointGate(g)
    BY <1>3, <2>3, CompleteIsConclude, ClaimIsUnseen, CheckpointIsPass
  <2> QED BY <1>3, <2>1, <2>2, <2>3 DEF Coordinate
<1>4. CASE Bound /\ Others
  <2>1. CASE Reconcile \/ Abort
    BY <1>4, <2>1, ReconcileIsUnseen, AbortIsGiveUp
  <2>2. CASE \/ Interrupt \/ Kill \/ MoveHead \/ Restore
             \/ \E area \in Areas : Edit(area)
             \/ \E w \in Waves[program.plan] : Expire(w)
             \/ ResolveGate \/ RejectStop \/ CompleteRun
    BY <1>2, <2>2 DEF Interrupt, Kill, MoveHead, Restore, Edit, Expire, ResolveGate, RejectStop,
                      CompleteRun
  <2> QED BY <1>4, <2>1, <2>2 DEF Others
<1>5. CASE Bound /\ \E area \in Areas : HostWrites(area)
  BY <1>2, <1>5 DEF HostWrites
<1>6. CASE UNCHANGED vars
  BY <1>2, <1>6 DEF vars
<1> QED BY <1>1, <1>3, <1>4, <1>5, <1>6 DEF Next

\* Whatever interrupts it, execution follows the order of the frozen plan
\* (execute_program_manifest and the ledger's calls, against ProgramOrder).
THEOREM ExecutionFollowsTheOrder == Spec => ImplementsProgramOrder
<1>1. Init => Order!OrderInit
  BY DEF Init, Order!OrderInit, Bound
<1>2. IInv /\ [Next]_vars => [Order!OrderNext]_(Order!order)
  BY NextIsOrder
<1> QED BY <1>1, <1>2, Inductive, PTL DEF Spec, ImplementsProgramOrder, Order!OrderSpec
=============================================================================
