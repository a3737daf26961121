---------------------------- MODULE ProgramPlan ----------------------------
(***************************************************************************)
(* The program manifest of Mode E (program_runtime.py): waves of units,    *)
(* the gates of its verification waves and who owns them.  A manifest is   *)
(* a record [kinds, units, gates, waveOf, gateWave, owner, outer, needs,   *)
(* writes, final]: the kind of each wave, in order; its units and its      *)
(* gates as declared, and the wave of each; the unit that owns a gate; the *)
(* gates of kind pipeline; the dependencies and boundaries of a unit; and  *)
(* the irreversible units.  A unit's kind is that of its wave.             *)
(* Risk tiers, digests, lanes and the parallel flag, which execution does  *)
(* not consult, are left out.                                              *)
(***************************************************************************)
EXTENDS Naturals, FiniteSets, SequencesExt

CONSTANT Manifest  \* the manifest of a digest

Digests == DOMAIN Manifest

\* What the parser guarantees: a manifest is these parts, and its validation
\* below compares them.
ASSUME ManifestAssumption == \A m \in Digests :
    /\ Manifest[m].kinds \in Seq({"audit", "execution", "verification", "closeout"})
    /\ Manifest[m].units \in Seq(DOMAIN Manifest[m].waveOf)
    /\ Manifest[m].gates \in Seq(DOMAIN Manifest[m].gateWave)

\* By digest, and by wave.
Waves == [m \in Digests |-> DOMAIN Manifest[m].kinds]
OrderedUnits == [m \in Digests |-> Manifest[m].units]
OrderedGates == [m \in Digests |-> Manifest[m].gates]
UnitsOf == [m \in Digests |-> ToSet(OrderedUnits[m])]
GatesOf == [m \in Digests |-> ToSet(OrderedGates[m])]

WaveOf == [m \in Digests |-> Manifest[m].waveOf]
UnitsIn == [m \in Digests |-> [w \in Waves[m] |-> {u \in UnitsOf[m] : WaveOf[m][u] = w}]]
GatesIn == [m \in Digests |->
              [w \in Waves[m] |-> {g \in GatesOf[m] : Manifest[m].gateWave[g] = w}]]

Kind == [m \in Digests |-> Manifest[m].kinds]
UnitKind == [m \in Digests |-> [u \in UnitsOf[m] |-> Kind[m][WaveOf[m][u]]]]

\* The gates that the run's own ledger must have resolved, in its order.
OuterGates == [m \in Digests |-> SelectSeq(OrderedGates[m], LAMBDA g : g \in Manifest[m].outer)]

---------------------------------------------------------------------------
(* What _validate_program_manifest asks of a manifest.                     *)

EveryUnitOnce(m) == /\ IsInjective(OrderedUnits[m])
                    /\ IsInjective(OrderedGates[m])
                    /\ \A u \in UnitsOf[m] : WaveOf[m][u] \in Waves[m]
                    /\ UnitsOf[m] = DOMAIN Manifest[m].needs

\* Units and gates are declared in the order of their waves.
DeclaredInOrder(m) ==
    LET unit == OrderedUnits[m]
        gate == OrderedGates[m]
    IN  /\ \A i, j \in DOMAIN unit : i < j => WaveOf[m][unit[i]] <= WaveOf[m][unit[j]]
        /\ \A i, j \in DOMAIN gate :
             i < j => Manifest[m].gateWave[gate[i]] <= Manifest[m].gateWave[gate[j]]

NeedsAreEarlier(m) == \A u \in UnitsOf[m] : \A d \in Manifest[m].needs[u] :
    d \in UnitsOf[m] /\ WaveOf[m][d] < WaveOf[m][u]

\* Audit first and closeout last; every work wave has its verification wave.
WavesAlternate(m) ==
    LET last == Len(Kind[m])
        IsA(w, kinds) == Kind[m][w] \in kinds
    IN  /\ \A w \in Waves[m] : /\ IsA(w, {"audit"}) = (w = 1)
                              /\ IsA(w, {"closeout"}) = (w = last)
        /\ \A w \in 1 .. last - 1 : IsA(w, {"audit", "execution"}) = IsA(w + 1, {"verification"})
        /\ \E w \in Waves[m] : IsA(w, {"execution"})
        /\ Cardinality(UnitsIn[m][last]) = 1

NeedsFollowWaves(m) ==
    /\ \A u \in UnitsIn[m][1] : Manifest[m].needs[u] = {}
    /\ \A u \in UnitsOf[m] : UnitKind[m][u] \in {"execution", "closeout"} =>
         UnitsIn[m][WaveOf[m][u] - 1] \subseteq Manifest[m].needs[u]

\* Only gate-runners have no boundary.
BoundariesFit(m) == \A u \in UnitsOf[m] :
    (Manifest[m].writes[u] = {}) = (UnitKind[m][u] = "verification")

\* A gate is of a verification wave and owned by one of its runners, which
\* verify all of the wave before; every runner owns a gate, their first ones in
\* the order of the runners, and a gate of each wave is the program's own.
GatesOwned(m) ==
    LET Owner(g) == Manifest[m].owner[g]
        unit == OrderedUnits[m]
        gate == OrderedGates[m]
    IN  /\ \A g \in GatesOf[m] :
             LET w == Manifest[m].gateWave[g]
             IN  /\ w \in Waves[m] /\ Kind[m][w] = "verification"
                 /\ Owner(g) \in UnitsIn[m][w]
                 /\ UnitsIn[m][w - 1] \subseteq Manifest[m].needs[Owner(g)]
        /\ \A w \in Waves[m] : Kind[m][w] = "verification" =>
             /\ UnitsIn[m][w] = {Owner(g) : g \in GatesIn[m][w]}
             /\ GatesIn[m][w] \ Manifest[m].outer # {}
             /\ \A i, j \in DOMAIN unit : i < j /\ {unit[i], unit[j]} \subseteq UnitsIn[m][w] =>
                  \E k \in DOMAIN gate : /\ Owner(gate[k]) = unit[i]
                                         /\ \A l \in 1 .. k : Owner(gate[l]) # unit[j]

\* Irreversible units are confined to the last execution wave.
FinalUnitsLast(m) == \A u \in Manifest[m].final :
    /\ u \in UnitsOf[m] /\ UnitKind[m][u] = "execution"
    /\ \A w \in Waves[m] : Kind[m][w] = "execution" => w <= WaveOf[m][u]

ValidPlan(m) == /\ EveryUnitOnce(m)
                /\ DeclaredInOrder(m)
                /\ NeedsAreEarlier(m)
                /\ WavesAlternate(m)
                /\ NeedsFollowWaves(m)
                /\ BoundariesFit(m)
                /\ GatesOwned(m)
                /\ FinalUnitsLast(m)

ValidPlans == {m \in Digests : ValidPlan(m)}
=============================================================================
