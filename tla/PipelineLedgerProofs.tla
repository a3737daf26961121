----------------------- MODULE PipelineLedgerProofs -----------------------
(***************************************************************************)
(* What TLC checks of PipelineLedger on small instances, for every number  *)
(* of gates, every policy and every set of commits, files and findings:    *)
(* the document keeps its type, the gates are resolved in order, no        *)
(* acceptance of a risk is lost or left without room for a refresh, gates  *)
(* and runs are resolved over a document that is true, a report restores a *)
(* run, and the ledger implements GateLedger.                              *)
(***************************************************************************)
EXTENDS PipelineLedger, SequenceTheorems, FunctionTheorems, FiniteSetTheorems, TLAPS

USE SizeAssumption, ConditionalAssumption, NoneAssumption

---------------------------------------------------------------------------
(* Types of what the actions build.                                        *)

EnvTyped == /\ tree \in [branch : Branches, commit : Commits]
            /\ files \in [Artifacts -> Versions \cup {None}]
            /\ policy \in Policies

\* The type of the surroundings, apart from that of the document.
LEMMA EnvOfTypeOK == TypeOK => EnvTyped
BY DEF TypeOK, EnvTyped

\* A file that can be read is evidence.
LEMMA EvidenceTyped ==
    ASSUME EnvTyped, NEW a \in Artifacts, Usable(a)
    PROVE  Evidence(a) \in EvidenceRef
BY DEF EnvTyped, Usable, Evidence, EvidenceRef

\* A report has a digest of the digest type (_finding_set_digest).
LEMMA DigestTyped ==
    ASSUME NEW f \in FindingSet
    PROVE  Digest(f) \in FindingDigest
BY DEF Digest, FindingDigest, FindingSet, EvidenceRef

\* An acceptance has an identity of the identity type (finding_fingerprint).
LEMMA FingerprintTyped ==
    ASSUME NEW r \in Risk
    PROVE  Fingerprint(r) \in RiskIdentity
BY DEF Fingerprint, RiskIdentity, Risk, EvidenceRef

\* None of the identities a gate is resolved on comes from an empty slot.
LEMMA LiveTyped ==
    ASSUME NEW s \in Snapshot, NEW i \in Live(s)
    PROVE  s.risks[i] \in Risk
BY DEF Live, Snapshot

\* The identities a gate is resolved on are identities of acceptances.
LEMMA RiskIdsTyped ==
    ASSUME NEW s \in Snapshot, NEW g
    PROVE  RiskIds(s, g) \in SUBSET RiskIdentity
<1> SUFFICES ASSUME NEW i \in RisksAt(s, g)
             PROVE  Fingerprint(s.risks[i]) \in RiskIdentity
  BY DEF RiskIds
<1> QED
  BY LiveTyped, FingerprintTyped DEF RisksAt

\* A set of places in accepted_risks is finite and can be counted.
LEMMA FiniteSlots ==
    ASSUME NEW A \in SUBSET Slots
    PROVE  IsFiniteSet(A) /\ Cardinality(A) \in Nat
<1>1. NumGates * MaxMedium \in Int
  OBVIOUS
<1>2. IsFiniteSet(Slots)
  BY <1>1, FS_Interval DEF Slots
<1> QED
  BY <1>2, FS_Subset, FS_CardinalityType

\* An entry built for a gate is a gate_history entry for that gate.
LEMMA EntryTyped ==
    ASSUME EnvTyped, NEW g \in Gates, NEW status \in PositionStatuses,
           NEW ev \in EvidenceRef \cup {None}, NEW ids \in SUBSET RiskIdentity
    PROVE  /\ Entry(g, status, ev, ids) \in GateEntry
           /\ Entry(g, status, ev, ids).gate = g
           /\ Entry(g, status, ev, ids).status = status
BY DEF EnvTyped, Entry, GateEntry

\* Recording an entry appends it, moves the stage, and touches nothing else.
LEMMA AdvanceTyped ==
    ASSUME EnvTyped, NEW s \in Snapshot, NEW entry \in GateEntry
    PROVE  /\ Advance(s, entry) \in Snapshot
           /\ Advance(s, entry).history = Append(s.history, entry)
           /\ Advance(s, entry).stage = entry.gate + 1
           /\ Advance(s, entry).stops = s.stops
           /\ Advance(s, entry).archives = s.archives
           /\ Advance(s, entry).base = s.base
           /\ Advance(s, entry).policy = s.policy
           /\ Advance(s, entry).status = s.status
<1>1. Append(s.history, entry) \in Seq(GateEntry)
  BY AppendProperties DEF Snapshot
<1>2. entry.gate + 1 \in 0 .. Ready
  BY DEF GateEntry, Gates, Ready
<1>3. tree.commit \in Commits
  BY DEF EnvTyped
<1> QED
  BY <1>1, <1>2, <1>3 DEF Advance, Snapshot

\* The record accept-risk builds is an acceptance, if a Medium finding is reported.
LEMMA RiskRecordTyped ==
    ASSUME EnvTyped, NEW s \in Snapshot, s.findings \in FindingSet, s.findings.medium >= 1,
           NEW g \in Gates, NEW f \in Findings, NEW a \in Artifacts, Usable(a)
    PROVE  RiskRecord(s, g, f, a) \in Risk
<1>1. Evidence(a) \in EvidenceRef /\ Digest(s.findings) \in FindingDigest
  BY EvidenceTyped, DigestTyped
<1>2. s.findings.medium \in 1 .. MaxMedium
  BY DEF FindingSet
<1>3. tree.commit \in Commits
  BY DEF EnvTyped
<1> QED
  BY <1>1, <1>2, <1>3 DEF RiskRecord, Risk

\* Adding an acceptance changes only the acceptances and the commit.
LEMMA AddRiskTyped ==
    ASSUME EnvTyped, NEW s \in Snapshot, NEW r \in Risk
    PROVE  /\ AddRisk(s, r) \in Snapshot
           /\ AddRisk(s, r).history = s.history
           /\ AddRisk(s, r).stops = s.stops
           /\ AddRisk(s, r).archives = s.archives
           /\ AddRisk(s, r).base = s.base
           /\ AddRisk(s, r).policy = s.policy
           /\ AddRisk(s, r).status = s.status
           /\ AddRisk(s, r).stage = s.stage
           /\ AddRisk(s, r).findings = s.findings
<1> DEFINE free == CHOOSE i \in Slots : s.risks[i] = None
           more == [s.risks EXCEPT ![free] = r]
<1>1. AddRisk(s, r) = [s EXCEPT !.risks = more, !.commit = tree.commit]
  BY DEF AddRisk
<1>2. more \in [Slots -> Risk \cup {None}]
  BY DEF Snapshot
<1>3. tree.commit \in Commits
  BY DEF EnvTyped
<1> HIDE DEF more
<1> QED
  BY <1>1, <1>2, <1>3 DEF Snapshot

\* Retiring live acceptances changes only the acceptances and their audit history.
LEMMA RetireTyped ==
    ASSUME EnvTyped, NEW s \in Snapshot, NEW gone \in SUBSET Live(s)
    PROVE  /\ Retire(s, gone) \in Snapshot
           /\ Retire(s, gone).history = s.history
           /\ Retire(s, gone).stops = s.stops
           /\ Retire(s, gone).archives = s.archives
           /\ Retire(s, gone).base = s.base
           /\ Retire(s, gone).policy = s.policy
           /\ Retire(s, gone).status = s.status
           /\ Retire(s, gone).stage = s.stage
           /\ Retire(s, gone).findings = s.findings
<1> DEFINE left == [i \in Slots |-> IF i \in gone THEN None ELSE s.risks[i]]
           audit == s.retired \cup {s.risks[i] : i \in gone}
<1>1. Retire(s, gone) = [s EXCEPT !.risks = left, !.retired = audit, !.commit = tree.commit]
  BY DEF Retire
<1>2. left \in [Slots -> Risk \cup {None}]
  BY DEF Snapshot
<1>3. audit \in SUBSET Risk
  BY LiveTyped DEF Snapshot
<1>4. tree.commit \in Commits
  BY DEF EnvTyped
<1> HIDE DEF left, audit
<1> QED
  BY <1>1, <1>2, <1>3, <1>4 DEF Snapshot

\* Rebinding changes neither the gates nor how they were resolved.
LEMMA RebindTyped ==
    ASSUME EnvTyped, NEW s \in Snapshot, NEW k \in DOMAIN s.history
    PROVE  /\ Rebind(s, k) \in Snapshot
           /\ Len(Rebind(s, k).history) = Len(s.history)
           /\ \A j \in DOMAIN s.history :
                 /\ Rebind(s, k).history[j].gate = s.history[j].gate
                 /\ Rebind(s, k).history[j].status = s.history[j].status
           /\ Rebind(s, k).stops = s.stops
           /\ Rebind(s, k).archives = s.archives
           /\ Rebind(s, k).base = s.base
           /\ Rebind(s, k).policy = s.policy
           /\ Rebind(s, k).status = s.status
           /\ Rebind(s, k).stage = s.stage
           /\ Rebind(s, k).findings = s.findings
<1> DEFINE h == s.history
           ids == RiskIds(s, s.history[k].gate)
           entry == [h[k] EXCEPT !.ids = ids, !.commit = tree.commit]
           rebound == [h EXCEPT ![k] = entry]
<1>1. h \in Seq(GateEntry) /\ k \in 1 .. Len(h)
  BY LenProperties DEF Snapshot
<1>2. h[k] \in GateEntry
  BY <1>1, ElementOfSeq
<1>3. ids \in SUBSET RiskIdentity /\ tree.commit \in Commits
  BY RiskIdsTyped DEF EnvTyped
<1>4. /\ entry \in GateEntry
      /\ entry.gate = h[k].gate /\ entry.status = h[k].status
  <2> HIDE DEF h, ids
  <2> QED
    BY <1>2, <1>3 DEF GateEntry
<1>5. Rebind(s, k) = [s EXCEPT !.history = rebound]
  BY DEF Rebind
<1>6. /\ rebound \in Seq(GateEntry)
      /\ Len(rebound) = Len(h)
      /\ \A j \in 1 .. Len(h) : rebound[j] = IF j = k THEN entry ELSE h[j]
  <2> HIDE DEF h, entry
  <2> QED
    BY <1>1, <1>4, ExceptSeq
<1>7. DOMAIN h = 1 .. Len(h)
  BY <1>1, LenProperties
<1>8. \A j \in DOMAIN h : rebound[j].gate = h[j].gate /\ rebound[j].status = h[j].status
  <2> HIDE DEF h, entry, rebound
  <2> QED
    BY <1>4, <1>6, <1>7
<1> HIDE DEF rebound
<1> QED
  BY <1>3, <1>5, <1>6, <1>8 DEF Snapshot, h

\* Clearing a gate changes neither the gates nor how they were resolved.
LEMMA ClearTyped ==
    ASSUME EnvTyped, NEW s \in Snapshot, NEW k \in DOMAIN s.history,
           NEW a \in Artifacts, Usable(a), s.findings \in FindingSet
    PROVE  /\ Clear(s, k, a) \in Snapshot
           /\ Len(Clear(s, k, a).history) = Len(s.history)
           /\ \A j \in DOMAIN s.history :
                 /\ Clear(s, k, a).history[j].gate = s.history[j].gate
                 /\ Clear(s, k, a).history[j].status = s.history[j].status
           /\ Clear(s, k, a).stops = s.stops
           /\ Clear(s, k, a).archives = s.archives
           /\ Clear(s, k, a).base = s.base
           /\ Clear(s, k, a).policy = s.policy
           /\ Clear(s, k, a).status = s.status
           /\ Clear(s, k, a).stage = s.stage
<1> DEFINE t == Rebind(s, k)
           h == t.history
           c == [ev |-> Evidence(a), commit |-> tree.commit, set |-> Digest(s.findings)]
           entry == [h[k] EXCEPT !.clearance = c]
           cleared == [h EXCEPT ![k] = entry]
<1>1. /\ t \in Snapshot
      /\ Len(h) = Len(s.history)
      /\ \A j \in DOMAIN s.history :
            h[j].gate = s.history[j].gate /\ h[j].status = s.history[j].status
      /\ t.stops = s.stops /\ t.archives = s.archives /\ t.base = s.base /\ t.policy = s.policy
      /\ t.status = s.status /\ t.stage = s.stage
  BY RebindTyped
<1> HIDE DEF t
<1>2. h \in Seq(GateEntry) /\ s.history \in Seq(GateEntry)
  BY <1>1 DEF Snapshot
<1>3. DOMAIN s.history = 1 .. Len(h) /\ k \in 1 .. Len(h)
  BY <1>1, <1>2, LenProperties
<1>4. c \in Clearance
  BY EvidenceTyped, DigestTyped DEF Clearance, EnvTyped
<1>5. entry \in GateEntry /\ entry.gate = h[k].gate /\ entry.status = h[k].status
  <2>1. h[k] \in GateEntry
    BY <1>2, <1>3, ElementOfSeq
  <2> HIDE DEF h, c
  <2> QED
    BY <2>1, <1>4 DEF GateEntry
<1>6. /\ cleared \in Seq(GateEntry)
      /\ Len(cleared) = Len(h)
      /\ \A j \in 1 .. Len(h) : cleared[j] = IF j = k THEN entry ELSE h[j]
  <2> HIDE DEF h, entry
  <2> QED
    BY <1>2, <1>3, <1>5, ExceptSeq
<1>7. \A j \in DOMAIN s.history :
         cleared[j].gate = s.history[j].gate /\ cleared[j].status = s.history[j].status
  <2> HIDE DEF h, entry, cleared
  <2> QED
    BY <1>1, <1>3, <1>5, <1>6
<1>8. Clear(s, k, a) = [t EXCEPT !.history = cleared]
  <2> HIDE DEF c
  <2> QED
    BY DEF Clear, t, c
<1> HIDE DEF cleared
<1> QED
  BY <1>1, <1>6, <1>7, <1>8 DEF Snapshot

\* The outcomes of a run are a sequence, as long as its history.
LEMMA OutcomesTyped ==
    ASSUME NEW s \in Snapshot
    PROVE  /\ ArchiveOf(s).status = s.status
           /\ ArchiveOf(s).base = s.base
           /\ ArchiveOf(s).outcomes \in Seq(PositionStatuses)
           /\ Len(ArchiveOf(s).outcomes) = Len(s.history)
           /\ \A j \in 1 .. Len(s.history) : ArchiveOf(s).outcomes[j] = s.history[j].status
<1> DEFINE h == s.history
           o == [k \in DOMAIN h |-> h[k].status]
<1>1. h \in Seq(GateEntry)
  BY DEF Snapshot
<1> HIDE DEF h
<1>2. DOMAIN h = 1 .. Len(h) /\ Len(h) \in Nat
  BY <1>1, LenProperties
<1>3. \A j \in 1 .. Len(h) : h[j].status \in PositionStatuses
  <2> SUFFICES ASSUME NEW j \in 1 .. Len(h) PROVE h[j].status \in PositionStatuses
    OBVIOUS
  <2>1. h[j] \in GateEntry
    BY <1>1, ElementOfSeq
  <2> QED
    BY <2>1 DEF GateEntry
<1>4. o \in [1 .. Len(h) -> PositionStatuses]
  BY <1>2, <1>3
<1>5. o \in Seq(PositionStatuses)
  BY <1>2, <1>4, SeqDef
<1>6. Len(o) = Len(h)
  <2>1. DOMAIN o = 1 .. Len(h)
    BY <1>2
  <2> HIDE DEF o
  <2>2. DOMAIN o = 1 .. Len(o) /\ Len(o) \in Nat
    BY <1>5, LenProperties
  <2> QED
    BY <1>2, <2>1, <2>2
<1>7. ArchiveOf(s) = [status |-> s.status, base |-> s.base, outcomes |-> o]
  BY DEF ArchiveOf, h
<1>8. \A j \in 1 .. Len(h) : o[j] = h[j].status
  BY <1>2
<1> HIDE DEF o
<1> QED
  BY <1>5, <1>6, <1>7, <1>8 DEF h

\* What is kept of a terminal run is an archived run.
LEMMA ArchiveTyped ==
    ASSUME NEW s \in Snapshot, s.status \in Terminal
    PROVE  ArchiveOf(s) \in ArchivedRun
<1>1. s.base \in 0 .. NumGates - 1
  BY DEF Snapshot
<1>2. ArchiveOf(s) = [status |-> s.status, base |-> s.base,
                      outcomes |-> ArchiveOf(s).outcomes]
  BY DEF ArchiveOf
<1> QED
  BY <1>1, <1>2, OutcomesTyped DEF ArchivedRun

\* The absent document has the type of a document.
LEMMA NoRunTyped ==
    NoRun \in Snapshot
<1>1. /\ <<>> \in Seq(GateEntry) /\ <<>> \in Seq(HumanStop) /\ <<>> \in Seq(ArchivedRun)
  BY EmptySeq
<1>2. 0 \in 0 .. NumGates - 1 /\ 0 \in 0 .. Ready
  BY DEF Ready
<1>3. [i \in Slots |-> None] \in [Slots -> Risk \cup {None}]
  OBVIOUS
<1> QED
  BY <1>1, <1>2, <1>3 DEF NoRun, Snapshot

\* A fresh run is a document: active, empty, at the gate after the historical ones.
LEMMA FreshRunTyped ==
    ASSUME EnvTyped, NEW base \in 0 .. NumGates - 1, NEW archives \in Seq(ArchivedRun)
    PROVE  /\ FreshRun(base, archives) \in Snapshot
           /\ FreshRun(base, archives).status = "active"
           /\ FreshRun(base, archives).base = base
           /\ FreshRun(base, archives).stage = base + 1
           /\ FreshRun(base, archives).history = <<>>
           /\ FreshRun(base, archives).stops = <<>>
           /\ FreshRun(base, archives).archives = archives
<1>1. base + 1 \in 0 .. Ready
  BY DEF Ready
<1>2. tree.branch \in Branches /\ tree.commit \in Commits /\ policy \in Policies
  BY DEF EnvTyped
<1>3. NoRun.history = <<>> /\ NoRun.stops = <<>>
  BY DEF NoRun
<1> QED
  BY <1>1, <1>2, <1>3, NoRunTyped DEF FreshRun, Snapshot

---------------------------------------------------------------------------
(* Every operation leaves a document of the right type.                    *)

\* A document that passed the findings check holds a report.
LEMMA ReportTyped ==
    ASSUME TypeOK, NEW c, FindingsCurrent(snap, c)
    PROVE  snap.findings \in FindingSet
BY DEF TypeOK, Snapshot, FindingsCurrent

\* start and adopt leave a document.
LEMMA CreateRunTyped ==
    ASSUME TypeOK, NEW base \in 0 .. NumGates - 1, CreateRun(base)
    PROVE  snap' \in Snapshot
<1>1. EnvTyped /\ snap \in Snapshot
  BY DEF TypeOK, EnvTyped
<1>2. CASE snap' = FreshRun(base, <<>>)
  BY <1>1, <1>2, FreshRunTyped, EmptySeq
<1>3. CASE /\ snap.status \in Terminal
           /\ snap' = FreshRun(base, Append(snap.archives, ArchiveOf(snap)))
  <2>1. Append(snap.archives, ArchiveOf(snap)) \in Seq(ArchivedRun)
    BY <1>1, <1>3, ArchiveTyped, AppendProperties DEF Snapshot
  <2> QED
    BY <1>1, <1>3, <2>1, FreshRunTyped
<1> QED
  BY <1>2, <1>3 DEF CreateRun

\* record-findings leaves a document.
LEMMA RecordFindingsTyped ==
    ASSUME TypeOK, NEW severe \in BOOLEAN, NEW medium \in 0 .. MaxMedium,
           NEW a \in Artifacts, RecordFindings(severe, medium, a)
    PROVE  snap' \in Snapshot
<1> DEFINE report == [severe |-> severe, medium |-> medium,
                      ev |-> Evidence(a), commit |-> tree.commit]
<1>1. EnvTyped /\ snap \in Snapshot
  BY DEF TypeOK, EnvTyped
<1>2. report \in FindingSet
  BY <1>1, EvidenceTyped DEF RecordFindings, FindingSet, EnvTyped
<1>3. snap' = [snap EXCEPT !.findings = report, !.commit = tree.commit]
  BY DEF RecordFindings
<1>4. tree.commit \in Commits
  BY <1>1 DEF EnvTyped
<1> HIDE DEF report
<1> QED
  BY <1>1, <1>2, <1>3, <1>4 DEF Snapshot

\* close-gate and not-applicable leave a document.
LEMMA TransitionTyped ==
    ASSUME TypeOK, NEW g \in Gates, NEW a \in Artifacts,
           CloseGate(g, a) \/ NotApplicable(g, a)
    PROVE  snap' \in Snapshot
<1>1. EnvTyped /\ snap \in Snapshot /\ Usable(a)
  BY DEF TypeOK, EnvTyped, CloseGate, NotApplicable
<1>2. PICK status \in {"passed", "not-applicable"} :
         snap' = Advance(snap, Entry(g, status, Evidence(a), {}))
  BY DEF CloseGate, NotApplicable
<1>3. Entry(g, status, Evidence(a), {}) \in GateEntry
  BY <1>1, EvidenceTyped, EntryTyped DEF PositionStatuses
<1> QED
  BY <1>1, <1>2, <1>3, AdvanceTyped

\* accept-risk leaves a document.
LEMMA AcceptRiskTyped ==
    ASSUME TypeOK, NEW g \in Gates, NEW f \in Findings, NEW a \in Artifacts,
           AcceptRisk(g, f, a)
    PROVE  snap' \in Snapshot
<1> DEFINE recorded == AddRisk(snap, RiskRecord(snap, g, f, a))
<1>1. EnvTyped /\ snap \in Snapshot
  BY DEF TypeOK, EnvTyped
<1>2. snap.findings \in FindingSet
  BY ReportTyped DEF AcceptRisk, ReadyForTransition
<1>3. RiskRecord(snap, g, f, a) \in Risk
  BY <1>1, <1>2, RiskRecordTyped DEF AcceptRisk
<1>4. recorded \in Snapshot
  BY <1>1, <1>3, AddRiskTyped
<1>5. \/ snap' = Advance(recorded, Entry(g, "accepted-risk", None, RiskIds(recorded, g)))
      \/ snap' = recorded
  BY DEF AcceptRisk
<1> HIDE DEF recorded
<1>6. Entry(g, "accepted-risk", None, RiskIds(recorded, g)) \in GateEntry
  BY <1>1, <1>4, RiskIdsTyped, EntryTyped DEF PositionStatuses
<1> QED
  BY <1>1, <1>4, <1>5, <1>6, AdvanceTyped

\* What a refresh leaves of the document, and how the result is made from it.
LEMMA RefreshRiskSteps ==
    ASSUME TypeOK, NEW g \in Gates, NEW f \in Findings, NEW old \in Findings,
           NEW a \in Artifacts, RefreshRisk(g, f, old, a)
    PROVE  /\ Usable(a)
           /\ snap.findings \in FindingSet
           /\ \E k \in DOMAIN snap.history, gone \in SUBSET Live(snap) :
                 \/ snap' = Clear(Retire(snap, gone), k, a)
                 \/ /\ snap' = Rebind(AddRisk(Retire(snap, gone),
                                              RiskRecord(Retire(snap, gone), g, f, a)), k)
                    /\ snap.findings.medium >= 1
<1>1. snap.findings \in FindingSet
  BY ReportTyped DEF RefreshRisk
<1>2. PICK k \in AcceptedEntries(snap) :
         LET gone == StaleRisks(snap, g) \cup Superseded(snap, g, old)
             kept == Cardinality(RisksAt(snap, g) \ gone)
             left == Retire(snap, gone)
         IN  \/ snap' = Clear(left, k, a)
             \/ /\ kept < snap.findings.medium
                /\ snap' = Rebind(AddRisk(left, RiskRecord(left, g, f, a)), k)
  <2>1. \A gone : RiskRecord(Retire(snap, gone), g, f, a) = RiskRecord(snap, g, f, a)
    BY DEF RiskRecord, Retire, TypeOK, Snapshot
  <2> QED
    BY <2>1 DEF RefreshRisk
<1> DEFINE gone == StaleRisks(snap, g) \cup Superseded(snap, g, old)
<1>3. gone \in SUBSET Live(snap) /\ k \in DOMAIN snap.history
  BY DEF StaleRisks, Superseded, RisksAt, AcceptedEntries
<1>4. Cardinality(RisksAt(snap, g) \ gone) \in Nat
  BY FiniteSlots DEF RisksAt, Live
<1>5. snap.findings.medium \in Nat
  BY <1>1 DEF FindingSet
<1> QED
  BY <1>1, <1>2, <1>3, <1>4, <1>5 DEF RefreshRisk

\* accept-risk --refresh leaves a document with the same gates, stops and archives.
LEMMA RefreshRiskTyped ==
    ASSUME TypeOK, NEW g \in Gates, NEW f \in Findings, NEW old \in Findings,
           NEW a \in Artifacts, RefreshRisk(g, f, old, a)
    PROVE  /\ snap' \in Snapshot
           /\ Len(snap'.history) = Len(snap.history)
           /\ \A j \in DOMAIN snap.history :
                 /\ snap'.history[j].gate = snap.history[j].gate
                 /\ snap'.history[j].status = snap.history[j].status
           /\ snap'.stops = snap.stops
           /\ snap'.archives = snap.archives
           /\ snap'.base = snap.base
           /\ snap'.policy = snap.policy
           /\ snap'.status = snap.status
           /\ snap'.stage = snap.stage
<1>1. EnvTyped /\ snap \in Snapshot
  BY DEF TypeOK, EnvTyped
<1>2. PICK k \in DOMAIN snap.history, gone \in SUBSET Live(snap) :
         \/ snap' = Clear(Retire(snap, gone), k, a)
         \/ /\ snap' = Rebind(AddRisk(Retire(snap, gone),
                                      RiskRecord(Retire(snap, gone), g, f, a)), k)
            /\ snap.findings.medium >= 1
  BY RefreshRiskSteps
<1>3. Usable(a) /\ snap.findings \in FindingSet
  BY RefreshRiskSteps
<1> DEFINE left == Retire(snap, gone)
<1>4. /\ left \in Snapshot
      /\ left.history = snap.history /\ left.stops = snap.stops
      /\ left.archives = snap.archives /\ left.base = snap.base
      /\ left.policy = snap.policy
      /\ left.status = snap.status /\ left.stage = snap.stage
      /\ left.findings = snap.findings
  BY <1>1, RetireTyped
<1> HIDE DEF left
<1>5. CASE snap' = Clear(left, k, a)
  BY <1>1, <1>3, <1>4, <1>5, ClearTyped
<1>6. CASE /\ snap' = Rebind(AddRisk(left, RiskRecord(left, g, f, a)), k)
           /\ snap.findings.medium >= 1
  <2> DEFINE added == AddRisk(left, RiskRecord(left, g, f, a))
  <2>1. RiskRecord(left, g, f, a) \in Risk
    BY <1>1, <1>3, <1>4, <1>6, RiskRecordTyped
  <2>2. /\ added \in Snapshot
        /\ added.history = snap.history /\ added.stops = snap.stops
        /\ added.archives = snap.archives /\ added.base = snap.base
        /\ added.policy = snap.policy
        /\ added.status = snap.status /\ added.stage = snap.stage
    BY <1>1, <1>4, <2>1, AddRiskTyped
  <2> HIDE DEF added
  <2>3. snap' = Rebind(added, k)
    BY <1>6 DEF added
  <2> QED
    BY <1>1, <2>2, <2>3, RebindTyped
<1> QED
  BY <1>2, <1>5, <1>6 DEF left

\* A requested human stop leaves a document.
LEMMA PauseTyped ==
    ASSUME TypeOK, PauseForHuman
    PROVE  snap' \in Snapshot
<1> DEFINE stop == [status |-> "pending", ev |-> None]
           more == Append(snap.stops, stop)
<1>1. stop \in HumanStop
  BY DEF HumanStop
<1>2. more \in Seq(HumanStop)
  BY <1>1, AppendProperties DEF TypeOK, Snapshot
<1>3. snap' = [snap EXCEPT !.stops = more, !.commit = tree.commit]
  BY DEF PauseForHuman
<1> HIDE DEF more
<1> QED
  BY <1>2, <1>3 DEF TypeOK, Snapshot

\* A resolved human stop leaves a document.
LEMMA ResolveTyped ==
    ASSUME TypeOK, NEW k \in 1 .. MaxStops, NEW decision \in {"approved", "rejected"},
           NEW ev \in EvidenceRef \cup {None}, ResolveHumanStop(k, decision, ev)
    PROVE  snap' \in Snapshot
<1> DEFINE stop == [status |-> decision, ev |-> ev]
           stops == [snap.stops EXCEPT ![k] = stop]
<1>1. stop \in HumanStop
  BY DEF HumanStop
<1>2. snap.stops \in Seq(HumanStop) /\ k \in 1 .. Len(snap.stops)
  BY LenProperties DEF TypeOK, Snapshot, ResolveHumanStop
<1>3. stops \in Seq(HumanStop)
  BY <1>1, <1>2, ExceptSeq
<1>4. snap' = [snap EXCEPT !.stops = stops, !.commit = tree.commit]
  BY DEF ResolveHumanStop, Resolution
<1> HIDE DEF stops
<1> QED
  BY <1>3, <1>4 DEF TypeOK, Snapshot

\* complete and abort leave a document.
LEMMA EndTyped ==
    ASSUME TypeOK, Complete \/ Abort
    PROVE  snap' \in Snapshot
<1>1. PICK status \in Terminal :
         snap' = [snap EXCEPT !.status = status, !.stage = 0, !.commit = tree.commit]
  BY DEF Complete, Abort, Terminal
<1>2. 0 \in 0 .. Ready
  BY DEF Ready
<1> QED
  BY <1>1, <1>2 DEF TypeOK, Snapshot

\* The document and its surroundings keep their types, for every value of the constants.
THEOREM PipelineLedgerTyped == Spec => []TypeOK
<1>1. Init => TypeOK
  <2> SUFFICES ASSUME Init PROVE TypeOK
    OBVIOUS
  <2>1. snap \in Snapshot
    BY NoRunTyped DEF Init
  <2> QED
    BY <2>1 DEF Init, TypeOK
<1>2. TypeOK /\ [Next]_vars => TypeOK'
  <2> SUFFICES ASSUME TypeOK, [Next]_vars PROVE TypeOK'
    OBVIOUS
  <2> USE DEF env
  <2>1. CASE Start
    <3>1. 0 \in 0 .. NumGates - 1
      OBVIOUS
    <3>2. snap' \in Snapshot
      BY <2>1, <3>1, CreateRunTyped DEF Start
    <3> QED
      BY <2>1, <3>2 DEF Start, CreateRun, TypeOK
  <2>2. ASSUME NEW g \in Gates, Adopt(g) PROVE TypeOK'
    <3>1. g - 1 \in 0 .. NumGates - 1
      BY DEF Gates
    <3>2. snap' \in Snapshot
      BY <2>2, <3>1, CreateRunTyped DEF Adopt
    <3> QED
      BY <2>2, <3>2 DEF Adopt, CreateRun, TypeOK
  <2>3. CASE Report
    BY <2>3, RecordFindingsTyped DEF Report, RecordFindings, TypeOK
  <2>4. CASE Transition
    BY <2>4, TransitionTyped DEF Transition, CloseGate, NotApplicable, TypeOK
  <2>5. CASE Acceptance
    <3>1. PICK g \in Gates, f \in Findings, a \in Artifacts :
             \/ AcceptRisk(g, f, a)
             \/ \E old \in Findings : RefreshRisk(g, f, old, a)
      BY <2>5 DEF Acceptance
    <3>2. snap' \in Snapshot
      BY <3>1, AcceptRiskTyped, RefreshRiskTyped
    <3>3. UNCHANGED env
      BY <3>1 DEF AcceptRisk, RefreshRisk
    <3> QED
      BY <3>2, <3>3 DEF TypeOK
  <2>6. CASE PauseForHuman
    BY <2>6, PauseTyped DEF PauseForHuman, TypeOK
  <2>7. CASE Approve
    BY <2>7, ResolveTyped, EvidenceTyped, EnvOfTypeOK DEF Approve, ResolveHumanStop, TypeOK
  <2>8. CASE Reject
    BY <2>8, ResolveTyped DEF Reject, ResolveHumanStop, TypeOK
  <2>9. CASE Complete \/ Abort
    BY <2>9, EndTyped DEF Complete, Abort, TypeOK
  <2>10. CASE Environment
    <3>1. ASSUME NEW t \in [branch : Branches, commit : Commits], MoveHead(t) PROVE TypeOK'
      BY <3>1 DEF MoveHead, TypeOK
    <3>2. ASSUME NEW a \in Artifacts, NEW v \in Versions \cup {None}, EditEvidence(a, v)
          PROVE  TypeOK'
      BY <3>2 DEF EditEvidence, TypeOK
    <3>3. ASSUME NEW p \in Policies, ChangePolicy(p) PROVE TypeOK'
      BY <3>3 DEF ChangePolicy, TypeOK
    <3> QED
      BY <2>10, <3>1, <3>2, <3>3 DEF Environment
  <2>11. CASE UNCHANGED vars
    BY <2>11 DEF vars, TypeOK
  <2>12. CASE Asking
    BY <2>12 DEF Asking, AskNotApplicable, GiveUpNotApplicable, TypeOK
  <2> QED
    BY <2>1, <2>2, <2>3, <2>4, <2>5, <2>6, <2>7, <2>8, <2>9, <2>10, <2>11, <2>12 DEF Next
<1> QED
  BY <1>1, <1>2, PTL DEF Spec

---------------------------------------------------------------------------
(* The gates are resolved in order.                                        *)

\* What the order of the gates depends on is as it was.
SameLedger == /\ Len(snap'.history) = Len(snap.history)
              /\ \A j \in DOMAIN snap.history :
                    /\ snap'.history[j].gate = snap.history[j].gate
                    /\ snap'.history[j].status = snap.history[j].status
              /\ snap'.base = snap.base
              /\ snap'.policy = snap.policy
              /\ snap'.status = snap.status
              /\ snap'.stage = snap.stage
              /\ snap'.archives = snap.archives

\* One entry more, for the gate after the last.
Resolves(entry) == /\ entry \in GateEntry
                   /\ \A k \in DOMAIN snap.history : SkipAllowed(snap, k)
                   /\ NextInOrder(snap, entry.gate)
                   /\ snap.status = "active" /\ ~Paused(snap)
                   /\ snap'.history = Append(snap.history, entry)
                   /\ snap'.base = snap.base
                   /\ snap'.policy = snap.policy
                   /\ snap'.status = "active"
                   /\ snap'.stage = entry.gate + 1
                   /\ snap'.archives = snap.archives
                   /\ snap'.stops = snap.stops

\* A step that changes no gate keeps the order.
LEMMA SameLedgerInOrder ==
    ASSUME TypeOK, TypeOK', LedgerInOrder, SameLedger
    PROVE  LedgerInOrder'
<1>1. DOMAIN snap.history = 1 .. Len(snap.history)
      /\ DOMAIN snap'.history = 1 .. Len(snap'.history)
  BY LenProperties DEF TypeOK, Snapshot
<1> QED
  BY <1>1 DEF LedgerInOrder, SameLedger

\* The gate after the furthest entry is the one at place base + length + 1.
LEMMA NextPlace ==
    ASSUME TypeOK, LedgerInOrder, NEW g, NextInOrder(snap, g)
    PROVE  g = snap.base + Len(snap.history) + 1
<1>1. /\ DOMAIN snap.history = 1 .. Len(snap.history) /\ Len(snap.history) \in Nat
      /\ snap.base \in Nat
  BY LenProperties DEF TypeOK, Snapshot
<1>2. CASE snap.history = <<>>
  BY <1>1, <1>2, EmptySeq DEF NextInOrder, Position
<1>3. CASE snap.history # <<>>
  <2>1. Len(snap.history) \in DOMAIN snap.history
    BY <1>1, <1>3, EmptySeq DEF TypeOK, Snapshot
  <2> QED
    BY <1>1, <1>3, <2>1 DEF NextInOrder, Position, LedgerInOrder
<1> QED
  BY <1>2, <1>3

\* A step that resolves the next gate keeps the order.
LEMMA ResolvesInOrder ==
    ASSUME TypeOK, LedgerInOrder, NEW entry, Resolves(entry)
    PROVE  LedgerInOrder'
<1>1. /\ snap.history \in Seq(GateEntry) /\ DOMAIN snap.history = 1 .. Len(snap.history)
      /\ Len(snap.history) \in Nat /\ snap.base \in Nat
  BY LenProperties DEF TypeOK, Snapshot
<1>2. /\ snap'.history \in Seq(GateEntry)
      /\ Len(snap'.history) = Len(snap.history) + 1
      /\ \A i \in 1 .. Len(snap.history) : snap'.history[i] = snap.history[i]
      /\ snap'.history[Len(snap.history) + 1] = entry
  BY <1>1, AppendProperties DEF Resolves
<1>3. DOMAIN snap'.history = 1 .. Len(snap.history) + 1
  BY <1>2, LenProperties
<1>4. /\ entry.gate = snap.base + Len(snap.history) + 1
      /\ entry.gate <= NumGates
  BY NextPlace DEF Resolves, GateEntry, Gates
<1>5. snap'.base = snap.base /\ snap'.stage = entry.gate + 1
  BY DEF Resolves
<1>6. ASSUME NEW k \in DOMAIN snap'.history
      PROVE  snap'.history[k].gate = snap'.base + k
  <2>1. CASE k = Len(snap.history) + 1
    <3>1. snap'.history[k] = entry
      BY <1>2, <2>1
    <3>2. entry.gate = snap.base + k
      <4>1. Len(snap.history) \in Nat /\ snap.base \in Nat
        BY <1>1
      <4> QED
        BY <1>4, <2>1, <4>1
    <3> QED
      BY <1>5, <3>1, <3>2
  <2>2. CASE k \in 1 .. Len(snap.history)
    <3>1. snap'.history[k] = snap.history[k]
      BY <1>2, <2>2
    <3>2. snap.history[k].gate = snap.base + k
      BY <1>1, <2>2 DEF LedgerInOrder
    <3> QED
      BY <1>5, <3>1, <3>2
  <2> QED
    BY <1>1, <1>3, <1>6, <2>1, <2>2
<1>7. /\ snap'.base + Len(snap'.history) <= NumGates
      /\ snap'.stage = snap'.base + Len(snap'.history) + 1
  <2>1. Len(snap'.history) = Len(snap.history) + 1
    BY <1>2
  <2> QED
    BY <1>1, <1>4, <1>5, <2>1
<1> QED
  BY <1>6, <1>7 DEF LedgerInOrder

\* A fresh run starts at the gate after the historical ones.
LEMMA FreshInOrder ==
    ASSUME NEW base \in 0 .. NumGates - 1, NEW archives \in Seq(ArchivedRun), EnvTyped,
           snap' = FreshRun(base, archives)
    PROVE  LedgerInOrder'
<1>1. Len(<<>>) = 0 /\ DOMAIN <<>> = {}
  OBVIOUS
<1>2. /\ snap'.base = base /\ snap'.stage = base + 1 /\ snap'.history = <<>>
  BY FreshRunTyped
<1>3. snap'.base + 0 <= NumGates /\ base + 0 + 1 = base + 1
  BY <1>2
<1> QED
  BY <1>1, <1>2, <1>3 DEF LedgerInOrder

---------------------------------------------------------------------------
(* What each operation does to the order: nothing, one entry, or a new run. *)

Keeps == SameLedger /\ snap'.stops = snap.stops

\* record-findings resolves nothing.
LEMMA RecordFindingsKeeps ==
    ASSUME TypeOK, NEW severe \in BOOLEAN, NEW medium \in 0 .. MaxMedium,
           NEW a \in Artifacts, RecordFindings(severe, medium, a)
    PROVE  Keeps
BY DEF RecordFindings, Keeps, SameLedger, TypeOK, Snapshot

\* A transition starts from a document whose skips the run's policy allows.
LEMMA ReadyAllowsSkips ==
    ASSUME ReadyForTransition(snap)
    PROVE  \A k \in DOMAIN snap.history : SkipAllowed(snap, k)
BY DEF ReadyForTransition, Valid, Coherent, EntryValid, ActiveRun, SkipAllowed

\* close-gate and not-applicable resolve the next gate of a run that is not paused.
LEMMA TransitionResolves ==
    ASSUME TypeOK, NEW g \in Gates, NEW a \in Artifacts,
           CloseGate(g, a) \/ NotApplicable(g, a)
    PROVE  \E entry : Resolves(entry)
<1>1. EnvTyped /\ snap \in Snapshot /\ Usable(a)
  BY DEF TypeOK, EnvTyped, CloseGate, NotApplicable
<1>2. PICK status \in {"passed", "not-applicable"} :
         snap' = Advance(snap, Entry(g, status, Evidence(a), {}))
  BY DEF CloseGate, NotApplicable
<1> DEFINE entry == Entry(g, status, Evidence(a), {})
<1>3. entry \in GateEntry /\ entry.gate = g /\ entry.status = status
  BY <1>1, EvidenceTyped, EntryTyped DEF PositionStatuses
<1> HIDE DEF entry
<1>4. /\ NextInOrder(snap, g) /\ snap.status = "active" /\ ~Paused(snap)
      /\ snap.policy = policy
  BY DEF CloseGate, NotApplicable, ReadyForTransition, ActiveRun
<1>5. snap' = Advance(snap, entry)
  BY <1>2 DEF entry
<1>6. \A k \in DOMAIN snap.history : SkipAllowed(snap, k)
  BY ReadyAllowsSkips DEF CloseGate, NotApplicable
<1> QED
  BY <1>1, <1>3, <1>4, <1>5, <1>6, AdvanceTyped DEF Resolves

\* accept-risk resolves the next gate, or only records the acceptance.
LEMMA AcceptRiskResolvesOrKeeps ==
    ASSUME TypeOK, NEW g \in Gates, NEW f \in Findings, NEW a \in Artifacts,
           AcceptRisk(g, f, a)
    PROVE  Keeps \/ \E entry : Resolves(entry)
<1> DEFINE recorded == AddRisk(snap, RiskRecord(snap, g, f, a))
           entry == Entry(g, "accepted-risk", None, RiskIds(recorded, g))
<1>1. EnvTyped /\ snap \in Snapshot
  BY DEF TypeOK, EnvTyped
<1>2. snap.findings \in FindingSet
  BY ReportTyped DEF AcceptRisk, ReadyForTransition
<1>3. RiskRecord(snap, g, f, a) \in Risk
  BY <1>1, <1>2, RiskRecordTyped DEF AcceptRisk
<1>4. /\ recorded \in Snapshot
      /\ recorded.history = snap.history /\ recorded.stops = snap.stops
      /\ recorded.archives = snap.archives /\ recorded.base = snap.base
      /\ recorded.policy = snap.policy
      /\ recorded.status = snap.status /\ recorded.stage = snap.stage
  BY <1>1, <1>3, AddRiskTyped
<1>5. snap' = Advance(recorded, entry) \/ snap' = recorded
  BY DEF AcceptRisk
<1> HIDE DEF recorded
<1>6. entry \in GateEntry /\ entry.gate = g /\ entry.status = "accepted-risk"
  BY <1>1, <1>4, RiskIdsTyped, EntryTyped DEF PositionStatuses
<1> HIDE DEF entry
<1>7. NextInOrder(snap, g) /\ snap.status = "active" /\ ~Paused(snap)
  BY DEF AcceptRisk, ReadyForTransition, ActiveRun
<1>8. CASE snap' = recorded
  BY <1>4, <1>8 DEF Keeps, SameLedger
<1>9. CASE snap' = Advance(recorded, entry)
  <2>1. \A k \in DOMAIN snap.history : SkipAllowed(snap, k)
    BY ReadyAllowsSkips DEF AcceptRisk
  <2>2. /\ snap'.history = Append(snap.history, entry)
        /\ snap'.base = snap.base /\ snap'.policy = snap.policy
        /\ snap'.status = "active" /\ snap'.stage = entry.gate + 1
        /\ snap'.archives = snap.archives /\ snap'.stops = snap.stops
    BY <1>1, <1>4, <1>6, <1>7, <1>9, AdvanceTyped
  <2>3. NextInOrder(snap, entry.gate)
    BY <1>6, <1>7
  <2>4. Resolves(entry)
    BY <1>6, <1>7, <2>1, <2>2, <2>3 DEF Resolves
  <2> QED
    BY <2>4
<1> QED
  BY <1>5, <1>8, <1>9

\* A refresh resolves nothing.
LEMMA RefreshRiskKeeps ==
    ASSUME TypeOK, NEW g \in Gates, NEW f \in Findings, NEW old \in Findings,
           NEW a \in Artifacts, RefreshRisk(g, f, old, a)
    PROVE  Keeps
BY RefreshRiskTyped DEF Keeps, SameLedger

\* git, editors and upgrades do not write the document.
LEMMA EnvironmentKeeps ==
    ASSUME Environment \/ Asking \/ UNCHANGED vars
    PROVE  Keeps
BY DEF Environment, MoveHead, EditEvidence, ChangePolicy, Asking,
       AskNotApplicable, GiveUpNotApplicable, vars, Keeps, SameLedger

\* What start and adopt make: a fresh run, the run before it kept if there was one.
LEMMA CreateRunMakes ==
    ASSUME TypeOK, NEW base \in 0 .. NumGates - 1, CreateRun(base)
    PROVE  /\ snap'.status = "active" /\ snap'.base = base
           /\ snap'.history = <<>> /\ snap'.stops = <<>>
           /\ LedgerInOrder'
           /\ \/ snap.status = "none" /\ snap'.archives = <<>>
              \/ /\ snap.status \in Terminal
                 /\ snap'.archives = Append(snap.archives, ArchiveOf(snap))
<1>1. EnvTyped /\ snap \in Snapshot
  BY DEF TypeOK, EnvTyped
<1>2. PICK archives \in Seq(ArchivedRun) :
         /\ snap' = FreshRun(base, archives)
         /\ \/ snap.status = "none" /\ archives = <<>>
            \/ snap.status \in Terminal /\ archives = Append(snap.archives, ArchiveOf(snap))
  <2>1. CASE snap.status = "none"
    <3>1. <<>> \in Seq(ArchivedRun)
      BY EmptySeq
    <3>2. snap' = FreshRun(base, <<>>)
      BY <2>1 DEF CreateRun, Terminal
    <3> QED
      BY <2>1, <3>1, <3>2
  <2>2. CASE snap.status \in Terminal
    <3>1. Append(snap.archives, ArchiveOf(snap)) \in Seq(ArchivedRun)
      BY <1>1, <2>2, ArchiveTyped, AppendProperties DEF Snapshot
    <3>2. snap' = FreshRun(base, Append(snap.archives, ArchiveOf(snap)))
      BY <2>2 DEF CreateRun, Terminal
    <3> QED
      BY <2>2, <3>1, <3>2
  <2> QED
    BY <2>1, <2>2 DEF CreateRun
<1>3. /\ snap'.status = "active" /\ snap'.base = base
      /\ snap'.history = <<>> /\ snap'.stops = <<>>
      /\ snap'.archives = archives
  BY <1>1, <1>2, FreshRunTyped
<1>4. LedgerInOrder'
  BY <1>1, <1>2, FreshInOrder
<1> QED
  BY <1>2, <1>3, <1>4

\* Human stops and the end of a run leave the gates alone.
LEMMA StopsChange ==
    ASSUME TypeOK, NEW stops, snap' = [snap EXCEPT !.stops = stops, !.commit = tree.commit]
    PROVE  SameLedger /\ snap'.stops = stops
BY DEF TypeOK, Snapshot, SameLedger

\* Ending a run leaves its gates, stops and archives as they are.
LEMMA EndKeepsGates ==
    ASSUME TypeOK, NEW status \in Terminal,
           snap' = [snap EXCEPT !.status = status, !.stage = 0, !.commit = tree.commit]
    PROVE  /\ snap'.status = status
           /\ snap'.history = snap.history /\ snap'.base = snap.base
           /\ snap'.policy = snap.policy
           /\ snap'.stops = snap.stops /\ snap'.archives = snap.archives
BY DEF TypeOK, Snapshot

---------------------------------------------------------------------------
(* The invariant: order, a blank start, at most one pending stop.          *)

\* A step that changes no gate keeps the skips conditional.
LEMMA SameSkips ==
    ASSUME TypeOK, TypeOK', SkipsAreConditional, SameLedger
    PROVE  SkipsAreConditional'
<1>1. /\ DOMAIN snap.history = 1 .. Len(snap.history)
      /\ DOMAIN snap'.history = 1 .. Len(snap'.history)
  BY LenProperties DEF TypeOK, Snapshot
<1> QED
  BY <1>1 DEF SkipsAreConditional, SkipAllowed, SameLedger

\* A step that resolves nothing keeps the invariant.
LEMMA KeepsInvariant ==
    ASSUME TypeOK, TypeOK', LedgerInvariant, Keeps
    PROVE  LedgerInvariant'
<1>1. LedgerInOrder'
  BY SameLedgerInOrder DEF LedgerInvariant, Keeps
<1>2. BlankBeforeFirstRun'
  <2> SUFFICES ASSUME snap'.status = "none"
               PROVE  snap'.history = <<>> /\ snap'.archives = <<>>
    BY DEF BlankBeforeFirstRun
  <2>1. snap.history = <<>> /\ snap.archives = <<>>
    BY DEF LedgerInvariant, BlankBeforeFirstRun, Keeps, SameLedger
  <2>2. snap'.archives = <<>> /\ Len(snap'.history) = Len(snap.history)
    BY <2>1 DEF Keeps, SameLedger
  <2>3. Len(snap'.history) = 0
    BY <2>1, <2>2
  <2>4. snap'.history \in Seq(GateEntry)
    BY DEF TypeOK, Snapshot
  <2> QED
    BY <2>2, <2>3, <2>4, EmptySeq
<1>3. OnePendingStop'
  BY DEF LedgerInvariant, OnePendingStop, Keeps
<1>4. SkipsAreConditional'
  BY SameSkips DEF LedgerInvariant, Keeps
<1> QED
  BY <1>1, <1>2, <1>3, <1>4 DEF LedgerInvariant

\* A step that resolves the next gate keeps the invariant.
LEMMA ResolvesInvariant ==
    ASSUME TypeOK, LedgerInvariant, NEW entry, Resolves(entry)
    PROVE  LedgerInvariant'
<1>1. LedgerInOrder'
  BY ResolvesInOrder DEF LedgerInvariant
<1>2. BlankBeforeFirstRun' /\ OnePendingStop'
  BY DEF LedgerInvariant, BlankBeforeFirstRun, OnePendingStop, Resolves
<1>3. SkipsAreConditional'
  <2>1. /\ snap.history \in Seq(GateEntry) /\ Len(snap.history) \in Nat
        /\ DOMAIN snap.history = 1 .. Len(snap.history)
    BY LenProperties DEF TypeOK, Snapshot
  <2>2. /\ snap'.history \in Seq(GateEntry)
        /\ Len(snap'.history) = Len(snap.history) + 1
        /\ \A i \in 1 .. Len(snap.history) : snap'.history[i] = snap.history[i]
        /\ snap'.history[Len(snap.history) + 1] = entry
    BY <2>1, AppendProperties DEF Resolves
  <2>3. DOMAIN snap'.history = 1 .. Len(snap.history) + 1
    BY <2>2, LenProperties
  <2>4. ASSUME NEW k \in DOMAIN snap'.history, k < Len(snap'.history)
        PROVE  SkipAllowed(snap', k)
    <3>1. k \in 1 .. Len(snap.history)
      BY <2>1, <2>2, <2>3, <2>4
    <3> QED
      BY <2>1, <2>2, <3>1 DEF Resolves, SkipAllowed
  <2>5. snap'.status # "completed"
    BY DEF Resolves
  <2> QED
    BY <2>4, <2>5 DEF SkipsAreConditional, SkipAllowed
<1> QED
  BY <1>1, <1>2, <1>3 DEF LedgerInvariant

\* A fresh run satisfies the invariant.
LEMMA CreateRunInvariant ==
    ASSUME TypeOK, NEW base \in 0 .. NumGates - 1, CreateRun(base)
    PROVE  LedgerInvariant'
BY CreateRunMakes DEF LedgerInvariant, BlankBeforeFirstRun, OnePendingStop, SkipsAreConditional

\* A stop is requested only when none is pending, so at most one is.
LEMMA PauseInvariant ==
    ASSUME TypeOK, TypeOK', LedgerInvariant, PauseForHuman
    PROVE  LedgerInvariant'
<1> DEFINE stop == [status |-> "pending", ev |-> None]
<1>1. SameLedger /\ snap'.stops = Append(snap.stops, stop)
  BY StopsChange DEF PauseForHuman
<1>2. LedgerInOrder'
  BY <1>1, SameLedgerInOrder DEF LedgerInvariant
<1>3. BlankBeforeFirstRun'
  BY <1>1 DEF BlankBeforeFirstRun, SameLedger, PauseForHuman, ActiveRun
<1>4. /\ \A i \in 1 .. Len(snap.stops) : snap'.stops[i] = snap.stops[i]
      /\ DOMAIN snap'.stops = 1 .. Len(snap.stops) + 1
      /\ DOMAIN snap.stops = 1 .. Len(snap.stops)
      /\ Len(snap.stops) \in Nat
  <2>1. stop \in HumanStop /\ snap.stops \in Seq(HumanStop) /\ snap'.stops \in Seq(HumanStop)
    BY DEF HumanStop, TypeOK, Snapshot
  <2> HIDE DEF stop
  <2> QED
    BY <1>1, <2>1, AppendProperties, LenProperties
<1>5. \A i \in DOMAIN snap.stops : snap.stops[i].status # "pending"
  BY DEF PauseForHuman, Paused
<1>6. \A i \in DOMAIN snap'.stops :
         snap'.stops[i].status = "pending" => i = Len(snap.stops) + 1
  BY <1>4, <1>5
<1>7. SkipsAreConditional'
  BY <1>1, SameSkips DEF LedgerInvariant
<1> QED
  BY <1>2, <1>3, <1>6, <1>7 DEF LedgerInvariant, OnePendingStop

\* Resolving a stop changes that stop alone.
LEMMA ResolveStopChanges ==
    ASSUME TypeOK, NEW k, NEW decision \in {"approved", "rejected"}, NEW ev,
           ResolveHumanStop(k, decision, ev)
    PROVE  /\ SameLedger
           /\ snap.status = "active"
           /\ k \in DOMAIN snap.stops /\ snap.stops[k].status = "pending"
           /\ DOMAIN snap'.stops = DOMAIN snap.stops
           /\ snap'.stops[k].status = decision
           /\ \A i \in DOMAIN snap.stops : i # k => snap'.stops[i] = snap.stops[i]
<1> DEFINE stop == [status |-> decision, ev |-> ev]
<1>1. snap' = [snap EXCEPT !.stops = [snap.stops EXCEPT ![k] = stop], !.commit = tree.commit]
  BY DEF ResolveHumanStop, Resolution
<1>2. SameLedger /\ snap'.stops = [snap.stops EXCEPT ![k] = stop]
  BY <1>1, StopsChange
<1>3. /\ k \in DOMAIN snap.stops /\ snap.stops[k].status = "pending"
      /\ snap.status = "active"
  BY DEF ResolveHumanStop, ActiveRun
<1>4. snap.stops \in [1 .. Len(snap.stops) -> HumanStop]
  BY LenProperties DEF TypeOK, Snapshot
<1>5. stop.status = decision
  OBVIOUS
<1> HIDE DEF stop
<1> QED
  BY <1>2, <1>3, <1>4, <1>5

\* Resolving a stop leaves at most one pending.
LEMMA ResolveStopInvariant ==
    ASSUME TypeOK, TypeOK', LedgerInvariant, NEW k,
           NEW decision \in {"approved", "rejected"}, NEW ev,
           ResolveHumanStop(k, decision, ev)
    PROVE  LedgerInvariant'
<1>1. LedgerInOrder'
  BY ResolveStopChanges, SameLedgerInOrder DEF LedgerInvariant
<1>2. BlankBeforeFirstRun'
  BY ResolveStopChanges DEF BlankBeforeFirstRun, SameLedger
<1>3. \A i \in DOMAIN snap'.stops :
         /\ i \in DOMAIN snap.stops
         /\ snap'.stops[i].status = "pending" => snap.stops[i].status = "pending"
  BY ResolveStopChanges
<1>4. OnePendingStop'
  BY <1>3 DEF LedgerInvariant, OnePendingStop
<1>5. SkipsAreConditional'
  BY ResolveStopChanges, SameSkips DEF LedgerInvariant
<1> QED
  BY <1>1, <1>2, <1>4, <1>5 DEF LedgerInvariant

\* Ending a run keeps the invariant.
LEMMA EndInvariant ==
    ASSUME TypeOK, LedgerInvariant, Complete \/ Abort
    PROVE  LedgerInvariant'
<1>1. PICK status \in Terminal :
         snap' = [snap EXCEPT !.status = status, !.stage = 0, !.commit = tree.commit]
  BY DEF Complete, Abort, Terminal
<1>2. /\ snap'.status = status /\ snap'.history = snap.history /\ snap'.base = snap.base
      /\ snap'.policy = snap.policy
      /\ snap'.stops = snap.stops
  BY <1>1, EndKeepsGates
<1>3. snap'.status = "completed" => \A k \in DOMAIN snap.history : SkipAllowed(snap, k)
  <2>1. CASE Complete
    BY <2>1, ReadyAllowsSkips DEF Complete
  <2>2. CASE Abort
    <3>1. snap'.status = "aborted"
      BY <2>2 DEF Abort, TypeOK, Snapshot
    <3> QED
      BY <3>1
  <2> QED
    BY <2>1, <2>2
<1>4. SkipsAreConditional'
  BY <1>2, <1>3 DEF LedgerInvariant, SkipsAreConditional, SkipAllowed
<1> QED
  BY <1>2, <1>4 DEF LedgerInvariant, LedgerInOrder, BlankBeforeFirstRun, OnePendingStop,
               Terminal

\* Gates are resolved in the installed order without a gap, from the adopted
\* position on, and the stage follows; at most one human stop is pending; nothing
\* follows a skip that the policy the run was started under does not allow.
THEOREM LedgerStaysOrdered == Spec => []LedgerInvariant
<1>1. Init => LedgerInvariant
  BY DEF Init, NoRun, LedgerInvariant, LedgerInOrder, BlankBeforeFirstRun, OnePendingStop,
         SkipsAreConditional
<1>2. TypeOK /\ TypeOK' /\ LedgerInvariant /\ [Next]_vars => LedgerInvariant'
  <2> SUFFICES ASSUME TypeOK, TypeOK', LedgerInvariant, [Next]_vars PROVE LedgerInvariant'
    OBVIOUS
  <2>1. CASE Start
    BY <2>1, CreateRunInvariant, 0 \in 0 .. NumGates - 1 DEF Start
  <2>2. ASSUME NEW g \in Gates, Adopt(g) PROVE LedgerInvariant'
    BY <2>2, CreateRunInvariant, g - 1 \in 0 .. NumGates - 1 DEF Adopt, Gates
  <2>3. CASE Report
    BY <2>3, RecordFindingsKeeps, KeepsInvariant DEF Report
  <2>4. CASE Transition
    BY <2>4, TransitionResolves, ResolvesInvariant DEF Transition
  <2>5. CASE Acceptance
    <3>1. PICK g \in Gates, f \in Findings, a \in Artifacts :
             \/ AcceptRisk(g, f, a)
             \/ \E old \in Findings : RefreshRisk(g, f, old, a)
      BY <2>5 DEF Acceptance
    <3>2. CASE AcceptRisk(g, f, a)
      BY <3>2, AcceptRiskResolvesOrKeeps, KeepsInvariant, ResolvesInvariant
    <3>3. CASE \E old \in Findings : RefreshRisk(g, f, old, a)
      BY <3>3, RefreshRiskKeeps, KeepsInvariant
    <3> QED
      BY <3>1, <3>2, <3>3
  <2>6. CASE PauseForHuman
    BY <2>6, PauseInvariant
  <2>7. CASE Approve \/ Reject
    BY <2>7, ResolveStopInvariant DEF Approve, Reject
  <2>8. CASE Complete \/ Abort
    BY <2>8, EndInvariant
  <2>9. CASE Environment \/ Asking \/ UNCHANGED vars
    BY <2>9, EnvironmentKeeps, KeepsInvariant
  <2> QED
    BY <2>1, <2>2, <2>3, <2>4, <2>5, <2>6, <2>7, <2>8, <2>9 DEF Next
<1> QED
  BY <1>1, <1>2, PipelineLedgerTyped, PTL DEF Spec

---------------------------------------------------------------------------
(* The acceptances of a document.                                          *)

\* Every acceptance was made while its gate held fewer acceptances than it states
\* open Medium findings.
Counted(s) ==
    \A i \in Live(s) : Cardinality(RisksAt(s, s.risks[i].gate)) <= s.risks[i].medium

\* An accepted-risk entry lists the acceptances its gate holds.
Identified(s) ==
    \A k \in AcceptedEntries(s) : s.history[k].ids = RiskIds(s, s.history[k].gate)

\* An approval names the evidence it was given on.
Evidenced(s) ==
    \A k \in DOMAIN s.stops : s.stops[k].status = "approved" => s.stops[k].ev # None

\* Nothing is written before the first run.
Blank(s) == s.status = "none" => s = NoRun

AcceptancesHold(s) == Counted(s) /\ Identified(s) /\ Evidenced(s) /\ Blank(s)

\* No gate holds more acceptances than a report can state Medium findings.
LEMMA FewAtAGate ==
    ASSUME NEW s \in Snapshot, Counted(s), NEW g \in Gates
    PROVE  Cardinality(RisksAt(s, g)) \in 0 .. MaxMedium
<1>1. RisksAt(s, g) \in SUBSET Slots
  BY DEF RisksAt, Live
<1>2. Cardinality(RisksAt(s, g)) \in Nat
  BY <1>1, FiniteSlots
<1>3. CASE RisksAt(s, g) = {}
  BY <1>3, FS_EmptySet
<1>4. CASE RisksAt(s, g) # {}
  <2>1. PICK i \in RisksAt(s, g) : TRUE
    BY <1>4
  <2>2. i \in Live(s) /\ s.risks[i].gate = g
    BY DEF RisksAt
  <2>3. s.risks[i].medium \in 1 .. MaxMedium
    BY <2>2, LiveTyped DEF Risk
  <2> QED
    BY <1>2, <2>2, <2>3 DEF Counted
<1> QED
  BY <1>3, <1>4

\* The first n numbers are n.
LEMMA UpTo ==
    ASSUME NEW n \in Nat
    PROVE  IsFiniteSet(1 .. n) /\ Cardinality(1 .. n) = n
BY 1 \in Int /\ n \in Int, FS_Interval

\* A gate with room for an acceptance leaves a place for it in accepted_risks:
\* places and acceptances are counted gate by gate.
LEMMA APlaceIsFree ==
    ASSUME NEW s \in Snapshot, NEW g \in Gates,
           \A h \in Gates : Cardinality(RisksAt(s, h)) \in 0 .. MaxMedium,
           Cardinality(RisksAt(s, g)) < MaxMedium
    PROVE  \E i \in Slots : s.risks[i] = None
<1> DEFINE C(h) == Cardinality(RisksAt(s, h))
           Order == [h \in Gates |-> CHOOSE F : F \in Bijection(RisksAt(s, h), 1 .. C(h))]
<1>1. \A h : RisksAt(s, h) \in SUBSET Slots
  BY DEF RisksAt, Live
<1>2. ASSUME NEW h \in Gates
      PROVE  Order[h] \in Bijection(RisksAt(s, h), 1 .. C(h))
  <2>1. IsFiniteSet(RisksAt(s, h))
    BY <1>1, FiniteSlots
  <2>2. ExistsBijection(1 .. C(h), RisksAt(s, h))
    BY <2>1, FS_CardinalityType
  <2>3. ExistsBijection(RisksAt(s, h), 1 .. C(h))
    BY <2>2, Fun_ExistsBijSymmetric
  <2> QED
    BY <2>3, Fun_ExistsBij
<1>3. ASSUME NEW h \in Gates
      PROVE  /\ \A i \in RisksAt(s, h) : Order[h][i] \in 1 .. C(h)
             /\ \A i, j \in RisksAt(s, h) : Order[h][i] = Order[h][j] => i = j
  BY <1>2, Fun_BijectionProperties
<1> HIDE DEF Order
<1> DEFINE Places == (Gates \X (1 .. MaxMedium)) \ {<<g, MaxMedium>>}
           Place == [i \in Slots |-> <<s.risks[i].gate, Order[s.risks[i].gate][i]>>]
<1> SUFFICES ASSUME \A i \in Slots : s.risks[i] # None PROVE FALSE
  OBVIOUS
<1>4. Live(s) = Slots
  BY DEF Live
<1>5. ASSUME NEW i \in Slots
      PROVE  s.risks[i].gate \in Gates /\ i \in RisksAt(s, s.risks[i].gate)
  BY <1>4, LiveTyped DEF Risk, RisksAt
<1>6. ASSUME NEW i \in Slots PROVE Place[i] \in Places
  <2>1. Order[s.risks[i].gate][i] \in 1 .. C(s.risks[i].gate)
    BY <1>3, <1>5
  <2>2. C(s.risks[i].gate) \in 0 .. MaxMedium
    BY <1>5
  <2>3. s.risks[i].gate = g => C(s.risks[i].gate) < MaxMedium
    OBVIOUS
  <2> HIDE DEF C
  <2>4. Order[s.risks[i].gate][i] \in 1 .. MaxMedium
    BY <2>1, <2>2
  <2>5. s.risks[i].gate = g => Order[s.risks[i].gate][i] # MaxMedium
    BY <2>1, <2>2, <2>3
  <2> QED
    BY <1>5, <2>4, <2>5
<1>7. ASSUME NEW i \in Slots, NEW j \in Slots, Place[i] = Place[j] PROVE i = j
  BY <1>3, <1>5, <1>7
<1>8. Place \in Injection(Slots, Places)
  <2>1. Place \in [Slots -> Places]
    BY <1>6
  <2> HIDE DEF Place, Places
  <2> QED
    BY <1>7, <2>1, Fun_IsInj
<1> DEFINE n == NumGates * MaxMedium
<1>9. n \in Nat
  OBVIOUS
<1>10. IsFiniteSet(Places) /\ Cardinality(Places) = n - 1
  <2>1. IsFiniteSet(Gates) /\ Cardinality(Gates) = NumGates
    BY NumGates \in Nat, UpTo DEF Gates
  <2>2. IsFiniteSet(1 .. MaxMedium) /\ Cardinality(1 .. MaxMedium) = MaxMedium
    BY UpTo
  <2>3. /\ IsFiniteSet(Gates \X (1 .. MaxMedium))
        /\ Cardinality(Gates \X (1 .. MaxMedium)) = n
    BY <2>1, <2>2, FS_Product
  <2>4. MaxMedium \in 1 .. MaxMedium
    BY <1>1, FiniteSlots
  <2>5. <<g, MaxMedium>> \in Gates \X (1 .. MaxMedium)
    BY <2>4
  <2> HIDE DEF n
  <2> QED
    BY <2>3, <2>5, FS_RemoveElement
<1>11. Cardinality(Slots) = n
  <2>1. Slots = 1 .. n
    BY DEF Slots
  <2> HIDE DEF n
  <2> QED
    BY <1>9, <2>1, UpTo
<1> HIDE DEF Place, Places, n
<1>12. Cardinality(Slots) <= Cardinality(Places)
  BY <1>8, <1>10, FS_Injection
<1> QED
  BY <1>9, <1>10, <1>11, <1>12

\* The acceptances of t are in s, at the same places.
Within(t, s) == Live(t) \subseteq Live(s) /\ \A i \in Live(t) : t.risks[i] = s.risks[i]

\* The other gates hold the same acceptances.
SameElsewhere(s, t, g) ==
    \A h : h # g => RisksAt(t, h) = RisksAt(s, h) /\ RiskIds(t, h) = RiskIds(s, h)

\* t is s with acceptance r in a place that was free.
Adds(s, t, r) == \E e \in Slots : /\ s.risks[e] = None
                                  /\ t.risks = [s.risks EXCEPT ![e] = r]

\* Where a gate has room, accept-risk overwrites no acceptance.
LEMMA AddRiskAdds ==
    ASSUME EnvTyped, NEW s \in Snapshot, NEW r \in Risk, Counted(s),
           Cardinality(RisksAt(s, r.gate)) < MaxMedium
    PROVE  Adds(s, AddRisk(s, r), r) /\ AddRisk(s, r).retired = s.retired
<1>1. r.gate \in Gates
  BY DEF Risk
<1>2. \E i \in Slots : s.risks[i] = None
  BY <1>1, FewAtAGate, APlaceIsFree
<1> DEFINE e == CHOOSE i \in Slots : s.risks[i] = None
<1>3. e \in Slots /\ s.risks[e] = None
  BY <1>2
<1>4. AddRisk(s, r) = [s EXCEPT !.risks = [s.risks EXCEPT ![e] = r], !.commit = tree.commit]
  BY DEF AddRisk
<1> HIDE DEF e
<1>5. /\ AddRisk(s, r).risks = [s.risks EXCEPT ![e] = r]
      /\ AddRisk(s, r).retired = s.retired
  BY <1>4 DEF Snapshot
<1> QED
  BY <1>3, <1>5 DEF Adds

\* One acceptance more at its gate, none changed at the others.
LEMMA AddedAtOneGate ==
    ASSUME NEW s \in Snapshot, NEW t \in Snapshot, NEW r \in Risk, Adds(s, t, r)
    PROVE  /\ Cardinality(RisksAt(t, r.gate)) = Cardinality(RisksAt(s, r.gate)) + 1
           /\ SameElsewhere(s, t, r.gate)
           /\ Within(s, t)
           /\ \A i \in Live(t) : i \in Live(s) \/ t.risks[i] = r
<1>1. PICK e \in Slots : s.risks[e] = None /\ t.risks = [s.risks EXCEPT ![e] = r]
  BY DEF Adds
<1>2. s.risks \in [Slots -> Risk \cup {None}]
  BY DEF Snapshot
<1>3. r # None
  BY NoRiskAssumption
<1>4. t.risks[e] = r /\ \A i \in Slots : i # e => t.risks[i] = s.risks[i]
  BY <1>1, <1>2
<1>5. Live(t) = Live(s) \cup {e} /\ e \notin Live(s)
  BY <1>1, <1>3, <1>4 DEF Live
<1>6. RisksAt(t, r.gate) = RisksAt(s, r.gate) \cup {e} /\ e \notin RisksAt(s, r.gate)
  BY <1>4, <1>5 DEF RisksAt, Live
<1>7. IsFiniteSet(RisksAt(s, r.gate))
  BY FiniteSlots DEF RisksAt, Live
<1>8. Cardinality(RisksAt(t, r.gate)) = Cardinality(RisksAt(s, r.gate)) + 1
  BY <1>6, <1>7, FS_AddElement
<1>9. ASSUME NEW h, h # r.gate
      PROVE  RisksAt(t, h) = RisksAt(s, h) /\ RiskIds(t, h) = RiskIds(s, h)
  <2>1. RisksAt(t, h) = RisksAt(s, h)
    BY <1>4, <1>5, <1>9 DEF RisksAt, Live
  <2>2. \A i \in RisksAt(s, h) : t.risks[i] = s.risks[i]
    BY <1>4, <1>5 DEF RisksAt, Live
  <2> QED
    BY <2>1, <2>2 DEF RiskIds
<1>10. Within(s, t)
  BY <1>4, <1>5 DEF Within, Live
<1> QED
  BY <1>4, <1>5, <1>8, <1>9, <1>10 DEF Live, SameElsewhere

\* A gate that gains an acceptance beside others of the same report stays counted.
LEMMA AddedStaysCounted ==
    ASSUME NEW s \in Snapshot, NEW t \in Snapshot, NEW r \in Risk, Adds(s, t, r),
           Counted(s), Cardinality(RisksAt(s, r.gate)) < r.medium,
           \A i \in RisksAt(s, r.gate) : s.risks[i].medium = r.medium
    PROVE  Counted(t)
<1>1. Cardinality(RisksAt(s, r.gate)) \in Nat /\ r.medium \in Nat
  BY FiniteSlots DEF RisksAt, Live, Risk
<1>2. Cardinality(RisksAt(t, r.gate)) <= r.medium
  BY <1>1, AddedAtOneGate
<1>3. ASSUME NEW i \in Live(t)
      PROVE  Cardinality(RisksAt(t, t.risks[i].gate)) <= t.risks[i].medium
  <2>1. CASE i \notin Live(s)
    BY <1>2, <2>1, AddedAtOneGate
  <2>2. CASE i \in Live(s) /\ s.risks[i].gate = r.gate
    <3>1. i \in RisksAt(s, r.gate) /\ t.risks[i] = s.risks[i]
      BY <2>2, AddedAtOneGate DEF RisksAt, Within
    <3> QED
      BY <1>2, <2>2, <3>1
  <2>3. CASE i \in Live(s) /\ s.risks[i].gate # r.gate
    BY <2>3, AddedAtOneGate DEF Counted, Within, SameElsewhere
  <2> QED
    BY <2>1, <2>2, <2>3
<1> QED
  BY <1>3 DEF Counted

\* Retiring acceptances of one gate takes them from that gate, to the audit history.
LEMMA RetiredAtOneGate ==
    ASSUME EnvTyped, NEW s \in Snapshot, NEW g, NEW gone \in SUBSET RisksAt(s, g)
    PROVE  /\ RisksAt(Retire(s, gone), g) = RisksAt(s, g) \ gone
           /\ SameElsewhere(s, Retire(s, gone), g)
           /\ Within(Retire(s, gone), s)
           /\ AcceptancesOf(Retire(s, gone)) = AcceptancesOf(s)
           /\ s.retired \subseteq Retire(s, gone).retired
<1> DEFINE t == Retire(s, gone)
<1>1. /\ t.risks = [i \in Slots |-> IF i \in gone THEN None ELSE s.risks[i]]
      /\ t.retired = s.retired \cup {s.risks[i] : i \in gone}
  BY DEF Retire, Snapshot
<1>2. gone \subseteq Live(s) /\ Live(s) \subseteq Slots
  BY DEF RisksAt, Live
<1> HIDE DEF t
<1>3. Live(t) = Live(s) \ gone /\ \A i \in Live(t) : t.risks[i] = s.risks[i]
  BY <1>1, <1>2 DEF Live
<1>4. RisksAt(t, g) = RisksAt(s, g) \ gone
  BY <1>3 DEF RisksAt
<1>5. ASSUME NEW h, h # g
      PROVE  RisksAt(t, h) = RisksAt(s, h) /\ RiskIds(t, h) = RiskIds(s, h)
  <2>1. RisksAt(t, h) = RisksAt(s, h)
    BY <1>3, <1>5 DEF RisksAt
  <2>2. \A i \in RisksAt(t, h) : t.risks[i] = s.risks[i]
    BY <1>3 DEF RisksAt
  <2> QED
    BY <2>1, <2>2 DEF RiskIds
<1>6. AcceptancesOf(t) = AcceptancesOf(s)
  <2>1. {t.risks[i] : i \in Live(t)} = {s.risks[i] : i \in Live(s) \ gone}
    BY <1>3
  <2> QED
    BY <1>1, <1>2, <2>1 DEF AcceptancesOf
<1>7. Within(t, s)
  BY <1>3 DEF Within
<1> QED
  BY <1>1, <1>4, <1>5, <1>6, <1>7 DEF t, SameElsewhere

\* What is counted stays counted when acceptances are retired.
LEMMA RetiredStaysCounted ==
    ASSUME EnvTyped, NEW s \in Snapshot, Counted(s), NEW g, NEW gone \in SUBSET RisksAt(s, g)
    PROVE  Counted(Retire(s, gone))
<1> DEFINE t == Retire(s, gone)
<1>1. RisksAt(t, g) = RisksAt(s, g) \ gone
  BY RetiredAtOneGate
<1>2. Within(t, s)
  BY RetiredAtOneGate
<1>3. SameElsewhere(s, t, g)
  BY RetiredAtOneGate
<1> HIDE DEF t
<1>4. ASSUME NEW i \in Live(t)
      PROVE  Cardinality(RisksAt(t, t.risks[i].gate)) <= t.risks[i].medium
  <2> DEFINE h == s.risks[i].gate
  <2>1. i \in Live(s) /\ t.risks[i] = s.risks[i]
    BY <1>2, <1>4 DEF Within
  <2>2. RisksAt(s, h) \in SUBSET Slots /\ RisksAt(t, h) \in SUBSET RisksAt(s, h)
    BY <1>1, <1>3 DEF SameElsewhere, RisksAt, Live
  <2>3. /\ IsFiniteSet(RisksAt(s, h)) /\ Cardinality(RisksAt(s, h)) \in Nat
        /\ Cardinality(RisksAt(t, h)) \in Nat
    BY <2>2, FiniteSlots
  <2>4. Cardinality(RisksAt(t, h)) <= Cardinality(RisksAt(s, h))
    BY <2>2, <2>3, FS_Subset
  <2>5. Cardinality(RisksAt(s, h)) <= s.risks[i].medium /\ s.risks[i].medium \in Nat
    BY <2>1, LiveTyped DEF Counted, Risk
  <2> QED
    BY <2>1, <2>3, <2>4, <2>5
<1> QED
  BY <1>4 DEF Counted, t

\* Rebinding an entry identifies what its gate holds, and changes no other entry.
LEMMA ReboundIds ==
    ASSUME EnvTyped, NEW s \in Snapshot, NEW k \in DOMAIN s.history
    PROVE  LET t == Rebind(s, k)
           IN  /\ t.risks = s.risks /\ t.retired = s.retired
               /\ DOMAIN t.history = DOMAIN s.history
               /\ \A j \in DOMAIN s.history :
                     t.history[j].ids = IF j = k THEN RiskIds(s, s.history[k].gate)
                                                 ELSE s.history[j].ids
<1> DEFINE h == s.history
           ids == RiskIds(s, h[k].gate)
           entry == [h[k] EXCEPT !.ids = ids, !.commit = tree.commit]
           rebound == [h EXCEPT ![k] = entry]
<1>1. h \in Seq(GateEntry) /\ k \in DOMAIN h /\ h[k] \in GateEntry
  BY ElementOfSeq, LenProperties DEF Snapshot
<1>2. entry.ids = ids
  <2> HIDE DEF h, ids
  <2> QED
    BY <1>1 DEF GateEntry
<1>3. Rebind(s, k) = [s EXCEPT !.history = rebound]
  BY DEF Rebind
<1>4. /\ DOMAIN rebound = DOMAIN h
      /\ \A j \in DOMAIN h : rebound[j] = IF j = k THEN entry ELSE h[j]
  <2>1. h \in [1 .. Len(h) -> GateEntry]
    BY <1>1, LenProperties
  <2> HIDE DEF h, entry
  <2> QED
    BY <2>1
<1>5. /\ Rebind(s, k).history = rebound
      /\ Rebind(s, k).risks = s.risks /\ Rebind(s, k).retired = s.retired
  <2> HIDE DEF rebound
  <2> QED
    BY <1>3 DEF Snapshot
<1>6. \A j \in DOMAIN h : rebound[j].ids = IF j = k THEN ids ELSE h[j].ids
  <2> HIDE DEF h, entry, rebound, ids
  <2> QED
    BY <1>2, <1>4
<1> HIDE DEF rebound
<1> QED
  BY <1>4, <1>5, <1>6

\* Clearing a gate identifies what it holds, as rebinding does.
LEMMA ClearedIds ==
    ASSUME EnvTyped, NEW s \in Snapshot, NEW k \in DOMAIN s.history, NEW a
    PROVE  LET t == Clear(s, k, a)
           IN  /\ t.risks = s.risks /\ t.retired = s.retired
               /\ DOMAIN t.history = DOMAIN s.history
               /\ \A j \in DOMAIN s.history :
                     t.history[j].ids = IF j = k THEN RiskIds(s, s.history[k].gate)
                                                 ELSE s.history[j].ids
<1> DEFINE u == Rebind(s, k)
           h == u.history
           c == [ev |-> Evidence(a), commit |-> tree.commit, set |-> Digest(s.findings)]
           entry == [h[k] EXCEPT !.clearance = c]
           cleared == [h EXCEPT ![k] = entry]
<1>1. /\ u \in Snapshot /\ u.risks = s.risks /\ u.retired = s.retired
      /\ DOMAIN h = DOMAIN s.history
      /\ \A j \in DOMAIN s.history :
            h[j].ids = IF j = k THEN RiskIds(s, s.history[k].gate) ELSE s.history[j].ids
  BY ReboundIds, RebindTyped
<1>2. Clear(s, k, a) = [u EXCEPT !.history = cleared]
  <2> HIDE DEF c
  <2> QED
    BY DEF Clear, u, c
<1> HIDE DEF u
<1>3. h \in Seq(GateEntry) /\ h[k] \in GateEntry
  BY <1>1, ElementOfSeq, LenProperties DEF Snapshot
<1>4. entry.ids = h[k].ids
  <2> HIDE DEF h, c
  <2> QED
    BY <1>3 DEF GateEntry
<1>5. /\ DOMAIN cleared = DOMAIN h
      /\ \A j \in DOMAIN h : cleared[j] = IF j = k THEN entry ELSE h[j]
  <2>1. h \in [1 .. Len(h) -> GateEntry]
    BY <1>3, LenProperties
  <2> HIDE DEF h, entry
  <2> QED
    BY <2>1
<1>6. /\ Clear(s, k, a).history = cleared
      /\ Clear(s, k, a).risks = s.risks /\ Clear(s, k, a).retired = s.retired
  <2> HIDE DEF cleared
  <2> QED
    BY <1>1, <1>2 DEF Snapshot
<1>7. \A j \in DOMAIN h : cleared[j].ids = h[j].ids
  <2> HIDE DEF h, entry, cleared
  <2> QED
    BY <1>4, <1>5
<1> HIDE DEF cleared, h
<1> QED
  BY <1>1, <1>5, <1>6, <1>7

---------------------------------------------------------------------------
(* No step loses an acceptance, miscounts or misidentifies one.            *)

\* Every acceptance of s is in t, current or retired, and none is less retired.
Keeping(s, t) == AcceptancesOf(s) \subseteq AcceptancesOf(t) /\ s.retired \subseteq t.retired

\* What stays at its place is kept.
LEMMA WithinKeeps ==
    ASSUME NEW s, NEW t, Within(s, t), s.retired \subseteq t.retired
    PROVE  Keeping(s, t)
<1>1. {s.risks[i] : i \in Live(s)} \subseteq {t.risks[i] : i \in Live(t)}
  BY DEF Within
<1> QED
  BY <1>1 DEF Keeping, AcceptancesOf

\* The same acceptances are as many, and have the same identities.
LEMMA SameRisks ==
    ASSUME NEW s \in Snapshot, NEW t \in Snapshot, t.risks = s.risks
    PROVE  /\ Counted(s) => Counted(t)
           /\ \A g : RiskIds(t, g) = RiskIds(s, g)
           /\ Within(s, t)
<1>1. Live(t) = Live(s)
  BY DEF Live
<1>2. \A g : RisksAt(t, g) = RisksAt(s, g)
  BY <1>1 DEF RisksAt
<1> QED
  BY <1>1, <1>2 DEF RiskIds, Counted, Within

\* A step that leaves acceptances and gates alone keeps what holds of them.
LEMMA UntouchedHold ==
    ASSUME NEW s \in Snapshot, NEW t \in Snapshot, AcceptancesHold(s),
           t.risks = s.risks, t.retired = s.retired, t.history = s.history,
           Evidenced(t), t.status # "none"
    PROVE  AcceptancesHold(t) /\ Keeping(s, t)
<1>1. Counted(t) /\ Within(s, t) /\ \A g : RiskIds(t, g) = RiskIds(s, g)
  BY SameRisks DEF AcceptancesHold
<1>2. Identified(t)
  BY <1>1 DEF AcceptancesHold, Identified, AcceptedEntries
<1> QED
  BY <1>1, <1>2, WithinKeeps DEF AcceptancesHold, Blank

\* An entry that is recorded with the identities of its gate stays identified.
LEMMA AppendedIdentified ==
    ASSUME NEW s \in Snapshot, NEW t \in Snapshot, NEW entry \in GateEntry, Identified(s),
           t.risks = s.risks, t.history = Append(s.history, entry),
           entry.status = "accepted-risk" => entry.ids = RiskIds(s, entry.gate)
    PROVE  Identified(t)
<1>1. \A g : RiskIds(t, g) = RiskIds(s, g)
  BY SameRisks
<1>2. s.history \in Seq(GateEntry) /\ t.history \in Seq(GateEntry)
  BY DEF Snapshot
<1>3. /\ DOMAIN s.history = 1 .. Len(s.history) /\ Len(s.history) \in Nat
      /\ DOMAIN t.history = 1 .. Len(s.history) + 1
      /\ \A k \in 1 .. Len(s.history) : t.history[k] = s.history[k]
      /\ t.history[Len(s.history) + 1] = entry
  BY <1>2, AppendProperties, LenProperties
<1>4. ASSUME NEW k \in AcceptedEntries(t)
      PROVE  t.history[k].ids = RiskIds(t, t.history[k].gate)
  <2>1. k \in 1 .. Len(s.history) + 1 /\ t.history[k].status = "accepted-risk"
    BY <1>3 DEF AcceptedEntries
  <2>2. CASE k = Len(s.history) + 1
    BY <1>1, <1>3, <2>1, <2>2
  <2>3. CASE k \in 1 .. Len(s.history)
    <3>1. k \in AcceptedEntries(s) /\ t.history[k] = s.history[k]
      BY <1>3, <2>1, <2>3 DEF AcceptedEntries
    <3> QED
      BY <1>1, <3>1 DEF Identified
  <2> QED
    BY <1>3, <2>1, <2>2, <2>3
<1> QED
  BY <1>4 DEF Identified

\* accept-risk first records an acceptance where there is room for it.
LEMMA AcceptRiskRecords ==
    ASSUME TypeOK, LedgerInOrder, AcceptancesHold(snap),
           NEW g \in Gates, NEW f \in Findings, NEW a \in Artifacts, AcceptRisk(g, f, a)
    PROVE  LET s == AddRisk(snap, RiskRecord(snap, g, f, a))
           IN  s \in Snapshot /\ Counted(s) /\ Identified(s) /\ Keeping(snap, s)
<1> DEFINE r == RiskRecord(snap, g, f, a)
           s == AddRisk(snap, r)
           m == snap.findings.medium
<1>1. EnvTyped /\ snap \in Snapshot
  BY DEF TypeOK, EnvTyped
<1>2. snap.findings \in FindingSet
  BY ReportTyped DEF AcceptRisk, ReadyForTransition
<1>3. r \in Risk /\ r.gate = g /\ r.medium = m
  <2>1. r \in Risk
    BY <1>1, <1>2, RiskRecordTyped DEF AcceptRisk
  <2> QED
    BY <2>1 DEF RiskRecord
<1>4. m \in 0 .. MaxMedium
  BY <1>2 DEF FindingSet
<1>5. \A i \in Live(snap) : snap.risks[i].medium = m
  BY DEF AcceptRisk, ReadyForTransition, Valid, AcceptancesFresh, RiskFresh
<1>6. Cardinality(RisksAt(snap, g)) < m /\ Cardinality(RisksAt(snap, g)) \in Nat
  BY FiniteSlots DEF AcceptRisk, RisksAt, Live
<1> HIDE DEF r, m
<1>7. s \in Snapshot /\ s.history = snap.history
  BY <1>1, <1>3, AddRiskTyped
<1>8. Adds(snap, s, r) /\ s.retired = snap.retired
  BY <1>1, <1>3, <1>4, <1>6, AddRiskAdds DEF AcceptancesHold
<1> HIDE DEF s
<1>9. Counted(s)
  <2>1. \A i \in RisksAt(snap, r.gate) : snap.risks[i].medium = r.medium
    BY <1>3, <1>5 DEF RisksAt
  <2> QED
    BY <1>1, <1>3, <1>6, <1>7, <1>8, <2>1, AddedStaysCounted DEF AcceptancesHold
<1>10. Identified(s)
  <2>1. ASSUME NEW k \in AcceptedEntries(snap) PROVE snap.history[k].gate # g
    <3>1. /\ DOMAIN snap.history = 1 .. Len(snap.history) /\ Len(snap.history) \in Nat
          /\ snap.base \in Nat
      BY LenProperties DEF TypeOK, Snapshot
    <3>2. g = snap.base + Len(snap.history) + 1
      BY NextPlace DEF AcceptRisk
    <3>3. k \in 1 .. Len(snap.history) /\ snap.history[k].gate = snap.base + k
      BY <3>1 DEF AcceptedEntries, LedgerInOrder
    <3> QED
      BY <3>1, <3>2, <3>3
  <2>2. \A h : h # g => RiskIds(s, h) = RiskIds(snap, h)
    BY <1>1, <1>3, <1>7, <1>8, AddedAtOneGate DEF SameElsewhere
  <2> QED
    BY <1>7, <2>1, <2>2 DEF AcceptancesHold, Identified, AcceptedEntries
<1>11. Keeping(snap, s)
  <2>1. Within(snap, s)
    BY <1>1, <1>3, <1>7, <1>8, AddedAtOneGate
  <2> QED
    BY <1>8, <2>1, WithinKeeps
<1> QED
  BY <1>7, <1>9, <1>10, <1>11 DEF s, r

\* accept-risk, whether or not it resolves the gate.
LEMMA AcceptRiskHolds ==
    ASSUME TypeOK, TypeOK', LedgerInOrder, AcceptancesHold(snap),
           NEW g \in Gates, NEW f \in Findings, NEW a \in Artifacts, AcceptRisk(g, f, a)
    PROVE  AcceptancesHold(snap') /\ Keeping(snap, snap')
<1> DEFINE r == RiskRecord(snap, g, f, a)
           s == AddRisk(snap, r)
           entry == Entry(g, "accepted-risk", None, RiskIds(s, g))
<1>1. EnvTyped /\ snap \in Snapshot /\ snap' \in Snapshot
  BY DEF TypeOK, EnvTyped
<1>2. r \in Risk
  BY <1>1, RiskRecordTyped, ReportTyped DEF AcceptRisk, ReadyForTransition
<1>3. s \in Snapshot /\ Counted(s) /\ Identified(s) /\ Keeping(snap, s)
  BY AcceptRiskRecords
<1>4. s.stops = snap.stops /\ s.status = "active"
  BY <1>1, <1>2, AddRiskTyped DEF AcceptRisk, ReadyForTransition, ActiveRun
<1>5. snap' = s \/ snap' = Advance(s, entry)
  BY DEF AcceptRisk
<1>6. entry \in GateEntry /\ entry.status = "accepted-risk" /\ entry.gate = g
      /\ entry.ids = RiskIds(s, g)
  <2>1. RiskIds(s, g) \in SUBSET RiskIdentity
    BY <1>3, RiskIdsTyped
  <2>2. entry.ids = RiskIds(s, g)
    BY DEF Entry
  <2> QED
    BY <1>1, <2>1, <2>2, EntryTyped DEF PositionStatuses
<1> HIDE DEF s, entry
<1>7. CASE snap' = s
  BY <1>3, <1>4, <1>7 DEF AcceptancesHold, Evidenced, Blank
<1>8. CASE snap' = Advance(s, entry)
  <2>1. /\ snap'.history = Append(s.history, entry)
        /\ snap'.stops = s.stops /\ snap'.status = s.status
    BY <1>1, <1>3, <1>6, <1>8, AdvanceTyped
  <2>2. snap'.risks = s.risks /\ snap'.retired = s.retired
    BY <1>3, <1>8 DEF Advance, Snapshot
  <2>3. Counted(snap') /\ Within(s, snap')
    BY <1>1, <1>3, <2>2, SameRisks
  <2>4. Identified(snap')
    BY <1>1, <1>3, <1>6, <2>1, <2>2, AppendedIdentified
  <2>5. Keeping(s, snap')
    BY <2>2, <2>3, WithinKeeps
  <2> QED
    BY <1>3, <1>4, <2>1, <2>3, <2>4, <2>5
       DEF AcceptancesHold, Evidenced, Blank, Keeping
<1> QED
  BY <1>5, <1>7, <1>8

\* What accept-risk --refresh does in terms of the gate's entry and acceptances.
Refreshing(k, g, f, a, gone) ==
    /\ k \in AcceptedEntries(snap) /\ snap.history[k].gate = g
    /\ gone \in SUBSET RisksAt(snap, g)
    /\ \A i \in RisksAt(snap, g) \ gone : snap.risks[i].medium = snap.findings.medium
    /\ \/ snap' = Clear(Retire(snap, gone), k, a)
       \/ /\ Cardinality(RisksAt(snap, g) \ gone) < snap.findings.medium
          /\ snap' = Rebind(AddRisk(Retire(snap, gone), RiskRecord(snap, g, f, a)), k)

\* A refresh retires every acceptance of the gate that is not of the current report.
LEMMA RefreshRetiresStale ==
    ASSUME TypeOK, NEW g \in Gates, NEW f \in Findings, NEW old \in Findings,
           NEW a \in Artifacts, RefreshRisk(g, f, old, a)
    PROVE  \E k, gone : Refreshing(k, g, f, a, gone)
<1> DEFINE gone == StaleRisks(snap, g) \cup Superseded(snap, g, old)
<1>1. gone \in SUBSET RisksAt(snap, g)
  BY DEF StaleRisks, Superseded
<1>2. \A i \in RisksAt(snap, g) \ gone : snap.risks[i].medium = snap.findings.medium
  BY DEF StaleRisks, RiskFresh
<1>3. PICK k \in AcceptedEntries(snap) :
         /\ snap.history[k].gate = g
         /\ \/ snap' = Clear(Retire(snap, gone), k, a)
            \/ /\ Cardinality(RisksAt(snap, g) \ gone) < snap.findings.medium
               /\ snap' = Rebind(AddRisk(Retire(snap, gone), RiskRecord(snap, g, f, a)), k)
  BY DEF RefreshRisk
<1> HIDE DEF gone
<1>4. Refreshing(k, g, f, a, gone)
  BY <1>1, <1>2, <1>3 DEF Refreshing
<1> QED
  BY <1>4

\* The document a refresh leaves before it rebinds the entry of the gate.
LEMMA RefreshRecords ==
    ASSUME TypeOK, AcceptancesHold(snap), NEW k, NEW g \in Gates, NEW f \in Findings,
           NEW old \in Findings, NEW a \in Artifacts, NEW gone,
           RefreshRisk(g, f, old, a), Refreshing(k, g, f, a, gone)
    PROVE  \E s \in Snapshot :
              /\ Counted(s) /\ Keeping(snap, s)
              /\ \A h : h # g => RiskIds(s, h) = RiskIds(snap, h)
              /\ s.history = snap.history /\ s.stops = snap.stops /\ s.status = "active"
              /\ s.findings = snap.findings
              /\ snap' = Rebind(s, k) \/ snap' = Clear(s, k, a)
<1> DEFINE left == Retire(snap, gone)
           r == RiskRecord(snap, g, f, a)
           added == AddRisk(left, r)
           m == snap.findings.medium
<1>1. EnvTyped /\ snap \in Snapshot /\ gone \in SUBSET RisksAt(snap, g)
      /\ gone \in SUBSET Live(snap)
  BY DEF TypeOK, EnvTyped, Refreshing, RisksAt
<1>2. snap.findings \in FindingSet /\ Usable(a) /\ snap.status = "active"
  BY ReportTyped DEF RefreshRisk, ActiveRun
<1>3. /\ left \in Snapshot /\ left.history = snap.history /\ left.stops = snap.stops
      /\ left.status = snap.status /\ left.findings = snap.findings
  BY <1>1, RetireTyped
<1>4. Counted(left)
  BY <1>1, RetiredStaysCounted DEF AcceptancesHold
<1>5. AcceptancesOf(left) = AcceptancesOf(snap)
  BY <1>1, RetiredAtOneGate
<1>6. snap.retired \subseteq left.retired
  BY <1>1, RetiredAtOneGate
<1>7. Keeping(snap, left)
  BY <1>5, <1>6 DEF Keeping
<1>8. SameElsewhere(snap, left, g)
  BY <1>1, RetiredAtOneGate
<1>9. RisksAt(left, g) = RisksAt(snap, g) \ gone
  BY <1>1, RetiredAtOneGate
<1>10. Within(left, snap)
  BY <1>1, RetiredAtOneGate
<1>11. CASE snap' = Clear(left, k, a)
  BY <1>2, <1>3, <1>4, <1>7, <1>8, <1>11 DEF SameElsewhere
<1>12. CASE /\ Cardinality(RisksAt(snap, g) \ gone) < m
            /\ snap' = Rebind(added, k)
  <2>1. m \in 0 .. MaxMedium
    BY <1>2 DEF FindingSet
  <2>2. Cardinality(RisksAt(left, g)) < m /\ Cardinality(RisksAt(left, g)) \in Nat
    BY <1>9, <1>12, FiniteSlots DEF RisksAt, Live
  <2>3. r \in Risk /\ r.gate = g /\ r.medium = m
    <3>1. r \in Risk
      BY <1>1, <1>2, <2>1, <2>2, RiskRecordTyped
    <3> QED
      BY <3>1 DEF RiskRecord
  <2>4. \A i \in RisksAt(left, g) : left.risks[i].medium = m
    BY <1>9, <1>10 DEF Refreshing, Within, RisksAt
  <2> HIDE DEF left, r, m
  <2>5. /\ added \in Snapshot /\ added.history = left.history /\ added.stops = left.stops
        /\ added.status = left.status /\ added.findings = left.findings
    BY <1>1, <1>3, <2>3, AddRiskTyped
  <2>6. Adds(left, added, r) /\ added.retired = left.retired
    BY <1>1, <1>3, <1>4, <2>1, <2>2, <2>3, AddRiskAdds
  <2> HIDE DEF added
  <2>7. Counted(added)
    BY <1>3, <1>4, <2>2, <2>3, <2>4, <2>5, <2>6, AddedStaysCounted
  <2>8. Within(left, added)
    BY <1>3, <2>3, <2>5, <2>6, AddedAtOneGate
  <2>9. SameElsewhere(left, added, g)
    BY <1>3, <2>3, <2>5, <2>6, AddedAtOneGate
  <2>10. Keeping(left, added)
    BY <2>6, <2>8, WithinKeeps
  <2>11. Keeping(snap, added)
    BY <1>7, <2>10 DEF Keeping
  <2> QED
    BY <1>2, <1>3, <1>8, <1>12, <2>5, <2>7, <2>9, <2>11 DEF SameElsewhere
<1> QED
  BY <1>11, <1>12 DEF Refreshing

\* accept-risk --refresh.
LEMMA RefreshRiskHolds ==
    ASSUME TypeOK, TypeOK', LedgerInOrder, AcceptancesHold(snap), NEW g \in Gates,
           NEW f \in Findings, NEW old \in Findings, NEW a \in Artifacts,
           RefreshRisk(g, f, old, a)
    PROVE  AcceptancesHold(snap') /\ Keeping(snap, snap')
<1>1. PICK k, gone : Refreshing(k, g, f, a, gone)
  BY RefreshRetiresStale
<1>2. PICK s \in Snapshot :
         /\ Counted(s) /\ Keeping(snap, s)
         /\ \A h : h # g => RiskIds(s, h) = RiskIds(snap, h)
         /\ s.history = snap.history /\ s.stops = snap.stops /\ s.status = "active"
         /\ s.findings = snap.findings
         /\ snap' = Rebind(s, k) \/ snap' = Clear(s, k, a)
  BY <1>1, RefreshRecords
<1>3. k \in DOMAIN snap.history /\ k \in DOMAIN s.history /\ snap.history[k].gate = g
  BY <1>1, <1>2 DEF Refreshing, AcceptedEntries
<1>4. EnvTyped /\ snap' \in Snapshot /\ Usable(a) /\ s.findings \in FindingSet
  BY <1>2, ReportTyped DEF TypeOK, EnvTyped, RefreshRisk
<1>5. /\ snap'.risks = s.risks /\ snap'.retired = s.retired
      /\ DOMAIN snap'.history = DOMAIN s.history
      /\ \A j \in DOMAIN s.history :
            snap'.history[j].ids = IF j = k THEN RiskIds(s, s.history[k].gate)
                                            ELSE s.history[j].ids
  BY <1>2, <1>3, <1>4, ReboundIds, ClearedIds
<1>6. /\ Len(snap'.history) = Len(snap.history)
      /\ \A j \in DOMAIN snap.history :
            /\ snap'.history[j].gate = snap.history[j].gate
            /\ snap'.history[j].status = snap.history[j].status
      /\ snap'.stops = snap.stops /\ snap'.status = snap.status
  BY RefreshRiskTyped
<1>7. Counted(snap') /\ Within(s, snap') /\ \A h : RiskIds(snap', h) = RiskIds(s, h)
  BY <1>2, <1>4, <1>5, SameRisks
<1>8. ASSUME NEW j \in AcceptedEntries(snap')
      PROVE  snap'.history[j].ids = RiskIds(snap', snap'.history[j].gate)
  <2>1. j \in DOMAIN snap.history /\ j \in AcceptedEntries(snap)
    BY <1>2, <1>5, <1>6 DEF AcceptedEntries
  <2>2. snap'.history[j].gate = snap.history[j].gate
    BY <1>6, <2>1
  <2>3. CASE j = k
    BY <1>2, <1>3, <1>5, <1>7, <2>1, <2>2, <2>3
  <2>4. CASE j # k
    <3>1. snap'.history[j].ids = snap.history[j].ids
      BY <1>2, <1>5, <2>1, <2>4
    <3>2. snap.history[j].ids = RiskIds(snap, snap.history[j].gate)
      BY <2>1 DEF AcceptancesHold, Identified
    <3>3. snap.history[j].gate # g
      <4>1. DOMAIN snap.history = 1 .. Len(snap.history) /\ snap.base \in Nat
        BY LenProperties DEF TypeOK, Snapshot
      <4>2. snap.history[j].gate = snap.base + j /\ snap.history[k].gate = snap.base + k
        BY <1>3, <2>1 DEF LedgerInOrder
      <4> QED
        BY <1>3, <2>1, <2>4, <4>1, <4>2
    <3> QED
      BY <1>2, <1>7, <2>2, <3>1, <3>2, <3>3
  <2> QED
    BY <2>3, <2>4
<1>9. Identified(snap')
  BY <1>8 DEF Identified
<1>10. Keeping(snap, snap')
  <2>1. Keeping(s, snap')
    BY <1>5, <1>7, WithinKeeps
  <2> QED
    BY <1>2, <2>1 DEF Keeping
<1>11. Evidenced(snap') /\ Blank(snap')
  BY <1>2, <1>6 DEF AcceptancesHold, Evidenced, Blank, RefreshRisk, ActiveRun
<1> QED
  BY <1>7, <1>9, <1>10, <1>11 DEF AcceptancesHold

\* close-gate and not-applicable.
LEMMA TransitionHolds ==
    ASSUME TypeOK, TypeOK', AcceptancesHold(snap), NEW g \in Gates, NEW a \in Artifacts,
           CloseGate(g, a) \/ NotApplicable(g, a)
    PROVE  AcceptancesHold(snap') /\ Keeping(snap, snap')
<1>1. EnvTyped /\ snap \in Snapshot /\ snap' \in Snapshot
  BY DEF TypeOK, EnvTyped
<1>2. PICK status \in {"passed", "not-applicable"} :
         snap' = Advance(snap, Entry(g, status, Evidence(a), {}))
  BY DEF CloseGate, NotApplicable
<1> DEFINE entry == Entry(g, status, Evidence(a), {})
<1>3. entry \in GateEntry /\ entry.status = status
  BY <1>1, EvidenceTyped, EntryTyped DEF PositionStatuses, CloseGate, NotApplicable
<1> HIDE DEF entry
<1>4. snap' = Advance(snap, entry)
  BY <1>2 DEF entry
<1>5. /\ snap'.history = Append(snap.history, entry)
      /\ snap'.stops = snap.stops /\ snap'.status = snap.status
  BY <1>1, <1>3, <1>4, AdvanceTyped
<1>6. snap'.risks = snap.risks /\ snap'.retired = snap.retired
  BY <1>1, <1>4 DEF Advance, Snapshot
<1>7. Counted(snap') /\ Within(snap, snap')
  BY <1>1, <1>6, SameRisks DEF AcceptancesHold
<1>8. Identified(snap')
  BY <1>1, <1>3, <1>5, <1>6, AppendedIdentified DEF AcceptancesHold
<1>9. snap.status = "active"
  BY DEF CloseGate, NotApplicable, ReadyForTransition, ActiveRun
<1> QED
  BY <1>5, <1>6, <1>7, <1>8, <1>9, WithinKeeps DEF AcceptancesHold, Evidenced, Blank

\* pause, and the resolution of a stop.
LEMMA StopsHold ==
    ASSUME TypeOK, TypeOK', AcceptancesHold(snap),
           \/ PauseForHuman
           \/ \E k : \/ \E ev : ResolveHumanStop(k, "approved", ev)
                     \/ ResolveHumanStop(k, "rejected", None)
    PROVE  AcceptancesHold(snap') /\ Keeping(snap, snap')
<1>1. /\ snap \in Snapshot /\ snap' \in Snapshot
      /\ snap.stops \in Seq(HumanStop) /\ snap'.stops \in Seq(HumanStop)
  BY DEF TypeOK, Snapshot
<1>2. /\ snap'.risks = snap.risks /\ snap'.retired = snap.retired
      /\ snap'.history = snap.history /\ snap'.status = "active"
  <2>1. PICK stops : snap' = [snap EXCEPT !.stops = stops, !.commit = tree.commit]
    BY DEF PauseForHuman, ResolveHumanStop, Resolution
  <2>2. snap.status = "active"
    BY DEF PauseForHuman, ResolveHumanStop, ActiveRun
  <2> QED
    BY <1>1, <2>1, <2>2 DEF Snapshot
<1>3. Evidenced(snap')
  <2>1. CASE PauseForHuman
    <3> DEFINE stop == [status |-> "pending", ev |-> None]
    <3>1. snap'.stops = Append(snap.stops, stop)
      BY <2>1 DEF PauseForHuman, TypeOK, Snapshot
    <3>2. stop.status # "approved"
      OBVIOUS
    <3>3. stop \in HumanStop
      BY DEF HumanStop
    <3> HIDE DEF stop
    <3>4. \A i \in 1 .. Len(snap.stops) + 1 :
             snap'.stops[i] = IF i = Len(snap.stops) + 1 THEN stop ELSE snap.stops[i]
      BY <1>1, <3>1, <3>3, AppendProperties
    <3>5. /\ DOMAIN snap'.stops = 1 .. Len(snap.stops) + 1
          /\ DOMAIN snap.stops = 1 .. Len(snap.stops) /\ Len(snap.stops) \in Nat
      BY <1>1, <3>1, <3>3, AppendProperties, LenProperties
    <3> QED
      BY <3>2, <3>4, <3>5 DEF AcceptancesHold, Evidenced
  <2>2. ASSUME NEW k, NEW ev, ResolveHumanStop(k, "approved", ev) PROVE Evidenced(snap')
    <3>1. snap'.stops = [snap.stops EXCEPT ![k] = [status |-> "approved", ev |-> ev]]
      BY <2>2 DEF ResolveHumanStop, Resolution, TypeOK, Snapshot
    <3>2. ev # None
      BY <2>2 DEF ResolveHumanStop
    <3> QED
      BY <3>1, <3>2 DEF AcceptancesHold, Evidenced
  <2>3. ASSUME NEW k, ResolveHumanStop(k, "rejected", None) PROVE Evidenced(snap')
    <3>1. snap'.stops = [snap.stops EXCEPT ![k] = [status |-> "rejected", ev |-> None]]
      BY <2>3 DEF ResolveHumanStop, Resolution, TypeOK, Snapshot
    <3> QED
      BY <3>1 DEF AcceptancesHold, Evidenced
  <2> QED
    BY <2>1, <2>2, <2>3
<1> QED
  BY <1>1, <1>2, <1>3, UntouchedHold

\* A fresh run has accepted nothing; the run before it is kept as an archive.
LEMMA CreateRunHolds ==
    ASSUME TypeOK, TypeOK', AcceptancesHold(snap), NEW base \in 0 .. NumGates - 1,
           CreateRun(base)
    PROVE  /\ AcceptancesHold(snap')
           /\ Len(snap'.archives) = Len(snap.archives) => Keeping(snap, snap')
<1>1. PICK archives : snap' = FreshRun(base, archives)
  BY DEF CreateRun
<1>2. /\ snap'.status = "active" /\ snap'.history = <<>> /\ snap'.stops = <<>>
      /\ snap'.risks = [i \in Slots |-> None]
  BY <1>1 DEF FreshRun, NoRun
<1>3. Live(snap') = {} /\ AcceptedEntries(snap') = {}
  BY <1>2 DEF Live, AcceptedEntries
<1>4. AcceptancesHold(snap')
  BY <1>2, <1>3 DEF AcceptancesHold, Counted, Identified, Evidenced, Blank
<1>5. CASE snap.status = "none"
  <2>1. snap = NoRun
    BY <1>5 DEF AcceptancesHold, Blank
  <2>2. Live(snap) = {} /\ snap.retired = {}
    BY <2>1 DEF NoRun, Live
  <2> QED
    BY <1>4, <2>2 DEF Keeping, AcceptancesOf
<1>6. CASE snap.status # "none"
  <2>1. snap'.archives = Append(snap.archives, ArchiveOf(snap))
    BY <1>6, CreateRunMakes
  <2>2. ArchiveOf(snap) \in ArchivedRun /\ snap.archives \in Seq(ArchivedRun)
    BY <1>6, ArchiveTyped DEF CreateRun, TypeOK, Snapshot
  <2>3. Len(snap'.archives) = Len(snap.archives) + 1 /\ Len(snap.archives) \in Nat
    BY <2>1, <2>2, AppendProperties, LenProperties
  <2> QED
    BY <1>4, <2>3
<1> QED
  BY <1>5, <1>6

\* record-findings replaces the report and nothing else a promise is about.
LEMMA ReportLeaves ==
    ASSUME TypeOK, NEW severe \in BOOLEAN, NEW medium \in 0 .. MaxMedium,
           NEW a \in Artifacts, RecordFindings(severe, medium, a)
    PROVE  /\ snap'.risks = snap.risks /\ snap'.retired = snap.retired
           /\ snap'.history = snap.history /\ snap'.stops = snap.stops
           /\ snap'.status = "active"
<1> DEFINE report == [severe |-> severe, medium |-> medium,
                      ev |-> Evidence(a), commit |-> tree.commit]
<1>1. snap' = [snap EXCEPT !.findings = report, !.commit = tree.commit]
  BY DEF RecordFindings
<1>2. snap.status = "active"
  BY DEF RecordFindings, ActiveRun
<1> HIDE DEF report
<1> QED
  BY <1>1, <1>2 DEF TypeOK, Snapshot

\* Every step keeps the acceptances true, and within a run it keeps all of them.
LEMMA StepHolds ==
    ASSUME TypeOK, TypeOK', LedgerInOrder, AcceptancesHold(snap), [Next]_vars
    PROVE  /\ AcceptancesHold(snap')
           /\ Len(snap'.archives) = Len(snap.archives) => Keeping(snap, snap')
<1>1. CASE Start
  BY <1>1, CreateRunHolds, 0 \in 0 .. NumGates - 1 DEF Start
<1>2. ASSUME NEW g \in Gates, Adopt(g)
      PROVE  /\ AcceptancesHold(snap')
             /\ Len(snap'.archives) = Len(snap.archives) => Keeping(snap, snap')
  BY <1>2, CreateRunHolds, g - 1 \in 0 .. NumGates - 1 DEF Adopt, Gates
<1>3. CASE Report \/ Complete \/ Abort
  <2>1. /\ snap'.risks = snap.risks /\ snap'.retired = snap.retired
        /\ snap'.history = snap.history /\ snap'.stops = snap.stops
        /\ snap'.status # "none"
    <3>1. ASSUME NEW severe \in BOOLEAN, NEW medium \in 0 .. MaxMedium, NEW a \in Artifacts,
                 RecordFindings(severe, medium, a)
          PROVE  /\ snap'.risks = snap.risks /\ snap'.retired = snap.retired
                 /\ snap'.history = snap.history /\ snap'.stops = snap.stops
                 /\ snap'.status # "none"
      BY <3>1, ReportLeaves
    <3>2. CASE Complete \/ Abort
      <4>1. PICK end \in Terminal :
              snap' = [snap EXCEPT !.status = end, !.stage = 0, !.commit = tree.commit]
        BY <3>2 DEF Complete, Abort, Terminal
      <4> QED
        BY <4>1 DEF TypeOK, Snapshot, Terminal
    <3> QED
      BY <1>3, <3>1, <3>2 DEF Report
  <2>2. Evidenced(snap') /\ snap \in Snapshot /\ snap' \in Snapshot
    BY <2>1 DEF AcceptancesHold, Evidenced, TypeOK
  <2> QED
    BY <2>1, <2>2, UntouchedHold
<1>4. CASE Transition
  BY <1>4, TransitionHolds DEF Transition
<1>5. CASE Acceptance
  <2>1. PICK g \in Gates, f \in Findings, a \in Artifacts :
           \/ AcceptRisk(g, f, a)
           \/ \E old \in Findings : RefreshRisk(g, f, old, a)
    BY <1>5 DEF Acceptance
  <2>2. CASE AcceptRisk(g, f, a)
    BY <2>2, AcceptRiskHolds
  <2>3. CASE \E old \in Findings : RefreshRisk(g, f, old, a)
    BY <2>3, RefreshRiskHolds
  <2> QED
    BY <2>1, <2>2, <2>3
<1>6. CASE PauseForHuman \/ Approve \/ Reject
  BY <1>6, StopsHold DEF Approve, Reject
<1>7. CASE Environment \/ Asking \/ UNCHANGED vars
  <2>1. snap' = snap
    BY <1>7 DEF Environment, MoveHead, EditEvidence, ChangePolicy, Asking,
       AskNotApplicable, GiveUpNotApplicable, vars
  <2> QED
    BY <2>1 DEF Keeping
<1> QED
  BY <1>1, <1>2, <1>3, <1>4, <1>5, <1>6, <1>7 DEF Next

\* The acceptances of the document are true in every state.
LEMMA AcceptancesStayTrue == Spec => []AcceptancesHold(snap)
<1>1. Init => AcceptancesHold(snap)
  BY DEF Init, NoRun, AcceptancesHold, Counted, Identified, Evidenced, Blank, Live,
         AcceptedEntries
<1>2. TypeOK /\ TypeOK' /\ LedgerInvariant /\ AcceptancesHold(snap) /\ [Next]_vars
         => AcceptancesHold(snap)'
  BY StepHolds DEF LedgerInvariant
<1> QED
  BY <1>1, <1>2, PipelineLedgerTyped, LedgerStaysOrdered, PTL DEF Spec

\* Within a run, whatever is reported, accepted, retired or refreshed, an acceptance
\* stays in the document, current or in accepted_risk_history, which only grows.
THEOREM AuditTrailGrows == Spec => AuditTrailKept
<1> DEFINE Kept == Len(snap'.archives) = Len(snap.archives)
                     => /\ AcceptancesOf(snap) \subseteq AcceptancesOf(snap')
                        /\ snap.retired \subseteq snap'.retired
<1>1. TypeOK /\ TypeOK' /\ LedgerInvariant /\ AcceptancesHold(snap) /\ [Next]_vars => Kept
  BY StepHolds DEF LedgerInvariant, Keeping
<1> HIDE DEF Kept
<1>2. Spec => [][Kept]_vars
  BY <1>1, PipelineLedgerTyped, LedgerStaysOrdered, AcceptancesStayTrue, PTL DEF Spec
<1> QED
  BY <1>2 DEF AuditTrailKept, Kept

---------------------------------------------------------------------------
(* What a transition rests on, and what a completed run is left with.      *)

\* What close-gate, not-applicable, accept-risk and complete have checked.
LEMMA ReadyIsTrusted ==
    ASSUME TypeOK, ReadyForTransition(snap)
    PROVE  /\ \A k \in DOMAIN snap.stops : snap.stops[k].status # "pending"
           /\ files[snap.findings.ev.path] = snap.findings.ev.sha
           /\ snap.findings.commit = tree.commit
           /\ \A k \in DOMAIN snap.history \ AcceptedEntries(snap) :
                 files[snap.history[k].ev.path] = snap.history[k].ev.sha
           /\ \A i \in Live(snap) : /\ snap.risks[i].commit = tree.commit
                                    /\ snap.risks[i].medium = snap.findings.medium
                                    /\ files[snap.risks[i].ev.path] = snap.risks[i].ev.sha
<1>1. \A k \in DOMAIN snap.stops : snap.stops[k].status # "pending"
  BY DEF ReadyForTransition, Paused
<1>2. /\ files[snap.findings.ev.path] = snap.findings.ev.sha
      /\ snap.findings.commit = tree.commit
  BY DEF ReadyForTransition, FindingsCurrent, Intact
<1>3. ASSUME NEW k \in DOMAIN snap.history \ AcceptedEntries(snap)
      PROVE  files[snap.history[k].ev.path] = snap.history[k].ev.sha
  <2>1. snap.history[k].status # "accepted-risk"
    BY DEF AcceptedEntries
  <2> QED
    BY <2>1 DEF ReadyForTransition, Valid, Coherent, EntryValid, Intact
<1>4. snap.status = "active"
  BY DEF ReadyForTransition, ActiveRun
<1>5. FreshnessCommit(snap) = tree.commit
  BY <1>4 DEF FreshnessCommit
<1>6. ASSUME NEW i \in Live(snap)
      PROVE  /\ snap.risks[i].commit = tree.commit
             /\ snap.risks[i].medium = snap.findings.medium
             /\ files[snap.risks[i].ev.path] = snap.risks[i].ev.sha
  <2>1. RiskFresh(snap, snap.risks[i])
    BY DEF ReadyForTransition, Valid, AcceptancesFresh
  <2> QED
    BY <1>4, <1>5, <2>1 DEF RiskFresh, Intact
<1> QED
  BY <1>1, <1>2, <1>3, <1>6

\* A step that resolves a gate or completes the run is one of those four.
LEMMA ResolvingIsReady ==
    ASSUME TypeOK, TypeOK', LedgerInvariant, [Next]_vars, snap.status = "active",
           Len(snap'.history) > Len(snap.history) \/ snap'.status = "completed"
    PROVE  ReadyForTransition(snap)
<1>1. CASE Transition
  BY <1>1 DEF Transition, CloseGate, NotApplicable
<1>2. CASE Complete
  BY <1>2 DEF Complete
<1>3. CASE \E g \in Gates, f \in Findings, a \in Artifacts : AcceptRisk(g, f, a)
  BY <1>3 DEF AcceptRisk
<1>4. ASSUME Len(snap'.history) = Len(snap.history), snap'.status # "completed" PROVE FALSE
  <2>1. Len(snap.history) \in Nat
    BY LenProperties DEF TypeOK, Snapshot
  <2> QED
    BY <1>4, <2>1
<1>5. CASE Start \/ \E g \in Gates : Adopt(g)
  BY <1>5 DEF Start, Adopt, CreateRun, Terminal
<1>6. CASE Report
  BY <1>4, <1>6, RecordFindingsKeeps DEF Report, Keeps, SameLedger
<1>7. ASSUME NEW g \in Gates, NEW f \in Findings, NEW a \in Artifacts, NEW old \in Findings,
             RefreshRisk(g, f, old, a)
      PROVE  FALSE
  BY <1>4, <1>7, RefreshRiskTyped
<1>8. CASE PauseForHuman
  BY <1>4, <1>8, StopsChange DEF PauseForHuman, SameLedger
<1>9. CASE Approve \/ Reject
  BY <1>4, <1>9, ResolveStopChanges DEF Approve, Reject, SameLedger
<1>10. CASE Abort
  BY <1>4, <1>10 DEF Abort, TypeOK, Snapshot
<1>11. CASE Environment \/ Asking \/ UNCHANGED vars
  BY <1>4, <1>11 DEF Environment, MoveHead, EditEvidence, ChangePolicy, Asking,
       AskNotApplicable, GiveUpNotApplicable, vars
<1> QED
  BY <1>1, <1>2, <1>3, <1>5, <1>6, <1>7, <1>8, <1>9, <1>10, <1>11 DEF Next, Acceptance

\* No gate is resolved and no run completed over a document that is no longer true of
\* HEAD, of the files it names, or of its own report.
THEOREM TransitionsAreTrusted == Spec => TransitionTrustsLedger
<1> DEFINE Trusted ==
      (/\ snap.status = "active"
       /\ \/ Len(snap'.history) > Len(snap.history)
          \/ snap'.status = "completed")
      => /\ \A k \in DOMAIN snap.stops : snap.stops[k].status # "pending"
         /\ files[snap.findings.ev.path] = snap.findings.ev.sha
         /\ snap.findings.commit = tree.commit
         /\ \A k \in DOMAIN snap.history \ AcceptedEntries(snap) :
               files[snap.history[k].ev.path] = snap.history[k].ev.sha
         /\ \A i \in Live(snap) : /\ snap.risks[i].commit = tree.commit
                                  /\ snap.risks[i].medium = snap.findings.medium
                                  /\ files[snap.risks[i].ev.path] = snap.risks[i].ev.sha
<1>1. TypeOK /\ TypeOK' /\ LedgerInvariant /\ [Next]_vars => Trusted
  BY ResolvingIsReady, ReadyIsTrusted, Zenon
<1> HIDE DEF Trusted
<1>2. Spec => [][Trusted]_vars
  BY <1>1, PipelineLedgerTyped, LedgerStaysOrdered, PTL DEF Spec
<1> QED
  BY <1>2 DEF TransitionTrustsLedger, Trusted

\* With Medium findings open, an accepted-risk gate is attested in full or can take
\* another refresh: nobody is left with a stale gate and no room for a fresh acceptance.
THEOREM RefreshIsPossible == Spec => []RefreshHasRoom
<1>1. TypeOK /\ AcceptancesHold(snap) => RefreshHasRoom
  <2> SUFFICES ASSUME TypeOK, AcceptancesHold(snap), ValidForRefresh(snap),
                      snap.findings.medium > 0, NEW k \in AcceptedEntries(snap)
               PROVE  LET g == snap.history[k].gate
                      IN  \/ /\ AcceptanceComplete(snap, snap.history[k])
                             /\ StaleRisks(snap, g) = {}
                          \/ Cardinality(RisksAt(snap, g) \ StaleRisks(snap, g))
                                < snap.findings.medium
    BY DEF RefreshHasRoom
  <2> DEFINE g == snap.history[k].gate
             all == RisksAt(snap, g)
             fresh == all \ StaleRisks(snap, g)
             m == snap.findings.medium
  <2>1. /\ all \in SUBSET Slots /\ fresh \in SUBSET all
        /\ IsFiniteSet(all) /\ Cardinality(all) \in Nat
        /\ Cardinality(fresh) \in Nat
    BY FiniteSlots DEF RisksAt, Live
  <2>2. m \in Nat
    BY DEF TypeOK, Snapshot, FindingSet, NoFindings
  <2> SUFFICES ASSUME ~(Cardinality(fresh) < m)
               PROVE  AcceptanceComplete(snap, snap.history[k]) /\ StaleRisks(snap, g) = {}
    OBVIOUS
  <2>3. PICK i \in fresh : TRUE
    BY <2>1, <2>2, FS_EmptySet
  <2>4. i \in Live(snap) /\ snap.risks[i].gate = g /\ snap.risks[i].medium = m
    BY DEF StaleRisks, RisksAt, RiskFresh
  <2>5. Cardinality(all) <= m
    BY <2>4 DEF AcceptancesHold, Counted
  <2>6. Cardinality(fresh) <= Cardinality(all)
    BY <2>1, FS_Subset
  <2>7. Cardinality(all) = m /\ Cardinality(fresh) = Cardinality(all)
    BY <2>1, <2>2, <2>5, <2>6
  <2>8. fresh = all
    BY <2>1, <2>7, FS_Subset
  <2>9. StaleRisks(snap, g) = {}
    BY <2>8 DEF StaleRisks
  <2>10. AcceptanceComplete(snap, snap.history[k])
    BY <2>2, <2>7 DEF AcceptancesHold, Identified, AcceptanceComplete
  <2> QED
    BY <2>9, <2>10
<1> QED
  BY <1>1, PipelineLedgerTyped, AcceptancesStayTrue, PTL

\* The acceptances a gate holds are of as many findings.
LEMMA OnePerFinding ==
    ASSUME NEW s \in Snapshot, RisksDistinct(s), NEW g
    PROVE  Cardinality({s.risks[i].finding : i \in RisksAt(s, g)}) = Cardinality(RisksAt(s, g))
<1> DEFINE held == RisksAt(s, g)
           of == [i \in held |-> s.risks[i].finding]
           named == {s.risks[i].finding : i \in held}
<1>1. IsFiniteSet(held)
  BY FiniteSlots DEF RisksAt, Live
<1>2. of \in Surjection(held, named)
  BY DEF Surjection
<1>3. \A i, j \in held : of[i] = of[j] => i = j
  BY DEF RisksDistinct, RisksAt
<1>4. of \in Injection(held, named)
  BY <1>2, <1>3 DEF Injection, Surjection, IsInjective
<1> HIDE DEF held, of, named
<1>5. Cardinality(named) = Cardinality(held)
  BY <1>1, <1>2, <1>4, FS_Surjection
<1> QED
  BY <1>5 DEF held, named

\* Only complete() completes a run, and a completed run is left as it is.
LEMMA CompletedOnce ==
    ASSUME TypeOK, TypeOK', LedgerInvariant, [Next]_vars, snap'.status = "completed"
    PROVE  Complete \/ snap' = snap
<1>1. CASE Start \/ \E g \in Gates : Adopt(g)
  <2>1. PICK base \in 0 .. NumGates - 1 : \E archives : snap' = FreshRun(base, archives)
    BY <1>1, 0 \in 0 .. NumGates - 1, \A g \in Gates : g - 1 \in 0 .. NumGates - 1
       DEF Start, Adopt, CreateRun, Gates
  <2>2. snap'.status = "active"
    BY <2>1 DEF FreshRun, NoRun
  <2> QED
    BY <2>2
<1>2. CASE Report
  BY <1>2, ReportLeaves DEF Report
<1>3. CASE Transition
  BY <1>3, TransitionResolves DEF Transition, Resolves
<1>4. CASE Acceptance
  <2>1. PICK g \in Gates, f \in Findings, a \in Artifacts :
           \/ AcceptRisk(g, f, a)
           \/ \E old \in Findings : RefreshRisk(g, f, old, a)
    BY <1>4 DEF Acceptance
  <2>2. snap.status = "active"
    BY <2>1 DEF AcceptRisk, RefreshRisk, ReadyForTransition, ActiveRun
  <2>3. CASE AcceptRisk(g, f, a)
    <3>1. Keeps \/ \E entry : Resolves(entry)
      BY <2>3, AcceptRiskResolvesOrKeeps
    <3> QED
      BY <2>2, <3>1 DEF Keeps, SameLedger, Resolves
  <2>4. CASE \E old \in Findings : RefreshRisk(g, f, old, a)
    BY <2>2, <2>4, RefreshRiskKeeps DEF Keeps, SameLedger
  <2> QED
    BY <2>1, <2>3, <2>4
<1>5. CASE PauseForHuman
  BY <1>5, StopsChange DEF PauseForHuman, SameLedger, ActiveRun
<1>6. CASE Approve \/ Reject
  BY <1>6, ResolveStopChanges DEF Approve, Reject, ResolveHumanStop, SameLedger, ActiveRun
<1>7. CASE Abort
  BY <1>7 DEF Abort, TypeOK, Snapshot
<1>8. CASE Environment \/ Asking \/ UNCHANGED vars
  BY <1>8 DEF Environment, MoveHead, EditEvidence, ChangePolicy, Asking,
       AskNotApplicable, GiveUpNotApplicable, vars
<1> QED
  BY <1>1, <1>2, <1>3, <1>4, <1>5, <1>6, <1>7, <1>8 DEF Next

\* complete() has found every gate resolved, the report current and the acceptances
\* complete, and leaves them as they are.
LEMMA CompleteCovers ==
    ASSUME TypeOK, TypeOK', LedgerInvariant, Complete
    PROVE  CompletedRunIsCovered'
<1>1. snap' = [snap EXCEPT !.status = "completed", !.stage = 0, !.commit = tree.commit]
  BY DEF Complete
<1>2. /\ snap'.history = snap.history /\ snap'.risks = snap.risks /\ snap'.base = snap.base
      /\ snap'.findings = snap.findings /\ snap'.commit = tree.commit
  BY <1>1 DEF TypeOK, Snapshot
<1>3. snap.base + Len(snap.history) = NumGates
  <2>1. /\ DOMAIN snap.history = 1 .. Len(snap.history) /\ Len(snap.history) \in Nat
        /\ snap.base \in 0 .. NumGates - 1
    BY LenProperties DEF TypeOK, Snapshot
  <2>2. NumGates \in Resolved(snap)
    BY DEF Complete, Gates
  <2>3. PICK k \in DOMAIN snap.history : snap.history[k].gate = NumGates
    BY <2>1, <2>2 DEF Resolved
  <2>4. snap.base + k = NumGates /\ snap.base + Len(snap.history) <= NumGates
    BY <2>3 DEF LedgerInvariant, LedgerInOrder
  <2> QED
    BY <2>1, <2>3, <2>4
<1>4. /\ Valid(snap) /\ snap.status = "active"
      /\ snap.findings.commit = tree.commit /\ ~snap.findings.severe
  BY DEF Complete, ReadyForTransition, ActiveRun, FindingsCurrent
<1>5. /\ RisksDistinct(snap)
      /\ \A i \in Live(snap) : RiskFresh(snap, snap.risks[i])
      /\ \A k \in AcceptedEntries(snap) : AcceptanceComplete(snap, snap.history[k])
  BY <1>4 DEF Valid, Coherent, AcceptancesFresh
<1>6. snap.findings.medium > 0 => AcceptedEntries(snap) # {}
  BY DEF Complete, MediumCovered
<1>7. /\ Live(snap') = Live(snap) /\ AcceptedEntries(snap') = AcceptedEntries(snap)
      /\ \A g : RisksAt(snap', g) = RisksAt(snap, g) /\ RiskIds(snap', g) = RiskIds(snap, g)
  BY <1>2 DEF Live, AcceptedEntries, RisksAt, RiskIds
<1>8. ASSUME NEW k \in AcceptedEntries(snap')
      PROVE  LET held == RisksAt(snap', snap'.history[k].gate)
             IN  /\ Cardinality({snap'.risks[i].finding : i \in held}) = snap'.findings.medium
                 /\ \A i \in held : /\ snap'.risks[i].commit = snap'.commit
                                    /\ snap'.risks[i].set = Digest(snap'.findings)
                 /\ snap'.history[k].ids = RiskIds(snap', snap'.history[k].gate)
  <2> DEFINE g == snap.history[k].gate
  <2>1. AcceptanceComplete(snap, snap.history[k])
    BY <1>5, <1>7
  <2>2. Cardinality(RisksAt(snap, g)) = snap.findings.medium
        /\ snap.history[k].ids = RiskIds(snap, g)
    BY <2>1 DEF AcceptanceComplete
  <2>3. Cardinality({snap.risks[i].finding : i \in RisksAt(snap, g)}) = snap.findings.medium
    BY <1>5, <2>2, OnePerFinding DEF TypeOK
  <2>4. ASSUME NEW i \in RisksAt(snap, g)
        PROVE  snap.risks[i].commit = tree.commit /\ snap.risks[i].set = Digest(snap.findings)
    <3>1. RiskFresh(snap, snap.risks[i])
      BY <1>5 DEF RisksAt
    <3> QED
      BY <1>4, <3>1 DEF RiskFresh, FreshnessCommit
  <2>5. RisksAt(snap', g) = RisksAt(snap, g) /\ RiskIds(snap', g) = RiskIds(snap, g)
        /\ snap'.history[k].gate = g
    BY <1>2, <1>7
  <2>6. Cardinality({snap'.risks[i].finding : i \in RisksAt(snap', g)}) = snap'.findings.medium
    BY <1>2, <2>3, <2>5
  <2>7. \A i \in RisksAt(snap', g) : /\ snap'.risks[i].commit = snap'.commit
                                     /\ snap'.risks[i].set = Digest(snap'.findings)
    BY <1>2, <2>4, <2>5
  <2> QED
    BY <1>2, <2>2, <2>5, <2>6, <2>7
<1> QED
  BY <1>2, <1>3, <1>4, <1>6, <1>7, <1>8 DEF CompletedRunIsCovered

\* A completed run resolved every gate over acceptances that cover its open Medium
\* findings one by one, and stays so until it is archived.
THEOREM CompletionsAreCovered == Spec => []CompletedRunIsCovered
<1>1. Init => CompletedRunIsCovered
  BY DEF Init, NoRun, CompletedRunIsCovered
<1>2. TypeOK /\ TypeOK' /\ LedgerInvariant /\ CompletedRunIsCovered /\ [Next]_vars
         => CompletedRunIsCovered'
  <2> SUFFICES ASSUME TypeOK, TypeOK', LedgerInvariant, CompletedRunIsCovered, [Next]_vars,
                      snap'.status = "completed"
               PROVE  CompletedRunIsCovered'
    BY DEF CompletedRunIsCovered
  <2>1. CASE Complete
    BY <2>1, CompleteCovers
  <2>2. CASE snap' = snap
    BY <2>2 DEF CompletedRunIsCovered
  <2> QED
    BY <2>1, <2>2, CompletedOnce
<1> QED
  BY <1>1, <1>2, PipelineLedgerTyped, LedgerStaysOrdered, PTL DEF Spec

---------------------------------------------------------------------------
(* A new report restores an active run.                                    *)

\* What validate() needs of document s before the report is looked at, where no risk
\* was accepted and what was recorded is intact.
Restorable(s) ==
    /\ s.status = "active" /\ s.branch = tree.branch /\ s.policy = policy
    /\ s.base + Len(s.history) <= NumGates
    /\ s.stage = s.base + Len(s.history) + 1
    /\ \A k \in DOMAIN s.history :
          /\ s.history[k].gate = s.base + k
          /\ s.history[k].status # "accepted-risk"
          /\ s.history[k].status = "not-applicable"
                => s.history[k].gate \in Conditional[policy]
          /\ Intact(s.history[k].ev)
    /\ \A j, k \in DOMAIN s.stops :
          s.stops[j].status = "pending" /\ s.stops[k].status = "pending" => j = k
    /\ \A k \in DOMAIN s.stops :
          /\ s.stops[k].status = "approved" => s.stops[k].ev # None
          /\ s.stops[k].ev # None => Intact(s.stops[k].ev)
    /\ Live(s) = {}

\* At most one stop is pending.
LEMMA FewStopsPending ==
    ASSUME NEW s \in Snapshot, Restorable(s)
    PROVE  Cardinality({k \in DOMAIN s.stops : s.stops[k].status = "pending"}) <= 1
<1> DEFINE pending == {k \in DOMAIN s.stops : s.stops[k].status = "pending"}
<1>1. ASSUME pending = {}
      PROVE  Cardinality(pending) = 0
  <2> HIDE DEF pending
  <2> QED
    BY <1>1, FS_EmptySet
<1>2. ASSUME NEW j \in pending
      PROVE  Cardinality(pending) = 1
  <2>1. pending = {j}
    BY DEF Restorable
  <2> HIDE DEF pending
  <2> QED
    BY <2>1, FS_Singleton
<1> QED
  BY <1>1, <1>2

\* The stage of such a document is the first gate that is not resolved.
LEMMA StageIsNext ==
    ASSUME NEW s \in Snapshot, Restorable(s)
    PROVE  StageValid(s)
<1> DEFINE n == s.base + Len(s.history)
<1>1. /\ DOMAIN s.history = 1 .. Len(s.history) /\ Len(s.history) \in Nat
      /\ s.base \in Nat /\ n \in 0 .. NumGates
  BY LenProperties DEF Snapshot, Restorable
<1>2. Resolved(s) = 1 .. n
  <2>1. ASSUME NEW g \in Resolved(s) PROVE g \in 1 .. n
    <3>1. CASE g \in 1 .. s.base
      BY <1>1, <3>1
    <3>2. ASSUME NEW k \in DOMAIN s.history, g = s.history[k].gate
          PROVE  g \in 1 .. n
      BY <1>1, <3>2 DEF Restorable
    <3> QED
      BY <3>1, <3>2 DEF Resolved
  <2>2. ASSUME NEW g \in 1 .. n PROVE g \in Resolved(s)
    <3>1. CASE g <= s.base
      BY <1>1, <3>1 DEF Resolved
    <3>2. CASE g > s.base
      <4>1. g - s.base \in DOMAIN s.history
        BY <1>1, <3>2
      <4>2. s.history[g - s.base].gate = g
        BY <1>1, <4>1 DEF Restorable
      <4> QED
        BY <4>1, <4>2 DEF Resolved
    <3> QED
      BY <1>1, <3>1, <3>2
  <2> QED
    BY <2>1, <2>2
<1> DEFINE First(g) == g \notin Resolved(s) /\ 1 .. (g - 1) \subseteq Resolved(s)
<1>3. n + 1 \in 1 .. Ready /\ First(n + 1)
  BY <1>1, <1>2 DEF Ready
<1>4. ASSUME NEW g \in 1 .. Ready, First(g) PROVE g = n + 1
  <2>1. ~(g < n + 1)
    BY <1>1, <1>2, <1>4
  <2>2. ~(g > n + 1)
    <3> SUFFICES ASSUME g > n + 1 PROVE FALSE
      OBVIOUS
    <3>1. n + 1 \in 1 .. (g - 1)
      BY <1>1
    <3> QED
      BY <1>3, <1>4, <3>1
  <2> QED
    BY <1>1, <2>1, <2>2 DEF Ready
<1> HIDE DEF First, n
<1>5. (CHOOSE g \in 1 .. Ready : First(g)) = n + 1
  BY <1>3, <1>4
<1>6. s.status = "active" /\ s.stage = n + 1
  BY DEF Restorable, n
<1> QED
  BY <1>5, <1>6 DEF StageValid, First

\* Such a document passes validate() up to its report.
LEMMA RestorableIsCoherent ==
    ASSUME NEW s \in Snapshot, Restorable(s)
    PROVE  Coherent(s, FALSE)
<1>1. StopsValid(s)
  BY FewStopsPending DEF StopsValid, Restorable
<1>2. ASSUME NEW k \in DOMAIN s.history PROVE EntryValid(s, k, FALSE)
  <2>1. /\ k \in 1 .. Len(s.history) /\ Len(s.history) \in Nat /\ s.base \in Nat
        /\ DOMAIN s.history = 1 .. Len(s.history)
    BY LenProperties DEF Snapshot
  <2>2. s.history[k].gate = (IF k = 1 THEN s.base ELSE s.history[k - 1].gate) + 1
    <3>1. s.history[k].gate = s.base + k
      BY DEF Restorable
    <3>2. CASE k = 1
      BY <3>1, <3>2
    <3>3. CASE k # 1
      <4>1. k - 1 \in DOMAIN s.history
        BY <2>1, <3>3
      <4>2. s.history[k - 1].gate = s.base + (k - 1)
        BY <4>1 DEF Restorable
      <4> QED
        BY <2>1, <3>1, <3>3, <4>2
    <3> QED
      BY <3>2, <3>3
  <2> QED
    BY <2>2 DEF EntryValid, Restorable
<1>3. RisksDistinct(s)
  BY DEF RisksDistinct, Restorable
<1> QED
  BY <1>1, <1>2, <1>3, StageIsNext DEF Coherent, Restorable

\* With a report made now it passes validate() as a whole.
LEMMA ReportedIsValid ==
    ASSUME NEW s \in Snapshot, Restorable(s), NEW a \in Artifacts, tree.commit \in Commits,
           s.findings.ev = Evidence(a), s.findings.commit = tree.commit
    PROVE  Valid(s)
<1>1. s.findings # NoFindings
  BY DEF NoFindings
<1>2. Intact(s.findings.ev)
  BY DEF Intact, Evidence
<1>3. FreshnessCommit(s) = tree.commit
  BY DEF FreshnessCommit, Restorable
<1>4. FindingsValid(s)
  BY <1>1, <1>2, <1>3 DEF FindingsValid, FindingsCurrent
<1>5. AcceptancesFresh(s)
  BY DEF AcceptancesFresh, AcceptedEntries, Restorable
<1> QED
  BY <1>4, <1>5, RestorableIsCoherent DEF Valid

\* An active run on its branch and policy, whose evidence is as recorded and where no
\* risk was accepted, is valid again once its findings are recorded, wherever HEAD went.
THEOREM ReportsRestore == Spec => []ReportRestores
<1>1. TypeOK /\ LedgerInvariant /\ AcceptancesHold(snap) => ReportRestores
  <2> SUFFICES ASSUME TypeOK, LedgerInvariant, AcceptancesHold(snap), ActiveRun(snap),
                      AcceptedEntries(snap) = {}, Live(snap) = {},
                      \A k \in DOMAIN snap.history :
                         Intact(snap.history[k].ev) /\ SkipAllowed(snap, k),
                      \A k \in DOMAIN snap.stops :
                         snap.stops[k].ev = None \/ Intact(snap.stops[k].ev),
                      NEW severe \in BOOLEAN, NEW medium \in 0 .. MaxMedium,
                      NEW a \in {b \in Artifacts : Usable(b)}
               PROVE  /\ ValidForFindings(snap)
                      /\ Valid([snap EXCEPT !.findings =
                                   [severe |-> severe, medium |-> medium,
                                    ev |-> Evidence(a), commit |-> tree.commit]])
    BY DEF ReportRestores
  <2> DEFINE report == [severe |-> severe, medium |-> medium,
                        ev |-> Evidence(a), commit |-> tree.commit]
             s == [snap EXCEPT !.findings = report]
  <2>1. Restorable(snap)
    BY DEF ActiveRun, LedgerInvariant, LedgerInOrder, OnePendingStop, SkipAllowed,
           AcceptancesHold, Evidenced, AcceptedEntries, Restorable
  <2>2. report \in FindingSet /\ report.ev = Evidence(a) /\ report.commit = tree.commit
    BY EvidenceTyped, EnvOfTypeOK DEF FindingSet, EnvTyped
  <2> HIDE DEF report
  <2>3. snap \in Snapshot
    BY DEF TypeOK
  <2>4. s \in Snapshot /\ s.findings = report
    BY <2>2, <2>3 DEF Snapshot
  <2>5. /\ s.status = snap.status /\ s.branch = snap.branch /\ s.policy = snap.policy
        /\ s.base = snap.base /\ s.stage = snap.stage /\ s.history = snap.history
        /\ s.stops = snap.stops /\ s.risks = snap.risks
    BY <2>3 DEF Snapshot
  <2> HIDE DEF s
  <2>6. Restorable(s)
    BY <2>1, <2>5 DEF Restorable, Live
  <2>7. Valid(s)
    BY <2>2, <2>4, <2>6, ReportedIsValid DEF TypeOK
  <2>8. ValidForFindings(snap)
    BY <2>1, <2>3, RestorableIsCoherent DEF ValidForFindings
  <2> QED
    BY <2>7, <2>8 DEF s, report
<1> QED
  BY <1>1, PipelineLedgerTyped, LedgerStaysOrdered, AcceptancesStayTrue, PTL

---------------------------------------------------------------------------
(* The ledger implements GateLedger.                                       *)

\* The same statuses make the same outcomes.
LEMMA SameOutcomes ==
    ASSUME NEW s \in Snapshot, NEW t \in Snapshot, Len(t.history) = Len(s.history),
           \A j \in DOMAIN s.history : t.history[j].status = s.history[j].status
    PROVE  ArchiveOf(t).outcomes = ArchiveOf(s).outcomes
<1>1. DOMAIN s.history = 1 .. Len(s.history)
  BY LenProperties DEF Snapshot
<1> DEFINE p == ArchiveOf(t).outcomes
           o == ArchiveOf(s).outcomes
<1>2. /\ o \in Seq(PositionStatuses) /\ p \in Seq(PositionStatuses)
      /\ Len(o) = Len(s.history) /\ Len(p) = Len(s.history)
  BY OutcomesTyped
<1>3. \A j \in 1 .. Len(s.history) : o[j] = s.history[j].status /\ p[j] = t.history[j].status
  BY OutcomesTyped
<1> HIDE DEF o, p
<1>4. \A j \in 1 .. Len(o) : o[j] = p[j]
  BY <1>1, <1>2, <1>3
<1>5. o = p
  BY <1>2, <1>4, SeqEqual
<1> QED
  BY <1>5 DEF o, p

\* One entry more makes one outcome more.
LEMMA AppendedOutcome ==
    ASSUME NEW s \in Snapshot, NEW t \in Snapshot, NEW entry \in GateEntry,
           t.history = Append(s.history, entry)
    PROVE  ArchiveOf(t).outcomes = Append(ArchiveOf(s).outcomes, entry.status)
<1> DEFINE p == ArchiveOf(t).outcomes
           o == ArchiveOf(s).outcomes
           q == Append(o, entry.status)
           n == Len(s.history)
<1>1. s.history \in Seq(GateEntry) /\ n \in Nat
  BY LenProperties DEF Snapshot
<1>2. /\ Len(t.history) = n + 1
      /\ \A j \in 1 .. n : t.history[j] = s.history[j]
      /\ t.history[n + 1] = entry
  BY <1>1, AppendProperties
<1>3. /\ o \in Seq(PositionStatuses) /\ p \in Seq(PositionStatuses)
      /\ Len(o) = n /\ Len(p) = n + 1
  BY <1>2, OutcomesTyped
<1>4. \A j \in 1 .. n : o[j] = s.history[j].status
  BY OutcomesTyped
<1>5. \A j \in 1 .. n + 1 : p[j] = t.history[j].status
  BY <1>2, OutcomesTyped
<1>6. entry.status \in PositionStatuses
  BY DEF GateEntry
<1> HIDE DEF o, p
<1>7. /\ q \in Seq(PositionStatuses) /\ Len(q) = n + 1
      /\ \A j \in 1 .. n : q[j] = o[j]
      /\ q[n + 1] = entry.status
  BY <1>3, <1>6, AppendProperties
<1> HIDE DEF q, n
<1>8. ASSUME NEW j \in 1 .. n + 1 PROVE p[j] = q[j]
  <2>1. CASE j = n + 1
    BY <1>2, <1>5, <1>7, <2>1
  <2>2. CASE j \in 1 .. n
    BY <1>2, <1>4, <1>5, <1>7, <2>2
  <2> QED
    BY <1>1, <1>8, <2>1, <2>2
<1>9. p = q
  BY <1>3, <1>7, <1>8, SeqEqual
<1> QED
  BY <1>9 DEF p, q, o

\* What Ended is in GateLedger is what a start keeps.
LEMMA EndedIsArchived == Ledger!Ended = ArchiveOf(snap)
BY DEF Ledger!Ended, ArchiveOf

\* A step that resolves nothing and touches no stop changes nothing GateLedger shows.
LEMMA KeepsStutters ==
    ASSUME TypeOK, TypeOK', Keeps
    PROVE  UNCHANGED Ledger!vars
<1>1. ArchiveOf(snap').outcomes = ArchiveOf(snap).outcomes
  BY SameOutcomes DEF Keeps, SameLedger, TypeOK
<1> QED
  BY <1>1 DEF Ledger!vars, Keeps, SameLedger, Paused

\* Resolving the next gate is the Resolve step of GateLedger.
LEMMA ResolvesResolves ==
    ASSUME TypeOK, TypeOK', LedgerInvariant, NEW entry, Resolves(entry)
    PROVE  Ledger!Resolve(entry.status) /\ entry.status \in Ledger!Outcomes
<1>1. ArchiveOf(snap').outcomes = Append(ArchiveOf(snap).outcomes, entry.status)
  BY AppendedOutcome DEF Resolves, TypeOK
<1>2. entry.gate = snap.base + Len(snap.history) + 1 /\ entry.gate <= NumGates
  BY NextPlace DEF Resolves, LedgerInvariant, GateEntry, Gates
<1>3. Len(ArchiveOf(snap).outcomes) = Len(snap.history)
  BY OutcomesTyped DEF TypeOK
<1>4. Len(snap.history) \in Nat /\ snap.base \in Nat
  BY LenProperties DEF TypeOK, Snapshot
<1>5. snap.base + Len(ArchiveOf(snap).outcomes) < NumGates
  BY <1>2, <1>3, <1>4
<1>6. entry.status \in Ledger!Outcomes
  BY DEF Resolves, GateEntry, PositionStatuses, Ledger!Outcomes
<1> QED
  BY <1>1, <1>5, <1>6 DEF Ledger!Resolve, Resolves, Paused

\* start and adopt are the Begin step of GateLedger, the run before kept as it ended.
LEMMA CreateRunBegins ==
    ASSUME TypeOK, TypeOK', LedgerInvariant, NEW base \in 0 .. NumGates - 1, CreateRun(base)
    PROVE  Ledger!Begin(base)
<1>1. ArchiveOf(snap').outcomes = <<>>
  <2>1. Len(ArchiveOf(snap').outcomes) = 0
    BY CreateRunMakes, OutcomesTyped DEF TypeOK
  <2>2. ArchiveOf(snap').outcomes \in Seq(PositionStatuses)
    BY OutcomesTyped DEF TypeOK
  <2> QED
    BY <2>1, <2>2, EmptySeq
<1>2. ~Paused(snap')
  BY CreateRunMakes DEF Paused
<1>3. Paused(snap') = FALSE
  BY <1>2 DEF Paused
<1>4. \/ snap.status = "none" /\ snap'.archives = snap.archives
      \/ snap.status \in Terminal /\ snap'.archives = Append(snap.archives, Ledger!Ended)
  BY CreateRunMakes, EndedIsArchived DEF LedgerInvariant, BlankBeforeFirstRun
<1> QED
  BY <1>1, <1>3, <1>4, CreateRunMakes DEF Ledger!Begin, Ledger!Terminal, Terminal

\* A requested human stop is the Hold step of GateLedger.
LEMMA PauseHolds ==
    ASSUME TypeOK, TypeOK', PauseForHuman
    PROVE  Ledger!Hold
<1> DEFINE stop == [status |-> "pending", ev |-> None]
<1>1. SameLedger /\ snap'.stops = Append(snap.stops, stop)
  BY StopsChange DEF PauseForHuman
<1>2. ArchiveOf(snap').outcomes = ArchiveOf(snap).outcomes
  BY <1>1, SameOutcomes DEF SameLedger, TypeOK
<1>3. Paused(snap') = TRUE
  <2>1. stop \in HumanStop /\ snap.stops \in Seq(HumanStop)
    BY DEF HumanStop, TypeOK, Snapshot
  <2>2. /\ Len(snap.stops) + 1 \in DOMAIN snap'.stops
        /\ snap'.stops[Len(snap.stops) + 1] = stop
    BY <1>1, <2>1, AppendProperties, LenProperties
  <2> QED
    BY <2>2 DEF Paused
<1>4. snap.status = "active" /\ ~Paused(snap)
  BY DEF PauseForHuman, ActiveRun
<1> QED
  BY <1>1, <1>2, <1>3, <1>4 DEF Ledger!Hold, SameLedger

\* With at most one stop pending, resolving it releases the run.
LEMMA ResolveStopReleases ==
    ASSUME TypeOK, TypeOK', LedgerInvariant, NEW k,
           NEW decision \in {"approved", "rejected"}, NEW ev,
           ResolveHumanStop(k, decision, ev)
    PROVE  Ledger!Release
<1>1. SameLedger /\ snap.status = "active"
  BY ResolveStopChanges
<1>2. ArchiveOf(snap').outcomes = ArchiveOf(snap).outcomes
  BY <1>1, SameOutcomes DEF SameLedger, TypeOK
<1>3. Paused(snap)
  BY ResolveStopChanges DEF Paused
<1>4. Paused(snap') = FALSE
  <2>1. \A i \in DOMAIN snap'.stops : snap'.stops[i].status # "pending"
    BY ResolveStopChanges DEF LedgerInvariant, OnePendingStop
  <2> QED
    BY <2>1 DEF Paused
<1> QED
  BY <1>1, <1>2, <1>3, <1>4 DEF Ledger!Release, SameLedger

\* A run whose gates are all resolved has an outcome for each.
LEMMA CompleteCompletes ==
    ASSUME TypeOK, TypeOK', LedgerInvariant, Complete
    PROVE  Ledger!Complete
<1>1. snap' = [snap EXCEPT !.status = "completed", !.stage = 0, !.commit = tree.commit]
  BY DEF Complete
<1>2. /\ snap'.status = "completed" /\ snap'.history = snap.history
      /\ snap'.base = snap.base /\ snap'.stops = snap.stops /\ snap'.archives = snap.archives
  BY <1>1, EndKeepsGates DEF Terminal
<1>3. ArchiveOf(snap').outcomes = ArchiveOf(snap).outcomes
  BY <1>2, SameOutcomes DEF TypeOK
<1>4. /\ DOMAIN snap.history = 1 .. Len(snap.history) /\ Len(snap.history) \in Nat
      /\ snap.base \in 0 .. NumGates - 1
  BY LenProperties DEF TypeOK, Snapshot
<1>5. NumGates \in Resolved(snap)
  BY DEF Complete, Gates
<1>6. PICK k \in DOMAIN snap.history : snap.history[k].gate = NumGates
  BY <1>4, <1>5 DEF Resolved
<1>7. snap.base + k = NumGates /\ snap.base + Len(snap.history) <= NumGates
  BY <1>6 DEF LedgerInvariant, LedgerInOrder
<1>8. snap.base + Len(ArchiveOf(snap).outcomes) = NumGates
  <2>1. Len(ArchiveOf(snap).outcomes) = Len(snap.history)
    BY OutcomesTyped DEF TypeOK
  <2>2. k <= Len(snap.history) /\ k \in Nat
    BY <1>4
  <2> QED
    BY <1>4, <1>7, <2>1, <2>2
<1>9. snap.status = "active" /\ ~Paused(snap)
  BY DEF Complete, ReadyForTransition, ActiveRun
<1> QED
  BY <1>2, <1>3, <1>8, <1>9 DEF Ledger!Complete, Paused

\* abort is the Abort step of GateLedger, paused or not.
LEMMA AbortAborts ==
    ASSUME TypeOK, TypeOK', Abort
    PROVE  Ledger!Abort
<1>1. snap' = [snap EXCEPT !.status = "aborted", !.stage = 0, !.commit = tree.commit]
  BY DEF Abort
<1>2. /\ snap'.status = "aborted" /\ snap'.history = snap.history
      /\ snap'.base = snap.base /\ snap'.stops = snap.stops /\ snap'.archives = snap.archives
  BY <1>1, EndKeepsGates DEF Terminal
<1>3. ArchiveOf(snap').outcomes = ArchiveOf(snap).outcomes
  BY <1>2, SameOutcomes DEF TypeOK
<1>4. snap.status = "active"
  BY DEF Abort, ActiveRun
<1> QED
  BY <1>2, <1>3, <1>4 DEF Ledger!Abort, Paused

\* The document of pipeline.py, with all its evidence, findings and risks, behaves
\* as the gate ledger: each operation is one of its steps or changes nothing in it.
THEOREM ImplementsTheGateLedger == Spec => ImplementsGateLedger
<1>1. Init => Ledger!Init
  <2> SUFFICES ASSUME Init PROVE Ledger!Init
    OBVIOUS
  <2>1. /\ snap.status = "none" /\ snap.base = 0 /\ snap.archives = <<>>
        /\ snap.history = <<>> /\ snap.stops = <<>>
    BY DEF Init, NoRun
  <2>2. ArchiveOf(snap).outcomes = <<>>
    <3>1. snap \in Snapshot
      BY NoRunTyped DEF Init
    <3>2. ArchiveOf(snap).outcomes \in Seq(PositionStatuses)
          /\ Len(ArchiveOf(snap).outcomes) = 0
      BY <2>1, <3>1, OutcomesTyped
    <3> QED
      BY <3>2, EmptySeq
  <2>3. Paused(snap) = FALSE
    BY <2>1 DEF Paused
  <2> QED
    BY <2>1, <2>2, <2>3 DEF Ledger!Init
<1>2. TypeOK /\ TypeOK' /\ LedgerInvariant /\ [Next]_vars => [Ledger!Next]_(Ledger!vars)
  <2> SUFFICES ASSUME TypeOK, TypeOK', LedgerInvariant, [Next]_vars
               PROVE  Ledger!Next \/ UNCHANGED Ledger!vars
    OBVIOUS
  <2>1. CASE Start
    BY <2>1, CreateRunBegins, 0 \in 0 .. NumGates - 1 DEF Start, Ledger!Next
  <2>2. ASSUME NEW g \in Gates, Adopt(g) PROVE Ledger!Next
    BY <2>2, CreateRunBegins, g - 1 \in 0 .. NumGates - 1 DEF Adopt, Gates, Ledger!Next
  <2>3. CASE Report
    BY <2>3, RecordFindingsKeeps, KeepsStutters DEF Report
  <2>4. CASE Transition
    BY <2>4, TransitionResolves, ResolvesResolves DEF Transition, Ledger!Next
  <2>5. CASE Acceptance
    <3>1. PICK g \in Gates, f \in Findings, a \in Artifacts :
             \/ AcceptRisk(g, f, a)
             \/ \E old \in Findings : RefreshRisk(g, f, old, a)
      BY <2>5 DEF Acceptance
    <3>2. CASE AcceptRisk(g, f, a)
      BY <3>2, AcceptRiskResolvesOrKeeps, KeepsStutters, ResolvesResolves DEF Ledger!Next
    <3>3. CASE \E old \in Findings : RefreshRisk(g, f, old, a)
      BY <3>3, RefreshRiskKeeps, KeepsStutters
    <3> QED
      BY <3>1, <3>2, <3>3
  <2>6. CASE PauseForHuman
    BY <2>6, PauseHolds DEF Ledger!Next
  <2>7. CASE Approve \/ Reject
    BY <2>7, ResolveStopReleases DEF Approve, Reject, Ledger!Next
  <2>8. CASE Complete
    BY <2>8, CompleteCompletes DEF Ledger!Next
  <2>9. CASE Abort
    BY <2>9, AbortAborts DEF Ledger!Next
  <2>10. CASE Environment \/ Asking \/ UNCHANGED vars
    BY <2>10, EnvironmentKeeps, KeepsStutters
  <2> QED
    BY <2>1, <2>2, <2>3, <2>4, <2>5, <2>6, <2>7, <2>8, <2>9, <2>10 DEF Next
<1> QED
  BY <1>1, <1>2, PipelineLedgerTyped, LedgerStaysOrdered, PTL
  DEF Spec, ImplementsGateLedger, Ledger!Spec

---------------------------------------------------------------------------
(* What the gate ledger promises.  The proofs use its actions only: nothing *)
(* of the document but what GateLedger sees of it.                          *)

\* Appending leaves the sequence it started from as its beginning.
LEMMA PrefixOfAppend ==
    ASSUME NEW S, NEW s \in Seq(S), NEW e \in S
    PROVE  SubSeq(Append(s, e), 1, Len(s)) = s
<1>1. /\ Append(s, e) \in Seq(S)
      /\ \A i \in 1 .. Len(s) : Append(s, e)[i] = s[i]
  BY AppendProperties
<1>2. \A i \in 1 .. Len(s) : Append(s, e)[i] \in S
  BY <1>1, ElementOfSeq
<1> DEFINE t == SubSeq(Append(s, e), 1, Len(s))
<1>3. Len(s) \in Nat
  BY LenProperties
<1>4. /\ t \in Seq(S)
      /\ Len(t) = IF 1 <= Len(s) THEN Len(s) - 1 + 1 ELSE 0
      /\ \A i \in 1 .. Len(s) - 1 + 1 : t[i] = Append(s, e)[1 + i - 1]
  BY <1>2, <1>3, SubSeqProperties
<1>5. Len(t) = Len(s)
  BY <1>3, <1>4
<1>6. \A i \in 1 .. Len(s) : t[i] = s[i]
  BY <1>1, <1>3, <1>4
<1> QED
  BY <1>4, <1>5, <1>6, SeqEqual

\* A run that ended has the type of a kept run.
LEMMA EndedTyped ==
    Ledger!TypeOK /\ snap.status \in Ledger!Terminal => Ledger!Ended \in Ledger!EndedRun
BY DEF Ledger!TypeOK, Ledger!Ended, Ledger!EndedRun, Ledger!Terminal

\* Every variable keeps its type, for every number of gates.
THEOREM GateLedgerTyped == Ledger!Spec => []Ledger!TypeOK
<1>1. Ledger!Init => Ledger!TypeOK
  <2>1. <<>> \in Seq(Ledger!Outcomes) /\ <<>> \in Seq(Ledger!EndedRun)
    BY EmptySeq
  <2> QED
    BY <2>1, 0 \in 0 .. NumGates - 1 DEF Ledger!Init, Ledger!TypeOK, Ledger!Terminal
<1>2. Ledger!TypeOK /\ [Ledger!Next]_(Ledger!vars) => Ledger!TypeOK'
  <2> SUFFICES ASSUME Ledger!TypeOK, [Ledger!Next]_(Ledger!vars) PROVE Ledger!TypeOK'
    OBVIOUS
  <2>1. ASSUME NEW historical \in 0 .. NumGates - 1, Ledger!Begin(historical)
        PROVE  Ledger!TypeOK'
    <3>1. CASE /\ snap.status \in Ledger!Terminal
               /\ snap'.archives = Append(snap.archives, Ledger!Ended)
      <4>1. Ledger!Ended \in Ledger!EndedRun /\ snap.archives \in Seq(Ledger!EndedRun)
        BY <3>1, EndedTyped DEF Ledger!TypeOK
      <4>2. snap'.archives \in Seq(Ledger!EndedRun)
        BY <3>1, <4>1, AppendProperties
      <4> QED
        BY <2>1, <4>2, EmptySeq DEF Ledger!Begin, Ledger!TypeOK
    <3>2. CASE snap'.archives = snap.archives
      BY <2>1, <3>2, EmptySeq DEF Ledger!Begin, Ledger!TypeOK
    <3> QED
      BY <2>1, <3>1, <3>2 DEF Ledger!Begin
  <2>2. ASSUME NEW outcome \in Ledger!Outcomes, Ledger!Resolve(outcome)
        PROVE  Ledger!TypeOK'
    BY <2>2, AppendProperties DEF Ledger!Resolve, Ledger!TypeOK
  <2>3. CASE Ledger!Hold
    BY <2>3 DEF Ledger!Hold, Ledger!TypeOK
  <2>4. CASE Ledger!Release
    BY <2>4 DEF Ledger!Release, Ledger!TypeOK
  <2>5. CASE Ledger!Complete
    BY <2>5 DEF Ledger!Complete, Ledger!TypeOK, Ledger!Terminal
  <2>6. CASE Ledger!Abort
    BY <2>6 DEF Ledger!Abort, Ledger!TypeOK, Ledger!Terminal
  <2>7. CASE UNCHANGED Ledger!vars
    BY <2>7 DEF Ledger!vars, Ledger!TypeOK
  <2> QED
    BY <2>1, <2>2, <2>3, <2>4, <2>5, <2>6, <2>7 DEF Ledger!Next
<1> QED
  BY <1>1, <1>2, PTL DEF Ledger!Spec

\* A completed run, kept or current, has resolved every gate; no run has more
\* outcomes than gates.
THEOREM CompletedRunsResolvedAll == Ledger!Spec => []Ledger!CompletedAll
<1>1. Ledger!Init => Ledger!CompletedAll
  BY EmptySeq DEF Ledger!Init, Ledger!CompletedAll
<1>2. Ledger!TypeOK /\ Ledger!CompletedAll /\ [Ledger!Next]_(Ledger!vars)
        => Ledger!CompletedAll'
  <2> SUFFICES ASSUME Ledger!TypeOK, Ledger!CompletedAll, [Ledger!Next]_(Ledger!vars)
               PROVE  Ledger!CompletedAll'
    OBVIOUS
  <2>0. Len(ArchiveOf(snap).outcomes) \in Nat
    BY LenProperties DEF Ledger!TypeOK
  <2>1. ASSUME NEW historical \in 0 .. NumGates - 1, Ledger!Begin(historical)
        PROVE  Ledger!CompletedAll'
    <3>1. CASE snap'.archives = snap.archives
      BY <2>1, <3>1, EmptySeq DEF Ledger!Begin, Ledger!CompletedAll, Ledger!TypeOK
    <3>2. CASE /\ snap.status \in Ledger!Terminal
               /\ snap'.archives = Append(snap.archives, Ledger!Ended)
      <4>1. /\ Len(snap'.archives) = Len(snap.archives) + 1
            /\ \A i \in 1 .. Len(snap.archives) : snap'.archives[i] = snap.archives[i]
            /\ snap'.archives[Len(snap.archives) + 1] = Ledger!Ended
            /\ snap'.archives \in Seq(Ledger!EndedRun)
        BY <3>2, EndedTyped, AppendProperties DEF Ledger!TypeOK
      <4>2. /\ DOMAIN snap.archives = 1 .. Len(snap.archives)
            /\ DOMAIN snap'.archives = 1 .. Len(snap'.archives)
            /\ Len(snap.archives) \in Nat
        BY <4>1, LenProperties DEF Ledger!TypeOK
      <4>3. Ledger!Ended.status = "completed"
              => Ledger!Ended.base + Len(Ledger!Ended.outcomes) = NumGates
        BY DEF Ledger!Ended, Ledger!CompletedAll
      <4>4. ASSUME NEW i \in DOMAIN snap'.archives, snap'.archives[i].status = "completed"
            PROVE  snap'.archives[i].base + Len(snap'.archives[i].outcomes) = NumGates
        <5>1. CASE i = Len(snap.archives) + 1
          BY <4>1, <4>3, <4>4, <5>1
        <5>2. CASE i \in DOMAIN snap.archives
          BY <4>1, <4>2, <4>4, <5>2 DEF Ledger!CompletedAll
        <5> QED
          BY <4>1, <4>2, <5>1, <5>2
      <4> QED
        BY <2>1, <4>4, EmptySeq DEF Ledger!Begin, Ledger!CompletedAll, Ledger!TypeOK
    <3> QED
      BY <2>1, <3>1, <3>2 DEF Ledger!Begin
  <2>2. ASSUME NEW outcome \in Ledger!Outcomes, Ledger!Resolve(outcome)
        PROVE  Ledger!CompletedAll'
    <3>1. Len(ArchiveOf(snap').outcomes) = Len(ArchiveOf(snap).outcomes) + 1
      BY <2>2, AppendProperties DEF Ledger!Resolve, Ledger!TypeOK
    <3> QED
      BY <2>0, <2>2, <3>1 DEF Ledger!Resolve, Ledger!CompletedAll, Ledger!TypeOK
  <2>3. CASE Ledger!Hold
    BY <2>3 DEF Ledger!Hold, Ledger!CompletedAll
  <2>4. CASE Ledger!Release
    BY <2>4 DEF Ledger!Release, Ledger!CompletedAll
  <2>5. CASE Ledger!Complete
    BY <2>5 DEF Ledger!Complete, Ledger!CompletedAll
  <2>6. CASE Ledger!Abort
    BY <2>6 DEF Ledger!Abort, Ledger!CompletedAll
  <2>7. CASE UNCHANGED Ledger!vars
    BY <2>7 DEF Ledger!vars, Ledger!CompletedAll
  <2> QED
    BY <2>1, <2>2, <2>3, <2>4, <2>5, <2>6, <2>7 DEF Ledger!Next
<1> QED
  BY <1>1, <1>2, GateLedgerTyped, PTL DEF Ledger!Spec

\* Before the first run nothing is resolved.
NothingBeforeFirst == snap.status = "none" => ArchiveOf(snap).outcomes = <<>>

\* No gate has an outcome before the first run begins.
LEMMA FirstRunIsFirst == Ledger!Spec => []NothingBeforeFirst
<1>1. Ledger!Init => NothingBeforeFirst
  BY DEF Ledger!Init, NothingBeforeFirst
<1>2. NothingBeforeFirst /\ [Ledger!Next]_(Ledger!vars) => NothingBeforeFirst'
  BY
     DEF NothingBeforeFirst, Ledger!Next, Ledger!vars, Ledger!Begin, Ledger!Resolve,
         Ledger!Hold, Ledger!Release, Ledger!Complete, Ledger!Abort
<1> QED
  BY <1>1, <1>2, PTL DEF Ledger!Spec

\* Outcomes and kept runs only grow at their end, and a terminal run only leaves
\* by being kept as it ended.
THEOREM HistoryIsKept == Ledger!Spec => Ledger!History
<1> DEFINE Step == /\ SubSeq((snap.archives)', 1, Len(snap.archives)) = snap.archives
                   /\ Len((snap.archives)') = Len(snap.archives)
                        => SubSeq((ArchiveOf(snap).outcomes)', 1, Len(ArchiveOf(snap).outcomes))
                             = ArchiveOf(snap).outcomes
                   /\ snap.status \in Ledger!Terminal
                        => (snap.archives)' = Append(snap.archives, Ledger!Ended)
<1>1. Ledger!TypeOK /\ NothingBeforeFirst /\ [Ledger!Next]_(Ledger!vars)
        => [Step]_(Ledger!vars)
  <2> SUFFICES ASSUME Ledger!TypeOK, NothingBeforeFirst, Ledger!Next PROVE Step
    BY DEF Ledger!vars
  <2>0. /\ SubSeq(snap.archives, 1, Len(snap.archives)) = snap.archives
        /\ SubSeq(ArchiveOf(snap).outcomes, 1, Len(ArchiveOf(snap).outcomes))
             = ArchiveOf(snap).outcomes
        /\ Len(snap.archives) \in Nat
    BY SubSeqFull, LenProperties DEF Ledger!TypeOK
  <2>1. ASSUME NEW historical \in 0 .. NumGates - 1, Ledger!Begin(historical) PROVE Step
    <3>1. CASE snap.status = "none" /\ snap'.archives = snap.archives
      BY <2>0, <2>1, <3>1 DEF Ledger!Begin, NothingBeforeFirst, Ledger!Terminal
    <3>2. CASE /\ snap.status \in Ledger!Terminal
               /\ snap'.archives = Append(snap.archives, Ledger!Ended)
      <4>1. SubSeq(snap'.archives, 1, Len(snap.archives)) = snap.archives
        BY <3>2, EndedTyped, PrefixOfAppend DEF Ledger!TypeOK
      <4>2. Len(snap'.archives) # Len(snap.archives)
        <5>1. Len(snap'.archives) = Len(snap.archives) + 1
          BY <3>2, EndedTyped, AppendProperties DEF Ledger!TypeOK
        <5>2. Len(snap.archives) \in Nat
          BY <2>0
        <5> QED
          BY <5>1, <5>2
      <4> QED
        BY <3>2, <4>1, <4>2
    <3> QED
      BY <2>1, <3>1, <3>2 DEF Ledger!Begin
  <2>2. ASSUME NEW outcome \in Ledger!Outcomes, Ledger!Resolve(outcome) PROVE Step
    <3>1. SubSeq(ArchiveOf(snap').outcomes, 1, Len(ArchiveOf(snap).outcomes))
            = ArchiveOf(snap).outcomes
      BY <2>2, PrefixOfAppend DEF Ledger!Resolve, Ledger!TypeOK
    <3> QED
      BY <2>0, <2>2, <3>1 DEF Ledger!Resolve, Ledger!Terminal
  <2>3. CASE Ledger!Hold
    BY <2>0, <2>3 DEF Ledger!Hold, Ledger!Terminal
  <2>4. CASE Ledger!Release
    BY <2>0, <2>4 DEF Ledger!Release, Ledger!Terminal
  <2>5. CASE Ledger!Complete
    BY <2>0, <2>5 DEF Ledger!Complete, Ledger!Terminal
  <2>6. CASE Ledger!Abort
    BY <2>0, <2>6 DEF Ledger!Abort, Ledger!Terminal
  <2> QED
    BY <2>1, <2>2, <2>3, <2>4, <2>5, <2>6 DEF Ledger!Next
<1> QED
  BY <1>1, GateLedgerTyped, FirstRunIsFirst, PTL DEF Ledger!Spec, Ledger!History

\* A completed run of the pipeline, current or archived, has an outcome for every
\* gate it did not adopt.
THEOREM CompletedPipelinesResolvedAll == Spec => []Ledger!CompletedAll
BY ImplementsTheGateLedger, CompletedRunsResolvedAll, PTL DEF ImplementsGateLedger

\* No mutation takes back the outcome of a gate or changes a run that ended.
THEOREM PipelineHistoryIsKept == Spec => Ledger!History
BY ImplementsTheGateLedger, HistoryIsKept, PTL DEF ImplementsGateLedger
=============================================================================
