-------------------------- MODULE PipelineLedger --------------------------
(***************************************************************************)
(* The schema-v2 gate ledger of pipeline.py, for a run driven by hand      *)
(* (no managed or program execution is bound).  One action is one CLI      *)
(* mutation; each runs under the snapshot lock, so it is one step here     *)
(* (ProjectMutation takes the lock apart); not-applicable is two, for it   *)
(* judges its gate by the installed policy before it takes the lock.  The  *)
(* environment moves the checkout, edits the evidence files and replaces   *)
(* the installed policy.                                                   *)
(*                                                                         *)
(* Data: a sha256 is the content it hashes, the finding-set digest is the  *)
(* record it hashes, Critical and High counts are one flag ("severe"), Low *)
(* and Cosmetic, which block nothing, are left out.                        *)
(***************************************************************************)
EXTENDS Integers, Sequences, FiniteSets

CONSTANTS NumGates,      \* length of ordered_gates
          Policies,      \* installed gate policies (definition + selection digests)
          Conditional,   \* Conditional[p]: the gates policy p allows to be not-applicable
          Branches,      \* git branches of the checkout
          Commits,       \* git commits HEAD may point to
          Artifacts,     \* project-relative paths of evidence files
          Versions,      \* contents of an evidence file
          Findings,      \* identities of Medium findings
          MaxMedium,     \* bound: largest Medium count a report states
          MaxStops,      \* bound: human stops requested in one run
          MaxRetired,    \* bound: acceptances moved to accepted_risk_history
          MaxArchives,   \* bound: terminal runs archived
          None           \* the absent value (a JSON null, a missing file)

ASSUME SizeAssumption == /\ NumGates \in Nat \ {0}
                         /\ MaxMedium \in Nat
                         /\ MaxStops \in Nat
                         /\ MaxRetired \in Nat
                         /\ MaxArchives \in Nat
ASSUME ConditionalAssumption == Conditional \in [Policies -> SUBSET (1 .. NumGates)]
ASSUME NoneAssumption == None \notin Versions \cup Commits \cup Branches \cup Policies

VARIABLES tree,     \* the checkout: branch and HEAD commit
          files,    \* content of every evidence file, None when it is deleted
          policy,   \* the installed gate policy
          asked,    \* gates a waiting not-applicable command found conditional
          snap      \* the pipeline snapshot document

env == <<tree, files, policy, asked>>
vars == <<tree, files, policy, asked, snap>>

Gates == 1 .. NumGates
Ready == NumGates + 1                  \* stage "ready-to-complete"
Slots == 1 .. NumGates * MaxMedium     \* places in the accepted_risks array

---------------------------------------------------------------------------
(* Records of the snapshot document.                                       *)

EvidenceRef == [path : Artifacts, sha : Versions]

FindingSet == [severe : BOOLEAN, medium : 0 .. MaxMedium,
               ev : EvidenceRef, commit : Commits]
NoFindings == [severe |-> FALSE, medium |-> 0, ev |-> None, commit |-> None]

FindingDigest == [severe : BOOLEAN, medium : 0 .. MaxMedium,
                  sha : Versions, commit : Commits]

Risk == [finding : Findings, gate : Gates, ev : EvidenceRef,
         medium : 1 .. MaxMedium, commit : Commits, set : FindingDigest]

ASSUME NoRiskAssumption == None \notin Risk

RiskIdentity == [finding : Findings, gate : Gates, sha : Versions,
                 medium : 1 .. MaxMedium, commit : Commits, set : FindingDigest]

Clearance == [ev : EvidenceRef, commit : Commits, set : FindingDigest]

PositionStatuses == {"passed", "not-applicable", "accepted-risk"}

GateEntry == [gate : Gates, status : PositionStatuses, ev : EvidenceRef \cup {None},
              commit : Commits, ids : SUBSET RiskIdentity,
              clearance : Clearance \cup {None}]

HumanStop == [status : {"pending", "approved", "rejected"},
              ev : EvidenceRef \cup {None}]

Terminal == {"completed", "aborted"}

ArchivedRun == [status : Terminal, base : 0 .. NumGates - 1,
                outcomes : Seq(PositionStatuses)]

Snapshot == [status : {"none", "active"} \cup Terminal,
             branch : Branches \cup {None}, commit : Commits \cup {None},
             policy : Policies \cup {None}, base : 0 .. NumGates - 1,
             stage : 0 .. Ready, findings : FindingSet \cup {NoFindings},
             history : Seq(GateEntry), risks : [Slots -> Risk \cup {None}],
             retired : SUBSET Risk, stops : Seq(HumanStop),
             archives : Seq(ArchivedRun)]

NoRun == [status |-> "none", branch |-> None, commit |-> None, policy |-> None,
          base |-> 0, stage |-> 0, findings |-> NoFindings, history |-> <<>>,
          risks |-> [i \in Slots |-> None], retired |-> {}, stops |-> <<>>,
          archives |-> <<>>]

---------------------------------------------------------------------------
(* Reading the document against the project.                               *)

Evidence(a) == [path |-> a, sha |-> files[a]]
Usable(a) == files[a] # None
Intact(ev) == files[ev.path] = ev.sha

Digest(f) == [severe |-> f.severe, medium |-> f.medium, sha |-> f.ev.sha,
              commit |-> f.commit]

Fingerprint(r) == [finding |-> r.finding, gate |-> r.gate, sha |-> r.ev.sha,
                   medium |-> r.medium, commit |-> r.commit, set |-> r.set]

Live(s) == {i \in Slots : s.risks[i] # None}
RisksAt(s, g) == {i \in Live(s) : s.risks[i].gate = g}
RiskIds(s, g) == {Fingerprint(s.risks[i]) : i \in RisksAt(s, g)}

AcceptedEntries(s) == {k \in DOMAIN s.history : s.history[k].status = "accepted-risk"}

\* Gates with a position status, and the gates an adoption declares historical.
Resolved(s) == (1 .. s.base) \cup {s.history[k].gate : k \in DOMAIN s.history}

\* The recorded gates ascend, so the furthest anchor is the last entry.
Position(s) == IF s.history = <<>> THEN s.base ELSE s.history[Len(s.history)].gate

\* Mutant: the order check lets a gate be skipped.
NextOrLater(s, g) == g > Position(s)
NextInOrder(s, g) == g = Position(s) + 1

Paused(s) == \E k \in DOMAIN s.stops : s.stops[k].status = "pending"

ActiveRun(s) == /\ s.status = "active"
                /\ s.branch = tree.branch
                /\ s.policy = policy

FindingsCurrent(s, c) == /\ s.findings # NoFindings
                         /\ Intact(s.findings.ev)
                         /\ s.findings.commit = c

---------------------------------------------------------------------------
(* validate(): the coherence check almost every mutation starts from.      *)
(* relaxed: risk freshness is not checked (a refresh, or new findings).    *)
(* historical: the run is terminal and judged without the installed policy.*)

\* The commit a run's findings and acceptances must belong to.
FreshnessCommit(s) ==
    IF s.status = "completed" THEN s.commit
    ELSE IF s.status = "aborted"
         THEN IF s.findings # NoFindings THEN s.findings.commit ELSE s.commit
         ELSE tree.commit

FindingsValid(s) ==
    IF s.findings # NoFindings
    THEN FindingsCurrent(s, FreshnessCommit(s))
    ELSE s.history = <<>> /\ Live(s) = {}

StopsValid(s) ==
    LET pending == {k \in DOMAIN s.stops : s.stops[k].status = "pending"}
    IN  /\ Cardinality(pending) <= 1
        /\ pending # {} => s.status = "active"
        /\ \A k \in DOMAIN s.stops \ pending :
              LET stop == s.stops[k]
              IN  /\ stop.status = "approved" => stop.ev # None
                  /\ stop.ev # None => Intact(stop.ev)

\* Every entry follows its predecessor and keeps the evidence it was closed on.
EntryValid(s, k, historical) ==
    LET entry == s.history[k]
    IN  /\ entry.gate = (IF k = 1 THEN s.base ELSE s.history[k - 1].gate) + 1
        /\ entry.status = "not-applicable" /\ ~historical
              => entry.gate \in Conditional[policy]
        /\ entry.status # "accepted-risk" => Intact(entry.ev)

\* An acceptance still describes the current findings, commit and evidence.
RiskFresh(s, r) ==
    /\ r.medium = s.findings.medium
    /\ s.findings # NoFindings /\ r.set = Digest(s.findings)
    /\ Intact(r.ev)
    /\ s.status # "aborted" => r.commit = FreshnessCommit(s)

RisksDistinct(s) ==
    \A i, j \in Live(s) : /\ s.risks[i].finding = s.risks[j].finding
                          /\ s.risks[i].gate = s.risks[j].gate
                          => i = j

ClearanceValid(s, c) ==
    /\ c # None
    /\ Intact(c.ev)
    /\ s.status # "aborted" => c.commit = FreshnessCommit(s)
    /\ s.findings # NoFindings /\ c.set = Digest(s.findings)

\* An accepted-risk entry covers the open Medium findings exactly.
AcceptanceComplete(s, entry) ==
    /\ entry.ids = RiskIds(s, entry.gate)
    /\ Cardinality(RisksAt(s, entry.gate)) = s.findings.medium
    /\ s.findings.medium = 0 => ClearanceValid(s, entry.clearance)

StageValid(s) ==
    CASE s.status = "active" ->
           s.stage = (CHOOSE g \in 1 .. Ready :
                         g \notin Resolved(s) /\ 1 .. (g - 1) \subseteq Resolved(s))
      [] s.status = "completed" -> s.stage = 0 /\ Gates \subseteq Resolved(s)
      [] OTHER -> s.stage = 0

Coherent(s, historical) ==
    /\ historical => s.status \in Terminal
    /\ ~historical => s.branch = tree.branch /\ s.policy = policy
    /\ StopsValid(s)
    /\ \A k \in DOMAIN s.history : EntryValid(s, k, historical)
    /\ RisksDistinct(s)
    /\ StageValid(s)

\* Mutant: fresh acceptances are not counted against the open findings.
AcceptancesFreshUncounted(s) == \A i \in Live(s) : RiskFresh(s, s.risks[i])

AcceptancesFresh(s) ==
    /\ \A i \in Live(s) : RiskFresh(s, s.risks[i])
    /\ \A k \in AcceptedEntries(s) : AcceptanceComplete(s, s.history[k])

\* validate(strict=True)
Valid(s) == Coherent(s, FALSE) /\ FindingsValid(s) /\ AcceptancesFresh(s)

\* Mutant: record-findings asks for the findings it is about to replace.
ValidForFindingsStrict(s) == Coherent(s, FALSE) /\ FindingsValid(s)

\* validate(strict=True, _refresh_findings=True)
ValidForFindings(s) == Coherent(s, FALSE)

\* validate(strict=True, _refresh_gate=gate)
ValidForRefresh(s) == Coherent(s, FALSE) /\ FindingsValid(s)

\* validate(strict=True, _historical_terminal=True)
ValidTerminal(s) == Coherent(s, TRUE) /\ FindingsValid(s) /\ AcceptancesFresh(s)

---------------------------------------------------------------------------
(* Lifecycle: start, adopt, record-findings.                               *)

FreshRun(base, archives) ==
    [NoRun EXCEPT !.status = "active", !.branch = tree.branch,
                  !.commit = tree.commit, !.policy = policy, !.base = base,
                  !.stage = base + 1, !.archives = archives]

ArchiveOf(s) == [status |-> s.status, base |-> s.base,
                 outcomes |-> [k \in DOMAIN s.history |-> s.history[k].status]]

\* start (base = 0) and adopt (the gates up to base are historical).  An active
\* run is never replaced; a terminal one is validated, then archived.
CreateRun(base) ==
    /\ \/ /\ snap.status = "none"
          /\ snap' = FreshRun(base, <<>>)
       \/ /\ snap.status \in Terminal
          /\ ValidTerminal(snap)
          /\ Len(snap.archives) < MaxArchives
          /\ snap' = FreshRun(base, Append(snap.archives, ArchiveOf(snap)))
    /\ UNCHANGED env

Start == CreateRun(0)
Adopt(g) == CreateRun(g - 1)

RecordFindings(severe, medium, a) ==
    /\ Usable(a)
    /\ ActiveRun(snap)
    /\ ~Paused(snap)
    /\ ValidForFindings(snap)
    /\ snap' = [snap EXCEPT !.findings = [severe |-> severe, medium |-> medium,
                                          ev |-> Evidence(a), commit |-> tree.commit],
                            !.commit = tree.commit]
    /\ UNCHANGED env

---------------------------------------------------------------------------
(* Gate transitions: close-gate, not-applicable, accept-risk.              *)

\* Mutant: the check is relaxed as for a refresh.
ReadyThoughStale(s) ==
    /\ ActiveRun(s)
    /\ ~Paused(s)
    /\ ValidForRefresh(s)
    /\ FindingsCurrent(s, tree.commit)

\* close_gate, not_applicable and complete all start from here.
ReadyForTransition(s) ==
    /\ ActiveRun(s)
    /\ ~Paused(s)
    /\ Valid(s)
    /\ FindingsCurrent(s, tree.commit)

NoBlockingFindings(s) == ~s.findings.severe /\ s.findings.medium = 0

Entry(g, status, ev, ids) == [gate |-> g, status |-> status, ev |-> ev,
                              commit |-> tree.commit, ids |-> ids, clearance |-> None]

\* Append the entry and move the stage to the gate after it (_advance_run).
Advance(s, entry) == [s EXCEPT !.history = Append(@, entry),
                               !.stage = entry.gate + 1,
                               !.commit = tree.commit]

CloseGate(g, a) ==
    /\ Usable(a)
    /\ ReadyForTransition(snap)
    /\ NoBlockingFindings(snap)
    /\ NextInOrder(snap, g)
    /\ snap' = Advance(snap, Entry(g, "passed", Evidence(a), {}))
    /\ UNCHANGED env

\* The part of not_applicable before its lock: the policy that says whether the
\* gate is conditional is the one installed now.
AskNotApplicable(g) ==
    /\ g \notin asked
    /\ g \in Conditional[policy]
    /\ asked' = asked \cup {g}
    /\ UNCHANGED <<tree, files, policy, snap>>

\* Under the lock only digests of the policy are compared (ActiveRun).
NotApplicable(g, a) ==
    /\ Usable(a)
    /\ g \in asked
    /\ ReadyForTransition(snap)
    /\ NextInOrder(snap, g)
    /\ NoBlockingFindings(snap)
    /\ snap' = Advance(snap, Entry(g, "not-applicable", Evidence(a), {}))
    /\ asked' = asked \ {g}
    /\ UNCHANGED <<tree, files, policy>>

\* It is refused under the lock, times out before it, or is killed.
GiveUpNotApplicable(g) ==
    /\ g \in asked
    /\ asked' = asked \ {g}
    /\ UNCHANGED <<tree, files, policy, snap>>

RiskRecord(s, g, f, a) == [finding |-> f, gate |-> g, ev |-> Evidence(a),
                           medium |-> s.findings.medium, commit |-> tree.commit,
                           set |-> Digest(s.findings)]

\* risks.append(record)
AddRisk(s, r) ==
    [s EXCEPT !.risks[CHOOSE i \in Slots : s.risks[i] = None] = r,
              !.commit = tree.commit]

\* Only the last missing acceptance resolves the gate; before that the record is
\* persisted and the gate stays open.
AcceptRisk(g, f, a) ==
    /\ Usable(a)
    /\ ReadyForTransition(snap)
    /\ ~snap.findings.severe
    /\ snap.findings.medium >= 1
    /\ NextInOrder(snap, g)
    /\ \A i \in RisksAt(snap, g) : snap.risks[i].finding # f
    /\ Cardinality(RisksAt(snap, g)) < snap.findings.medium
    /\ LET recorded == AddRisk(snap, RiskRecord(snap, g, f, a))
       IN  snap' = IF Cardinality(RisksAt(recorded, g)) = snap.findings.medium
                   THEN Advance(recorded, Entry(g, "accepted-risk", None, RiskIds(recorded, g)))
                   ELSE recorded
    /\ UNCHANGED env

(***************************************************************************)
(* accept-risk --refresh at a gate that already has an accepted-risk       *)
(* entry.  Every stale acceptance of the gate and the one the operator     *)
(* supersedes go to accepted_risk_history; then either the gate is cleared *)
(* (no Medium finding is left) or finding f is attested again.             *)
(***************************************************************************)
Superseded(s, g, old) == {i \in RisksAt(s, g) : s.risks[i].finding = old}

StaleRisks(s, g) == {i \in RisksAt(s, g) : ~RiskFresh(s, s.risks[i])}

\* Mutant: superseded acceptances are dropped.
RetireForgetting(s, gone) ==
    [s EXCEPT !.risks = [i \in Slots |-> IF i \in gone THEN None ELSE s.risks[i]],
              !.commit = tree.commit]

Retire(s, gone) ==
    [s EXCEPT !.risks = [i \in Slots |-> IF i \in gone THEN None ELSE s.risks[i]],
              !.retired = @ \cup {s.risks[i] : i \in gone},
              !.commit = tree.commit]

\* Mutant: the entry keeps the identities it was recorded with.
RebindCommit(s, k) == [s EXCEPT !.history[k].commit = tree.commit]

\* The entry is rebound to the gate's live acceptances, all of them or not.
Rebind(s, k) ==
    [s EXCEPT !.history[k] = [@ EXCEPT !.ids = RiskIds(s, s.history[k].gate),
                                       !.commit = tree.commit]]

Clear(s, k, a) ==
    [Rebind(s, k) EXCEPT !.history[k] = [@ EXCEPT !.clearance =
        [ev |-> Evidence(a), commit |-> tree.commit, set |-> Digest(s.findings)]]]

RefreshRisk(g, f, old, a) ==
    /\ Usable(a)
    /\ ActiveRun(snap)
    /\ ~Paused(snap)
    /\ ValidForRefresh(snap)
    /\ FindingsCurrent(snap, tree.commit)
    /\ ~snap.findings.severe
    /\ \E k \in AcceptedEntries(snap) :
         LET gone == StaleRisks(snap, g) \cup Superseded(snap, g, old)
             kept == Cardinality(RisksAt(snap, g) \ gone)
             left == Retire(snap, gone)
         IN  /\ snap.history[k].gate = g
             /\ Cardinality(left.retired) <= MaxRetired
             /\ \/ /\ snap.findings.medium = 0
                   /\ Superseded(snap, g, old) # {}
                   /\ snap' = Clear(left, k, a)
                \/ /\ kept < snap.findings.medium
                   /\ snap' = Rebind(AddRisk(left, RiskRecord(snap, g, f, a)), k)
    /\ UNCHANGED env

---------------------------------------------------------------------------
(* Human stops and terminal transitions.                                   *)

PauseForHuman ==
    /\ ActiveRun(snap)
    /\ ~Paused(snap)
    /\ Len(snap.stops) < MaxStops
    /\ snap' = [snap EXCEPT !.stops = Append(@, [status |-> "pending", ev |-> None]),
                            !.commit = tree.commit]
    /\ UNCHANGED env

\* An approval carries evidence; a rejection may come without it.
Resolution(s, k, decision, ev) ==
    [s EXCEPT !.stops[k] = [status |-> decision, ev |-> ev], !.commit = tree.commit]

ResolveHumanStop(k, decision, ev) ==
    /\ k \in DOMAIN snap.stops
    /\ decision = "approved" => ev # None
    /\ ActiveRun(snap)
    /\ snap.stops[k].status = "pending"
    /\ snap' = Resolution(snap, k, decision, ev)
    /\ UNCHANGED env

Approve == \E k \in 1 .. MaxStops, a \in Artifacts :
              Usable(a) /\ ResolveHumanStop(k, "approved", Evidence(a))
Reject == \E k \in 1 .. MaxStops : ResolveHumanStop(k, "rejected", None)

\* complete: some accepted-risk gate holds exactly the open Medium findings.
MediumCovered(s) ==
    s.findings.medium > 0 =>
        \E k \in AcceptedEntries(s) :
            Cardinality(RisksAt(s, s.history[k].gate)) = s.findings.medium

\* Mutant: gates may be left open.
CompleteEarly ==
    /\ ReadyForTransition(snap)
    /\ ~snap.findings.severe
    /\ MediumCovered(snap)
    /\ snap' = [snap EXCEPT !.status = "completed", !.stage = 0, !.commit = tree.commit]
    /\ UNCHANGED env

Complete ==
    /\ ReadyForTransition(snap)
    /\ ~snap.findings.severe
    /\ MediumCovered(snap)
    /\ Gates \subseteq Resolved(snap)
    /\ snap' = [snap EXCEPT !.status = "completed", !.stage = 0, !.commit = tree.commit]
    /\ UNCHANGED env

\* abort does not validate, and a pending human stop does not hold it back.
Abort ==
    /\ ActiveRun(snap)
    /\ snap' = [snap EXCEPT !.status = "aborted", !.stage = 0, !.commit = tree.commit]
    /\ UNCHANGED env

---------------------------------------------------------------------------
(* The environment: git, the authors of evidence, the upgrade command.     *)

MoveHead(t) == /\ tree # t
               /\ tree' = t
               /\ UNCHANGED <<files, policy, asked, snap>>

EditEvidence(a, v) == /\ files[a] # v
                      /\ files' = [files EXCEPT ![a] = v]
                      /\ UNCHANGED <<tree, policy, asked, snap>>

ChangePolicy(p) == /\ policy # p
                   /\ policy' = p
                   /\ UNCHANGED <<tree, files, asked, snap>>

Environment ==
    \/ \E t \in [branch : Branches, commit : Commits] : MoveHead(t)
    \/ \E a \in Artifacts, v \in Versions \cup {None} : EditEvidence(a, v)
    \/ \E p \in Policies : ChangePolicy(p)

---------------------------------------------------------------------------
Init ==
    /\ tree \in [branch : Branches, commit : Commits]
    /\ files \in [Artifacts -> Versions]
    /\ policy \in Policies
    /\ asked = {}
    /\ snap = NoRun

Report ==
    \E severe \in BOOLEAN, medium \in 0 .. MaxMedium, a \in Artifacts :
        RecordFindings(severe, medium, a)

Acceptance ==
    \E g \in Gates, f \in Findings, a \in Artifacts :
        \/ AcceptRisk(g, f, a)
        \/ \E old \in Findings : RefreshRisk(g, f, old, a)

Transition ==
    \E g \in Gates, a \in Artifacts : CloseGate(g, a) \/ NotApplicable(g, a)

Asking == \E g \in Gates : AskNotApplicable(g) \/ GiveUpNotApplicable(g)

Next ==
    \/ Start
    \/ \E g \in Gates : Adopt(g)
    \/ Report
    \/ Transition
    \/ Acceptance
    \/ PauseForHuman
    \/ Approve
    \/ Reject
    \/ Complete
    \/ Abort
    \/ Asking
    \/ Environment

Spec == Init /\ [][Next]_vars

---------------------------------------------------------------------------
(* Types, and what the ledger promises.                                    *)

\* Every variable, and every record of the snapshot document, has its shape.
TypeOK ==
    /\ tree \in [branch : Branches, commit : Commits]
    /\ files \in [Artifacts -> Versions \cup {None}]
    /\ policy \in Policies
    /\ asked \subseteq Gates
    /\ snap \in Snapshot

\* gate_history is the installed order, gap-free from the adopted position, and
\* the stage of an active run is the gate after it (_order_check, _advance_run).
LedgerInOrder ==
    /\ \A k \in DOMAIN snap.history : snap.history[k].gate = snap.base + k
    /\ snap.base + Len(snap.history) <= NumGates
    /\ snap.status = "active" => snap.stage = snap.base + Len(snap.history) + 1

\* No document is written before the first run, and no command leaves two human
\* stops pending: resolving the one that holds the run back releases it.
BlankBeforeFirstRun ==
    snap.status = "none" => snap.history = <<>> /\ snap.archives = <<>>
OnePendingStop ==
    \A j, k \in DOMAIN snap.stops :
        snap.stops[j].status = "pending" /\ snap.stops[k].status = "pending" => j = k

\* Nothing is built on a skip that the policy the run was started under does not
\* allow: such an entry, left by a not_applicable that judged its gate by a policy
\* swapped in before the lock and out again, stays the last of its run, which no
\* further gate and no completion follows (validate under each command's lock).
SkipAllowed(s, k) ==
    s.history[k].status = "not-applicable" => s.history[k].gate \in Conditional[s.policy]
SkipsAreConditional ==
    \A k \in DOMAIN snap.history :
        k < Len(snap.history) \/ snap.status = "completed" => SkipAllowed(snap, k)

\* The order of the ledger with what keeps it inductive, and its skips.
LedgerInvariant == LedgerInOrder /\ BlankBeforeFirstRun /\ OnePendingStop /\ SkipsAreConditional

\* A completed run resolved every gate; its last report belongs to the commit it
\* completed at and has no Critical or High; and when Medium findings are open,
\* every accepted-risk gate holds one acceptance for each of them, all made on
\* that commit and that report, whatever was refreshed on the way (complete()).
CompletedRunIsCovered ==
    snap.status = "completed" =>
        /\ snap.base + Len(snap.history) = NumGates
        /\ snap.findings.commit = snap.commit
        /\ ~snap.findings.severe
        /\ snap.findings.medium > 0 => AcceptedEntries(snap) # {}
        /\ \A k \in AcceptedEntries(snap) :
              LET held == RisksAt(snap, snap.history[k].gate)
              IN  /\ Cardinality({snap.risks[i].finding : i \in held}) = snap.findings.medium
                  /\ \A i \in held : /\ snap.risks[i].commit = snap.commit
                                     /\ snap.risks[i].set = Digest(snap.findings)
                  /\ snap.history[k].ids = RiskIds(snap, snap.history[k].gate)

\* A gate is resolved, or a run completed, only over a ledger that can still be
\* trusted: no stop is pending, the evidence of every earlier gate and of the
\* report is as recorded, and every acceptance was made on HEAD for that report
\* (the validate() call before close-gate, not-applicable, accept-risk, complete).
TransitionTrustsLedger ==
    [][(/\ snap.status = "active"
        /\ \/ Len(snap'.history) > Len(snap.history)
           \/ snap'.status = "completed")
       => /\ \A k \in DOMAIN snap.stops : snap.stops[k].status # "pending"
          /\ files[snap.findings.ev.path] = snap.findings.ev.sha
          /\ snap.findings.commit = tree.commit
          /\ \A k \in DOMAIN snap.history \ AcceptedEntries(snap) :
                files[snap.history[k].ev.path] = snap.history[k].ev.sha
          /\ \A i \in Live(snap) : /\ snap.risks[i].commit = tree.commit
                                   /\ snap.risks[i].medium = snap.findings.medium
                                   /\ files[snap.risks[i].ev.path] = snap.risks[i].ev.sha]_vars

\* Within a run an acceptance is never lost: a refresh moves it to the audit
\* history, and the audit history only grows (accept_risk, accepted_risk_history).
AcceptancesOf(s) == {s.risks[i] : i \in Live(s)} \cup s.retired
AuditTrailKept ==
    [][Len(snap'.archives) = Len(snap.archives)
       => /\ AcceptancesOf(snap) \subseteq AcceptancesOf(snap')
          /\ snap.retired \subseteq snap'.retired]_vars

\* Work continues after HEAD moved: where no risk was accepted and the recorded
\* evidence is intact, recording the findings again is all validate() asks for;
\* unless a gate was skipped that the run's policy requires.
ReportRestores ==
    LET intact == /\ AcceptedEntries(snap) = {} /\ Live(snap) = {}
                  /\ \A k \in DOMAIN snap.history :
                        Intact(snap.history[k].ev) /\ SkipAllowed(snap, k)
                  /\ \A k \in DOMAIN snap.stops :
                        snap.stops[k].ev = None \/ Intact(snap.stops[k].ev)
    IN  ActiveRun(snap) /\ intact =>
            \A severe \in BOOLEAN, medium \in 0 .. MaxMedium,
               a \in {b \in Artifacts : Usable(b)} :
                  /\ ValidForFindings(snap)
                  /\ Valid([snap EXCEPT !.findings =
                               [severe |-> severe, medium |-> medium,
                                ev |-> Evidence(a), commit |-> tree.commit]])

\* With Medium findings open, an accepted-risk gate is either fully attested for
\* the current report or has room for one more refresh (accept_risk(refresh=True)).
\* A gate cleared with none open is left out: nothing can be superseded there.
RefreshHasRoom ==
    ActiveRun(snap) /\ ValidForRefresh(snap) /\ snap.findings.medium > 0 =>
        \A k \in AcceptedEntries(snap) :
            LET g == snap.history[k].gate
            IN  \/ AcceptanceComplete(snap, snap.history[k]) /\ StaleRisks(snap, g) = {}
                \/ Cardinality(RisksAt(snap, g) \ StaleRisks(snap, g)) < snap.findings.medium

---------------------------------------------------------------------------
(* The ledger implements GateLedger.                                       *)

Ledger == INSTANCE GateLedger WITH
              status <- snap.status,
              base <- snap.base,
              outcomes <- ArchiveOf(snap).outcomes,
              held <- Paused(snap),
              past <- snap.archives

\* Every mutation is a step of the gate ledger or changes nothing it shows.
ImplementsGateLedger == Ledger!Spec
=============================================================================
