----------------------------- MODULE ManagedGates -----------------------------
(***************************************************************************)
(* The gate calls of a managed run (pipeline.py): what record_findings,    *)
(* close_gate, not_applicable, accept_risk and complete derive from the    *)
(* typed evidence of the stage ledger, and what validate() derives again   *)
(* on every later call.                                                    *)
(*                                                                         *)
(* ManagedStages says when the stage ledger lets a gate be entered; here   *)
(* each call also keeps the book of the run: its current findings report,  *)
(* the accepted risks, the evidence of every gate, and what the closeout   *)
(* stage stated about both.  A digest is what it was computed from.        *)
(***************************************************************************)
EXTENDS ManagedStages

CONSTANTS Closers,     \* stages whose evidence is a closeout-record
          MaxRefreshes \* bound: accept-risk --refresh calls

ASSUME BookAssumption == Closers \subseteq Stages /\ MaxRefreshes \in Nat

VARIABLE book

vars == <<ws, run, book>>

\* findings_evidence; gate 0 is the record of a run without any evidence yet.
Report == [gate : 0 .. NumGates, findings : SUBSET Findings,
           from : SUBSET (1 .. MaxRecords), ws : Contents]

\* An accepted risk is told from its re-attestation by the call it is from.
Risk == [gate : 1 .. NumGates, finding : Findings, report : Report, call : Nat]

\* What the entry of a gate is bound to: an evidence bundle or a skip.
Note == [bundle : {None} \cup Report, skip : {None} \cup SkipRecord, risks : SUBSET Risk]

Book == [report : {None} \cup Report, risks : SUBSET Risk, notes : Seq(Note),
         stated : [Closers -> {None} \cup SUBSET Risk], refreshes : 0 .. MaxRefreshes]

EmptyBook == [report |-> None, risks |-> {}, notes |-> <<>>,
              stated |-> [s \in Closers |-> None], refreshes |-> 0]

---------------------------------------------------------------------------
(* Bundles and reports                                                     *)

\* _managed_findings_bundle, at the workspace its owner finished with.
Bundle(r, g) ==
    [gate |-> g, findings |-> GateFindings(r, g),
     from |-> Contributors(r, Owner[g]),
     ws |-> r.history[CHOOSE k \in Successes(r, Owner[g]) : TRUE].after]

HasBundle(r, g) == /\ Cardinality(Successes(r, Owner[g])) = 1
                   /\ ~Conflicting(GateFindings(r, g))

NothingSucceeded(r) == \A s \in Stages : Successes(r, s) = {}

\* _findings_evidence_errors finds nothing.
ReportCurrent(r, report) ==
    /\ report # None
    /\ report.ws = ws
    /\ IF report.gate = 0
       THEN NothingSucceeded(r) /\ r.gates = <<>> /\ report.findings = {}
       ELSE /\ HasBundle(r, report.gate)
            /\ report = [Bundle(r, report.gate) EXCEPT !.ws = ws]

\* open_findings, which every call keeps equal to the report.
Open(b) == IF b.report = None THEN {} ELSE b.report.findings
Mediums(b) == OfSeverity(Open(b), {"medium"})
Highs(b) == OfSeverity(Open(b), {"high"})

Counts(F) == [severity \in {"high", "medium", "low"} |->
                 Cardinality(OfSeverity(F, {severity}))]

\* The condition of a waived gate is the inverse of its owner's predicate, which
\* is frozen as false; the owner did not succeed all the same.
ConditionFalse(r, g) == /\ Owner[g] \in Conditional
                        /\ r.decision = FALSE
                        /\ Successes(r, Owner[g]) = {}

RisksAt(b, g) == {x \in b.risks : x.gate = g}

---------------------------------------------------------------------------
(* validate() of the book.  "strict" is every call's; "refresh" and        *)
(* "findings" tolerate stale risks, and "findings" a stale report too.     *)

ReportHolds(r, b) == IF b.report = None THEN r.gates = <<>> /\ b.risks = {}
                     ELSE ReportCurrent(r, b.report)

Fresh(b, x) == x.report = b.report

\* The entry of an accepted-risk gate names exactly its current acceptances,
\* one for every medium finding there is now.
EntryCovered(r, b, g) == r.gates[g].status = "accepted-risk" =>
    /\ b.notes[g].risks = RisksAt(b, g)
    /\ Cardinality(RisksAt(b, g)) = Cardinality(Mediums(b))
    /\ Mediums(b) # {}

RisksFresh(r, b) == /\ \A x \in b.risks : Fresh(b, x)
                    /\ \A g \in DOMAIN r.gates : EntryCovered(r, b, g)

RisksDistinct(b) == \A x, y \in b.risks :
    x.gate = y.gate /\ x.finding = y.finding => x = y

\* The entries of the resolved gates rederive, each from what it is bound to.
BundleHolds(r, b, g) == HasBundle(r, g) /\ b.notes[g].bundle = Bundle(r, g)
WaiverHolds(r, b, g) == Skips(r, Owner[g]) = {b.notes[g].skip} /\ ConditionFalse(r, g)

NotesHold(r, b) == \A g \in DOMAIN r.gates :
    IF r.gates[g].status = "not-applicable" THEN WaiverHolds(r, b, g)
                                            ELSE BundleHolds(r, b, g)

\* The gates and risks a closeout document has to tell, when it can be written.
Tellable(r, b) == /\ Len(r.gates) = NumGates
                  /\ NotesHold(r, b)
                  /\ \A g \in DOMAIN r.gates : b.notes[g].risks = RisksAt(b, g)

\* The closeout document still tells the gates and the risks as they are.
CloseoutsHold(r, b) == \A s \in Closers :
    b.stated[s] # None => Tellable(r, b) /\ b.stated[s] = b.risks

Validates(r, b, mode) ==
    /\ ValidLedger(r)
    /\ NotesHold(r, b)
    /\ CloseoutsHold(r, b)
    /\ RisksDistinct(b)
    /\ mode # "findings" => ReportHolds(r, b)
    /\ mode = "strict" => RisksFresh(r, b)

---------------------------------------------------------------------------
(* record_findings                                                         *)

Next1(r) == Len(r.gates) + 1

\* The next gate's bundle; without any success, no findings at all.
Recordable(r) ==
    IF HasBundle(r, Next1(r))
    THEN {[Bundle(r, Next1(r)) EXCEPT !.ws = ws]}
    ELSE IF NothingSucceeded(r) /\ r.gates = <<>>
    THEN {[gate |-> 0, findings |-> {}, from |-> {}, ws |-> ws]}
    ELSE {}

RecordFindings ==
    /\ Unpaused(run)
    /\ Next1(run) <= NumGates
    /\ Validates(run, book, "findings")
    /\ \E report \in Recordable(run) : book' = [book EXCEPT !.report = report]
    /\ UNCHANGED <<ws, run>>

---------------------------------------------------------------------------
(* close_gate and not_applicable                                           *)

Passed(b, report) == [b EXCEPT !.report = report,
    !.notes = Append(@, [bundle |-> report, skip |-> None, risks |-> {}])]

\* The report is derived anew; the recorded counts must already be its own.
PassGate(g) ==
    /\ CloseGate(g)
    /\ Validates(run, book, "findings")
    /\ HasBundle(run, g)
    /\ Counts(Open(book)) = Counts(GateFindings(run, g))
    /\ book' = Passed(book, Bundle(run, g))

\* A skipped owner has no findings of its own: the report on record must be
\* current, and clean.
WaiveGate(g) ==
    /\ NotApplicable(g)
    /\ Validates(run, book, "findings")
    /\ ConditionFalse(run, g)
    /\ ReportCurrent(run, book.report)
    /\ Blocking(Open(book)) = {}
    /\ \E x \in Skips(run, Owner[g]) :
          book' = [book EXCEPT !.notes = Append(@,
                      [bundle |-> None, skip |-> x, risks |-> {}])]

---------------------------------------------------------------------------
(* accept_risk                                                             *)

AcceptableAt(g, f) ==
    /\ OwnersCheckpoint(run, Owner[g], ws)
    /\ ReportCurrent(run, book.report)
    /\ Highs(book) = {}
    /\ book.report.gate = g
    /\ f \in Mediums(book)

Acceptance(g, f, call) == [gate |-> g, finding |-> f, report |-> book.report, call |-> call]

\* The last medium finding that is accepted resolves the gate.
AcceptRiskAt(g, f) ==
    /\ GateAllowed(run, g)
    /\ AcceptableAt(g, f)
    /\ Validates(run, book, "strict")
    /\ \A x \in RisksAt(book, g) : x.finding # f
    /\ LET risks == book.risks \cup {Acceptance(g, f, 0)}
           here  == {x \in risks : x.gate = g}
       IN  IF Cardinality(here) = Cardinality(Mediums(book))
           THEN /\ AcceptRisk(g)
                /\ book' = [book EXCEPT !.risks = risks, !.notes = Append(@,
                               [bundle |-> Bundle(run, g), skip |-> None, risks |-> here])]
           ELSE book' = [book EXCEPT !.risks = risks] /\ UNCHANGED <<ws, run>>

\* Retire what is stale and what the call supersedes, attest one again.
Retired(g, old) == {x \in RisksAt(book, g) : ~Fresh(book, x) \/ x.finding = old}

RefreshAllowed(g, f, old) ==
    /\ Unpaused(run)
    /\ g \in DOMAIN run.gates
    /\ run.gates[g].status = "accepted-risk"
    /\ AcceptableAt(g, f)
    /\ Validates(run, book, "refresh")
    /\ Cardinality(RisksAt(book, g) \ Retired(g, old)) < Cardinality(Mediums(book))

RefreshRisk(g, f, old) ==
    /\ book.refreshes < MaxRefreshes
    /\ RefreshAllowed(g, f, old)
    /\ LET again == (book.risks \ Retired(g, old))
                    \cup {Acceptance(g, f, book.refreshes + 1)}
       IN  book' = [book EXCEPT !.risks = again,
                       !.notes[g].risks = {x \in again : x.gate = g},
                       !.refreshes = @ + 1]
    /\ UNCHANGED <<ws, run>>

---------------------------------------------------------------------------
(* complete, and the evidence of the closeout stage                        *)

Covered == {x.finding : x \in RisksAt(book, book.report.gate)} = Mediums(book)

Finalize == /\ Complete
            /\ run.completion.ws = ws
            /\ Validates(run, book, "strict")
            /\ ReportCurrent(run, book.report)
            /\ Highs(book) = {}
            /\ Mediums(book) # {} => Covered
            /\ UNCHANGED book

\* The closeout document is checked against the resolved gates when its
\* evidence is made.
FinishGated(s, d, a) ==
    /\ FinishStage(s, d, a)
    /\ LET k == CHOOSE k \in Exact(run, s, d, a) : TRUE
       IN  IF s \in Closers /\ run'.history[k].evidence # "none"
           THEN /\ Tellable(run, book)
                /\ book' = [book EXCEPT !.stated[s] = book.risks]
           ELSE UNCHANGED book

---------------------------------------------------------------------------
GInit == Init /\ book = EmptyBook

\* A human stop or an abort only refuses every call here: ManagedStages has them.
StageCall == \/ \E d \in BOOLEAN : BindConditions(d)
             \/ \E s \in Stages : ClaimStage(s) \/ AttestSkip(s)
             \/ \E k \in DOMAIN run.history :
                   ReconcileStale(run.history[k].stage, run.history[k].dispatch)
             \/ AttestCompletion \/ EditWorkspace

GNext == \/ StageCall /\ UNCHANGED book
         \/ \E k \in DOMAIN run.history :
               FinishGated(run.history[k].stage, run.history[k].dispatch,
                           run.history[k].attempt)
         \/ RecordFindings
         \/ \E g \in 1 .. NumGates :
               \/ PassGate(g)
               \/ WaiveGate(g)
               \/ \E f \in Findings : \/ AcceptRiskAt(g, f)
                                      \/ \E old \in Findings : RefreshRisk(g, f, old)
         \/ Finalize

GSpec == GInit /\ [][GNext]_vars

---------------------------------------------------------------------------
\* The evidence of a gate never goes out of date: whatever is recorded after
\* it was entered, validate() derives the same bundle again, or finds the same
\* skip (_managed_gate_bundle_problem, _managed_not_applicable_bundle_problem).
GateEvidenceHolds == NotesHold(run, book)

\* Every gate is answered for, whatever is recorded after it: a passed one has
\* no blocking finding below it, an accepted one has no graver finding than a
\* medium, and by the time the run completes exactly those are accepted
\* (close_gate, accept_risk, complete).
GatesAreAnswered == \A g \in DOMAIN run.gates :
    LET findings == GateFindings(run, g)
        mediums  == OfSeverity(findings, {"medium"})
    IN  CASE run.gates[g].status = "passed" -> Blocking(findings) = {}
          [] run.gates[g].status = "accepted-risk" ->
                /\ Blocking(findings) = mediums
                /\ run.status = "completed" =>
                      {x.finding : x \in RisksAt(book, g)} = mediums
          [] OTHER -> Skips(run, Owner[g]) # {}

\* What the handbook promises of an acceptance that went stale: it can be
\* attested again (accept_risk, refresh).
StaleAcceptancesCanBeRefreshed == \A x \in book.risks :
    /\ Unpaused(run)
    /\ ~Fresh(book, x)
    /\ \E k \in Successes(run, Owner[x.gate]) : run.history[k].after = ws
    /\ x.gate \in DOMAIN run.gates
    => \E f \in Findings : RefreshAllowed(x.gate, f, x.finding)
=============================================================================
