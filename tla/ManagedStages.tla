--------------------------- MODULE ManagedStages ---------------------------
(***************************************************************************)
(* The managed stage ledger of pipeline.py: the part of a schema-v2 run    *)
(* that a coordinator writes once bind_managed_execution has frozen the    *)
(* workflow graph.  Operators X.. Allowed are the refusals of a ledger     *)
(* call, operators in the past tense the document it writes; each call is  *)
(* one step because it runs under the snapshot lock (ProjectMutation).     *)
(*                                                                         *)
(* Here any caller may make any call in any order: WorkflowExecutor is the *)
(* coordinator that really makes them, and ManagedGates adds what the gate *)
(* calls derive from the evidence recorded here.  A WorkspaceCheckpoint is *)
(* the content it digests; capabilities, artifacts and timestamps, which   *)
(* the calls compare with frozen or hashed values, are left out.           *)
(***************************************************************************)
EXTENDS Integers, Sequences, FiniteSets

CONSTANTS Stages,       \* active_stages of the frozen contract
          DependsOn,    \* active_stage_dependencies
          Conditional,  \* stages under the stable condition that may be false
          Reviewers,    \* stages whose only evidence is planning-review-verdict
          Deciders,     \* stages whose evidence is a planning-decision
          ReadOnly,     \* stages of read-only, no-shell Claude roles
          NumGates,     \* length of ordered_gates
          Owner,        \* gate_owner_stages
          Contents,     \* contents of the managed worktree
          Base,         \* its content when the run was bound
          Dispatches,   \* dispatch ids a dispatcher may issue
          Findings,     \* what evidence may find: [id, severity] records
          MayFind,      \* bound: what the evidence of a stage may find
          MaxRecords,   \* bound: stage records of one run
          None          \* the absent value (a JSON null)

ASSUME GraphAssumption == /\ DependsOn \in [Stages -> SUBSET Stages]
                          /\ \A s \in Stages : s \notin DependsOn[s]
                          /\ Conditional \subseteq Stages
                          /\ Reviewers \subseteq Stages
                          /\ Deciders \subseteq Stages
                          /\ ReadOnly \subseteq Stages
ASSUME GateAssumption == NumGates \in Nat /\ Owner \in [1 .. NumGates -> Stages]
ASSUME ContentAssumption == Base \in Contents /\ None \notin Contents
ASSUME FindingAssumption ==
    /\ IsFiniteSet(Findings)
    /\ \A f \in Findings : f.severity \in {"high", "medium", "low"}
    /\ MayFind \in [Stages -> SUBSET Findings]
ASSUME BoundAssumption == MaxRecords \in Nat

VARIABLES ws,   \* content of the managed worktree
          run   \* the run document

---------------------------------------------------------------------------
(* Records of the document.                                                *)

Terminal == {"succeeded", "failed", "cancelled"}

\* A failed record is advisory when it carries the planning-advisory marker.
\* Of its findings those are open that no planning decision disposed of.
StageRecord == [stage : Stages, dispatch : Dispatches, attempt : Nat \ {0},
                number : Nat \ {0}, status : {"running"} \cup Terminal,
                evidence : {"none", "typed", "advisory"},
                findings : SUBSET Findings, open : SUBSET Findings, before : Contents, after : Contents \cup {None}]

SkipRecord == [stage : Stages, succeeded : SUBSET Stages, ws : Contents]

GateEntry == [status : {"passed", "not-applicable", "accepted-risk"}, ws : Contents]

Completion == [ws : Contents, succeeded : SUBSET Stages, advisory : SUBSET Stages,
               skipped : SUBSET Stages]

ASSUME AbsentAssumption == None \notin BOOLEAN /\ None \notin Completion

Run == [status : {"active", "completed", "aborted"}, paused : BOOLEAN,
        decision : {None} \cup BOOLEAN, history : Seq(StageRecord),
        skips : SUBSET SkipRecord, gates : Seq(GateEntry),
        completion : {None} \cup Completion]

BoundRun == [status |-> "active", paused |-> FALSE, decision |-> None,
             history |-> <<>>, skips |-> {}, gates |-> <<>>, completion |-> None]

---------------------------------------------------------------------------
(* Reading the ledger.                                                     *)

Of(r, s) == {k \in DOMAIN r.history : r.history[k].stage = s}
WithStatus(r, s, status) == {k \in Of(r, s) : r.history[k].status = status}

Successes(r, s) == WithStatus(r, s, "succeeded")
Running(r, s) == WithStatus(r, s, "running")
Advisories(r, s) == {k \in WithStatus(r, s, "failed") :
                        r.history[k].evidence = "advisory"}
TypedFailures(r, s) == {k \in WithStatus(r, s, "failed") :
                           r.history[k].evidence # "none"}
Skips(r, s) == {x \in r.skips : x.stage = s}

Latest(S) == CHOOSE k \in S : \A j \in S : j <= k

\* Exactly one of: one success, one advisory failure, one skip.
SettledOnce(successes, advisories, skips) ==
    <<Cardinality(successes), Cardinality(advisories), Cardinality(skips)>>
        \in {<<1, 0, 0>>, <<0, 1, 0>>, <<0, 0, 1>>}

Settled(r, s) == SettledOnce(Successes(r, s), Advisories(r, s), Skips(r, s))

\* completed_stage_ids: an advisory failure counts as completed.
Completed(r) == {s \in Stages : Successes(r, s) \cup Advisories(r, s) # {}}
SkippedStages(r) == {x.stage : x \in r.skips}

Unpaused(r) == r.status = "active" /\ ~r.paused

Resolved(r) == 1 .. Len(r.gates)

---------------------------------------------------------------------------
(* bind_workflow_condition_decisions                                       *)

BindAllowed(r, d) == Unpaused(r) /\ r.decision \in {None, d}
Bound(r, d) == [r EXCEPT !.decision = d]

---------------------------------------------------------------------------
(* claim_stage                                                             *)

NotFalse(r, s) == s \in Conditional => r.decision # FALSE

DependenciesSettled(r, s) == \A d \in DependsOn[s] : Settled(r, d)

\* A retry starts from the workspace its failed attempt started from.
RestoredForRetry(r, s) ==
    LET last == r.history[Latest(Of(r, s))]
    IN  Of(r, s) # {} /\ last.status \in {"failed", "cancelled"} => last.before = ws

\* Mutant: the retry of a stage forgets what its typed failure recorded.
ClaimAllowedOverEvidence(r, s) ==
    /\ Unpaused(r)
    /\ NotFalse(r, s)
    /\ DependenciesSettled(r, s)
    /\ RestoredForRetry(r, s)
    /\ Skips(r, s) = {}
    /\ Successes(r, s) = {}
    /\ Running(r, s) = {}

\* Mutant: a stage that succeeded may be run again.
ClaimAllowedAgain(r, s) ==
    /\ Unpaused(r)
    /\ NotFalse(r, s)
    /\ DependenciesSettled(r, s)
    /\ Skips(r, s) = {}
    /\ Running(r, s) = {}

ClaimAllowed(r, s) ==
    /\ Unpaused(r)
    /\ NotFalse(r, s)
    /\ DependenciesSettled(r, s)
    /\ TypedFailures(r, s) = {}
    /\ RestoredForRetry(r, s)
    /\ Skips(r, s) = {}
    /\ Successes(r, s) = {}
    /\ Running(r, s) = {}

Claimed(r, s, d, a) ==
    [r EXCEPT !.history = Append(@,
        [stage |-> s, dispatch |-> d, attempt |-> a,
         number |-> Cardinality(Of(r, s)) + 1, status |-> "running",
         evidence |-> "none", findings |-> {}, open |-> {},
         before |-> ws, after |-> None])]

---------------------------------------------------------------------------
(* finish_stage, with the evidence materialize_managed_stage_evidence made *)

Exact(r, s, d, a) == {k \in Of(r, s) : r.history[k].dispatch = d
                                       /\ r.history[k].attempt = a}

FinishAllowed(r, s, d, a, captured) ==
    /\ Unpaused(r)
    /\ captured = ws
    /\ \E k \in DOMAIN r.history : Exact(r, s, d, a) = {k}
                                   /\ r.history[k].status = "running"

\* What the result of one attempt records: a success has passing typed
\* evidence, a failure may have evidence, a cancellation has none.
Result == [status : Terminal, evidence : {"none", "typed", "advisory"},
           findings : SUBSET Findings, open : SUBSET Findings]

OfSeverity(F, severities) == {f \in F : f.severity \in severities}
Blocking(F) == OfSeverity(F, {"high", "medium"})

\* Two observations that give one finding id different fingerprints.
Conflicting(F) == \E f, g \in F : f # g /\ f.id = g.id

\* pass_requires_zero, and the verdicts of the planning profiles: only these
\* dispose of findings, and only they may pass with a blocking one disposed of.
VerdictHolds(s, x) ==
    IF s \in Reviewers \cup Deciders
    THEN (x.status = "failed") = (Blocking(x.open) # {})
    ELSE /\ x.open = x.findings
         /\ x.status = "succeeded" => OfSeverity(x.open, {"high"}) = {}

ResultOf == [s \in Stages |-> {x \in Result :
    /\ x.status = "succeeded" => x.evidence = "typed"
    /\ x.status = "cancelled" => x.evidence = "none"
    /\ x.evidence = "advisory" => x.status = "failed" /\ s \in Reviewers
    /\ x.open \subseteq x.findings
    /\ x.findings \subseteq MayFind[s]
    /\ ~Conflicting(x.findings)
    /\ IF x.evidence = "none" THEN x.findings = {} ELSE VerdictHolds(s, x)}]

CancelledResult == [status |-> "cancelled", evidence |-> "none",
                    findings |-> {}, open |-> {}]

Finished(r, s, d, a, x) ==
    LET k == CHOOSE k \in Exact(r, s, d, a) : TRUE
    IN  [r EXCEPT !.history[k] = [@ EXCEPT !.status = x.status, !.evidence = x.evidence,
                                           !.findings = x.findings, !.open = x.open,
                                           !.after = ws]]

---------------------------------------------------------------------------
(* attest_skipped_stage                                                    *)

SkipOf(r, s) == [stage |-> s, succeeded |-> DependsOn[s] \cap Completed(r), ws |-> ws]

\* A recorded skip is attested again only word for word; a new one only for
\* a false condition, without dispatch history, after its dependencies, and
\* an advisory failure does not pass for the success the record states.
SkipAllowed(r, s) ==
    /\ Unpaused(r)
    /\ s \in Conditional
    /\ r.decision = FALSE
    /\ IF Skips(r, s) # {}
       THEN Skips(r, s) = {SkipOf(r, s)}
       ELSE /\ Of(r, s) = {}
            /\ \A d \in DependsOn[s] :
                  IF d \in Completed(r) THEN Cardinality(Successes(r, d)) = 1
                  ELSE Cardinality(Skips(r, d)) = 1

SkipAttested(r, s) == [r EXCEPT !.skips = @ \cup {SkipOf(r, s)}]

---------------------------------------------------------------------------
(* _reconcile_stale_stage_attempt_under_lease                              *)

ReconcileAllowed(r, s, d) ==
    /\ Unpaused(r)
    /\ s \in ReadOnly
    /\ \E k \in Of(r, s) :
          /\ {j \in Of(r, s) : r.history[j].dispatch = d} = {k}
          /\ r.history[k].status = "running"
          /\ r.history[k].before = ws

Reconciled(r, s, d) ==
    LET k == CHOOSE k \in Of(r, s) : r.history[k].dispatch = d
    IN  [r EXCEPT !.history[k] = [@ EXCEPT !.status = "cancelled", !.after = ws]]

---------------------------------------------------------------------------
(* Gates: close_gate, accept_risk and not_applicable of a managed run, as  *)
(* far as the stage ledger decides.  ManagedGates is the rest; what they   *)
(* share with a manual run is PipelineLedger.                              *)

\* The stages an owner rests on, itself included.
Closed == {C \in SUBSET Stages : \A c \in C : DependsOn[c] \subseteq C}
Closure == [s \in Stages |-> {t \in Stages : \A C \in Closed : s \in C => t \in C}]

\* The records with evidence that an owner's gate rests on.
Contributors(r, s) == {k \in DOMAIN r.history : r.history[k].stage \in Closure[s]
                                                /\ r.history[k].evidence # "none"}

\* _managed_gate_finding_projection: everything the contributors found; a
\* planning decision answers for what its own record leaves open.
GateFindings(r, g) ==
    IF Owner[g] \in Deciders
    THEN UNION {r.history[k].open : k \in Successes(r, Owner[g])}
    ELSE UNION {r.history[k].findings : k \in Contributors(r, Owner[g])}

OwnersCheckpoint(r, s, c) == \E k \in DOMAIN r.history :
    Successes(r, s) = {k} /\ r.history[k].after = c

GateAllowed(r, g) == Unpaused(r) /\ g = Len(r.gates) + 1

\* Mutant: only critical and high findings keep a gate from closing.
CloseAllowedOverMediums(r, g) ==
    /\ GateAllowed(r, g)
    /\ OwnersCheckpoint(r, Owner[g], ws)
    /\ OfSeverity(GateFindings(r, g), {"high"}) = {}

CloseAllowed(r, g) == /\ GateAllowed(r, g)
                      /\ OwnersCheckpoint(r, Owner[g], ws)
                      /\ Blocking(GateFindings(r, g)) = {}

AcceptAllowed(r, g) == /\ GateAllowed(r, g)
                       /\ OwnersCheckpoint(r, Owner[g], ws)
                       /\ {f.severity : f \in Blocking(GateFindings(r, g))} = {"medium"}

NotApplicableAllowed(r, g) == /\ GateAllowed(r, g)
                              /\ \E x \in Skips(r, Owner[g]) : x.ws = ws

Entered(r, status) == [r EXCEPT !.gates = Append(@, [status |-> status, ws |-> ws])]

---------------------------------------------------------------------------
(* attest_managed_workflow_completion, complete, abort, human stops        *)

Projection(r, c) == [ws |-> c,
                     succeeded |-> {s \in Stages : Successes(r, s) # {}},
                     advisory |-> {s \in Stages : Advisories(r, s) # {}},
                     skipped |-> SkippedStages(r)]

AttestAllowed(r, captured) == /\ Unpaused(r)
                              /\ captured = ws
                              /\ Resolved(r) = 1 .. NumGates
                              /\ \A s \in Stages : Settled(r, s)
                              /\ r.completion \in {None, Projection(r, ws)}

Attested(r) == [r EXCEPT !.completion = Projection(r, ws)]

CompleteAllowed(r) == /\ Unpaused(r)
                      /\ Resolved(r) = 1 .. NumGates
                      /\ \A s \in Stages : Settled(r, s)
                      /\ r.completion = Projection(r, ws)

---------------------------------------------------------------------------
(* The most general client.                                                *)

\* A dispatcher draws an id nobody used for the first attempt, and numbers
\* the retries of a stage's latest attempt on.
Unused == {d \in Dispatches : \A k \in DOMAIN run.history : run.history[k].dispatch # d}

NextAttempts(s) ==
    {<<d, 1>> : d \in Unused}
    \cup {<<run.history[k].dispatch, run.history[k].attempt + 1>> :
             k \in {k \in Of(run, s) : \A j \in Of(run, s) : j <= k}}

\* The coordinator freezes its decisions before its first claim.
BindConditions(d) == /\ BindAllowed(run, d)
                     /\ run.decision = None => run.history = <<>>
                     /\ run' = Bound(run, d)
                     /\ UNCHANGED ws

ClaimStage(s) == /\ Len(run.history) < MaxRecords
                 /\ ClaimAllowed(run, s)
                 /\ run.decision # None
                 /\ \E x \in NextAttempts(s) : run' = Claimed(run, s, x[1], x[2])
                 /\ UNCHANGED ws

FinishStage(s, d, a) == /\ FinishAllowed(run, s, d, a, ws)
                        /\ \E x \in ResultOf[s] : run' = Finished(run, s, d, a, x)
                        /\ UNCHANGED ws

AttestSkip(s) == SkipAllowed(run, s) /\ run' = SkipAttested(run, s) /\ UNCHANGED ws

ReconcileStale(s, d) == /\ ReconcileAllowed(run, s, d)
                        /\ run' = Reconciled(run, s, d)
                        /\ UNCHANGED ws

CloseGate(g) == CloseAllowed(run, g) /\ run' = Entered(run, "passed") /\ UNCHANGED ws
AcceptRisk(g) == /\ AcceptAllowed(run, g)
                 /\ run' = Entered(run, "accepted-risk")
                 /\ UNCHANGED ws
NotApplicable(g) == /\ NotApplicableAllowed(run, g)
                    /\ run' = Entered(run, "not-applicable")
                    /\ UNCHANGED ws

AttestCompletion == AttestAllowed(run, ws) /\ run' = Attested(run) /\ UNCHANGED ws

Complete == /\ CompleteAllowed(run)
            /\ run' = [run EXCEPT !.status = "completed"]
            /\ UNCHANGED ws

Abort == /\ run.status = "active"
         /\ run' = [run EXCEPT !.status = "aborted"]
         /\ UNCHANGED ws

PauseForHuman == /\ Unpaused(run)
                 /\ run' = [run EXCEPT !.paused = TRUE]
                 /\ UNCHANGED ws

\* Only a rejection: a managed stop cannot be approved.
ResolveHumanStop == /\ run.status = "active"
                    /\ run.paused
                    /\ run' = [run EXCEPT !.paused = FALSE]
                    /\ UNCHANGED ws

EditWorkspace == \E c \in Contents \ {ws} : ws' = c /\ UNCHANGED run

Init == ws = Base /\ run = BoundRun

Next == \/ \E d \in BOOLEAN : BindConditions(d)
        \/ \E s \in Stages : ClaimStage(s) \/ AttestSkip(s)
        \/ \E k \in DOMAIN run.history :
              LET h == run.history[k]
              IN  \/ FinishStage(h.stage, h.dispatch, h.attempt)
                  \/ ReconcileStale(h.stage, h.dispatch)
        \/ \E g \in 1 .. NumGates : CloseGate(g) \/ AcceptRisk(g) \/ NotApplicable(g)
        \/ AttestCompletion
        \/ Complete \/ Abort \/ PauseForHuman \/ ResolveHumanStop
        \/ EditWorkspace

Spec == Init /\ [][Next]_<<ws, run>>

---------------------------------------------------------------------------
(* What validate() demands of a managed document, part by part.            *)

Before(r, k) == {j \in Of(r, r.history[k].stage) : j < k}

\* Attempts of a stage are numbered from 1 without gaps.
Numbered(r) == \A k \in DOMAIN r.history :
    r.history[k].number = Cardinality(Before(r, k)) + 1

\* No dispatch attempt is recorded twice.
DispatchesDistinct(r) == \A j, k \in DOMAIN r.history :
    r.history[j].dispatch = r.history[k].dispatch
    /\ r.history[j].attempt = r.history[k].attempt => j = k

\* Nothing follows a settled or running attempt, or unresolved typed evidence.
OnlyRetriesFollow(r) == \A k \in DOMAIN r.history : \A j \in Before(r, k) :
    /\ r.history[j].status \in {"failed", "cancelled"}
    /\ r.history[j].evidence = "none"
    /\ r.history[j].before = r.history[k].before

\* Every attempt started after each of its dependencies had settled, once.
DependenciesFirst(r) == \A k \in DOMAIN r.history : \A d \in DependsOn[r.history[k].stage] :
    SettledOnce({j \in Successes(r, d) : j < k}, {j \in Advisories(r, d) : j < k},
                Skips(r, d))

\* A stage is skipped once, for a false condition, and never both run and
\* skipped; a dependency its record calls succeeded did succeed.
SkipsHold(r) == \A x \in r.skips :
    /\ Skips(r, x.stage) = {x}
    /\ x.stage \in Conditional
    /\ r.decision = FALSE
    /\ Of(r, x.stage) = {}
    /\ \A d \in DependsOn[x.stage] : IF d \in x.succeeded
                                     THEN Cardinality(Successes(r, d)) = 1
                                     ELSE Cardinality(Skips(r, d)) = 1

ConditionsHold(r) == \A k \in DOMAIN r.history : NotFalse(r, r.history[k].stage)

\* Each gate stands on the workspace its owner finished with, or was skipped at.
GatesHold(r) == \A g \in DOMAIN r.gates :
    IF r.gates[g].status = "not-applicable"
    THEN \E x \in Skips(r, Owner[g]) : x.ws = r.gates[g].ws
    ELSE OwnersCheckpoint(r, Owner[g], r.gates[g].ws)

\* The completion attestation still describes the stages and the gates.
CompletionHolds(r) ==
    /\ r.completion # None =>
          /\ r.completion = Projection(r, r.completion.ws)
          /\ Resolved(r) = 1 .. NumGates
          /\ \A s \in Stages : Settled(r, s)
    /\ r.status = "completed" => r.completion # None

ValidLedger(r) == /\ Numbered(r)
                  /\ DispatchesDistinct(r)
                  /\ OnlyRetriesFollow(r)
                  /\ DependenciesFirst(r)
                  /\ ConditionsHold(r)
                  /\ SkipsHold(r)
                  /\ GatesHold(r)
                  /\ CompletionHolds(r)

\* Every document that legal calls write passes the managed part of
\* validate(), although claim_stage, finish_stage and the attestations never
\* call it (pipeline.py, validate).
LedgerValid == ValidLedger(run)

TypeOK == ws \in Contents /\ run \in Run
=============================================================================
