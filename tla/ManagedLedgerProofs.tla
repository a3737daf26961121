------------------------- MODULE ManagedLedgerProofs -------------------------
(***************************************************************************)
(* Proofs about ManagedStages, ManagedGates and WorkflowExecutor, for any  *)
(* workflow graph, findings, gates, coordinators, locks and bounds.  First *)
(* the document: no order of legal calls makes one that validate()         *)
(* refuses.  Each call changes the ledger of one stage at most, and        *)
(* nothing that is recorded rests on a stage that is not settled.  Then    *)
(* the gates: the evidence of a resolved gate comes from settled stages    *)
(* only, so it derives the same for ever.  Then the coordinator: who is    *)
(* past its locks is alone, so the claims it holds in memory stay the      *)
(* running attempts of the document, and undisturbed they are all of them. *)
(***************************************************************************)
EXTENDS ManagedGates, WorkflowExecutor, SequenceTheorems, FiniteSetTheorems, TLAPS

---------------------------------------------------------------------------
(* The inductive invariant of the document.                                *)

\* The attempts of a dispatch belong to one stage, in the order they are recorded.
DispatchOrder(r) == \A j, k \in DOMAIN r.history :
    j < k /\ r.history[j].dispatch = r.history[k].dispatch
    => r.history[j].stage = r.history[k].stage /\ r.history[j].attempt < r.history[k].attempt

\* A stage that was claimed has a latest attempt.
HasLatest(r) == \A s \in Stages : Of(r, s) # {} =>
    \E k \in Of(r, s) : \A j \in Of(r, s) : j <= k

\* What an attempt has found when it is claimed, or cancelled.
EvidenceFits(r) == \A k \in DOMAIN r.history :
    LET h == r.history[k]
    IN  /\ h.status \in {"running", "cancelled"} => h.evidence = "none"
        /\ h.evidence = "none" => h.findings = {}
        /\ h.status # "running" => h.after \in Contents

\* Work begins once the conditions are decided.
DecidedFirst(r) == r.decision = None => r.history = <<>> /\ r.skips = {}

Fits(r) == /\ r \in Run
           /\ Len(r.history) <= MaxRecords
           /\ Len(r.gates) <= NumGates
           /\ DispatchOrder(r)
           /\ HasLatest(r)
           /\ EvidenceFits(r)
           /\ DecidedFirst(r)
           /\ ValidLedger(r)

StageInvariant == ws \in Contents /\ Fits(run)

---------------------------------------------------------------------------
(* Facts about single documents.                                           *)

\* Nothing settled a stage yet; what a claim or a skip demands, and what a
\* running attempt means.
Unsettled(r, s) == Successes(r, s) = {} /\ Advisories(r, s) = {} /\ Skips(r, s) = {}

\* A stage that is settled once was settled at all.
LEMMA OnceIsSome ==
  ASSUME NEW S, NEW A, NEW K, SettledOnce(S, A, K)
  PROVE  S # {} \/ A # {} \/ K # {}
<1>1. Cardinality({}) = 0
  BY FS_EmptySet
<1>2. <<Cardinality(S), Cardinality(A), Cardinality(K)>> \in {<<1, 0, 0>>, <<0, 1, 0>>, <<0, 0, 1>>}
  BY DEF SettledOnce
<1>3. \/ Cardinality(S) = 1
      \/ Cardinality(A) = 1
      \/ Cardinality(K) = 1
  BY <1>2
<1> QED
  BY <1>1, <1>3

\* The history of a document, record by record.
LEMMA HistoryTyped ==
  ASSUME NEW r \in Run
  PROVE  /\ r.history \in Seq(StageRecord)
         /\ Len(r.history) \in Nat
         /\ DOMAIN r.history = 1 .. Len(r.history)
         /\ \A k \in DOMAIN r.history : r.history[k] \in StageRecord
         /\ r.gates \in Seq(GateEntry)
         /\ Len(r.gates) \in Nat
         /\ DOMAIN r.gates = 1 .. Len(r.gates)
         /\ \A g \in DOMAIN r.gates :
               r.gates[g].status \in {"passed", "not-applicable", "accepted-risk"}
         /\ r.skips \subseteq SkipRecord
<1>1. r.history \in Seq(StageRecord) /\ r.gates \in Seq(GateEntry) /\ r.skips \subseteq SkipRecord
  BY DEF Run
<1>2. \A g \in DOMAIN r.gates : r.gates[g] \in GateEntry
  BY <1>1
<1> QED
  BY <1>1, <1>2 DEF GateEntry

\* While an attempt runs its stage is not settled.
LEMMA RunningIsUnsettled ==
  ASSUME NEW r \in Run, EvidenceFits(r), OnlyRetriesFollow(r), SkipsHold(r),
         NEW k \in DOMAIN r.history, r.history[k].status = "running"
  PROVE  Unsettled(r, r.history[k].stage)
<1> DEFINE s == r.history[k].stage
<1>1. k \in Of(r, s)
  BY DEF Of
<1>2. \A j \in Of(r, s) : j # k => r.history[j].status \in {"failed", "cancelled"}
                                   /\ r.history[j].evidence = "none"
  <2> SUFFICES ASSUME NEW j \in Of(r, s), j # k
               PROVE  r.history[j].status \in {"failed", "cancelled"}
                      /\ r.history[j].evidence = "none"
    OBVIOUS
  <2>1. j \in DOMAIN r.history /\ r.history[j].stage = s
    BY DEF Of
  <2>2. j < k \/ k < j
    BY <2>1, HistoryTyped
  <2>3. CASE j < k
    BY <1>1, <2>1, <2>3 DEF OnlyRetriesFollow, Before, Of
  <2>4. CASE k < j
    BY <1>1, <2>1, <2>4 DEF OnlyRetriesFollow, Before, Of
  <2> QED
    BY <2>2, <2>3, <2>4
<1>3. Successes(r, s) = {} /\ Advisories(r, s) = {}
  BY <1>2 DEF Successes, Advisories, WithStatus
<1>4. Skips(r, s) = {}
  BY <1>1 DEF SkipsHold, Skips
<1> QED
  BY <1>3, <1>4 DEF Unsettled

\* Nothing that is recorded rests on a stage that is not settled.
LEMMA NothingRestsOnUnsettled ==
  ASSUME NEW r \in Run, ValidLedger(r), NEW s \in Stages, Unsettled(r, s)
  PROVE  /\ \A k \in DOMAIN r.history : s \notin DependsOn[r.history[k].stage]
         /\ \A x \in r.skips : s \notin DependsOn[x.stage]
         /\ \A x \in r.skips : x.stage # s
         /\ \A g \in DOMAIN r.gates : Owner[g] # s
         /\ r.completion = None
<1>0. Cardinality({}) = 0
  BY FS_EmptySet
<1>1. \A k \in DOMAIN r.history : s \notin DependsOn[r.history[k].stage]
  <2> SUFFICES ASSUME NEW k \in DOMAIN r.history, s \in DependsOn[r.history[k].stage]
               PROVE  FALSE
    OBVIOUS
  <2>1. SettledOnce({j \in Successes(r, s) : j < k}, {j \in Advisories(r, s) : j < k}, Skips(r, s))
    BY DEF ValidLedger, DependenciesFirst
  <2> QED
    BY <2>1, OnceIsSome DEF Unsettled
<1>2. \A x \in r.skips : s \notin DependsOn[x.stage]
  <2> SUFFICES ASSUME NEW x \in r.skips, s \in DependsOn[x.stage]
               PROVE  FALSE
    OBVIOUS
  <2>1. Cardinality(Successes(r, s)) = 1 \/ Cardinality(Skips(r, s)) = 1
    BY DEF ValidLedger, SkipsHold
  <2>2. Successes(r, s) = {} /\ Skips(r, s) = {}
    BY DEF Unsettled
  <2> QED
    BY <1>0, <2>1, <2>2
<1>3. \A x \in r.skips : x.stage # s
  BY DEF Unsettled, Skips
<1>4. \A g \in DOMAIN r.gates : Owner[g] # s
  BY DEF ValidLedger, GatesHold, OwnersCheckpoint, Unsettled
<1>5. r.completion = None
  BY OnceIsSome DEF ValidLedger, CompletionHolds, Settled, Unsettled
<1> QED
  BY <1>1, <1>2, <1>3, <1>4, <1>5

---------------------------------------------------------------------------
(* Steps that change the ledger of one stage.                              *)

Touches(r, r2, s) ==
    /\ DOMAIN r.history \subseteq DOMAIN r2.history
    /\ \A k \in DOMAIN r.history : r2.history[k].stage = r.history[k].stage
    /\ \A k \in DOMAIN r2.history : r2.history[k].stage # s =>
          k \in DOMAIN r.history /\ r2.history[k] = r.history[k]
    /\ r.skips \subseteq r2.skips
    /\ \A x \in r2.skips : x.stage # s => x \in r.skips
    /\ r2.status = r.status
    /\ r2.decision = r.decision
    /\ r2.gates = r.gates
    /\ r2.completion = r.completion

\* What is recorded of the other stages stays.
LEMMA OthersStay ==
  ASSUME NEW r, NEW r2, NEW s, Touches(r, r2, s), NEW t, t # s
  PROVE  /\ Of(r2, t) = Of(r, t)
         /\ Successes(r2, t) = Successes(r, t)
         /\ Advisories(r2, t) = Advisories(r, t)
         /\ Skips(r2, t) = Skips(r, t)
         /\ \A k \in Of(r, t) : r2.history[k] = r.history[k]
<1>1. Of(r2, t) = Of(r, t)
  BY DEF Touches, Of
<1>2. \A k \in Of(r, t) : r2.history[k] = r.history[k]
  BY DEF Touches, Of
<1>3. Skips(r2, t) = Skips(r, t)
  BY DEF Touches, Skips
<1> QED
  BY <1>1, <1>2, <1>3 DEF Successes, Advisories, WithStatus

\* So the skips, the gates and the completion still hold, and what the earlier
\* records of other stages rest on.
LEMMA TouchedHolds ==
  ASSUME NEW r \in Run, NEW r2, NEW s \in Stages, ValidLedger(r), Unsettled(r, s), Touches(r, r2, s)
  PROVE  /\ \A k \in DOMAIN r.history : \A d \in DependsOn[r.history[k].stage] :
               SettledOnce({j \in Successes(r2, d) : j < k}, {j \in Advisories(r2, d) : j < k},
                           Skips(r2, d))
         /\ \A x \in r.skips :
               /\ Skips(r2, x.stage) = {x}
               /\ x.stage \in Conditional
               /\ r2.decision = FALSE
               /\ Of(r2, x.stage) = {}
               /\ \A d \in DependsOn[x.stage] : IF d \in x.succeeded
                                                THEN Cardinality(Successes(r2, d)) = 1
                                                ELSE Cardinality(Skips(r2, d)) = 1
         /\ GatesHold(r2)
         /\ CompletionHolds(r2)
<1>1. /\ \A k \in DOMAIN r.history : s \notin DependsOn[r.history[k].stage]
      /\ \A x \in r.skips : s \notin DependsOn[x.stage]
      /\ \A x \in r.skips : x.stage # s
      /\ \A g \in DOMAIN r.gates : Owner[g] # s
      /\ r.completion = None
  BY NothingRestsOnUnsettled
<1>2. \A t : t # s => /\ Of(r2, t) = Of(r, t)
                      /\ Successes(r2, t) = Successes(r, t)
                      /\ Advisories(r2, t) = Advisories(r, t)
                      /\ Skips(r2, t) = Skips(r, t)
                      /\ \A k \in Of(r, t) : r2.history[k] = r.history[k]
  BY OthersStay
<1>3. ASSUME NEW k \in DOMAIN r.history, NEW d \in DependsOn[r.history[k].stage]
      PROVE  SettledOnce({j \in Successes(r2, d) : j < k}, {j \in Advisories(r2, d) : j < k},
                         Skips(r2, d))
  <2>1. SettledOnce({j \in Successes(r, d) : j < k}, {j \in Advisories(r, d) : j < k}, Skips(r, d))
    BY DEF ValidLedger, DependenciesFirst
  <2>2. d # s
    BY <1>1
  <2> QED
    BY <1>2, <2>1, <2>2
<1>4. ASSUME NEW x \in r.skips
      PROVE  /\ Skips(r2, x.stage) = {x}
             /\ x.stage \in Conditional
             /\ r2.decision = FALSE
             /\ Of(r2, x.stage) = {}
             /\ \A d \in DependsOn[x.stage] : IF d \in x.succeeded
                                              THEN Cardinality(Successes(r2, d)) = 1
                                              ELSE Cardinality(Skips(r2, d)) = 1
  <2>1. /\ Skips(r, x.stage) = {x}
        /\ x.stage \in Conditional
        /\ r.decision = FALSE
        /\ Of(r, x.stage) = {}
        /\ \A d \in DependsOn[x.stage] : IF d \in x.succeeded
                                         THEN Cardinality(Successes(r, d)) = 1
                                         ELSE Cardinality(Skips(r, d)) = 1
    BY DEF ValidLedger, SkipsHold
  <2>2. x.stage # s /\ \A d \in DependsOn[x.stage] : d # s
    BY <1>1
  <2>3. r2.decision = r.decision
    BY DEF Touches
  <2> QED
    BY <1>2, <2>1, <2>2, <2>3
<1>5. GatesHold(r2)
  <2> SUFFICES ASSUME NEW g \in DOMAIN r.gates
               PROVE  IF r.gates[g].status = "not-applicable"
                      THEN \E x \in Skips(r2, Owner[g]) : x.ws = r.gates[g].ws
                      ELSE OwnersCheckpoint(r2, Owner[g], r.gates[g].ws)
    BY DEF GatesHold, Touches
  <2>1. Owner[g] # s
    BY <1>1
  <2>2. IF r.gates[g].status = "not-applicable"
        THEN \E x \in Skips(r, Owner[g]) : x.ws = r.gates[g].ws
        ELSE OwnersCheckpoint(r, Owner[g], r.gates[g].ws)
    BY DEF ValidLedger, GatesHold
  <2>3. CASE r.gates[g].status = "not-applicable"
    BY <1>2, <2>1, <2>2, <2>3
  <2>4. CASE r.gates[g].status # "not-applicable"
    <3>1. PICK k \in DOMAIN r.history : Successes(r, Owner[g]) = {k}
                                        /\ r.history[k].after = r.gates[g].ws
      BY <2>2, <2>4 DEF OwnersCheckpoint
    <3>2. k \in Of(r, Owner[g])
      BY <3>1 DEF Successes, WithStatus
    <3>3. r2.history[k] = r.history[k] /\ Successes(r2, Owner[g]) = {k} /\ k \in DOMAIN r2.history
      BY <1>2, <2>1, <3>1, <3>2 DEF Touches
    <3> QED
      BY <2>4, <3>1, <3>3 DEF OwnersCheckpoint
  <2> QED
    BY <2>3, <2>4
<1>6. CompletionHolds(r2)
  BY <1>1 DEF ValidLedger, CompletionHolds, Touches
<1> QED
  BY <1>2, <1>1, <1>3, <1>4, <1>5, <1>6

---------------------------------------------------------------------------
(* claim_stage                                                             *)

\* A stage has finitely many attempts.
LEMMA AttemptsCounted ==
  ASSUME NEW r \in Run, NEW s
  PROVE  IsFiniteSet(Of(r, s)) /\ Cardinality(Of(r, s)) \in Nat
<1>0. 1 \in Int /\ Len(r.history) \in Int
  BY HistoryTyped
<1>1. IsFiniteSet(1 .. Len(r.history))
  BY <1>0, FS_Interval
<1>2. Of(r, s) \subseteq 1 .. Len(r.history)
  BY HistoryTyped DEF Of
<1>3. IsFiniteSet(Of(r, s))
  BY <1>1, <1>2, FS_Subset
<1> QED
  BY <1>3, FS_CardinalityType

\* A dispatcher numbers the retries of a stage's latest attempt on.
NextAttempt(r, s, d, a) ==
    \/ \A k \in DOMAIN r.history : r.history[k].dispatch # d
    \/ \E k \in Of(r, s) : /\ \A j \in Of(r, s) : j <= k
                           /\ d = r.history[k].dispatch
                           /\ a = r.history[k].attempt + 1

\* The record a claim appends.
Attempt(r, s, d, a) ==
    [stage |-> s, dispatch |-> d, attempt |-> a, number |-> Cardinality(Of(r, s)) + 1,
     status |-> "running", evidence |-> "none", findings |-> {}, open |-> {},
     before |-> ws, after |-> None]

\* The history after a claim: one more record, a running one of the stage.
LEMMA ClaimedShape ==
  ASSUME NEW r \in Run, NEW s \in Stages, NEW d \in Dispatches, NEW a \in Nat \ {0}, ws \in Contents
  PROVE  LET r2 == Claimed(r, s, d, a)
             n  == Len(r.history) + 1
         IN  /\ r2 \in Run
             /\ n \in Nat /\ n \notin DOMAIN r.history
             /\ Len(r2.history) = n
             /\ DOMAIN r2.history = DOMAIN r.history \cup {n}
             /\ \A k \in DOMAIN r.history : r2.history[k] = r.history[k] /\ k < n
             /\ r2.history[n] = Attempt(r, s, d, a)
             /\ Attempt(r, s, d, a) \in StageRecord
             /\ r2.skips = r.skips /\ r2.gates = r.gates /\ r2.completion = r.completion
             /\ r2.status = r.status /\ r2.decision = r.decision /\ r2.paused = r.paused
<1> DEFINE h == Attempt(r, s, d, a)
<1> DEFINE r2 == Claimed(r, s, d, a)
<1> DEFINE n == Len(r.history) + 1
<1>1. h \in StageRecord
  <2>1. Cardinality(Of(r, s)) \in Nat
    BY AttemptsCounted
  <2> QED
    BY <2>1 DEF Attempt, StageRecord
<1>2. r2 = [r EXCEPT !.history = Append(r.history, h)]
  BY DEF Claimed, Attempt
<1> HIDE DEF h, r2
<1>3. Append(r.history, h) \in Seq(StageRecord)
  BY <1>1, HistoryTyped
<1>4. r2 \in Run /\ r2.history = Append(r.history, h)
  BY <1>2, <1>3 DEF Run
<1>5. /\ r2.skips = r.skips /\ r2.gates = r.gates /\ r2.completion = r.completion
      /\ r2.status = r.status /\ r2.decision = r.decision /\ r2.paused = r.paused
  BY <1>2 DEF Run
<1>6. /\ n \in Nat /\ n \notin DOMAIN r.history
      /\ \A k \in DOMAIN r.history : k < n
  BY HistoryTyped
<1>7. /\ Len(r2.history) = n
      /\ DOMAIN r2.history = 1 .. n
      /\ \A k \in DOMAIN r.history : r2.history[k] = r.history[k]
      /\ r2.history[n] = h
  BY <1>1, <1>4, HistoryTyped
<1>8. DOMAIN r2.history = DOMAIN r.history \cup {n}
  BY <1>7, HistoryTyped
<1> QED
  BY <1>1, <1>4, <1>5, <1>6, <1>7, <1>8 DEF h, r2

\* What a claim demands leaves the stage unsettled, and only failed or
\* cancelled attempts without evidence before it.
LEMMA ClaimDemands ==
  ASSUME NEW r, Fits(r), NEW s \in Stages, ClaimAllowed(r, s)
  PROVE  /\ Unsettled(r, s)
         /\ \A j \in Of(r, s) : /\ r.history[j].status \in {"failed", "cancelled"}
                                /\ r.history[j].evidence = "none"
                                /\ r.history[j].before = ws
<1> USE DEF Fits
<1>1. Unsettled(r, s)
  BY DEF ClaimAllowed, Unsettled, Advisories, TypedFailures
<1>2. \A j \in Of(r, s) : j \in DOMAIN r.history /\ r.history[j] \in StageRecord
                          /\ r.history[j].stage = s
  BY HistoryTyped DEF Of
<1>3. ASSUME NEW j \in Of(r, s)
      PROVE  r.history[j].status \in {"failed", "cancelled"} /\ r.history[j].evidence = "none"
  <2>1. r.history[j].status \in {"running"} \cup Terminal
    BY <1>2 DEF StageRecord
  <2>2. r.history[j].status # "running" /\ r.history[j].status # "succeeded"
    BY DEF ClaimAllowed, Running, Successes, WithStatus
  <2>3. r.history[j].status = "failed" => r.history[j].evidence = "none"
    BY DEF ClaimAllowed, TypedFailures, WithStatus
  <2> QED
    BY <1>2, <2>1, <2>2, <2>3 DEF Terminal, EvidenceFits
<1>4. ASSUME NEW j \in Of(r, s)
      PROVE  r.history[j].before = ws
  <2> DEFINE m == Latest(Of(r, s))
  <2>1. m \in Of(r, s) /\ \A i \in Of(r, s) : i <= m
    BY DEF HasLatest, Latest
  <2>2. r.history[m].before = ws
    BY <1>3, <2>1 DEF ClaimAllowed, RestoredForRetry
  <2> HIDE DEF m
  <2>3. CASE j = m
    BY <2>2, <2>3
  <2>4. CASE j # m
    <3>1. j < m
      BY <1>2, <2>1, <2>4, HistoryTyped
    <3>2. j \in Before(r, m)
      BY <1>2, <2>1, <3>1 DEF Before
    <3> QED
      BY <1>2, <2>1, <2>2, <3>2 DEF ValidLedger, OnlyRetriesFollow
  <2> QED
    BY <2>3, <2>4
<1> QED
  BY <1>1, <1>3, <1>4

\* A claim keeps the document valid.
LEMMA ClaimFits ==
  ASSUME NEW r, Fits(r), NEW s \in Stages, NEW d \in Dispatches, NEW a \in Nat \ {0}, ws \in Contents,
         ClaimAllowed(r, s), r.decision # None, Len(r.history) < MaxRecords, NextAttempt(r, s, d, a)
  PROVE  Touches(r, Claimed(r, s, d, a), s) /\ Fits(Claimed(r, s, d, a))
<1> DEFINE r2 == Claimed(r, s, d, a)
<1> DEFINE n == Len(r.history) + 1
<1> DEFINE h == Attempt(r, s, d, a)
<1>0. r \in Run /\ ValidLedger(r) /\ Unsettled(r, s)
  BY ClaimDemands DEF Fits
<1>1. /\ r2 \in Run
      /\ n \in Nat /\ n \notin DOMAIN r.history
      /\ Len(r2.history) = n
      /\ DOMAIN r2.history = DOMAIN r.history \cup {n}
      /\ \A k \in DOMAIN r.history : r2.history[k] = r.history[k] /\ k < n
      /\ r2.history[n] = h
      /\ h \in StageRecord
      /\ r2.skips = r.skips /\ r2.gates = r.gates /\ r2.completion = r.completion
      /\ r2.status = r.status /\ r2.decision = r.decision /\ r2.paused = r.paused
  BY <1>0, ClaimedShape
<1>2. /\ h.stage = s /\ h.dispatch = d /\ h.attempt = a /\ h.before = ws
      /\ h.number = Cardinality(Of(r, s)) + 1
      /\ h.status = "running" /\ h.evidence = "none" /\ h.findings = {}
  BY DEF Attempt
<1> HIDE DEF r2, n, h
<1>3. Touches(r, r2, s)
  BY <1>1, <1>2 DEF Touches
<1>4. DOMAIN r.history \subseteq Int
  BY <1>0, HistoryTyped
<1>5. /\ Of(r2, s) = Of(r, s) \cup {n}
      /\ \A t : t # s => Of(r2, t) = Of(r, t)
      /\ \A t : Of(r2, t) \cap DOMAIN r.history = Of(r, t)
  BY <1>1, <1>2 DEF Of
<1>6. /\ \A t : Successes(r2, t) = Successes(r, t)
      /\ \A t : Advisories(r2, t) = Advisories(r, t)
      /\ \A t : Skips(r2, t) = Skips(r, t)
  BY <1>1, <1>2 DEF Successes, Advisories, Skips, WithStatus, Of
<1>7. /\ \A k \in DOMAIN r.history : Before(r2, k) = Before(r, k)
      /\ Before(r2, n) = Of(r, s)
  <2>1. ASSUME NEW k \in DOMAIN r.history
        PROVE  Before(r2, k) = Before(r, k)
    <3>1. r2.history[k].stage = r.history[k].stage /\ k < n
      BY <1>1
    <3> QED
      BY <1>1, <1>4, <1>5, <3>1 DEF Before, Of
  <2>2. Before(r2, n) = Of(r, s)
    BY <1>1, <1>2, <1>4, <1>5 DEF Before, Of
  <2> QED
    BY <2>1, <2>2
<1>8. Len(r2.history) <= MaxRecords /\ Len(r2.gates) <= NumGates
  BY <1>0, <1>1, HistoryTyped, BoundAssumption DEF n, Fits
<1>9. DispatchOrder(r2)
  <2> SUFFICES ASSUME NEW j \in DOMAIN r2.history, NEW k \in DOMAIN r2.history, j < k,
                      r2.history[j].dispatch = r2.history[k].dispatch
               PROVE  r2.history[j].stage = r2.history[k].stage
                      /\ r2.history[j].attempt < r2.history[k].attempt
    BY DEF DispatchOrder
  <2>1. j \in DOMAIN r.history
    BY <1>1, <1>4
  <2>2. CASE k \in DOMAIN r.history
    BY <1>1, <2>1, <2>2 DEF Fits, DispatchOrder
  <2>3. CASE k = n
    <3>1. r.history[j].dispatch = d
      BY <1>1, <1>2, <2>1, <2>3
    <3>2. PICK m \in Of(r, s) : /\ \A i \in Of(r, s) : i <= m
                                /\ d = r.history[m].dispatch
                                /\ a = r.history[m].attempt + 1
      BY <2>1, <3>1 DEF NextAttempt
    <3>3. m \in DOMAIN r.history /\ r.history[m].stage = s
      BY DEF Of
    <3>4. r.history[j].attempt \in Nat /\ r.history[m].attempt \in Nat
      BY <1>0, <2>1, <3>3, HistoryTyped DEF StageRecord
    <3>5. r.history[j].stage = s
      BY <1>4, <2>1, <3>1, <3>2, <3>3 DEF Fits, DispatchOrder
    <3>6. j <= m
      BY <2>1, <3>2, <3>5 DEF Of
    <3>7. r.history[j].attempt <= r.history[m].attempt
      BY <1>4, <2>1, <3>1, <3>2, <3>3, <3>4, <3>6 DEF Fits, DispatchOrder
    <3>8. r2.history[k].stage = s /\ r2.history[k].attempt = r.history[m].attempt + 1
      BY <1>1, <1>2, <2>3, <3>2
    <3>9. r2.history[j].stage = s /\ r2.history[j].attempt = r.history[j].attempt
      BY <1>1, <2>1, <3>5
    <3> QED
      BY <3>4, <3>7, <3>8, <3>9
  <2> QED
    BY <1>1, <2>2, <2>3
<1>10. HasLatest(r2)
  <2> SUFFICES ASSUME NEW t \in Stages, Of(r2, t) # {}
               PROVE  \E k \in Of(r2, t) : \A j \in Of(r2, t) : j <= k
    BY DEF HasLatest
  <2>1. CASE t = s
    <3>1. \A j \in Of(r, s) : j < n
      BY <1>1 DEF Of
    <3>2. n \in Of(r2, s) /\ \A j \in Of(r2, s) : j <= n
      BY <1>1, <1>4, <1>5, <3>1
    <3> QED
      BY <2>1, <3>2
  <2>2. CASE t # s
    BY <1>5, <2>2 DEF Fits, HasLatest
  <2> QED
    BY <2>1, <2>2
<1>11. EvidenceFits(r2)
  BY <1>1, <1>2 DEF Fits, EvidenceFits
<1>12. DecidedFirst(r2)
  BY <1>1 DEF DecidedFirst
<1>13. Numbered(r2)
  BY <1>1, <1>2, <1>7 DEF Fits, ValidLedger, Numbered
<1>14. DispatchesDistinct(r2)
  <2>1. \A k \in DOMAIN r2.history : r2.history[k].attempt \in Int /\ k \in Int
    BY <1>1, HistoryTyped DEF StageRecord
  <2> QED
    BY <1>9, <2>1 DEF DispatchesDistinct, DispatchOrder
<1>15. OnlyRetriesFollow(r2)
  <2>1. \A j \in Of(r, s) : /\ r.history[j].status \in {"failed", "cancelled"}
                            /\ r.history[j].evidence = "none"
                            /\ r.history[j].before = ws
    BY ClaimDemands
  <2>2. \A k \in DOMAIN r.history : Before(r, k) \subseteq DOMAIN r.history
    BY DEF Before, Of
  <2>3. Of(r, s) \subseteq DOMAIN r.history
    BY DEF Of
  <2> QED
    BY <1>1, <1>2, <1>7, <2>1, <2>2, <2>3 DEF Fits, ValidLedger, OnlyRetriesFollow
<1>16. DependenciesFirst(r2)
  <2> SUFFICES ASSUME NEW k \in DOMAIN r2.history, NEW t \in DependsOn[r2.history[k].stage]
               PROVE  SettledOnce({j \in Successes(r2, t) : j < k}, {j \in Advisories(r2, t) : j < k},
                                  Skips(r2, t))
    BY DEF DependenciesFirst
  <2>1. CASE k \in DOMAIN r.history
    BY <1>0, <1>1, <1>3, <2>1, TouchedHolds
  <2>2. CASE k = n
    <3>1. Settled(r, t)
      BY <1>1, <1>2, <2>2 DEF ClaimAllowed, DependenciesSettled
    <3>2. {j \in Successes(r, t) : j < n} = Successes(r, t)
          /\ {j \in Advisories(r, t) : j < n} = Advisories(r, t)
      BY <1>1 DEF Successes, Advisories, WithStatus, Of
    <3> QED
      BY <1>6, <2>2, <3>1, <3>2 DEF Settled
  <2> QED
    BY <1>1, <2>1, <2>2
<1>17. ConditionsHold(r2)
  <2>1. NotFalse(r, s)
    BY DEF ClaimAllowed
  <2> QED
    BY <1>1, <1>2, <2>1 DEF Fits, ValidLedger, ConditionsHold, NotFalse
<1>18. SkipsHold(r2)
  <2>1. \A x \in r.skips :
           /\ Skips(r2, x.stage) = {x}
           /\ x.stage \in Conditional
           /\ r2.decision = FALSE
           /\ Of(r2, x.stage) = {}
           /\ \A t \in DependsOn[x.stage] : IF t \in x.succeeded
                                            THEN Cardinality(Successes(r2, t)) = 1
                                            ELSE Cardinality(Skips(r2, t)) = 1
    BY <1>0, <1>3, TouchedHolds
  <2>2. r2.skips = r.skips
    BY <1>1
  <2> QED
    BY <2>1, <2>2 DEF SkipsHold
<1>19. GatesHold(r2) /\ CompletionHolds(r2)
  BY <1>0, <1>3, TouchedHolds
<1>20. ValidLedger(r2)
  BY <1>13, <1>14, <1>15, <1>16, <1>17, <1>18, <1>19 DEF ValidLedger
<1>21. Fits(r2)
  BY <1>1, <1>8, <1>9, <1>10, <1>11, <1>12, <1>20 DEF Fits
<1> QED
  BY <1>3, <1>21 DEF r2

---------------------------------------------------------------------------
(* finish_stage and the reconciliation of a stale attempt                  *)

\* The history after an update of one running record, which keeps what was
\* fixed by its claim.
Updates(r, r2, k, h) == /\ r2 = [r EXCEPT !.history = [r.history EXCEPT ![k] = h]]
                        /\ h \in StageRecord
                        /\ h.stage = r.history[k].stage
                        /\ h.dispatch = r.history[k].dispatch
                        /\ h.attempt = r.history[k].attempt
                        /\ h.number = r.history[k].number
                        /\ h.before = r.history[k].before
                        /\ h.status # "running" /\ h.after \in Contents
                        /\ h.status = "cancelled" => h.evidence = "none"
                        /\ h.evidence = "none" => h.findings = {}

\* Ending a running attempt keeps the document valid.
LEMMA UpdateFits ==
  ASSUME NEW r, Fits(r), NEW r2, NEW k0 \in DOMAIN r.history, r.history[k0].status = "running",
         NEW h, Updates(r, r2, k0, h)
  PROVE  /\ Unsettled(r, r.history[k0].stage)
         /\ r.history[k0].stage \in Stages
         /\ Touches(r, r2, r.history[k0].stage)
         /\ Fits(r2)
<1> DEFINE s == r.history[k0].stage
<1>0. r \in Run /\ ValidLedger(r)
  BY DEF Fits
<1>1. Unsettled(r, s)
  BY <1>0, RunningIsUnsettled DEF Fits, ValidLedger
<1>2. s \in Stages
  BY <1>0, HistoryTyped DEF StageRecord
<1>3. [r.history EXCEPT ![k0] = h] \in Seq(StageRecord)
  BY <1>0, HistoryTyped DEF Updates
<1>4. /\ r2 \in Run
      /\ r2.history = [r.history EXCEPT ![k0] = h]
      /\ r2.skips = r.skips /\ r2.gates = r.gates /\ r2.completion = r.completion
      /\ r2.status = r.status /\ r2.decision = r.decision /\ r2.paused = r.paused
  BY <1>0, <1>3 DEF Updates, Run
<1>5. /\ DOMAIN r2.history = DOMAIN r.history
      /\ Len(r2.history) = Len(r.history)
      /\ r2.history[k0] = h
      /\ \A k \in DOMAIN r.history : k # k0 => r2.history[k] = r.history[k]
  BY <1>0, <1>3, <1>4, HistoryTyped
<1>6. \A k \in DOMAIN r.history :
          /\ r2.history[k].stage = r.history[k].stage
          /\ r2.history[k].dispatch = r.history[k].dispatch
          /\ r2.history[k].attempt = r.history[k].attempt
          /\ r2.history[k].number = r.history[k].number
          /\ r2.history[k].before = r.history[k].before
  BY <1>5 DEF Updates
<1>7. Touches(r, r2, s)
  BY <1>4, <1>5, <1>6 DEF Touches
<1>8. \A t : Of(r2, t) = Of(r, t)
  BY <1>5, <1>6 DEF Of
<1>9. \A k \in DOMAIN r.history : Before(r2, k) = Before(r, k)
  BY <1>6, <1>8 DEF Before
<1>10. Len(r2.history) <= MaxRecords /\ Len(r2.gates) <= NumGates
  BY <1>4, <1>5 DEF Fits
<1>11. DispatchOrder(r2) /\ DispatchesDistinct(r2)
  BY <1>5, <1>6 DEF Fits, ValidLedger, DispatchOrder, DispatchesDistinct
<1>12. HasLatest(r2)
  BY <1>8 DEF Fits, HasLatest
<1>13. EvidenceFits(r2)
  BY <1>5 DEF Fits, EvidenceFits, Updates
<1>14. DecidedFirst(r2)
  <2>1. r.history # <<>>
    BY <1>0, HistoryTyped
  <2> QED
    BY <1>4, <2>1 DEF Fits, DecidedFirst
<1>15. Numbered(r2)
  BY <1>5, <1>6, <1>9 DEF Fits, ValidLedger, Numbered
<1>16. OnlyRetriesFollow(r2)
  <2> SUFFICES ASSUME NEW k \in DOMAIN r.history, NEW j \in Before(r, k)
               PROVE  /\ r2.history[j].status \in {"failed", "cancelled"}
                      /\ r2.history[j].evidence = "none"
                      /\ r2.history[j].before = r2.history[k].before
    BY <1>5, <1>9 DEF OnlyRetriesFollow
  <2>1. /\ r.history[j].status \in {"failed", "cancelled"}
        /\ r.history[j].evidence = "none"
        /\ r.history[j].before = r.history[k].before
    BY DEF Fits, ValidLedger, OnlyRetriesFollow
  <2>2. j \in DOMAIN r.history
    BY DEF Before, Of
  <2>3. j # k0
    BY <2>1
  <2> QED
    BY <1>5, <1>6, <2>1, <2>2, <2>3
<1>17. DependenciesFirst(r2)
  <2>1. \A k \in DOMAIN r.history : \A d \in DependsOn[r.history[k].stage] :
            SettledOnce({j \in Successes(r2, d) : j < k}, {j \in Advisories(r2, d) : j < k},
                        Skips(r2, d))
    BY <1>0, <1>1, <1>2, <1>7, TouchedHolds
  <2> QED
    BY <1>5, <1>6, <2>1 DEF DependenciesFirst
<1>18. ConditionsHold(r2)
  BY <1>4, <1>5, <1>6 DEF Fits, ValidLedger, ConditionsHold, NotFalse
<1>19. SkipsHold(r2)
  <2>1. \A x \in r.skips :
           /\ Skips(r2, x.stage) = {x}
           /\ x.stage \in Conditional
           /\ r2.decision = FALSE
           /\ Of(r2, x.stage) = {}
           /\ \A t \in DependsOn[x.stage] : IF t \in x.succeeded
                                            THEN Cardinality(Successes(r2, t)) = 1
                                            ELSE Cardinality(Skips(r2, t)) = 1
    BY <1>0, <1>1, <1>2, <1>7, TouchedHolds
  <2> QED
    BY <1>4, <2>1 DEF SkipsHold
<1>20. GatesHold(r2) /\ CompletionHolds(r2)
  BY <1>0, <1>1, <1>2, <1>7, TouchedHolds
<1>21. ValidLedger(r2)
  BY <1>11, <1>15, <1>16, <1>17, <1>18, <1>19, <1>20 DEF ValidLedger
<1>22. Fits(r2)
  BY <1>4, <1>10, <1>11, <1>12, <1>13, <1>14, <1>21 DEF Fits
<1> QED
  BY <1>1, <1>2, <1>7, <1>22

\* What one attempt returned is a record that ends it.
LEMMA FinishUpdates ==
  ASSUME NEW r, Fits(r), NEW s, NEW d, NEW a, NEW x \in ResultOf[s], s \in Stages, ws \in Contents,
         FinishAllowed(r, s, d, a, ws)
  PROVE  \E k \in DOMAIN r.history : \E h :
            /\ Exact(r, s, d, a) = {k}
            /\ r.history[k].status = "running"
            /\ r.history[k].stage = s
            /\ Updates(r, Finished(r, s, d, a, x), k, h)
<1>0. r \in Run
  BY DEF Fits
<1>1. PICK k \in DOMAIN r.history : Exact(r, s, d, a) = {k} /\ r.history[k].status = "running"
  BY DEF FinishAllowed
<1>2. r.history[k].stage = s
  BY <1>1 DEF Exact, Of
<1>3. (CHOOSE j \in Exact(r, s, d, a) : TRUE) = k
  BY <1>1
<1> DEFINE h == [r.history[k] EXCEPT !.status = x.status, !.evidence = x.evidence,
                                     !.findings = x.findings, !.open = x.open, !.after = ws]
<1>4. x \in Result /\ (x.status = "cancelled" => x.evidence = "none")
      /\ (x.evidence = "none" => x.findings = {})
  BY DEF ResultOf
<1>5. r.history[k] \in StageRecord
  BY <1>0, HistoryTyped
<1>6. /\ h \in StageRecord
      /\ h.stage = r.history[k].stage /\ h.dispatch = r.history[k].dispatch
      /\ h.attempt = r.history[k].attempt /\ h.number = r.history[k].number
      /\ h.before = r.history[k].before
      /\ h.status = x.status /\ h.evidence = x.evidence /\ h.findings = x.findings /\ h.after = ws
  BY <1>4, <1>5 DEF StageRecord, Result
<1>7. Finished(r, s, d, a, x) = [r EXCEPT !.history = [r.history EXCEPT ![k] = h]]
  BY <1>0, <1>3 DEF Finished, Run
<1>8. Updates(r, Finished(r, s, d, a, x), k, h)
  BY <1>4, <1>6, <1>7 DEF Updates, Result, Terminal
<1> QED
  BY <1>1, <1>2, <1>8

\* A reconciliation cancels a running attempt.
LEMMA ReconcileUpdates ==
  ASSUME NEW r, Fits(r), NEW s, NEW d, ws \in Contents, ReconcileAllowed(r, s, d)
  PROVE  \E k \in DOMAIN r.history : \E h :
            /\ r.history[k].status = "running"
            /\ r.history[k].stage = s
            /\ Updates(r, Reconciled(r, s, d), k, h)
<1>0. r \in Run
  BY DEF Fits
<1>1. PICK k \in Of(r, s) : /\ {j \in Of(r, s) : r.history[j].dispatch = d} = {k}
                            /\ r.history[k].status = "running"
  BY DEF ReconcileAllowed
<1>2. k \in DOMAIN r.history /\ r.history[k].stage = s
  BY DEF Of
<1>3. (CHOOSE j \in Of(r, s) : r.history[j].dispatch = d) = k
  BY <1>1
<1> DEFINE h == [r.history[k] EXCEPT !.status = "cancelled", !.after = ws]
<1>5. r.history[k] \in StageRecord /\ r.history[k].evidence = "none" /\ r.history[k].findings = {}
  BY <1>0, <1>1, <1>2, HistoryTyped DEF Fits, EvidenceFits
<1>6. /\ h \in StageRecord
      /\ h.stage = r.history[k].stage /\ h.dispatch = r.history[k].dispatch
      /\ h.attempt = r.history[k].attempt /\ h.number = r.history[k].number
      /\ h.before = r.history[k].before
      /\ h.status = "cancelled" /\ h.evidence = "none" /\ h.findings = {} /\ h.after = ws
  BY <1>5 DEF StageRecord, Terminal
<1>7. Reconciled(r, s, d) = [r EXCEPT !.history = [r.history EXCEPT ![k] = h]]
  BY <1>0, <1>3 DEF Reconciled, Run
<1>8. Updates(r, Reconciled(r, s, d), k, h)
  BY <1>6, <1>7 DEF Updates
<1> QED
  BY <1>1, <1>2, <1>8

---------------------------------------------------------------------------
(* attest_skipped_stage                                                    *)

\* What an attestation demands when the stage was not skipped before.
LEMMA SkipDemands ==
  ASSUME NEW r, Fits(r), NEW s, SkipAllowed(r, s)
  PROVE  \/ SkipAttested(r, s) = r
         \/ /\ s \in Conditional
            /\ r.decision = FALSE
            /\ Skips(r, s) = {}
            /\ Of(r, s) = {}
            /\ Unsettled(r, s)
            /\ \A d \in DependsOn[s] : IF d \in DependsOn[s] \cap Completed(r)
                                       THEN Cardinality(Successes(r, d)) = 1
                                       ELSE Cardinality(Skips(r, d)) = 1
<1>1. CASE Skips(r, s) # {}
  <2>1. SkipOf(r, s) \in r.skips
    BY <1>1 DEF SkipAllowed, Skips
  <2>2. r.skips \cup {SkipOf(r, s)} = r.skips
    BY <2>1
  <2> QED
    BY <2>2 DEF SkipAttested, Fits, Run
<1>2. CASE Skips(r, s) = {}
  <2>1. Of(r, s) = {}
    BY <1>2 DEF SkipAllowed
  <2>2. Unsettled(r, s)
    BY <1>2, <2>1 DEF Unsettled, Successes, Advisories, WithStatus
  <2> QED
    BY <1>2, <2>1, <2>2 DEF SkipAllowed
<1> QED
  BY <1>1, <1>2

\* Attesting that a stage is skipped keeps the document valid.
LEMMA SkipFits ==
  ASSUME NEW r, Fits(r), NEW s \in Stages, ws \in Contents, SkipAllowed(r, s)
  PROVE  /\ Fits(SkipAttested(r, s))
         /\ \/ SkipAttested(r, s) = r
            \/ Unsettled(r, s) /\ Touches(r, SkipAttested(r, s), s)
<1>1. CASE SkipAttested(r, s) = r
  BY <1>1
<1>2. CASE /\ s \in Conditional
           /\ r.decision = FALSE
           /\ Skips(r, s) = {}
           /\ Of(r, s) = {}
           /\ Unsettled(r, s)
           /\ \A d \in DependsOn[s] : IF d \in DependsOn[s] \cap Completed(r)
                                      THEN Cardinality(Successes(r, d)) = 1
                                      ELSE Cardinality(Skips(r, d)) = 1
  <2> DEFINE x == SkipOf(r, s)
  <2> DEFINE r2 == SkipAttested(r, s)
  <2>0. r \in Run /\ ValidLedger(r)
    BY DEF Fits
  <2>1. x \in SkipRecord /\ x.stage = s /\ x.succeeded = DependsOn[s] \cap Completed(r)
    <3>1. DependsOn[s] \cap Completed(r) \in SUBSET Stages
      BY GraphAssumption
    <3> QED
      BY <3>1 DEF SkipOf, SkipRecord
  <2>2. r2 = [r EXCEPT !.skips = r.skips \cup {x}]
    BY DEF SkipAttested
  <2> HIDE DEF x, r2
  <2>3. /\ r2 \in Run
        /\ r2.skips = r.skips \cup {x}
        /\ r2.history = r.history /\ r2.gates = r.gates /\ r2.completion = r.completion
        /\ r2.status = r.status /\ r2.decision = r.decision /\ r2.paused = r.paused
    <3>1. r.skips \cup {x} \in SUBSET SkipRecord
      BY <2>0, <2>1, HistoryTyped
    <3> QED
      BY <2>0, <2>2, <3>1 DEF Run
  <2>4. Touches(r, r2, s)
    BY <2>1, <2>3 DEF Touches
  <2>5. /\ \A t : Of(r2, t) = Of(r, t)
        /\ \A t : Successes(r2, t) = Successes(r, t)
        /\ \A t : Advisories(r2, t) = Advisories(r, t)
        /\ \A k : Before(r2, k) = Before(r, k)
    BY <2>3 DEF Of, Successes, Advisories, WithStatus, Before
  <2>6. /\ \A t : t # s => Skips(r2, t) = Skips(r, t)
        /\ Skips(r2, s) = {x}
    BY <1>2, <2>1, <2>3 DEF Skips
  <2>7. DispatchOrder(r2) /\ DispatchesDistinct(r2) /\ EvidenceFits(r2) /\ Numbered(r2)
    BY <2>3, <2>5 DEF Fits, ValidLedger, DispatchOrder, DispatchesDistinct, EvidenceFits, Numbered
  <2>8. OnlyRetriesFollow(r2) /\ ConditionsHold(r2)
    <3>1. OnlyRetriesFollow(r2)
      BY <2>3, <2>5 DEF Fits, ValidLedger, OnlyRetriesFollow
    <3>2. ConditionsHold(r2)
      BY <2>3 DEF Fits, ValidLedger, ConditionsHold, NotFalse
    <3> QED
      BY <3>1, <3>2
  <2>9. HasLatest(r2)
    BY <2>5 DEF Fits, HasLatest
  <2>10. DecidedFirst(r2)
    BY <1>2, <2>3, AbsentAssumption DEF DecidedFirst
  <2>11. DependenciesFirst(r2)
    <3>1. \A k \in DOMAIN r.history : \A d \in DependsOn[r.history[k].stage] :
              SettledOnce({j \in Successes(r2, d) : j < k}, {j \in Advisories(r2, d) : j < k},
                          Skips(r2, d))
      BY <1>2, <2>0, <2>4, TouchedHolds
    <3> QED
      BY <2>3, <3>1 DEF DependenciesFirst
  <2>12. SkipsHold(r2)
    <3>1. \A y \in r.skips :
             /\ Skips(r2, y.stage) = {y}
             /\ y.stage \in Conditional
             /\ r2.decision = FALSE
             /\ Of(r2, y.stage) = {}
             /\ \A t \in DependsOn[y.stage] : IF t \in y.succeeded
                                              THEN Cardinality(Successes(r2, t)) = 1
                                              ELSE Cardinality(Skips(r2, t)) = 1
      BY <1>2, <2>0, <2>4, TouchedHolds
    <3>2. \A t \in DependsOn[s] : t # s
      BY GraphAssumption
    <3>3. \A t \in DependsOn[s] : IF t \in x.succeeded
                                  THEN Cardinality(Successes(r2, t)) = 1
                                  ELSE Cardinality(Skips(r2, t)) = 1
      BY <1>2, <2>1, <2>5, <2>6, <3>2
    <3>4. /\ Skips(r2, x.stage) = {x}
          /\ x.stage \in Conditional
          /\ r2.decision = FALSE
          /\ Of(r2, x.stage) = {}
          /\ \A t \in DependsOn[x.stage] : IF t \in x.succeeded
                                           THEN Cardinality(Successes(r2, t)) = 1
                                           ELSE Cardinality(Skips(r2, t)) = 1
      BY <1>2, <2>1, <2>3, <2>5, <2>6, <3>3
    <3> QED
      BY <2>3, <3>1, <3>4 DEF SkipsHold
  <2>13. GatesHold(r2) /\ CompletionHolds(r2)
    BY <1>2, <2>0, <2>4, TouchedHolds
  <2>14. ValidLedger(r2)
    BY <2>7, <2>8, <2>11, <2>12, <2>13 DEF ValidLedger
  <2>15. Fits(r2)
    BY <2>3, <2>7, <2>9, <2>10, <2>14 DEF Fits
  <2> QED
    BY <1>2, <2>4, <2>15 DEF r2
<1> QED
  BY <1>1, <1>2, SkipDemands

---------------------------------------------------------------------------
(* Steps that leave the stages alone.                                      *)

\* Documents with the same history, skips and decision agree on the stages.
LEMMA SameStages ==
  ASSUME NEW r, Fits(r), NEW r2 \in Run,
         r2.history = r.history, r2.skips = r.skips, r2.decision = r.decision,
         Len(r2.gates) <= NumGates, GatesHold(r2), CompletionHolds(r2)
  PROVE  Fits(r2)
<1>1. \A t : Of(r2, t) = Of(r, t) /\ Successes(r2, t) = Successes(r, t)
             /\ Advisories(r2, t) = Advisories(r, t) /\ Skips(r2, t) = Skips(r, t)
  BY DEF Of, Successes, Advisories, WithStatus, Skips
<1>2. \A k : Before(r2, k) = Before(r, k)
  BY <1>1 DEF Before
<1>3. DispatchOrder(r2) /\ DispatchesDistinct(r2) /\ EvidenceFits(r2) /\ Numbered(r2)
  BY <1>2 DEF Fits, ValidLedger, DispatchOrder, DispatchesDistinct, EvidenceFits, Numbered
<1>4. OnlyRetriesFollow(r2) /\ ConditionsHold(r2) /\ DecidedFirst(r2) /\ HasLatest(r2)
  <2>1. OnlyRetriesFollow(r2)
    BY <1>2 DEF Fits, ValidLedger, OnlyRetriesFollow
  <2>2. ConditionsHold(r2) /\ DecidedFirst(r2)
    BY DEF Fits, ValidLedger, ConditionsHold, NotFalse, DecidedFirst
  <2>3. HasLatest(r2)
    BY <1>1 DEF Fits, HasLatest
  <2> QED
    BY <2>1, <2>2, <2>3
<1>5. DependenciesFirst(r2)
  BY <1>1 DEF Fits, ValidLedger, DependenciesFirst
<1>6. SkipsHold(r2)
  BY <1>1 DEF Fits, ValidLedger, SkipsHold
<1> QED
  BY <1>3, <1>4, <1>5, <1>6 DEF Fits, ValidLedger

\* The gates stand on the stages only.
LEMMA SameGates ==
  ASSUME NEW r, NEW r2, GatesHold(r), r2.history = r.history, r2.skips = r.skips, r2.gates = r.gates
  PROVE  GatesHold(r2)
<1>1. \A t : Successes(r2, t) = Successes(r, t) /\ Skips(r2, t) = Skips(r, t)
  BY DEF Of, Successes, WithStatus, Skips
<1> QED
  BY <1>1 DEF GatesHold, OwnersCheckpoint

\* The conditions are decided before anything happens.
LEMMA BindFits ==
  ASSUME NEW r, Fits(r), NEW d \in BOOLEAN, BindAllowed(r, d), r.decision = None => r.history = <<>>
  PROVE  Fits(Bound(r, d)) /\ (Bound(r, d) = r \/ (r.history = <<>> /\ r.skips = {}))
<1> DEFINE r2 == Bound(r, d)
<1>0. r \in Run
  BY DEF Fits
<1>1. /\ r2 \in Run /\ r2.decision = d
      /\ r2.history = r.history /\ r2.skips = r.skips
      /\ r2.gates = r.gates /\ r2.completion = r.completion /\ r2.status = r.status
  BY <1>0 DEF Bound, Run
<1>2. CASE r.decision = d
  <2>1. r2 = r
    BY <1>0, <1>2 DEF Bound, Run
  <2>2. Fits(r2)
    BY <2>1
  <2> QED
    BY <2>1, <2>2
<1>3. CASE r.decision = None
  <2>1. r.history = <<>> /\ r.skips = {}
    BY <1>3 DEF Fits, DecidedFirst
  <2>2. DOMAIN r2.history = {} /\ r2.skips = {} /\ Len(r2.history) = 0
    BY <1>1, <2>1
  <2>3. \A t : Of(r2, t) = {}
    BY <2>2 DEF Of
  <2>4. ValidLedger(r2)
    <3>1. GatesHold(r2)
      BY <1>1, SameGates DEF Fits, ValidLedger
    <3>2. CompletionHolds(r2)
      <4>1. \A t : Successes(r2, t) = Successes(r, t) /\ Advisories(r2, t) = Advisories(r, t)
                   /\ Skips(r2, t) = Skips(r, t)
        BY <1>1 DEF Of, Successes, Advisories, WithStatus, Skips
      <4>2. (\A c : Projection(r2, c) = Projection(r, c)) /\ Resolved(r2) = Resolved(r)
            /\ \A t : Settled(r2, t) = Settled(r, t)
        BY <1>1, <4>1 DEF Projection, Resolved, Settled, SkippedStages
      <4> QED
        BY <1>1, <4>2 DEF Fits, ValidLedger, CompletionHolds
    <3> QED
      BY <2>2, <3>1, <3>2 DEF ValidLedger, Numbered, DispatchesDistinct, OnlyRetriesFollow,
                              DependenciesFirst, ConditionsHold, SkipsHold
  <2>5. DispatchOrder(r2) /\ HasLatest(r2) /\ EvidenceFits(r2)
    BY <2>2, <2>3 DEF DispatchOrder, HasLatest, EvidenceFits
  <2>6. Len(r2.history) <= MaxRecords /\ Len(r2.gates) <= NumGates
    BY <1>1, <2>2, BoundAssumption DEF Fits
  <2>7. DecidedFirst(r2)
    BY <1>1, <2>1 DEF DecidedFirst
  <2> QED
    BY <1>1, <2>1, <2>4, <2>5, <2>6, <2>7 DEF Fits
<1> QED
  BY <1>2, <1>3 DEF BindAllowed

\* A gate is entered where the stage ledger lets it stand.
LEMMA EnterFits ==
  ASSUME NEW r, Fits(r), NEW g \in 1 .. NumGates, GateAllowed(r, g), ws \in Contents,
         NEW status \in {"passed", "not-applicable", "accepted-risk"},
         IF status = "not-applicable" THEN \E x \in Skips(r, Owner[g]) : x.ws = ws
                                      ELSE OwnersCheckpoint(r, Owner[g], ws)
  PROVE  LET r2 == Entered(r, status)
         IN  /\ Fits(r2)
             /\ r2.history = r.history /\ r2.skips = r.skips /\ r2.decision = r.decision
             /\ r2.status = "active"
             /\ g \notin DOMAIN r.gates
             /\ DOMAIN r2.gates = DOMAIN r.gates \cup {g}
             /\ Len(r2.gates) = g /\ Len(r.gates) = g - 1
             /\ \A i \in DOMAIN r.gates : r2.gates[i] = r.gates[i]
             /\ r2.gates[g] = [status |-> status, ws |-> ws]
<1> DEFINE r2 == Entered(r, status)
<1> DEFINE e == [status |-> status, ws |-> ws]
<1>0. r \in Run /\ ValidLedger(r) /\ NumGates \in Nat
  BY GateAssumption DEF Fits
<1>1. e \in GateEntry /\ e.status = status /\ e.ws = ws
  BY DEF GateEntry
<1>2. r2 = [r EXCEPT !.gates = Append(r.gates, e)]
  BY DEF Entered
<1> HIDE DEF e, r2
<1>3. Append(r.gates, e) \in Seq(GateEntry)
  BY <1>0, <1>1, HistoryTyped
<1>4. /\ r2 \in Run
      /\ r2.gates = Append(r.gates, e)
      /\ r2.history = r.history /\ r2.skips = r.skips /\ r2.decision = r.decision
      /\ r2.status = r.status /\ r2.completion = r.completion
  BY <1>0, <1>2, <1>3 DEF Run
<1>5. g = Len(r.gates) + 1 /\ r.status = "active"
  BY DEF GateAllowed, Unpaused
<1>6. /\ Len(r2.gates) = g /\ Len(r.gates) = g - 1
      /\ g \notin DOMAIN r.gates
      /\ DOMAIN r2.gates = DOMAIN r.gates \cup {g}
      /\ \A i \in DOMAIN r.gates : r2.gates[i] = r.gates[i]
      /\ r2.gates[g] = e
  BY <1>0, <1>1, <1>4, <1>5, HistoryTyped
<1>7. r.completion = None
  <2>1. Resolved(r) # 1 .. NumGates
    BY <1>0, <1>5, HistoryTyped DEF Resolved
  <2> QED
    BY <1>0, <2>1 DEF ValidLedger, CompletionHolds
<1>8. CompletionHolds(r2)
  BY <1>4, <1>5, <1>7 DEF CompletionHolds
<1>9. \A t : Successes(r2, t) = Successes(r, t) /\ Skips(r2, t) = Skips(r, t)
  BY <1>4 DEF Of, Successes, WithStatus, Skips
<1>10. GatesHold(r2)
  <2> SUFFICES ASSUME NEW i \in DOMAIN r2.gates
               PROVE  IF r2.gates[i].status = "not-applicable"
                      THEN \E x \in Skips(r2, Owner[i]) : x.ws = r2.gates[i].ws
                      ELSE OwnersCheckpoint(r2, Owner[i], r2.gates[i].ws)
    BY DEF GatesHold
  <2>1. CASE i \in DOMAIN r.gates
    BY <1>0, <1>4, <1>6, <1>9, <2>1 DEF ValidLedger, GatesHold, OwnersCheckpoint
  <2>2. CASE i = g
    BY <1>1, <1>4, <1>6, <1>9, <2>2 DEF OwnersCheckpoint
  <2> QED
    BY <1>6, <2>1, <2>2
<1>11. Fits(r2)
  BY <1>4, <1>6, <1>8, <1>10, SameStages
<1> QED
  BY <1>4, <1>5, <1>6, <1>11 DEF r2, e

\* The attestation is the projection of the settled stages.
LEMMA AttestFits ==
  ASSUME NEW r, Fits(r), ws \in Contents, AttestAllowed(r, ws)
  PROVE  Fits(Attested(r))
<1> DEFINE r2 == Attested(r)
<1> DEFINE p == Projection(r, ws)
<1>0. r \in Run
  BY DEF Fits
<1>1. p \in Completion
  <2>1. SkippedStages(r) \subseteq Stages
    BY <1>0, HistoryTyped DEF SkippedStages, SkipRecord
  <2> QED
    BY <2>1 DEF Projection, Completion
<1>2. r2 = [r EXCEPT !.completion = p]
  BY DEF Attested
<1>3. p = Projection(r, p.ws)
  BY DEF Projection
<1> HIDE DEF p, r2
<1>4. /\ r2 \in Run /\ r2.completion = p
      /\ r2.gates = r.gates /\ r2.status = r.status
      /\ r2.history = r.history /\ r2.skips = r.skips /\ r2.decision = r.decision
  BY <1>0, <1>1, <1>2 DEF Run
<1>5. \A t : Successes(r2, t) = Successes(r, t) /\ Advisories(r2, t) = Advisories(r, t)
             /\ Skips(r2, t) = Skips(r, t)
  BY <1>4 DEF Of, Successes, Advisories, WithStatus, Skips
<1>6. /\ \A c : Projection(r2, c) = Projection(r, c)
      /\ Resolved(r2) = Resolved(r)
      /\ \A t : Settled(r2, t) = Settled(r, t)
  BY <1>4, <1>5 DEF Projection, Resolved, Settled, SkippedStages, p
<1>7. p # None
  BY <1>1, AbsentAssumption
<1>8. CompletionHolds(r2)
  BY <1>3, <1>4, <1>6, <1>7 DEF CompletionHolds, AttestAllowed
<1>9. GatesHold(r2)
  BY <1>4, SameGates DEF Fits, ValidLedger
<1> QED
  BY <1>4, <1>8, <1>9, SameStages DEF Fits, r2

\* Completion, abort and human stops change the status only.
LEMMA StatusFits ==
  ASSUME NEW r, Fits(r), NEW status \in {"active", "completed", "aborted"}, NEW paused \in BOOLEAN,
         status = "completed" => r.completion # None \/ r.status = "completed"
  PROVE  Fits([r EXCEPT !.status = status, !.paused = paused])
<1> DEFINE r2 == [r EXCEPT !.status = status, !.paused = paused]
<1>1. /\ r2 \in Run /\ r2.completion = r.completion /\ r2.status = status
      /\ r2.gates = r.gates
      /\ r2.history = r.history /\ r2.skips = r.skips /\ r2.decision = r.decision
  BY DEF Fits, Run
<1> HIDE DEF r2
<1>2. \A t : Successes(r2, t) = Successes(r, t) /\ Advisories(r2, t) = Advisories(r, t)
             /\ Skips(r2, t) = Skips(r, t)
  BY <1>1 DEF Of, Successes, Advisories, WithStatus, Skips
<1>3. (\A c : Projection(r2, c) = Projection(r, c)) /\ Resolved(r2) = Resolved(r)
      /\ \A t : Settled(r2, t) = Settled(r, t)
  BY <1>1, <1>2 DEF Projection, Resolved, Settled, SkippedStages
<1>4. CompletionHolds(r2)
  BY <1>1, <1>3 DEF Fits, ValidLedger, CompletionHolds
<1>5. GatesHold(r2)
  BY <1>1, SameGates DEF Fits, ValidLedger
<1> QED
  BY <1>1, <1>4, <1>5, SameStages DEF Fits, r2

---------------------------------------------------------------------------
(* The document stays valid.                                               *)

\* A run that was just bound.
LEMMA BoundRunFits == Init => StageInvariant
<1> SUFFICES ASSUME Init PROVE StageInvariant
  OBVIOUS
<1>1. BoundRun \in Run
  BY DEF BoundRun, Run
<1>2. /\ DOMAIN BoundRun.history = {} /\ BoundRun.skips = {} /\ BoundRun.completion = None
      /\ DOMAIN BoundRun.gates = {} /\ Len(BoundRun.history) = 0 /\ Len(BoundRun.gates) = 0
      /\ BoundRun.status = "active" /\ BoundRun.history = <<>>
  BY DEF BoundRun
<1>3. \A t : Of(BoundRun, t) = {}
  BY <1>2 DEF Of
<1>4. ValidLedger(BoundRun)
  BY <1>2 DEF ValidLedger, Numbered, DispatchesDistinct, OnlyRetriesFollow, DependenciesFirst,
              ConditionsHold, SkipsHold, GatesHold, CompletionHolds
<1>5. Fits(BoundRun)
  BY <1>1, <1>2, <1>3, <1>4, BoundAssumption, GateAssumption
     DEF Fits, DispatchOrder, HasLatest, EvidenceFits, DecidedFirst
<1> QED
  BY <1>5, ContentAssumption DEF Init, StageInvariant

\* The attempts a dispatcher may number next fit the record.
LEMMA NextAttemptsFit ==
  ASSUME Fits(run), NEW s, NEW x \in NextAttempts(s)
  PROVE  x[1] \in Dispatches /\ x[2] \in Nat \ {0} /\ NextAttempt(run, s, x[1], x[2])
<1>0. run \in Run
  BY DEF Fits
<1>1. CASE x \in {<<d, 1>> : d \in Unused}
  BY <1>1 DEF Unused, NextAttempt
<1>2. CASE x \in {<<run.history[k].dispatch, run.history[k].attempt + 1>> :
                     k \in {k \in Of(run, s) : \A j \in Of(run, s) : j <= k}}
  <2>1. PICK k \in Of(run, s) : /\ \A j \in Of(run, s) : j <= k
                                /\ x = <<run.history[k].dispatch, run.history[k].attempt + 1>>
    BY <1>2
  <2>2. run.history[k] \in StageRecord
    BY <1>0, HistoryTyped DEF Of
  <2>3. x[1] = run.history[k].dispatch /\ x[2] = run.history[k].attempt + 1
    BY <2>1
  <2>4. run.history[k].dispatch \in Dispatches /\ run.history[k].attempt + 1 \in Nat \ {0}
    BY <2>2 DEF StageRecord
  <2> QED
    BY <2>1, <2>3, <2>4 DEF NextAttempt
<1> QED
  BY <1>1, <1>2 DEF NextAttempts

\* How a call changes the document: it ends or adds an attempt or a skip of a
\* stage that is not settled, enters a gate, or leaves stages and gates alone.
StageStep == \E s \in Stages : Unsettled(run, s) /\ Touches(run, run', s)

RestStep == /\ run'.history = run.history
            /\ run'.skips = run.skips
            /\ run'.gates = run.gates
            /\ run.decision # None => run'.decision = run.decision

\* Every call that works on the stages keeps the document valid.
LEMMA StageCallsFit ==
  ASSUME StageInvariant,
         \/ \E d \in BOOLEAN : BindConditions(d)
         \/ \E s \in Stages : ClaimStage(s) \/ AttestSkip(s)
         \/ \E k \in DOMAIN run.history :
               LET h == run.history[k]
               IN  \/ FinishStage(h.stage, h.dispatch, h.attempt)
                   \/ ReconcileStale(h.stage, h.dispatch)
         \/ AttestCompletion
         \/ EditWorkspace
  PROVE  StageInvariant' /\ (StageStep \/ RestStep) /\ run'.status = run.status
<1>0. Fits(run) /\ run \in Run /\ ws \in Contents
  BY DEF StageInvariant, Fits
<1>1. ASSUME NEW d \in BOOLEAN, BindConditions(d)
      PROVE  StageInvariant' /\ RestStep /\ run'.status = run.status
  <2>1. Fits(Bound(run, d)) /\ (Bound(run, d) = run \/ (run.history = <<>> /\ run.skips = {}))
    BY <1>0, <1>1, BindFits DEF BindConditions
  <2>2. run' = Bound(run, d) /\ ws' = ws /\ run.decision \in {None, d}
    BY <1>1 DEF BindConditions, BindAllowed
  <2>3. /\ Bound(run, d).history = run.history /\ Bound(run, d).skips = run.skips
        /\ Bound(run, d).gates = run.gates /\ Bound(run, d).decision = d
        /\ Bound(run, d).status = run.status
    BY <1>0 DEF Bound, Run
  <2> QED
    BY <1>0, <2>1, <2>2, <2>3 DEF StageInvariant, RestStep
<1>2. ASSUME NEW s \in Stages, ClaimStage(s)
      PROVE  StageInvariant' /\ StageStep /\ run'.status = run.status
  <2>1. PICK x \in NextAttempts(s) : run' = Claimed(run, s, x[1], x[2])
    BY <1>2 DEF ClaimStage
  <2>2. x[1] \in Dispatches /\ x[2] \in Nat \ {0} /\ NextAttempt(run, s, x[1], x[2])
    BY <1>0, NextAttemptsFit
  <2>3. /\ ClaimAllowed(run, s) /\ run.decision # None
        /\ Len(run.history) < MaxRecords /\ ws' = ws
    BY <1>2 DEF ClaimStage
  <2>4. Touches(run, run', s) /\ Fits(run')
    BY <1>0, <2>1, <2>2, <2>3, ClaimFits
  <2>5. Unsettled(run, s)
    BY <1>0, <2>3, ClaimDemands
  <2> QED
    BY <1>0, <2>3, <2>4, <2>5 DEF StageInvariant, StageStep, Touches
<1>3. ASSUME NEW s \in Stages, AttestSkip(s)
      PROVE  StageInvariant' /\ (StageStep \/ RestStep) /\ run'.status = run.status
  <2>1. SkipAllowed(run, s) /\ run' = SkipAttested(run, s) /\ ws' = ws
    BY <1>3 DEF AttestSkip
  <2>2. Fits(run') /\ (run' = run \/ (Unsettled(run, s) /\ Touches(run, run', s)))
    BY <1>0, <2>1, SkipFits
  <2> QED
    BY <1>0, <2>1, <2>2 DEF StageInvariant, StageStep, RestStep, Touches
<1>4. ASSUME NEW s, NEW d, NEW a, s \in Stages, FinishStage(s, d, a)
      PROVE  StageInvariant' /\ StageStep /\ run'.status = run.status
  <2>1. PICK x \in ResultOf[s] : run' = Finished(run, s, d, a, x)
    BY <1>4 DEF FinishStage
  <2>2. FinishAllowed(run, s, d, a, ws) /\ ws' = ws
    BY <1>4 DEF FinishStage
  <2>3. PICK k \in DOMAIN run.history : \E h :
            /\ run.history[k].status = "running"
            /\ run.history[k].stage = s
            /\ Updates(run, run', k, h)
    BY <1>0, <1>4, <2>1, <2>2, FinishUpdates
  <2>4. PICK h : Updates(run, run', k, h)
    BY <2>3
  <2>5. Unsettled(run, s) /\ Touches(run, run', s) /\ Fits(run')
    BY <1>0, <2>3, <2>4, UpdateFits
  <2> QED
    BY <1>0, <1>4, <2>2, <2>5 DEF StageInvariant, StageStep, Touches
<1>5. ASSUME NEW s, NEW d, s \in Stages, ReconcileStale(s, d)
      PROVE  StageInvariant' /\ StageStep /\ run'.status = run.status
  <2>1. ReconcileAllowed(run, s, d) /\ run' = Reconciled(run, s, d) /\ ws' = ws
    BY <1>5 DEF ReconcileStale
  <2>2. PICK k \in DOMAIN run.history : \E h :
            /\ run.history[k].status = "running"
            /\ run.history[k].stage = s
            /\ Updates(run, run', k, h)
    BY <1>0, <2>1, ReconcileUpdates
  <2>3. PICK h : Updates(run, run', k, h)
    BY <2>2
  <2>4. Unsettled(run, s) /\ Touches(run, run', s) /\ Fits(run')
    BY <1>0, <2>2, <2>3, UpdateFits
  <2> QED
    BY <1>0, <1>5, <2>1, <2>4 DEF StageInvariant, StageStep, Touches
<1>6. ASSUME AttestCompletion
      PROVE  StageInvariant' /\ RestStep /\ run'.status = run.status
  <2>1. AttestAllowed(run, ws) /\ run' = Attested(run) /\ ws' = ws
    BY <1>6 DEF AttestCompletion
  <2>2. Fits(run')
    BY <1>0, <2>1, AttestFits
  <2>3. /\ run'.history = run.history /\ run'.skips = run.skips
        /\ run'.gates = run.gates /\ run'.decision = run.decision /\ run'.status = run.status
    BY <1>0, <2>1 DEF Attested, Run
  <2> QED
    BY <1>0, <2>1, <2>2, <2>3 DEF StageInvariant, RestStep
<1>7. ASSUME EditWorkspace
      PROVE  StageInvariant' /\ RestStep /\ run'.status = run.status
  BY <1>0, <1>7 DEF EditWorkspace, StageInvariant, RestStep
<1>8. \A k \in DOMAIN run.history : run.history[k].stage \in Stages
  BY <1>0, HistoryTyped DEF StageRecord
<1> QED
  BY <1>1, <1>2, <1>3, <1>4, <1>5, <1>6, <1>7, <1>8

\* Every call that enters a gate does so where the ledger lets it stand.
LEMMA GateCallsFit ==
  ASSUME StageInvariant, NEW g \in 1 .. NumGates, CloseGate(g) \/ AcceptRisk(g) \/ NotApplicable(g)
  PROVE  /\ StageInvariant'
         /\ run'.history = run.history /\ run'.skips = run.skips /\ run'.decision = run.decision
         /\ run'.status = "active"
         /\ g \notin DOMAIN run.gates
         /\ DOMAIN run'.gates = DOMAIN run.gates \cup {g}
         /\ Len(run'.gates) = g /\ Len(run.gates) = g - 1
         /\ \A i \in DOMAIN run.gates : run'.gates[i] = run.gates[i]
         /\ \/ CloseGate(g) /\ run'.gates[g].status = "passed"
            \/ AcceptRisk(g) /\ run'.gates[g].status = "accepted-risk"
            \/ NotApplicable(g) /\ run'.gates[g].status = "not-applicable"
<1> DEFINE Goal == /\ StageInvariant'
         /\ run'.history = run.history /\ run'.skips = run.skips /\ run'.decision = run.decision
         /\ run'.status = "active"
         /\ g \notin DOMAIN run.gates
         /\ DOMAIN run'.gates = DOMAIN run.gates \cup {g}
         /\ Len(run'.gates) = g /\ Len(run.gates) = g - 1
         /\ \A i \in DOMAIN run.gates : run'.gates[i] = run.gates[i]
<1>0. Fits(run) /\ ws \in Contents
  BY DEF StageInvariant
<1>1. ASSUME NEW status \in {"passed", "not-applicable", "accepted-risk"},
             run' = Entered(run, status), ws' = ws, GateAllowed(run, g),
             IF status = "not-applicable" THEN \E x \in Skips(run, Owner[g]) : x.ws = ws
                                          ELSE OwnersCheckpoint(run, Owner[g], ws)
      PROVE  Goal /\ run'.gates[g].status = status
  <2>1. /\ Fits(run')
        /\ run'.history = run.history /\ run'.skips = run.skips /\ run'.decision = run.decision
        /\ run'.status = "active"
        /\ g \notin DOMAIN run.gates
        /\ DOMAIN run'.gates = DOMAIN run.gates \cup {g}
        /\ Len(run'.gates) = g /\ Len(run.gates) = g - 1
        /\ \A i \in DOMAIN run.gates : run'.gates[i] = run.gates[i]
        /\ run'.gates[g] = [status |-> status, ws |-> ws]
    BY <1>0, <1>1, EnterFits
  <2> QED
    BY <1>0, <1>1, <2>1 DEF StageInvariant
<1>2. CASE CloseGate(g)
  <2>1. Goal /\ run'.gates[g].status = "passed"
    BY <1>1, <1>2 DEF CloseGate, CloseAllowed
  <2> QED
    BY <1>2, <2>1
<1>3. CASE AcceptRisk(g)
  <2>1. Goal /\ run'.gates[g].status = "accepted-risk"
    BY <1>1, <1>3 DEF AcceptRisk, AcceptAllowed
  <2> QED
    BY <1>3, <2>1
<1>4. CASE NotApplicable(g)
  <2>1. Goal /\ run'.gates[g].status = "not-applicable"
    BY <1>1, <1>4 DEF NotApplicable, NotApplicableAllowed
  <2> QED
    BY <1>4, <2>1
<1> QED
  BY <1>2, <1>3, <1>4

\* A completion, an abort or a human stop keeps the document valid.
LEMMA StatusCallsFit ==
  ASSUME StageInvariant, Complete \/ Abort \/ PauseForHuman \/ ResolveHumanStop
  PROVE  StageInvariant' /\ RestStep
<1>0. Fits(run) /\ run \in Run /\ ws \in Contents
  BY DEF StageInvariant, Fits
<1>1. run.status \in {"active", "completed", "aborted"} /\ run.paused \in BOOLEAN
  BY <1>0 DEF Run
<1>2. ASSUME NEW status \in {"active", "completed", "aborted"}, NEW paused \in BOOLEAN,
             status = "completed" => run.completion # None \/ run.status = "completed",
             run' = [run EXCEPT !.status = status, !.paused = paused], ws' = ws
      PROVE  StageInvariant' /\ RestStep
  <2>1. Fits(run')
    BY <1>0, <1>2, StatusFits
  <2>2. /\ run'.history = run.history /\ run'.skips = run.skips
        /\ run'.gates = run.gates /\ run'.decision = run.decision
    BY <1>0, <1>2 DEF Run
  <2> QED
    BY <1>0, <1>2, <2>1, <2>2 DEF StageInvariant, RestStep
<1>3. CASE Complete
  <2>1. run' = [run EXCEPT !.status = "completed", !.paused = run.paused] /\ ws' = ws
    BY <1>0, <1>3 DEF Complete, Run
  <2>2. run.completion # None
    <3>1. run.completion = Projection(run, ws)
      BY <1>3 DEF Complete, CompleteAllowed
    <3>2. Projection(run, ws) \in Completion
      <4>1. SkippedStages(run) \subseteq Stages
        BY <1>0, HistoryTyped DEF SkippedStages, SkipRecord
      <4> QED
        BY <1>0, <4>1 DEF Projection, Completion
    <3> QED
      BY <3>1, <3>2, AbsentAssumption
  <2> QED
    BY <1>1, <1>2, <2>1, <2>2
<1>4. CASE Abort
  <2>1. run' = [run EXCEPT !.status = "aborted", !.paused = run.paused] /\ ws' = ws
    BY <1>0, <1>4 DEF Abort, Run
  <2> QED
    BY <1>1, <1>2, <2>1
<1>5. CASE PauseForHuman
  <2>1. run' = [run EXCEPT !.status = run.status, !.paused = TRUE] /\ ws' = ws
    BY <1>0, <1>5 DEF PauseForHuman, Run
  <2> QED
    BY <1>1, <1>2, <1>5, <2>1 DEF PauseForHuman, Unpaused
<1>6. CASE ResolveHumanStop
  <2>1. run' = [run EXCEPT !.status = run.status, !.paused = FALSE] /\ ws' = ws
    BY <1>0, <1>6 DEF ResolveHumanStop, Run
  <2> QED
    BY <1>1, <1>2, <1>6, <2>1 DEF ResolveHumanStop
<1> QED
  BY <1>3, <1>4, <1>5, <1>6

\* Every step of the ledger keeps the document valid.
LEMMA LedgerStep == StageInvariant /\ [Next]_<<ws, run>> => StageInvariant'
<1> SUFFICES ASSUME StageInvariant, [Next]_<<ws, run>> PROVE StageInvariant'
  OBVIOUS
<1>1. CASE UNCHANGED <<ws, run>>
  BY <1>1 DEF StageInvariant
<1>2. CASE \/ \E d \in BOOLEAN : BindConditions(d)
           \/ \E s \in Stages : ClaimStage(s) \/ AttestSkip(s)
           \/ \E k \in DOMAIN run.history :
                 LET h == run.history[k]
                 IN  \/ FinishStage(h.stage, h.dispatch, h.attempt)
                     \/ ReconcileStale(h.stage, h.dispatch)
           \/ AttestCompletion
           \/ EditWorkspace
  BY <1>2, StageCallsFit
<1>3. CASE \E g \in 1 .. NumGates : CloseGate(g) \/ AcceptRisk(g) \/ NotApplicable(g)
  BY <1>3, GateCallsFit
<1>4. CASE Complete \/ Abort \/ PauseForHuman \/ ResolveHumanStop
  BY <1>4, StatusCallsFit
<1> QED
  BY <1>1, <1>2, <1>3, <1>4 DEF Next

\* LedgerValid is one of the parts.
LEMMA InvariantValid == StageInvariant => LedgerValid
  BY DEF StageInvariant, Fits, LedgerValid

\* Whatever legal calls a coordinator makes in whatever order, every document
\* they write passes the managed part of validate() (pipeline.py, validate).
THEOREM DocumentsStayValid == Spec => []LedgerValid
<1>1. Spec => []StageInvariant
  BY BoundRunFits, LedgerStep, PTL DEF Spec
<1> QED
  BY <1>1, InvariantValid, PTL

---------------------------------------------------------------------------
(* The evidence of the gates.                                              *)

\* A stage that is settled rests on settled stages only.
LEMMA SettledIsClosed ==
  ASSUME NEW r \in Run, ValidLedger(r)
  PROVE  {t \in Stages : ~Unsettled(r, t)} \in Closed
<1> DEFINE C == {t \in Stages : ~Unsettled(r, t)}
<1>0. Cardinality({}) = 0
  BY FS_EmptySet
<1> SUFFICES ASSUME NEW t \in C, NEW d \in DependsOn[t]
             PROVE  d \in C
  BY DEF Closed
<1>1. t \in Stages /\ d \in Stages
  BY GraphAssumption
<1>2. CASE Successes(r, t) \cup Advisories(r, t) # {}
  <2>1. PICK k \in DOMAIN r.history : r.history[k].stage = t
    BY <1>2 DEF Successes, Advisories, WithStatus, Of
  <2>2. SettledOnce({j \in Successes(r, d) : j < k}, {j \in Advisories(r, d) : j < k}, Skips(r, d))
    BY <2>1 DEF ValidLedger, DependenciesFirst
  <2> QED
    BY <1>1, <2>2, OnceIsSome DEF Unsettled
<1>3. CASE Skips(r, t) # {}
  <2>1. PICK x \in r.skips : x.stage = t
    BY <1>3 DEF Skips
  <2>2. Cardinality(Successes(r, d)) = 1 \/ Cardinality(Skips(r, d)) = 1
    BY <2>1 DEF ValidLedger, SkipsHold
  <2> QED
    BY <1>0, <1>1, <2>2 DEF Unsettled
<1> QED
  BY <1>2, <1>3 DEF Unsettled

\* The gates a document resolved have owners that succeeded or were skipped.
LEMMA OwnersSettled ==
  ASSUME NEW r, Fits(r), NEW g \in DOMAIN r.gates
  PROVE  /\ g \in 1 .. NumGates
         /\ Owner[g] \in Stages
         /\ ~Unsettled(r, Owner[g])
         /\ \A t \in Closure[Owner[g]] : t \in Stages /\ ~Unsettled(r, t)
         /\ r.gates[g].status = "not-applicable" => Skips(r, Owner[g]) # {}
         /\ r.gates[g].status # "not-applicable" =>
               /\ Cardinality(Successes(r, Owner[g])) = 1
               /\ \E k \in DOMAIN r.history : Successes(r, Owner[g]) = {k}
<1>0. r \in Run /\ ValidLedger(r)
  BY DEF Fits
<1>1. g \in 1 .. NumGates /\ Owner[g] \in Stages
  BY <1>0, HistoryTyped, GateAssumption DEF Fits
<1>2. r.gates[g].status = "not-applicable" => Skips(r, Owner[g]) # {}
  BY <1>0 DEF ValidLedger, GatesHold
<1>3. r.gates[g].status # "not-applicable" =>
         \E k \in DOMAIN r.history : Successes(r, Owner[g]) = {k}
  BY <1>0 DEF ValidLedger, GatesHold, OwnersCheckpoint
<1>4. ~Unsettled(r, Owner[g])
  BY <1>2, <1>3 DEF Unsettled
<1>5. \A t \in Closure[Owner[g]] : t \in Stages /\ ~Unsettled(r, t)
  <2>1. {t \in Stages : ~Unsettled(r, t)} \in Closed
    BY <1>0, SettledIsClosed
  <2> QED
    BY <1>1, <1>4, <2>1 DEF Closure
<1>6. r.gates[g].status # "not-applicable" => Cardinality(Successes(r, Owner[g])) = 1
  BY <1>3, FS_Singleton
<1> QED
  BY <1>1, <1>2, <1>3, <1>4, <1>5, <1>6

\* What the gate of an owner rests on does not change with a stage that is not
\* below it.
LEMMA BundlesStay ==
  ASSUME NEW r \in Run, NEW r2, NEW s, NEW g, Touches(r, r2, s), Owner[g] # s,
         s \notin Closure[Owner[g]], Successes(r, Owner[g]) # {}
  PROVE  /\ GateFindings(r2, g) = GateFindings(r, g)
         /\ Bundle(r2, g) = Bundle(r, g)
         /\ HasBundle(r2, g) = HasBundle(r, g)
<1> DEFINE o == Owner[g]
<1>1. /\ Successes(r2, o) = Successes(r, o)
      /\ \A k \in Of(r, o) : r2.history[k] = r.history[k]
  BY OthersStay
<1>2. \A k \in Successes(r, o) : r2.history[k] = r.history[k]
  BY <1>1 DEF Successes, WithStatus
<1>3. Contributors(r2, o) = Contributors(r, o)
  BY DEF Touches, Contributors
<1>4. \A k \in Contributors(r, o) : r2.history[k] = r.history[k]
  BY DEF Touches, Contributors
<1>5. GateFindings(r2, g) = GateFindings(r, g)
  <2>1. CASE o \in Deciders
    <3>1. {r2.history[k].open : k \in Successes(r2, o)} = {r.history[k].open : k \in Successes(r, o)}
      BY <1>1, <1>2
    <3> QED
      BY <2>1, <3>1 DEF GateFindings
  <2>2. CASE o \notin Deciders
    <3>1. {r2.history[k].findings : k \in Contributors(r2, o)}
             = {r.history[k].findings : k \in Contributors(r, o)}
      BY <1>3, <1>4
    <3> QED
      BY <2>2, <3>1 DEF GateFindings
  <2> QED
    BY <2>1, <2>2
<1>6. r2.history[CHOOSE k \in Successes(r2, o) : TRUE] = r.history[CHOOSE k \in Successes(r, o) : TRUE]
  BY <1>1, <1>2
<1>7. Bundle(r2, g) = Bundle(r, g)
  BY <1>3, <1>5, <1>6 DEF Bundle
<1> QED
  BY <1>1, <1>5, <1>7 DEF HasBundle

\* Nor does it change with anything but the history.
LEMMA BundlesOfHistory ==
  ASSUME NEW r, NEW r2, NEW g, r2.history = r.history
  PROVE  /\ GateFindings(r2, g) = GateFindings(r, g)
         /\ Bundle(r2, g) = Bundle(r, g)
         /\ HasBundle(r2, g) = HasBundle(r, g)
<1>1. \A t : Successes(r2, t) = Successes(r, t) /\ Contributors(r2, t) = Contributors(r, t)
  BY DEF Successes, WithStatus, Of, Contributors
<1>2. GateFindings(r2, g) = GateFindings(r, g)
  <2>1. {r2.history[k].open : k \in Successes(r2, Owner[g])}
           = {r.history[k].open : k \in Successes(r, Owner[g])}
    BY <1>1
  <2>2. {r2.history[k].findings : k \in Contributors(r2, Owner[g])}
           = {r.history[k].findings : k \in Contributors(r, Owner[g])}
    BY <1>1
  <2> QED
    BY <2>1, <2>2 DEF GateFindings
<1>3. Bundle(r2, g) = Bundle(r, g)
  <2>1. Successes(r2, Owner[g]) = Successes(r, Owner[g])
    BY <1>1
  <2>2. (CHOOSE k \in Successes(r2, Owner[g]) : TRUE) = (CHOOSE k \in Successes(r, Owner[g]) : TRUE)
    BY <2>1
  <2> QED
    BY <1>1, <1>2, <2>2 DEF Bundle
<1> QED
  BY <1>1, <1>2, <1>3 DEF HasBundle

\* So the evidence of every resolved gate is the same after any call on the
\* stages, and after any other gate was entered.
LEMMA EvidenceStays ==
  ASSUME StageInvariant, StageInvariant', StageStep \/ RestStep, NEW g \in DOMAIN run.gates
  PROVE  /\ run.gates[g].status # "not-applicable" =>
               /\ GateFindings(run', g) = GateFindings(run, g)
               /\ Bundle(run', g) = Bundle(run, g)
               /\ HasBundle(run', g) = HasBundle(run, g)
         /\ \A x : Skips(run, Owner[g]) = {x} /\ ConditionFalse(run, g) =>
                   Skips(run', Owner[g]) = {x} /\ ConditionFalse(run', g)
         /\ run'.gates = run.gates
<1>0. Fits(run) /\ Fits(run') /\ run \in Run /\ run' \in Run
  BY DEF StageInvariant, Fits
<1>1. CASE RestStep
  <2>1. \A t : /\ Of(run', t) = Of(run, t)
               /\ Successes(run', t) = Successes(run, t)
               /\ Skips(run', t) = Skips(run, t)
    BY <1>1 DEF RestStep, Of, Successes, WithStatus, Skips
  <2>3. /\ GateFindings(run', g) = GateFindings(run, g)
        /\ Bundle(run', g) = Bundle(run, g)
        /\ HasBundle(run', g) = HasBundle(run, g)
    BY <1>1, BundlesOfHistory DEF RestStep
  <2>5. ConditionFalse(run, g) => ConditionFalse(run', g)
    BY <1>1, <2>1, AbsentAssumption DEF RestStep, ConditionFalse
  <2> QED
    BY <1>1, <2>1, <2>3, <2>5 DEF RestStep
<1>2. CASE StageStep
  <2>1. PICK s \in Stages : Unsettled(run, s) /\ Touches(run, run', s)
    BY <1>2 DEF StageStep
  <2>2. Owner[g] # s /\ s \notin Closure[Owner[g]]
    BY <1>0, <2>1, OwnersSettled
  <2>3. run'.gates = run.gates /\ run'.decision = run.decision
    BY <2>1 DEF Touches
  <2>4. Successes(run', Owner[g]) = Successes(run, Owner[g])
        /\ Skips(run', Owner[g]) = Skips(run, Owner[g])
    BY <2>1, <2>2, OthersStay
  <2>5. run.gates[g].status # "not-applicable" => Successes(run, Owner[g]) # {}
    BY <1>0, OwnersSettled
  <2>6. run.gates[g].status # "not-applicable" =>
           /\ GateFindings(run', g) = GateFindings(run, g)
           /\ Bundle(run', g) = Bundle(run, g)
           /\ HasBundle(run', g) = HasBundle(run, g)
    BY <1>0, <2>1, <2>2, <2>5, BundlesStay
  <2>7. ConditionFalse(run, g) => ConditionFalse(run', g)
    BY <2>3, <2>4 DEF ConditionFalse
  <2> QED
    BY <2>3, <2>4, <2>6, <2>7
<1> QED
  BY <1>1, <1>2

---------------------------------------------------------------------------
(* The book.                                                               *)

\* The evidence a risk was accepted on is that of its gate.
RisksFit == \A x \in book.risks : x.report.gate = x.gate

GateInvariant == /\ StageInvariant
                 /\ book \in Book
                 /\ Len(book.notes) = Len(run.gates)
                 /\ RisksFit
                 /\ GateEvidenceHolds
                 /\ GatesAreAnswered

\* The fields of the book.
LEMMA BookTyped ==
  ASSUME NEW b \in Book
  PROVE  /\ b.report \in {None} \cup Report
         /\ b.risks \in SUBSET Risk
         /\ b.notes \in Seq(Note)
         /\ Len(b.notes) \in Nat
         /\ DOMAIN b.notes = 1 .. Len(b.notes)
         /\ \A g \in DOMAIN b.notes : b.notes[g] \in Note
         /\ b.stated \in [Closers -> {None} \cup SUBSET Risk]
         /\ b.refreshes \in 0 .. MaxRefreshes
  BY DEF Book

\* The bundle of a gate whose owner succeeded is a report.
LEMMA BundleTyped ==
  ASSUME NEW r, Fits(r), NEW g \in 1 .. NumGates, HasBundle(r, g), NEW c \in Contents
  PROVE  Bundle(r, g) \in Report /\ [Bundle(r, g) EXCEPT !.ws = c] \in Report
<1> DEFINE o == Owner[g]
<1>0. r \in Run /\ \A k \in DOMAIN r.history : r.history[k] \in StageRecord
  BY HistoryTyped DEF Fits
<1>1. IsFiniteSet(Successes(r, o))
  <2>1. Successes(r, o) \in SUBSET Of(r, o)
    BY DEF Successes, WithStatus
  <2> QED
    BY <1>0, <2>1, AttemptsCounted, FS_Subset
<1>2. PICK k : Successes(r, o) = {k}
  BY <1>1, FS_Singleton DEF HasBundle
<1>3. k \in DOMAIN r.history /\ r.history[k].status = "succeeded"
  BY <1>2 DEF Successes, WithStatus, Of
<1>4. r.history[k].after \in Contents
  BY <1>3 DEF Fits, EvidenceFits
<1>5. (CHOOSE j \in Successes(r, o) : TRUE) = k
  BY <1>2
<1>6. GateFindings(r, g) \in SUBSET Findings
  <2>1. \A j \in Successes(r, o) : r.history[j].open \in SUBSET Findings
    BY <1>0, <1>2, <1>3 DEF StageRecord
  <2>2. \A j \in Contributors(r, o) : r.history[j].findings \in SUBSET Findings
    BY <1>0 DEF Contributors, StageRecord
  <2> QED
    BY <2>1, <2>2 DEF GateFindings
<1>7. Contributors(r, o) \in SUBSET (1 .. MaxRecords)
  BY <1>0, HistoryTyped, BoundAssumption DEF Contributors, Fits
<1>8. Bundle(r, g) = [gate |-> g, findings |-> GateFindings(r, g), from |-> Contributors(r, o),
                      ws |-> r.history[k].after]
  BY <1>5 DEF Bundle
<1>9. g \in 0 .. NumGates
  BY GateAssumption
<1> QED
  BY <1>4, <1>6, <1>7, <1>8, <1>9 DEF Report

\* Calls on the stages, which leave the gates and what was noted of them.
LEMMA StagesKeepGates ==
  ASSUME GateInvariant, StageInvariant', StageStep \/ RestStep, run'.status = run.status,
         book' \in Book, book'.notes = book.notes, book'.risks = book.risks
  PROVE  GateInvariant'
<1>0. Fits(run) /\ Fits(run') /\ book \in Book
  BY DEF GateInvariant, StageInvariant
<1>1. run'.gates = run.gates
  BY DEF StageStep, RestStep, Touches
<1>2. ASSUME NEW g \in DOMAIN run.gates
      PROVE  IF run.gates[g].status = "not-applicable" THEN WaiverHolds(run', book', g)
                                                       ELSE BundleHolds(run', book', g)
  <2>1. IF run.gates[g].status = "not-applicable" THEN WaiverHolds(run, book, g)
                                                  ELSE BundleHolds(run, book, g)
    BY DEF GateInvariant, GateEvidenceHolds, NotesHold
  <2>2. CASE run.gates[g].status = "not-applicable"
    BY <2>1, <2>2, EvidenceStays DEF GateInvariant, WaiverHolds
  <2>3. CASE run.gates[g].status # "not-applicable"
    BY <2>1, <2>3, EvidenceStays DEF GateInvariant, BundleHolds
  <2> QED
    BY <2>2, <2>3
<1>3. GateEvidenceHolds'
  BY <1>1, <1>2 DEF GateEvidenceHolds, NotesHold
<1>4. \A g \in DOMAIN run.gates : run.gates[g].status # "not-applicable" =>
         GateFindings(run', g) = GateFindings(run, g)
  BY EvidenceStays DEF GateInvariant
<1>5. \A g \in DOMAIN run.gates : run.gates[g].status \in {"passed", "not-applicable", "accepted-risk"}
  BY <1>0, HistoryTyped DEF Fits
<1>6. GatesAreAnswered'
  <2> SUFFICES ASSUME NEW g \in DOMAIN run.gates
               PROVE  LET findings == GateFindings(run', g)
                          mediums  == OfSeverity(findings, {"medium"})
                      IN  CASE run.gates[g].status = "passed" -> Blocking(findings) = {}
                            [] run.gates[g].status = "accepted-risk" ->
                                  /\ Blocking(findings) = mediums
                                  /\ run'.status = "completed" =>
                                        {x.finding : x \in RisksAt(book', g)} = mediums
                            [] OTHER -> Skips(run', Owner[g]) # {}
    BY <1>1 DEF GatesAreAnswered
  <2>1. CASE run.gates[g].status = "passed"
    BY <1>4, <2>1 DEF GateInvariant, GatesAreAnswered
  <2>2. CASE run.gates[g].status = "accepted-risk"
    <3>1. RisksAt(book', g) = RisksAt(book, g)
      BY DEF RisksAt
    <3> QED
      BY <1>4, <2>2, <3>1 DEF GateInvariant, GatesAreAnswered
  <2>3. CASE run.gates[g].status = "not-applicable"
    <3>1. Skips(run', Owner[g]) # {}
      BY <1>0, <1>1, <2>3, OwnersSettled
    <3> QED
      BY <2>3, <3>1
  <2> QED
    BY <1>5, <2>1, <2>2, <2>3
<1>7. RisksFit' /\ Len(book'.notes) = Len(run'.gates)
  BY <1>1 DEF GateInvariant, RisksFit
<1> QED
  BY <1>3, <1>6, <1>7 DEF GateInvariant

\* A gate that was entered, with a note of what it stands on.
LEMMA EntriesKeepGates ==
  ASSUME GateInvariant, StageInvariant', NEW g \in 1 .. NumGates, NEW note \in Note,
         run'.history = run.history, run'.skips = run.skips, run'.decision = run.decision,
         run'.status = "active",
         g \notin DOMAIN run.gates, DOMAIN run'.gates = DOMAIN run.gates \cup {g},
         Len(run'.gates) = g, Len(run.gates) = g - 1,
         \A i \in DOMAIN run.gates : run'.gates[i] = run.gates[i],
         book' \in Book, book'.notes = Append(book.notes, note), RisksFit',
         \/ /\ run'.gates[g].status = "passed"
            /\ HasBundle(run, g) /\ note.bundle = Bundle(run, g)
            /\ Blocking(GateFindings(run, g)) = {}
         \/ /\ run'.gates[g].status = "accepted-risk"
            /\ HasBundle(run, g) /\ note.bundle = Bundle(run, g)
            /\ Blocking(GateFindings(run, g)) = OfSeverity(GateFindings(run, g), {"medium"})
         \/ /\ run'.gates[g].status = "not-applicable"
            /\ Skips(run, Owner[g]) = {note.skip} /\ ConditionFalse(run, g)
  PROVE  GateInvariant'
<1>0. Fits(run) /\ Fits(run') /\ book \in Book /\ Len(book.notes) = Len(run.gates)
  BY DEF GateInvariant, StageInvariant
<1>1. /\ \A i : GateFindings(run', i) = GateFindings(run, i)
      /\ \A i : Bundle(run', i) = Bundle(run, i)
      /\ \A i : HasBundle(run', i) = HasBundle(run, i)
  BY BundlesOfHistory
<1>2. /\ \A t : Skips(run', t) = Skips(run, t)
      /\ \A i : ConditionFalse(run', i) = ConditionFalse(run, i)
  BY DEF Skips, ConditionFalse, Successes, WithStatus, Of
<1>3. /\ \A i \in DOMAIN run.gates : book'.notes[i] = book.notes[i]
      /\ book'.notes[g] = note
      /\ Len(book'.notes) = Len(run'.gates)
  <2>1. Len(book.notes) = g - 1 /\ book.notes \in Seq(Note) /\ DOMAIN run.gates = 1 .. Len(run.gates)
    BY <1>0, BookTyped, HistoryTyped DEF Fits
  <2> QED
    BY <1>0, <2>1
<1>4. GateEvidenceHolds'
  <2>1. \A i \in DOMAIN run.gates :
           IF run.gates[i].status = "not-applicable" THEN WaiverHolds(run, book, i)
                                                     ELSE BundleHolds(run, book, i)
    BY DEF GateInvariant, GateEvidenceHolds, NotesHold
  <2>2. \A i \in DOMAIN run.gates :
           IF run.gates[i].status = "not-applicable" THEN WaiverHolds(run', book', i)
                                                     ELSE BundleHolds(run', book', i)
    BY <1>1, <1>2, <1>3, <2>1 DEF WaiverHolds, BundleHolds
  <2>3. IF run'.gates[g].status = "not-applicable" THEN WaiverHolds(run', book', g)
                                                   ELSE BundleHolds(run', book', g)
    BY <1>1, <1>2, <1>3 DEF WaiverHolds, BundleHolds
  <2> QED
    BY <2>2, <2>3 DEF GateEvidenceHolds, NotesHold
<1>5. GatesAreAnswered'
  <2> DEFINE Answered(i, status) ==
        LET findings == GateFindings(run', i)
            mediums  == OfSeverity(findings, {"medium"})
        IN  CASE status = "passed" -> Blocking(findings) = {}
              [] status = "accepted-risk" -> /\ Blocking(findings) = mediums
                                             /\ run'.status = "completed" =>
                                                   {x.finding : x \in RisksAt(book', i)} = mediums
              [] OTHER -> Skips(run', Owner[i]) # {}
  <2>1. ASSUME NEW i \in DOMAIN run.gates
        PROVE  Answered(i, run'.gates[i].status)
    <3>1. run'.gates[i].status = run.gates[i].status
      BY <1>0
    <3>2. run.gates[i].status \in {"passed", "not-applicable", "accepted-risk"}
      BY <1>0, HistoryTyped DEF Fits
    <3>3. CASE run.gates[i].status = "passed"
      BY <1>1, <3>1, <3>3 DEF GateInvariant, GatesAreAnswered
    <3>4. CASE run.gates[i].status = "accepted-risk"
      BY <1>1, <3>1, <3>4 DEF GateInvariant, GatesAreAnswered
    <3>5. CASE run.gates[i].status = "not-applicable"
      BY <1>0, <1>2, <3>1, <3>5, OwnersSettled
    <3> QED
      BY <3>2, <3>3, <3>4, <3>5
  <2>2. Answered(g, run'.gates[g].status)
    BY <1>1, <1>2
  <2> QED
    BY <2>1, <2>2 DEF GatesAreAnswered
<1> QED
  BY <1>3, <1>4, <1>5 DEF GateInvariant

\* A change of the book alone, of a run that is not completed.
LEMMA BookKeepsGates ==
  ASSUME GateInvariant, run' = run, ws' = ws, run.status = "active", book' \in Book, RisksFit',
         Len(book'.notes) = Len(book.notes),
         \A g \in DOMAIN run.gates : /\ book'.notes[g].bundle = book.notes[g].bundle
                                     /\ book'.notes[g].skip = book.notes[g].skip
  PROVE  GateInvariant'
<1>1. StageInvariant'
  BY DEF GateInvariant, StageInvariant
<1>2. GateEvidenceHolds'
  BY DEF GateInvariant, GateEvidenceHolds, NotesHold, BundleHolds, WaiverHolds
<1>3. GatesAreAnswered'
  BY DEF GateInvariant, GatesAreAnswered
<1> QED
  BY <1>1, <1>2, <1>3 DEF GateInvariant

---------------------------------------------------------------------------
(* Every call of a managed run.                                            *)

\* A run without records and without evidence.
LEMMA BookStarts == GInit => GateInvariant
<1> SUFFICES ASSUME GInit PROVE GateInvariant
  OBVIOUS
<1>1. StageInvariant /\ run = BoundRun /\ book = EmptyBook
  BY BoundRunFits DEF GInit, Init
<1>2. EmptyBook \in Book
  <2>1. 0 \in 0 .. MaxRefreshes
    BY BookAssumption
  <2> QED
    BY <2>1 DEF EmptyBook, Book
<1>3. /\ DOMAIN BoundRun.gates = {} /\ Len(BoundRun.gates) = 0
      /\ Len(EmptyBook.notes) = 0 /\ EmptyBook.risks = {}
  BY DEF BoundRun, EmptyBook
<1> QED
  BY <1>1, <1>2, <1>3 DEF GateInvariant, RisksFit, GateEvidenceHolds, NotesHold, GatesAreAnswered

\* record_findings: the next gate's bundle or the report of a run without evidence.
LEMMA RecordFindingsKeeps ==
  ASSUME GateInvariant, RecordFindings
  PROVE  GateInvariant'
<1>0. Fits(run) /\ ws \in Contents /\ book \in Book /\ NumGates \in Nat
  BY GateAssumption DEF GateInvariant, StageInvariant
<1>1. PICK report \in Recordable(run) : book' = [book EXCEPT !.report = report]
  BY DEF RecordFindings
<1>2. report \in Report
  <2>1. CASE HasBundle(run, Next1(run))
    <3>1. Next1(run) \in 1 .. NumGates
      BY <1>0, HistoryTyped DEF RecordFindings, Next1, Fits
    <3>2. report = [Bundle(run, Next1(run)) EXCEPT !.ws = ws]
      BY <2>1 DEF Recordable
    <3> QED
      BY <1>0, <2>1, <3>1, <3>2, BundleTyped
  <2>2. CASE ~HasBundle(run, Next1(run))
    <3>1. report = [gate |-> 0, findings |-> {}, from |-> {}, ws |-> ws]
      BY <2>2 DEF Recordable
    <3> QED
      BY <1>0, <3>1 DEF Report
  <2> QED
    BY <2>1, <2>2
<1>3. book' \in Book /\ book'.risks = book.risks /\ book'.notes = book.notes
  BY <1>0, <1>1, <1>2 DEF Book
<1>4. run' = run /\ ws' = ws /\ run.status = "active"
  BY DEF RecordFindings, Unpaused
<1> QED
  BY <1>3, <1>4, BookKeepsGates DEF GateInvariant, RisksFit

\* close_gate binds the gate to the bundle it derives.
LEMMA PassGateKeeps ==
  ASSUME GateInvariant, NEW g \in 1 .. NumGates, PassGate(g)
  PROVE  GateInvariant'
<1>0. Fits(run) /\ ws \in Contents /\ book \in Book /\ StageInvariant
  BY DEF GateInvariant, StageInvariant
<1>1. CloseGate(g) /\ HasBundle(run, g) /\ book' = Passed(book, Bundle(run, g))
  BY DEF PassGate
<1> DEFINE note == [bundle |-> Bundle(run, g), skip |-> None, risks |-> {}]
<1>2. Bundle(run, g) \in Report
  BY <1>0, <1>1, BundleTyped
<1>3. note \in Note /\ note.bundle = Bundle(run, g)
  BY <1>2 DEF Note
<1>4. book' = [book EXCEPT !.report = Bundle(run, g), !.notes = Append(book.notes, note)]
  BY <1>1 DEF Passed
<1> HIDE DEF note
<1>5. Append(book.notes, note) \in Seq(Note)
  BY <1>0, <1>3, BookTyped
<1>6. book' \in Book /\ book'.risks = book.risks /\ book'.notes = Append(book.notes, note)
  BY <1>0, <1>2, <1>4, <1>5 DEF Book
<1>7. Blocking(GateFindings(run, g)) = {} /\ run'.gates[g].status = "passed"
  <2>1. run' = Entered(run, "passed") /\ CloseAllowed(run, g)
    BY <1>1 DEF CloseGate
  <2>2. run'.gates[g].status = "passed"
    BY <1>0, <2>1, EnterFits DEF CloseAllowed
  <2> QED
    BY <2>1, <2>2 DEF CloseAllowed
<1>8. RisksFit'
  BY <1>6 DEF GateInvariant, RisksFit
<1> QED
  BY <1>0, <1>1, <1>3, <1>6, <1>7, <1>8, GateCallsFit, EntriesKeepGates

\* not_applicable binds it to the skip of its owner.
LEMMA WaiveGateKeeps ==
  ASSUME GateInvariant, NEW g \in 1 .. NumGates, WaiveGate(g)
  PROVE  GateInvariant'
<1>0. Fits(run) /\ run \in Run /\ ws \in Contents /\ book \in Book /\ StageInvariant
  BY DEF GateInvariant, StageInvariant, Fits
<1>1. NotApplicable(g) /\ ConditionFalse(run, g)
  BY DEF WaiveGate
<1>2. PICK x \in Skips(run, Owner[g]) : book' = [book EXCEPT !.notes = Append(@,
                                            [bundle |-> None, skip |-> x, risks |-> {}])]
  BY DEF WaiveGate
<1> DEFINE note == [bundle |-> None, skip |-> x, risks |-> {}]
<1>3. x \in run.skips /\ x.stage = Owner[g]
  BY DEF Skips
<1>4. Skips(run, Owner[g]) = {x}
  BY <1>0, <1>3 DEF Fits, ValidLedger, SkipsHold
<1>5. note \in Note /\ note.skip = x
  BY <1>0, <1>3, HistoryTyped DEF Note
<1>6. book' = [book EXCEPT !.notes = Append(book.notes, note)]
  BY <1>2
<1> HIDE DEF note
<1>7. Append(book.notes, note) \in Seq(Note)
  BY <1>0, <1>5, BookTyped
<1>8. book' \in Book /\ book'.risks = book.risks /\ book'.notes = Append(book.notes, note)
  BY <1>0, <1>6, <1>7 DEF Book
<1>9. run'.gates[g].status = "not-applicable"
  <2>1. run' = Entered(run, "not-applicable") /\ NotApplicableAllowed(run, g)
    BY <1>1 DEF NotApplicable
  <2> QED
    BY <1>0, <2>1, EnterFits DEF NotApplicableAllowed
<1>10. RisksFit'
  BY <1>8 DEF GateInvariant, RisksFit
<1> QED
  BY <1>0, <1>1, <1>4, <1>5, <1>8, <1>9, <1>10, GateCallsFit, EntriesKeepGates

\* What an acceptance is made of.
LEMMA AcceptanceFits ==
  ASSUME GateInvariant, NEW g \in 1 .. NumGates, NEW f \in Findings, NEW call \in Nat,
         AcceptableAt(g, f)
  PROVE  /\ Acceptance(g, f, call) \in Risk
         /\ Acceptance(g, f, call).gate = g
         /\ Acceptance(g, f, call).report.gate = g
         /\ HasBundle(run, g)
<1>1. book.report \in Report /\ book.report.gate = g
  <2>1. book.report # None
    BY DEF AcceptableAt, ReportCurrent
  <2> QED
    BY <2>1, BookTyped DEF GateInvariant, AcceptableAt
<1>2. HasBundle(run, g)
  <2>1. g # 0
    BY GateAssumption
  <2> QED
    BY <1>1, <2>1 DEF AcceptableAt, ReportCurrent
<1>3. Acceptance(g, f, call) \in Risk
  BY <1>1 DEF Acceptance, Risk
<1> QED
  BY <1>1, <1>2, <1>3 DEF Acceptance

\* accept_risk: one more acceptance, and the gate with the last one.
LEMMA AcceptRiskKeeps ==
  ASSUME GateInvariant, NEW g \in 1 .. NumGates, NEW f \in Findings, AcceptRiskAt(g, f)
  PROVE  GateInvariant'
<1>0. Fits(run) /\ ws \in Contents /\ book \in Book /\ StageInvariant
  BY DEF GateInvariant, StageInvariant
<1> DEFINE risks == book.risks \cup {Acceptance(g, f, 0)}
<1> DEFINE here == {x \in risks : x.gate = g}
<1>1. /\ Acceptance(g, f, 0) \in Risk
      /\ Acceptance(g, f, 0).report.gate = Acceptance(g, f, 0).gate
      /\ HasBundle(run, g)
  BY AcceptanceFits DEF AcceptRiskAt
<1>2. risks \in SUBSET Risk /\ \A x \in risks : x.report.gate = x.gate
  BY <1>0, <1>1, BookTyped DEF GateInvariant, RisksFit
<1>3. here \in SUBSET Risk
  BY <1>2
<1>4. \/ /\ AcceptRisk(g)
         /\ book' = [book EXCEPT !.risks = risks, !.notes = Append(@,
                        [bundle |-> Bundle(run, g), skip |-> None, risks |-> here])]
      \/ book' = [book EXCEPT !.risks = risks] /\ ws' = ws /\ run' = run
  BY DEF AcceptRiskAt
<1> HIDE DEF risks, here
<1>5. CASE /\ AcceptRisk(g)
           /\ book' = [book EXCEPT !.risks = risks, !.notes = Append(@,
                          [bundle |-> Bundle(run, g), skip |-> None, risks |-> here])]
  <2> DEFINE note == [bundle |-> Bundle(run, g), skip |-> None, risks |-> here]
  <2>1. Bundle(run, g) \in Report
    BY <1>0, <1>1, BundleTyped
  <2>2. note \in Note /\ note.bundle = Bundle(run, g)
    BY <1>3, <2>1 DEF Note
  <2>3. book' = [book EXCEPT !.risks = risks, !.notes = Append(book.notes, note)]
    BY <1>5
  <2> HIDE DEF note
  <2>4. Append(book.notes, note) \in Seq(Note)
    BY <1>0, <2>2, BookTyped
  <2>5. book' \in Book /\ book'.risks = risks /\ book'.notes = Append(book.notes, note)
    BY <1>0, <1>2, <2>3, <2>4 DEF Book
  <2>6. run' = Entered(run, "accepted-risk") /\ AcceptAllowed(run, g)
    BY <1>5 DEF AcceptRisk
  <2>7. run'.gates[g].status = "accepted-risk"
    BY <1>0, <2>6, EnterFits DEF AcceptAllowed
  <2>8. Blocking(GateFindings(run, g)) = OfSeverity(GateFindings(run, g), {"medium"})
    BY <2>6 DEF AcceptAllowed, Blocking, OfSeverity
  <2>9. RisksFit'
    BY <1>2, <2>5 DEF RisksFit
  <2> QED
    BY <1>0, <1>1, <1>5, <2>2, <2>5, <2>7, <2>8, <2>9, GateCallsFit, EntriesKeepGates
<1>6. CASE book' = [book EXCEPT !.risks = risks] /\ ws' = ws /\ run' = run
  <2>1. book' \in Book /\ book'.risks = risks /\ book'.notes = book.notes
    BY <1>0, <1>2, <1>6 DEF Book
  <2>2. run.status = "active"
    BY DEF AcceptRiskAt, GateAllowed, Unpaused
  <2>3. RisksFit'
    BY <1>2, <2>1 DEF RisksFit
  <2> QED
    BY <1>6, <2>1, <2>2, <2>3, BookKeepsGates
<1> QED
  BY <1>4, <1>5, <1>6

\* accept_risk --refresh: other acceptances of a gate that stays as it is.
LEMMA RefreshRiskKeeps ==
  ASSUME GateInvariant, NEW g \in 1 .. NumGates, NEW f \in Findings, NEW old \in Findings,
         RefreshRisk(g, f, old)
  PROVE  GateInvariant'
<1>0. Fits(run) /\ run \in Run /\ ws \in Contents /\ book \in Book
  BY DEF GateInvariant, StageInvariant, Fits
<1> DEFINE call == book.refreshes + 1
<1> DEFINE again == (book.risks \ Retired(g, old)) \cup {Acceptance(g, f, call)}
<1> DEFINE here == {x \in again : x.gate = g}
<1> DEFINE note == [book.notes[g] EXCEPT !.risks = here]
<1>1. /\ RefreshAllowed(g, f, old) /\ book.refreshes < MaxRefreshes
      /\ book' = [book EXCEPT !.risks = again, !.notes[g].risks = here, !.refreshes = @ + 1]
      /\ run' = run /\ ws' = ws
  BY DEF RefreshRisk
<1>2. call \in Nat /\ call \in 0 .. MaxRefreshes
  BY <1>0, <1>1, BookTyped, BookAssumption
<1>3. Acceptance(g, f, call) \in Risk
      /\ Acceptance(g, f, call).report.gate = Acceptance(g, f, call).gate
  BY <1>1, <1>2, AcceptanceFits DEF RefreshAllowed
<1>4. again \in SUBSET Risk /\ \A x \in again : x.report.gate = x.gate
  BY <1>0, <1>3, BookTyped DEF GateInvariant, RisksFit
<1>5. here \in SUBSET Risk
  BY <1>4
<1>6. g \in DOMAIN book.notes
  BY <1>0, <1>1, BookTyped, HistoryTyped DEF RefreshAllowed, GateInvariant
<1>7. book' = [book EXCEPT !.risks = again, !.notes = [book.notes EXCEPT ![g] = note],
                           !.refreshes = call]
  BY <1>0, <1>1 DEF Book
<1>8. book.notes[g] \in Note
  BY <1>0, <1>6, BookTyped
<1> HIDE DEF here, again, call
<1>9. note \in Note /\ note.bundle = book.notes[g].bundle /\ note.skip = book.notes[g].skip
  BY <1>5, <1>8 DEF Note
<1> HIDE DEF note
<1> DEFINE notes == [book.notes EXCEPT ![g] = note]
<1>10. /\ notes \in Seq(Note)
       /\ Len(notes) = Len(book.notes)
       /\ \A i \in DOMAIN book.notes : /\ notes[i].bundle = book.notes[i].bundle
                                       /\ notes[i].skip = book.notes[i].skip
  BY <1>0, <1>6, <1>9, BookTyped
<1>11. book' = [book EXCEPT !.risks = again, !.notes = notes, !.refreshes = call]
  BY <1>7
<1> HIDE DEF notes
<1>12. book' \in Book /\ book'.risks = again /\ book'.notes = notes
  BY <1>0, <1>2, <1>4, <1>10, <1>11 DEF Book
<1>13. run.status = "active" /\ DOMAIN run.gates = DOMAIN book.notes
  BY <1>0, <1>1, BookTyped, HistoryTyped DEF RefreshAllowed, Unpaused, GateInvariant
<1>14. RisksFit'
  BY <1>4, <1>12 DEF RisksFit
<1> QED
  BY <1>1, <1>10, <1>12, <1>13, <1>14, BookKeepsGates

\* finish_stage, with what a closeout states.
LEMMA FinishGatedKeeps ==
  ASSUME GateInvariant, NEW k \in DOMAIN run.history,
         FinishGated(run.history[k].stage, run.history[k].dispatch, run.history[k].attempt)
  PROVE  GateInvariant'
<1> DEFINE h == run.history[k]
<1>0. book \in Book /\ StageInvariant
  BY DEF GateInvariant
<1>1. FinishStage(h.stage, h.dispatch, h.attempt)
  BY DEF FinishGated
<1>2. StageInvariant' /\ (StageStep \/ RestStep) /\ run'.status = run.status
  BY <1>0, <1>1, StageCallsFit
<1>3. \/ book' = book
      \/ h.stage \in Closers /\ book' = [book EXCEPT !.stated[h.stage] = book.risks]
  BY DEF FinishGated
<1>4. book' \in Book /\ book'.risks = book.risks /\ book'.notes = book.notes
  <2>1. CASE book' = book
    BY <1>0, <2>1
  <2>2. CASE h.stage \in Closers /\ book' = [book EXCEPT !.stated[h.stage] = book.risks]
    <3> DEFINE stated == [book.stated EXCEPT ![h.stage] = book.risks]
    <3>1. stated \in [Closers -> {None} \cup SUBSET Risk]
      BY <1>0, <2>2, BookTyped
    <3>2. book' = [book EXCEPT !.stated = stated]
      BY <1>0, <2>2 DEF Book
    <3> HIDE DEF stated
    <3> QED
      BY <1>0, <3>1, <3>2 DEF Book
  <2> QED
    BY <1>3, <2>1, <2>2
<1> QED
  BY <1>2, <1>4, StagesKeepGates

\* complete: every acceptance is fresh, so all of them are of the one gate the
\* report is about, and cover its medium findings.
LEMMA FinalizeKeeps ==
  ASSUME GateInvariant, Finalize
  PROVE  GateInvariant'
<1>0. Fits(run) /\ run \in Run /\ ws \in Contents /\ book \in Book /\ StageInvariant
  BY DEF GateInvariant, StageInvariant, Fits
<1>1. /\ Complete /\ book' = book /\ RisksFresh(run, book) /\ ReportCurrent(run, book.report)
      /\ Mediums(book) # {} => Covered
  BY DEF Finalize, Validates
<1>2. StageInvariant' /\ RestStep
  BY <1>0, <1>1, StatusCallsFit
<1>3. run'.gates = run.gates
  BY <1>2 DEF RestStep
<1>4. \A g \in DOMAIN run.gates : run.gates[g].status = "accepted-risk" =>
         {x.finding : x \in RisksAt(book, g)} = OfSeverity(GateFindings(run, g), {"medium"})
  <2> SUFFICES ASSUME NEW g \in DOMAIN run.gates, run.gates[g].status = "accepted-risk"
               PROVE  {x.finding : x \in RisksAt(book, g)}
                         = OfSeverity(GateFindings(run, g), {"medium"})
    OBVIOUS
  <2>1. /\ Cardinality(RisksAt(book, g)) = Cardinality(Mediums(book))
        /\ Mediums(book) # {}
    BY <1>1 DEF RisksFresh, EntryCovered
  <2>2. IsFiniteSet(Mediums(book))
    <3>1. Mediums(book) \in SUBSET Findings
      BY <1>0, BookTyped DEF Mediums, OfSeverity, Open, Report
    <3> QED
      BY <3>1, FindingAssumption, FS_Subset
  <2>3. RisksAt(book, g) # {}
    BY <2>1, <2>2, FS_EmptySet
  <2>4. PICK x \in book.risks : x.gate = g
    BY <2>3 DEF RisksAt
  <2>5. x.report = book.report /\ x.report.gate = g
    BY <1>1, <2>4 DEF RisksFresh, Fresh, GateInvariant, RisksFit
  <2>6. {y.finding : y \in RisksAt(book, g)} = Mediums(book)
    BY <1>1, <2>1, <2>5 DEF Covered
  <2>7. g # 0
    BY <1>0, OwnersSettled
  <2>8. book.report = [Bundle(run, g) EXCEPT !.ws = ws] /\ book.report # None
    BY <1>1, <2>5, <2>7 DEF ReportCurrent
  <2>9. book.report.findings = GateFindings(run, g)
    BY <2>8 DEF Bundle
  <2> QED
    BY <2>6, <2>8, <2>9 DEF Mediums, Open
<1>5. \A g \in DOMAIN run.gates : run.gates[g].status \in {"passed", "not-applicable", "accepted-risk"}
  BY <1>0, HistoryTyped DEF Fits
<1>6. \A g : /\ GateFindings(run', g) = GateFindings(run, g)
             /\ Bundle(run', g) = Bundle(run, g)
             /\ HasBundle(run', g) = HasBundle(run, g)
  BY <1>2, BundlesOfHistory DEF RestStep
<1>7. GatesAreAnswered'
  <2> SUFFICES ASSUME NEW g \in DOMAIN run.gates
               PROVE  LET findings == GateFindings(run, g)
                          mediums  == OfSeverity(findings, {"medium"})
                      IN  CASE run.gates[g].status = "passed" -> Blocking(findings) = {}
                            [] run.gates[g].status = "accepted-risk" ->
                                  /\ Blocking(findings) = mediums
                                  /\ run'.status = "completed" =>
                                        {x.finding : x \in RisksAt(book, g)} = mediums
                            [] OTHER -> Skips(run', Owner[g]) # {}
    BY <1>1, <1>3, <1>6 DEF GatesAreAnswered
  <2>1. CASE run.gates[g].status = "passed"
    BY <2>1 DEF GateInvariant, GatesAreAnswered
  <2>2. CASE run.gates[g].status = "accepted-risk"
    BY <1>4, <2>2 DEF GateInvariant, GatesAreAnswered
  <2>3. CASE run.gates[g].status = "not-applicable"
    <3>1. Skips(run', Owner[g]) # {}
      <4>1. Fits(run') /\ g \in DOMAIN run'.gates /\ run'.gates[g].status = "not-applicable"
        BY <1>2, <1>3, <2>3 DEF StageInvariant
      <4> QED
        BY <4>1, OwnersSettled
    <3> QED
      BY <2>3, <3>1
  <2> QED
    BY <1>5, <2>1, <2>2, <2>3
<1>8. GateEvidenceHolds'
  <2>1. \A g : Skips(run', g) = Skips(run, g)
    BY <1>2 DEF RestStep, Skips
  <2>2. \A g : ConditionFalse(run, g) => ConditionFalse(run', g)
    <3>1. \A g : Successes(run', g) = Successes(run, g)
      BY <1>2 DEF RestStep, Successes, WithStatus, Of
    <3> QED
      BY <1>2, <3>1, AbsentAssumption DEF RestStep, ConditionFalse
  <2> QED
    BY <1>1, <1>3, <1>6, <2>1, <2>2 DEF GateInvariant, GateEvidenceHolds, NotesHold, BundleHolds,
                                        WaiverHolds
<1> QED
  BY <1>1, <1>2, <1>3, <1>7, <1>8 DEF GateInvariant, RisksFit

\* Every call keeps what the gates stand on.
LEMMA GateStep == GateInvariant /\ [GNext]_vars => GateInvariant'
<1> SUFFICES ASSUME GateInvariant, [GNext]_vars PROVE GateInvariant'
  OBVIOUS
<1>1. CASE UNCHANGED vars
  BY <1>1 DEF vars, GateInvariant, StageInvariant, RisksFit, GateEvidenceHolds, GatesAreAnswered
<1>2. CASE StageCall /\ UNCHANGED book
  <2>1. StageInvariant' /\ (StageStep \/ RestStep) /\ run'.status = run.status
    BY <1>2, StageCallsFit DEF StageCall, GateInvariant
  <2> QED
    BY <1>2, <2>1, StagesKeepGates DEF GateInvariant
<1>3. CASE \E k \in DOMAIN run.history :
              FinishGated(run.history[k].stage, run.history[k].dispatch, run.history[k].attempt)
  BY <1>3, FinishGatedKeeps
<1>4. CASE RecordFindings
  BY <1>4, RecordFindingsKeeps
<1>5. ASSUME NEW g \in 1 .. NumGates, PassGate(g)
      PROVE  GateInvariant'
  BY <1>5, PassGateKeeps
<1>6. ASSUME NEW g \in 1 .. NumGates, WaiveGate(g)
      PROVE  GateInvariant'
  BY <1>6, WaiveGateKeeps
<1>7. ASSUME NEW g \in 1 .. NumGates, NEW f \in Findings, AcceptRiskAt(g, f)
      PROVE  GateInvariant'
  BY <1>7, AcceptRiskKeeps
<1>8. ASSUME NEW g \in 1 .. NumGates, NEW f \in Findings, NEW old \in Findings, RefreshRisk(g, f, old)
      PROVE  GateInvariant'
  BY <1>8, RefreshRiskKeeps
<1>9. CASE Finalize
  BY <1>9, FinalizeKeeps
<1> QED
  BY <1>1, <1>2, <1>3, <1>4, <1>5, <1>6, <1>7, <1>8, <1>9 DEF GNext

\* With the gate calls, too, every document passes validate() (pipeline.py).
THEOREM GatedDocumentsStayValid == GSpec => []LedgerValid
<1>1. GSpec => []GateInvariant
  BY BookStarts, GateStep, PTL DEF GSpec
<1>2. GateInvariant => LedgerValid
  BY InvariantValid DEF GateInvariant
<1> QED
  BY <1>1, <1>2, PTL

\* The evidence of a resolved gate never goes out of date: what validate()
\* derives again on every later call is what the gate was bound to
\* (_managed_gate_bundle_problem, _managed_not_applicable_bundle_problem).
THEOREM EvidenceIsForEver == GSpec => []GateEvidenceHolds
<1>1. GSpec => []GateInvariant
  BY BookStarts, GateStep, PTL DEF GSpec
<1>2. GateInvariant => GateEvidenceHolds
  BY DEF GateInvariant
<1> QED
  BY <1>1, <1>2, PTL

\* Every gate is answered for: no blocking finding below a passed one, at most
\* medium ones below an accepted one, all of them accepted when the run
\* completes (close_gate, accept_risk, complete).
THEOREM EveryGateIsAnswered == GSpec => []GatesAreAnswered
<1>1. GSpec => []GateInvariant
  BY BookStarts, GateStep, PTL DEF GSpec
<1>2. GateInvariant => GatesAreAnswered
  BY DEF GateInvariant
<1> QED
  BY <1>1, <1>2, PTL

---------------------------------------------------------------------------
(* The coordinator of WorkflowExecutor: what it holds in memory, beside    *)
(* the document it writes.                                                 *)

Phases == {"idle", "locking", "bind", "skip", "attest", "halt",
           "launch", "wait", "finish", "salvage", "unwind", "decide"}

Memory == [pc : Phases, done : SUBSET Stages, skipped : SUBSET Stages, resolved : SUBSET Nat,
           batch : SUBSET Stages, live : Seq(Claim), later : Seq(Claim), next : Nat \ {0},
           seen : Contents \cup {None}, raises : BOOLEAN]

\* A claim is of the latest attempt of its stage, and that attempt still runs.
IsLatest(r, h) == \E k \in DOMAIN r.history :
    /\ r.history[k].stage = h.stage
    /\ r.history[k].dispatch = h.dispatch
    /\ r.history[k].attempt = h.attempt
    /\ \A j \in DOMAIN r.history : r.history[j].stage = h.stage => j <= k

Runs(r, h) == \E k \in Exact(r, h.stage, h.dispatch, h.attempt) :
    r.history[k].status = "running"

\* Claims in hand whose result is not recorded yet.
Pending(m) == {i \in DOMAIN m.live : \/ m.pc \in {"launch", "wait"}
                                     \/ m.pc \in {"finish", "salvage", "unwind"} /\ i >= m.next}

\* Claims in hand are of different stages, and of none that is still to launch.
Apart(m) ==
    /\ \A i, j \in DOMAIN m.live : m.live[i].stage = m.live[j].stage => i = j
    /\ \A i, j \in DOMAIN m.later : m.later[i].stage = m.later[j].stage => i = j
    /\ \A i \in DOMAIN m.live, j \in DOMAIN m.later : m.live[i].stage # m.later[j].stage
    /\ \A i \in DOMAIN m.live : m.live[i].stage \notin m.batch

\* What is in hand where; a checkpoint only where it is about to be used.
InPlace(m) ==
    /\ m.batch # {} => m.pc = "launch"
    /\ m.pc \in {"idle", "locking", "bind", "skip", "attest", "halt"} => m.live = <<>>
    /\ m.pc \notin {"wait", "finish", "salvage", "decide"} => m.later = <<>>
    /\ m.seen # None => \/ m.pc \in {"skip", "attest"}
                        \/ m.pc \in {"finish", "salvage", "unwind"} /\ m.next <= Len(m.live)

\* What may have come back, and in what is being closed.
ResultsFit(m) == \A i \in Pending(m) :
    /\ m.pc \in {"finish", "salvage"} => m.live[i].result \in Outcomes[m.live[i].stage]
    /\ m.pc = "unwind" => m.live[i].result \in Closings(m.live[i].stage)

MemoryHolds(r, m) ==
    /\ m \in Memory
    /\ Apart(m) /\ InPlace(m) /\ ResultsFit(m)
    /\ \A i \in DOMAIN m.live : IsLatest(r, m.live[i])
    /\ \A i \in DOMAIN m.later : IsLatest(r, m.later[i])
    /\ \A i \in Pending(m) : Runs(r, m.live[i])
    /\ m.pc \notin {"idle", "locking", "bind", "halt"} => r.decision # None

\* A skip is captured for a stage that is still to be skipped.
SkipsAhead == \A c \in Coordinators :
    co[c].pc = "skip" /\ co[c].seen # None => Skippable(c) # {}

\* Locks are taken in order, all of them by who works, none by who is idle.
LeaseHolds ==
    /\ locks \in [Locks -> Coordinators \cup {None}]
    /\ \A c \in Coordinators :
          /\ co[c].pc = "idle" => co[c].next = 1 /\ \A l \in Locks : locks[l] # c
          /\ co[c].pc = "locking" =>
                /\ co[c].next \in DOMAIN LocksOf[c]
                /\ \A i \in 1 .. co[c].next - 1 : locks[LocksOf[c][i]] = c
          /\ Working(c) => \A i \in DOMAIN LocksOf[c] : locks[LocksOf[c][i]] = c

\* Undisturbed, a coordinator that has results to record can record them.
Undisturbed(r, w, m) ==
    /\ Pending(m) # {} => Unpaused(r)
    /\ m.seen # None => m.seen = w
    /\ m.pc = "unwind" => \A i \in Pending(m) : ~Unrecordable(m.live[i].result)

Attended == \A k \in DOMAIN run.history : run.history[k].status = "running" =>
    \E c \in Coordinators : \E i \in Pending(co[c]) :
        LET h == co[c].live[i] IN k \in Exact(run, h.stage, h.dispatch, h.attempt)

Calm == Attended /\ \A c \in Coordinators : Undisturbed(run, ws, co[c])

ExecutorInvariant ==
    /\ StageInvariant
    /\ co \in [Coordinators -> Memory]
    /\ LeaseHolds
    /\ \A c \in Coordinators : MemoryHolds(run, co[c])
    /\ SkipsAhead
    /\ mishaps = {} => Calm

\* A coordinator that is past its locks.
AtWork(m) == m.pc \notin {"idle", "locking"}

\* Running attempts are all in hand.
AttendedBy(r, m) == \A k \in DOMAIN r.history : r.history[k].status = "running" =>
    \E i \in Pending(m) :
        k \in Exact(r, m.live[i].stage, m.live[i].dispatch, m.live[i].attempt)

\* What holds between the coordinator at work and the ledger.
Fine(r, w, g, m) == /\ MemoryHolds(r, m)
                    /\ g = {} => Undisturbed(r, w, m) /\ AttendedBy(r, m)

\* The parts of what a coordinator holds.
LEMMA MemoryParts ==
  ASSUME NEW m \in Memory
  PROVE  /\ m.pc \in Phases /\ m.batch \subseteq Stages
         /\ m.done \subseteq Stages /\ m.skipped \subseteq Stages /\ m.resolved \subseteq Nat
         /\ m.live \in Seq(Claim) /\ m.later \in Seq(Claim) /\ m.next \in Nat \ {0}
         /\ Len(m.live) \in Nat /\ DOMAIN m.live = 1 .. Len(m.live)
         /\ Len(m.later) \in Nat /\ DOMAIN m.later = 1 .. Len(m.later)
         /\ m.seen \in Contents \cup {None} /\ m.raises \in BOOLEAN
         /\ \A i \in DOMAIN m.live : /\ m.live[i] \in Claim
                                     /\ m.live[i].stage \in Stages
                                     /\ m.live[i].dispatch \in Dispatches
                                     /\ m.live[i].attempt \in Nat \ {0}
         /\ \A i \in DOMAIN m.later : m.later[i] \in Claim /\ m.later[i].stage \in Stages
         /\ Pending(m) \subseteq DOMAIN m.live
<1>1. /\ m.pc \in Phases /\ m.batch \subseteq Stages
      /\ m.done \subseteq Stages /\ m.skipped \subseteq Stages /\ m.resolved \subseteq Nat
      /\ m.live \in Seq(Claim) /\ m.later \in Seq(Claim) /\ m.next \in Nat \ {0}
      /\ m.seen \in Contents \cup {None} /\ m.raises \in BOOLEAN
  BY DEF Memory
<1>2. /\ Len(m.live) \in Nat /\ DOMAIN m.live = 1 .. Len(m.live)
      /\ Len(m.later) \in Nat /\ DOMAIN m.later = 1 .. Len(m.later)
      /\ \A i \in DOMAIN m.live : m.live[i] \in Claim
      /\ \A i \in DOMAIN m.later : m.later[i] \in Claim
  BY <1>1
<1>3. \A h \in Claim : h.stage \in Stages /\ h.dispatch \in Dispatches /\ h.attempt \in Nat \ {0}
  BY DEF Claim
<1>4. Pending(m) \subseteq DOMAIN m.live
  BY DEF Pending
<1> QED
  BY <1>1, <1>2, <1>3, <1>4

\* Two coordinators share a lock, so one is at work at most, and the lease of
\* an operator finds none.
LEMMA OnlyOneWorks ==
  ASSUME LeaseHolds
  PROVE  /\ \A c, d \in Coordinators : Working(c) /\ Working(d) => c = d
         /\ \A c \in Coordinators : Working(c) => ~LeaseFree
<1>1. ASSUME NEW c \in Coordinators, NEW d \in Coordinators, Working(c), Working(d)
      PROVE  c = d
  <2>1. PICK i \in DOMAIN LocksOf[c], j \in DOMAIN LocksOf[d] : LocksOf[c][i] = LocksOf[d][j]
    BY LockAssumption
  <2>2. locks[LocksOf[c][i]] = c /\ locks[LocksOf[d][j]] = d
    BY <1>1 DEF LeaseHolds
  <2> QED
    BY <2>1, <2>2
<1>2. ASSUME NEW c \in Coordinators, Working(c), LeaseFree
      PROVE  FALSE
  <2>1. LocksOf[c] \in Seq(Locks) /\ LocksOf[c] # <<>>
    BY LockAssumption
  <2>2. 1 \in DOMAIN LocksOf[c] /\ LocksOf[c][1] \in Locks
    BY <2>1
  <2>3. locks[LocksOf[c][1]] = c /\ locks[LocksOf[c][1]] = None
    BY <1>2, <2>2 DEF LeaseHolds, LeaseFree
  <2> QED
    BY <2>3, LockAssumption
<1> QED
  BY <1>1, <1>2

\* Who is not at work holds nothing that depends on the ledger.
LEMMA AtRest ==
  ASSUME NEW m, NEW r, MemoryHolds(r, m), ~AtWork(m)
  PROVE  /\ m.live = <<>> /\ m.later = <<>> /\ m.batch = {} /\ m.seen = None
         /\ Pending(m) = {}
         /\ \A r2 : MemoryHolds(r2, m)
         /\ \A r2, w : Undisturbed(r2, w, m)
<1>1. m \in Memory /\ m.pc \in {"idle", "locking"} /\ Apart(m) /\ InPlace(m) /\ ResultsFit(m)
  BY MemoryParts DEF MemoryHolds, AtWork
<1>2. m.live = <<>> /\ m.later = <<>> /\ m.batch = {} /\ m.seen = None
  BY <1>1 DEF InPlace
<1>3. DOMAIN m.live = {} /\ DOMAIN m.later = {} /\ Pending(m) = {}
  BY <1>2 DEF Pending
<1>4. \A r2 : MemoryHolds(r2, m)
  BY <1>1, <1>3 DEF MemoryHolds
<1>5. \A r2, w : Undisturbed(r2, w, m)
  BY <1>1, <1>2, <1>3 DEF Undisturbed
<1> QED
  BY <1>2, <1>3, <1>4, <1>5

---------------------------------------------------------------------------
(* What a step of the ledger leaves of a coordinator's claims.             *)

\* A document that keeps its history and its decision keeps every claim.
LEMMA SameHistory ==
  ASSUME NEW r, NEW r2, NEW m, r2.history = r.history, r.decision # None => r2.decision # None
  PROVE  /\ MemoryHolds(r, m) => MemoryHolds(r2, m)
         /\ AttendedBy(r, m) => AttendedBy(r2, m)
<1>1. \A s, d, a : Exact(r2, s, d, a) = Exact(r, s, d, a)
  BY DEF Exact, Of
<1>2. \A h : (IsLatest(r, h) => IsLatest(r2, h)) /\ (Runs(r, h) => Runs(r2, h))
  BY <1>1 DEF IsLatest, Runs
<1>3. MemoryHolds(r, m) => MemoryHolds(r2, m)
  BY <1>2 DEF MemoryHolds
<1>4. AttendedBy(r, m) => AttendedBy(r2, m)
  BY <1>1 DEF AttendedBy
<1> QED
  BY <1>3, <1>4

\* A claim adds one running attempt, the latest of its stage.
LEMMA ClaimedView ==
  ASSUME NEW r \in Run, NEW s \in Stages, NEW d \in Dispatches, NEW a \in Nat \ {0}, ws \in Contents,
         NEW r2, r2 = Claimed(r, s, d, a)
  PROVE  /\ \A h : h.stage # s /\ IsLatest(r, h) => IsLatest(r2, h)
         /\ \A h : Runs(r, h) => Runs(r2, h)
         /\ \A h : h.stage = s /\ h.dispatch = d /\ h.attempt = a => IsLatest(r2, h) /\ Runs(r2, h)
         /\ \A k \in DOMAIN r2.history : r2.history[k].status = "running" =>
               \/ k \in DOMAIN r.history /\ r.history[k].status = "running"
               \/ k \in Exact(r2, s, d, a)
         /\ \A t, e, b : Exact(r, t, e, b) \subseteq Exact(r2, t, e, b)
         /\ r2.decision = r.decision /\ r2.status = r.status /\ r2.paused = r.paused
<1> DEFINE n == Len(r.history) + 1
<1>1. /\ n \in Nat /\ n \notin DOMAIN r.history
      /\ DOMAIN r2.history = DOMAIN r.history \cup {n}
      /\ \A k \in DOMAIN r.history : r2.history[k] = r.history[k] /\ k < n
      /\ r2.history[n] = Attempt(r, s, d, a)
      /\ r2.status = r.status /\ r2.decision = r.decision /\ r2.paused = r.paused
  BY ClaimedShape
<1>2. /\ r2.history[n].stage = s /\ r2.history[n].dispatch = d
      /\ r2.history[n].attempt = a /\ r2.history[n].status = "running"
  BY <1>1 DEF Attempt
<1>3. DOMAIN r.history \subseteq Int
  BY HistoryTyped
<1> HIDE DEF n
<1>4. n \in Exact(r2, s, d, a)
  BY <1>1, <1>2 DEF Exact, Of
<1>5. \A t, e, b : Exact(r, t, e, b) \subseteq Exact(r2, t, e, b)
  BY <1>1 DEF Exact, Of
<1>6. \A k \in DOMAIN r2.history : k <= n
  BY <1>1, <1>3
<1>7. ASSUME NEW h, h.stage # s, IsLatest(r, h)
      PROVE  IsLatest(r2, h)
  BY <1>1, <1>2, <1>7 DEF IsLatest
<1>8. ASSUME NEW h, Runs(r, h)
      PROVE  Runs(r2, h)
  <2>1. PICK k \in Exact(r, h.stage, h.dispatch, h.attempt) : r.history[k].status = "running"
    BY <1>8 DEF Runs
  <2>2. k \in DOMAIN r.history
    BY DEF Exact, Of
  <2> QED
    BY <1>1, <1>5, <2>1, <2>2 DEF Runs
<1>9. ASSUME NEW h, h.stage = s, h.dispatch = d, h.attempt = a
      PROVE  IsLatest(r2, h) /\ Runs(r2, h)
  BY <1>1, <1>2, <1>4, <1>6, <1>9 DEF IsLatest, Runs
<1> QED
  BY <1>1, <1>4, <1>5, <1>7, <1>8, <1>9

\* The end of an attempt leaves every claim the latest, and those of other
\* stages running.
LEMMA EndedView ==
  ASSUME NEW r \in Run, NEW r2, NEW k0 \in DOMAIN r.history, NEW h0, Updates(r, r2, k0, h0)
  PROVE  /\ \A h : IsLatest(r, h) => IsLatest(r2, h)
         /\ \A s, d, a : Exact(r2, s, d, a) = Exact(r, s, d, a)
         /\ \A h : h.stage # r.history[k0].stage /\ Runs(r, h) => Runs(r2, h)
         /\ \A k \in DOMAIN r2.history : r2.history[k].status = "running" =>
               k \in DOMAIN r.history /\ r.history[k].status = "running" /\ k # k0
         /\ r2.decision = r.decision /\ r2.status = r.status /\ r2.paused = r.paused
<1>1. /\ r2.history = [r.history EXCEPT ![k0] = h0]
      /\ r2.decision = r.decision /\ r2.status = r.status /\ r2.paused = r.paused
  BY DEF Updates, Run
<1>2. /\ DOMAIN r2.history = DOMAIN r.history
      /\ r2.history[k0] = h0
      /\ \A k \in DOMAIN r.history : k # k0 => r2.history[k] = r.history[k]
  BY <1>1, HistoryTyped
<1>3. \A k \in DOMAIN r.history :
          /\ r2.history[k].stage = r.history[k].stage
          /\ r2.history[k].dispatch = r.history[k].dispatch
          /\ r2.history[k].attempt = r.history[k].attempt
  BY <1>2 DEF Updates
<1>4. \A s, d, a : Exact(r2, s, d, a) = Exact(r, s, d, a)
  BY <1>2, <1>3 DEF Exact, Of
<1>5. ASSUME NEW h, IsLatest(r, h)
      PROVE  IsLatest(r2, h)
  BY <1>2, <1>3, <1>5 DEF IsLatest
<1>6. ASSUME NEW h, h.stage # r.history[k0].stage, Runs(r, h)
      PROVE  Runs(r2, h)
  <2>1. PICK k \in Exact(r, h.stage, h.dispatch, h.attempt) : r.history[k].status = "running"
    BY <1>6 DEF Runs
  <2>2. k \in DOMAIN r.history /\ r.history[k].stage = h.stage
    BY DEF Exact, Of
  <2> QED
    BY <1>2, <1>4, <1>6, <2>1, <2>2 DEF Runs
<1>7. h0.status # "running"
  BY DEF Updates
<1> QED
  BY <1>1, <1>2, <1>4, <1>5, <1>6, <1>7

---------------------------------------------------------------------------
(* How what a coordinator holds changes.                                   *)

\* The same claims are in hand, with other results perhaps.
SameClaims(m, m2) ==
    /\ DOMAIN m2.live = DOMAIN m.live
    /\ \A i \in DOMAIN m.live : /\ m2.live[i].stage = m.live[i].stage
                                /\ m2.live[i].dispatch = m.live[i].dispatch
                                /\ m2.live[i].attempt = m.live[i].attempt
    /\ m2.later \in {m.later, <<>>}
    /\ m2.batch \subseteq m.batch \/ DOMAIN m.live = {}

\* What the phase of a coordinator demands of its memory and the ledger.
InOrder(r, w, g, m) ==
    /\ InPlace(m) /\ ResultsFit(m)
    /\ m.pc \notin {"idle", "locking", "bind", "halt"} => r.decision # None
    /\ g = {} => /\ m.seen # None => m.seen = w
                 /\ m.pc = "unwind" => \A i \in Pending(m) : ~Unrecordable(m.live[i].result)

\* Claims are told apart by their stages, whatever came back.
LEMMA ApartStays ==
  ASSUME NEW m, NEW m2, Apart(m), SameClaims(m, m2)
  PROVE  Apart(m2)
<1>1. \A i \in DOMAIN m2.live : m2.live[i].stage = m.live[i].stage /\ i \in DOMAIN m.live
  BY DEF SameClaims
<1>2. m2.later = m.later \/ DOMAIN m2.later = {}
  BY DEF SameClaims
<1>3. m2.batch \subseteq m.batch \/ DOMAIN m2.live = {}
  BY DEF SameClaims
<1> QED
  BY <1>1, <1>2, <1>3 DEF Apart

\* A claim stands for its stage, dispatch and attempt.
LEMMA ClaimViews ==
  ASSUME NEW r, NEW h, NEW h2, h2.stage = h.stage, h2.dispatch = h.dispatch, h2.attempt = h.attempt
  PROVE  (IsLatest(r, h) => IsLatest(r, h2)) /\ (Runs(r, h) => Runs(r, h2))
  BY DEF IsLatest, Runs

\* A coordinator that keeps its claims and gives up none, unless disturbed.
LEMMA KeptFine ==
  ASSUME NEW r, NEW w, NEW g, NEW m, NEW m2 \in Memory, Fine(r, w, g, m), SameClaims(m, m2),
         InOrder(r, w, g, m2), Pending(m2) \subseteq Pending(m), g = {} => Pending(m2) = Pending(m)
  PROVE  Fine(r, w, g, m2)
<1>0. MemoryHolds(r, m) /\ m \in Memory
  BY DEF Fine, MemoryHolds
<1>1. Apart(m2)
  BY <1>0, ApartStays DEF MemoryHolds
<1>2. Pending(m2) \subseteq DOMAIN m.live
  BY MemoryParts DEF SameClaims
<1>3. \A i \in DOMAIN m2.live : IsLatest(r, m2.live[i])
  BY <1>0, ClaimViews DEF SameClaims, MemoryHolds
<1>4. \A i \in DOMAIN m2.later : IsLatest(r, m2.later[i])
  <2>1. CASE m2.later = m.later
    BY <1>0, <2>1 DEF MemoryHolds
  <2>2. CASE m2.later = <<>>
    BY <2>2
  <2> QED
    BY <2>1, <2>2 DEF SameClaims
<1>5. \A i \in Pending(m2) : Runs(r, m2.live[i])
  BY <1>0, <1>2, ClaimViews DEF SameClaims, MemoryHolds
<1>6. MemoryHolds(r, m2)
  BY <1>1, <1>3, <1>4, <1>5 DEF MemoryHolds, InOrder
<1>7. ASSUME g = {}
      PROVE  Undisturbed(r, w, m2) /\ AttendedBy(r, m2)
  <2>1. Undisturbed(r, w, m) /\ AttendedBy(r, m) /\ Pending(m2) = Pending(m)
    BY <1>7 DEF Fine
  <2>2. Undisturbed(r, w, m2)
    BY <1>7, <2>1 DEF Undisturbed, InOrder
  <2>3. AttendedBy(r, m2)
    BY <1>2, <2>1 DEF AttendedBy, SameClaims
  <2> QED
    BY <2>2, <2>3
<1> QED
  BY <1>6, <1>7 DEF Fine

\* A coordinator that records the result of one of its claims.
LEMMA RecordFine ==
  ASSUME NEW r \in Run, NEW w, NEW g, NEW m, NEW m2 \in Memory, Fine(r, w, g, m), SameClaims(m, m2),
         NEW r2, InOrder(r2, w, g, m2), NEW n \in Pending(m), Pending(m2) = Pending(m) \ {n},
         NEW k0 \in DOMAIN r.history, NEW h0, Updates(r, r2, k0, h0),
         Exact(r, m.live[n].stage, m.live[n].dispatch, m.live[n].attempt) = {k0}
  PROVE  Fine(r2, w, g, m2)
<1>0. MemoryHolds(r, m) /\ m \in Memory /\ Apart(m)
  BY DEF Fine, MemoryHolds
<1>1. Apart(m2)
  BY <1>0, ApartStays
<1>2. Pending(m) \subseteq DOMAIN m.live
  BY <1>0, MemoryParts
<1>3. r.history[k0].stage = m.live[n].stage
  BY DEF Exact, Of
<1>4. /\ \A h : IsLatest(r, h) => IsLatest(r2, h)
      /\ \A s, d, a : Exact(r2, s, d, a) = Exact(r, s, d, a)
      /\ \A h : h.stage # r.history[k0].stage /\ Runs(r, h) => Runs(r2, h)
      /\ \A k \in DOMAIN r2.history : r2.history[k].status = "running" =>
            k \in DOMAIN r.history /\ r.history[k].status = "running" /\ k # k0
      /\ r2.decision = r.decision /\ r2.status = r.status /\ r2.paused = r.paused
  BY EndedView
<1>5. \A i \in DOMAIN m2.live : IsLatest(r2, m2.live[i])
  BY <1>0, <1>4, ClaimViews DEF SameClaims, MemoryHolds
<1>6. \A i \in DOMAIN m2.later : IsLatest(r2, m2.later[i])
  <2>1. CASE m2.later = m.later
    BY <1>0, <1>4, <2>1 DEF MemoryHolds
  <2>2. CASE m2.later = <<>>
    BY <2>2
  <2> QED
    BY <2>1, <2>2 DEF SameClaims
<1>7. ASSUME NEW i \in Pending(m2)
      PROVE  Runs(r2, m2.live[i])
  <2>1. i \in Pending(m) /\ i # n /\ i \in DOMAIN m.live /\ n \in DOMAIN m.live
    BY <1>2
  <2>2. m.live[i].stage # r.history[k0].stage
    BY <1>0, <1>3, <2>1 DEF Apart
  <2>3. Runs(r2, m.live[i])
    BY <1>0, <1>4, <2>1, <2>2 DEF MemoryHolds
  <2> QED
    BY <2>1, <2>3, ClaimViews DEF SameClaims
<1>8. MemoryHolds(r2, m2)
  BY <1>1, <1>5, <1>6, <1>7 DEF MemoryHolds, InOrder
<1>9. ASSUME g = {}
      PROVE  Undisturbed(r2, w, m2) /\ AttendedBy(r2, m2)
  <2>1. Undisturbed(r, w, m) /\ AttendedBy(r, m)
    BY <1>9 DEF Fine
  <2>2. Undisturbed(r2, w, m2)
    BY <1>4, <1>9, <2>1 DEF Undisturbed, InOrder, Unpaused
  <2>3. ASSUME NEW k \in DOMAIN r2.history, r2.history[k].status = "running"
        PROVE  \E i \in Pending(m2) :
                  k \in Exact(r2, m2.live[i].stage, m2.live[i].dispatch, m2.live[i].attempt)
    <3>1. k \in DOMAIN r.history /\ r.history[k].status = "running" /\ k # k0
      BY <1>4, <2>3
    <3>2. PICK i \in Pending(m) :
             k \in Exact(r, m.live[i].stage, m.live[i].dispatch, m.live[i].attempt)
      BY <2>1, <3>1 DEF AttendedBy
    <3>3. i \in Pending(m2) /\ i \in DOMAIN m.live
      BY <1>2, <3>1, <3>2
    <3> QED
      BY <1>4, <3>2, <3>3 DEF SameClaims
  <2> QED
    BY <2>2, <2>3 DEF AttendedBy
<1> QED
  BY <1>8, <1>9 DEF Fine

\* A coordinator that drops its claims once nothing is to be recorded.
LEMMA DroppedFine ==
  ASSUME NEW r, NEW w, NEW g, NEW m, NEW m2 \in Memory, Fine(r, w, g, m), Pending(m) = {},
         InOrder(r, w, g, m2), m2.live = <<>>, m2.later = <<>>
  PROVE  Fine(r, w, g, m2)
<1>1. DOMAIN m2.live = {} /\ DOMAIN m2.later = {} /\ Pending(m2) = {}
  BY DEF Pending
<1>2. MemoryHolds(r, m2)
  BY <1>1 DEF MemoryHolds, InOrder, Apart
<1>3. g = {} => Undisturbed(r, w, m2) /\ AttendedBy(r, m2)
  BY <1>1 DEF Undisturbed, InOrder, AttendedBy, Fine
<1> QED
  BY <1>2, <1>3 DEF Fine

\* A coordinator that halts when nothing is to be recorded.
Halted(m) == [m EXCEPT !.pc = "halt", !.batch = {}, !.live = <<>>, !.later = <<>>,
                       !.next = 1, !.seen = None]

\* Nothing is left to cancel.
LEMMA HaltFine ==
  ASSUME NEW r, NEW w, NEW g, NEW m, Fine(r, w, g, m), Pending(m) = {}
  PROVE  Fine(r, w, g, Halted(m)) /\ AtWork(Halted(m)) /\ Halted(m).seen = None
<1> DEFINE m2 == Halted(m)
<1>0. m \in Memory
  BY DEF Fine, MemoryHolds
<1>1. /\ m2 \in Memory /\ m2.pc = "halt" /\ m2.live = <<>> /\ m2.later = <<>>
      /\ m2.batch = {} /\ m2.seen = None
  <2>1. <<>> \in Seq(Claim) /\ {} \in SUBSET Stages /\ "halt" \in Phases /\ 1 \in Nat \ {0}
    BY DEF Phases
  <2> QED
    BY <1>0, <2>1 DEF Halted, Memory
<1> HIDE DEF m2
<1>2. InOrder(r, w, g, m2) /\ AtWork(m2)
  BY <1>1 DEF InOrder, InPlace, ResultsFit, Pending, AtWork
<1> QED
  BY <1>1, <1>2, DroppedFine DEF m2

---------------------------------------------------------------------------
(* From one coordinator, or none, to the whole invariant.                  *)

Legal == [Next]_<<ws, run>>

\* What holds of the coordinator at work, when there is one.
LEMMA OwnView ==
  ASSUME ExecutorInvariant, NEW c \in Coordinators, Working(c)
  PROVE  /\ Fine(run, ws, mishaps, co[c])
         /\ co[c] \in Memory /\ AtWork(co[c])
         /\ run \in Run /\ ws \in Contents /\ Fits(run)
         /\ \A d \in Coordinators : d # c => ~Working(d)
<1>1. \A d \in Coordinators : d # c => ~Working(d)
  BY OnlyOneWorks DEF ExecutorInvariant
<1>2. MemoryHolds(run, co[c]) /\ co[c] \in Memory /\ AtWork(co[c])
  BY DEF ExecutorInvariant, MemoryHolds, AtWork, Working
<1>3. ASSUME mishaps = {}
      PROVE  Undisturbed(run, ws, co[c]) /\ AttendedBy(run, co[c])
  <2>1. Undisturbed(run, ws, co[c]) /\ Attended
    BY <1>3 DEF ExecutorInvariant, Calm
  <2>2. \A d \in Coordinators : d # c => Pending(co[d]) = {}
    BY <1>1, AtRest DEF ExecutorInvariant, Working, AtWork
  <2> QED
    BY <2>1, <2>2 DEF Attended, AttendedBy
<1>4. run \in Run /\ ws \in Contents /\ Fits(run)
  BY DEF ExecutorInvariant, StageInvariant, Fits
<1> QED
  BY <1>1, <1>2, <1>3, <1>4 DEF Fine

\* A coordinator goes on: what it holds then must fit the ledger it leaves.
LEMMA StepByOne ==
  ASSUME ExecutorInvariant, NEW c \in Coordinators, Working(c), NEW m, AtWork(m),
         Holds(c, m), locks' = locks, Legal,
         Fine(run', ws', mishaps', m), mishaps' = {} => mishaps = {},
         \/ m.seen = None
         \/ m.pc # "skip"
         \/ Skippable(c) # {} /\ m.done = co[c].done /\ m.skipped = co[c].skipped
  PROVE  ExecutorInvariant'
<1>0. StageInvariant'
  BY LedgerStep DEF ExecutorInvariant, Legal
<1>1. co \in [Coordinators -> Memory] /\ m \in Memory
  BY DEF ExecutorInvariant, Fine, MemoryHolds
<1>2. /\ co' \in [Coordinators -> Memory]
      /\ co'[c] = m
      /\ \A d \in Coordinators : d # c => co'[d] = co[d] /\ ~Working(d)
  BY <1>1, OwnView DEF Holds
<1>3. LeaseHolds'
  BY <1>2 DEF ExecutorInvariant, LeaseHolds, Working, AtWork
<1>4. \A d \in Coordinators : d # c => /\ MemoryHolds(run', co'[d])
                                       /\ Pending(co'[d]) = {}
                                       /\ Undisturbed(run', ws', co'[d])
  BY <1>2, AtRest DEF ExecutorInvariant, Working, AtWork
<1>5. \A d \in Coordinators : MemoryHolds(run', co'[d])
  BY <1>2, <1>4 DEF Fine
<1>6. SkipsAhead'
  <2> SUFFICES ASSUME NEW d \in Coordinators, co'[d].pc = "skip", co'[d].seen # None
               PROVE  Skippable(d)' # {}
    BY DEF SkipsAhead
  <2>1. d = c
    BY <1>2 DEF Working
  <2>2. Skippable(c) # {} /\ m.done = co[c].done /\ m.skipped = co[c].skipped
    BY <1>2, <2>1
  <2>3. Skippable(c)' = Skippable(c)
    BY <1>2, <2>2 DEF Skippable, Ready, ToDo
  <2> QED
    BY <2>1, <2>2, <2>3
<1>7. ASSUME mishaps' = {}
      PROVE  Calm'
  <2>1. Undisturbed(run', ws', m) /\ AttendedBy(run', m)
    BY <1>7 DEF Fine
  <2>2. Attended'
    BY <1>2, <2>1 DEF Attended, AttendedBy
  <2> QED
    BY <1>2, <1>4, <2>1, <2>2 DEF Calm
<1> QED
  BY <1>0, <1>2, <1>3, <1>5, <1>6, <1>7 DEF ExecutorInvariant

\* A coordinator without memory is at rest.
LEMMA IdleRests ==
  /\ Idle \in Memory /\ Idle.pc = "idle" /\ Idle.next = 1 /\ Idle.seen = None
  /\ Pending(Idle) = {}
  /\ \A r : MemoryHolds(r, Idle)
  /\ \A r, w : Undisturbed(r, w, Idle)
<1>1. <<>> \in Seq(Claim) /\ "idle" \in Phases
  BY DEF Phases
<1>2. Idle \in Memory /\ Idle.pc = "idle" /\ Idle.next = 1
  BY <1>1 DEF Idle, Memory
<1>3. /\ Idle.live = <<>> /\ Idle.later = <<>> /\ Idle.batch = {} /\ Idle.seen = None
      /\ DOMAIN Idle.live = {} /\ DOMAIN Idle.later = {}
  BY DEF Idle
<1>4. Pending(Idle) = {}
  BY <1>3 DEF Pending
<1>5. InPlace(Idle) /\ ResultsFit(Idle) /\ Apart(Idle)
  BY <1>2, <1>3, <1>4 DEF InPlace, ResultsFit, Apart
<1>6. ASSUME NEW r
      PROVE  MemoryHolds(r, Idle)
  BY <1>2, <1>3, <1>4, <1>5 DEF MemoryHolds
<1>7. ASSUME NEW r, NEW w
      PROVE  Undisturbed(r, w, Idle)
  BY <1>2, <1>3, <1>4 DEF Undisturbed
<1> QED
  BY <1>2, <1>3, <1>4, <1>6, <1>7

\* What is released was held by the one who leaves.
LEMMA LeaseAfter ==
  ASSUME ExecutorInvariant, NEW c \in Coordinators, Leave(c)
  PROVE  /\ LeaseHolds'
         /\ co' \in [Coordinators -> Memory] /\ co'[c] = Idle
         /\ \A d \in Coordinators : d # c => co'[d] = co[d]
<1>1. co \in [Coordinators -> Memory] /\ LeaseHolds
  BY DEF ExecutorInvariant
<1>2. /\ co' \in [Coordinators -> Memory]
      /\ co'[c] = Idle
      /\ \A d \in Coordinators : d # c => co'[d] = co[d]
  BY <1>1, IdleRests DEF Leave
<1>3. /\ locks \in [Locks -> Coordinators \cup {None}]
      /\ locks' = [l \in Locks |-> IF locks[l] = c THEN None ELSE locks[l]]
  BY <1>1 DEF LeaseHolds, Leave
<1>4. locks' \in [Locks -> Coordinators \cup {None}]
  BY <1>3
<1>5. \A l \in Locks : locks'[l] # c /\ (locks[l] # c => locks'[l] = locks[l])
  BY <1>3, LockAssumption
<1>6. \A d \in Coordinators : \A i \in DOMAIN LocksOf[d] : LocksOf[d][i] \in Locks
  BY LockAssumption
<1>7. ASSUME NEW d \in Coordinators
      PROVE  /\ co'[d].pc = "idle" => co'[d].next = 1 /\ \A l \in Locks : locks'[l] # d
             /\ co'[d].pc = "locking" =>
                   /\ co'[d].next \in DOMAIN LocksOf[d]
                   /\ \A i \in 1 .. co'[d].next - 1 : locks'[LocksOf[d][i]] = d
             /\ Working(d)' => \A i \in DOMAIN LocksOf[d] : locks'[LocksOf[d][i]] = d
  <2>1. CASE d = c
    BY <1>2, <1>5, <2>1, IdleRests DEF Working
  <2>2. CASE d # c
    <3>1. co'[d] = co[d]
      BY <1>2, <2>2
    <3>2. \A l \in Locks : locks[l] = d <=> locks'[l] = d
      BY <1>3, <2>2, LockAssumption
    <3>3. CASE co[d].pc = "idle"
      BY <1>1, <3>1, <3>2, <3>3 DEF LeaseHolds, Working
    <3>4. CASE co[d].pc = "locking"
      <4>1. co[d].next \in DOMAIN LocksOf[d]
            /\ \A i \in 1 .. co[d].next - 1 : locks[LocksOf[d][i]] = d
        BY <1>1, <3>4 DEF LeaseHolds
      <4>2. LocksOf[d] \in Seq(Locks) /\ co[d].next \in Nat
        BY <1>1, LockAssumption DEF Memory
      <4>3. \A i \in 1 .. co[d].next - 1 : i \in DOMAIN LocksOf[d]
        BY <4>1, <4>2
      <4>4. \A i \in 1 .. co[d].next - 1 : locks'[LocksOf[d][i]] = d
        BY <1>6, <3>2, <4>1, <4>3
      <4> QED
        BY <3>1, <3>4, <4>1, <4>4 DEF Working
    <3>5. CASE Working(d)
      BY <1>1, <1>6, <3>1, <3>2, <3>5 DEF LeaseHolds, Working
    <3> QED
      BY <3>3, <3>4, <3>5 DEF Working
  <2> QED
    BY <2>1, <2>2
<1> QED
  BY <1>2, <1>4, <1>7 DEF LeaseHolds

\* The coordinator at work leaves: undisturbed, it leaves nothing running.
LEMMA LeaveAtWork ==
  ASSUME ExecutorInvariant, NEW c \in Coordinators, Working(c), Leave(c), Legal,
         mishaps' = {} => \A k \in DOMAIN run'.history : run'.history[k].status # "running"
  PROVE  ExecutorInvariant'
<1>0. StageInvariant'
  BY LedgerStep DEF ExecutorInvariant, Legal
<1>1. /\ LeaseHolds'
      /\ co' \in [Coordinators -> Memory] /\ co'[c] = Idle
      /\ \A d \in Coordinators : d # c => co'[d] = co[d] /\ ~Working(d)
  BY LeaseAfter, OwnView
<1>2. \A d \in Coordinators : d # c => /\ MemoryHolds(run', co'[d])
                                       /\ Undisturbed(run', ws', co'[d])
                                       /\ co[d].pc # "skip"
  BY <1>1, AtRest DEF ExecutorInvariant, Working, AtWork
<1>3. \A d \in Coordinators : MemoryHolds(run', co'[d]) /\ Undisturbed(run', ws', co'[d])
  BY <1>1, <1>2, IdleRests
<1>4. SkipsAhead'
  BY <1>1, <1>2, IdleRests DEF SkipsAhead
<1>5. mishaps' = {} => Calm'
  BY <1>3 DEF Calm, Attended
<1> QED
  BY <1>0, <1>1, <1>3, <1>4, <1>5 DEF ExecutorInvariant

\* A coordinator that is not at work takes a lock, begins or gives up.
LEMMA RestingStep ==
  ASSUME ExecutorInvariant, NEW c \in Coordinators, ~Working(c), NEW m,
         Holds(c, m), MemoryHolds(run, m), m.live = <<>>, m.seen = None,
         UNCHANGED <<ws, run, mishaps>>, LeaseHolds'
  PROVE  ExecutorInvariant'
<1>0. StageInvariant'
  BY DEF ExecutorInvariant, StageInvariant
<1>1. co \in [Coordinators -> Memory] /\ m \in Memory
  BY DEF ExecutorInvariant, MemoryHolds
<1>2. /\ co' \in [Coordinators -> Memory]
      /\ co'[c] = m
      /\ \A d \in Coordinators : d # c => co'[d] = co[d]
  BY <1>1 DEF Holds
<1>3. Pending(m) = {} /\ Pending(co[c]) = {}
  BY AtRest DEF Pending, ExecutorInvariant, Working, AtWork
<1>4. \A d \in Coordinators : MemoryHolds(run', co'[d])
  BY <1>2 DEF ExecutorInvariant
<1>5. SkipsAhead'
  <2> SUFFICES ASSUME NEW d \in Coordinators, co'[d].pc = "skip", co'[d].seen # None
               PROVE  Skippable(d)' # {}
    BY DEF SkipsAhead
  <2>1. co'[d] = co[d]
    BY <1>2
  <2>2. Skippable(d)' = Skippable(d)
    BY <2>1 DEF Skippable, Ready, ToDo
  <2> QED
    BY <2>1, <2>2 DEF ExecutorInvariant, SkipsAhead
<1>6. ASSUME mishaps' = {}
      PROVE  Calm'
  <2>1. Attended /\ \A d \in Coordinators : Undisturbed(run, ws, co[d])
    BY <1>6 DEF ExecutorInvariant, Calm
  <2>2. Undisturbed(run, ws, m)
    BY <1>3 DEF Undisturbed
  <2>3. \A d \in Coordinators : Undisturbed(run', ws', co'[d])
    BY <1>2, <2>1, <2>2
  <2>4. \A d \in Coordinators : \A i \in Pending(co[d]) : d # c
    BY <1>3
  <2>5. Attended'
    BY <1>2, <2>1, <2>4 DEF Attended
  <2> QED
    BY <2>3, <2>5 DEF Calm
<1> QED
  BY <1>0, <1>2, <1>4, <1>5, <1>6 DEF ExecutorInvariant

\* Somebody else writes the ledger or the worktree.
LEMMA EnvironmentStep ==
  ASSUME ExecutorInvariant, Legal, UNCHANGED <<co, locks>>, mishaps' = {} => mishaps = {},
         \A d \in Coordinators : Working(d) => MemoryHolds(run', co[d]),
         \A d \in Coordinators : Working(d) /\ mishaps' = {} => Undisturbed(run', ws', co[d]),
         mishaps' = {} /\ Attended => Attended'
  PROVE  ExecutorInvariant'
<1>0. StageInvariant'
  BY LedgerStep DEF ExecutorInvariant, Legal
<1>1. LeaseHolds' /\ co' \in [Coordinators -> Memory]
  BY DEF ExecutorInvariant, LeaseHolds, Working
<1>2. \A d \in Coordinators : ~Working(d) => MemoryHolds(run', co[d]) /\ Undisturbed(run', ws', co[d])
  BY AtRest DEF ExecutorInvariant, Working, AtWork
<1>3. SkipsAhead'
  BY DEF ExecutorInvariant, SkipsAhead, Skippable, Ready, ToDo
<1>4. mishaps' = {} => Calm'
  BY <1>2 DEF ExecutorInvariant, Calm
<1>5. \A d \in Coordinators : MemoryHolds(run', co'[d])
  BY <1>2
<1> QED
  BY <1>0, <1>1, <1>3, <1>4, <1>5 DEF ExecutorInvariant

---------------------------------------------------------------------------
(* The locks, and whoever writes beside the coordinator.                   *)

\* An invocation begins without locks.
LEMMA InvokeKeeps ==
  ASSUME ExecutorInvariant, NEW c \in Coordinators, Invoke(c)
  PROVE  Legal /\ ExecutorInvariant'
<1> DEFINE m == [co[c] EXCEPT !.pc = "locking"]
<1>0. co[c] \in Memory /\ co[c].pc = "idle" /\ MemoryHolds(run, co[c]) /\ LeaseHolds
      /\ co \in [Coordinators -> Memory]
  BY DEF ExecutorInvariant, Invoke
<1>1. /\ m \in Memory /\ m.pc = "locking" /\ m.live = co[c].live /\ m.later = co[c].later
      /\ m.batch = co[c].batch /\ m.seen = co[c].seen /\ m.next = co[c].next
  <2>1. "locking" \in Phases
    BY DEF Phases
  <2> QED
    BY <1>0, <2>1 DEF Memory
<1>2. Holds(c, m) /\ UNCHANGED <<ws, run, mishaps, locks>>
  BY DEF Invoke, ledger
<1> HIDE DEF m
<1>3. /\ co[c].live = <<>> /\ co[c].later = <<>> /\ co[c].batch = {} /\ co[c].seen = None
  BY <1>0, AtRest DEF AtWork
<1>4. Pending(m) = {} /\ DOMAIN m.live = {} /\ DOMAIN m.later = {}
  BY <1>1, <1>3 DEF Pending
<1>5. MemoryHolds(run, m)
  BY <1>1, <1>3, <1>4 DEF MemoryHolds, Apart, InPlace, ResultsFit
<1>6. /\ co'[c] = m /\ \A d \in Coordinators : d # c => co'[d] = co[d]
  BY <1>0, <1>2 DEF Holds
<1>7. 1 \in DOMAIN LocksOf[c] /\ co[c].next = 1
  BY <1>0, LockAssumption DEF LeaseHolds
<1>8. LeaseHolds'
  BY <1>0, <1>1, <1>2, <1>6, <1>7 DEF LeaseHolds, Working
<1>9. ~Working(c)
  BY <1>0 DEF Working
<1>10. Legal
  BY <1>2 DEF Legal
<1> QED
  BY <1>1, <1>2, <1>3, <1>5, <1>8, <1>9, <1>10, RestingStep

\* A lock is taken, and with the last of them the work may begin.
LEMMA TakeLockKeeps ==
  ASSUME ExecutorInvariant, NEW c \in Coordinators, TakeLock(c)
  PROVE  Legal /\ ExecutorInvariant'
<1> DEFINE last == co[c].next = Len(LocksOf[c])
<1> DEFINE m == IF last THEN [co[c] EXCEPT !.pc = "bind", !.next = 1]
                        ELSE [co[c] EXCEPT !.next = @ + 1]
<1>0. co[c] \in Memory /\ co[c].pc = "locking" /\ MemoryHolds(run, co[c]) /\ LeaseHolds
      /\ co \in [Coordinators -> Memory] /\ locks \in [Locks -> Coordinators \cup {None}]
  BY DEF ExecutorInvariant, TakeLock, LeaseHolds
<1>1. /\ m \in Memory /\ m.live = co[c].live /\ m.later = co[c].later
      /\ m.batch = co[c].batch /\ m.seen = co[c].seen
      /\ m.pc = IF last THEN "bind" ELSE "locking"
      /\ m.next = IF last THEN 1 ELSE co[c].next + 1
  <2>1. "bind" \in Phases /\ co[c].next + 1 \in Nat \ {0} /\ 1 \in Nat \ {0}
    BY <1>0 DEF Phases, Memory
  <2>2. CASE last
    <3> DEFINE x == [co[c] EXCEPT !.pc = "bind", !.next = 1]
    <3>1. x \in Memory /\ x.live = co[c].live /\ x.later = co[c].later
          /\ x.batch = co[c].batch /\ x.seen = co[c].seen /\ x.pc = "bind" /\ x.next = 1
      BY <1>0, <2>1 DEF Memory
    <3>2. m = x
      BY <2>2
    <3> HIDE DEF m, x
    <3> QED
      BY <2>2, <3>1, <3>2
  <2>3. CASE ~last
    BY <1>0, <2>1, <2>3 DEF Memory
  <2> QED
    BY <2>2, <2>3
<1>2. /\ Holds(c, m) /\ UNCHANGED <<ws, run, mishaps>>
      /\ locks[NextLock(c)] = None
      /\ locks' = [locks EXCEPT ![NextLock(c)] = c]
  BY DEF TakeLock, ledger, others
<1> HIDE DEF m
<1>3. /\ co[c].live = <<>> /\ co[c].later = <<>> /\ co[c].batch = {} /\ co[c].seen = None
  BY <1>0, AtRest DEF AtWork
<1>4. Pending(m) = {} /\ DOMAIN m.live = {} /\ DOMAIN m.later = {}
  BY <1>1, <1>3 DEF Pending
<1>5. MemoryHolds(run, m)
  BY <1>1, <1>3, <1>4 DEF MemoryHolds, Apart, InPlace, ResultsFit
<1>6. /\ co'[c] = m /\ \A d \in Coordinators : d # c => co'[d] = co[d]
  BY <1>0, <1>2 DEF Holds
<1>7. /\ co[c].next \in DOMAIN LocksOf[c]
      /\ \A i \in 1 .. co[c].next - 1 : locks[LocksOf[c][i]] = c
  BY <1>0 DEF LeaseHolds
<1>8. /\ LocksOf[c] \in Seq(Locks) /\ DOMAIN LocksOf[c] = 1 .. Len(LocksOf[c])
      /\ Len(LocksOf[c]) \in Nat /\ co[c].next \in Nat
      /\ \A d \in Coordinators : \A i \in DOMAIN LocksOf[d] : LocksOf[d][i] \in Locks
  BY <1>0, LockAssumption DEF Memory
<1>9. /\ NextLock(c) \in Locks
      /\ locks' \in [Locks -> Coordinators \cup {None}]
      /\ locks'[NextLock(c)] = c
      /\ \A l \in Locks : l # NextLock(c) => locks'[l] = locks[l]
      /\ \A l \in Locks : locks[l] = c => locks'[l] = c
  BY <1>0, <1>2, <1>7, <1>8 DEF NextLock
<1>10. \A i \in 1 .. co[c].next : locks'[LocksOf[c][i]] = c
  <2> SUFFICES ASSUME NEW i \in 1 .. co[c].next
               PROVE  locks'[LocksOf[c][i]] = c
    OBVIOUS
  <2>1. CASE i = co[c].next
    BY <1>9, <2>1 DEF NextLock
  <2>2. CASE i \in 1 .. co[c].next - 1
    BY <1>7, <1>8, <1>9, <2>2
  <2> QED
    BY <1>8, <2>1, <2>2
<1>11. ASSUME NEW d \in Coordinators, d # c
       PROVE  /\ co'[d].pc = "idle" => co'[d].next = 1 /\ \A l \in Locks : locks'[l] # d
              /\ co'[d].pc = "locking" =>
                    /\ co'[d].next \in DOMAIN LocksOf[d]
                    /\ \A i \in 1 .. co'[d].next - 1 : locks'[LocksOf[d][i]] = d
              /\ Working(d)' => \A i \in DOMAIN LocksOf[d] : locks'[LocksOf[d][i]] = d
  <2>1. \A l \in Locks : locks[l] = d <=> locks'[l] = d
    BY <1>2, <1>9, <1>11, LockAssumption
  <2>2. co'[d] = co[d]
    BY <1>6, <1>11
  <2>3. LocksOf[d] \in Seq(Locks) /\ co[d].next \in Nat
    BY <1>0, LockAssumption DEF Memory
  <2>4. co[d].next \in DOMAIN LocksOf[d] =>
           \A i \in 1 .. co[d].next - 1 : i \in DOMAIN LocksOf[d]
    BY <2>3
  <2>5. CASE co[d].pc = "idle"
    BY <1>0, <2>1, <2>2, <2>5 DEF LeaseHolds, Working
  <2>6. CASE co[d].pc = "locking"
    BY <1>0, <1>8, <2>1, <2>2, <2>4, <2>6 DEF LeaseHolds, Working
  <2>7. CASE Working(d)
    BY <1>0, <1>8, <2>1, <2>2, <2>7 DEF LeaseHolds, Working
  <2> QED
    BY <2>5, <2>6, <2>7 DEF Working
<1>12. /\ co'[c].pc # "idle"
       /\ co'[c].pc = "locking" =>
             /\ co'[c].next \in DOMAIN LocksOf[c]
             /\ \A i \in 1 .. co'[c].next - 1 : locks'[LocksOf[c][i]] = c
       /\ Working(c)' => \A i \in DOMAIN LocksOf[c] : locks'[LocksOf[c][i]] = c
  <2>1. CASE last
    BY <1>1, <1>6, <1>8, <1>10, <2>1 DEF Working
  <2>2. CASE ~last
    <3>1. co'[c].pc = "locking" /\ co'[c].next = co[c].next + 1
      BY <1>1, <1>6, <2>2
    <3>2. co[c].next + 1 \in DOMAIN LocksOf[c] /\ (co[c].next + 1) - 1 = co[c].next
      BY <1>7, <1>8, <2>2
    <3> QED
      BY <1>10, <3>1, <3>2 DEF Working
  <2> QED
    BY <2>1, <2>2
<1>13. LeaseHolds'
  BY <1>9, <1>11, <1>12 DEF LeaseHolds
<1>14. ~Working(c) /\ Legal
  BY <1>0, <1>2 DEF Working, Legal
<1> QED
  BY <1>1, <1>2, <1>3, <1>5, <1>13, <1>14, RestingStep

\* A lease that is held turns an invocation away; a process that waits for
\* its locks may also be killed.
LEMMA RefusedKeeps ==
  ASSUME ExecutorInvariant, NEW c \in Coordinators, ~Working(c), Leave(c),
         UNCHANGED <<ws, run, mishaps>>
  PROVE  Legal /\ ExecutorInvariant'
<1>1. LeaseHolds' /\ co \in [Coordinators -> Memory]
  BY LeaseAfter DEF ExecutorInvariant
<1>2. Holds(c, Idle)
  BY DEF Leave, Holds
<1>3. MemoryHolds(run, Idle) /\ Idle.live = <<>> /\ Idle.seen = None
  BY IdleRests DEF Idle
<1>4. Legal
  BY DEF Legal
<1> QED
  BY <1>1, <1>2, <1>3, <1>4, RestingStep

\* Once disturbed, for ever disturbed.
LEMMA MishapsStay ==
  ASSUME NEW x, Mishap(x)
  PROVE  mishaps' # {}
  BY DEF Mishap

\* A killed coordinator: its claims stay, and that it was killed is known.
LEMMA CrashKeeps ==
  ASSUME ExecutorInvariant, NEW c \in Coordinators, Crash(c)
  PROVE  Legal /\ ExecutorInvariant'
<1>1. Leave(c) /\ UNCHANGED <<ws, run>>
      /\ IF Working(c) THEN Mishap("crash") ELSE UNCHANGED mishaps
  BY DEF Crash, ledger
<1>2. Legal
  BY <1>1 DEF Legal
<1>3. CASE Working(c)
  <2>1. mishaps' # {}
    BY <1>1, <1>3, MishapsStay
  <2> QED
    BY <1>1, <1>2, <1>3, <2>1, LeaveAtWork
<1>4. CASE ~Working(c)
  BY <1>1, <1>4, RefusedKeeps
<1> QED
  BY <1>3, <1>4

\* Other calls that keep the history, and the run as active and unpaused as
\* it was, unless they disturb a coordinator at work.
LEMMA OthersKeep ==
  ASSUME ExecutorInvariant, Legal, UNCHANGED <<co, locks>>,
         run'.history = run.history, run.decision # None => run'.decision # None,
         mishaps' = {} => mishaps = {},
         \A d \in Coordinators : Working(d) /\ mishaps' = {} =>
            /\ Pending(co[d]) # {} /\ Unpaused(run) => Unpaused(run')
            /\ co[d].seen # None => ws' = ws
  PROVE  ExecutorInvariant'
<1>1. \A d \in Coordinators : MemoryHolds(run', co[d])
  BY SameHistory DEF ExecutorInvariant
<1>2. ASSUME NEW d \in Coordinators, Working(d), mishaps' = {}
      PROVE  Undisturbed(run', ws', co[d])
  <2>1. Undisturbed(run, ws, co[d])
    BY <1>2 DEF ExecutorInvariant, Calm
  <2>2. /\ Pending(co[d]) # {} /\ Unpaused(run) => Unpaused(run')
        /\ co[d].seen # None => ws' = ws
    BY <1>2
  <2> QED
    BY <2>1, <2>2 DEF Undisturbed
<1>3. ASSUME Attended
      PROVE  Attended'
  <2>1. \A s, d, a : Exact(run', s, d, a) = Exact(run, s, d, a)
    BY DEF Exact, Of
  <2> QED
    BY <1>3, <2>1 DEF Attended
<1> QED
  BY <1>1, <1>2, <1>3, EnvironmentStep

\* The lease of an operator is free when no coordinator is at work, so what
\* an operator does under it concerns none, if it leaves no more running.
LEMMA UnderLease ==
  ASSUME ExecutorInvariant, Legal, UNCHANGED <<co, locks>>, mishaps' = mishaps,
         LeaseFree, \A k \in DOMAIN run'.history : run'.history[k].status = "running" =>
                       k \in DOMAIN run.history /\ run.history[k].status = "running"
  PROVE  ExecutorInvariant'
<1>1. \A d \in Coordinators : ~Working(d)
  BY OnlyOneWorks DEF ExecutorInvariant
<1>2. \A d \in Coordinators : Pending(co[d]) = {}
  BY <1>1, AtRest DEF ExecutorInvariant, Working, AtWork
<1>3. Attended => Attended'
  BY <1>2 DEF Attended
<1> QED
  BY <1>1, <1>3, EnvironmentStep

\* What is still to be recorded runs, so its stage is not settled.
LEMMA PendingIsUnsettled ==
  ASSUME ExecutorInvariant, NEW c \in Coordinators, NEW i \in Pending(co[c])
  PROVE  \E s \in Stages : ~Settled(run, s)
<1>1. run \in Run /\ Fits(run) /\ ValidLedger(run) /\ MemoryHolds(run, co[c])
  BY DEF ExecutorInvariant, StageInvariant, Fits
<1>2. PICK k \in Exact(run, co[c].live[i].stage, co[c].live[i].dispatch, co[c].live[i].attempt) :
         run.history[k].status = "running"
  BY <1>1 DEF MemoryHolds, Runs
<1>3. k \in DOMAIN run.history
  BY DEF Exact, Of
<1>4. Unsettled(run, run.history[k].stage) /\ run.history[k].stage \in Stages
  BY <1>1, <1>2, <1>3, RunningIsUnsettled, HistoryTyped DEF Fits, ValidLedger, StageRecord
<1>5. ~Settled(run, run.history[k].stage)
  BY <1>4, OnceIsSome DEF Settled, Unsettled
<1> QED
  BY <1>4, <1>5

\* What everybody else does.
Environment == \/ \E c \in Coordinators : WorkerWrites(c)
               \/ Edit \/ Pause \/ Resolve \/ Gate \/ Reconcile \/ CompleteRun \/ AbortRun

\* Nobody else ends what a coordinator waits for.
LEMMA EnvironmentKeeps ==
  ASSUME ExecutorInvariant, Environment
  PROVE  Legal /\ ExecutorInvariant'
<1>0. run \in Run /\ Fits(run) /\ ws \in Contents /\ StageInvariant
  BY DEF ExecutorInvariant, StageInvariant, Fits
<1>1. ASSUME NEW c \in Coordinators, WorkerWrites(c)
      PROVE  Legal /\ ExecutorInvariant'
  <2>1. EditWorkspace /\ UNCHANGED <<run, co, locks, mishaps>> /\ co[c].pc = "wait"
    BY <1>1 DEF WorkerWrites, others, EditWorkspace
  <2>2. Legal
    BY <2>1 DEF Legal, Next
  <2>3. Working(c) /\ MemoryHolds(run, co[c])
    BY <2>1 DEF Working, ExecutorInvariant
  <2>4. co[c].seen = None
    BY <2>1, <2>3 DEF MemoryHolds, InPlace
  <2>5. \A d \in Coordinators : Working(d) => co[d].seen = None
    BY <2>3, <2>4, OwnView
  <2> QED
    BY <2>1, <2>2, <2>5, OthersKeep
<1>2. ASSUME Edit \/ Pause
      PROVE  Legal /\ ExecutorInvariant'
  <2>1. /\ UNCHANGED <<co, locks>>
        /\ IF \E c \in Coordinators : Working(c)
           THEN Mishap("operator") ELSE UNCHANGED mishaps
    BY <1>2 DEF Edit, Pause, Meddle
  <2>2. EditWorkspace \/ PauseForHuman
    BY <1>2 DEF Edit, Pause
  <2>3. Legal
    BY <2>2 DEF Legal, Next
  <2>4. run'.history = run.history /\ run'.decision = run.decision
    BY <1>0, <2>2 DEF EditWorkspace, PauseForHuman, Run
  <2>5. /\ mishaps' = {} => mishaps = {}
        /\ \A d \in Coordinators : Working(d) => mishaps' # {}
    BY <2>1, MishapsStay
  <2> QED
    BY <2>1, <2>3, <2>4, <2>5, OthersKeep
<1>3. ASSUME Resolve
      PROVE  Legal /\ ExecutorInvariant'
  <2>1. ResolveHumanStop /\ UNCHANGED <<co, locks, mishaps>>
    BY <1>3 DEF Resolve, others
  <2>2. Legal
    BY <2>1 DEF Legal, Next
  <2>3. /\ run'.history = run.history /\ run'.decision = run.decision
        /\ Unpaused(run) => Unpaused(run') /\ ws' = ws
    BY <1>0, <2>1 DEF ResolveHumanStop, Run, Unpaused
  <2>4. ws' = ws
    BY <2>1 DEF ResolveHumanStop
  <2>5. Unpaused(run')
    BY <1>0, <2>1 DEF ResolveHumanStop, Run, Unpaused
  <2> QED
    BY <2>1, <2>2, <2>3, <2>4, <2>5, OthersKeep
<1>4. ASSUME Gate
      PROVE  Legal /\ ExecutorInvariant'
  <2>1. PICK g \in 1 .. NumGates : CloseGate(g) \/ AcceptRisk(g) \/ NotApplicable(g)
    BY <1>4 DEF Gate
  <2>2. UNCHANGED <<co, locks, mishaps>>
    BY <1>4 DEF Gate, others
  <2>3. Legal
    BY <2>1 DEF Legal, Next
  <2>4. run'.history = run.history /\ run'.decision = run.decision /\ run'.status = "active"
    BY <1>0, <2>1, GateCallsFit
  <2>5. \E status : run' = Entered(run, status)
    BY <2>1 DEF CloseGate, AcceptRisk, NotApplicable
  <2>6. run'.paused = run.paused
    BY <1>0, <2>5 DEF Entered, Run
  <2>7. ws' = ws
    BY <2>1 DEF CloseGate, AcceptRisk, NotApplicable
  <2> QED
    BY <2>2, <2>3, <2>4, <2>6, <2>7, OthersKeep DEF Unpaused
<1>5. ASSUME Reconcile
      PROVE  Legal /\ ExecutorInvariant'
  <2>1. PICK k \in DOMAIN run.history :
           ReconcileStale(run.history[k].stage, run.history[k].dispatch)
    BY <1>5 DEF Reconcile, Stale
  <2>2. LeaseFree /\ UNCHANGED <<co, locks, mishaps>>
    BY <1>5 DEF Reconcile, others
  <2>3. Legal
    BY <2>1 DEF Legal, Next
  <2>4. PICK j \in DOMAIN run.history : \E h : Updates(run, run', j, h)
    BY <1>0, <2>1, ReconcileUpdates DEF ReconcileStale
  <2>5. PICK h : Updates(run, run', j, h)
    BY <2>4
  <2>7. run'.history = [run.history EXCEPT ![j] = h] /\ h.status # "running"
    BY <1>0, <2>5 DEF Updates, Run
  <2>6. \A i \in DOMAIN run'.history : run'.history[i].status = "running" =>
           i \in DOMAIN run.history /\ run.history[i].status = "running"
    BY <1>0, <2>7, HistoryTyped
  <2> QED
    BY <2>2, <2>3, <2>6, UnderLease
<1>6. ASSUME AbortRun
      PROVE  Legal /\ ExecutorInvariant'
  <2>1. LeaseFree /\ Abort /\ UNCHANGED <<co, locks, mishaps>>
    BY <1>6 DEF AbortRun, others
  <2>2. Legal
    BY <2>1 DEF Legal, Next
  <2>3. run'.history = run.history
    BY <1>0, <2>1 DEF Abort, Run
  <2> QED
    BY <2>1, <2>2, <2>3, UnderLease
<1>7. ASSUME CompleteRun
      PROVE  Legal /\ ExecutorInvariant'
  <2>1. Complete /\ UNCHANGED <<co, locks, mishaps>>
    BY <1>7 DEF CompleteRun, others
  <2>2. Legal
    BY <2>1 DEF Legal, Next
  <2>3. \A s \in Stages : Settled(run, s)
    BY <2>1 DEF Complete, CompleteAllowed
  <2>4. \A d \in Coordinators : Pending(co[d]) = {}
    BY <2>3, PendingIsUnsettled
  <2>5. run'.history = run.history /\ run'.decision = run.decision /\ ws' = ws
    BY <1>0, <2>1 DEF Complete, Run
  <2> QED
    BY <2>1, <2>2, <2>4, <2>5, OthersKeep
<1> QED
  BY <1>1, <1>2, <1>3, <1>4, <1>5, <1>6, <1>7 DEF Environment

---------------------------------------------------------------------------
(* The coordinator: binding, skips and the head of the loop.               *)

\* What fits the ledger fits one with the same history, and more mishaps.
LEMMA SameFine ==
  ASSUME NEW r, NEW r2, NEW w, NEW g, NEW g2, NEW m, Fine(r, w, g, m), r2.history = r.history,
         r.decision # None => r2.decision # None, g2 = {} => g = {},
         Pending(m) # {} /\ Unpaused(r) => Unpaused(r2)
  PROVE  Fine(r2, w, g2, m)
  BY SameHistory DEF Fine, Undisturbed

\* The coordinator goes on without a call to the ledger.
LEMMA GoesOn ==
  ASSUME ExecutorInvariant, NEW c \in Coordinators, Working(c), NEW m, AtWork(m),
         Holds(c, m), UNCHANGED <<ws, run, locks, mishaps>>, Fine(run, ws, mishaps, m),
         \/ m.seen = None
         \/ m.pc # "skip"
         \/ Skippable(c) # {} /\ m.done = co[c].done /\ m.skipped = co[c].skipped
  PROVE  Legal /\ ExecutorInvariant'
<1>1. Legal /\ locks' = locks /\ mishaps' = mishaps
  BY DEF Legal
<1>2. Fine(run', ws', mishaps', m)
  OBVIOUS
<1> QED
  BY <1>1, <1>2, StepByOne

\* The coordinator stops calling the ledger: nothing is left to record.
LEMMA HaltKeeps ==
  ASSUME ExecutorInvariant, NEW c \in Coordinators, Working(c), Pending(co[c]) = {},
         Halt(c), UNCHANGED <<ws, run, locks, mishaps>>
  PROVE  Legal /\ ExecutorInvariant'
<1>1. Holds(c, Halted(co[c]))
  BY DEF Halt, Halted
<1>2. Fine(run, ws, mishaps, Halted(co[c])) /\ AtWork(Halted(co[c])) /\ Halted(co[c]).seen = None
  BY OwnView, HaltFine
<1> QED
  BY <1>1, <1>2, GoesOn

\* The coordinator leaves with nothing to record, perhaps after a last call
\* that keeps the history.
LEMMA LeaveQuietly ==
  ASSUME ExecutorInvariant, NEW c \in Coordinators, Working(c), Pending(co[c]) = {},
         Leave(c), Legal, mishaps' = mishaps, run'.history = run.history
  PROVE  ExecutorInvariant'
<1>1. Fine(run, ws, mishaps, co[c])
  BY OwnView
<1>2. mishaps = {} => \A k \in DOMAIN run.history : run.history[k].status # "running"
  BY <1>1 DEF Fine, AttendedBy
<1> QED
  BY <1>2, LeaveAtWork

\* A human stop is recorded, or the refusal is raised.
LEMMA StopKeeps ==
  ASSUME ExecutorInvariant, NEW c \in Coordinators, Stop(c)
  PROVE  Legal /\ ExecutorInvariant'
<1>1. /\ co[c].pc = "halt" /\ Leave(c) /\ UNCHANGED <<ws, mishaps>>
      /\ run' = IF Unpaused(run) /\ ~co[c].raises THEN [run EXCEPT !.paused = TRUE] ELSE run
  BY DEF Stop, others
<1>2. Working(c)
  BY <1>1 DEF Working
<1>3. Pending(co[c]) = {} /\ run \in Run
  BY <1>1, <1>2, OwnView DEF Pending
<1>4. PauseForHuman \/ UNCHANGED <<ws, run>>
  BY <1>1 DEF PauseForHuman
<1>5. Legal /\ run'.history = run.history
  BY <1>3, <1>4 DEF Legal, Next, PauseForHuman, Run
<1> QED
  BY <1>1, <1>2, <1>3, <1>5, LeaveQuietly

\* The conditions are frozen by the first invocation.
LEMMA BindKeeps ==
  ASSUME ExecutorInvariant, NEW c \in Coordinators, Bind(c)
  PROVE  Legal /\ ExecutorInvariant'
<1> DEFINE d == DecisionOf[c]
<1>1. co[c].pc = "bind" /\ UNCHANGED <<ws, mishaps>>
  BY DEF Bind, others
<1>2. Working(c)
  BY <1>1 DEF Working
<1>3. /\ Fine(run, ws, mishaps, co[c]) /\ co[c] \in Memory
      /\ run \in Run /\ Fits(run) /\ ws \in Contents
  BY <1>2, OwnView
<1>4. /\ Pending(co[c]) = {} /\ co[c].live = <<>> /\ co[c].later = <<>> /\ co[c].batch = {}
      /\ co[c].seen = None
  BY <1>1, <1>3 DEF Pending, Fine, MemoryHolds, InPlace
<1>5. CASE BindAllowed(run, d)
  <2> DEFINE m == [co[c] EXCEPT !.pc = "skip", !.done = Completed(run),
                                !.skipped = SkippedStages(run), !.resolved = Resolved(run)]
  <2>1. run' = Bound(run, d) /\ Holds(c, m) /\ locks' = locks
    BY <1>5 DEF Bind
  <2>2. d \in BOOLEAN
    BY ExecutorAssumption
  <2>3. run'.history = run.history /\ run'.decision = d /\ run'.decision # None
    BY <1>3, <2>1, <2>2, AbsentAssumption DEF Bound, Run
  <2>4. BindConditions(d)
    BY <1>1, <1>3, <1>5, <2>1 DEF BindConditions, Fits, DecidedFirst
  <2>5. Legal
    BY <2>2, <2>4 DEF Legal, Next
  <2>6. Completed(run) \subseteq Stages /\ SkippedStages(run) \subseteq Stages
        /\ Resolved(run) \subseteq Nat
    BY <1>3, HistoryTyped DEF Completed, SkippedStages, SkipRecord, Resolved
  <2>7. /\ m \in Memory /\ m.pc = "skip" /\ m.live = <<>> /\ m.later = <<>>
        /\ m.batch = {} /\ m.seen = None
    <3>1. "skip" \in Phases
      BY DEF Phases
    <3>2. /\ Completed(run) \in SUBSET Stages /\ SkippedStages(run) \in SUBSET Stages
          /\ Resolved(run) \in SUBSET Nat
      BY <2>6
    <3> QED
      BY <1>3, <1>4, <3>1, <3>2 DEF Memory
  <2> HIDE DEF m
  <2>8. Fine(run', ws, mishaps, co[c])
    BY <1>3, <1>4, <2>3, SameFine
  <2>9. InOrder(run', ws, mishaps, m) /\ AtWork(m)
    BY <2>3, <2>7 DEF InOrder, InPlace, ResultsFit, Pending, AtWork
  <2>10. Fine(run', ws, mishaps, m)
    BY <1>4, <2>7, <2>8, <2>9, DroppedFine
  <2> QED
    BY <1>1, <1>2, <2>1, <2>5, <2>7, <2>9, <2>10, StepByOne
<1>6. CASE ~BindAllowed(run, d)
  <2>1. UNCHANGED run /\ ((Halt(c) /\ UNCHANGED locks) \/ Leave(c))
    BY <1>6 DEF Bind
  <2>2. Legal
    BY <1>1, <2>1 DEF Legal
  <2> QED
    BY <1>1, <1>2, <1>4, <2>1, <2>2, HaltKeeps, LeaveQuietly
<1> QED
  BY <1>5, <1>6

\* A checkpoint of the worktree, for the next call.
LEMMA CaptureKeeps ==
  ASSUME ExecutorInvariant, NEW c \in Coordinators, Capture(c)
  PROVE  Legal /\ ExecutorInvariant'
<1> DEFINE m == [co[c] EXCEPT !.seen = ws]
<1>1. /\ co[c].seen = None /\ Holds(c, m) /\ UNCHANGED <<ws, run, locks, mishaps>>
      /\ \/ co[c].pc = "skip" /\ Skippable(c) # {}
         \/ co[c].pc \in {"finish", "salvage", "unwind"} /\ co[c].next <= Len(co[c].live)
         \/ co[c].pc = "attest"
  BY DEF Capture, ledger, others
<1>2. Working(c)
  BY <1>1 DEF Working
<1>3. Fine(run, ws, mishaps, co[c]) /\ co[c] \in Memory /\ ws \in Contents
  BY <1>2, OwnView
<1>4. /\ m \in Memory /\ m.seen = ws /\ m.pc = co[c].pc /\ m.live = co[c].live
      /\ m.later = co[c].later /\ m.batch = co[c].batch /\ m.next = co[c].next
      /\ m.done = co[c].done /\ m.skipped = co[c].skipped
  BY <1>3 DEF Memory
<1> HIDE DEF m
<1>5. Pending(m) = Pending(co[c]) /\ SameClaims(co[c], m) /\ AtWork(m)
  BY <1>2, <1>4 DEF Pending, SameClaims, AtWork, Working
<1>6. InOrder(run, ws, mishaps, m)
  BY <1>1, <1>3, <1>4, <1>5 DEF InOrder, InPlace, ResultsFit, Fine, MemoryHolds, Undisturbed
<1>7. Fine(run, ws, mishaps, m)
  BY <1>3, <1>4, <1>5, <1>6, KeptFine
<1> QED
  BY <1>1, <1>2, <1>4, <1>5, <1>7, GoesOn

\* A ready stage is skipped; a refusal stops the run.
LEMMA AttestReadySkipKeeps ==
  ASSUME ExecutorInvariant, NEW c \in Coordinators, AttestReadySkip(c)
  PROVE  Legal /\ ExecutorInvariant'
<1>1. co[c].pc = "skip" /\ UNCHANGED <<ws, locks, mishaps>>
  BY DEF AttestReadySkip, others
<1>2. Working(c)
  BY <1>1 DEF Working
<1>3. /\ Fine(run, ws, mishaps, co[c]) /\ co[c] \in Memory
      /\ run \in Run /\ Fits(run) /\ ws \in Contents
  BY <1>2, OwnView
<1>4. /\ Pending(co[c]) = {} /\ co[c].live = <<>> /\ co[c].later = <<>> /\ co[c].batch = {}
      /\ run.decision # None
  BY <1>1, <1>3 DEF Pending, Fine, MemoryHolds, InPlace
<1>5. PICK s \in Stages :
         IF SkipAllowed(run, s) /\ co[c].seen = ws
         THEN /\ run' = SkipAttested(run, s)
              /\ Holds(c, [co[c] EXCEPT !.skipped = @ \cup {s}, !.seen = None])
         ELSE Halt(c) /\ UNCHANGED run
  BY DEF AttestReadySkip
<1>6. CASE SkipAllowed(run, s) /\ co[c].seen = ws
  <2> DEFINE m == [co[c] EXCEPT !.skipped = @ \cup {s}, !.seen = None]
  <2>1. run' = SkipAttested(run, s) /\ Holds(c, m)
    BY <1>5, <1>6
  <2>2. run'.history = run.history /\ run'.decision = run.decision
    BY <1>3, <2>1 DEF SkipAttested, Run
  <2>3. AttestSkip(s)
    BY <1>1, <1>6, <2>1 DEF AttestSkip
  <2>4. Legal
    BY <2>3 DEF Legal, Next
  <2>5. /\ m \in Memory /\ m.pc = "skip" /\ m.live = <<>> /\ m.later = <<>>
        /\ m.batch = {} /\ m.seen = None
    <3>1. co[c].skipped \cup {s} \in SUBSET Stages
      BY <1>3, MemoryParts
    <3> QED
      BY <1>1, <1>3, <1>4, <3>1 DEF Memory
  <2> HIDE DEF m
  <2>6. Fine(run', ws, mishaps, co[c])
    BY <1>3, <1>4, <2>2, SameFine
  <2>7. InOrder(run', ws, mishaps, m) /\ AtWork(m)
    BY <1>4, <2>2, <2>5 DEF InOrder, InPlace, ResultsFit, Pending, AtWork
  <2>8. Fine(run', ws, mishaps, m)
    BY <1>4, <2>5, <2>6, <2>7, DroppedFine
  <2> QED
    BY <1>1, <1>2, <2>1, <2>4, <2>5, <2>7, <2>8, StepByOne
<1>7. CASE ~(SkipAllowed(run, s) /\ co[c].seen = ws)
  BY <1>1, <1>2, <1>4, <1>5, <1>7, HaltKeeps
<1> QED
  BY <1>6, <1>7

\* The head of the loop.
LEMMA PlanKeeps ==
  ASSUME ExecutorInvariant, NEW c \in Coordinators, Plan(c)
  PROVE  Legal /\ ExecutorInvariant'
<1>1. co[c].pc = "skip" /\ Skippable(c) = {} /\ UNCHANGED <<ws, run, mishaps>>
  BY DEF Plan, ledger, others
<1>2. Working(c) /\ Legal
  BY <1>1 DEF Working, Legal
<1>3. /\ Fine(run, ws, mishaps, co[c]) /\ co[c] \in Memory
  BY <1>2, OwnView
<1>4. /\ Pending(co[c]) = {} /\ co[c].live = <<>> /\ co[c].later = <<>> /\ co[c].batch = {}
      /\ co[c].seen = None /\ run.decision # None
  BY <1>1, <1>3 DEF Pending, Fine, MemoryHolds, InPlace, ExecutorInvariant, SkipsAhead
<1>5. ASSUME NEW m \in Memory, m.pc \in {"attest", "launch"}, m.live = <<>>, m.later = <<>>,
             m.pc = "attest" => m.batch = {}, m.seen = None, Holds(c, m), UNCHANGED locks
      PROVE  ExecutorInvariant'
  <2>1. DOMAIN m.live = {}
    BY <1>5
  <2>2. Pending(m) = {}
    BY <2>1 DEF Pending
  <2>3. InOrder(run, ws, mishaps, m) /\ AtWork(m)
    BY <1>4, <1>5, <2>2 DEF InOrder, InPlace, ResultsFit, AtWork
  <2>4. Fine(run, ws, mishaps, m)
    BY <1>3, <1>4, <1>5, <2>3, DroppedFine
  <2> QED
    BY <1>1, <1>2, <1>5, <2>3, <2>4, GoesOn
<1>6. CASE Leave(c)
  BY <1>1, <1>2, <1>4, <1>6, LeaveQuietly
<1>7. CASE Halt(c) /\ UNCHANGED locks
  BY <1>1, <1>2, <1>4, <1>7, HaltKeeps
<1>8. CASE Holds(c, [co[c] EXCEPT !.pc = "attest"]) /\ UNCHANGED locks
  <2> DEFINE m == [co[c] EXCEPT !.pc = "attest"]
  <2>1. "attest" \in Phases
    BY DEF Phases
  <2>2. /\ m \in Memory /\ m.pc = "attest" /\ m.live = <<>> /\ m.later = <<>>
        /\ m.batch = {} /\ m.seen = None
    BY <1>3, <1>4, <2>1 DEF Memory
  <2>3. Holds(c, m) /\ UNCHANGED locks /\ m.pc \in {"attest", "launch"}
    BY <1>8, <2>2
  <2> HIDE DEF m
  <2> QED
    BY <1>2, <1>5, <2>2, <2>3
<1>9. ASSUME NEW s \in Stages,
             Holds(c, [co[c] EXCEPT !.pc = "launch", !.batch = Batch(c, s)]), UNCHANGED locks
      PROVE  ExecutorInvariant'
  <2> DEFINE m == [co[c] EXCEPT !.pc = "launch", !.batch = Batch(c, s)]
  <2>1. Batch(c, s) \in SUBSET Stages /\ "launch" \in Phases
    BY DEF Batch, Ready, ToDo, Phases
  <2>2. /\ m \in Memory /\ m.pc = "launch" /\ m.live = <<>> /\ m.later = <<>>
        /\ m.seen = None
    BY <1>3, <1>4, <2>1 DEF Memory
  <2>3. Holds(c, m)
    BY <1>9
  <2> HIDE DEF m
  <2> QED
    BY <1>5, <1>9, <2>2, <2>3
<1>10. \/ Leave(c)
       \/ UNCHANGED locks /\ \/ Holds(c, [co[c] EXCEPT !.pc = "attest"])
                             \/ Halt(c)
                             \/ \E s \in Stages :
                                   Holds(c, [co[c] EXCEPT !.pc = "launch", !.batch = Batch(c, s)])
  BY DEF Plan
<1> QED
  BY <1>2, <1>6, <1>7, <1>8, <1>9, <1>10

\* The workflow is attested; a refusal is raised.
LEMMA AttestWorkflowKeeps ==
  ASSUME ExecutorInvariant, NEW c \in Coordinators, AttestWorkflow(c)
  PROVE  Legal /\ ExecutorInvariant'
<1>1. /\ co[c].pc = "attest" /\ Leave(c) /\ UNCHANGED <<ws, mishaps>>
      /\ run' = IF AttestAllowed(run, co[c].seen) THEN Attested(run) ELSE run
  BY DEF AttestWorkflow, others
<1>2. Working(c)
  BY <1>1 DEF Working
<1>3. Pending(co[c]) = {} /\ run \in Run
  BY <1>1, <1>2, OwnView DEF Pending
<1>4. AttestCompletion \/ UNCHANGED <<ws, run>>
  BY <1>1 DEF AttestCompletion, AttestAllowed
<1>5. Legal /\ run'.history = run.history
  BY <1>1, <1>3, <1>4 DEF Legal, Next, Attested, AttestCompletion, Run
<1> QED
  BY <1>1, <1>2, <1>3, <1>5, LeaveQuietly

---------------------------------------------------------------------------
(* The coordinator: closing a batch, and recording results.                *)

Back == {"pass", "findings", "reject", "malformed", "crash", "timeout", "human", "none", "lost"}

\* What came back is noted with the claims.
LEMMA ReturnedClaims ==
  ASSUME NEW c, co[c] \in Memory, NEW results,
         \A i \in DOMAIN co[c].live : results[i] \in Back
  PROVE  /\ Returned(c, results) \in Seq(Claim)
         /\ DOMAIN Returned(c, results) = DOMAIN co[c].live
         /\ \A i \in DOMAIN co[c].live :
               /\ Returned(c, results)[i].stage = co[c].live[i].stage
               /\ Returned(c, results)[i].dispatch = co[c].live[i].dispatch
               /\ Returned(c, results)[i].attempt = co[c].live[i].attempt
               /\ Returned(c, results)[i].result = results[i]
<1> DEFINE R == Returned(c, results)
<1> DEFINE n == Len(co[c].live)
<1>1. /\ n \in Nat /\ DOMAIN co[c].live = 1 .. n
      /\ \A i \in 1 .. n : co[c].live[i] \in Claim
  BY MemoryParts
<1>2. /\ DOMAIN R = 1 .. n
      /\ \A i \in 1 .. n : R[i] = [co[c].live[i] EXCEPT !.result = results[i]]
      /\ R = [i \in 1 .. n |-> R[i]]
  BY <1>1 DEF Returned
<1> HIDE DEF R, n
<1>3. ASSUME NEW i \in 1 .. n
      PROVE  /\ R[i] \in Claim
             /\ R[i].stage = co[c].live[i].stage
             /\ R[i].dispatch = co[c].live[i].dispatch
             /\ R[i].attempt = co[c].live[i].attempt
             /\ R[i].result = results[i]
  <2>1. co[c].live[i] \in Claim /\ results[i] \in Back
    BY <1>1
  <2> QED
    BY <1>2, <2>1 DEF Claim, Back
<1>4. R \in [1 .. n -> Claim]
  BY <1>2, <1>3
<1>5. R \in Seq(Claim)
  BY <1>1, <1>4, SeqDef
<1> QED
  BY <1>1, <1>2, <1>3, <1>5 DEF R

\* What cancel and collect may leave of a worker is a result of a claim.
LEMMA ClosingsTyped ==
  ASSUME NEW s \in Stages, NEW o \in Closings(s)
  PROVE  o \in Back
  BY ExecutorAssumption DEF Closings, Back

\* Whatever was still to be recorded is to be closed instead.
LEMMA UnwindFine ==
  ASSUME ExecutorInvariant, NEW c \in Coordinators,
         co[c].pc \in {"launch", "wait", "finish", "salvage"},
         NEW r, NEW g, Fine(r, ws, g, co[c]),
         NEW results, \A i \in DOMAIN co[c].live : results[i] \in Closings(co[c].live[i].stage),
         g = {} => \A i \in DOMAIN co[c].live : ~Unrecordable(results[i]),
         NEW m \in Memory, m.pc = "unwind", m.seen = None, m.batch = {}, m.later = <<>>,
         m.live = Returned(c, results),
         m.next = IF co[c].pc \in {"launch", "wait"} THEN 1 ELSE co[c].next
  PROVE  Fine(r, ws, g, m) /\ AtWork(m)
<1>1. co[c] \in Memory
  BY DEF ExecutorInvariant
<1>2. \A i \in DOMAIN co[c].live : co[c].live[i].stage \in Stages
  BY <1>1, MemoryParts
<1>3. \A i \in DOMAIN co[c].live : results[i] \in Back
  BY <1>2, ClosingsTyped
<1>4. /\ DOMAIN m.live = DOMAIN co[c].live
      /\ \A i \in DOMAIN co[c].live : /\ m.live[i].stage = co[c].live[i].stage
                                      /\ m.live[i].dispatch = co[c].live[i].dispatch
                                      /\ m.live[i].attempt = co[c].live[i].attempt
                                      /\ m.live[i].result = results[i]
  BY <1>1, <1>3, ReturnedClaims
<1>5. SameClaims(co[c], m)
  BY <1>4 DEF SameClaims
<1>6. DOMAIN co[c].live = 1 .. Len(co[c].live) /\ Len(co[c].live) \in Nat
  BY <1>1, MemoryParts
<1>7. Pending(m) = Pending(co[c])
  <2>1. CASE co[c].pc \in {"launch", "wait"}
    <3>1. Pending(co[c]) = DOMAIN co[c].live
      BY <2>1 DEF Pending
    <3>2. m.next = 1 /\ \A i \in DOMAIN m.live : i >= 1
      BY <1>4, <1>6, <2>1
    <3>3. Pending(m) = DOMAIN m.live
      BY <3>2 DEF Pending
    <3> QED
      BY <1>4, <3>1, <3>3
  <2>2. CASE co[c].pc \in {"finish", "salvage"}
    <3>1. m.next = co[c].next
      BY <2>2
    <3> QED
      BY <1>4, <2>2, <3>1 DEF Pending
  <2> QED
    BY <2>1, <2>2
<1>8. \A i \in Pending(m) : i \in DOMAIN co[c].live
  BY <1>4 DEF Pending
<1>9. r.decision # None
  BY DEF Fine, MemoryHolds
<1>10. InOrder(r, ws, g, m)
  BY <1>4, <1>8, <1>9 DEF InOrder, InPlace, ResultsFit
<1>11. Fine(r, ws, g, m)
  BY <1>5, <1>7, <1>10, KeptFine
<1> QED
  BY <1>11 DEF AtWork

\* A batch that cannot go on is closed, perhaps after one more claim.
LEMMA UnwindAfter ==
  ASSUME ExecutorInvariant, NEW c \in Coordinators, co[c].pc \in {"launch", "wait"},
         NEW results, \A i \in DOMAIN co[c].live : results[i] \in Closings(co[c].live[i].stage),
         NEW raises \in BOOLEAN, Unwind(c, results, raises), UNCHANGED <<ws, locks>>,
         Legal, Fine(run', ws, mishaps', co[c]),
         mishaps' = {} => mishaps = {} /\ \A i \in DOMAIN co[c].live : ~Unrecordable(results[i])
  PROVE  ExecutorInvariant'
<1> DEFINE m == [co[c] EXCEPT !.pc = "unwind", !.next = 1, !.seen = None, !.raises = raises,
                              !.batch = {}, !.later = <<>>, !.live = Returned(c, results)]
<1>1. Working(c) /\ Holds(c, m)
  BY DEF Working, Unwind
<1>2. co[c] \in Memory
  BY <1>1, OwnView
<1>3. /\ m \in Memory /\ m.pc = "unwind" /\ m.seen = None /\ m.batch = {} /\ m.later = <<>>
      /\ m.live = Returned(c, results) /\ m.next = 1
  <2>1. \A i \in DOMAIN co[c].live : results[i] \in Back
    BY <1>2, MemoryParts, ClosingsTyped
  <2>2. Returned(c, results) \in Seq(Claim)
    BY <1>2, <2>1, ReturnedClaims
  <2>3. "unwind" \in Phases /\ 1 \in Nat \ {0} /\ {} \in SUBSET Stages /\ <<>> \in Seq(Claim)
    BY DEF Phases
  <2> QED
    BY <1>2, <2>2, <2>3 DEF Memory
<1> HIDE DEF m
<1>4. m.next = IF co[c].pc \in {"launch", "wait"} THEN 1 ELSE co[c].next
  BY <1>3
<1>5. Fine(run', ws, mishaps', m) /\ AtWork(m)
  BY <1>3, <1>4, UnwindFine
<1>6. Fine(run', ws', mishaps', m)
  BY <1>5
<1>7. locks' = locks /\ (mishaps' = {} => mishaps = {})
  OBVIOUS
<1> QED
  BY <1>1, <1>3, <1>5, <1>6, <1>7, StepByOne

\* A batch that cannot go on is closed.
LEMMA UnwindKeeps ==
  ASSUME ExecutorInvariant, NEW c \in Coordinators, co[c].pc \in {"launch", "wait"},
         NEW results, \A i \in DOMAIN co[c].live : results[i] \in Closings(co[c].live[i].stage),
         NEW raises \in BOOLEAN, Unwind(c, results, raises), UNCHANGED <<ws, run, locks>>,
         mishaps' = {} => mishaps = {} /\ \A i \in DOMAIN co[c].live : ~Unrecordable(results[i])
  PROVE  Legal /\ ExecutorInvariant'
<1>1. Working(c) /\ Legal
  BY DEF Working, Legal
<1>2. Fine(run, ws, mishaps, co[c])
  BY <1>1, OwnView
<1>3. Fine(run', ws, mishaps', co[c])
  BY <1>2, SameFine
<1> QED
  BY <1>1, <1>3, UnwindAfter

\* A worker that was only queued is cancelled, and a result that is dropped is
\* recorded as if it were.
LEMMA CancelledClosings ==
  ASSUME NEW c, NEW i \in DOMAIN co[c].live
  PROVE  /\ AllCancelled(c)[i] \in Closings(co[c].live[i].stage)
         /\ ~Unrecordable(AllCancelled(c)[i])
  BY DEF AllCancelled, Closings, Unrecordable

\* A wait that raises, or is interrupted.
LEMMA WaitRaisesKeeps ==
  ASSUME ExecutorInvariant, NEW c \in Coordinators, NEW raises \in BOOLEAN, WaitRaises(c, raises)
  PROVE  Legal /\ ExecutorInvariant'
<1>1. PICK results \in [DOMAIN co[c].live -> UNION {Closings(s) : s \in Stages}] :
         /\ \A i \in DOMAIN results : results[i] \in Closings(co[c].live[i].stage)
         /\ Unwind(c, results, raises)
         /\ IF \E i \in DOMAIN results : Unrecordable(results[i])
            THEN Mishap("dispatcher") ELSE UNCHANGED mishaps
  BY DEF WaitRaises
<1>2. co[c].pc = "wait" /\ UNCHANGED <<ws, run, locks>>
  BY DEF WaitRaises, ledger
<1>3. mishaps' = {} => mishaps = {} /\ \A i \in DOMAIN co[c].live : ~Unrecordable(results[i])
  BY <1>1, MishapsStay
<1> QED
  BY <1>1, <1>2, <1>3, UnwindKeeps

\* A role that cannot be launched, or a dispatcher that fails.
LEMMA FailuresKeep ==
  ASSUME ExecutorInvariant, NEW c \in Coordinators, SpawnFails(c) \/ AwaitFails(c)
  PROVE  Legal /\ ExecutorInvariant'
<1>1. CASE SpawnFails(c)
  <2>1. /\ co[c].pc = "launch" /\ Unwind(c, AllCancelled(c), FALSE)
        /\ UNCHANGED <<ws, run, locks, mishaps>>
    BY <1>1 DEF SpawnFails, ledger, others
  <2> QED
    BY <2>1, CancelledClosings, UnwindKeeps
<1>2. CASE AwaitFails(c)
  BY <1>2, WaitRaisesKeeps DEF AwaitFails
<1> QED
  BY <1>1, <1>2

\* All workers of a batch come back.
LEMMA AwaitKeeps ==
  ASSUME ExecutorInvariant, NEW c \in Coordinators, Await(c)
  PROVE  Legal /\ ExecutorInvariant'
<1>1. PICK results \in [DOMAIN co[c].live -> UNION {Outcomes[s] : s \in Stages}] :
         /\ \A i \in DOMAIN results : results[i] \in Outcomes[co[c].live[i].stage]
         /\ Holds(c, [co[c] EXCEPT !.pc = "finish", !.next = 1, !.live = Returned(c, results)])
  BY DEF Await
<1>2. co[c].pc = "wait" /\ UNCHANGED <<ws, run, locks, mishaps>>
  BY DEF Await, ledger, others
<1>3. Working(c)
  BY <1>2 DEF Working
<1>4. Fine(run, ws, mishaps, co[c]) /\ co[c] \in Memory
  BY <1>3, OwnView
<1> DEFINE m == [co[c] EXCEPT !.pc = "finish", !.next = 1, !.live = Returned(c, results)]
<1>5. \A i \in DOMAIN co[c].live : results[i] \in Back
  <2> SUFFICES ASSUME NEW i \in DOMAIN co[c].live PROVE results[i] \in Back
    OBVIOUS
  <2>1. co[c].live[i].stage \in Stages
    BY <1>4, MemoryParts
  <2>2. results[i] \in Outcomes[co[c].live[i].stage]
    BY <1>1
  <2> QED
    BY <2>1, <2>2, ExecutorAssumption DEF Back
<1>6. /\ Returned(c, results) \in Seq(Claim)
      /\ DOMAIN Returned(c, results) = DOMAIN co[c].live
      /\ \A i \in DOMAIN co[c].live :
            /\ Returned(c, results)[i].stage = co[c].live[i].stage
            /\ Returned(c, results)[i].dispatch = co[c].live[i].dispatch
            /\ Returned(c, results)[i].attempt = co[c].live[i].attempt
            /\ Returned(c, results)[i].result = results[i]
  BY <1>4, <1>5, ReturnedClaims
<1>7. co[c].batch = {} /\ co[c].seen = None /\ run.decision # None
  BY <1>2, <1>4 DEF Fine, MemoryHolds, InPlace
<1>8. /\ m \in Memory /\ m.pc = "finish" /\ m.seen = None /\ m.batch = {}
      /\ m.later = co[c].later /\ m.live = Returned(c, results) /\ m.next = 1
  <2>1. "finish" \in Phases /\ 1 \in Nat \ {0}
    BY DEF Phases
  <2> QED
    BY <1>4, <1>6, <1>7, <2>1 DEF Memory
<1>9. Holds(c, m)
  BY <1>1
<1> HIDE DEF m
<1>10. SameClaims(co[c], m)
  BY <1>6, <1>8 DEF SameClaims
<1>11. DOMAIN co[c].live = 1 .. Len(co[c].live) /\ Len(co[c].live) \in Nat
  BY <1>4, MemoryParts
<1>12. Pending(m) = DOMAIN co[c].live
  <2>1. \A i \in DOMAIN m.live : i >= 1
    BY <1>6, <1>8, <1>11
  <2> QED
    BY <1>6, <1>8, <2>1 DEF Pending
<1>13. Pending(co[c]) = DOMAIN co[c].live
  BY <1>2 DEF Pending
<1>14. InOrder(run, ws, mishaps, m)
  BY <1>1, <1>6, <1>7, <1>8, <1>12 DEF InOrder, InPlace, ResultsFit
<1>15. Fine(run, ws, mishaps, m) /\ AtWork(m)
  BY <1>4, <1>8, <1>10, <1>12, <1>13, <1>14, KeptFine DEF AtWork
<1> QED
  BY <1>2, <1>3, <1>8, <1>9, <1>15, GoesOn

\* A recording call that the ledger takes is finish_stage, and it ends exactly
\* the attempt the claim is of.
LEMMA RecordEnds ==
  ASSUME ExecutorInvariant, NEW c \in Coordinators, Working(c), co[c].next \in Pending(co[c]),
         MayFinish(c), NEW x \in ResultOf[Mine(c).stage], Record(c, x), ws' = ws
  PROVE  /\ Legal
         /\ run'.decision = run.decision
         /\ \E k0 \in DOMAIN run.history : \E h0 :
               /\ Updates(run, run', k0, h0)
               /\ Exact(run, Mine(c).stage, Mine(c).dispatch, Mine(c).attempt) = {k0}
<1> DEFINE h == Mine(c)
<1>1. /\ run \in Run /\ Fits(run) /\ ws \in Contents /\ co[c] \in Memory
  BY OwnView
<1>2. h.stage \in Stages
  BY <1>1, MemoryParts DEF Mine
<1>3. FinishAllowed(run, h.stage, h.dispatch, h.attempt, ws)
  BY DEF MayFinish, FinishAllowed
<1>4. run' = Finished(run, h.stage, h.dispatch, h.attempt, x)
  BY DEF Record
<1> HIDE DEF h
<1>5. PICK k \in DOMAIN run.history : \E h0 :
         /\ Exact(run, h.stage, h.dispatch, h.attempt) = {k}
         /\ Updates(run, Finished(run, h.stage, h.dispatch, h.attempt, x), k, h0)
  BY <1>1, <1>2, <1>3, FinishUpdates DEF h
<1>6. PICK h0 : Updates(run, run', k, h0)
  BY <1>4, <1>5
<1>7. /\ run.history[k].stage = h.stage /\ run.history[k].dispatch = h.dispatch
      /\ run.history[k].attempt = h.attempt
  BY <1>5 DEF Exact, Of
<1>8. FinishStage(run.history[k].stage, run.history[k].dispatch, run.history[k].attempt)
  BY <1>3, <1>4, <1>7 DEF FinishStage, h
<1>9. Legal
  BY <1>8 DEF Legal, Next
<1>10. run'.decision = run.decision
  BY <1>1, <1>6 DEF Updates, Run
<1> QED
  BY <1>5, <1>6, <1>9, <1>10 DEF h

\* Undisturbed, the ledger takes what is to be recorded.
LEMMA CalmMayFinish ==
  ASSUME ExecutorInvariant, NEW c \in Coordinators, Working(c), co[c].next \in Pending(co[c]),
         co[c].seen # None, mishaps = {}
  PROVE  MayFinish(c) /\ (co[c].pc = "unwind" => ~Unrecordable(Mine(c).result))
<1> DEFINE h == Mine(c)
<1>1. /\ run \in Run /\ Fits(run) /\ Fine(run, ws, mishaps, co[c])
  BY OwnView
<1>2. Unpaused(run) /\ co[c].seen = ws
  BY <1>1 DEF Fine, Undisturbed
<1>3. Runs(run, h)
  BY <1>1 DEF Fine, MemoryHolds, Mine
<1>4. PICK k \in Exact(run, h.stage, h.dispatch, h.attempt) : run.history[k].status = "running"
  BY <1>3 DEF Runs
<1>5. Exact(run, h.stage, h.dispatch, h.attempt) = {k} /\ k \in DOMAIN run.history
  BY <1>1 DEF Fits, ValidLedger, DispatchesDistinct, Exact, Of
<1>6. MayFinish(c)
  BY <1>2, <1>4, <1>5 DEF MayFinish, FinishAllowed
<1>7. co[c].pc = "unwind" => ~Unrecordable(h.result)
  BY <1>1 DEF Fine, Undisturbed, Mine
<1> QED
  BY <1>6, <1>7

\* What a coordinator closes a stage with is a result of that stage.
LEMMA ClosingFits ==
  ASSUME NEW s \in Stages
  PROVE  /\ CancelledResult \in ResultOf[s]
         /\ \A o \in Closings(s) : ~Unrecordable(o) => Recorded(s, o) \in ResultOf[s]
<1>1. CancelledResult \in Result
  BY DEF CancelledResult, Result, Terminal
<1>2. Blocking({}) = {} /\ OfSeverity({}, {"high"}) = {} /\ ~Conflicting({})
  BY DEF Blocking, OfSeverity, Conflicting
<1>3. CancelledResult \in ResultOf[s]
  BY <1>1, <1>2 DEF ResultOf, CancelledResult
<1>4. Recorded(s, "timeout") = CancelledResult
  BY DEF Recorded
<1>5. ASSUME NEW o \in Closings(s), ~Unrecordable(o)
      PROVE  o \in Outcomes[s] \/ o = "timeout"
  BY <1>5 DEF Closings, Unrecordable
<1> QED
  BY <1>3, <1>4, <1>5, OutcomeAssumption

\* A coordinator that is done with one claim: recorded, or, if it was
\* disturbed, given up.
LEMMA DoneWithOne ==
  ASSUME ExecutorInvariant, NEW c \in Coordinators, Working(c), co[c].next \in Pending(co[c]),
         NEW m \in Memory, AtWork(m), Holds(c, m), UNCHANGED <<ws, locks, mishaps>>,
         m.seen = None, SameClaims(co[c], m), Pending(m) = Pending(co[c]) \ {co[c].next},
         InOrder(run, ws, mishaps, m),
         \/ MayFinish(c) /\ \E x \in ResultOf[Mine(c).stage] : Record(c, x)
         \/ UNCHANGED run /\ mishaps # {}
  PROVE  Legal /\ ExecutorInvariant'
<1>1. Fine(run, ws, mishaps, co[c]) /\ run \in Run
  BY OwnView
<1>2. CASE MayFinish(c) /\ \E x \in ResultOf[Mine(c).stage] : Record(c, x)
  <2>1. /\ Legal /\ run'.decision = run.decision
        /\ \E k0 \in DOMAIN run.history : \E h0 :
              /\ Updates(run, run', k0, h0)
              /\ Exact(run, Mine(c).stage, Mine(c).dispatch, Mine(c).attempt) = {k0}
    BY <1>2, RecordEnds
  <2>2. PICK k0 \in DOMAIN run.history : \E h0 :
           /\ Updates(run, run', k0, h0)
           /\ Exact(run, Mine(c).stage, Mine(c).dispatch, Mine(c).attempt) = {k0}
    BY <2>1
  <2>6. PICK h0 : Updates(run, run', k0, h0)
    BY <2>2
  <2>3. InOrder(run', ws, mishaps, m)
    BY <2>1 DEF InOrder
  <2>4. Fine(run', ws, mishaps, m)
    BY <1>1, <2>2, <2>3, <2>6, RecordFine DEF Mine
  <2>5. Fine(run', ws', mishaps', m)
    BY <2>4
  <2> QED
    BY <2>1, <2>5, StepByOne
<1>3. CASE UNCHANGED run /\ mishaps # {}
  <2>1. Fine(run, ws, mishaps, m)
    BY <1>1, <1>3, KeptFine
  <2> QED
    BY <1>3, <2>1, GoesOn
<1> QED
  BY <1>2, <1>3

\* One claim of a batch that is being closed.
LEMMA UnwindOneKeeps ==
  ASSUME ExecutorInvariant, NEW c \in Coordinators, UnwindOne(c)
  PROVE  Legal /\ ExecutorInvariant'
<1>1. co[c].pc = "unwind" /\ UNCHANGED <<ws, locks, mishaps>>
  BY DEF UnwindOne, others
<1>2. Working(c)
  BY <1>1 DEF Working
<1>3. /\ Fine(run, ws, mishaps, co[c]) /\ co[c] \in Memory
      /\ MemoryHolds(run, co[c])
  BY <1>2, OwnView DEF Fine
<1>4. DOMAIN co[c].live = 1 .. Len(co[c].live) /\ Len(co[c].live) \in Nat /\ co[c].next \in Nat \ {0}
  BY <1>3, MemoryParts
<1>5. CASE co[c].next > Len(co[c].live)
  <2>1. Pending(co[c]) = {}
    BY <1>1, <1>4, <1>5 DEF Pending
  <2>2. Halt(c) /\ UNCHANGED run
    BY <1>5 DEF UnwindOne
  <2> QED
    BY <1>1, <1>2, <2>1, <2>2, HaltKeeps
<1>6. CASE ~(co[c].next > Len(co[c].live))
  <2> DEFINE m == [co[c] EXCEPT !.next = @ + 1, !.seen = None]
  <2>1. /\ co[c].seen # None /\ Holds(c, m)
        /\ IF MayFinish(c) /\ ~Unrecordable(Mine(c).result)
           THEN Record(c, Recorded(Mine(c).stage, Mine(c).result))
           ELSE UNCHANGED run
    BY <1>6 DEF UnwindOne
  <2>2. co[c].next \in Pending(co[c]) /\ co[c].next \in DOMAIN co[c].live
    BY <1>1, <1>4, <1>6 DEF Pending
  <2>3. co[c].next + 1 \in Nat \ {0}
    BY <1>4
  <2>4. /\ m \in Memory /\ m.pc = "unwind" /\ m.seen = None /\ m.live = co[c].live
        /\ m.later = co[c].later /\ m.batch = co[c].batch /\ m.next = co[c].next + 1
    BY <1>1, <1>3, <2>3 DEF Memory
  <2> HIDE DEF m
  <2>5. Pending(m) = Pending(co[c]) \ {co[c].next}
    BY <1>1, <1>4, <2>4 DEF Pending
  <2>6. SameClaims(co[c], m) /\ AtWork(m)
    BY <2>4 DEF SameClaims, AtWork
  <2>7. InOrder(run, ws, mishaps, m)
    <3>1. Undisturbed(run, ws, co[c]) \/ mishaps # {}
      BY <1>3 DEF Fine
    <3>2. InPlace(m) /\ ResultsFit(m) /\ run.decision # None
      BY <1>1, <1>3, <2>4, <2>5 DEF MemoryHolds, InPlace, ResultsFit
    <3>3. mishaps = {} => \A i \in Pending(m) : ~Unrecordable(m.live[i].result)
      BY <1>1, <2>4, <2>5, <3>1 DEF Undisturbed
    <3> QED
      BY <2>4, <3>2, <3>3 DEF InOrder
  <2>8. CASE MayFinish(c) /\ ~Unrecordable(Mine(c).result)
    <3>1. Mine(c).stage \in Stages
      BY <1>3, <2>2, MemoryParts DEF Mine
    <3>2. Mine(c).result \in Closings(Mine(c).stage)
      BY <1>1, <1>3, <2>2 DEF MemoryHolds, ResultsFit, Mine
    <3>3. Recorded(Mine(c).stage, Mine(c).result) \in ResultOf[Mine(c).stage]
      BY <2>8, <3>1, <3>2, ClosingFits
    <3> QED
      BY <1>1, <1>2, <2>1, <2>2, <2>4, <2>5, <2>6, <2>7, <2>8, <3>3, DoneWithOne
  <2>9. CASE ~(MayFinish(c) /\ ~Unrecordable(Mine(c).result))
    <3>1. mishaps # {}
      BY <1>1, <1>2, <2>1, <2>2, <2>9, CalmMayFinish
    <3>2. UNCHANGED run
      BY <2>1, <2>9
    <3> QED
      BY <1>1, <1>2, <2>1, <2>2, <2>4, <2>5, <2>6, <2>7, <3>1, <3>2, DoneWithOne
  <2> QED
    BY <2>8, <2>9
<1> QED
  BY <1>5, <1>6

\* What the loop keeps of a claim whose result is in.
LEMMA KeepMemory ==
  ASSUME ExecutorInvariant, NEW c \in Coordinators, co[c].pc \in {"finish", "salvage"},
         co[c].next \in Pending(co[c]), NEW lost \in BOOLEAN, Keep(c, lost)
  PROVE  \E m \in Memory :
            /\ Holds(c, m) /\ AtWork(m) /\ m.seen = None /\ SameClaims(co[c], m)
            /\ Pending(m) = Pending(co[c]) \ {co[c].next}
            /\ InOrder(run, ws, mishaps, m)
<1> DEFINE live == [i \in DOMAIN co[c].live |->
                       IF lost /\ i = co[c].next THEN [Mine(c) EXCEPT !.result = "lost"]
                                                 ELSE co[c].live[i]]
<1> DEFINE done == IF ~lost /\ Good(Mine(c).stage, Mine(c).result)
                   THEN co[c].done \cup {Mine(c).stage} ELSE co[c].done
<1> DEFINE m == [co[c] EXCEPT !.pc = "finish", !.next = @ + 1, !.seen = None,
                              !.live = live, !.done = done]
<1>1. /\ co[c] \in Memory /\ MemoryHolds(run, co[c])
  BY DEF ExecutorInvariant
<1>2. /\ DOMAIN co[c].live = 1 .. Len(co[c].live) /\ Len(co[c].live) \in Nat
      /\ co[c].next \in Nat \ {0} /\ co[c].next \in DOMAIN co[c].live
      /\ \A i \in DOMAIN co[c].live : co[c].live[i] \in Claim /\ co[c].live[i].stage \in Stages
      /\ co[c].done \subseteq Stages
  BY <1>1, MemoryParts
<1>3. Holds(c, m)
  BY DEF Keep, Holds
<1>4. ASSUME NEW i \in DOMAIN co[c].live
      PROVE  /\ live[i] \in Claim
             /\ live[i].stage = co[c].live[i].stage
             /\ live[i].dispatch = co[c].live[i].dispatch
             /\ live[i].attempt = co[c].live[i].attempt
             /\ i # co[c].next => live[i] = co[c].live[i]
  <2>1. CASE lost /\ i = co[c].next
    <3>1. live[i] = [co[c].live[i] EXCEPT !.result = "lost"]
      BY <2>1 DEF Mine
    <3>2. co[c].live[i] \in Claim
      BY <1>2
    <3> QED
      BY <2>1, <3>1, <3>2 DEF Claim
  <2>2. CASE ~(lost /\ i = co[c].next)
    BY <1>2, <2>2
  <2> QED
    BY <2>1, <2>2
<1>5. DOMAIN live = DOMAIN co[c].live
  OBVIOUS
<1>6. live \in Seq(Claim)
  <2>1. live \in [1 .. Len(co[c].live) -> Claim]
    BY <1>2, <1>4
  <2> QED
    BY <1>2, <2>1, SeqDef
<1>7. done \in SUBSET Stages
  BY <1>2 DEF Mine
<1> HIDE DEF live, done
<1>8. /\ m \in Memory /\ m.pc = "finish" /\ m.seen = None /\ m.live = live
      /\ m.later = co[c].later /\ m.batch = co[c].batch /\ m.next = co[c].next + 1
  <2>1. "finish" \in Phases /\ co[c].next + 1 \in Nat \ {0}
    BY <1>2 DEF Phases
  <2> QED
    BY <1>1, <1>6, <1>7, <2>1 DEF Memory
<1> HIDE DEF m
<1>9. SameClaims(co[c], m) /\ AtWork(m)
  BY <1>4, <1>5, <1>8 DEF SameClaims, AtWork
<1>10. Pending(m) = Pending(co[c]) \ {co[c].next}
  <2>1. Pending(co[c]) = {i \in DOMAIN co[c].live : i >= co[c].next}
    BY DEF Pending
  <2>2. Pending(m) = {i \in DOMAIN co[c].live : i >= co[c].next + 1}
    BY <1>5, <1>8 DEF Pending
  <2>3. \A i \in DOMAIN co[c].live : i >= co[c].next + 1 <=> i >= co[c].next /\ i # co[c].next
    BY <1>2
  <2> QED
    BY <2>1, <2>2, <2>3
<1>11. ResultsFit(m)
  <2> SUFFICES ASSUME NEW i \in Pending(m)
               PROVE  m.live[i].result \in Outcomes[m.live[i].stage]
    BY <1>8 DEF ResultsFit
  <2>1. i \in Pending(co[c]) /\ i # co[c].next /\ i \in DOMAIN co[c].live
    BY <1>1, <1>10, MemoryParts
  <2>2. co[c].live[i].result \in Outcomes[co[c].live[i].stage]
    BY <1>1, <2>1 DEF MemoryHolds, ResultsFit
  <2> QED
    BY <1>4, <1>8, <2>1, <2>2
<1>12. InPlace(m) /\ run.decision # None
  BY <1>1, <1>8 DEF MemoryHolds, InPlace
<1>13. InOrder(run, ws, mishaps, m)
  BY <1>8, <1>11, <1>12 DEF InOrder
<1> QED
  BY <1>3, <1>8, <1>9, <1>10, <1>13

\* A result is recorded, or else its attempt is cancelled or lost.
LEMMA FinishKeeps ==
  ASSUME ExecutorInvariant, NEW c \in Coordinators, FinishAttempt(c) \/ Salvage(c)
  PROVE  Legal /\ ExecutorInvariant'
<1>1. /\ co[c].pc \in {"finish", "salvage"} /\ co[c].seen # None
      /\ UNCHANGED <<ws, locks, mishaps>>
  BY DEF FinishAttempt, Salvage, others
<1>2. Working(c)
  BY <1>1 DEF Working
<1>3. /\ Fine(run, ws, mishaps, co[c]) /\ co[c] \in Memory /\ MemoryHolds(run, co[c])
  BY <1>2, OwnView DEF Fine
<1>4. DOMAIN co[c].live = 1 .. Len(co[c].live) /\ Len(co[c].live) \in Nat /\ co[c].next \in Nat \ {0}
  BY <1>3, MemoryParts
<1>5. co[c].next \in Pending(co[c]) /\ co[c].next \in DOMAIN co[c].live
  BY <1>1, <1>3, <1>4 DEF MemoryHolds, InPlace, Pending
<1>6. Mine(c).stage \in Stages
  BY <1>3, <1>5, MemoryParts DEF Mine
<1>7. ASSUME NEW lost \in BOOLEAN, Keep(c, lost),
             \/ MayFinish(c) /\ \E x \in ResultOf[Mine(c).stage] : Record(c, x)
             \/ UNCHANGED run /\ mishaps # {}
      PROVE  Legal /\ ExecutorInvariant'
  <2>1. PICK m \in Memory :
           /\ Holds(c, m) /\ AtWork(m) /\ m.seen = None /\ SameClaims(co[c], m)
           /\ Pending(m) = Pending(co[c]) \ {co[c].next}
           /\ InOrder(run, ws, mishaps, m)
    BY <1>1, <1>5, <1>7, KeepMemory
  <2> QED
    BY <1>1, <1>2, <1>5, <1>7, <2>1, DoneWithOne
<1>8. CASE FinishAttempt(c) /\ MayFinish(c)
  <2>1. /\ co[c].pc = "finish" /\ Keep(c, FALSE)
        /\ Record(c, Recorded(Mine(c).stage, Mine(c).result))
    BY <1>8 DEF FinishAttempt
  <2>2. Mine(c).result \in Outcomes[Mine(c).stage]
    BY <1>3, <1>5, <2>1 DEF MemoryHolds, ResultsFit, Mine
  <2>3. Recorded(Mine(c).stage, Mine(c).result) \in ResultOf[Mine(c).stage]
    BY <1>6, <2>2, OutcomeAssumption
  <2> QED
    BY <1>7, <1>8, <2>1, <2>3
<1>9. CASE FinishAttempt(c) /\ ~MayFinish(c)
  <2> DEFINE m == [co[c] EXCEPT !.pc = "salvage", !.seen = None]
  <2>1. co[c].pc = "finish" /\ Holds(c, m) /\ UNCHANGED run
    BY <1>9 DEF FinishAttempt
  <2>2. /\ m \in Memory /\ m.pc = "salvage" /\ m.seen = None /\ m.live = co[c].live
        /\ m.later = co[c].later /\ m.batch = co[c].batch /\ m.next = co[c].next
    <3>1. "salvage" \in Phases
      BY DEF Phases
    <3> QED
      BY <1>3, <3>1 DEF Memory
  <2> HIDE DEF m
  <2>3. Pending(m) = Pending(co[c]) /\ SameClaims(co[c], m) /\ AtWork(m)
    BY <2>1, <2>2 DEF Pending, SameClaims, AtWork
  <2>4. InOrder(run, ws, mishaps, m)
    BY <1>3, <2>1, <2>2, <2>3 DEF InOrder, InPlace, ResultsFit, MemoryHolds
  <2>5. Fine(run, ws, mishaps, m)
    BY <1>3, <2>2, <2>3, <2>4, KeptFine
  <2> QED
    BY <1>1, <1>2, <2>1, <2>2, <2>3, <2>5, GoesOn
<1>10. CASE Salvage(c) /\ MayFinish(c)
  <2>1. Keep(c, TRUE) /\ Record(c, CancelledResult)
    BY <1>10 DEF Salvage
  <2>2. CancelledResult \in ResultOf[Mine(c).stage]
    BY <1>6, ClosingFits
  <2> QED
    BY <1>7, <1>10, <2>1, <2>2
<1>11. CASE Salvage(c) /\ ~MayFinish(c)
  <2>1. Keep(c, TRUE) /\ UNCHANGED run
    BY <1>11 DEF Salvage
  <2>2. mishaps # {}
    BY <1>1, <1>2, <1>5, <1>11, CalmMayFinish
  <2> QED
    BY <1>7, <2>1, <2>2
<1> QED
  BY <1>8, <1>9, <1>10, <1>11

---------------------------------------------------------------------------
(* The coordinator: launching, retrying, and being interrupted.            *)

\* All results of a batch are in.
LEMMA AllFinishedKeeps ==
  ASSUME ExecutorInvariant, NEW c \in Coordinators, AllFinished(c)
  PROVE  Legal /\ ExecutorInvariant'
<1>1. /\ co[c].pc = "finish" /\ co[c].next > Len(co[c].live)
      /\ UNCHANGED <<ws, run, locks, mishaps>>
  BY DEF AllFinished, ledger, others
<1>2. Working(c)
  BY <1>1 DEF Working
<1>3. /\ Fine(run, ws, mishaps, co[c]) /\ co[c] \in Memory /\ MemoryHolds(run, co[c])
  BY <1>2, OwnView DEF Fine
<1>4. DOMAIN co[c].live = 1 .. Len(co[c].live) /\ Len(co[c].live) \in Nat /\ co[c].next \in Nat \ {0}
  BY <1>3, MemoryParts
<1>5. Pending(co[c]) = {} /\ co[c].seen = None
  BY <1>1, <1>3, <1>4 DEF Pending, MemoryHolds, InPlace
<1>6. CASE Halt(c)
  BY <1>1, <1>2, <1>5, <1>6, HaltKeeps
<1>7. CASE Holds(c, [co[c] EXCEPT !.pc = "decide", !.next = 1])
  <2> DEFINE m == [co[c] EXCEPT !.pc = "decide", !.next = 1]
  <2>1. /\ m \in Memory /\ m.pc = "decide" /\ m.seen = None /\ m.live = co[c].live
        /\ m.later = co[c].later /\ m.batch = co[c].batch
    <3>1. "decide" \in Phases /\ 1 \in Nat \ {0}
      BY DEF Phases
    <3> QED
      BY <1>3, <1>5, <3>1 DEF Memory
  <2>2. Holds(c, m)
    BY <1>7
  <2> HIDE DEF m
  <2>3. Pending(m) = Pending(co[c]) /\ SameClaims(co[c], m) /\ AtWork(m)
    BY <1>5, <2>1 DEF Pending, SameClaims, AtWork
  <2>4. InOrder(run, ws, mishaps, m)
    BY <1>1, <1>3, <2>1 DEF InOrder, InPlace, ResultsFit, MemoryHolds
  <2>5. Fine(run, ws, mishaps, m)
    BY <1>3, <2>1, <2>3, <2>4, KeptFine
  <2> QED
    BY <1>1, <1>2, <2>1, <2>2, <2>3, <2>5, GoesOn
<1> QED
  BY <1>6, <1>7 DEF AllFinished

\* A batch has settled: what was put off comes next, or the loop goes on.
LEMMA SettleKeeps ==
  ASSUME ExecutorInvariant, NEW c \in Coordinators, Settle(c)
  PROVE  Legal /\ ExecutorInvariant'
<1>1. co[c].pc = "decide" /\ UNCHANGED <<ws, run, locks, mishaps>>
  BY DEF Settle, ledger, others
<1>2. Working(c)
  BY <1>1 DEF Working
<1>3. /\ Fine(run, ws, mishaps, co[c]) /\ co[c] \in Memory /\ MemoryHolds(run, co[c])
      /\ run \in Run
  BY <1>2, OwnView DEF Fine
<1>4. /\ Pending(co[c]) = {} /\ co[c].seen = None /\ co[c].batch = {} /\ run.decision # None
  BY <1>1, <1>3 DEF Pending, MemoryHolds, InPlace
<1>5. <<>> \in Seq(Claim)
  OBVIOUS
<1>6. CASE co[c].later # <<>>
  <2> DEFINE m == [co[c] EXCEPT !.live = co[c].later, !.later = <<>>]
  <2>1. /\ m \in Memory /\ m.pc = "decide" /\ m.seen = None /\ m.live = co[c].later
        /\ m.later = <<>> /\ m.batch = {}
    BY <1>1, <1>3, <1>4, <1>5 DEF Memory
  <2>2. Holds(c, m)
    BY <1>6 DEF Settle
  <2> HIDE DEF m
  <2>3. DOMAIN m.later = {} /\ Pending(m) = {} /\ AtWork(m)
    BY <2>1 DEF Pending, AtWork
  <2>4. Apart(m)
    BY <1>3, <2>1, <2>3 DEF MemoryHolds, Apart
  <2>5. \A i \in DOMAIN m.live : IsLatest(run, m.live[i])
    BY <1>3, <2>1 DEF MemoryHolds
  <2>6. MemoryHolds(run, m)
    BY <1>4, <2>1, <2>3, <2>4, <2>5 DEF MemoryHolds, InPlace, ResultsFit
  <2>7. Fine(run, ws, mishaps, m)
    BY <1>3, <1>4, <2>1, <2>3, <2>6 DEF Fine, Undisturbed, AttendedBy
  <2> QED
    BY <1>1, <1>2, <2>1, <2>2, <2>3, <2>7, GoesOn
<1>7. CASE co[c].later = <<>>
  <2> DEFINE m == [co[c] EXCEPT !.pc = "skip", !.live = <<>>, !.resolved = Resolved(run)]
  <2>1. /\ m \in Memory /\ m.pc = "skip" /\ m.seen = None /\ m.live = <<>>
        /\ m.later = <<>> /\ m.batch = {}
    <3>1. "skip" \in Phases
      BY DEF Phases
    <3>2. Resolved(run) \in SUBSET Nat
      BY <1>3, HistoryTyped DEF Resolved
    <3> QED
      BY <1>3, <1>4, <1>5, <1>7, <3>1, <3>2 DEF Memory
  <2>2. Holds(c, m)
    BY <1>7 DEF Settle
  <2> HIDE DEF m
  <2>3. InOrder(run, ws, mishaps, m) /\ AtWork(m)
    BY <1>4, <2>1 DEF InOrder, InPlace, ResultsFit, Pending, AtWork
  <2>4. Fine(run, ws, mishaps, m)
    BY <1>3, <1>4, <2>1, <2>3, DroppedFine
  <2> QED
    BY <1>1, <1>2, <2>1, <2>2, <2>3, <2>4, GoesOn
<1> QED
  BY <1>6, <1>7

\* A coordinator that has claimed one more attempt.
LEMMA ClaimFine ==
  ASSUME NEW r \in Run, NEW w, NEW g, NEW m, Fine(r, w, g, m), ws \in Contents,
         NEW s \in Stages, NEW d \in Dispatches, NEW a \in Nat \ {0},
         NEW r2, r2 = Claimed(r, s, d, a), Unpaused(r), r.decision # None,
         NEW m2 \in Memory, m2.pc \in {"launch", "wait"}, m2.seen = None,
         Apart(m2), InPlace(m2),
         NEW n \in DOMAIN m2.live,
         m2.live[n].stage = s, m2.live[n].dispatch = d, m2.live[n].attempt = a,
         \A i \in DOMAIN m2.live : i # n => i \in Pending(m) /\ m2.live[i] = m.live[i],
         \A i \in Pending(m) : i \in DOMAIN m2.live /\ i # n,
         \A j \in DOMAIN m2.later : IsLatest(r, m2.later[j])
  PROVE  Fine(r2, w, g, m2)
<1>0. MemoryHolds(r, m) /\ m \in Memory
  BY DEF Fine, MemoryHolds
<1>1. /\ \A h : h.stage # s /\ IsLatest(r, h) => IsLatest(r2, h)
      /\ \A h : Runs(r, h) => Runs(r2, h)
      /\ \A h : h.stage = s /\ h.dispatch = d /\ h.attempt = a => IsLatest(r2, h) /\ Runs(r2, h)
      /\ \A k \in DOMAIN r2.history : r2.history[k].status = "running" =>
            \/ k \in DOMAIN r.history /\ r.history[k].status = "running"
            \/ k \in Exact(r2, s, d, a)
      /\ \A t, e, b : Exact(r, t, e, b) \subseteq Exact(r2, t, e, b)
      /\ r2.decision = r.decision /\ r2.status = r.status /\ r2.paused = r.paused
  BY ClaimedView
<1>2. Pending(m2) = DOMAIN m2.live /\ ResultsFit(m2)
  BY DEF Pending, ResultsFit
<1>3. Pending(m) \subseteq DOMAIN m.live
  BY <1>0, MemoryParts
<1>4. ASSUME NEW i \in DOMAIN m2.live
      PROVE  IsLatest(r2, m2.live[i]) /\ Runs(r2, m2.live[i])
  <2>1. CASE i = n
    BY <1>1, <2>1
  <2>2. CASE i # n
    <3>1. IsLatest(r, m2.live[i]) /\ Runs(r, m2.live[i])
      BY <1>0, <1>3, <2>2 DEF MemoryHolds
    <3>2. m2.live[i].stage # s
      BY <2>2 DEF Apart
    <3> QED
      BY <1>1, <3>1, <3>2
  <2> QED
    BY <2>1, <2>2
<1>5. ASSUME NEW j \in DOMAIN m2.later
      PROVE  IsLatest(r2, m2.later[j])
  <2>1. m2.later[j].stage # s
    BY DEF Apart
  <2> QED
    BY <1>1, <2>1
<1>6. MemoryHolds(r2, m2)
  BY <1>1, <1>2, <1>4, <1>5 DEF MemoryHolds
<1>7. ASSUME g = {}
      PROVE  Undisturbed(r2, w, m2) /\ AttendedBy(r2, m2)
  <2>1. AttendedBy(r, m)
    BY <1>7 DEF Fine
  <2>2. Undisturbed(r2, w, m2)
    BY <1>1 DEF Undisturbed, Unpaused
  <2>3. ASSUME NEW k \in DOMAIN r2.history, r2.history[k].status = "running"
        PROVE  \E i \in Pending(m2) :
                  k \in Exact(r2, m2.live[i].stage, m2.live[i].dispatch, m2.live[i].attempt)
    <3>1. CASE k \in Exact(r2, s, d, a)
      BY <1>2, <3>1
    <3>2. CASE k \in DOMAIN r.history /\ r.history[k].status = "running"
      <4>1. PICK i \in Pending(m) :
               k \in Exact(r, m.live[i].stage, m.live[i].dispatch, m.live[i].attempt)
        BY <2>1, <3>2 DEF AttendedBy
      <4>2. i \in Pending(m2) /\ m2.live[i] = m.live[i]
        BY <1>2
      <4> QED
        BY <1>1, <4>1, <4>2
    <3> QED
      BY <1>1, <2>3, <3>1, <3>2
  <2> QED
    BY <2>2, <2>3 DEF AttendedBy
<1> QED
  BY <1>6, <1>7 DEF Fine

\* The next stage of a batch is launched, under an id nobody used.
LEMMA LaunchKeeps ==
  ASSUME ExecutorInvariant, NEW c \in Coordinators, Launch(c)
  PROVE  Legal /\ ExecutorInvariant'
<1>1. co[c].pc = "launch" /\ UNCHANGED <<ws, locks, mishaps>>
  BY DEF Launch, others
<1>2. Working(c)
  BY <1>1 DEF Working
<1>3. /\ Fine(run, ws, mishaps, co[c]) /\ co[c] \in Memory /\ MemoryHolds(run, co[c])
      /\ run \in Run /\ Fits(run) /\ ws \in Contents
  BY <1>2, OwnView DEF Fine
<1>4. /\ co[c].seen = None /\ co[c].later = <<>> /\ run.decision # None
      /\ Pending(co[c]) = DOMAIN co[c].live /\ Apart(co[c])
  BY <1>1, <1>3 DEF Pending, MemoryHolds, InPlace
<1> DEFINE d == CHOOSE d \in Unused : TRUE
<1> DEFINE pc(s) == IF co[c].batch = {s} THEN "wait" ELSE "launch"
<1> DEFINE h(s) == [stage |-> s, dispatch |-> d, attempt |-> 1, result |-> "none"]
<1> DEFINE m(s) == [co[c] EXCEPT !.batch = @ \ {s}, !.pc = pc(s), !.live = Append(@, h(s))]
<1>5. PICK s \in Stages :
         /\ IsFirst(s, co[c].batch)
         /\ IF ClaimAllowed(run, s)
            THEN Room /\ Unused # {} /\ run' = Claimed(run, s, d, 1) /\ Holds(c, m(s))
            ELSE Unwind(c, AllCancelled(c), FALSE) /\ UNCHANGED run
  BY DEF Launch
<1>6. s \in co[c].batch
  BY <1>5 DEF IsFirst
<1>7. CASE ~ClaimAllowed(run, s)
  BY <1>1, <1>5, <1>7, CancelledClosings, UnwindKeeps
<1>8. CASE ClaimAllowed(run, s)
  <2>1. Room /\ Unused # {} /\ run' = Claimed(run, s, d, 1) /\ Holds(c, m(s))
    BY <1>5, <1>8
  <2>2. d \in Unused /\ d \in Dispatches
    BY <2>1 DEF Unused
  <2>3. /\ h(s).stage = s /\ h(s).dispatch = d /\ h(s).attempt = 1 /\ h(s) \in Claim
    BY <2>2 DEF Claim
  <2> HIDE DEF d
  <2>4. ClaimStage(s)
    <3>1. <<d, 1>> \in NextAttempts(s)
      BY <2>2 DEF NextAttempts
    <3>2. <<d, 1>>[1] = d /\ <<d, 1>>[2] = 1
      OBVIOUS
    <3>3. \E x \in NextAttempts(s) : run' = Claimed(run, s, x[1], x[2])
      BY <2>1, <3>1, <3>2
    <3> QED
      BY <1>1, <1>4, <1>8, <2>1, <3>3 DEF ClaimStage, Room
  <2>5. Legal
    BY <2>4 DEF Legal, Next
  <2> DEFINE n == Len(co[c].live) + 1
  <2> DEFINE live == Append(co[c].live, h(s))
  <2>6. /\ live \in Seq(Claim) /\ Len(co[c].live) \in Nat /\ n \in Nat
        /\ DOMAIN co[c].live = 1 .. Len(co[c].live)
        /\ DOMAIN live = DOMAIN co[c].live \cup {n} /\ n \notin DOMAIN co[c].live
        /\ live[n] = h(s)
        /\ \A i \in DOMAIN co[c].live : live[i] = co[c].live[i]
    <3>1. co[c].live \in Seq(Claim) /\ DOMAIN co[c].live = 1 .. Len(co[c].live)
          /\ Len(co[c].live) \in Nat
      BY <1>3, MemoryParts
    <3> HIDE DEF h
    <3> QED
      BY <2>3, <3>1
  <2>7. pc(s) \in Phases /\ pc(s) \in {"launch", "wait"} /\ co[c].batch \ {s} \in SUBSET Stages
    BY <1>3, MemoryParts DEF Phases
  <2> HIDE DEF h, n, live
  <2>8. /\ m(s) \in Memory /\ m(s).pc = pc(s) /\ m(s).seen = None /\ m(s).live = live
        /\ m(s).later = <<>> /\ m(s).batch = co[c].batch \ {s}
    <3>1. m(s) = [co[c] EXCEPT !.batch = @ \ {s}, !.pc = pc(s), !.live = live]
      BY DEF live
    <3> HIDE DEF m, pc
    <3> QED
      BY <1>3, <1>4, <2>6, <2>7, <3>1 DEF Memory
  <2>9. m(s).batch # {} => m(s).pc = "launch"
    BY <2>8
  <2> DEFINE m2 == m(s)
  <2>10. /\ m2 \in Memory /\ m2.pc \in {"launch", "wait"} /\ m2.seen = None /\ m2.live = live
         /\ m2.later = <<>> /\ m2.batch = co[c].batch \ {s} /\ Holds(c, m2)
         /\ (m2.batch # {} => m2.pc = "launch")
    BY <2>1, <2>7, <2>8, <2>9
  <2> HIDE DEF m, pc, m2
  <2>11. \A i \in DOMAIN co[c].live : co[c].live[i].stage # s
    BY <1>4, <1>6 DEF Apart
  <2>12. Apart(m2)
    <3>1. DOMAIN m2.later = {}
      BY <2>10
    <3>2. \A i, j \in DOMAIN m2.live : m2.live[i].stage = m2.live[j].stage => i = j
      BY <1>4, <2>3, <2>6, <2>10, <2>11 DEF Apart
    <3>3. \A i \in DOMAIN m2.live : m2.live[i].stage \notin m2.batch
      BY <1>4, <2>3, <2>6, <2>10 DEF Apart
    <3> QED
      BY <3>1, <3>2, <3>3 DEF Apart
  <2>13. InPlace(m2) /\ AtWork(m2)
    BY <2>10 DEF InPlace, AtWork
  <2>14. Unpaused(run)
    BY <1>8 DEF ClaimAllowed
  <2>15. DOMAIN m2.later = {}
    BY <2>10
  <2>16. n \in DOMAIN m2.live /\ m2.live[n] = h(s)
    BY <2>6, <2>10
  <2>17. /\ \A i \in DOMAIN m2.live : i # n => i \in Pending(co[c]) /\ m2.live[i] = co[c].live[i]
         /\ \A i \in Pending(co[c]) : i \in DOMAIN m2.live /\ i # n
    BY <1>4, <2>6, <2>10
  <2>18. Fine(run', ws, mishaps, m2)
    BY <1>3, <1>4, <2>1, <2>2, <2>3, <2>10, <2>12, <2>13, <2>14, <2>15, <2>16, <2>17, ClaimFine
  <2>19. Fine(run', ws', mishaps', m2) /\ (mishaps' = {} => mishaps = {})
    BY <1>1, <2>18
  <2> QED
    BY <1>1, <1>2, <2>5, <2>10, <2>13, <2>19, StepByOne
<1> QED
  BY <1>7, <1>8

\* The first failure of a batch is retried, before what else failed.
LEMMA RetryKeeps ==
  ASSUME ExecutorInvariant, NEW c \in Coordinators, Retry(c)
  PROVE  Legal /\ ExecutorInvariant'
<1>1. co[c].pc = "decide" /\ UNCHANGED <<ws, locks, mishaps>>
  BY DEF Retry, others
<1>2. Working(c)
  BY <1>1 DEF Working
<1>3. /\ Fine(run, ws, mishaps, co[c]) /\ co[c] \in Memory /\ MemoryHolds(run, co[c])
      /\ run \in Run /\ Fits(run) /\ ws \in Contents
  BY <1>2, OwnView DEF Fine
<1>4. /\ co[c].seen = None /\ run.decision # None /\ co[c].batch = {}
      /\ Pending(co[c]) = {} /\ Apart(co[c])
  BY <1>1, <1>3 DEF Pending, MemoryHolds, InPlace
<1>5. /\ co[c].live \in Seq(Claim) /\ DOMAIN co[c].live = 1 .. Len(co[c].live)
      /\ Len(co[c].live) \in Nat
      /\ co[c].later \in Seq(Claim) /\ DOMAIN co[c].later = 1 .. Len(co[c].later)
      /\ Len(co[c].later) \in Nat
      /\ \A j \in DOMAIN co[c].live : co[c].live[j] \in Claim
  BY <1>3, MemoryParts
<1> DEFINE old(i) == co[c].live[i]
<1> DEFINE h(i) == [old(i) EXCEPT !.attempt = @ + 1, !.result = "none"]
<1> DEFINE later(i) == SubSeq(co[c].live, i + 1, Len(co[c].live)) \o co[c].later
<1> DEFINE m(i) == [co[c] EXCEPT !.pc = "wait", !.live = <<h(i)>>, !.later = later(i)]
<1>6. PICK i \in DOMAIN co[c].live :
         \/ /\ ClaimAllowed(run, old(i).stage)
            /\ Room
            /\ run' = Claimed(run, old(i).stage, old(i).dispatch, old(i).attempt + 1)
            /\ Holds(c, [co[c] EXCEPT !.pc = "wait", !.live = <<h(i)>>,
                                      !.later = SubSeq(co[c].live, i + 1, Len(co[c].live)) \o @])
         \/ Halt(c) /\ UNCHANGED run
  BY DEF Retry, Failing
<1>7. CASE Halt(c) /\ UNCHANGED run
  BY <1>1, <1>2, <1>4, <1>7, HaltKeeps
<1>8. CASE /\ ClaimAllowed(run, old(i).stage)
           /\ Room
           /\ run' = Claimed(run, old(i).stage, old(i).dispatch, old(i).attempt + 1)
           /\ Holds(c, m(i))
  <2> DEFINE s == old(i).stage
  <2> DEFINE d == old(i).dispatch
  <2> DEFINE a == old(i).attempt + 1
  <2>1. old(i) \in Claim /\ old(i).attempt \in Nat \ {0}
    BY <1>5 DEF Claim
  <2>2. s \in Stages /\ d \in Dispatches /\ a \in Nat \ {0}
    BY <2>1 DEF Claim
  <2>3. h(i) \in Claim /\ h(i).stage = s /\ h(i).dispatch = d /\ h(i).attempt = a
    BY <2>1, <2>2 DEF Claim
  <2>4. ClaimStage(s)
    <3>1. IsLatest(run, old(i))
      BY <1>3 DEF MemoryHolds
    <3>2. PICK k \in DOMAIN run.history :
             /\ run.history[k].stage = s
             /\ run.history[k].dispatch = d
             /\ run.history[k].attempt = old(i).attempt
             /\ \A j \in DOMAIN run.history : run.history[j].stage = s => j <= k
      BY <3>1 DEF IsLatest
    <3>3. k \in Of(run, s) /\ \A j \in Of(run, s) : j <= k
      BY <3>2 DEF Of
    <3>4. <<d, a>> \in NextAttempts(s)
      BY <3>2, <3>3 DEF NextAttempts
    <3>5. <<d, a>>[1] = d /\ <<d, a>>[2] = a
      OBVIOUS
    <3>6. \E x \in NextAttempts(s) : run' = Claimed(run, s, x[1], x[2])
      BY <1>8, <3>4, <3>5
    <3> QED
      BY <1>1, <1>4, <1>8, <3>6 DEF ClaimStage, Room
  <2>5. Legal
    BY <2>2, <2>4 DEF Legal, Next
  <2> DEFINE rest == SubSeq(co[c].live, i + 1, Len(co[c].live))
  <2> DEFINE n == Len(co[c].live) - i
  <2>6. /\ n \in Nat /\ rest \in Seq(Claim) /\ Len(rest) = n
        /\ \A j \in 1 .. n : rest[j] = co[c].live[i + j]
    <3>1. i \in Int /\ i + 1 \in Int /\ Len(co[c].live) \in Int /\ n \in Nat
      BY <1>5
    <3>2. \A j \in i + 1 .. Len(co[c].live) : co[c].live[j] \in Claim
      BY <1>5
    <3>3. /\ rest \in Seq(Claim)
          /\ Len(rest) = IF i + 1 <= Len(co[c].live) THEN Len(co[c].live) - (i + 1) + 1 ELSE 0
          /\ \A j \in 1 .. Len(co[c].live) - (i + 1) + 1 : rest[j] = co[c].live[i + 1 + j - 1]
      BY <3>1, <3>2, SubSeqProperties
    <3>4. Len(rest) = n /\ Len(co[c].live) - (i + 1) + 1 = n
      BY <1>5, <3>1, <3>3
    <3>5. ASSUME NEW j \in 1 .. n
          PROVE  rest[j] = co[c].live[i + j]
      <4>1. i + 1 + j - 1 = i + j
        BY <3>1
      <4> HIDE DEF rest, n
      <4> QED
        BY <3>3, <3>4, <4>1
    <3> QED
      BY <3>1, <3>3, <3>4, <3>5
  <2> HIDE DEF rest, n
  <2>7. /\ later(i) \in Seq(Claim)
        /\ DOMAIN later(i) = 1 .. n + Len(co[c].later)
        /\ \A j \in DOMAIN later(i) :
              \/ j \in 1 .. n /\ later(i)[j] = co[c].live[i + j]
              \/ /\ j \notin 1 .. n /\ j - n \in DOMAIN co[c].later
                 /\ later(i)[j] = co[c].later[j - n]
    <3>1. later(i) = rest \o co[c].later
      BY DEF rest
    <3>2. /\ rest \o co[c].later \in Seq(Claim)
          /\ Len(rest \o co[c].later) = n + Len(co[c].later)
          /\ \A j \in 1 .. n + Len(co[c].later) : (rest \o co[c].later)[j] =
                 IF j <= n THEN rest[j] ELSE co[c].later[j - n]
      BY <1>5, <2>6, ConcatProperties
    <3> HIDE DEF later
    <3>3. later(i) \in Seq(Claim) /\ DOMAIN later(i) = 1 .. n + Len(co[c].later)
      BY <3>1, <3>2
    <3>4. ASSUME NEW j \in 1 .. n + Len(co[c].later)
          PROVE  \/ j \in 1 .. n /\ later(i)[j] = co[c].live[i + j]
                 \/ /\ j \notin 1 .. n /\ j - n \in DOMAIN co[c].later
                    /\ later(i)[j] = co[c].later[j - n]
      <4>1. CASE j <= n
        BY <2>6, <3>1, <3>2, <4>1
      <4>2. CASE ~(j <= n)
        BY <1>5, <2>6, <3>1, <3>2, <4>2
      <4> QED
        BY <4>1, <4>2
    <3> QED
      BY <3>3, <3>4
  <2> HIDE DEF later, h
  <2>8. <<h(i)>> \in Seq(Claim) /\ DOMAIN <<h(i)>> = {1} /\ <<h(i)>>[1] = h(i)
    BY <2>3
  <2> DEFINE live == <<h(i)>>
  <2> HIDE DEF live
  <2>9. /\ m(i) \in Memory /\ m(i).pc = "wait" /\ m(i).live = live /\ m(i).later = later(i)
        /\ m(i).seen = None /\ m(i).batch = {}
    <3>1. "wait" \in Phases
      BY DEF Phases
    <3>2. m(i) = [co[c] EXCEPT !.pc = "wait", !.live = live, !.later = later(i)]
      BY DEF live
    <3>3. live \in Seq(Claim)
      BY <2>8 DEF live
    <3> HIDE DEF m
    <3> QED
      BY <1>3, <1>4, <2>7, <3>1, <3>2, <3>3 DEF Memory
  <2> DEFINE m2 == m(i)
  <2>10. /\ m2 \in Memory /\ m2.pc = "wait" /\ m2.live = live /\ m2.later = later(i)
         /\ m2.seen = None /\ m2.batch = {} /\ Holds(c, m2)
    BY <1>8, <2>9
  <2> HIDE DEF m, m2
  <2>11. DOMAIN m2.live = {1} /\ m2.live[1] = h(i)
    BY <2>8, <2>10 DEF live
  <2>12. /\ \A j, k \in DOMAIN co[c].live : co[c].live[j].stage = co[c].live[k].stage => j = k
         /\ \A j, k \in DOMAIN co[c].later : co[c].later[j].stage = co[c].later[k].stage => j = k
         /\ \A j \in DOMAIN co[c].live, k \in DOMAIN co[c].later :
               co[c].live[j].stage # co[c].later[k].stage
    BY <1>4 DEF Apart
  <2>13. \A j \in 1 .. n : i + j \in DOMAIN co[c].live /\ i + j # i
    BY <1>5, <2>6 DEF n
  <2>14. \A j \in DOMAIN later(i) : later(i)[j].stage # s
    <3> SUFFICES ASSUME NEW j \in DOMAIN later(i) PROVE later(i)[j].stage # s
      OBVIOUS
    <3>1. CASE j \in 1 .. n /\ later(i)[j] = co[c].live[i + j]
      BY <2>12, <2>13, <3>1
    <3>2. CASE j - n \in DOMAIN co[c].later /\ later(i)[j] = co[c].later[j - n]
      BY <2>12, <3>2
    <3> QED
      BY <2>7, <3>1, <3>2
  <2>15. ASSUME NEW j \in DOMAIN later(i), NEW k \in DOMAIN later(i),
                later(i)[j].stage = later(i)[k].stage
         PROVE  j = k
    <3>1. j \in Int /\ k \in Int /\ n \in Int /\ i \in Int
      BY <1>5, <2>6, <2>7
    <3>2. CASE j \in 1 .. n /\ k \in 1 .. n
      <4>1. later(i)[j] = co[c].live[i + j] /\ later(i)[k] = co[c].live[i + k]
        BY <2>7, <3>2
      <4>2. i + j = i + k
        BY <2>12, <2>13, <2>15, <3>2, <4>1
      <4> QED
        BY <3>1, <4>2
    <3>3. CASE j \in 1 .. n /\ k \notin 1 .. n
      <4>1. later(i)[j] = co[c].live[i + j] /\ i + j \in DOMAIN co[c].live
        BY <2>7, <2>13, <3>3
      <4>2. k - n \in DOMAIN co[c].later /\ later(i)[k] = co[c].later[k - n]
        BY <2>7, <3>3
      <4> QED
        BY <2>12, <2>15, <4>1, <4>2
    <3>4. CASE j \notin 1 .. n /\ k \in 1 .. n
      <4>1. later(i)[k] = co[c].live[i + k] /\ i + k \in DOMAIN co[c].live
        BY <2>7, <2>13, <3>4
      <4>2. j - n \in DOMAIN co[c].later /\ later(i)[j] = co[c].later[j - n]
        BY <2>7, <3>4
      <4> QED
        BY <2>12, <2>15, <4>1, <4>2
    <3>5. CASE j \notin 1 .. n /\ k \notin 1 .. n
      <4>1. /\ j - n \in DOMAIN co[c].later /\ later(i)[j] = co[c].later[j - n]
            /\ k - n \in DOMAIN co[c].later /\ later(i)[k] = co[c].later[k - n]
        BY <2>7, <3>5
      <4>2. j - n = k - n
        BY <2>12, <2>15, <4>1
      <4> QED
        BY <3>1, <4>2
    <3> QED
      BY <3>2, <3>3, <3>4, <3>5
  <2>16. Apart(m2)
    BY <2>3, <2>10, <2>11, <2>14, <2>15 DEF Apart
  <2>17. InPlace(m2) /\ AtWork(m2)
    BY <2>10 DEF InPlace, AtWork
  <2>18. ASSUME NEW j \in DOMAIN m2.later
         PROVE  IsLatest(run, m2.later[j])
    <3>1. CASE j \in 1 .. n /\ m2.later[j] = co[c].live[i + j]
      BY <1>3, <2>13, <3>1 DEF MemoryHolds
    <3>2. CASE j - n \in DOMAIN co[c].later /\ m2.later[j] = co[c].later[j - n]
      BY <1>3, <3>2 DEF MemoryHolds
    <3> QED
      BY <2>7, <2>10, <3>1, <3>2
  <2>19. Unpaused(run)
    BY <1>8 DEF ClaimAllowed
  <2>20. run' = Claimed(run, s, d, a)
    BY <1>8
  <2> HIDE DEF s, d, a
  <2>21. /\ 1 \in DOMAIN m2.live
         /\ m2.live[1].stage = s /\ m2.live[1].dispatch = d /\ m2.live[1].attempt = a
         /\ \A j \in DOMAIN m2.live : j # 1 => j \in Pending(co[c]) /\ m2.live[j] = co[c].live[j]
         /\ \A j \in Pending(co[c]) : j \in DOMAIN m2.live /\ j # 1
         /\ m2.pc \in {"launch", "wait"}
    BY <1>4, <2>3, <2>10, <2>11
  <2>22. Fine(run', ws, mishaps, m2)
    BY <1>3, <1>4, <2>2, <2>10, <2>16, <2>17, <2>18, <2>19, <2>20, <2>21, ClaimFine
  <2>23. Fine(run', ws', mishaps', m2) /\ (mishaps' = {} => mishaps = {})
    BY <1>1, <2>22
  <2> QED
    BY <1>1, <1>2, <2>5, <2>10, <2>17, <2>23, StepByOne
<1> QED
  BY <1>6, <1>7, <1>8

\* An interruption closes what runs, and leaves otherwise.
LEMMA InterruptKeeps ==
  ASSUME ExecutorInvariant, NEW c \in Coordinators, Interrupt(c)
  PROVE  Legal /\ ExecutorInvariant'
<1>1. ASSUME co[c].pc \in {"locking", "bind", "skip", "decide", "attest", "halt"}, Leave(c),
             UNCHANGED <<ws, run, mishaps>>
      PROVE  Legal /\ ExecutorInvariant'
  <2>1. CASE ~Working(c)
    BY <1>1, <2>1, RefusedKeeps
  <2>2. CASE Working(c)
    <3>1. Pending(co[c]) = {}
      BY <1>1, <2>2 DEF Working, Pending
    <3>2. Legal
      BY <1>1 DEF Legal
    <3> QED
      BY <1>1, <2>2, <3>1, <3>2, LeaveQuietly
  <2> QED
    BY <2>1, <2>2
<1>2. ASSUME co[c].pc = "launch", Unwind(c, AllCancelled(c), TRUE),
             UNCHANGED <<ws, run, locks, mishaps>>
      PROVE  Legal /\ ExecutorInvariant'
  BY <1>2, CancelledClosings, UnwindKeeps
<1>3. CASE WaitRaises(c, TRUE)
  BY <1>3, WaitRaisesKeeps
<1>4. ASSUME co[c].pc \in {"finish", "salvage"},
             Holds(c, [co[c] EXCEPT !.pc = "unwind", !.seen = None, !.raises = TRUE,
                                    !.later = <<>>, !.live = Returned(c, AllCancelled(c))]),
             UNCHANGED <<ws, run, locks, mishaps>>
      PROVE  Legal /\ ExecutorInvariant'
  <2> DEFINE m == [co[c] EXCEPT !.pc = "unwind", !.seen = None, !.raises = TRUE,
                                !.later = <<>>, !.live = Returned(c, AllCancelled(c))]
  <2>1. Working(c) /\ Holds(c, m)
    BY <1>4 DEF Working
  <2>2. Fine(run, ws, mishaps, co[c]) /\ co[c] \in Memory /\ MemoryHolds(run, co[c])
    BY <2>1, OwnView DEF Fine
  <2>3. co[c].batch = {}
    BY <1>4, <2>2 DEF MemoryHolds, InPlace
  <2>4. Returned(c, AllCancelled(c)) \in Seq(Claim)
    BY <2>2, ReturnedClaims DEF Back, AllCancelled
  <2>5. /\ m \in Memory /\ m.pc = "unwind" /\ m.seen = None /\ m.batch = {} /\ m.later = <<>>
        /\ m.live = Returned(c, AllCancelled(c)) /\ m.next = co[c].next
    <3>1. "unwind" \in Phases /\ <<>> \in Seq(Claim)
      BY DEF Phases
    <3> QED
      BY <2>2, <2>3, <2>4, <3>1 DEF Memory
  <2> HIDE DEF m
  <2>6. m.next = IF co[c].pc \in {"launch", "wait"} THEN 1 ELSE co[c].next
    BY <1>4, <2>5
  <2>7. Fine(run, ws, mishaps, m) /\ AtWork(m)
    BY <1>4, <2>2, <2>5, <2>6, CancelledClosings, UnwindFine
  <2> QED
    BY <1>4, <2>1, <2>5, <2>7, GoesOn
<1> QED
  BY <1>1, <1>2, <1>3, <1>4 DEF Interrupt, ledger, others

\* A claim that nobody noted is one more running attempt, of another stage than
\* those in hand; the invocation is disturbed, so nothing else is owed.
LEMMA InterruptClaimKeeps ==
  ASSUME ExecutorInvariant, NEW c \in Coordinators, InterruptClaim(c)
  PROVE  Legal /\ ExecutorInvariant'
<1> DEFINE d == CHOOSE d \in Unused : TRUE
<1>1. /\ co[c].pc = "launch" /\ Unwind(c, AllCancelled(c), TRUE)
      /\ UNCHANGED <<ws, locks>> /\ Mishap("interrupted")
  BY DEF InterruptClaim
<1>2. PICK s \in Stages :
         /\ IsFirst(s, co[c].batch) /\ ClaimAllowed(run, s) /\ Room /\ Unused # {}
         /\ run' = Claimed(run, s, d, 1)
  BY DEF InterruptClaim
<1>3. Working(c)
  BY <1>1 DEF Working
<1>4. /\ co[c] \in Memory /\ MemoryHolds(run, co[c])
      /\ run \in Run /\ Fits(run) /\ ws \in Contents
  BY <1>3, OwnView DEF Fine
<1>5. d \in Unused /\ d \in Dispatches
  BY <1>2 DEF Unused
<1> HIDE DEF d
<1>6. Legal
  <2>1. <<d, 1>> \in NextAttempts(s)
    BY <1>5 DEF NextAttempts
  <2>2. <<d, 1>>[1] = d /\ <<d, 1>>[2] = 1
    OBVIOUS
  <2>3. \E x \in NextAttempts(s) : run' = Claimed(run, s, x[1], x[2])
    BY <1>2, <2>1, <2>2
  <2>4. run.decision # None
    BY <1>1, <1>4 DEF MemoryHolds
  <2>5. ClaimStage(s)
    BY <1>1, <1>2, <2>3, <2>4 DEF ClaimStage, Room
  <2> QED
    BY <2>5 DEF Legal, Next
<1>7. MemoryHolds(run', co[c])
  <2>1. /\ \A h : h.stage # s /\ IsLatest(run, h) => IsLatest(run', h)
        /\ \A h : Runs(run, h) => Runs(run', h)
        /\ run'.decision = run.decision
    BY <1>2, <1>4, <1>5, ClaimedView
  <2>2. \A i \in DOMAIN co[c].live : co[c].live[i].stage # s
    BY <1>2, <1>4 DEF IsFirst, MemoryHolds, Apart
  <2>3. DOMAIN co[c].later = {}
    BY <1>1, <1>4 DEF MemoryHolds, InPlace
  <2> QED
    BY <1>4, <2>1, <2>2, <2>3 DEF MemoryHolds
<1>8. mishaps' # {}
  BY <1>1, MishapsStay
<1>9. Fine(run', ws, mishaps', co[c])
  BY <1>7, <1>8 DEF Fine
<1> QED
  BY <1>1, <1>6, <1>8, <1>9, CancelledClosings, UnwindAfter

\* A second interruption gives up one worker, or all that are left.
LEMMA InterruptAgainKeeps ==
  ASSUME ExecutorInvariant, NEW c \in Coordinators, InterruptAgain(c)
  PROVE  Legal /\ ExecutorInvariant'
<1>1. co[c].pc = "unwind" /\ UNCHANGED <<ws, run>> /\ mishaps' # {}
  BY MishapsStay DEF InterruptAgain, ledger
<1>2. Working(c) /\ Legal
  BY <1>1 DEF Working, Legal
<1>3. CASE Leave(c)
  BY <1>1, <1>2, <1>3, LeaveAtWork
<1>4. CASE /\ co[c].next <= Len(co[c].live)
           /\ Holds(c, [co[c] EXCEPT !.next = @ + 1, !.seen = None])
           /\ UNCHANGED locks
  <2> DEFINE m == [co[c] EXCEPT !.next = @ + 1, !.seen = None]
  <2>1. /\ Fine(run, ws, mishaps, co[c]) /\ co[c] \in Memory /\ MemoryHolds(run, co[c])
    BY <1>2, OwnView DEF Fine
  <2>2. DOMAIN co[c].live = 1 .. Len(co[c].live) /\ co[c].next \in Nat \ {0}
    BY <2>1, MemoryParts
  <2>3. co[c].next + 1 \in Nat \ {0}
    BY <2>2
  <2>4. /\ m \in Memory /\ m.pc = "unwind" /\ m.seen = None /\ m.live = co[c].live
        /\ m.later = co[c].later /\ m.batch = co[c].batch /\ m.next = co[c].next + 1
    BY <1>1, <2>1, <2>3 DEF Memory
  <2> HIDE DEF m
  <2>5. Pending(m) = Pending(co[c]) \ {co[c].next}
    BY <1>1, <2>2, <2>4 DEF Pending
  <2>6. SameClaims(co[c], m) /\ AtWork(m)
    BY <2>4 DEF SameClaims, AtWork
  <2>7. InOrder(run, ws, mishaps', m)
    BY <1>1, <2>1, <2>4, <2>5 DEF InOrder, MemoryHolds, InPlace, ResultsFit
  <2>8. Fine(run, ws, mishaps', co[c])
    BY <1>1, <2>1 DEF Fine
  <2>9. Fine(run, ws, mishaps', m)
    BY <1>1, <2>4, <2>5, <2>6, <2>7, <2>8, KeptFine
  <2>10. Fine(run', ws', mishaps', m) /\ locks' = locks /\ Holds(c, m)
    BY <1>1, <1>4, <2>9 DEF m
  <2> QED
    BY <1>1, <1>2, <2>4, <2>6, <2>10, StepByOne
<1> QED
  BY <1>3, <1>4 DEF InterruptAgain

---------------------------------------------------------------------------
(* The managed execution.                                                  *)

\* No coordinator is at work in the beginning.
LEMMA ExecutionStarts == XInit => ExecutorInvariant
<1> SUFFICES ASSUME XInit PROVE ExecutorInvariant
  OBVIOUS
<1>1. StageInvariant
  BY BoundRunFits DEF XInit
<1>2. co \in [Coordinators -> Memory] /\ \A c \in Coordinators : co[c] = Idle
  BY IdleRests DEF XInit
<1>3. LeaseHolds
  BY <1>2, IdleRests, LockAssumption DEF XInit, LeaseHolds, Working
<1>4. \A c \in Coordinators : MemoryHolds(run, co[c]) /\ Undisturbed(run, ws, co[c])
  BY <1>2, IdleRests
<1>5. SkipsAhead
  BY <1>2, IdleRests DEF SkipsAhead
<1>6. run.history = <<>>
  BY DEF XInit, Init, BoundRun
<1>7. Calm
  BY <1>4, <1>6 DEF Calm, Attended
<1> QED
  BY <1>1, <1>2, <1>3, <1>4, <1>5, <1>7 DEF ExecutorInvariant

\* Every step of a managed execution is a legal call of the ledger, or none,
\* and keeps the invariant.
LEMMA ExecutionStep == ExecutorInvariant /\ [XNext]_xvars => Legal /\ ExecutorInvariant'
<1> SUFFICES ASSUME ExecutorInvariant, [XNext]_xvars PROVE Legal /\ ExecutorInvariant'
  OBVIOUS
<1>1. CASE UNCHANGED xvars
  <2>1. UNCHANGED <<ws, run, co, locks, mishaps>>
    BY <1>1 DEF xvars
  <2>2. Legal
    BY <2>1 DEF Legal
  <2>3. Attended => Attended'
    BY <2>1 DEF Attended
  <2>4. \A d \in Coordinators : MemoryHolds(run', co[d])
    BY <2>1 DEF ExecutorInvariant
  <2>5. mishaps' = {} => \A d \in Coordinators : Undisturbed(run', ws', co[d])
    BY <2>1 DEF ExecutorInvariant, Calm
  <2> QED
    BY <2>1, <2>2, <2>3, <2>4, <2>5, EnvironmentStep
<1>2. ASSUME NEW c \in Coordinators, Invoke(c) \/ TakeLock(c) \/ LeaseHeld(c) \/ Crash(c)
      PROVE  Legal /\ ExecutorInvariant'
  <2>1. CASE LeaseHeld(c)
    <3>1. ~Working(c) /\ Leave(c) /\ UNCHANGED <<ws, run, mishaps>>
      BY <2>1 DEF LeaseHeld, Working, ledger, others
    <3> QED
      BY <3>1, RefusedKeeps
  <2> QED
    BY <1>2, <2>1, InvokeKeeps, TakeLockKeeps, CrashKeeps
<1>3. ASSUME NEW c \in Coordinators, Step(c) \/ Interrupt(c)
      PROVE  Legal /\ ExecutorInvariant'
  <2>1. CASE Bind(c) \/ Capture(c) \/ AttestReadySkip(c) \/ Plan(c)
    BY <2>1, BindKeeps, CaptureKeeps, AttestReadySkipKeeps, PlanKeeps
  <2>2. CASE Launch(c) \/ SpawnFails(c) \/ Await(c) \/ AwaitFails(c) \/ UnwindOne(c)
    BY <2>2, LaunchKeeps, FailuresKeep, AwaitKeeps, UnwindOneKeeps
  <2>3. CASE FinishAttempt(c) \/ Salvage(c) \/ AllFinished(c)
    BY <2>3, FinishKeeps, AllFinishedKeeps
  <2>4. CASE Settle(c) \/ Retry(c) \/ AttestWorkflow(c) \/ Stop(c)
    BY <2>4, SettleKeeps, RetryKeeps, AttestWorkflowKeeps, StopKeeps
  <2> QED
    BY <1>2, <1>3, <2>1, <2>2, <2>3, <2>4, InterruptKeeps DEF Step
<1>4. CASE Environment
  BY <1>4, EnvironmentKeeps
<1>5. ASSUME NEW c \in Coordinators, InterruptClaim(c) \/ InterruptAgain(c)
      PROVE  Legal /\ ExecutorInvariant'
  BY <1>5, InterruptClaimKeeps, InterruptAgainKeeps
<1> QED
  BY <1>1, <1>2, <1>3, <1>4, <1>5 DEF XNext, Environment

\* At every point of a managed execution.
LEMMA ExecutionHolds == XSpec => []ExecutorInvariant
  BY ExecutionStarts, ExecutionStep, PTL DEF XSpec

\* One coordinator at most is past its locks, whatever releases run beside it,
\* and what it waits for runs in the ledger until it has recorded it.
THEOREM CoordinatorsOwnTheirAttempts == XSpec => []OwnsItsAttempts
<1>1. ExecutorInvariant => OwnsItsAttempts
  <2> SUFFICES ASSUME ExecutorInvariant PROVE OwnsItsAttempts
    OBVIOUS
  <2>1. \A c, d \in Coordinators : Working(c) /\ Working(d) => c = d
    BY OnlyOneWorks DEF ExecutorInvariant
  <2>2. \A c \in Coordinators : Outstanding(c) = Pending(co[c])
    BY DEF Outstanding, Pending
  <2>3. \A c \in Coordinators : \A i \in Pending(co[c]) : Runs(run, co[c].live[i])
    BY DEF ExecutorInvariant, MemoryHolds
  <2> QED
    BY <2>1, <2>2, <2>3 DEF OwnsItsAttempts, Runs
<1> QED
  BY <1>1, ExecutionHolds, PTL

\* An execution that nobody disturbs leaves no attempt running when its
\* invocations are over, whatever failed in it and wherever it was interrupted
\* once; what counts as a disturbance is listed at QuietRunsSettle.
THEOREM ExecutionsSettle == XSpec => []QuietRunsSettle
<1>1. ExecutorInvariant => QuietRunsSettle
  <2> SUFFICES ASSUME ExecutorInvariant, mishaps = {}, \A c \in Coordinators : ~Working(c)
               PROVE  \A k \in DOMAIN run.history : run.history[k].status # "running"
    BY DEF QuietRunsSettle
  <2>1. \A c \in Coordinators : Pending(co[c]) = {}
    BY AtRest DEF ExecutorInvariant, Working, AtWork
  <2> QED
    BY <2>1 DEF ExecutorInvariant, Calm, Attended
<1> QED
  BY <1>1, ExecutionHolds, PTL

\* A coordinator, its operators and its crashes are nothing but a client of the
\* stage ledger: every change of the document is a legal call.
THEOREM ExecutionIsManaged == XSpec => ImplementsManagedStages
<1>1. Legal => (ledger' # ledger => Next)
  BY DEF Legal, ledger
<1>2. XInit => Init
  BY DEF XInit
<1>3. ExecutorInvariant /\ [XNext]_xvars => [ledger' # ledger => Next]_ledger
  BY <1>1, ExecutionStep
<1> QED
  BY <1>2, <1>3, ExecutionHolds, PTL DEF XSpec, ImplementsManagedStages

\* So the documents a managed execution writes are valid.
THEOREM ExecutedDocumentsStayValid == XSpec => []LedgerValid
<1>1. ExecutorInvariant => LedgerValid
  BY InvariantValid DEF ExecutorInvariant
<1> QED
  BY <1>1, ExecutionHolds, PTL
=============================================================================
