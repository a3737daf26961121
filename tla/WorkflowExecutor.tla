-------------------------- MODULE WorkflowExecutor --------------------------
(***************************************************************************)
(* The managed workflow coordinator of workflow_executor.py, with the      *)
(* locks of execution_lease.py, over the stage ledger of ManagedStages.    *)
(* A coordinator is one invocation after another of execute_bound_workflow:*)
(* it takes the lease, freezes its conditions, attests skips, launches the *)
(* ready batch, waits, finishes every result, retries, and returns.        *)
(* Operators pause, resolve, close gates and edit the worktree meanwhile;  *)
(* any step may be interrupted (an exception the coordinator handles) or   *)
(* be the last one (the process is killed and the kernel drops its locks). *)
(***************************************************************************)
EXTENDS ManagedStages

CONSTANTS Coordinators,   \* processes that may run a coordinator
          Locks,          \* files a release of the program may flock
          LocksOf,        \* the locks of a coordinator's release, in its order
          Order,          \* the stages in definition order
          Panel,          \* the stages of one enabled parallel group
          MaxRetries,     \* max_transient_retries
          Outcomes,       \* what the workers of a stage may come back with
                          \* (bounded by the model): "malformed" is a
                          \* process that succeeded without valid evidence
          DecisionOf,     \* the value a coordinator gives the condition
          MaxInvocations, \* bound: invocations of all coordinators
          MaxMeddling     \* bound: pauses and edits by operators

ASSUME ExecutorAssumption == /\ Order \in Seq(Stages)
                             /\ Stages = {Order[i] : i \in DOMAIN Order}
                             /\ Panel \subseteq Stages
                             /\ MaxRetries \in Nat
                             /\ Outcomes \in [Stages -> SUBSET {"pass", "findings",
                                   "reject", "malformed", "crash", "timeout", "human"}]
                             /\ DecisionOf \in [Coordinators -> BOOLEAN]
                             /\ MaxInvocations \in Nat
                             /\ MaxMeddling \in Nat

\* Every release takes a lock, and any two of them share one.
ASSUME LockAssumption ==
    /\ None \notin Coordinators
    /\ LocksOf \in [Coordinators -> Seq(Locks) \ {<<>>}]
    /\ \A c, d \in Coordinators : \E i \in DOMAIN LocksOf[c], j \in DOMAIN LocksOf[d] :
          LocksOf[c][i] = LocksOf[d][j]

VARIABLES co,        \* what each coordinator holds in memory
          locks,     \* holder of each lock file
          launches,  \* invocations so far
          meddling,  \* pauses and edits by operators so far
          mishaps    \* what first disturbed an invocation at work

xvars == <<ws, run, co, locks, launches, meddling, mishaps>>
ledger == <<ws, run>>
others == <<launches, meddling, mishaps>>

Claim == [stage : Stages, dispatch : Dispatches, attempt : Nat \ {0},
          result : {"pass", "findings", "reject", "malformed", "crash", "timeout",
                    "human", "none", "lost"}]

Idle == [pc |-> "idle", done |-> {}, skipped |-> {}, resolved |-> {},
         batch |-> {}, live |-> <<>>, later |-> <<>>, next |-> 1,
         seen |-> None, raises |-> FALSE]

Mishap(x) == mishaps' = IF mishaps = {} THEN {x} ELSE mishaps

Working(c) == co[c].pc \notin {"idle", "locking"}
LeaseFree == \A l \in Locks : locks[l] = None

ToDo(c) == {s \in Stages : s \notin co[c].done \cup co[c].skipped}
Ready(c) == {s \in ToDo(c) : DependsOn[s] \subseteq co[c].done \cup co[c].skipped}

\* In definition order.
IsFirst(s, S) == \E i \in DOMAIN Order : /\ Order[i] = s /\ s \in S
                                        /\ \A j \in 1 .. i - 1 : Order[j] \notin S

\* The parallel group of a ready stage, or that stage alone.
Batch(c, s) == IF s \in Panel THEN Ready(c) \cap Panel ELSE {s}

\* _pending_owned_gate: the first unresolved gate, once its owner settled.
PendingGate(c) == \E g \in 1 .. NumGates :
    /\ g \notin co[c].resolved
    /\ 1 .. g - 1 \subseteq co[c].resolved
    /\ Owner[g] \in co[c].done \cup co[c].skipped

---------------------------------------------------------------------------
(* _finish_attempt: what a result records and what the loop makes of it.   *)

\* Whatever a worker finds is of medium severity (bounded by the model).
Recorded(s, o) ==
    LET found == OfSeverity(Findings, {"medium"})
    IN  CASE o = "pass" -> [status |-> "succeeded", evidence |-> "typed",
                            findings |-> {}, open |-> {}]
          [] o = "findings" -> [status |-> "succeeded", evidence |-> "typed",
                                findings |-> found,
                                open |-> IF s \in Reviewers \cup Deciders
                                         THEN {} ELSE found]
          [] o = "reject" -> [status |-> "failed", findings |-> found, open |-> found,
                              evidence |-> IF s \in Reviewers THEN "advisory" ELSE "typed"]
          [] o = "timeout" -> CancelledResult
          [] OTHER -> [status |-> "failed", evidence |-> "none",
                       findings |-> {}, open |-> {}]

Good(s, o) == o \in {"pass", "findings"} \/ (o = "reject" /\ s \in Reviewers)

\* Valid evidence, a cancellation and a lost result are never retried.
Retryable(o) == o \in {"malformed", "crash", "human"}

\* dispatcher.retry refuses an attempt whose process succeeded.
DispatchFailed(o) == o \in {"crash", "human"}

\* Evidence that finish_stage would not take is malformed.
ASSUME OutcomeAssumption ==
    \A s \in Stages : \A o \in Outcomes[s] : Recorded(s, o) \in ResultOf[s]

---------------------------------------------------------------------------
(* managed_execution_lease                                                 *)

Holds(c, memory) == co' = [co EXCEPT ![c] = memory]

\* Return or raise: everything in memory is gone and the locks are free.
Leave(c) == /\ co' = [co EXCEPT ![c] = Idle]
            /\ locks' = [l \in Locks |-> IF locks[l] = c THEN None ELSE locks[l]]

Invoke(c) == /\ co[c].pc = "idle"
             /\ launches < MaxInvocations
             /\ launches' = launches + 1
             /\ Holds(c, [co[c] EXCEPT !.pc = "locking"])
             /\ UNCHANGED <<ledger, locks, meddling, mishaps>>

\* Each lock is tried without blocking, in the fixed order of the release.
NextLock(c) == LocksOf[c][co[c].next]

TakeLock(c) == /\ co[c].pc = "locking"
               /\ locks[NextLock(c)] = None
               /\ locks' = [locks EXCEPT ![NextLock(c)] = c]
               /\ Holds(c, IF co[c].next = Len(LocksOf[c])
                           THEN [co[c] EXCEPT !.pc = "bind", !.next = 1]
                           ELSE [co[c] EXCEPT !.next = @ + 1])
               /\ UNCHANGED <<ledger, others>>

LeaseHeld(c) == /\ co[c].pc = "locking"
                /\ locks[NextLock(c)] # None
                /\ Leave(c)
                /\ UNCHANGED <<ledger, others>>

---------------------------------------------------------------------------
(* WorkflowExecutor.run up to a batch                                      *)

\* Nothing is left to cancel: _stop records the human stop, or only raise.
Halt(c) == Holds(c, [co[c] EXCEPT !.pc = "halt", !.batch = {}, !.live = <<>>, !.later = <<>>,
                                  !.next = 1, !.seen = None])

\* A refused pause raises WorkflowValidationError instead of returning.
Stop(c) == /\ co[c].pc = "halt"
           /\ run' = IF Unpaused(run) /\ ~co[c].raises
                     THEN [run EXCEPT !.paused = TRUE] ELSE run
           /\ Leave(c)
           /\ UNCHANGED <<ws, others>>

\* bind_managed_execution finds the run active and unpaused, or raises; the
\* condition is frozen by the first invocation, and another value stops.
Bind(c) == /\ co[c].pc = "bind"
           /\ IF BindAllowed(run, DecisionOf[c])
              THEN /\ run' = Bound(run, DecisionOf[c])
                   /\ Holds(c, [co[c] EXCEPT !.pc = "skip", !.done = Completed(run),
                                             !.skipped = SkippedStages(run),
                                             !.resolved = Resolved(run)])
                   /\ UNCHANGED locks
              ELSE /\ UNCHANGED run
                   /\ IF Unpaused(run) THEN Halt(c) /\ UNCHANGED locks ELSE Leave(c)
           /\ UNCHANGED <<ws, others>>

Skippable(c) == {s \in Ready(c) : s \in Conditional /\ ~DecisionOf[c]}

\* The checkpoint handed to a ledger call is read before the call.
Capture(c) == /\ co[c].seen = None
              /\ \/ co[c].pc = "skip" /\ Skippable(c) # {}
                 \/ co[c].pc \in {"finish", "salvage", "unwind"}
                    /\ co[c].next <= Len(co[c].live)
                 \/ co[c].pc = "attest"
              /\ Holds(c, [co[c] EXCEPT !.seen = ws])
              /\ UNCHANGED <<ledger, locks, others>>

AttestReadySkip(c) ==
    /\ co[c].pc = "skip"
    /\ co[c].seen # None
    /\ \E s \in Stages :
          /\ IsFirst(s, Skippable(c))
          /\ IF SkipAllowed(run, s) /\ co[c].seen = ws
             THEN /\ run' = SkipAttested(run, s)
                  /\ Holds(c, [co[c] EXCEPT !.skipped = @ \cup {s}, !.seen = None])
             ELSE Halt(c) /\ UNCHANGED run
    /\ UNCHANGED <<ws, locks, others>>

\* The head of the loop: a gate to wait for, the end, nothing that is ready, or
\* the batch of the first stage that is.
Plan(c) ==
    /\ co[c].pc = "skip"
    /\ Skippable(c) = {}
    /\ IF PendingGate(c) THEN Leave(c)
       ELSE /\ IF ToDo(c) = {}
               THEN IF co[c].resolved = 1 .. NumGates
                    THEN Holds(c, [co[c] EXCEPT !.pc = "attest"]) ELSE Halt(c)
               ELSE \/ Ready(c) = {} /\ Halt(c)
                    \/ \E s \in Stages :
                          /\ IsFirst(s, Ready(c))
                          /\ Holds(c, [co[c] EXCEPT !.pc = "launch", !.batch = Batch(c, s)])
            /\ UNCHANGED locks
    /\ UNCHANGED <<ledger, others>>

---------------------------------------------------------------------------
(* Launching a batch, waiting for it, and closing it when that fails       *)

Returned(c, results) ==
    [i \in DOMAIN co[c].live |-> [co[c].live[i] EXCEPT !.result = results[i]]]

\* _cancel_launched: the given results are what cancel and collect left.
Unwind(c, results, raises) ==
    Holds(c, [co[c] EXCEPT !.pc = "unwind", !.next = 1, !.seen = None, !.raises = raises,
                           !.batch = {}, !.later = <<>>, !.live = Returned(c, results)])

AllCancelled(c) == [i \in DOMAIN co[c].live |-> "timeout"]

Room == Len(run.history) < MaxRecords

\* spawn queues a worker under a new id; it starts only after the claim.
Launch(c) ==
    /\ co[c].pc = "launch"
    /\ \E s \in Stages :
          /\ IsFirst(s, co[c].batch)
          /\ IF ClaimAllowed(run, s)
             THEN /\ Room
                  /\ Unused # {}
                  /\ LET d == CHOOSE d \in Unused : TRUE
                     IN  /\ run' = Claimed(run, s, d, 1)
                         /\ Holds(c, [co[c] EXCEPT
                               !.batch = @ \ {s},
                               !.pc = IF co[c].batch = {s} THEN "wait" ELSE "launch",
                               !.live = Append(@, [stage |-> s, dispatch |-> d,
                                                   attempt |-> 1, result |-> "none"])])
             ELSE Unwind(c, AllCancelled(c), FALSE) /\ UNCHANGED run
    /\ UNCHANGED <<ws, locks, others>>

\* Mutant: the workers launched before are not cancelled.
SpawnAbandons(c) == /\ co[c].pc = "launch"
                    /\ Halt(c)
                    /\ UNCHANGED <<ledger, locks, others>>

\* The role is not installed, or lacks a capability.
SpawnFails(c) == /\ co[c].pc = "launch"
                 /\ Unwind(c, AllCancelled(c), FALSE)
                 /\ UNCHANGED <<ledger, locks, others>>

\* Wait for all, cancel what is pending at the timeout, collect.
Await(c) ==
    /\ co[c].pc = "wait"
    /\ \E results \in [DOMAIN co[c].live -> UNION {Outcomes[s] : s \in Stages}] :
          /\ \A i \in DOMAIN results : results[i] \in Outcomes[co[c].live[i].stage]
          /\ Holds(c, [co[c] EXCEPT !.pc = "finish", !.next = 1,
                                    !.live = Returned(c, results)])
    /\ UNCHANGED <<ledger, locks, others>>

\* What cancel and collect leave of a worker that was started: the end it came to
\* by itself, the cancellation, or nothing that is confirmed ("lost").
Closings(s) == Outcomes[s] \cup {"timeout", "lost"}

\* finish raises for a process that succeeded without passing evidence, collect
\* for one that is lost: the attempt is left running.
Unrecordable(o) == o \in {"reject", "malformed", "lost"}

\* The wait raises or is interrupted, and every worker is closed.
WaitRaises(c, raises) ==
    /\ co[c].pc = "wait"
    /\ \E results \in [DOMAIN co[c].live -> UNION {Closings(s) : s \in Stages}] :
          /\ \A i \in DOMAIN results : results[i] \in Closings(co[c].live[i].stage)
          /\ Unwind(c, results, raises)
          /\ IF \E i \in DOMAIN results : Unrecordable(results[i])
             THEN Mishap("dispatcher") ELSE UNCHANGED mishaps
    /\ UNCHANGED <<ledger, locks, launches, meddling>>

AwaitFails(c) == WaitRaises(c, FALSE)

Mine(c) == co[c].live[co[c].next]

\* Mutant: a result is recorded although an operator paused the run.
MayFinishPaused(c) == /\ co[c].seen = ws
                      /\ \E k \in Exact(run, Mine(c).stage, Mine(c).dispatch,
                                        Mine(c).attempt) :
                            run.history[k].status = "running"

MayFinish(c) == /\ co[c].seen # None
                /\ FinishAllowed(run, Mine(c).stage, Mine(c).dispatch,
                                 Mine(c).attempt, co[c].seen)

Record(c, x) == run' = Finished(run, Mine(c).stage, Mine(c).dispatch,
                                Mine(c).attempt, x)

\* Mutant: what the ledger refuses is tried until it is accepted.
UnwindUntilRecorded(c) ==
    /\ co[c].pc = "unwind"
    /\ IF co[c].next > Len(co[c].live)
       THEN Halt(c) /\ UNCHANGED run
       ELSE /\ co[c].seen # None
            /\ IF MayFinish(c)
               THEN /\ Record(c, Recorded(Mine(c).stage, Mine(c).result))
                    /\ Holds(c, [co[c] EXCEPT !.next = @ + 1, !.seen = None])
               ELSE UNCHANGED run /\ Holds(c, [co[c] EXCEPT !.seen = None])
    /\ UNCHANGED <<ws, locks, others>>

\* Best effort: what the ledger refuses, or cannot be recorded, is passed over.
UnwindOne(c) ==
    /\ co[c].pc = "unwind"
    /\ IF co[c].next > Len(co[c].live)
       THEN Halt(c) /\ UNCHANGED run
       ELSE /\ co[c].seen # None
            /\ IF MayFinish(c) /\ ~Unrecordable(Mine(c).result)
               THEN Record(c, Recorded(Mine(c).stage, Mine(c).result))
               ELSE UNCHANGED run
            /\ Holds(c, [co[c] EXCEPT !.next = @ + 1, !.seen = None])
    /\ UNCHANGED <<ws, locks, others>>

---------------------------------------------------------------------------
(* Recording collected results                                             *)

Keep(c, lost) ==
    Holds(c, [co[c] EXCEPT
        !.pc = "finish", !.next = @ + 1, !.seen = None,
        !.live = [i \in DOMAIN co[c].live |->
                    IF lost /\ i = co[c].next THEN [Mine(c) EXCEPT !.result = "lost"]
                    ELSE co[c].live[i]],
        !.done = IF ~lost /\ Good(Mine(c).stage, Mine(c).result)
                 THEN @ \cup {Mine(c).stage} ELSE @])

\* A refused finish is tried once more, as a cancellation.
FinishAttempt(c) ==
    /\ co[c].pc = "finish"
    /\ co[c].next <= Len(co[c].live)
    /\ co[c].seen # None
    /\ IF MayFinish(c)
       THEN Record(c, Recorded(Mine(c).stage, Mine(c).result)) /\ Keep(c, FALSE)
       ELSE Holds(c, [co[c] EXCEPT !.pc = "salvage", !.seen = None]) /\ UNCHANGED run
    /\ UNCHANGED <<ws, locks, others>>

Salvage(c) ==
    /\ co[c].pc = "salvage"
    /\ co[c].seen # None
    /\ IF MayFinish(c) THEN Record(c, CancelledResult) ELSE UNCHANGED run
    /\ Keep(c, TRUE)
    /\ UNCHANGED <<ws, locks, others>>

\* All results are recorded; a worker's human stop ends the invocation.
AllFinished(c) ==
    /\ co[c].pc = "finish"
    /\ co[c].next > Len(co[c].live)
    /\ IF \E i \in DOMAIN co[c].live : co[c].live[i].result = "human"
       THEN Halt(c)
       ELSE Holds(c, [co[c] EXCEPT !.pc = "decide", !.next = 1])
    /\ UNCHANGED <<ledger, locks, others>>

---------------------------------------------------------------------------
(* Retries, and the end of the workflow                                    *)

Failing(c) == {i \in DOMAIN co[c].live :
                  ~Good(co[c].live[i].stage, co[c].live[i].result)}

\* The batch has settled: retries that were put off come next, then the loop.
Settle(c) == /\ co[c].pc = "decide"
             /\ Failing(c) = {}
             /\ Holds(c, IF co[c].later # <<>>
                         THEN [co[c] EXCEPT !.live = co[c].later, !.later = <<>>]
                         ELSE [co[c] EXCEPT !.pc = "skip", !.live = <<>>,
                                            !.resolved = Resolved(run)])
             /\ UNCHANGED <<ledger, locks, others>>

\* The first failure decides: stop, or retry it before the others.
Retry(c) ==
    /\ co[c].pc = "decide"
    /\ Failing(c) # {}
    /\ \E i \in Failing(c) :
          /\ \A j \in Failing(c) : i <= j
          /\ LET h == co[c].live[i]
             IN  IF /\ Retryable(h.result)
                    /\ h.attempt <= MaxRetries
                    /\ DispatchFailed(h.result)
                    /\ ClaimAllowed(run, h.stage)
                 THEN /\ Room
                      /\ run' = Claimed(run, h.stage, h.dispatch, h.attempt + 1)
                      /\ Holds(c, [co[c] EXCEPT
                            !.pc = "wait",
                            !.live = <<[h EXCEPT !.attempt = @ + 1, !.result = "none"]>>,
                            !.later = SubSeq(co[c].live, i + 1, Len(co[c].live)) \o @])
                 ELSE Halt(c) /\ UNCHANGED run
    /\ UNCHANGED <<ws, locks, others>>

\* Every stage settled and every gate resolved; a refusal raises.
AttestWorkflow(c) ==
    /\ co[c].pc = "attest"
    /\ co[c].seen # None
    /\ run' = IF AttestAllowed(run, co[c].seen) THEN Attested(run) ELSE run
    /\ Leave(c)
    /\ UNCHANGED <<ws, others>>

---------------------------------------------------------------------------
(* Interruptions                                                           *)

\* An exception that is not an Exception: close what runs, then raise.  Workers
\* that are only queued are all cancelled, results already collected are recorded
\* as cancellations, and in the wait a worker may have ended in any way.
Interrupt(c) ==
    \/ /\ co[c].pc \in {"locking", "bind", "skip", "decide", "attest", "halt"}
       /\ Leave(c)
       /\ UNCHANGED <<ledger, others>>
    \/ /\ co[c].pc = "launch"
       /\ Unwind(c, AllCancelled(c), TRUE)
       /\ UNCHANGED <<ledger, locks, others>>
    \/ WaitRaises(c, TRUE)
    \/ /\ co[c].pc \in {"finish", "salvage"}
       /\ Holds(c, [co[c] EXCEPT !.pc = "unwind", !.seen = None, !.raises = TRUE,
                                 !.later = <<>>, !.live = Returned(c, AllCancelled(c))])
       /\ UNCHANGED <<ledger, locks, others>>

\* A claim is on disk and its worker not yet among the launched ones: the worker
\* is cancelled, the attempt is nobody's.  (A retry's is closed as in the wait.)
InterruptClaim(c) ==
    /\ co[c].pc = "launch"
    /\ \E s \in Stages :
          /\ IsFirst(s, co[c].batch)
          /\ ClaimAllowed(run, s)
          /\ Room
          /\ Unused # {}
          /\ run' = Claimed(run, s, CHOOSE d \in Unused : TRUE, 1)
    /\ Unwind(c, AllCancelled(c), TRUE)
    /\ Mishap("interrupted")
    /\ UNCHANGED <<ws, locks, launches, meddling>>

\* A second one: inside the closing of one worker, which is passed over, or
\* between two, and nobody closes the others.
InterruptAgain(c) ==
    /\ co[c].pc = "unwind"
    /\ \/ /\ co[c].next <= Len(co[c].live)
          /\ Holds(c, [co[c] EXCEPT !.next = @ + 1, !.seen = None])
          /\ UNCHANGED locks
       \/ Leave(c)
    /\ Mishap("interrupted")
    /\ UNCHANGED <<ledger, launches, meddling>>

\* The process is killed: its locks are dropped, its claims stay.
Crash(c) == /\ co[c].pc # "idle"
            /\ Leave(c)
            /\ IF Working(c) THEN Mishap("crash") ELSE UNCHANGED mishaps
            /\ UNCHANGED <<ledger, launches, meddling>>

---------------------------------------------------------------------------
(* Everybody else                                                          *)

Meddle == /\ meddling < MaxMeddling
          /\ meddling' = meddling + 1
          /\ IF \E c \in Coordinators : Working(c)
             THEN Mishap("operator") ELSE UNCHANGED mishaps
          /\ UNCHANGED <<co, locks, launches>>

\* A native writer at work.
WorkerWrites(c) == /\ co[c].pc = "wait"
                   /\ \E i \in DOMAIN co[c].live : co[c].live[i].stage \notin ReadOnly
                   /\ EditWorkspace
                   /\ UNCHANGED <<co, locks, others>>

Edit == EditWorkspace /\ Meddle
Pause == PauseForHuman /\ Meddle

Resolve == ResolveHumanStop /\ UNCHANGED <<co, locks, others>>

Gate == /\ \E g \in 1 .. NumGates : CloseGate(g) \/ AcceptRisk(g) \/ NotApplicable(g)
        /\ UNCHANGED <<co, locks, others>>

\* The operator of pipeline reconcile, who takes the lease.
Stale == \E k \in DOMAIN run.history :
             ReconcileStale(run.history[k].stage, run.history[k].dispatch)

\* Mutant: the operator does not wait for the coordinator's lease.
ReconcileUnleased == Stale /\ UNCHANGED <<co, locks, others>>

Reconcile == LeaseFree /\ Stale /\ UNCHANGED <<co, locks, others>>

CompleteRun == Complete /\ UNCHANGED <<co, locks, others>>
AbortRun == LeaseFree /\ Abort /\ UNCHANGED <<co, locks, others>>

---------------------------------------------------------------------------
XInit == /\ Init
         /\ co = [c \in Coordinators |-> Idle]
         /\ locks = [l \in Locks |-> None]
         /\ launches = 0
         /\ meddling = 0
         /\ mishaps = {}

\* The steps a running coordinator takes by itself.
Step(c) == \/ TakeLock(c) \/ LeaseHeld(c)
           \/ Bind(c) \/ Capture(c) \/ AttestReadySkip(c) \/ Plan(c)
           \/ Launch(c) \/ SpawnFails(c)
           \/ Await(c) \/ AwaitFails(c) \/ UnwindOne(c)
           \/ FinishAttempt(c) \/ Salvage(c) \/ AllFinished(c)
           \/ Settle(c) \/ Retry(c) \/ AttestWorkflow(c) \/ Stop(c)

XNext == \/ \E c \in Coordinators : \/ Invoke(c) \/ Step(c) \/ Interrupt(c)
                                    \/ InterruptClaim(c) \/ InterruptAgain(c)
                                    \/ Crash(c) \/ WorkerWrites(c)
         \/ Edit \/ Pause \/ Resolve \/ Gate \/ Reconcile \/ CompleteRun \/ AbortRun

\* A process keeps running: every wait ends at its timeout.
Fairness == \A c \in Coordinators : WF_xvars(Step(c))

XSpec == XInit /\ [][XNext]_xvars /\ Fairness

---------------------------------------------------------------------------
\* The coordinator writes nothing but legal ledger calls: this is Spec, with
\* the stuttering steps told apart first.
ImplementsManagedStages == Init /\ [][ledger' # ledger => Next]_ledger

\* What the coordinator still has to record is still running in the ledger:
\* no reconciliation, abort or second coordinator ended it behind its back.
Outstanding(c) == {i \in DOMAIN co[c].live :
                      \/ co[c].pc \in {"launch", "wait"}
                      \/ co[c].pc \in {"finish", "salvage", "unwind"} /\ i >= co[c].next}

\* At most one coordinator, of whatever release, is past its locks, and what it
\* waits for is its own until it has recorded it.
OwnsItsAttempts ==
    /\ \A c, d \in Coordinators : Working(c) /\ Working(d) => c = d
    /\ \A c \in Coordinators : \A i \in Outstanding(c) :
          LET h == co[c].live[i]
          IN  \E k \in Exact(run, h.stage, h.dispatch, h.attempt) :
                 run.history[k].status = "running"

\* An invocation leaves no attempt running: not when a batch cannot be launched,
\* a retry or a finish is refused, the wait raises, or it is interrupted.  It may
\* when it is killed, an operator acts while it works, a closed worker left nothing
\* that can be recorded (Unrecordable), or the interrupt is a second one or falls
\* between a claim and its note.
QuietRunsSettle == mishaps = {} /\ (\A c \in Coordinators : ~Working(c))
    => \A k \in DOMAIN run.history : run.history[k].status # "running"

\* Every invocation returns.
InvocationsReturn == \A c \in Coordinators : (co[c].pc # "idle") ~> (co[c].pc = "idle")
=============================================================================
