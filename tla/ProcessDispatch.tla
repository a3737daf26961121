---------------------------- MODULE ProcessDispatch ----------------------------
(***************************************************************************)
(* The dispatchers of process_dispatch.py and routed_dispatch.py: attempts *)
(* reserved by spawn and retry, started by wait as native hosts in process *)
(* groups of their own, polled, timed out, cancelled and collected.  One   *)
(* coordinator makes one call at a time; a call is interrupted between any *)
(* two of its steps, a second time while it winds up, and hosts run, fork  *)
(* and exit meanwhile.                                                     *)
(*                                                                         *)
(* The coordinators (maker_checker.py, workflow_executor.py) are any that  *)
(* retry the attempt they got last, collect what is terminal, which then   *)
(* changes nothing, and only cancel once a wait raised.  Prompts,          *)
(* messages, envelopes and capabilities are left out: a host ends well or  *)
(* badly, and its attempt may have left its write scope.                   *)
(***************************************************************************)
EXTENDS Naturals, Sequences, FiniteSets

CONSTANTS Workers,      \* what the coordinator dispatches
          Adapters,     \* the hosts' adapters behind a routed dispatcher
          Adapter,      \* the adapter each worker's slot is bound to
          MaxAttempts,  \* bound: attempts of one worker
          MaxRetries    \* bound: retries of all workers together

ASSUME AdapterAssumption == Adapter \in [Workers -> Adapters]
ASSUME AttemptAssumption == MaxAttempts \in Nat \ {0} /\ MaxRetries \in Nat

VARIABLES routed,    \* the coordinator calls a RoutedDispatcher, not one adapter
          attempts,  \* the adapters' attempt states, by handle
          hosts,     \* the process group of each attempt
          call,      \* the call in progress
          closed     \* what a wait raised, after which work is only wound up

vars == <<routed, attempts, hosts, call, closed>>

Handle == [worker : Workers, n : 1 .. MaxAttempts]

\* process: the attempt holds the token of its host; starting: a start was
\* interrupted and nobody knows whether a host escaped.
Attempt == [status : {"none", "queued", "running", "succeeded", "failed", "cancelled"},
            result : {"none", "succeeded", "failed", "cancelled"},
            process : BOOLEAN, starting : BOOLEAN, overdue : BOOLEAN]

Unused == [status |-> "none", result |-> "none",
           process |-> FALSE, starting |-> FALSE, overdue |-> FALSE]

Status(h) == attempts[h].status
Terminal(h) == Status(h) \in {"succeeded", "failed", "cancelled"}
Alive(h) == hosts[h] \in {"solo", "family", "orphans"}
Exited(h) == hosts[h] \in {"orphans", "gone"}

\* The attempt a coordinator holds of a worker: the one it got last.
Latest == {h \in Handle : /\ Status(h) # "none"
                          /\ \A n \in h.n + 1 .. MaxAttempts :
                                Status([h EXCEPT !.n = n]) = "none"}

In(S, status) == {h \in S : Status(h) = status}
Unsettled(S) == {h \in S : ~Terminal(h)}

Idle == [pc |-> "idle", todo |-> {}, child |-> {}, next |-> {}, waited |-> {}, done |-> {},
         mode |-> "all", bounded |-> FALSE, first |-> FALSE, lost |-> FALSE]

At(pc) == call.pc = pc
Free == At("idle")

---------------------------------------------------------------------------
(* The native hosts                                                        *)

Fork(h) == /\ hosts[h] = "solo"
           /\ hosts' = [hosts EXCEPT ![h] = "family"]
           /\ UNCHANGED <<routed, attempts, call, closed>>

\* The leader exits, and its descendants need not.
Exit(h) == /\ hosts[h] \in {"solo", "family"}
           /\ hosts' = [hosts EXCEPT ![h] = IF @ = "solo" THEN "gone" ELSE "orphans"]
           /\ UNCHANGED <<routed, attempts, call, closed>>

\* The host has run for the hard timeout of its adapter.
Overrun(h) == /\ Status(h) = "running"
              /\ ~attempts[h].overdue
              /\ attempts' = [attempts EXCEPT ![h].overdue = TRUE]
              /\ UNCHANGED <<routed, hosts, call, closed>>

\* terminate and the drain of the owned group, confirmed.
Drained(h) == hosts' = [hosts EXCEPT ![h] = IF @ = "none" THEN "none" ELSE "gone"]

\* They fail: someone in the group outlives both signals.
Undrained(h) == /\ Alive(h)
                /\ \/ UNCHANGED hosts
                   \/ hosts[h] = "family" /\ hosts' = [hosts EXCEPT ![h] = "orphans"]

Ends(h, status, result) ==
    attempts' = [attempts EXCEPT ![h] =
                    [@ EXCEPT !.status = status, !.result = result, !.overdue = FALSE]]

---------------------------------------------------------------------------
(* spawn and retry reserve an attempt                                      *)

Launch(h) == /\ attempts' = [attempts EXCEPT ![h] = [Unused EXCEPT !.status = "queued"]]
             /\ UNCHANGED <<routed, hosts, call, closed>>

Spawn(w) == /\ Free /\ closed = "no"
            /\ Status([worker |-> w, n |-> 1]) = "none"
            /\ Launch([worker |-> w, n |-> 1])

\* Mutant: an attempt that did not succeed may be tried again.
MayRetryPending(h) == Status(h) # "succeeded"

MayRetry(h) == Status(h) = "failed"

Retry(h) == /\ Free /\ closed = "no"
            /\ MayRetry(h)
            /\ h.n < MaxAttempts
            /\ Cardinality({k \in Handle : k.n > 1 /\ Status(k) # "none"}) < MaxRetries
            /\ Launch([h EXCEPT !.n = @ + 1])

---------------------------------------------------------------------------
(* wait: the groups of a routed call, one child wait after the other       *)

\* _groups
Groups(S) == IF routed THEN {{h \in S : Adapter[h.worker] = a} : a \in Adapters} \ {{}}
             ELSE {S}

\* The first round submits every group before anything is decided.
Wait(S, mode, bounded) ==
    /\ Free /\ closed = "no"
    /\ S # {}
    /\ \E g \in Groups(S) :
          call' = [Idle EXCEPT !.pc = "submit", !.todo = In(g, "queued"), !.child = g,
                               !.next = Groups(S) \ {g}, !.waited = S,
                               !.mode = mode, !.bounded = bounded, !.first = TRUE]
    /\ UNCHANGED <<routed, attempts, hosts, closed>>

\* The pass ends, and what it left open is cancelled.
UnwindOver(open) == call' = [Idle EXCEPT !.pc = "unwind", !.todo = open,
                                         !.child = call.child, !.waited = call.waited]
Unwinding == UnwindOver(Unsettled(call.child))
Visited(h) == call' = [call EXCEPT !.todo = @ \ {h}]
Submitting(h) == At("submit") /\ h \in call.todo

StartHost(h) == /\ Submitting(h)
                /\ hosts' = [hosts EXCEPT ![h] = "solo"]
                /\ attempts' = [attempts EXCEPT ![h].process = TRUE]
                /\ call' = [call EXCEPT !.pc = "prompt", !.todo = {h}]
                /\ UNCHANGED <<routed, closed>>

\* The scope moved, or the host could not be started and none escaped.
StartRefused(h) == /\ Submitting(h)
                   /\ Ends(h, "failed", "failed")
                   /\ Visited(h)
                   /\ UNCHANGED <<routed, hosts, closed>>

\* The start failed and so did the cleanup of what it had started.
StartUnconfirmed(h) == /\ Submitting(h)
                       /\ hosts' = [hosts EXCEPT ![h] = "solo"]
                       /\ attempts' = [attempts EXCEPT ![h].process = TRUE]
                       /\ Unwinding
                       /\ UNCHANGED <<routed, closed>>

\* An interrupt inside start, before anyone holds a token.
StartInterrupted(h) == /\ Submitting(h)
                       /\ \/ UNCHANGED hosts
                          \/ hosts' = [hosts EXCEPT ![h] = "solo"]
                       /\ attempts' = [attempts EXCEPT ![h].starting = TRUE]
                       /\ Unwinding
                       /\ UNCHANGED <<routed, closed>>

Prompting(h) == At("prompt") /\ h \in call.todo

Onward == call' = [call EXCEPT !.pc = "submit",
                               !.todo = In(call.child, "queued") \ call.todo]

SubmitPrompt(h) == /\ Prompting(h)
                   /\ attempts' = [attempts EXCEPT ![h].status = "running"]
                   /\ Onward
                   /\ UNCHANGED <<routed, hosts, closed>>

SubmitFails(h) == /\ Prompting(h)
                  /\ \/ /\ Drained(h)
                        /\ Ends(h, "failed", "failed")
                        /\ Onward
                     \/ /\ Undrained(h)
                        /\ UNCHANGED attempts
                        /\ Unwinding
                  /\ UNCHANGED <<routed, closed>>

Polled == call' = [call EXCEPT !.pc = "refresh", !.todo = In(call.child, "running")]

StartPolling == /\ At("submit")
                /\ call.todo = {}
                /\ Polled
                /\ UNCHANGED <<routed, attempts, hosts, closed>>

---------------------------------------------------------------------------
(* _refresh of a running attempt                                           *)

StillRuns(h) == /\ ~attempts[h].overdue
                /\ ~Exited(h)
                /\ UNCHANGED <<attempts, hosts>>

HardTimeout(h) == /\ attempts[h].overdue
                  /\ Drained(h)
                  /\ Ends(h, "failed", "failed")

\* Mutant: the descendants of a host that exited are left alone.
PollLeader(h) == /\ ~attempts[h].overdue
                 /\ Exited(h)
                 /\ UNCHANGED hosts
                 /\ \E r \in {"succeeded", "failed"} : Ends(h, r, r)

\* Whatever the host left is an outcome only once its group is drained.
Poll(h) == /\ ~attempts[h].overdue
           /\ Exited(h)
           /\ Drained(h)
           /\ \E r \in {"succeeded", "failed"} : Ends(h, r, r)

\* The group survives, or the interrupt comes between the status of a timed
\* out attempt and its result, while the host's output is saved.
RefreshRaises(h) == \/ /\ attempts[h].overdue \/ Exited(h)
                       /\ Undrained(h)
                       /\ UNCHANGED attempts
                    \/ /\ attempts[h].overdue
                       /\ Drained(h)
                       /\ Ends(h, "failed", "none")

\* Mutant: nobody looks at the clock.
RefreshUntimed(h) == \/ Poll(h)
                     \/ ~Exited(h) /\ UNCHANGED <<attempts, hosts>>

Refreshed(h) == StillRuns(h) \/ HardTimeout(h) \/ Poll(h)

Refreshing(h) == At("refresh") /\ h \in call.todo

Refresh(h) == /\ Refreshing(h)
              /\ \/ Refreshed(h) /\ Visited(h)
                 \/ /\ RefreshRaises(h)
                    /\ UnwindOver({k \in call.child : ~Terminal(k)'})
              /\ UNCHANGED <<routed, closed>>

---------------------------------------------------------------------------
(* what a pass over one group decides                                      *)

Done == call.done \cup {h \in call.child : Terminal(h)}
Swept == At("refresh") /\ call.todo = {}

Complete == \/ Done = call.waited
            \/ call.mode = "first" /\ Done # {}

\* In the first round no group is left out, whatever is done by then.
Decides == Swept /\ (call.next = {} \/ ~call.first)

Return == /\ Decides
          /\ \/ Complete /\ (call.next = {} \/ call.mode = "first")
             \/ call.bounded
          /\ call' = Idle
          /\ UNCHANGED <<routed, attempts, hosts, closed>>

NextGroup == /\ Swept
             /\ call.first \/ ~(call.mode = "first" /\ Done # {})
             /\ \E g \in call.next :
                   call' = [call EXCEPT !.next = @ \ {g}, !.child = g, !.done = Done,
                               !.pc = IF call.first THEN "submit" ELSE "refresh",
                               !.todo = In(g, IF call.first THEN "queued" ELSE "running")]
             /\ UNCHANGED <<routed, attempts, hosts, closed>>

\* Nothing to return yet: the pending handles are polled again.
NextRound == /\ Swept
             /\ call.next = {}
             /\ ~Complete
             /\ LET rest == Groups(call.waited \ Done)
                IN  \E g \in rest :
                       call' = [call EXCEPT !.next = rest \ {g}, !.child = g, !.done = Done,
                                           !.first = FALSE, !.todo = In(g, "running")]
             /\ UNCHANGED <<routed, attempts, hosts, closed>>

---------------------------------------------------------------------------
(* cancel, of an attempt that is not terminal                              *)

\* A scope problem makes the result of a cancelled attempt a failure.
Cancelled(h) == /\ ~(attempts[h].starting /\ ~attempts[h].process)
                /\ Drained(h)
                /\ \E r \in {"cancelled", "failed"} : Ends(h, "cancelled", r)

\* Who owns the host is unknown, it survives, or an interrupt comes first or
\* between the status and the result.
CancelRaises(h) == \/ Undrained(h) /\ UNCHANGED attempts
                   \/ UNCHANGED <<attempts, hosts>>
                   \/ /\ ~(attempts[h].starting /\ ~attempts[h].process)
                      /\ Drained(h)
                      /\ Ends(h, "cancelled", "none")

\* A KeyboardInterrupt, or an exception the steps above do not name.
Interrupt == /\ call.pc \in {"submit", "prompt", "refresh"}
             /\ Unwinding
             /\ UNCHANGED <<routed, attempts, hosts, closed>>

\* Mutant: a cancellation that fails is passed over.
UnwindOneQuietly(h) == /\ At("unwind")
                       /\ h \in call.todo
                       /\ Cancelled(h) \/ CancelRaises(h)
                       /\ Visited(h)
                       /\ UNCHANGED <<routed, closed>>

UnwindOne(h) == /\ At("unwind")
                /\ h \in call.todo
                /\ \/ Cancelled(h) /\ Visited(h)
                   \/ CancelRaises(h) /\ call' = [call EXCEPT !.todo = @ \ {h}, !.lost = TRUE]
                /\ UNCHANGED <<routed, closed>>

\* The child raises: the interruption it met, or that it left hosts behind.
ChildRaises == /\ At("unwind")
               /\ call.todo = {}
               /\ closed' = IF call.lost THEN "unconfirmed" ELSE "interrupted"
               /\ call' = [call EXCEPT !.pc = IF routed THEN "routed" ELSE "idle",
                                       !.todo = IF routed THEN Unsettled(call.waited) ELSE {},
                                       !.lost = FALSE]
               /\ UNCHANGED <<routed, attempts, hosts>>

\* RoutedDispatcher.wait cancels the other groups as well, and hushes it up
\* when that fails.
RoutedUnwind(h) == /\ At("routed")
                   /\ h \in call.todo
                   /\ Cancelled(h) \/ CancelRaises(h)
                   /\ Visited(h)
                   /\ UNCHANGED <<routed, closed>>

RoutedRaises == /\ At("routed")
                /\ call.todo = {}
                /\ call' = [call EXCEPT !.pc = "idle"]
                /\ UNCHANGED <<routed, attempts, hosts, closed>>

\* No child is in its wait when the interrupt comes: it raises no objection, and
\* the failures of the cancellations that follow are hushed up.
RoutedInterrupted(S) == /\ call' = [Idle EXCEPT !.pc = "routed", !.todo = Unsettled(S),
                                                !.waited = S]
                        /\ closed' = "interrupted"
                        /\ UNCHANGED <<routed, attempts, hosts>>

\* Before the first child's wait, or after one: between two, or in the sleep of a round.
InterruptEntering(S) == /\ Free /\ closed = "no"
                        /\ routed
                        /\ S # {}
                        /\ RoutedInterrupted(S)
InterruptBetween == /\ Swept
                    /\ routed
                    /\ RoutedInterrupted(call.waited)

\* A second interrupt, between two cancellations: whoever winds up stops there,
\* and only the routed wait around it goes on.
InterruptAgain == /\ call.pc \in {"unwind", "routed"}
                  /\ closed' = "again"
                  /\ call' = IF At("unwind") /\ routed
                             THEN [call EXCEPT !.pc = "routed", !.lost = FALSE,
                                               !.todo = Unsettled(call.waited)]
                             ELSE [call EXCEPT !.pc = "idle", !.lost = FALSE, !.todo = {}]
                  /\ UNCHANGED <<routed, attempts, hosts>>

---------------------------------------------------------------------------
(* cancel called by the coordinator                                        *)

MayCancel(h) == ~Terminal(h)

Cancel(h) == /\ Free
             /\ Status(h) # "none"
             /\ MayCancel(h)
             /\ Cancelled(h) \/ CancelRaises(h)
             /\ UNCHANGED <<routed, call, closed>>

---------------------------------------------------------------------------
Init == /\ routed \in BOOLEAN
        /\ attempts = [h \in Handle |-> Unused]
        /\ hosts = [h \in Handle |-> "none"]
        /\ call = Idle
        /\ closed = "no"

\* The steps of a wait.
Step == \/ \E h \in Handle : \/ StartHost(h) \/ StartRefused(h)
                             \/ StartUnconfirmed(h) \/ StartInterrupted(h)
                             \/ SubmitPrompt(h) \/ SubmitFails(h) \/ Refresh(h)
                             \/ UnwindOne(h) \/ RoutedUnwind(h)
        \/ StartPolling \/ Return \/ NextGroup \/ NextRound
        \/ ChildRaises \/ RoutedRaises

Next == \/ \E w \in Workers : Spawn(w)
        \/ \E S \in SUBSET Latest, mode \in {"all", "first"}, bounded \in BOOLEAN :
              Wait(S, mode, bounded)
        \/ \E S \in SUBSET Latest : InterruptEntering(S)
        \/ \E h \in Latest : Retry(h) \/ Cancel(h)
        \/ \E h \in Handle : Fork(h) \/ Exit(h) \/ Overrun(h)
        \/ Step \/ Interrupt \/ InterruptBetween \/ InterruptAgain

\* A wait goes on, and the clock with it.  Hosts need never exit.
Spec == /\ Init /\ [][Next]_vars
        /\ WF_vars(Step)
        /\ WF_vars(\E h \in Handle : Overrun(h))

---------------------------------------------------------------------------
TypeOK == /\ routed \in BOOLEAN
          /\ attempts \in [Handle -> Attempt]
          /\ hosts \in [Handle -> {"none", "solo", "family", "orphans", "gone"}]
          /\ call.pc \in {"idle", "submit", "prompt", "refresh", "unwind", "routed"}
          /\ call.todo \subseteq call.waited /\ call.child \subseteq call.waited
          /\ call.done \subseteq call.waited /\ call.waited \subseteq Handle
          /\ closed \in {"no", "interrupted", "unconfirmed", "again"}

\* A native process is never left to itself: while anyone in its group lives,
\* its attempt is open and holds its token, or is known to have lost it.
\* Descendants outlive neither a result nor a retry (_refresh, poll, retry).
LiveHostsAreOwned == \A h \in Handle : Alive(h) =>
    /\ Status(h) \in {"queued", "running"}
    /\ attempts[h].process \/ attempts[h].starting

\* An adapter's wait that passes on the one interruption it met has ended every
\* host it waited for; otherwise it raises that the termination is unconfirmed.
\* A routed wait promises that for the group whose wait was interrupted only, and
\* for none when the interrupt came between two child waits; nothing is promised
\* when the winding up is interrupted as well.
InterruptionsConfirmed == closed = "interrupted" =>
    \A h \in IF routed THEN call.child ELSE call.waited : ~Alive(h)

\* Every wait returns or raises, also one without a timeout on hosts that never
\* exit: the hard timeout of each attempt ends it, whichever group it is in.
WaitsReturn == ~Free ~> Free

---------------------------------------------------------------------------
Statuses == [h \in Handle |-> Status(h)]

Contract == INSTANCE DispatchContract WITH status <- Statuses

\* Whatever is interrupted, attempts keep the promise of dispatch.py.
ImplementsContract == Contract!ContractSpec
=============================================================================
