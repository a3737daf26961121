------------------------ MODULE ProcessDispatchProofs ------------------------
(* No host is left to itself, an interruption passed on is a confirmed one *)
(* and attempts keep the contract of dispatch.py, for any workers,         *)
(* adapters and numbers of attempts.                                       *)
EXTENDS ProcessDispatch, TLAPS

USE AttemptAssumption

Hosts == {"none", "solo", "family", "orphans", "gone"}

Call == [pc : {"idle", "submit", "prompt", "refresh", "unwind", "routed"},
         todo : SUBSET Handle, child : SUBSET Handle, next : SUBSET (SUBSET Handle),
         waited : SUBSET Handle, done : SUBSET Handle, mode : {"all", "first"},
         bounded : BOOLEAN, first : BOOLEAN, lost : BOOLEAN]

Typed == /\ routed \in BOOLEAN
         /\ attempts \in [Handle -> Attempt]
         /\ hosts \in [Handle -> Hosts]
         /\ call \in Call
         /\ closed \in {"no", "interrupted", "unconfirmed", "again"}

\* A pass submits or polls before anything was closed; an attempt is visited
\* in the status that its step of the pass needs.
VisitsFit ==
    /\ At("idle") => call.todo = {}
    /\ \A h \in call.waited : Status(h) # "none"
    /\ At("routed") => closed # "no"
    /\ call.pc \in {"submit", "prompt", "refresh", "unwind"} =>
         closed = "no" /\ call.todo \subseteq call.child
    /\ \A h \in call.todo :
         /\ At("submit") => Status(h) = "queued"
         /\ At("prompt") => Status(h) = "queued" /\ attempts[h].process /\ call.todo = {h}
         /\ At("refresh") => Status(h) = "running"
         /\ call.pc \in {"unwind", "routed"} => Status(h) \in {"queued", "running"}

\* While nothing was closed, only the attempt being prompted has a host and
\* is still queued.
QueuedAreUnstarted ==
    \A h \in Handle : Status(h) \in {"none", "queued"} =>
        \/ hosts[h] = "none"
        \/ Status(h) = "queued" /\ (closed # "no" \/ At("unwind"))
        \/ Status(h) = "queued" /\ At("prompt") /\ h \in call.todo

\* What is to be unwound, or was left unconfirmed, is all that may be alive.
UnwoundAreEnded ==
    /\ ~routed => /\ call.next = {}
                  /\ ~At("idle") => \A h \in call.waited : h \in call.child \/ Terminal(h)
    /\ call.child \subseteq call.waited /\ \A g \in call.next : g \subseteq call.waited
    /\ \A h \in call.done : Terminal(h)
    /\ At("unwind") /\ ~call.lost => \A h \in call.child \ call.todo : ~Alive(h)

DispatchInvariant == /\ Typed /\ VisitsFit /\ QueuedAreUnstarted
                     /\ LiveHostsAreOwned /\ UnwoundAreEnded

\* A step that ends at most one attempt, with its host, and starts nothing.
SettlesAtMost(h) ==
    /\ attempts' \in [Handle -> Attempt]
    /\ hosts' \in [Handle -> Hosts]
    /\ \A k \in Handle :
         /\ Alive(k)' => Alive(k)
         /\ hosts[k] = "none" => hosts'[k] = "none"
         /\ \/ /\ Status(k)' = Status(k)
               /\ attempts'[k].process = attempts[k].process
               /\ attempts'[k].starting = attempts[k].starting
            \/ /\ k = h /\ Terminal(k)' /\ ~Alive(k)'
               /\ Status(k) \in {"queued", "running"}
               /\ Status(k)' = "succeeded" => Status(k) = "running"

\* The next attempt of a worker is another handle, and is not in use yet when
\* the one before it is the latest.
LEMMA FollowingHandle ==
    ASSUME NEW h \in Handle, h.n < MaxAttempts
    PROVE  /\ [h EXCEPT !.n = @ + 1] \in Handle
           /\ [h EXCEPT !.n = @ + 1] # h
           /\ h \in Latest => Status([h EXCEPT !.n = @ + 1]) = "none"
<1>1. h.n \in 1 .. MaxAttempts /\ h.worker \in Workers
  BY DEF Handle
<1>2. h.n + 1 \in h.n + 1 .. MaxAttempts /\ h.n + 1 # h.n /\ h.n + 1 \in 1 .. MaxAttempts
  BY <1>1
<1>3. [h EXCEPT !.n = @ + 1] = [h EXCEPT !.n = h.n + 1]
  BY DEF Handle
<1>4. [h EXCEPT !.n = h.n + 1] \in Handle /\ [h EXCEPT !.n = h.n + 1].n = h.n + 1
  BY <1>1, <1>2 DEF Handle
<1> QED
  BY <1>2, <1>3, <1>4 DEF Latest

\* What the helpers of a step do to the hosts and to the attempt they end.
LEMMA DrainedEnds ==
    ASSUME NEW h \in Handle, hosts \in [Handle -> Hosts], Drained(h)
    PROVE  /\ hosts' \in [Handle -> Hosts]
           /\ ~Alive(h)'
           /\ \A k \in Handle : /\ Alive(k)' => Alive(k)
                                /\ hosts[k] = "none" => hosts'[k] = "none"
BY DEF Drained, Alive, Hosts

\* A group that does not die in time stays as it is: no host begins.
LEMMA UndrainedStartsNothing ==
    ASSUME NEW h \in Handle, hosts \in [Handle -> Hosts], Undrained(h)
    PROVE  /\ hosts' \in [Handle -> Hosts]
           /\ \A k \in Handle : /\ Alive(k)' => Alive(k)
                                /\ hosts[k] = "none" => hosts'[k] = "none"
BY DEF Undrained, Alive, Hosts

\* Writing a terminal status ends that attempt and no other.
LEMMA EndsOneAttempt ==
    ASSUME NEW h \in Handle, attempts \in [Handle -> Attempt],
           NEW s \in {"succeeded", "failed", "cancelled"},
           NEW r \in {"none", "succeeded", "failed", "cancelled"},
           Ends(h, s, r)
    PROVE  /\ attempts' \in [Handle -> Attempt]
           /\ Status(h)' = s
           /\ \A k \in Handle : /\ attempts'[k].process = attempts[k].process
                                /\ attempts'[k].starting = attempts[k].starting
                                /\ k # h => Status(k)' = Status(k)
<1>1. attempts' = [attempts EXCEPT ![h] =
            [attempts[h] EXCEPT !.status = s, !.result = r, !.overdue = FALSE]]
  BY DEF Ends
<1>2. attempts[h] \in Attempt
  OBVIOUS
<1>3. /\ [attempts[h] EXCEPT !.status = s, !.result = r, !.overdue = FALSE] \in Attempt
      /\ attempts'[h].status = s
      /\ attempts'[h].process = attempts[h].process
      /\ attempts'[h].starting = attempts[h].starting
  BY <1>1, <1>2 DEF Attempt
<1> QED
  BY <1>1, <1>3 DEF Status

\* An attempt that ends once its group is drained leaves no host of its own.
LEMMA EndedWithItsHost ==
    ASSUME NEW h \in Handle, Typed, Status(h) \in {"queued", "running"},
           NEW s \in {"failed", "succeeded", "cancelled"},
           NEW r \in {"none", "succeeded", "failed", "cancelled"},
           s = "succeeded" => Status(h) = "running",
           Drained(h), Ends(h, s, r)
    PROVE  SettlesAtMost(h)
BY DrainedEnds, EndsOneAttempt DEF Typed, SettlesAtMost, Terminal

\* A cancellation that raises ends no attempt and starts no host.
LEMMA NothingEnded ==
    ASSUME NEW h \in Handle, Typed, UNCHANGED attempts,
           Undrained(h) \/ UNCHANGED hosts
    PROVE  SettlesAtMost(h)
BY UndrainedStartsNothing DEF Typed, SettlesAtMost, Status, Alive

\* Cancelling and refreshing, as well as they succeed.
LEMMA CancelSettles ==
    ASSUME NEW h \in Handle, Typed, Status(h) \in {"queued", "running"},
           Cancelled(h) \/ CancelRaises(h)
    PROVE  /\ SettlesAtMost(h)
           /\ Cancelled(h) => ~Alive(h)'
BY DrainedEnds, EndedWithItsHost, NothingEnded DEF Cancelled, CancelRaises, Typed

\* A refresh settles at most the attempt it polls.
LEMMA RefreshSettles ==
    ASSUME NEW h \in Handle, Typed, Status(h) = "running",
           Refreshed(h) \/ RefreshRaises(h)
    PROVE  SettlesAtMost(h)
BY EndedWithItsHost, NothingEnded
   DEF Refreshed, RefreshRaises, StillRuns, HardTimeout, Poll

\* An attempt that is open and has a host keeps its token.
LEMMA SettlingKeepsOwners ==
    ASSUME NEW h \in Handle, LiveHostsAreOwned, SettlesAtMost(h)
    PROVE  LiveHostsAreOwned'
BY DEF LiveHostsAreOwned, SettlesAtMost

\* The call after an unwinding began.
LEMMA Unwinds ==
    ASSUME NEW open \in SUBSET Handle, call \in Call, UnwindOver(open)
    PROVE  /\ call' \in Call
           /\ call'.pc = "unwind" /\ call'.todo = open /\ ~call'.lost
           /\ call'.child = call.child /\ call'.waited = call.waited
           /\ call'.next = {} /\ call'.done = {}
BY DEF UnwindOver, Idle, Call

\* A visited attempt moves from those still to come to those done.
LEMMA Visits ==
    ASSUME NEW h \in Handle, call \in Call, Visited(h)
    PROVE  /\ call' \in Call
           /\ call'.pc = call.pc /\ call'.todo = call.todo \ {h} /\ call'.lost = call.lost
           /\ call'.child = call.child /\ call'.waited = call.waited
           /\ call'.next = call.next /\ call'.done = call.done
BY DEF Visited, Call

\* Nothing is started or visited before the first call.
LEMMA DispatchInit == Init => DispatchInvariant
<1> SUFFICES ASSUME Init PROVE DispatchInvariant
  OBVIOUS
<1>1. Typed /\ call.pc = "idle" /\ call.todo = {} /\ call.next = {} /\ call.child = {}
  BY DEF Init, Typed, Idle, Call, Attempt, Unused, Hosts
<1>3. call.waited = {} /\ call.done = {}
  BY DEF Init, Idle
<1>2. \A h \in Handle : hosts[h] = "none"
  BY DEF Init
<1> QED
  BY <1>1, <1>2, <1>3 DEF DispatchInvariant, VisitsFit, QueuedAreUnstarted, LiveHostsAreOwned,
                    UnwoundAreEnded, Alive, At

\* A step that settles one attempt at most and leaves the call idle, or visits it.
LEMMA VisitingKeeps ==
    ASSUME NEW h \in Handle, DispatchInvariant, UNCHANGED <<routed, closed>>, SettlesAtMost(h),
           call' \in Call,
           \/ UNCHANGED call /\ (h \in call.todo => Status(h)' = Status(h))
           \/ /\ call.pc \in {"submit", "refresh", "unwind", "routed"}
              /\ call'.pc = call.pc /\ call'.todo = call.todo \ {h}
              /\ call'.child = call.child /\ call'.waited = call.waited
              /\ call'.next = call.next /\ call'.done = call.done
              /\ At("unwind") /\ ~call'.lost => ~call.lost /\ ~Alive(h)'
    PROVE  DispatchInvariant'
<1> USE DEF DispatchInvariant, At
<1>1. Typed'
  BY DEF Typed, SettlesAtMost
<1>2. VisitsFit'
  <2>1. call.todo \subseteq Handle /\ call'.todo \subseteq call.todo
    BY DEF Typed, Call
  <2>2. ASSUME NEW k \in call'.todo
        PROVE  /\ Status(k)' = Status(k)
               /\ attempts'[k].process = attempts[k].process
    <3>1. k \in Handle /\ k \in call.todo
      BY <2>1
    <3>2. k = h => Status(k)' = Status(k)
      BY <3>1
    <3> QED
      BY <3>1, <3>2 DEF SettlesAtMost, Terminal, VisitsFit
  <2>3. \A k \in call'.waited : Status(k)' # "none"
    BY DEF VisitsFit, SettlesAtMost, Terminal, Typed, Call
  <2> QED
    BY <2>1, <2>2, <2>3 DEF VisitsFit
<1>3. QueuedAreUnstarted'
  BY DEF QueuedAreUnstarted, SettlesAtMost, Terminal
<1>4. LiveHostsAreOwned'
  BY SettlingKeepsOwners
<1>5. UnwoundAreEnded'
  BY DEF UnwoundAreEnded, SettlesAtMost, Terminal, Typed, Call
<1> QED
  BY <1>1, <1>2, <1>3, <1>4, <1>5

\* A step by which a pass begins to unwind what is still open.
LEMMA UnwindingKeeps ==
    ASSUME DispatchInvariant, UNCHANGED <<routed, closed>>,
           call.pc \in {"submit", "prompt", "refresh"},
           Typed', LiveHostsAreOwned',
           \A k \in Handle :
             /\ (Status(k)' = "none") = (Status(k) = "none")
             /\ hosts[k] = "none" /\ Status(k) = "none" => hosts'[k] = "none"
             /\ Terminal(k) => Terminal(k)',
           UnwindOver({k \in call.child : ~Terminal(k)'})
    PROVE  DispatchInvariant'
<1> USE DEF DispatchInvariant, At
<1>1. {k \in call.child : ~Terminal(k)'} \in SUBSET Handle /\ call \in Call
  BY DEF Typed, Call
<1>2. /\ call'.pc = "unwind" /\ call'.todo = {k \in call.child : ~Terminal(k)'}
      /\ call'.child = call.child /\ call'.waited = call.waited
      /\ call'.next = {} /\ call'.done = {}
  BY <1>1, Unwinds
<1>3. \A k \in Handle : Status(k)' \in {"none", "queued", "running"} \/ Terminal(k)'
  BY DEF Typed, Attempt, Status, Terminal
<1>4. call.child \subseteq call.waited /\ call.waited \subseteq Handle
  BY DEF UnwoundAreEnded, Typed, Call
<1>5. VisitsFit'
  BY <1>2, <1>3, <1>4 DEF VisitsFit
<1>6. QueuedAreUnstarted'
  BY <1>2 DEF QueuedAreUnstarted
<1>7. UnwoundAreEnded'
  BY <1>2, <1>4 DEF UnwoundAreEnded, LiveHostsAreOwned, Terminal
<1> QED
  BY <1>5, <1>6, <1>7

\* A reservation of an attempt that was not in use.
LEMMA LaunchKeeps ==
    ASSUME NEW h \in Handle, DispatchInvariant, At("idle"), Status(h) = "none", Launch(h)
    PROVE  DispatchInvariant'
<1> USE DEF DispatchInvariant, At
<1>1. /\ attempts' \in [Handle -> Attempt]
      /\ Status(h)' = "queued"
      /\ \A k \in Handle \ {h} : attempts'[k] = attempts[k]
  BY DEF Launch, Typed, Unused, Attempt, Status
<1>2. UNCHANGED <<routed, hosts, call, closed>>
  BY DEF Launch
<1>3. hosts[h] = "none"
  BY DEF QueuedAreUnstarted
<1>4. Typed'
  BY <1>1, <1>2 DEF Typed
<1>5. VisitsFit'
  BY <1>1, <1>2 DEF VisitsFit, Status, Typed, Call
<1>6. QueuedAreUnstarted'
  BY <1>1, <1>2, <1>3 DEF QueuedAreUnstarted, Status
<1>7. LiveHostsAreOwned'
  BY <1>1, <1>2, <1>3 DEF LiveHostsAreOwned, Status, Alive
<1>8. UnwoundAreEnded'
  <2>1. call.done \subseteq Handle /\ call.waited \subseteq Handle /\ h \notin call.done
    BY DEF Typed, Call, UnwoundAreEnded, Terminal
  <2> QED
    BY <1>1, <1>2, <2>1 DEF UnwoundAreEnded, Terminal, Status
<1> QED
  BY <1>4, <1>5, <1>6, <1>7, <1>8

\* A step of the call alone.
LEMMA CallingKeeps ==
    ASSUME DispatchInvariant, UNCHANGED <<routed, attempts, hosts>>,
           call' \in Call, VisitsFit', UnwoundAreEnded',
           closed' \in {"no", "interrupted", "unconfirmed", "again"},
           \/ closed' # "no"
           \/ closed = "no" /\ call.pc \notin {"unwind", "prompt"}
    PROVE  DispatchInvariant'
<1> USE DEF DispatchInvariant
<1>1. Typed'
  BY DEF Typed
<1>2. QueuedAreUnstarted'
  BY DEF QueuedAreUnstarted, Status, At
<1>3. LiveHostsAreOwned'
  BY DEF LiveHostsAreOwned, Status, Alive
<1> QED
  BY <1>1, <1>2, <1>3

\* What a routed wait winds up alone is all it waited for.
LEMMA RoutedInterruptKeeps ==
    ASSUME DispatchInvariant, NEW S \in SUBSET Handle, \A h \in S : Status(h) # "none",
           routed, call.pc \notin {"unwind", "prompt"}, RoutedInterrupted(S)
    PROVE  DispatchInvariant'
<1> USE DEF DispatchInvariant, At
<1>1. /\ UNCHANGED <<routed, attempts, hosts>> /\ closed' = "interrupted"
      /\ call' \in Call
      /\ call'.pc = "routed" /\ call'.todo = Unsettled(S) /\ call'.waited = S
      /\ call'.child = {} /\ call'.next = {} /\ call'.done = {}
  BY DEF RoutedInterrupted, Idle, Call, Unsettled
<1>2. \A h \in Unsettled(S) : Status(h) \in {"queued", "running"}
  BY DEF Unsettled, Terminal, Typed, Attempt, Status
<1>3. VisitsFit'
  BY <1>1, <1>2 DEF VisitsFit, Status
<1>4. UnwoundAreEnded'
  BY <1>1 DEF UnwoundAreEnded
<1> QED
  BY <1>1, <1>3, <1>4, CallingKeeps

\* Every step of a wait, of a coordinator or of a host keeps all of this.
LEMMA DispatchSteps == DispatchInvariant /\ [Next]_vars => DispatchInvariant'
<1> USE DEF DispatchInvariant, At
<1> SUFFICES ASSUME DispatchInvariant, [Next]_vars PROVE DispatchInvariant'
  OBVIOUS
<1>0. /\ call \in Call /\ call.todo \subseteq Handle /\ call.waited \subseteq Handle
      /\ call.child \subseteq call.waited /\ call.done \subseteq Handle
      /\ \A h \in Handle : Terminal(h) => ~Alive(h)
  BY DEF Typed, Call, UnwoundAreEnded, LiveHostsAreOwned, Terminal
<1>1. ASSUME NEW w \in Workers, Spawn(w) PROVE DispatchInvariant'
  <2>1. [worker |-> w, n |-> 1] \in Handle
    BY DEF Handle
  <2> QED
    BY <1>1, <2>1, LaunchKeeps DEF Spawn, Free
<1>2. ASSUME NEW S \in SUBSET Latest, NEW mode \in {"all", "first"}, NEW bounded \in BOOLEAN,
             Wait(S, mode, bounded)
      PROVE  DispatchInvariant'
  <2>1. PICK g \in Groups(S) :
          call' = [Idle EXCEPT !.pc = "submit", !.todo = In(g, "queued"), !.child = g,
                               !.next = Groups(S) \ {g}, !.waited = S,
                               !.mode = mode, !.bounded = bounded, !.first = TRUE]
    BY <1>2 DEF Wait
  <2>2. /\ S \subseteq Handle /\ \A h \in S : Status(h) # "none"
        /\ Groups(S) \subseteq SUBSET S
        /\ ~routed => Groups(S) = {S}
    BY DEF Latest, Groups
  <2>3. /\ call' \in Call
        /\ call'.pc = "submit" /\ call'.todo = In(g, "queued") /\ call'.child = g
        /\ call'.waited = S /\ call'.next = Groups(S) \ {g} /\ call'.done = {}
    BY <2>1, <2>2 DEF Idle, Call, In
  <2>4. VisitsFit'
    BY <1>2, <2>2, <2>3 DEF VisitsFit, Wait, In, Status
  <2>5. UnwoundAreEnded'
    BY <1>2, <2>2, <2>3 DEF UnwoundAreEnded, Wait
  <2> QED
    BY <1>2, <2>3, <2>4, <2>5, CallingKeeps DEF Wait, Free
<1>3. ASSUME NEW h \in Latest, Retry(h) PROVE DispatchInvariant'
  <2>1. h \in Handle
    BY DEF Latest
  <2> QED
    BY <1>3, <2>1, FollowingHandle, LaunchKeeps DEF Retry, Free
<1>4. ASSUME NEW h \in Latest, Cancel(h) PROVE DispatchInvariant'
  <2>1. h \in Handle /\ Status(h) \in {"queued", "running"}
    BY <1>4 DEF Latest, Cancel, MayCancel, Typed, Attempt, Terminal, Status
  <2>2. SettlesAtMost(h)
    BY <1>4, <2>1, CancelSettles DEF Cancel
  <2> QED
    BY <1>0, <1>4, <2>1, <2>2, VisitingKeeps DEF Cancel, Free, VisitsFit
<1>5. ASSUME NEW h \in Handle, Fork(h) \/ Exit(h) \/ Overrun(h) PROVE DispatchInvariant'
  <2>1. /\ hosts' \in [Handle -> Hosts]
        /\ \A k \in Handle : /\ Alive(k)' => Alive(k)
                             /\ hosts[k] = "none" => hosts'[k] = "none"
    BY <1>5 DEF Fork, Exit, Overrun, Typed, Hosts, Alive
  <2>2. /\ attempts' \in [Handle -> Attempt]
        /\ \A k \in Handle : /\ Status(k)' = Status(k)
                             /\ attempts'[k].process = attempts[k].process
                             /\ attempts'[k].starting = attempts[k].starting
    <3>1. CASE UNCHANGED attempts
      BY <3>1 DEF Typed, Status
    <3>2. CASE attempts' = [attempts EXCEPT ![h].overdue = TRUE]
      <4>1. attempts' = [attempts EXCEPT ![h] = [attempts[h] EXCEPT !.overdue = TRUE]]
        BY <3>2
      <4>2. attempts[h] \in Attempt
        BY DEF Typed
      <4>3. /\ [attempts[h] EXCEPT !.overdue = TRUE] \in Attempt
            /\ [attempts[h] EXCEPT !.overdue = TRUE].status = attempts[h].status
            /\ [attempts[h] EXCEPT !.overdue = TRUE].process = attempts[h].process
            /\ [attempts[h] EXCEPT !.overdue = TRUE].starting = attempts[h].starting
        BY <4>2 DEF Attempt
      <4> QED
        BY <4>1, <4>3 DEF Typed, Status
    <3> QED
      BY <1>5, <3>1, <3>2 DEF Fork, Exit, Overrun
  <2>3. SettlesAtMost(h) /\ Status(h)' = Status(h)
    BY <2>1, <2>2 DEF SettlesAtMost
  <2> QED
    BY <1>0, <1>5, <2>3, VisitingKeeps DEF Fork, Exit, Overrun
<1>6. ASSUME NEW h \in Handle, StartHost(h) PROVE DispatchInvariant'
  <2>1. /\ call' \in Call
        /\ call'.pc = "prompt" /\ call'.todo = {h} /\ call'.child = call.child
        /\ call'.waited = call.waited
        /\ call'.next = call.next /\ call'.done = call.done
    BY <1>0, <1>6 DEF StartHost, Call
  <2>2. /\ attempts' \in [Handle -> Attempt]
        /\ attempts'[h].process
        /\ \A k \in Handle : Status(k)' = Status(k)
        /\ \A k \in Handle \ {h} : attempts'[k] = attempts[k]
    BY <1>6 DEF StartHost, Typed, Attempt, Status
  <2>3. /\ hosts' \in [Handle -> Hosts]
        /\ \A k \in Handle \ {h} : hosts'[k] = hosts[k]
    BY <1>6 DEF StartHost, Typed, Hosts
  <2>4. UNCHANGED <<routed, closed>> /\ call.pc = "submit" /\ h \in call.todo
    BY <1>6 DEF StartHost, Submitting
  <2>5. Status(h) = "queued" /\ h \in call.child /\ closed = "no"
    BY <2>4 DEF VisitsFit
  <2>6. VisitsFit'
    BY <1>0, <2>1, <2>2, <2>4, <2>5 DEF VisitsFit
  <2>7. QueuedAreUnstarted'
    BY <2>1, <2>2, <2>3, <2>4, <2>5 DEF QueuedAreUnstarted
  <2>8. LiveHostsAreOwned'
    BY <2>2, <2>3, <2>5 DEF LiveHostsAreOwned, Alive
  <2>9. UnwoundAreEnded'
    BY <1>0, <2>1, <2>2, <2>4 DEF UnwoundAreEnded, Terminal
  <2> QED
    BY <2>1, <2>2, <2>3, <2>4, <2>6, <2>7, <2>8, <2>9 DEF Typed
<1>7. ASSUME NEW h \in Handle, StartRefused(h) PROVE DispatchInvariant'
  <2>1. h \in call.todo /\ Status(h) = "queued" /\ hosts[h] = "none"
    BY <1>7 DEF StartRefused, Submitting, VisitsFit, QueuedAreUnstarted
  <2>2. SettlesAtMost(h)
    BY <1>7, <2>1, EndsOneAttempt DEF StartRefused, SettlesAtMost, Typed, Terminal, Alive
  <2> QED
    BY <1>0, <1>7, <2>2, Visits, VisitingKeeps DEF StartRefused, Submitting
<1>8. ASSUME NEW h \in Handle, StartUnconfirmed(h) \/ StartInterrupted(h)
      PROVE  DispatchInvariant'
  <2>1. /\ UNCHANGED <<routed, closed>> /\ Unwinding
        /\ call.pc = "submit" /\ h \in call.todo /\ Status(h) = "queued"
    BY <1>8 DEF StartUnconfirmed, StartInterrupted, Submitting, VisitsFit
  <2>2. /\ attempts' \in [Handle -> Attempt]
        /\ attempts'[h].process \/ attempts'[h].starting
        /\ \A k \in Handle : Status(k)' = Status(k)
        /\ \A k \in Handle \ {h} : attempts'[k] = attempts[k]
    <3>1. \/ attempts' = [attempts EXCEPT ![h].process = TRUE]
          \/ attempts' = [attempts EXCEPT ![h].starting = TRUE]
      BY <1>8 DEF StartUnconfirmed, StartInterrupted
    <3>2. CASE attempts' = [attempts EXCEPT ![h].process = TRUE]
      BY <3>2 DEF Typed, Attempt, Status
    <3>3. CASE attempts' = [attempts EXCEPT ![h].starting = TRUE]
      BY <3>3 DEF Typed, Attempt, Status
    <3> QED
      BY <3>1, <3>2, <3>3
  <2>3. /\ hosts' \in [Handle -> Hosts]
        /\ \A k \in Handle \ {h} : hosts'[k] = hosts[k]
    BY <1>8 DEF StartUnconfirmed, StartInterrupted, Typed, Hosts
  <2>4. LiveHostsAreOwned'
    BY <2>1, <2>2, <2>3 DEF LiveHostsAreOwned, Alive
  <2>5. Unsettled(call.child) = {k \in call.child : ~Terminal(k)'}
    BY <1>0, <2>2 DEF Unsettled, Terminal
  <2>6. Typed'
    BY <1>0, <2>1, <2>2, <2>3, <2>5, Unwinds DEF Typed, Unwinding
  <2> QED
    BY <2>1, <2>2, <2>3, <2>4, <2>5, <2>6, UnwindingKeeps DEF Unwinding, Terminal
<1>9. ASSUME NEW h \in Handle, SubmitPrompt(h) PROVE DispatchInvariant'
  <2>1. /\ UNCHANGED <<routed, hosts, closed>> /\ closed = "no"
        /\ call.pc = "prompt" /\ call.todo = {h} /\ attempts[h].process
        /\ Status(h) = "queued"
    BY <1>9 DEF SubmitPrompt, Prompting, VisitsFit
  <2>2. /\ attempts' \in [Handle -> Attempt]
        /\ Status(h)' = "running" /\ attempts'[h].process
        /\ \A k \in Handle \ {h} : attempts'[k] = attempts[k]
    BY <1>9, <2>1 DEF SubmitPrompt, Typed, Attempt, Status
  <2>3. /\ call' \in Call
        /\ call'.pc = "submit" /\ call'.todo = In(call.child, "queued") \ {h}
        /\ call'.child = call.child /\ call'.waited = call.waited
        /\ call'.next = call.next /\ call'.done = call.done
    BY <1>0, <1>9, <2>1 DEF SubmitPrompt, Onward, Call, In
  <2>4. VisitsFit'
    BY <1>0, <2>1, <2>2, <2>3 DEF VisitsFit, In, Status
  <2>5. QueuedAreUnstarted'
    BY <2>1, <2>2, <2>3 DEF QueuedAreUnstarted, Status
  <2>6. LiveHostsAreOwned'
    BY <2>1, <2>2 DEF LiveHostsAreOwned, Alive, Status
  <2>7. UnwoundAreEnded'
    BY <1>0, <2>1, <2>2, <2>3 DEF UnwoundAreEnded, Terminal, Status
  <2> QED
    BY <2>1, <2>2, <2>3, <2>4, <2>5, <2>6, <2>7 DEF Typed
<1>10. ASSUME NEW h \in Handle, SubmitFails(h) PROVE DispatchInvariant'
  <2>1. /\ UNCHANGED <<routed, closed>> /\ closed = "no"
        /\ call.pc = "prompt" /\ call.todo = {h} /\ Status(h) = "queued"
    BY <1>10 DEF SubmitFails, Prompting, VisitsFit
  <2>2. SettlesAtMost(h)
    BY <1>10, <2>1, EndedWithItsHost, NothingEnded DEF SubmitFails
  <2>3. CASE Drained(h) /\ Ends(h, "failed", "failed") /\ Onward
    <3>1. Status(h)' = "failed" /\ ~Alive(h)'
      BY <2>3, EndsOneAttempt, DrainedEnds DEF Typed
    <3>2. /\ call' \in Call
          /\ call'.pc = "submit" /\ call'.todo = In(call.child, "queued") \ {h}
          /\ call'.child = call.child /\ call'.waited = call.waited
        /\ call'.next = call.next /\ call'.done = call.done
      BY <1>0, <2>1, <2>3 DEF Onward, Call, In
    <3>3. \A k \in Handle \ {h} : Status(k)' = Status(k)
      BY <2>2 DEF SettlesAtMost
    <3>4. VisitsFit'
      BY <1>0, <2>1, <3>1, <3>2, <3>3 DEF VisitsFit, In
    <3>5. QueuedAreUnstarted'
      BY <2>1, <2>2, <3>1, <3>3 DEF QueuedAreUnstarted, SettlesAtMost
    <3>6. UnwoundAreEnded'
      BY <1>0, <2>1, <3>1, <3>2, <3>3 DEF UnwoundAreEnded, Terminal
    <3> QED
      BY <2>1, <2>2, <3>2, <3>4, <3>5, <3>6, SettlingKeepsOwners DEF Typed, SettlesAtMost
  <2>4. CASE Undrained(h) /\ UNCHANGED attempts /\ Unwinding
    <3>1. Unsettled(call.child) = {k \in call.child : ~Terminal(k)'}
      BY <2>4 DEF Unsettled, Terminal, Status
    <3>2. Typed'
      BY <1>0, <2>1, <2>2, <2>4, <3>1, Unwinds DEF Typed, Unwinding, SettlesAtMost
    <3>3. \A k \in Handle : Status(k)' = Status(k)
      BY <2>4 DEF Status
    <3> QED
      BY <2>1, <2>2, <2>4, <3>1, <3>2, <3>3, SettlingKeepsOwners, UnwindingKeeps
      DEF Unwinding, SettlesAtMost, Terminal
  <2> QED
    BY <1>10, <2>3, <2>4 DEF SubmitFails
<1>11. ASSUME NEW h \in Handle, Refresh(h) PROVE DispatchInvariant'
  <2>1. /\ UNCHANGED <<routed, closed>> /\ call.pc = "refresh" /\ h \in call.todo
        /\ Status(h) = "running"
    BY <1>11 DEF Refresh, Refreshing, VisitsFit
  <2>2. SettlesAtMost(h)
    BY <1>11, <2>1, RefreshSettles DEF Refresh
  <2>3. CASE Visited(h)
    BY <1>0, <2>1, <2>2, <2>3, Visits, VisitingKeeps
  <2>4. CASE UnwindOver({k \in call.child : ~Terminal(k)'})
    <3>1. Typed'
      BY <1>0, <2>1, <2>2, <2>4, Unwinds DEF Typed, SettlesAtMost
    <3>2. \A k \in Handle : /\ (Status(k)' = "none") = (Status(k) = "none")
                            /\ Terminal(k) => Terminal(k)'
      BY <2>2 DEF SettlesAtMost, Terminal
    <3> QED
      BY <2>1, <2>2, <2>4, <3>1, <3>2, SettlingKeepsOwners, UnwindingKeeps DEF SettlesAtMost
  <2> QED
    BY <1>11, <2>3, <2>4 DEF Refresh
<1>12. ASSUME NEW h \in Handle, UnwindOne(h) PROVE DispatchInvariant'
  <2>1. /\ UNCHANGED <<routed, closed>> /\ call.pc = "unwind" /\ h \in call.todo
        /\ Status(h) \in {"queued", "running"}
    BY <1>12 DEF UnwindOne, VisitsFit
  <2>2. SettlesAtMost(h) /\ (Cancelled(h) => ~Alive(h)')
    BY <1>12, <2>1, CancelSettles DEF UnwindOne
  <2>3. CASE Cancelled(h) /\ Visited(h)
    BY <1>0, <2>1, <2>2, <2>3, Visits, VisitingKeeps
  <2>4. CASE call' = [call EXCEPT !.todo = @ \ {h}, !.lost = TRUE]
    <3>1. /\ call' \in Call
          /\ call'.pc = call.pc /\ call'.todo = call.todo \ {h} /\ call'.lost
          /\ call'.child = call.child /\ call'.waited = call.waited
        /\ call'.next = call.next /\ call'.done = call.done
      BY <1>0, <2>4 DEF Call
    <3> QED
      BY <2>1, <2>2, <3>1, VisitingKeeps
  <2> QED
    BY <1>12, <2>3, <2>4 DEF UnwindOne
<1>13. ASSUME NEW h \in Handle, RoutedUnwind(h) PROVE DispatchInvariant'
  <2>1. /\ UNCHANGED <<routed, closed>> /\ call.pc = "routed" /\ h \in call.todo
        /\ Status(h) \in {"queued", "running"}
    BY <1>13 DEF RoutedUnwind, VisitsFit
  <2>2. SettlesAtMost(h) /\ Visited(h)
    BY <1>13, <2>1, CancelSettles DEF RoutedUnwind
  <2> QED
    BY <1>0, <2>1, <2>2, Visits, VisitingKeeps
<1>14. CASE StartPolling
  <2>1. /\ call' \in Call
        /\ call'.pc = "refresh" /\ call'.todo = In(call.child, "running")
        /\ call'.child = call.child /\ call'.waited = call.waited
        /\ call'.next = call.next /\ call'.done = call.done
    BY <1>0, <1>14 DEF StartPolling, Polled, Call, In
  <2>2. VisitsFit'
    BY <1>0, <1>14, <2>1 DEF VisitsFit, StartPolling, In, Status
  <2>3. UnwoundAreEnded'
    BY <1>0, <1>14, <2>1 DEF UnwoundAreEnded, StartPolling, Terminal, Status
  <2> QED
    BY <1>14, <2>1, <2>2, <2>3, CallingKeeps DEF StartPolling, Typed, VisitsFit
<1>15. CASE Return
  <2>1. call' \in Call /\ call' = Idle
    BY <1>15 DEF Return, Idle, Call
  <2>2. /\ call'.pc = "idle" /\ call'.todo = {} /\ call'.waited = {} /\ call'.child = {}
        /\ call'.next = {} /\ call'.done = {}
    BY <2>1 DEF Idle
  <2>3. VisitsFit' /\ UnwoundAreEnded'
    BY <2>2 DEF VisitsFit, UnwoundAreEnded
  <2> QED
    BY <1>15, <2>1, <2>3, CallingKeeps DEF Return, Decides, Swept, Typed, VisitsFit
<1>16. CASE NextGroup
  <2>1. PICK g \in call.next :
          call' = [call EXCEPT !.next = @ \ {g}, !.child = g, !.done = Done,
                               !.pc = IF call.first THEN "submit" ELSE "refresh",
                               !.todo = In(g, IF call.first THEN "queued" ELSE "running")]
    BY <1>16 DEF NextGroup
  <2>2. /\ UNCHANGED <<routed, attempts, hosts, closed>>
        /\ call.pc = "refresh" /\ closed = "no" /\ routed /\ g \subseteq call.waited
    BY <1>16, <2>1 DEF NextGroup, Swept, VisitsFit, UnwoundAreEnded
  <2>3. Done \subseteq Handle /\ \A h \in Done : Terminal(h)
    BY <1>0 DEF Done, UnwoundAreEnded, Call
  <2>4. /\ call' \in Call
        /\ \/ call'.pc = "submit" /\ call'.todo = In(g, "queued")
           \/ call'.pc = "refresh" /\ call'.todo = In(g, "running")
        /\ call'.child = g /\ call'.waited = call.waited
        /\ call'.next = call.next \ {g} /\ call'.done = Done
    BY <1>0, <2>1, <2>2, <2>3 DEF Call, In
  <2>5. VisitsFit'
    BY <1>0, <2>2, <2>4 DEF VisitsFit, In, Status
  <2>6. UnwoundAreEnded'
    BY <1>0, <2>2, <2>3, <2>4 DEF UnwoundAreEnded, Terminal, Status
  <2> QED
    BY <2>2, <2>4, <2>5, <2>6, CallingKeeps
<1>17. CASE NextRound
  <2> DEFINE rest == Groups(call.waited \ Done)
  <2>1. PICK g \in rest :
          call' = [call EXCEPT !.next = rest \ {g}, !.child = g, !.done = Done,
                               !.first = FALSE, !.todo = In(g, "running")]
    BY <1>17 DEF NextRound
  <2>2. /\ UNCHANGED <<routed, attempts, hosts, closed>>
        /\ call.pc = "refresh" /\ closed = "no"
    BY <1>17 DEF NextRound, Swept, VisitsFit
  <2>3. Done \subseteq Handle /\ \A h \in Done : Terminal(h)
    BY <1>0 DEF Done, UnwoundAreEnded, Call
  <2>4. /\ rest \subseteq SUBSET call.waited
        /\ ~routed => rest = {call.waited \ Done}
    BY DEF Groups
  <2>5. /\ call' \in Call
        /\ call'.pc = "refresh" /\ call'.todo = In(g, "running")
        /\ call'.child = g /\ call'.waited = call.waited
        /\ call'.next = rest \ {g} /\ call'.done = Done
    BY <1>0, <2>1, <2>2, <2>3, <2>4 DEF Call, In
  <2>6. VisitsFit'
    BY <1>0, <2>2, <2>5 DEF VisitsFit, In, Status
  <2>7. UnwoundAreEnded'
    BY <1>0, <2>2, <2>3, <2>4, <2>5 DEF UnwoundAreEnded, Terminal, Status
  <2> QED
    BY <2>2, <2>5, <2>6, <2>7, CallingKeeps
<1>18. CASE ChildRaises
  <2>1. /\ UNCHANGED <<routed, attempts, hosts>>
        /\ closed' \in {"interrupted", "unconfirmed"} /\ call.pc = "unwind" /\ call.todo = {}
    BY <1>18 DEF ChildRaises
  <2>2. /\ call' \in Call
        /\ \/ call'.pc = "routed" /\ call'.todo = Unsettled(call.waited)
           \/ call'.pc = "idle" /\ call'.todo = {}
        /\ call'.child = call.child /\ call'.waited = call.waited
        /\ call'.next = call.next /\ call'.done = call.done
    BY <1>0, <1>18 DEF ChildRaises, Unsettled, Call
  <2>3. \A h \in Unsettled(call.waited) : Status(h) \in {"queued", "running"}
    BY <1>0 DEF Unsettled, Terminal, VisitsFit, Typed, Attempt, Status
  <2>4. VisitsFit'
    BY <2>1, <2>2, <2>3 DEF VisitsFit, Status
  <2>5. UnwoundAreEnded'
    BY <2>1, <2>2 DEF UnwoundAreEnded, Terminal, Status
  <2> QED
    BY <2>1, <2>2, <2>4, <2>5, CallingKeeps
<1>19. CASE RoutedRaises
  <2>1. /\ UNCHANGED <<routed, attempts, hosts, closed>> /\ call.pc = "routed"
        /\ call.todo = {} /\ closed # "no"
    BY <1>19 DEF RoutedRaises, VisitsFit
  <2>2. /\ call' \in Call /\ call'.pc = "idle" /\ call'.todo = call.todo
        /\ call'.child = call.child /\ call'.waited = call.waited
        /\ call'.next = call.next /\ call'.done = call.done
    BY <1>0, <1>19 DEF RoutedRaises, Call
  <2>3. VisitsFit' /\ UnwoundAreEnded'
    BY <2>1, <2>2 DEF VisitsFit, UnwoundAreEnded, Status, Terminal
  <2> QED
    BY <2>1, <2>2, <2>3, CallingKeeps DEF Typed
<1>20. CASE Interrupt
  <2>1. Unsettled(call.child) = {k \in call.child : ~Terminal(k)'}
    BY <1>20 DEF Interrupt, Unsettled, Terminal, Status
  <2>2. Typed' /\ LiveHostsAreOwned'
    BY <1>0, <1>20, <2>1, Unwinds DEF Interrupt, Unwinding, Typed, LiveHostsAreOwned, Alive, Status
  <2> QED
    BY <1>20, <2>1, <2>2, UnwindingKeeps DEF Interrupt, Unwinding, Terminal, Status
<1>21. CASE UNCHANGED vars
  BY <1>21 DEF vars, Typed, VisitsFit, QueuedAreUnstarted, LiveHostsAreOwned, UnwoundAreEnded,
               Status, Alive, Terminal
<1>22. ASSUME NEW S \in SUBSET Latest, InterruptEntering(S) PROVE DispatchInvariant'
  BY <1>22, RoutedInterruptKeeps DEF InterruptEntering, Free, Latest
<1>23. CASE InterruptBetween
  BY <1>0, <1>23, RoutedInterruptKeeps DEF InterruptBetween, Swept, VisitsFit, Typed, Call
<1>24. CASE InterruptAgain
  <2>1. /\ UNCHANGED <<routed, attempts, hosts>> /\ closed' = "again"
        /\ call.pc \in {"unwind", "routed"}
    BY <1>24 DEF InterruptAgain
  <2>2. /\ call' \in Call
        /\ \/ call'.pc = "routed" /\ call'.todo = Unsettled(call.waited)
           \/ call'.pc = "idle" /\ call'.todo = {}
        /\ call'.child = call.child /\ call'.waited = call.waited
        /\ call'.next = call.next /\ call'.done = call.done
    BY <1>0, <1>24 DEF InterruptAgain, Unsettled, Call
  <2>3. \A h \in Unsettled(call.waited) : Status(h) \in {"queued", "running"}
    BY <1>0 DEF Unsettled, Terminal, VisitsFit, Typed, Attempt, Status
  <2>4. VisitsFit'
    BY <2>1, <2>2, <2>3 DEF VisitsFit, Status
  <2>5. UnwoundAreEnded'
    BY <2>1, <2>2 DEF UnwoundAreEnded, Terminal, Status
  <2> QED
    BY <2>1, <2>2, <2>4, <2>5, CallingKeeps
<1> QED
  BY <1>1, <1>2, <1>3, <1>4, <1>5, <1>6, <1>7, <1>8, <1>9, <1>10, <1>11, <1>12, <1>13, <1>14,
     <1>15, <1>16, <1>17, <1>18, <1>19, <1>20, <1>21, <1>22, <1>23, <1>24 DEF Next, Step

\* The inductive invariant holds in every reachable state.
LEMMA DispatchHolds == Spec => []DispatchInvariant
BY DispatchInit, DispatchSteps, PTL DEF Spec

\* No host lives whose attempt is over or has lost its token unnoticed,
\* whatever fails or is interrupted: no worker runs beside its retry.
THEOREM HostsAreOwned == Spec => []LiveHostsAreOwned
BY DispatchHolds, PTL DEF DispatchInvariant

\* Once something was raised nothing is started any more, the groups of the call
\* that raised it are kept, and only a second interrupt is raised after it.
LEMMA ClosedStartsNothing ==
    ASSUME DispatchInvariant, closed # "no", [Next]_vars
    PROVE  /\ UNCHANGED routed /\ closed' \in {closed, "again"}
           /\ call'.child = call.child /\ call'.waited = call.waited
           /\ \A k \in Handle : Alive(k)' => Alive(k)
<1> USE DEF DispatchInvariant
<1>0. /\ call.pc \in {"idle", "routed"} /\ call \in Call
      /\ \A h \in call.todo : h \in Handle
                           /\ (At("routed") => Status(h) \in {"queued", "running"})
  BY DEF VisitsFit, Typed, Call, At
<1>1. ASSUME NEW h \in Latest, Cancel(h) PROVE \A k \in Handle : Alive(k)' => Alive(k)
  <2>1. h \in Handle /\ Status(h) \in {"queued", "running"}
    BY <1>1 DEF Latest, Cancel, MayCancel, Typed, Attempt, Terminal, Status
  <2> QED
    BY <1>1, <2>1, CancelSettles DEF Cancel, SettlesAtMost
<1>2. ASSUME NEW h \in Handle, Fork(h) \/ Exit(h) \/ Overrun(h)
      PROVE  \A k \in Handle : Alive(k)' => Alive(k)
  BY <1>2 DEF Fork, Exit, Overrun, Alive, Typed, Hosts
<1>3. ASSUME NEW h \in Handle, RoutedUnwind(h)
      PROVE  /\ \A k \in Handle : Alive(k)' => Alive(k)
             /\ call'.child = call.child /\ call'.waited = call.waited
  <2>1. At("routed") /\ h \in call.todo /\ Status(h) \in {"queued", "running"}
    BY <1>0, <1>3 DEF RoutedUnwind
  <2> QED
    BY <1>0, <1>3, <2>1, CancelSettles, Visits DEF RoutedUnwind, SettlesAtMost
<1>4. CASE RoutedRaises
  BY <1>0, <1>4 DEF RoutedRaises, Call, Alive
<1>5. CASE UNCHANGED vars
  BY <1>5 DEF vars, Alive
<1>6. CASE InterruptAgain
  BY <1>0, <1>6 DEF InterruptAgain, Call, Alive
<1>7. \/ \E h \in Latest : Cancel(h)
      \/ \E h \in Handle : Fork(h) \/ Exit(h) \/ Overrun(h) \/ RoutedUnwind(h)
      \/ RoutedRaises \/ InterruptAgain \/ UNCHANGED vars
  BY <1>0 DEF Next, Step, Spawn, Wait, Retry, StartHost, StartRefused, StartUnconfirmed,
              StartInterrupted, Submitting, SubmitPrompt, SubmitFails, Prompting, Refresh,
              Refreshing, UnwindOne, StartPolling, Return, NextGroup, NextRound, Decides,
              Swept, ChildRaises, Interrupt, InterruptEntering, InterruptBetween, At
<1> QED
  BY <1>1, <1>2, <1>3, <1>4, <1>5, <1>6, <1>7
     DEF Cancel, Fork, Exit, Overrun, RoutedUnwind, RoutedRaises, InterruptAgain, vars

\* An interruption met once and passed on left no host of the wait it came to: a
\* cancellation that failed there turns it into an error that says so.  A routed
\* wait interrupted between two child waits has no such wait, and vouches for none.
THEOREM PassedOnIsConfirmed == Spec => []InterruptionsConfirmed
<1>1. Init => InterruptionsConfirmed
  BY DEF Init, InterruptionsConfirmed
<1>2. DispatchInvariant /\ InterruptionsConfirmed /\ [Next]_vars => InterruptionsConfirmed'
  <2> SUFFICES ASSUME DispatchInvariant, InterruptionsConfirmed, [Next]_vars,
                      closed' = "interrupted"
               PROVE  \A h \in IF routed' THEN call'.child ELSE call'.waited : ~Alive(h)'
    BY DEF InterruptionsConfirmed
  <2>0. call.child \subseteq Handle /\ call.waited \subseteq Handle
    BY DEF DispatchInvariant, Typed, Call
  <2>1. CASE closed # "no"
    BY <2>0, <2>1, ClosedStartsNothing DEF InterruptionsConfirmed
  <2>2. CASE closed = "no" /\ ~ChildRaises
    <3>1. InterruptBetween \/ \E S \in SUBSET Latest : InterruptEntering(S)
      BY <2>2 DEF Next, Step, vars, Spawn, Wait, Retry, Launch, Cancel, Fork, Exit, Overrun,
                  StartHost, StartRefused, StartUnconfirmed, StartInterrupted, SubmitPrompt,
                  SubmitFails, Refresh, UnwindOne, RoutedUnwind, StartPolling, Return,
                  NextGroup, NextRound, RoutedRaises, Interrupt, InterruptAgain
    <3>2. PICK S : routed /\ RoutedInterrupted(S)
      BY <3>1 DEF InterruptBetween, InterruptEntering
    <3>3. call'.child = {}
      BY <3>2 DEF RoutedInterrupted, Idle
    <3>4. routed'
      BY <3>2, Zenon DEF RoutedInterrupted
    <3> QED
      BY <3>3, <3>4
  <2>3. CASE closed = "no" /\ ChildRaises
    <3>1. ChildRaises
      BY <2>3
    <3>2. /\ UNCHANGED <<routed, hosts>> /\ At("unwind") /\ call.todo = {} /\ ~call.lost
          /\ call'.child = call.child /\ call'.waited = call.waited
      BY <3>1 DEF ChildRaises, DispatchInvariant, Typed, Call
    <3>3. \A h \in call.child : ~Alive(h)
      BY <3>2 DEF DispatchInvariant, UnwoundAreEnded
    <3>4. ~routed => \A h \in call.waited : ~Alive(h)
      BY <2>0, <3>2, <3>3
         DEF DispatchInvariant, UnwoundAreEnded, LiveHostsAreOwned, Terminal, At
    <3> QED
      BY <3>2, <3>3, <3>4 DEF Alive
  <2> QED
    BY <2>1, <2>2, <2>3
<1> QED
  BY <1>1, <1>2, DispatchHolds, PTL DEF Spec

---------------------------------------------------------------------------
(* The refinement of DispatchContract                                      *)

\* A settled attempt either kept its status or ran and ended.
LEMMA SettlingIsAnEnd ==
    ASSUME NEW h \in Handle, Typed, SettlesAtMost(h)
    PROVE  [Contract!ContractNext]_Statuses
<1>1. CASE \A k \in Handle : Status(k)' = Status(k)
  BY <1>1 DEF Statuses
<1>2. CASE /\ Status(h)' \in {"succeeded", "failed", "cancelled"}
           /\ Status(h) \in {"queued", "running"}
           /\ Status(h)' = "succeeded" => Status(h) = "running"
           /\ \A k \in Handle \ {h} : Status(k)' = Status(k)
  <2>1. Contract!End(h, Status(h)')
    BY <1>2
       DEF Contract!End, Contract!Open, Contract!Becomes, Contract!Handle, Handle, Statuses
  <2> QED
    BY <1>2, <2>1 DEF Contract!ContractNext, Contract!Ended, Contract!Handle, Handle
<1> QED
  BY <1>1, <1>2 DEF SettlesAtMost, Terminal

\* Attempts of the same status are the same to the contract.
LEMMA SameStatuses ==
    ASSUME \A k \in Handle : Status(k)' = Status(k)
    PROVE  [Contract!ContractNext]_Statuses
BY DEF Statuses

\* Each step of a dispatcher is one of the contract, or none that it sees.
LEMMA DispatchRefines == DispatchInvariant /\ [Next]_vars => [Contract!ContractNext]_Statuses
<1> USE DEF At
<1> SUFFICES ASSUME DispatchInvariant, [Next]_vars PROVE [Contract!ContractNext]_Statuses
  OBVIOUS
<1>0. Typed /\ VisitsFit /\ QueuedAreUnstarted
  BY DEF DispatchInvariant
<1>1. ASSUME NEW w \in Workers, Spawn(w) PROVE [Contract!ContractNext]_Statuses
  <2> DEFINE h == [worker |-> w, n |-> 1]
  <2>1. h \in Handle /\ h.n = 1
    BY DEF Handle
  <2>2. Status(h) = "none" /\ Statuses' = [Statuses EXCEPT ![h] = "queued"]
    BY <1>0, <1>1, <2>1 DEF Spawn, Launch, Unused, Typed, Statuses, Status, Attempt
  <2>3. Contract!Spawn(h)
    BY <2>1, <2>2 DEF Contract!Spawn, Contract!Becomes, Statuses
  <2> QED
    BY <2>1, <2>3 DEF Contract!ContractNext, Contract!Handle, Handle
<1>2. ASSUME NEW h \in Latest, Retry(h) PROVE [Contract!ContractNext]_Statuses
  <2> DEFINE k == [h EXCEPT !.n = @ + 1]
  <2>1. h \in Handle /\ k \in Handle /\ Status(k) = "none" /\ k = Contract!Following(h)
    BY <1>2, FollowingHandle DEF Latest, Retry, Contract!Following
  <2>2. Statuses' = [Statuses EXCEPT ![k] = "queued"]
    BY <1>0, <1>2, <2>1 DEF Retry, Launch, Unused, Typed, Statuses, Status, Attempt
  <2>3. Contract!Retry(h)
    BY <1>2, <2>1, <2>2 DEF Retry, MayRetry, Contract!Retry, Contract!Becomes, Statuses
  <2> QED
    BY <2>1, <2>3 DEF Contract!ContractNext, Contract!Handle, Handle
<1>3. ASSUME NEW h \in Latest, Cancel(h) PROVE [Contract!ContractNext]_Statuses
  <2>1. h \in Handle /\ Status(h) \in {"queued", "running"}
    BY <1>0, <1>3 DEF Latest, Cancel, MayCancel, Typed, Attempt, Terminal, Status
  <2> QED
    BY <1>0, <1>3, <2>1, CancelSettles, SettlingIsAnEnd DEF Cancel
<1>4. ASSUME NEW h \in Handle, SubmitPrompt(h) PROVE [Contract!ContractNext]_Statuses
  <2>1. Status(h) = "queued"
    BY <1>0, <1>4 DEF SubmitPrompt, Prompting, VisitsFit
  <2>2. Statuses' = [Statuses EXCEPT ![h] = "running"]
    BY <1>0, <1>4 DEF SubmitPrompt, Typed, Statuses, Status, Attempt
  <2>3. Contract!Start(h)
    BY <2>1, <2>2 DEF Contract!Start, Contract!Becomes, Statuses
  <2> QED
    BY <2>3 DEF Contract!ContractNext, Contract!Handle, Handle
<1>5. ASSUME NEW h \in Handle, StartRefused(h) PROVE [Contract!ContractNext]_Statuses
  <2>1. Status(h) = "queued" /\ hosts[h] = "none"
    BY <1>0, <1>5 DEF StartRefused, Submitting, VisitsFit, QueuedAreUnstarted
  <2> QED
    BY <1>0, <1>5, <2>1, EndsOneAttempt, SettlingIsAnEnd
       DEF StartRefused, SettlesAtMost, Typed, Terminal, Alive
<1>6. ASSUME NEW h \in Handle, SubmitFails(h) PROVE [Contract!ContractNext]_Statuses
  <2>1. Status(h) = "queued"
    BY <1>0, <1>6 DEF SubmitFails, Prompting, VisitsFit
  <2> QED
    BY <1>0, <1>6, <2>1, EndedWithItsHost, NothingEnded, SettlingIsAnEnd DEF SubmitFails
<1>7. ASSUME NEW h \in Handle, Refresh(h) PROVE [Contract!ContractNext]_Statuses
  <2>1. Status(h) = "running"
    BY <1>0, <1>7 DEF Refresh, Refreshing, VisitsFit
  <2> QED
    BY <1>0, <1>7, <2>1, RefreshSettles, SettlingIsAnEnd DEF Refresh
<1>8. ASSUME NEW h \in Handle, UnwindOne(h) \/ RoutedUnwind(h)
      PROVE  [Contract!ContractNext]_Statuses
  <2>1. Status(h) \in {"queued", "running"}
    BY <1>0, <1>8 DEF UnwindOne, RoutedUnwind, VisitsFit
  <2> QED
    BY <1>0, <1>8, <2>1, CancelSettles, SettlingIsAnEnd DEF UnwindOne, RoutedUnwind
<1>9. ASSUME NEW h \in Handle, Overrun(h) PROVE [Contract!ContractNext]_Statuses
  <2>1. \A k \in Handle : Status(k)' = Status(k)
    BY <1>0, <1>9 DEF Overrun, Typed, Attempt, Status
  <2> QED
    BY <2>1, SameStatuses
<1>10. ASSUME NEW h \in Handle, StartHost(h) \/ StartUnconfirmed(h) \/ StartInterrupted(h)
       PROVE  [Contract!ContractNext]_Statuses
  <2>1. \/ attempts' = [attempts EXCEPT ![h].process = TRUE]
        \/ attempts' = [attempts EXCEPT ![h].starting = TRUE]
    BY <1>10 DEF StartHost, StartUnconfirmed, StartInterrupted
  <2>2. \A k \in Handle : Status(k)' = Status(k)
    BY <1>0, <2>1 DEF Typed, Attempt, Status
  <2> QED
    BY <2>2, SameStatuses
<1>11. CASE UNCHANGED attempts
  <2>1. \A k \in Handle : Status(k)' = Status(k)
    BY <1>11 DEF Status
  <2> QED
    BY <2>1, SameStatuses
<1>12. UNCHANGED attempts
       \/ (\E w \in Workers : Spawn(w)) \/ (\E h \in Latest : Retry(h) \/ Cancel(h))
       \/ \E h \in Handle : \/ SubmitPrompt(h) \/ StartRefused(h) \/ SubmitFails(h)
                           \/ Refresh(h) \/ UnwindOne(h) \/ RoutedUnwind(h) \/ Overrun(h)
                           \/ StartHost(h) \/ StartUnconfirmed(h) \/ StartInterrupted(h)
  BY DEF Next, Step, vars, Wait, Fork, Exit, StartPolling, Return, NextGroup, NextRound,
         ChildRaises, RoutedRaises, Interrupt, InterruptEntering, InterruptBetween,
         RoutedInterrupted, InterruptAgain
<1> QED
  BY <1>1, <1>2, <1>3, <1>4, <1>5, <1>6, <1>7, <1>8, <1>9, <1>10, <1>11, <1>12

\* Whatever is interrupted, an attempt is queued, runs and ends once, and only
\* a failed one is followed by another.
THEOREM DispatchersKeepTheContract == Spec => ImplementsContract
<1>1. Init => Contract!ContractInit
  BY DEF Init, Contract!ContractInit, Contract!Handle, Handle, Status, Statuses, Unused
<1> QED
  BY <1>1, DispatchRefines, DispatchHolds, PTL
     DEF Spec, ImplementsContract, Contract!ContractSpec, Statuses

---------------------------------------------------------------------------
(* What the contract promises.  The proofs use its actions only: nothing of *)
(* the attempts but their statuses.                                         *)

\* A worker's attempts follow one another.
LEMMA FollowingAttempt ==
    ASSUME NEW h \in Contract!Handle, h.n < MaxAttempts
    PROVE  /\ Contract!Following(h) \in Contract!Handle
           /\ Contract!Following(h).worker = h.worker /\ Contract!Following(h).n = h.n + 1
BY DEF Contract!Handle, Contract!Following

\* A handle is its worker and the number of its attempt.
LEMMA SameHandle ==
    ASSUME NEW h \in Contract!Handle, NEW k \in Contract!Handle,
           h.worker = k.worker, h.n = k.n
    PROVE  h = k
BY DEF Contract!Handle

\* Statuses stay statuses.
LEMMA ContractTyped == Contract!ContractSpec => []Contract!ContractTypeOK
<1>1. Contract!ContractInit => Contract!ContractTypeOK
  BY DEF Contract!ContractInit, Contract!ContractTypeOK
<1>2. Contract!ContractTypeOK /\ [Contract!ContractNext]_Statuses
        => Contract!ContractTypeOK'
  BY FollowingAttempt
     DEF Contract!ContractNext, Contract!ContractTypeOK, Contract!Spawn, Contract!Start,
         Contract!End, Contract!Retry, Contract!Becomes, Contract!Open, Contract!Ended
<1> QED
  BY <1>1, <1>2, PTL DEF Contract!ContractSpec

\* Never are two attempts of a worker at work: an attempt exists only after
\* all those before it have failed.
THEOREM OneAttemptAtWork == Contract!ContractSpec => []Contract!OneAtWork
<1>1. Contract!ContractInit => Contract!OneAtWork
  BY DEF Contract!ContractInit, Contract!OneAtWork
<1>2. Contract!ContractTypeOK /\ Contract!OneAtWork /\ [Contract!ContractNext]_Statuses
        => Contract!OneAtWork'
  <2> SUFFICES ASSUME Contract!ContractTypeOK, Contract!OneAtWork,
                      [Contract!ContractNext]_Statuses,
                      NEW h \in Contract!Handle, NEW k \in Contract!Handle,
                      h.worker = k.worker, h.n < k.n, Statuses'[k] # "none"
               PROVE  Statuses'[h] = "failed"
    BY DEF Contract!OneAtWork
  <2>1. ASSUME NEW i \in Contract!Handle, Contract!Spawn(i) PROVE Statuses'[h] = "failed"
    <3>1. i.n = 1 /\ k # i
      BY <2>1 DEF Contract!Spawn, Contract!Handle
    <3>2. Statuses'[k] = Statuses[k] /\ Statuses[h] = "failed"
      BY <2>1, <3>1
         DEF Contract!Spawn, Contract!Becomes, Contract!ContractTypeOK,
             Contract!OneAtWork
    <3> QED
      BY <2>1, <3>2 DEF Contract!Spawn, Contract!Becomes, Contract!ContractTypeOK
  <2>2. ASSUME NEW i \in Contract!Handle,
               Contract!Start(i) \/ \E s \in Contract!Ended : Contract!End(i, s)
        PROVE  Statuses'[h] = "failed"
    <3>1. Statuses[k] # "none"
      BY <2>2
         DEF Contract!Start, Contract!End, Contract!Becomes, Contract!ContractTypeOK,
             Contract!Open
    <3> QED
      BY <2>2, <3>1
         DEF Contract!Start, Contract!End, Contract!Becomes, Contract!ContractTypeOK,
             Contract!OneAtWork, Contract!Open
  <2>3. ASSUME NEW i \in Contract!Handle, Contract!Retry(i) PROVE Statuses'[h] = "failed"
    <3>1. /\ Contract!Following(i) \in Contract!Handle
          /\ Contract!Following(i).worker = i.worker
          /\ Contract!Following(i).n = i.n + 1
          /\ Statuses' = [Statuses EXCEPT ![Contract!Following(i)] = "queued"]
      BY <2>3, FollowingAttempt DEF Contract!Retry, Contract!Becomes
    <3>2. Statuses[h] = "failed"
      <4>1. CASE k # Contract!Following(i)
        BY <3>1, <4>1 DEF Contract!ContractTypeOK, Contract!OneAtWork
      <4>2. CASE k = Contract!Following(i)
        <5>1. h.worker = i.worker /\ (h.n < i.n \/ h.n = i.n)
          BY <3>1, <4>2 DEF Contract!Handle
        <5> QED
          BY <2>3, <5>1, SameHandle DEF Contract!Retry, Contract!OneAtWork
      <4> QED
        BY <4>1, <4>2
    <3>3. h # Contract!Following(i)
      BY <2>3, <3>2 DEF Contract!Retry
    <3> QED
      BY <3>1, <3>2, <3>3 DEF Contract!ContractTypeOK
  <2>4. CASE UNCHANGED Statuses
    BY <2>4 DEF Contract!OneAtWork
  <2> QED
    BY <2>1, <2>2, <2>3, <2>4 DEF Contract!ContractNext
<1> QED
  BY <1>1, <1>2, ContractTyped, PTL DEF Contract!ContractSpec

\* The outcome of an attempt is final.
THEOREM OutcomesAreFinal == Contract!ContractSpec => Contract!EndsOnce
<1>1. Contract!ContractTypeOK /\ [Contract!ContractNext]_Statuses
        => [\A h \in Contract!Handle : Statuses[h] \in Contract!Ended
                => Statuses'[h] = Statuses[h]]_Statuses
  BY FollowingAttempt
     DEF Contract!ContractNext, Contract!ContractTypeOK, Contract!Spawn, Contract!Start,
         Contract!End, Contract!Retry, Contract!Becomes, Contract!Open, Contract!Ended
<1> QED
  BY <1>1, ContractTyped, PTL DEF Contract!ContractSpec, Contract!EndsOnce

\* At most one host of a worker is alive.
OneHostPerWorker == \A h, k \in Handle :
    Alive(h) /\ Alive(k) /\ h.worker = k.worker => h = k

\* Two attempts of one worker never run side by side: a retry is launched once
\* the group of the attempt before it is gone.
THEOREM NoWorkerRunsTwice == Spec => []OneHostPerWorker
<1>1. Spec => []Contract!OneAtWork
  BY DispatchersKeepTheContract, OneAttemptAtWork, PTL DEF ImplementsContract
<1>2. LiveHostsAreOwned /\ Contract!OneAtWork => OneHostPerWorker
  <2> SUFFICES ASSUME LiveHostsAreOwned, Contract!OneAtWork,
                      NEW h \in Handle, NEW k \in Handle,
                      Alive(h), Alive(k), h.worker = k.worker
               PROVE  h = k
    BY DEF OneHostPerWorker
  <2>1. Statuses[h] \notin {"none", "failed"} /\ Statuses[k] \notin {"none", "failed"}
    BY DEF LiveHostsAreOwned, Statuses
  <2>2. ~(h.n < k.n) /\ ~(k.n < h.n)
    BY <2>1 DEF Contract!OneAtWork, Contract!Handle, Handle
  <2>3. h.n \in Nat /\ k.n \in Nat
    BY DEF Handle
  <2> QED
    BY <2>2, <2>3 DEF Handle
<1> QED
  BY <1>1, <1>2, HostsAreOwned, PTL
=============================================================================
