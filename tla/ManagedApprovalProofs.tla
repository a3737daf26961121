----------------------- MODULE ManagedApprovalProofs -----------------------
(***************************************************************************)
(* What TLC checks of ManagedApproval for two coordinators and two ticks,  *)
(* for any number of coordinators, signatures, policies and commits and    *)
(* for any length of time: one signature buys at most one pull request, a  *)
(* consumed approval is about the signed one, nothing recorded is revised. *)
(*                                                                         *)
(* The store compares revisions only.  That this is enough rests on what a *)
(* coordinator about to store has read: the record as it is, or one that   *)
(* has been replaced since; and on a record having one successor by each   *)
(* of the calls, which keeps what the record already holds.                *)
(***************************************************************************)
EXTENDS ManagedApproval, FiniteSetTheorems, TLAPS

USE RequestAssumption, EnvelopeAssumption, WorldAssumption, TimeAssumption

---------------------------------------------------------------------------
(* The inductive invariant.                                                *)

Typed ==
    /\ now \in Time /\ origin \in {Asked.scope} \cup Scopes
    /\ remote \in Commits /\ policy \in Sources
    /\ record \in Record
    /\ agents \in [Coordinators -> Agent]
    /\ calls \subseteq Envelope
    /\ pulls \subseteq Pull

\* The consumption began while the signature and the request were in force.
InForce(r) ==
    r.consumption # None => /\ r.consumption.startedAt < r.authorization.expires
                            /\ r.consumption.startedAt < Asked.expires

\* What was begun was begun by time t.
Begun(r, t) == r.consumption # None => r.consumption.startedAt <= t

\* A consumed record speaks of one of the pull requests ps.
Backed(r, ps) ==
    r.state = "consumed" =>
        \E p \in ps : /\ p.key = r.authorization
                      /\ p.head = Asked.action.head
                      /\ p.text = Asked.action.text
                      /\ p.at <= r.terminalAt

Sound(r, ps, t) == WellFormed(r) /\ InForce(r) /\ Begun(r, t) /\ Backed(r, ps)

\* n is what one call makes of s: it keeps what s holds.
Successor(s, n) ==
    /\ \/ s.state = "pending" /\ n.state = "authorized"
       \/ s.state = "authorized" /\ n.state = "consuming"
       \/ s.state = "consuming" /\ n.state \in Settled
    /\ s.authorization # None => n.authorization = s.authorization
    /\ s.consumption # None => n.consumption = s.consumption

\* What a coordinator about to store read is in the store, or has been replaced.
StoresInTurn(m, r, ps, t) ==
    m.step = "committing" =>
        /\ m.seen = r \/ Revision(m.seen.state) < Revision(r.state)
        /\ Successor(m.seen, m.next)
        /\ Sound(m.next, ps, t)

\* A coordinator holds a permit for the consumption that is recorded.
HoldsPermit(m, r) ==
    m.step \in {"permitted", "checked", "called", "answered"} =>
        /\ r.state \in {"consuming"} \cup Settled
        /\ r.consumption = m.seen.consumption

\* An answer is about a pull request that exists.
WasAnswered(m, ps, t) ==
    m.step = "answered" =>
        /\ m.receipt \in Receipt
        /\ \E p \in ps : /\ m.receipt.key = p.key /\ m.receipt.head = p.head
                         /\ m.receipt.text = p.text
                         /\ p.at <= m.receipt.observedAt /\ m.receipt.observedAt <= t

AgentHolds(m, r, ps, t) ==
    StoresInTurn(m, r, ps, t) /\ HoldsPermit(m, r) /\ WasAnswered(m, ps, t)

\* The broker was called, and acted, for the recorded consumption only; it acted once.
CalledFor(r, cs) ==
    \A k \in cs : r.state \in {"consuming"} \cup Settled /\ k = r.consumption.key
MadeFor(r, ps, t) ==
    \A p \in ps : /\ r.state \in {"consuming"} \cup Settled
                  /\ p.key = r.consumption.key
                  /\ p.at >= r.consumption.startedAt /\ p.at <= t
MadeOnce(ps) == \A p, q \in ps : p = q

ApprovalInvariant ==
    /\ Typed
    /\ Sound(record, pulls, now)
    /\ \A c \in Coordinators : AgentHolds(agents[c], record, pulls, now)
    /\ CalledFor(record, calls) /\ MadeFor(record, pulls, now) /\ MadeOnce(pulls)

---------------------------------------------------------------------------
(* Records and coordinators as time passes, pull requests appear and the   *)
(* record is replaced.                                                     *)

\* A record that has begun its consumption holds it, under its authorization.
LEMMA BegunHolds ==
    ASSUME NEW r \in Record, WellFormed(r), r.state \in {"consuming"} \cup Settled
    PROVE  /\ r.consumption \in Consumption /\ r.consumption # None
           /\ r.authorization \in Envelope /\ r.authorization # None
           /\ r.consumption.key = r.authorization
BY DEF WellFormed, AuthorizationFits, ConsumptionFits, Record, Settled

\* A sound record stays so later and beside more pull requests.
LEMMA SoundLater ==
    ASSUME NEW r \in Record, NEW ps, NEW qs, ps \subseteq qs,
           NEW t \in Time, NEW u \in Time, t <= u, Sound(r, ps, t)
    PROVE  Sound(r, qs, u)
<1>1. Begun(r, u)
  <2>1. r.consumption # None => r.consumption.startedAt \in Nat
    BY DEF Record, Consumption, Time
  <2> QED
    BY <2>1 DEF Sound, Begun, Time
<1>2. Backed(r, qs)
  BY DEF Sound, Backed
<1> QED
  BY <1>1, <1>2 DEF Sound

\* So does a coordinator.
LEMMA AgentLater ==
    ASSUME NEW m \in Agent, NEW r, NEW ps, NEW qs, ps \subseteq qs,
           NEW t \in Time, NEW u \in Time, t <= u, AgentHolds(m, r, ps, t)
    PROVE  AgentHolds(m, r, qs, u)
<1>1. m.next \in Record
  BY DEF Agent
<1>2. StoresInTurn(m, r, qs, u)
  BY <1>1, SoundLater DEF AgentHolds, StoresInTurn
<1>3. WasAnswered(m, qs, u)
  <2>1. m.receipt \in Receipt => m.receipt.observedAt \in Nat
    BY DEF Receipt, Time
  <2> QED
    BY <2>1 DEF AgentHolds, WasAnswered, Time
<1> QED
  BY <1>2, <1>3 DEF AgentHolds

\* A successor has a higher revision, and a consumption begun is not begun anew.
LEMMA SuccessorKeeps ==
    ASSUME NEW r \in Record, NEW n \in Record, WellFormed(r), Successor(r, n)
    PROVE  /\ Revision(r.state) < Revision(n.state)
           /\ r.state \in {"consuming"} \cup Settled
                => n.state \in Settled /\ n.consumption = r.consumption
<1>1. Revision(r.state) < Revision(n.state)
  BY DEF Successor, Revision, Settled
<1>2. ASSUME r.state \in {"consuming"} \cup Settled
      PROVE  n.state \in Settled /\ n.consumption = r.consumption
  BY <1>2, BegunHolds DEF Successor, Settled
<1> QED
  BY <1>1, <1>2

\* A coordinator whose step does not store sees the record replaced.
LEMMA AgentSuperseded ==
    ASSUME NEW m \in Agent, NEW r \in Record, NEW n \in Record, NEW ps, NEW t,
           WellFormed(r), Successor(r, n), AgentHolds(m, r, ps, t)
    PROVE  AgentHolds(m, n, ps, t)
<1>1. Revision(r.state) < Revision(n.state)
      /\ Revision(r.state) \in Nat /\ Revision(n.state) \in Nat /\ Revision(m.seen.state) \in Nat
  BY SuccessorKeeps DEF Revision
<1>2. StoresInTurn(m, n, ps, t)
  BY <1>1 DEF AgentHolds, StoresInTurn
<1>3. HoldsPermit(m, n)
  BY SuccessorKeeps DEF AgentHolds, HoldsPermit
<1> QED
  BY <1>2, <1>3 DEF AgentHolds

---------------------------------------------------------------------------
(* The steps.                                                              *)

\* What a step that leaves the record, the broker and the clock alone has to show.
LEMMA OneAgentMoves ==
    ASSUME ApprovalInvariant, NEW c \in Coordinators, NEW m \in Agent,
           AgentHolds(m, record, pulls, now), agents' = [agents EXCEPT ![c] = m],
           UNCHANGED <<world, record, calls, pulls>>
    PROVE  ApprovalInvariant'
<1>1. agents' \in [Coordinators -> Agent]
  BY DEF ApprovalInvariant, Typed
<1>2. ASSUME NEW d \in Coordinators PROVE AgentHolds(agents'[d], record', pulls', now')
  <2>1. agents'[d] = IF d = c THEN m ELSE agents[d]
    BY DEF ApprovalInvariant, Typed
  <2>2. record' = record /\ pulls' = pulls /\ now' = now
    BY DEF world
  <2> QED
    BY <2>1, <2>2 DEF ApprovalInvariant
<1> QED
  BY <1>1, <1>2 DEF ApprovalInvariant, Typed, world

\* A coordinator that proposes a sound successor of what it read stores in turn.
LEMMA ProposesInTurn ==
    ASSUME ApprovalInvariant, NEW c \in Coordinators, NEW n \in Record,
           Propose(c, n), Successor(record, n), InForce(n), Begun(n, now), Backed(n, pulls)
    PROVE  ApprovalInvariant'
<1> DEFINE m == [agents[c] EXCEPT !.step = "committing", !.seen = record, !.next = n]
<1>1. agents[c] \in Agent /\ record \in Record
  BY DEF ApprovalInvariant, Typed
<1>2. m \in Agent /\ m.step = "committing" /\ m.seen = record /\ m.next = n
  BY <1>1 DEF Agent
<1>3. agents' = [agents EXCEPT ![c] = m] /\ UNCHANGED <<world, record, calls, pulls>>
  BY DEF Propose
<1>4. WellFormed(n)
  BY DEF Propose
<1> HIDE DEF m
<1>5. AgentHolds(m, record, pulls, now)
  BY <1>2, <1>4 DEF AgentHolds, StoresInTurn, HoldsPermit, WasAnswered, Sound
<1> QED
  BY <1>2, <1>3, <1>5, OneAgentMoves

\* authorize
LEMMA AuthorizeHolds ==
    ASSUME ApprovalInvariant, NEW c \in Coordinators, NEW e \in Envelopes, Authorize(c, e)
    PROVE  ApprovalInvariant'
<1> DEFINE n == [record EXCEPT !.state = "authorized", !.authorization = e,
                               !.authorizedAt = now]
<1>1. record \in Record /\ now \in Time /\ e \in Envelope /\ record.state = "pending"
  BY DEF ApprovalInvariant, Typed, Authorize
<1>2. record = Pending
  BY <1>1 DEF ApprovalInvariant, Sound, WellFormed, AuthorizationFits
<1>3. n \in Record /\ n.state = "authorized" /\ n.consumption = None
  BY <1>1, <1>2 DEF Record, States, Pending
<1>4. Propose(c, n)
  BY DEF Authorize
<1>5. record.authorization = None /\ record.consumption = None
  BY <1>2 DEF Pending
<1> HIDE DEF n
<1>6. Successor(record, n)
  BY <1>1, <1>3, <1>5 DEF Successor
<1>7. InForce(n) /\ Begun(n, now) /\ Backed(n, pulls)
  BY <1>3 DEF InForce, Begun, Backed
<1> QED
  BY <1>3, <1>4, <1>6, <1>7, ProposesInTurn

\* begin_consumption verifies the signature again.
LEMMA BeginConsumptionHolds ==
    ASSUME ApprovalInvariant, NEW c \in Coordinators, BeginConsumption(c)
    PROVE  ApprovalInvariant'
<1> DEFINE e == record.authorization
           n == [record EXCEPT !.state = "consuming",
                               !.consumption = [key |-> e, startedAt |-> now]]
<1>1. record \in Record /\ now \in Time /\ record.state = "authorized" /\ WellFormed(record)
  BY DEF ApprovalInvariant, Typed, BeginConsumption, Sound
<1>2. e \in Envelope /\ record.consumption = None
  BY <1>1 DEF WellFormed, AuthorizationFits, ConsumptionFits, Record
<1>3. [key |-> e, startedAt |-> now] \in Consumption
  BY <1>1, <1>2 DEF Consumption
<1>4. /\ n \in Record /\ n.state = "consuming" /\ n.authorization = e
      /\ n.consumption = [key |-> e, startedAt |-> now]
  BY <1>1, <1>3 DEF Record, States
<1>5. Propose(c, n)
  BY DEF BeginConsumption
<1>6. now < e.expires /\ now < Asked.expires
  BY DEF BeginConsumption, Verified
<1>7. n.consumption.startedAt = now
  BY <1>4
<1> HIDE DEF n
<1>8. Successor(record, n)
  BY <1>1, <1>2, <1>4 DEF Successor
<1>9. InForce(n) /\ Begun(n, now) /\ Backed(n, pulls)
  BY <1>1, <1>4, <1>6, <1>7 DEF InForce, Begun, Backed, Time
<1> QED
  BY <1>4, <1>5, <1>8, <1>9, ProposesInTurn

\* record_consumed is told of a pull request that exists.
LEMMA RecordConsumedHolds ==
    ASSUME ApprovalInvariant, NEW c \in Coordinators, RecordConsumed(c)
    PROVE  ApprovalInvariant'
<1> DEFINE receipt == agents[c].receipt
           n == [record EXCEPT !.state = "consumed", !.receipt = receipt, !.terminalAt = now]
<1>1. /\ record \in Record /\ now \in Time /\ record.state = "consuming"
      /\ Sound(record, pulls, now) /\ WellFormed(record) /\ agents[c] \in Agent
      /\ pulls \subseteq Pull
  BY DEF ApprovalInvariant, Typed, RecordConsumed, Sound
<1>2. WasAnswered(agents[c], pulls, now) /\ agents[c].step = "answered"
  BY DEF ApprovalInvariant, AgentHolds, RecordConsumed
<1>3. PICK p \in pulls : /\ receipt.key = p.key /\ receipt.head = p.head
                         /\ receipt.text = p.text
                         /\ p.at <= receipt.observedAt /\ receipt.observedAt <= now
  BY <1>2 DEF WasAnswered
<1>4. receipt \in Receipt
  BY <1>2 DEF WasAnswered
<1>5. /\ n \in Record /\ n.state = "consumed" /\ n.authorization = record.authorization
      /\ n.consumption = record.consumption /\ n.terminalAt = now
  BY <1>1, <1>4 DEF Record, States
<1>6. Propose(c, n)
  BY DEF RecordConsumed
<1>7. /\ receipt.key = record.consumption.key /\ receipt.head = Asked.action.head
      /\ receipt.text = Asked.action.text
  BY DEF RecordConsumed, ReceiptMatches
<1>8. record.consumption.key = record.authorization
  BY <1>1, BegunHolds
<1>9. p.at \in Nat /\ receipt.observedAt \in Nat /\ now \in Nat
  BY <1>1, <1>4 DEF Pull, Receipt, Time
<1> HIDE DEF n, receipt
<1>10. Backed(n, pulls)
  <2>1. p.at <= now
    BY <1>3, <1>9
  <2>2. p.key = n.authorization /\ p.head = Asked.action.head /\ p.text = Asked.action.text
    BY <1>3, <1>5, <1>7, <1>8
  <2> QED
    BY <1>3, <1>5, <2>1, <2>2 DEF Backed
<1>11. Successor(record, n)
  BY <1>1, <1>5 DEF Successor, Settled
<1>12. InForce(n) /\ Begun(n, now)
  BY <1>1, <1>5 DEF Sound, InForce, Begun
<1> QED
  BY <1>5, <1>6, <1>10, <1>11, <1>12, ProposesInTurn

\* record_indeterminate
LEMMA RecordIndeterminateHolds ==
    ASSUME ApprovalInvariant, NEW c \in Coordinators, RecordIndeterminate(c)
    PROVE  ApprovalInvariant'
<1> DEFINE n == [record EXCEPT !.state = "indeterminate", !.terminalAt = now]
<1>1. /\ record \in Record /\ now \in Time /\ record.state = "consuming"
      /\ Sound(record, pulls, now)
  BY DEF ApprovalInvariant, Typed, RecordIndeterminate
<1>2. /\ n \in Record /\ n.state = "indeterminate" /\ n.authorization = record.authorization
      /\ n.consumption = record.consumption
  BY <1>1 DEF Record, States
<1>3. Propose(c, n)
  BY DEF RecordIndeterminate
<1> HIDE DEF n
<1>4. Successor(record, n)
  BY <1>1, <1>2 DEF Successor, Settled
<1>5. InForce(n) /\ Begun(n, now) /\ Backed(n, pulls)
  BY <1>1, <1>2 DEF Sound, InForce, Begun, Backed
<1> QED
  BY <1>2, <1>3, <1>4, <1>5, ProposesInTurn

\* A coordinator that does nothing, holds nothing.
LEMMA IdleHolds ==
    ASSUME NEW r, NEW ps, NEW t
    PROVE  Idle \in Agent /\ AgentHolds(Idle, r, ps, t)
BY DEF Idle, Pending, Agent, Record, States, AgentHolds, StoresInTurn, HoldsPermit, WasAnswered

\* A coordinator with a permit for the recorded consumption.
LEMMA PermittedHolds ==
    ASSUME NEW r \in Record, NEW ps, NEW t, r.state \in {"consuming"} \cup Settled
    PROVE  LET m == [Idle EXCEPT !.step = "permitted", !.seen = r]
           IN  m \in Agent /\ AgentHolds(m, r, ps, t)
<1> DEFINE m == [Idle EXCEPT !.step = "permitted", !.seen = r]
<1>1. m \in Agent /\ m.step = "permitted" /\ m.seen = r
  BY DEF Idle, Pending, Agent, Record, States
<1> HIDE DEF m
<1>2. AgentHolds(m, r, ps, t)
  BY <1>1 DEF AgentHolds, StoresInTurn, HoldsPermit, WasAnswered
<1> QED
  BY <1>1, <1>2 DEF m

\* The store takes a replacement from who read what it replaces, and from no other.
LEMMA CommitReplaces ==
    ASSUME ApprovalInvariant, NEW c \in Coordinators, Commit(c)
    PROVE  \/ record' = record /\ agents' = [agents EXCEPT ![c] = Idle]
           \/ /\ Successor(record, record') /\ record' \in Record
              /\ Sound(record', pulls, now)
              /\ \/ agents' = [agents EXCEPT ![c] = Idle]
                 \/ /\ record'.state = "consuming"
                    /\ agents' = [agents EXCEPT ![c] =
                                     [Idle EXCEPT !.step = "permitted", !.seen = record']]
<1> DEFINE m == agents[c]
           won == Revision(record.state) = Revision(m.seen.state)
<1>1. m \in Agent /\ m.step = "committing" /\ StoresInTurn(m, record, pulls, now)
  BY DEF ApprovalInvariant, Typed, AgentHolds, Commit
<1>2. /\ m.seen = record \/ Revision(m.seen.state) < Revision(record.state)
      /\ Successor(m.seen, m.next) /\ Sound(m.next, pulls, now)
  BY <1>1 DEF StoresInTurn
<1>3. Revision(m.seen.state) \in Nat /\ Revision(record.state) \in Nat
  BY DEF Revision
<1>4. CASE won
  <2>1. m.seen = record
    BY <1>2, <1>3, <1>4
  <2>2. record' = m.next
    BY <1>4 DEF Commit
  <2>3. \/ agents' = [agents EXCEPT ![c] = Idle]
        \/ /\ m.next.state = "consuming"
           /\ agents' = [agents EXCEPT ![c] =
                            [Idle EXCEPT !.step = "permitted", !.seen = m.next]]
    BY DEF Commit
  <2>4. m.next \in Record
    BY <1>1 DEF Agent
  <2> QED
    BY <1>2, <2>1, <2>2, <2>3, <2>4
<1>5. CASE ~won
  BY <1>5 DEF Commit
<1> QED
  BY <1>4, <1>5

\* The broker's calls and pull requests are about what the successor keeps.
LEMMA BrokerSuperseded ==
    ASSUME NEW r \in Record, NEW n \in Record, WellFormed(r), Successor(r, n),
           NEW cs, NEW ps, NEW t, CalledFor(r, cs), MadeFor(r, ps, t)
    PROVE  CalledFor(n, cs) /\ MadeFor(n, ps, t)
BY SuccessorKeeps DEF CalledFor, MadeFor

\* The store is written.
LEMMA CommitHolds ==
    ASSUME ApprovalInvariant, NEW c \in Coordinators, Commit(c)
    PROVE  ApprovalInvariant'
<1>1. UNCHANGED <<world, calls, pulls>>
  BY DEF Commit
<1>2. CASE record' = record /\ agents' = [agents EXCEPT ![c] = Idle]
  BY <1>1, <1>2, IdleHolds, OneAgentMoves
<1>3. CASE /\ Successor(record, record') /\ record' \in Record
           /\ Sound(record', pulls, now)
           /\ \/ agents' = [agents EXCEPT ![c] = Idle]
              \/ /\ record'.state = "consuming"
                 /\ agents' = [agents EXCEPT ![c] =
                                  [Idle EXCEPT !.step = "permitted", !.seen = record']]
  <2>1. PICK m \in Agent : /\ agents' = [agents EXCEPT ![c] = m]
                           /\ AgentHolds(m, record', pulls, now)
    BY <1>3, IdleHolds, PermittedHolds
  <2>2. agents' \in [Coordinators -> Agent] /\ agents \in [Coordinators -> Agent]
    BY <2>1 DEF ApprovalInvariant, Typed
  <2>3. record \in Record /\ WellFormed(record)
    BY DEF ApprovalInvariant, Typed, Sound
  <2>4. ASSUME NEW d \in Coordinators PROVE AgentHolds(agents'[d], record', pulls, now)
    <3>1. agents[d] \in Agent /\ AgentHolds(agents[d], record, pulls, now)
      BY <2>2 DEF ApprovalInvariant
    <3>2. AgentHolds(agents[d], record', pulls, now)
      BY <1>3, <2>3, <3>1, AgentSuperseded
    <3>3. agents'[d] = IF d = c THEN m ELSE agents[d]
      BY <2>1, <2>2
    <3> QED
      BY <2>1, <3>2, <3>3
  <2>5. CalledFor(record', calls) /\ MadeFor(record', pulls, now)
    BY <1>3, <2>3, BrokerSuperseded DEF ApprovalInvariant
  <2>6. now' = now /\ calls' = calls /\ pulls' = pulls
        /\ UNCHANGED <<origin, remote, policy>>
    BY <1>1 DEF world
  <2> QED
    BY <1>3, <2>2, <2>4, <2>5, <2>6 DEF ApprovalInvariant, Typed
<1> QED
  BY <1>2, <1>3, CommitReplaces

\* consumption_permit
LEMMA TakePermitHolds ==
    ASSUME ApprovalInvariant, NEW c \in Coordinators, TakePermit(c)
    PROVE  ApprovalInvariant'
BY PermittedHolds, OneAgentMoves DEF TakePermit, ApprovalInvariant, Typed

\* The broker observes the head branch.
LEMMA ObserveHolds ==
    ASSUME ApprovalInvariant, NEW c \in Coordinators, Observe(c)
    PROVE  ApprovalInvariant'
<1> DEFINE seen == [head |-> remote, checkedAt |-> now]
           m == [agents[c] EXCEPT !.step = "checked", !.preflight = seen]
<1>1. agents[c] \in Agent /\ AgentHolds(agents[c], record, pulls, now)
  BY DEF ApprovalInvariant, Typed
<1>2. seen \in Preflight
  BY DEF ApprovalInvariant, Typed, Preflight
<1>3. m \in Agent /\ m.step = "checked" /\ m.seen = agents[c].seen
  BY <1>1, <1>2 DEF Agent
<1>4. agents' = [agents EXCEPT ![c] = m] /\ UNCHANGED <<world, record, calls, pulls>>
      /\ agents[c].step = "permitted"
  BY DEF Observe
<1> HIDE DEF m
<1>5. AgentHolds(m, record, pulls, now)
  BY <1>1, <1>3, <1>4 DEF AgentHolds, StoresInTurn, HoldsPermit, WasAnswered
<1> QED
  BY <1>3, <1>4, <1>5, OneAgentMoves

\* The broker is called with the key of the recorded consumption.
LEMMA ExecuteHolds ==
    ASSUME ApprovalInvariant, NEW c \in Coordinators, Execute(c)
    PROVE  ApprovalInvariant'
<1> DEFINE m == [agents[c] EXCEPT !.step = "called"]
           k == Permit(c).key
<1>1. /\ agents[c] \in Agent /\ AgentHolds(agents[c], record, pulls, now)
      /\ agents \in [Coordinators -> Agent]
  BY DEF ApprovalInvariant, Typed
<1>2. m \in Agent /\ m.step = "called" /\ m.seen = agents[c].seen
  BY <1>1 DEF Agent
<1>3. /\ agents' = [agents EXCEPT ![c] = m] /\ calls' = calls \cup {k}
      /\ UNCHANGED <<world, record, pulls>> /\ agents[c].step = "checked"
  BY DEF Execute
<1>4. record.state \in {"consuming"} \cup Settled /\ k = record.consumption.key
  BY <1>1, <1>3 DEF AgentHolds, HoldsPermit, Permit
<1>5. k \in Envelope
  BY <1>4, BegunHolds DEF ApprovalInvariant, Typed, Sound, Consumption
<1>6. CalledFor(record, calls')
  BY <1>3, <1>4 DEF ApprovalInvariant, CalledFor
<1> HIDE DEF m, k
<1>7. AgentHolds(m, record, pulls, now)
  BY <1>1, <1>2, <1>3 DEF AgentHolds, StoresInTurn, HoldsPermit, WasAnswered
<1>8. ASSUME NEW d \in Coordinators PROVE AgentHolds(agents'[d], record, pulls, now)
  <2>1. agents'[d] = IF d = c THEN m ELSE agents[d]
    BY <1>1, <1>3
  <2> QED
    BY <1>7, <2>1 DEF ApprovalInvariant
<1>9. agents' \in [Coordinators -> Agent] /\ calls' \subseteq Envelope
  BY <1>1, <1>2, <1>3, <1>5 DEF ApprovalInvariant, Typed
<1>10. record' = record /\ pulls' = pulls /\ now' = now /\ UNCHANGED <<origin, remote, policy>>
  BY <1>3 DEF world
<1> QED
  BY <1>6, <1>8, <1>9, <1>10 DEF ApprovalInvariant, Typed

\* The broker acts on one call, once for a key.
LEMMA BrokerActsHolds ==
    ASSUME ApprovalInvariant, NEW k \in calls, BrokerActs(k)
    PROVE  ApprovalInvariant'
<1> DEFINE pull == [key |-> k, head |-> remote, text |-> Asked.action.text, at |-> now]
<1>1. /\ record \in Record /\ WellFormed(record) /\ now \in Time /\ Sound(record, pulls, now)
      /\ calls \subseteq Envelope /\ remote \in Commits /\ pulls \subseteq Pull
      /\ agents \in [Coordinators -> Agent]
  BY DEF ApprovalInvariant, Typed, Sound
<1>2. record.state \in {"consuming"} \cup Settled /\ k = record.consumption.key
  BY DEF ApprovalInvariant, CalledFor
<1>3. record.consumption # None /\ record.consumption.startedAt <= now
  BY <1>1, <1>2, BegunHolds DEF Sound, Begun
<1>4. pull \in Pull /\ pull.key = k /\ pull.at = now
  BY <1>1 DEF Pull, Request, Action
<1> HIDE DEF pull
<1>5. pulls' = pulls \/ (pulls' = {pull} /\ pulls = {})
  <2>1. CASE \E p \in pulls : p.key = k
    BY <2>1 DEF BrokerActs
  <2>2. CASE ~ \E p \in pulls : p.key = k
    <3>1. pulls = {}
      BY <1>2, <2>2 DEF ApprovalInvariant, MadeFor
    <3> QED
      BY <2>2, <3>1 DEF BrokerActs, pull
  <2> QED
    BY <2>1, <2>2
<1>6. pulls \subseteq pulls' /\ pulls' \subseteq Pull
  BY <1>1, <1>4, <1>5
<1>7. MadeFor(record, pulls', now) /\ MadeOnce(pulls')
  <2>1. now <= now /\ now \in Nat
    BY <1>1 DEF Time
  <2>2. CASE pulls' = pulls
    BY <2>2 DEF ApprovalInvariant
  <2>3. CASE pulls' = {pull}
    BY <1>2, <1>3, <1>4, <2>1, <2>3 DEF MadeFor, MadeOnce
  <2> QED
    BY <1>5, <2>2, <2>3
<1>8. now <= now
  BY <1>1 DEF Time
<1>9. Sound(record, pulls', now)
  BY <1>1, <1>6, <1>8, SoundLater
<1>10. ASSUME NEW d \in Coordinators PROVE AgentHolds(agents[d], record, pulls', now)
  <2>1. agents[d] \in Agent /\ AgentHolds(agents[d], record, pulls, now)
    BY <1>1 DEF ApprovalInvariant
  <2> QED
    BY <1>1, <1>6, <1>8, <2>1, AgentLater
<1>11. CalledFor(record, calls') /\ calls' \subseteq Envelope
  BY <1>1 DEF ApprovalInvariant, CalledFor, BrokerActs
<1>12. record' = record /\ agents' = agents /\ now' = now /\ UNCHANGED <<origin, remote, policy>>
  BY DEF BrokerActs, world
<1> QED
  BY <1>6, <1>7, <1>9, <1>10, <1>11, <1>12 DEF ApprovalInvariant, Typed

\* A coordinator learns of the pull request for its permit.
LEMMA LearnHolds ==
    ASSUME ApprovalInvariant, NEW c \in Coordinators, Learn(c)
    PROVE  ApprovalInvariant'
<1>1. PICK p \in pulls : agents' = [agents EXCEPT ![c] = [@ EXCEPT !.step = "answered",
                                                                   !.receipt = ReceiptOf(p)]]
  BY DEF Learn
<1> DEFINE m == [agents[c] EXCEPT !.step = "answered", !.receipt = ReceiptOf(p)]
<1>2. /\ agents[c] \in Agent /\ AgentHolds(agents[c], record, pulls, now) /\ p \in Pull
      /\ now \in Time
  BY DEF ApprovalInvariant, Typed
<1>3. ReceiptOf(p) \in Receipt /\ ReceiptOf(p).observedAt = now
      /\ ReceiptOf(p).key = p.key /\ ReceiptOf(p).head = p.head /\ ReceiptOf(p).text = p.text
  BY <1>2 DEF ReceiptOf, Receipt, Pull
<1>4. /\ m \in Agent /\ m.step = "answered" /\ m.seen = agents[c].seen
      /\ m.receipt = ReceiptOf(p)
  BY <1>2, <1>3 DEF Agent
<1>5. agents' = [agents EXCEPT ![c] = m] /\ UNCHANGED <<world, record, calls, pulls>>
      /\ agents[c].step \in {"called", "permitted"}
  BY <1>1 DEF Learn
<1> HIDE DEF m
<1>6. WasAnswered(m, pulls, now)
  <2>1. p.at <= now /\ now <= now
    BY <1>2 DEF ApprovalInvariant, MadeFor, Time
  <2> QED
    BY <1>3, <1>4, <2>1 DEF WasAnswered
<1>7. AgentHolds(m, record, pulls, now)
  BY <1>2, <1>4, <1>5, <1>6 DEF AgentHolds, StoresInTurn, HoldsPermit
<1> QED
  BY <1>4, <1>5, <1>7, OneAgentMoves

\* The clock ticks, the origin drifts, somebody pushes, the policy changes.
LEMMA WorldHolds ==
    ASSUME ApprovalInvariant, World
    PROVE  ApprovalInvariant'
<1>1. /\ UNCHANGED rest /\ now' \in Time /\ now \in Time /\ now <= now'
      /\ origin' \in {Asked.scope} \cup Scopes /\ remote' \in Commits /\ policy' \in Sources
  BY DEF World, Tick, Drift, Push, ChangePolicy, ApprovalInvariant, Typed, Time
<1>2. record' = record /\ agents' = agents /\ calls' = calls /\ pulls' = pulls
  BY <1>1 DEF rest
<1>3. record \in Record /\ agents \in [Coordinators -> Agent] /\ pulls \subseteq Pull
  BY DEF ApprovalInvariant, Typed
<1>4. Sound(record, pulls, now')
  BY <1>1, <1>3, SoundLater DEF ApprovalInvariant
<1>5. ASSUME NEW d \in Coordinators PROVE AgentHolds(agents[d], record, pulls, now')
  <2>1. agents[d] \in Agent /\ AgentHolds(agents[d], record, pulls, now)
    BY <1>3 DEF ApprovalInvariant
  <2> QED
    BY <1>1, <2>1, AgentLater
<1>6. MadeFor(record, pulls, now')
  <2>1. ASSUME NEW p \in pulls PROVE p.at <= now'
    BY <1>1, <1>3 DEF ApprovalInvariant, MadeFor, Pull, Time
  <2> QED
    BY <2>1 DEF ApprovalInvariant, MadeFor
<1> QED
  BY <1>1, <1>2, <1>4, <1>5, <1>6 DEF ApprovalInvariant, Typed

---------------------------------------------------------------------------
(* What follows.                                                           *)

\* The invariant holds in every state.
LEMMA ApprovalHolds == Spec => []ApprovalInvariant
<1>1. Init => ApprovalInvariant
  <2> SUFFICES ASSUME Init PROVE ApprovalInvariant
    OBVIOUS
  <2>1. Pending \in Record /\ Sound(Pending, {}, 0)
    BY DEF Pending, Record, States, Sound, WellFormed, AuthorizationFits, ConsumptionFits,
           SettlementFits, InForce, Begun, Backed, Settled
  <2>2. 0 \in Time /\ Asked.action.head \in Commits
    BY DEF Time, Request, Action
  <2>3. agents \in [Coordinators -> Agent]
        /\ \A c \in Coordinators : AgentHolds(agents[c], record, pulls, now)
    BY IdleHolds DEF Init
  <2> QED
    BY <2>1, <2>2, <2>3
       DEF Init, ApprovalInvariant, Typed, CalledFor, MadeFor, MadeOnce
<1>2. ApprovalInvariant /\ [Next]_vars => ApprovalInvariant'
  <2> SUFFICES ASSUME ApprovalInvariant, [Next]_vars PROVE ApprovalInvariant'
    OBVIOUS
  <2>1. ASSUME NEW c \in Coordinators, Step(c) PROVE ApprovalInvariant'
    <3>1. CASE \E e \in Envelopes : Authorize(c, e)
      BY <3>1, AuthorizeHolds
    <3>2. CASE BeginConsumption(c)
      BY <3>2, BeginConsumptionHolds
    <3>3. CASE RecordConsumed(c)
      BY <3>3, RecordConsumedHolds
    <3>4. CASE RecordIndeterminate(c)
      BY <3>4, RecordIndeterminateHolds
    <3>5. CASE Commit(c)
      BY <3>5, CommitHolds
    <3>6. CASE TakePermit(c)
      BY <3>6, TakePermitHolds
    <3>7. CASE Observe(c)
      BY <3>7, ObserveHolds
    <3>8. CASE Execute(c)
      BY <3>8, ExecuteHolds
    <3>9. CASE Learn(c)
      BY <3>9, LearnHolds
    <3>10. CASE Stop(c)
      BY <3>10, IdleHolds, OneAgentMoves DEF Stop
    <3> QED
      BY <2>1, <3>1, <3>2, <3>3, <3>4, <3>5, <3>6, <3>7, <3>8, <3>9, <3>10 DEF Step
  <2>2. ASSUME NEW k \in calls, BrokerActs(k) PROVE ApprovalInvariant'
    BY <2>2, BrokerActsHolds
  <2>3. CASE World
    BY <2>3, WorldHolds
  <2>4. CASE UNCHANGED vars
    BY <2>4 DEF vars, ApprovalInvariant, Typed
  <2> QED
    BY <2>1, <2>2, <2>3, <2>4 DEF Next
<1> QED
  BY <1>1, <1>2, PTL DEF Spec

\* One signature buys at most one pull request, made after its consumption was durable,
\* and that began while the signature was in force.
THEOREM OneSignatureOnePull == Spec => []OneInForce
<1>1. ApprovalInvariant => OneInForce
  <2> SUFFICES ASSUME ApprovalInvariant PROVE OneInForce
    OBVIOUS
  <2>1. Cardinality(pulls) <= 1
    <3>1. CASE pulls = {}
      BY <3>1, FS_EmptySet
    <3>2. ASSUME NEW p \in pulls PROVE Cardinality(pulls) = 1
      <4>1. pulls = {p}
        BY DEF ApprovalInvariant, MadeOnce
      <4> QED
        BY <4>1, FS_Singleton
    <3> QED
      BY <3>1, <3>2
  <2>2. MadeFor(record, pulls, now) /\ InForce(record)
    BY DEF ApprovalInvariant, Sound
  <2> QED
    BY <2>1, <2>2 DEF OneInForce, MadeFor, InForce
<1> QED
  BY <1>1, ApprovalHolds, PTL

\* A consumed approval is about a pull request that exists and is the signed one.
THEOREM ConsumedIsTrue == Spec => []ReceiptsAreTrue
<1>1. ApprovalInvariant => ReceiptsAreTrue
  BY DEF ApprovalInvariant, Sound, Backed, ReceiptsAreTrue
<1> QED
  BY <1>1, ApprovalHolds, PTL

\* Whoever races whom: no signature, consumption or outcome that was stored is changed.
THEOREM RecordsAreKept == Spec => NothingIsRevised
<1> DEFINE Kept == /\ record.authorization # None
                         => record'.authorization = record.authorization
                   /\ record.consumption # None
                         => record'.consumption = record.consumption
                   /\ record.state \in Settled => record' = record
<1>1. ApprovalInvariant /\ [Next]_vars => [Kept]_record
  <2> SUFFICES ASSUME ApprovalInvariant, [Next]_vars, record' # record PROVE Kept
    OBVIOUS
  <2>1. PICK c \in Coordinators : Commit(c)
    BY DEF Next, Step, World, vars, rest, world, Authorize, BeginConsumption, RecordConsumed,
           RecordIndeterminate, Propose, TakePermit, Observe, Execute, Learn, Stop,
           BrokerActs, Tick, Drift, Push, ChangePolicy
  <2>2. Successor(record, record')
    BY <2>1, CommitReplaces
  <2> QED
    BY <2>2 DEF Successor, Settled
<1> HIDE DEF Kept
<1>2. Spec => [][Kept]_record
  BY <1>1, ApprovalHolds, PTL DEF Spec
<1> QED
  BY <1>2 DEF NothingIsRevised, Kept
=============================================================================
