-------------------------- MODULE ManagedApproval --------------------------
(***************************************************************************)
(* One managed approval (managed_approval.py): a person signs the exact    *)
(* origin and the exact pull request; coordinators attach the signature,   *)
(* consume it, have a broker create the pull request and record what came  *)
(* of it.  Any number of coordinators race over a store that compares      *)
(* revisions; they die between any two steps, the broker carries out a     *)
(* call late or its answer is lost, the origin, the remote branch and the  *)
(* signer policy change meanwhile.                                         *)
(*                                                                         *)
(* The store, the broker and the driver that calls them are outside of the *)
(* repository: they keep to the protocols the module declares.  A digest   *)
(* is what it digests; the idempotency key of a consumption is the         *)
(* authorization it consumes.                                              *)
(***************************************************************************)
EXTENDS Integers, FiniteSets

CONSTANTS Coordinators,  \* processes that drive the approval
          Commits,       \* commits of the repository and its remote
          Attempts,      \* stops, stages and dispatches an origin may name
          Texts,         \* what a pull request says and where it goes
          Policies,      \* revisions of the signer policy
          Scopes,        \* where the managed run may stand
          Sources,       \* where the signer policy may come from
          Envelopes,     \* the authorizations people signed
          Asked,         \* the request: scope, action, expiry
          MaxAge,        \* BROKER_PREFLIGHT_MAX_AGE_SECONDS
          MaxTime,       \* bound: the clock stops here
          None           \* an absent field

Time == 0 .. MaxTime

(* What is bound.                                                          *)
Checkpoint == Commits
Workspace == [checkpoint : Checkpoint]
Repository == [commit : Commits]
Scope == [attempt : Attempts, repository : Repository, workspace : Workspace]
Action == [head : Commits, text : Texts]

\* The request is created at time 0 for the commit that its scope names.
Request == {r \in [scope : Scope, action : Action, expires : Time \ {0}] :
               /\ r.action.head = r.scope.workspace.checkpoint
               /\ r.action.head = r.scope.repository.commit}

Envelope == {e \in [request : {Asked, None}, policy : Policies, issued : Time,
                    expires : Time, genuine : BOOLEAN] : e.expires > e.issued}

ASSUME RequestAssumption == Asked \in Request /\ None \notin Envelope \cup {Asked}
ASSUME EnvelopeAssumption == Envelopes \subseteq Envelope
ASSUME WorldAssumption == /\ Scopes \subseteq Scope
                          /\ Sources \subseteq [revision : Policies, protected : BOOLEAN]
ASSUME TimeAssumption == MaxTime \in Nat /\ MaxAge \in Nat

Consumption == [key : Envelope, startedAt : Time]
Receipt == [key : Envelope, head : Commits, text : Texts, observedAt : Time]
Preflight == [head : Commits, checkedAt : Time]

States == {"pending", "authorized", "consuming", "consumed", "indeterminate"}
Settled == {"consumed", "indeterminate"}

Revision(state) == CASE state = "pending" -> 0 [] state = "authorized" -> 1
                     [] state = "consuming" -> 2 [] OTHER -> 3

Record == [state : States, authorization : Envelope \cup {None},
           authorizedAt : Time \cup {None}, consumption : Consumption \cup {None},
           receipt : Receipt \cup {None}, terminalAt : Time \cup {None}]

Pending == [state |-> "pending", authorization |-> None, authorizedAt |-> None,
            consumption |-> None, receipt |-> None, terminalAt |-> None]

VARIABLES now,     \* the clock
          origin,  \* where the managed run stands: the current scope
          remote,  \* the commit of the head branch at the remote
          policy,  \* the signer policy: its revision, and whether workers cannot write it
          record,  \* the approval in the store
          agents,  \* the coordinators
          calls,   \* keys the broker was called with and has not acted on
          pulls    \* the pull requests that exist

vars == <<now, origin, remote, policy, record, agents, calls, pulls>>
world == <<now, origin, remote, policy>>

\* A coordinator between two steps: what it read, what it is about to store or
\* was told.
Agent == [step : {"idle", "committing", "permitted", "checked", "called", "answered"},
          seen : Record, next : Record, preflight : Preflight \cup {None},
          receipt : Receipt \cup {None}]

Idle == [step |-> "idle", seen |-> Pending, next |-> Pending,
         preflight |-> None, receipt |-> None]

Pull == [key : Envelope, head : Commits, text : Texts, at : Time]

---------------------------------------------------------------------------
(* What a transition checks.                                               *)

\* validate_exact_binding: nothing of the origin or of the action drifted.
ExactBinding(r, scope, action) == r.scope = scope /\ r.action = action

\* The policy is kept where no worker can change it.
ExternalSource(p) == p.protected

\* Mutant: the lifetime of the authorization is not looked at.
VerifiedLate(e) ==
    /\ ExactBinding(Asked, origin, Asked.action)
    /\ now < Asked.expires
    /\ e.request = Asked
    /\ e.issued <= now
    /\ ExternalSource(policy)
    /\ e.policy = policy.revision
    /\ e.genuine

\* verify_authorization
Verified(e) ==
    /\ ExactBinding(Asked, origin, Asked.action)
    /\ now < Asked.expires
    /\ e.request = Asked
    /\ e.issued <= now
    /\ e.expires <= Asked.expires
    /\ now < e.expires
    /\ ExternalSource(policy)
    /\ e.policy = policy.revision
    /\ e.genuine

\* Mutant: the head commit of a receipt is not compared.
ReceiptMatchesAnyHead(r, receipt, at) ==
    /\ receipt.key = r.consumption.key
    /\ receipt.text = Asked.action.text
    /\ receipt.observedAt \in r.consumption.startedAt .. at

\* _validate_receipt
ReceiptMatches(r, receipt, at) ==
    /\ receipt.key = r.consumption.key
    /\ receipt.head = Asked.action.head
    /\ receipt.text = Asked.action.text
    /\ receipt.observedAt \in r.consumption.startedAt .. at

\* validate_broker_preflight: a fresh observation of the signed commit.
PreflightHolds(permit, preflight) ==
    /\ preflight.head = Asked.action.head
    /\ preflight.checkedAt \in permit.startedAt .. now
    /\ now - preflight.checkedAt <= MaxAge

\* _validate_state_fields: what every stored record has to satisfy.
AuthorizationFits(r) ==
    IF r.state = "pending" THEN r = Pending
    ELSE /\ r.authorization # None /\ r.authorizedAt # None
         /\ r.authorization.request = Asked
         /\ r.authorizedAt >= r.authorization.issued
         /\ r.authorizedAt < r.authorization.expires
         /\ r.authorizedAt < Asked.expires

ConsumptionFits(r) ==
    IF r.state \in {"pending", "authorized"}
    THEN r.consumption = None /\ r.receipt = None /\ r.terminalAt = None
    ELSE /\ r.consumption # None
         /\ r.consumption.key = r.authorization
         /\ r.consumption.startedAt >= r.authorizedAt

SettlementFits(r) ==
    IF r.state \in Settled
    THEN /\ r.terminalAt # None /\ r.terminalAt >= r.consumption.startedAt
         /\ IF r.state = "consumed"
            THEN r.receipt # None /\ ReceiptMatches(r, r.receipt, r.terminalAt)
            ELSE r.receipt = None
    ELSE r.receipt = None /\ r.terminalAt = None

WellFormed(r) == AuthorizationFits(r) /\ ConsumptionFits(r) /\ SettlementFits(r)

---------------------------------------------------------------------------
(* The transitions: read, check, compute the replacement, compare and swap. *)

\* current = the stored record; the store is written by a later step.
Propose(c, replacement) ==
    /\ WellFormed(replacement)
    /\ agents' = [agents EXCEPT ![c] = [@ EXCEPT !.step = "committing", !.seen = record,
                                                 !.next = replacement]]
    /\ UNCHANGED <<world, record, calls, pulls>>

Authorize(c, e) ==
    /\ agents[c].step = "idle"
    /\ record.state = "pending"
    /\ Verified(e)
    /\ Propose(c, [record EXCEPT !.state = "authorized", !.authorization = e,
                                 !.authorizedAt = now])

\* The authorization is verified again: time and origin have moved.
BeginConsumption(c) ==
    /\ agents[c].step = "idle"
    /\ record.state = "authorized"
    /\ Verified(record.authorization)
    /\ Propose(c, [record EXCEPT !.state = "consuming",
                                 !.consumption = [key |-> record.authorization,
                                                  startedAt |-> now]])

RecordConsumed(c) ==
    /\ agents[c].step = "answered"
    /\ record.state = "consuming"
    /\ ReceiptMatches(record, agents[c].receipt, now)
    /\ Propose(c, [record EXCEPT !.state = "consumed", !.receipt = agents[c].receipt,
                                 !.terminalAt = now])

RecordIndeterminate(c) ==
    /\ agents[c].step # "committing"
    /\ record.state = "consuming"
    /\ now >= record.consumption.startedAt
    /\ Propose(c, [record EXCEPT !.state = "indeterminate", !.terminalAt = now])

\* Mutant: the store is written whoever wrote it meanwhile.
CommitBlindly(c) ==
    /\ agents[c].step = "committing"
    /\ record' = agents[c].next
    /\ agents' = [agents EXCEPT ![c] = [Idle EXCEPT
                    !.step = IF agents[c].next.state = "consuming" THEN "permitted" ELSE "idle",
                    !.seen = agents[c].next]]
    /\ UNCHANGED <<world, calls, pulls>>

\* A coordinator that loses the race is told so; one that began the consumption
\* gets a permit for the broker.
Commit(c) ==
    LET mine == agents[c]
        won == Revision(record.state) = Revision(mine.seen.state)
    IN  /\ mine.step = "committing"
        /\ record' = IF won THEN mine.next ELSE record
        /\ agents' = [agents EXCEPT ![c] =
                        IF won /\ mine.next.state = "consuming"
                        THEN [Idle EXCEPT !.step = "permitted", !.seen = mine.next]
                        ELSE Idle]
        /\ UNCHANGED <<world, calls, pulls>>

\* consumption_permit: whoever finds a consuming record can take over.
TakePermit(c) ==
    /\ agents[c].step = "idle"
    /\ record.state = "consuming"
    /\ agents' = [agents EXCEPT ![c] = [Idle EXCEPT !.step = "permitted", !.seen = record]]
    /\ UNCHANGED <<world, record, calls, pulls>>

Permit(c) == agents[c].seen.consumption

---------------------------------------------------------------------------
(* The broker, by the protocol it is asked to keep.                        *)

Observe(c) ==
    /\ agents[c].step = "permitted"
    /\ agents' = [agents EXCEPT ![c] = [@ EXCEPT !.step = "checked",
                    !.preflight = [head |-> remote, checkedAt |-> now]]]
    /\ UNCHANGED <<world, record, calls, pulls>>

Execute(c) ==
    /\ agents[c].step = "checked"
    /\ PreflightHolds(Permit(c), agents[c].preflight)
    /\ agents' = [agents EXCEPT ![c] = [@ EXCEPT !.step = "called"]]
    /\ calls' = calls \cup {Permit(c).key}
    /\ UNCHANGED <<world, record, pulls>>

\* Late or not, the broker creates one pull request for a key, of what the head
\* branch is then.
BrokerActs(k) ==
    /\ k \in calls
    /\ calls' = calls \ {k}
    /\ pulls' = IF \E p \in pulls : p.key = k THEN pulls
                ELSE pulls \cup {[key |-> k, head |-> remote, text |-> Asked.action.text,
                                  at |-> now]}
    /\ UNCHANGED <<world, record, agents>>

ReceiptOf(p) == [key |-> p.key, head |-> p.head, text |-> p.text, observedAt |-> now]

\* The answer to a call, or to the question what became of an earlier one.
Learn(c) ==
    /\ agents[c].step \in {"called", "permitted"}
    /\ \E p \in pulls :
          /\ p.key = Permit(c).key
          /\ agents' = [agents EXCEPT ![c] = [@ EXCEPT !.step = "answered",
                                                       !.receipt = ReceiptOf(p)]]
    /\ UNCHANGED <<world, record, calls, pulls>>

\* The coordinator dies, or gives up on an error.
Stop(c) ==
    /\ agents[c].step # "idle"
    /\ agents' = [agents EXCEPT ![c] = Idle]
    /\ UNCHANGED <<world, record, calls, pulls>>

---------------------------------------------------------------------------
(* The world.                                                              *)

rest == <<record, agents, calls, pulls>>

Tick == now < MaxTime /\ now' = now + 1 /\ UNCHANGED <<origin, remote, policy, rest>>
Drift == \E s \in Scopes : origin' = s /\ UNCHANGED <<now, remote, policy, rest>>
Push == \E c \in Commits : remote' = c /\ UNCHANGED <<now, origin, policy, rest>>
ChangePolicy == \E p \in Sources : policy' = p /\ UNCHANGED <<now, origin, remote, rest>>

Init == /\ now = 0
        /\ origin = Asked.scope
        /\ remote = Asked.action.head
        /\ policy \in Sources
        /\ record = Pending
        /\ agents = [c \in Coordinators |-> Idle]
        /\ calls = {} /\ pulls = {}

Step(c) == \/ \E e \in Envelopes : Authorize(c, e)
           \/ BeginConsumption(c) \/ RecordConsumed(c) \/ RecordIndeterminate(c)
           \/ Commit(c) \/ TakePermit(c) \/ Observe(c) \/ Execute(c) \/ Learn(c) \/ Stop(c)

World == Tick \/ Drift \/ Push \/ ChangePolicy

Next == \/ \E c \in Coordinators : Step(c)
        \/ \E k \in calls : BrokerActs(k)
        \/ World

Spec == Init /\ [][Next]_vars

---------------------------------------------------------------------------
\* One signature buys one pull request: whichever coordinators race, die and
\* take over, there is at most one, made after the consumption was durable, and
\* that began while the signature was in force (begin_consumption).
OneInForce ==
    /\ Cardinality(pulls) <= 1
    /\ \A p \in pulls : /\ record.state \in {"consuming"} \cup Settled
                        /\ p.key = record.consumption.key
                        /\ p.at >= record.consumption.startedAt
    /\ record.consumption # None =>
          /\ record.consumption.startedAt < record.authorization.expires
          /\ record.consumption.startedAt < Asked.expires

\* A consumed approval is about a pull request that exists and is the signed one,
\* though the branch may have been pushed to between observation and creation.
ReceiptsAreTrue ==
    record.state = "consumed" =>
        \E p \in pulls : /\ p.key = record.authorization
                         /\ p.head = Asked.action.head
                         /\ p.text = Asked.action.text
                         /\ p.at <= record.terminalAt

\* What a record holds is never revised: a signature and a consumption stay, and
\* of a success and a doubt recorded at once only the first counts.
NothingIsRevised ==
    [][/\ record.authorization # None => record'.authorization = record.authorization
       /\ record.consumption # None => record'.consumption = record.consumption
       /\ record.state \in Settled => record' = record]_record
=============================================================================
