------------------------- MODULE MCManagedApproval -------------------------
(* An instance of ManagedApproval for TLC: a request for commit c1 that     *)
(* lives for two ticks, and signatures that are good, short-lived, of an    *)
(* older policy, for another request or forged.                             *)
EXTENDS ManagedApproval, TLC

CONSTANTS c1, p1, p2, t1, a1, a2

MCAsked == [scope |-> [attempt |-> a1, repository |-> [commit |-> c1],
                       workspace |-> [checkpoint |-> c1]],
            action |-> [head |-> c1, text |-> t1], expires |-> 2]

Good == [request |-> MCAsked, policy |-> p1, issued |-> 0, expires |-> 2, genuine |-> TRUE]

MCScopes == {MCAsked.scope, [MCAsked.scope EXCEPT !.attempt = a2]}
MCSources == {[revision |-> p1, protected |-> TRUE], [revision |-> p2, protected |-> FALSE]}

MCEnvelopes == {Good, [Good EXCEPT !.expires = 1], [Good EXCEPT !.genuine = FALSE],
                [Good EXCEPT !.request = None], [Good EXCEPT !.issued = 1],
                [Good EXCEPT !.policy = p2]}

Permutable == Permutations(Coordinators)
=============================================================================
