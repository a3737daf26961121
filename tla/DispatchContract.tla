--------------------------- MODULE DispatchContract ---------------------------
(***************************************************************************)
(* What a dispatcher promises its coordinator (dispatch.py): the attempts  *)
(* of a worker are made one after the other, an attempt is queued, runs    *)
(* and ends once, and only a failed attempt is followed by another.        *)
(***************************************************************************)
EXTENDS Naturals

CONSTANTS Workers,     \* what a coordinator dispatches
          MaxAttempts  \* bound: attempts of one worker

VARIABLE status  \* of each attempt, by handle

\* A handle names a dispatch and its attempt.
Handle == [worker : Workers, n : 1 .. MaxAttempts]

Following(h) == [h EXCEPT !.n = @ + 1]

Open == {"queued", "running"}
Ended == {"succeeded", "failed", "cancelled"}

Becomes(h, s) == status' = [status EXCEPT ![h] = s]

Spawn(h) == /\ h.n = 1
            /\ status[h] = "none"
            /\ Becomes(h, "queued")

Start(h) == status[h] = "queued" /\ Becomes(h, "running")

\* A host that never ran does not succeed.
End(h, s) == /\ status[h] \in Open
             /\ s = "succeeded" => status[h] = "running"
             /\ Becomes(h, s)

Retry(h) == /\ status[h] = "failed"
            /\ h.n < MaxAttempts
            /\ status[Following(h)] = "none"
            /\ Becomes(Following(h), "queued")

ContractInit == status = [h \in Handle |-> "none"]

ContractNext == \E h \in Handle : \/ Spawn(h) \/ Start(h) \/ Retry(h)
                                  \/ \E s \in Ended : End(h, s)

ContractSpec == ContractInit /\ [][ContractNext]_status

---------------------------------------------------------------------------
ContractTypeOK == status \in [Handle -> Open \cup Ended \cup {"none"}]

\* At most one attempt of a worker is at work: all those before it failed for
\* good, and those after it are not there yet.
OneAtWork == \A h, k \in Handle :
    h.worker = k.worker /\ h.n < k.n /\ status[k] # "none" => status[h] = "failed"

\* An attempt that ended keeps its status whatever is called later.
EndsOnce == [][\A h \in Handle : status[h] \in Ended => status'[h] = status[h]]_status
=============================================================================
