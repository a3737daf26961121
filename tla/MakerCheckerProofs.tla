------------------------- MODULE MakerCheckerProofs -------------------------
(***************************************************************************)
(* What TLC checks of MakerChecker on small instances, for any artifacts,  *)
(* findings and number of revisions and invocations: the snapshot on disk  *)
(* is the one its own validation accepts and names the worker at work,     *)
(* what is reviewed is in the worktree, a run at rest can go on, and the   *)
(* coordinator implements MakerCheckerLoop.                                *)
(***************************************************************************)
EXTENDS MakerChecker, SequenceTheorems, FiniteSetTheorems, TLAPS

USE ReviewAssumption

---------------------------------------------------------------------------
(* The inductive invariant.                                                *)

Running(d) == d.attempts # <<>> /\ Last(d.attempts).status = "running"

\* The attempt that the stage of a document asks for.
AskedFor(d, a) == /\ a.iteration = d.iteration
                  /\ a.slot = IF d.stage = "reviewer" THEN "reviewer" ELSE "maker"

\* What the validation of a document leaves open: a running attempt is the one
\* its stage asks for, and the artifact under review is new and not yet judged.
Honest(d) ==
    /\ d.stage = "setup" => d.attempts = <<>> /\ d.iteration = 1
    /\ Running(d) => AskedFor(d, Last(d.attempts))
    /\ \A i \in DOMAIN d.records : d.records[i].verdict = "none" => d.records[i].reviewer = 0
    /\ d.stage = "reviewer" => Last(d.records).verdict = "none"
    /\ d.stage = "apply" => d.pending # d.artifact

Sound(d) == d \in Document /\ WellFormed(d) /\ Honest(d)

\* What a document and the worktree say about each other.
Workspace(d, w) ==
    IF d.kind = "document" THEN ~d.bound
    ELSE IF d.bound
    THEN /\ w.record \notin {"none", "creating", "removed"}
         /\ d.status = "active" => w.record = "active"
         /\ d.stage # "setup"
         /\ \/ w.tree = d.checkpoint
            \/ d.stage = "apply" /\ w.tree \in {d.pending, Torn}
         /\ d.stage \in {"reviewer", "completed"} => w.tree = d.artifact
    ELSE \/ d.stage = "setup" /\ w.record \in {"none", "creating", "active", "removed"}
         \/ d.stage = "human-stop" /\ w.record \in {"none", "removed"}

\* Where the process at work stands in the document it holds.
ProcessFits(d, c, n) ==
    CASE c.pc = "idle" -> n \subseteq {d.unsafe} /\ (d.stage = "apply" => d.unsafe = None)
      [] c.pc = "setup" -> /\ d.status = "active" /\ n = {} /\ d.unsafe = None
                           /\ Running(d) => d.stage = "apply"
      [] c.pc \in {"adding", "abortAdding"} ->
                          /\ d.status = "active" /\ n = {} /\ d.unsafe = None
                          /\ d.stage = "setup" /\ Unbound(d)
      [] c.pc = "loop" -> /\ d.status = "active" /\ n = {} /\ d.unsafe = None
                          /\ d.stage # "setup"
                          /\ Running(d) => d.stage = "apply"
      [] c.pc = "spawn" -> /\ Running(d) /\ n = {} /\ d.unsafe = None
                           /\ d.stage \in {"maker", "reviewer"}
      [] c.pc = "wait" -> /\ Running(d) /\ n = {}
                          /\ d.unsafe = [attempt |-> Len(d.attempts), n |-> c.n]
                          /\ d.stage \in {"maker", "reviewer"}
      [] c.pc \in {"waiting", "cancel"} ->
                          /\ Running(d) /\ n \subseteq {d.unsafe}
                          /\ d.unsafe = [attempt |-> Len(d.attempts), n |-> c.n]
                          /\ d.stage \in {"maker", "reviewer"}
      [] c.pc \in {"cancelled", "collect"} ->
                          /\ Running(d) /\ n = {}
                          /\ d.stage \in {"maker", "reviewer"}
      [] c.pc = "parse" -> /\ Running(d) /\ n = {} /\ d.unsafe = None
                           /\ d.stage \in {"maker", "reviewer"}
      [] c.pc = "applied" -> d.stage = "apply" /\ n = {} /\ d.unsafe = None
      [] c.pc = "stop" -> Running(d) /\ n = {} /\ d.unsafe = None /\ d.stage # "setup"
      [] c.pc = "abort" -> d.status = "active" /\ n = {} /\ d.unsafe = None
      [] c.pc \in {"mark", "aborted"} -> d.status # "active" /\ n = {}

MakerCheckerInvariant ==
    /\ TypeOK
    /\ doc = None => natives = {} /\ At("idle")
    /\ doc # None => /\ Sound(doc)
                     /\ Workspace(doc, wt)
                     /\ ProcessFits(doc, co, natives)
---------------------------------------------------------------------------
(* Documents and their sequences.                                          *)

\* The attempts and records of a document are sequences of what they name.
LEMMA DocumentSequences ==
    ASSUME NEW d \in Document
    PROVE  /\ d.attempts \in Seq(Attempt) /\ DOMAIN d.attempts = 1 .. Len(d.attempts)
           /\ Len(d.attempts) \in Nat
           /\ d.attempts # <<>> => Len(d.attempts) \in 1 .. Len(d.attempts)
           /\ d.attempts = <<>> => Len(d.attempts) = 0
           /\ \A k \in DOMAIN d.attempts : d.attempts[k] \in Attempt
           /\ d.records \in Seq(Record) /\ DOMAIN d.records = 1 .. Len(d.records)
           /\ Len(d.records) \in Nat
           /\ d.records # <<>> => Len(d.records) \in 1 .. Len(d.records)
           /\ d.records = <<>> => Len(d.records) = 0
           /\ \A k \in DOMAIN d.records : d.records[k] \in Record
<1>1. d.attempts \in Seq(Attempt) /\ d.records \in Seq(Record)
  BY DEF Document
<1>2. /\ DOMAIN d.attempts = 1 .. Len(d.attempts) /\ Len(d.attempts) \in Nat
      /\ DOMAIN d.records = 1 .. Len(d.records) /\ Len(d.records) \in Nat
  BY <1>1, LenProperties
<1>3. /\ d.attempts # <<>> => Len(d.attempts) \in 1 .. Len(d.attempts)
      /\ d.records # <<>> => Len(d.records) \in 1 .. Len(d.records)
      /\ d.attempts = <<>> => Len(d.attempts) = 0
      /\ d.records = <<>> => Len(d.records) = 0
  BY <1>1, <1>2, EmptySeq
<1>4. /\ \A k \in 1 .. Len(d.attempts) : d.attempts[k] \in Attempt
      /\ \A k \in 1 .. Len(d.records) : d.records[k] \in Record
  BY <1>1, ElementOfSeq
<1> QED
  BY <1>1, <1>2, <1>3, <1>4

\* A document with an attempt has attempts.
LEMMA SomeAttempt ==
    ASSUME NEW d \in Document, NEW k \in DOMAIN d.attempts
    PROVE  d.attempts # <<>>
<1>1. /\ DOMAIN d.attempts = 1 .. Len(d.attempts)
      /\ d.attempts = <<>> => Len(d.attempts) = 0
  BY DocumentSequences
<1> QED
  BY <1>1

\* A finished attempt.
Settled(a, status, output) == [a EXCEPT !.status = status, !.output = output]

\* Finishing touches the last attempt only, and that only while it runs.
LEMMA FinishedAttempts ==
    ASSUME NEW d \in Document, NEW output \in BOOLEAN,
           NEW status \in {"succeeded", "failed", "interrupted"}
    PROVE  LET f == Finished(d.attempts, status, output)
           IN  /\ f \in Seq(Attempt)
               /\ Len(f) = Len(d.attempts) /\ DOMAIN f = DOMAIN d.attempts
               /\ f # <<>> <=> d.attempts # <<>>
               /\ \A k \in DOMAIN d.attempts :
                     f[k] = IF k = Len(d.attempts) /\ Running(d)
                            THEN Settled(d.attempts[k], status, output)
                            ELSE d.attempts[k]
<1> DEFINE f == Finished(d.attempts, status, output)
<1>1. CASE Running(d)
  <2> DEFINE n == Len(d.attempts)
             t == Settled(d.attempts[n], status, output)
  <2>1. n \in 1 .. Len(d.attempts) /\ d.attempts \in Seq(Attempt) /\ d.attempts[n] \in Attempt
    BY <1>1, DocumentSequences DEF Running
  <2>2. t \in Attempt
    BY <2>1 DEF Attempt, Settled
  <2>3. f = [d.attempts EXCEPT ![n] = t]
    BY <1>1 DEF Finished, Running, Last, Settled
  <2>4. /\ f \in Seq(Attempt) /\ Len(f) = Len(d.attempts)
        /\ \A j \in 1 .. Len(d.attempts) : f[j] = IF j = n THEN t ELSE d.attempts[j]
    BY <2>1, <2>2, <2>3, ExceptSeq
  <2>5. f # <<>> /\ d.attempts # <<>>
    BY <1>1, <2>1, <2>4, EmptySeq DEF Running
  <2> QED
    BY <1>1, <2>4, <2>5, DocumentSequences, LenProperties
<1>2. CASE ~Running(d)
  <2>1. f = d.attempts
    BY <1>2 DEF Finished, Running
  <2> QED
    BY <1>2, <2>1, DocumentSequences
<1> QED
  BY <1>1, <1>2

\* An attempt that was just begun is the last one and runs.
LEMMA BegunAttempts ==
    ASSUME NEW d \in Document, NEW slot \in {"maker", "reviewer"}
    PROVE  LET b == Begun(d, slot).attempts
               new == [slot |-> slot, iteration |-> d.iteration, status |-> "running",
                       output |-> FALSE, proof |-> FALSE]
           IN  /\ Begun(d, slot) = [d EXCEPT !.attempts = b]
               /\ b \in Seq(Attempt) /\ b # <<>>
               /\ Len(b) = Len(d.attempts) + 1 /\ DOMAIN b = 1 .. Len(d.attempts) + 1
               /\ b[Len(d.attempts) + 1] = new
               /\ \A k \in DOMAIN d.attempts : b[k] = d.attempts[k]
<1> DEFINE new == [slot |-> slot, iteration |-> d.iteration, status |-> "running",
                   output |-> FALSE, proof |-> FALSE]
           b == Append(d.attempts, new)
<1>1. new \in Attempt
  BY DEF Attempt, Document
<1>2. d.attempts \in Seq(Attempt) /\ DOMAIN d.attempts = 1 .. Len(d.attempts)
  BY DocumentSequences
<1>3. /\ b \in Seq(Attempt) /\ b # <<>> /\ Len(b) = Len(d.attempts) + 1
      /\ b[Len(d.attempts) + 1] = new
      /\ \A k \in 1 .. Len(d.attempts) : b[k] = d.attempts[k]
  <2> HIDE DEF new
  <2> QED
    BY <1>1, <1>2, AppendProperties
<1>4. DOMAIN b = 1 .. Len(d.attempts) + 1
  BY <1>3, LenProperties
<1>5. Begun(d, slot) = [d EXCEPT !.attempts = b] /\ Begun(d, slot).attempts = b
  BY DEF Begun, Document
<1> QED
  BY <1>2, <1>3, <1>4, <1>5

\* The attempts bs go on from as without another success.
NoSuccess(as, bs) ==
    /\ DOMAIN as \subseteq DOMAIN bs
    /\ \A k \in DOMAIN as :
          /\ as[k].slot = bs[k].slot
          /\ as[k].iteration = bs[k].iteration
          /\ as[k].status = "succeeded" <=> bs[k].status = "succeeded"
    /\ \A k \in DOMAIN bs \ DOMAIN as : bs[k].status # "succeeded"

\* Two documents with the same successful attempts say the same of each record.
LEMMA SameSuccesses ==
    ASSUME NEW d \in Document, NEW e \in Document,
           NoSuccess(d.attempts, e.attempts),
           e.records = d.records, e.iteration = d.iteration,
           d.status = "active" /\ e.status \in {"active", "aborted"},
           d.stage = "reviewer" => e.stage \in {"reviewer", "human-stop"},
           StageFits(d), RecordsHold(d), OutputsBound(d)
    PROVE  RecordsHold(e) /\ OutputsBound(e)
<1>1. ASSUME NEW slot, NEW i PROVE Succeeded(e, slot, i) = Succeeded(d, slot, i)
  <2>1. ASSUME NEW k PROVE k \in Succeeded(e, slot, i) <=> k \in Succeeded(d, slot, i)
    <3>1. CASE k \in DOMAIN d.attempts
      <4>1. /\ k \in DOMAIN e.attempts
            /\ d.attempts[k].slot = e.attempts[k].slot
            /\ d.attempts[k].iteration = e.attempts[k].iteration
            /\ d.attempts[k].status = "succeeded" <=> e.attempts[k].status = "succeeded"
        BY <3>1 DEF NoSuccess
      <4> QED
        BY <3>1, <4>1 DEF Succeeded
    <3>2. CASE k \notin DOMAIN d.attempts
      BY <3>2 DEF Succeeded, NoSuccess
    <3> QED
      BY <3>1, <3>2
  <2> QED
    BY <2>1
<1>2. RecordsHold(e)
  <2> SUFFICES ASSUME NEW i \in DOMAIN e.records
               PROVE  LET r == e.records[i]
    IN  /\ Succeeded(e, "maker", i) = {r.maker}
        /\ Succeeded(e, "reviewer", i) = IF r.verdict = "none" THEN {} ELSE {r.reviewer}
        /\ r.verdict = "none" => /\ i = Len(e.records)
                                 /\ e.stage \in {"reviewer", "human-stop"}
                                 /\ r.findings = NoFindings
        /\ r.verdict = "PASS" => e.status = "completed" /\ i = Len(e.records)
        /\ r.verdict = "FAIL" /\ i > 1 /\ ~Progress(e.records[i - 1].findings, r.findings)
              => i = Len(e.records) /\ e.iteration = i /\ e.status = "aborted"
    BY DEF RecordsHold
  <2>1. i \in DOMAIN d.records /\ e.records[i] = d.records[i]
    OBVIOUS
  <2>2. d.stage \in {"reviewer", "human-stop"} => e.stage \in {"reviewer", "human-stop"}
    BY DEF StageFits
  <2>3. d.records[i].verdict # "PASS"
    BY <2>1 DEF RecordsHold
  <2>4. Succeeded(e, "maker", i) = Succeeded(d, "maker", i)
        /\ Succeeded(e, "reviewer", i) = Succeeded(d, "reviewer", i)
    BY <1>1
  <2> QED
    BY <2>1, <2>2, <2>3, <2>4 DEF RecordsHold
<1>3. OutputsBound(e)
  BY DEF OutputsBound, NoSuccess
<1> QED
  BY <1>2, <1>3

---------------------------------------------------------------------------
(* Each write keeps a sound document sound.                                *)

\* A new run is sound.
LEMMA NewIsSound ==
    ASSUME NEW kind \in {"code", "document"}
    PROVE  /\ Sound(NewDocument(kind))
           /\ ~Running(NewDocument(kind))
<1> DEFINE d == NewDocument(kind)
<1>1. /\ d.kind = kind /\ d.status = "active" /\ d.stage = "setup" /\ d.iteration = 1
      /\ d.attempts = <<>> /\ d.records = <<>> /\ d.findings = NoFindings
      /\ d.artifact = None /\ d.pending = None /\ d.unsafe = None
      /\ d.bound = FALSE /\ d.checkpoint = None
  BY DEF NewDocument
<1>2. <<>> \in Seq(Attempt) /\ <<>> \in Seq(Record) /\ NoFindings \in Findings
  BY EmptySeq DEF NoFindings, Findings
<1>3. d \in Document
  BY <1>2 DEF NewDocument, Document
<1>4. DOMAIN d.attempts = {} /\ DOMAIN d.records = {} /\ Len(d.records) = 0
  BY <1>1, EmptySeq
<1> HIDE DEF d
<1>5. WellFormed(d)
  <2>1. StageFits(d) /\ WithinRevisions(d) /\ MarkerHolds(d) /\ RecordCount(d)
        /\ IntentHolds(d) /\ ArtifactHolds(d) /\ FindingsHold(d)
    BY <1>1, <1>4 DEF StageFits, WithinRevisions, MarkerHolds, RecordCount, IntentHolds,
                      ArtifactHolds, FindingsHold
  <2>2. AttemptsHold(d) /\ RecordsHold(d) /\ OutputsBound(d)
    BY <1>4 DEF AttemptsHold, RecordsHold, OutputsBound
  <2> QED
    BY <2>1, <2>2 DEF WellFormed
<1>6. Honest(d) /\ ~Running(d)
  BY <1>1, <1>4 DEF Honest, Running
<1> QED
  BY <1>3, <1>5, <1>6 DEF Sound, d

\* The attempts of an active run change without another success: what the
\* records say stays true, and the rest depends on the last attempt.
LEMMA AttemptsChange ==
    ASSUME NEW d, Sound(d), d.status = "active",
           NEW as \in Seq(Attempt), NEW x \in Dispatch \cup {None},
           NoSuccess(d.attempts, as),
           AttemptsHold([d EXCEPT !.attempts = as, !.unsafe = x]),
           MarkerHolds([d EXCEPT !.attempts = as, !.unsafe = x]),
           IntentHolds([d EXCEPT !.attempts = as, !.unsafe = x]),
           d.stage = "setup" => as = <<>>,
           as # <<>> /\ Last(as).status = "running" => AskedFor(d, Last(as))
    PROVE  Sound([d EXCEPT !.attempts = as, !.unsafe = x])
<1> DEFINE e == [d EXCEPT !.attempts = as, !.unsafe = x]
<1>0. /\ d \in Document /\ Honest(d)
      /\ StageFits(d) /\ WithinRevisions(d) /\ RecordsHold(d) /\ OutputsBound(d)
      /\ RecordCount(d) /\ ArtifactHolds(d) /\ FindingsHold(d)
  BY DEF Sound, WellFormed
<1>1. d \in Document /\ e \in Document
  BY <1>0 DEF Document
<1>2. /\ e.kind = d.kind /\ e.status = d.status /\ e.stage = d.stage
      /\ e.iteration = d.iteration /\ e.attempts = as /\ e.records = d.records
      /\ e.findings = d.findings /\ e.artifact = d.artifact /\ e.pending = d.pending
      /\ e.unsafe = x /\ e.bound = d.bound /\ e.checkpoint = d.checkpoint
  BY <1>1 DEF Document
<1> HIDE DEF e
<1>3. RecordsHold(e) /\ OutputsBound(e)
  <2>1. NoSuccess(d.attempts, e.attempts)
    BY <1>2
  <2> QED
    BY <1>0, <1>1, <1>2, <2>1, SameSuccesses
<1>4. /\ StageFits(e) /\ WithinRevisions(e) /\ RecordCount(e) /\ ArtifactHolds(e)
      /\ FindingsHold(e)
  <2>1. StageFits(e) /\ WithinRevisions(e)
    BY <1>0, <1>2 DEF StageFits, WithinRevisions
  <2>2. RecordCount(e) /\ ArtifactHolds(e)
    BY <1>0, <1>2 DEF RecordCount, ArtifactHolds
  <2>3. FindingsHold(e)
    BY <1>0, <1>2 DEF FindingsHold, LastFail
  <2> QED
    BY <2>1, <2>2, <2>3
<1>5. AttemptsHold(e) /\ MarkerHolds(e) /\ IntentHolds(e)
  BY DEF e
<1>6. Honest(e)
  <2>1. Running(e) => AskedFor(e, Last(e.attempts))
    BY <1>2 DEF Running, AskedFor
  <2> QED
    BY <1>0, <1>2, <2>1 DEF Honest
<1> QED
  <2>1. Sound(e)
    BY <1>1, <1>3, <1>4, <1>5, <1>6 DEF Sound, WellFormed
  <2> QED
    BY <2>1 DEF e

\* An attempt begins for the stage of an active run without a running one.
LEMMA BegunIsSound ==
    ASSUME NEW d, Sound(d), d.status = "active", d.stage \in {"maker", "reviewer"},
           ~Running(d), d.unsafe = None
    PROVE  /\ Sound(Begun(d, d.stage))
           /\ Running(Begun(d, d.stage))
<1> DEFINE b == Begun(d, d.stage).attempts
           e == [d EXCEPT !.attempts = b, !.unsafe = None]
<1>1. d \in Document /\ d.stage \in {"maker", "reviewer"}
  BY DEF Sound
<1>2. /\ Begun(d, d.stage) = [d EXCEPT !.attempts = b]
      /\ b \in Seq(Attempt) /\ b # <<>>
      /\ Len(b) = Len(d.attempts) + 1 /\ DOMAIN b = 1 .. Len(d.attempts) + 1
      /\ b[Len(d.attempts) + 1] = [slot |-> d.stage, iteration |-> d.iteration,
                                   status |-> "running", output |-> FALSE, proof |-> FALSE]
      /\ \A k \in DOMAIN d.attempts : b[k] = d.attempts[k]
  BY <1>1, BegunAttempts
<1>3. Begun(d, d.stage) = e
  BY <1>1, <1>2 DEF Document
<1>4. /\ e.attempts = b /\ e.status = "active" /\ e.unsafe = None /\ e.stage = d.stage
      /\ e.pending = d.pending
  BY <1>1 DEF Document
<1>5. DOMAIN d.attempts = 1 .. Len(d.attempts) /\ Len(d.attempts) \in Nat
      /\ (d.attempts = <<>> => Len(d.attempts) = 0)
  BY <1>1, DocumentSequences
<1>6. \A k \in DOMAIN d.attempts : d.attempts[k].status # "running"
  BY <1>5 DEF Sound, WellFormed, AttemptsHold, Running, Last
<1>7. AttemptsHold(e)
  <2> SUFFICES ASSUME NEW k \in DOMAIN b
               PROVE  /\ b[k].status = "running" => k = Len(b)
                      /\ b[k].output => b[k].status \in {"succeeded", "failed"}
                      /\ b[k].status = "succeeded" => b[k].output
                      /\ b[k].proof => b[k].status = "interrupted"
    BY <1>4 DEF AttemptsHold
  <2>1. CASE k \in DOMAIN d.attempts
    BY <1>2, <1>6, <2>1 DEF Sound, WellFormed, AttemptsHold
  <2>2. CASE k = Len(d.attempts) + 1
    BY <1>2, <2>2
  <2> QED
    BY <1>2, <1>5, <2>1, <2>2
<1>8. MarkerHolds(e) /\ IntentHolds(e)
  BY <1>4 DEF MarkerHolds, IntentHolds, Sound, WellFormed
<1>9. Last(b).status = "running" /\ Last(b).iteration = d.iteration /\ Last(b).slot = d.stage
  BY <1>2 DEF Last
<1>10. Sound(e)
  <2> HIDE DEF b
  <2>1. NoSuccess(d.attempts, b) /\ AskedFor(d, Last(b))
    BY <1>2, <1>5, <1>9 DEF NoSuccess, AskedFor
  <2> QED
    BY <1>2, <1>7, <1>8, <1>9, <2>1, AttemptsChange
<1> QED
  BY <1>2, <1>3, <1>4, <1>9, <1>10 DEF Running

\* The attempt b is a, ended without success.
Lost(a, b) == /\ b.slot = a.slot /\ b.iteration = a.iteration
              /\ b.status \in {"failed", "interrupted"}
              /\ b.output => b.status = "failed"
              /\ b.proof => b.status = "interrupted"

\* The attempts as are those of d with the running one lost.
WithoutRunning(d, as) ==
    /\ Len(as) = Len(d.attempts) /\ DOMAIN as = DOMAIN d.attempts
    /\ \A k \in DOMAIN d.attempts :
          IF k = Len(d.attempts) /\ Running(d)
          THEN Lost(d.attempts[k], as[k])
          ELSE as[k] = d.attempts[k]

\* A running attempt of an active run, and nothing else of it, ends without
\* success.
LEMMA FailedIsSound ==
    ASSUME NEW d, Sound(d), d.status = "active", d.stage # "apply",
           NEW as \in Seq(Attempt), WithoutRunning(d, as)
    PROVE  /\ Sound([d EXCEPT !.attempts = as, !.unsafe = None])
           /\ ~Running([d EXCEPT !.attempts = as, !.unsafe = None])
<1> DEFINE e == [d EXCEPT !.attempts = as, !.unsafe = None]
<1>0. /\ Len(as) = Len(d.attempts) /\ DOMAIN as = DOMAIN d.attempts
      /\ \A k \in DOMAIN d.attempts :
            IF k = Len(d.attempts) /\ Running(d)
            THEN Lost(d.attempts[k], as[k])
            ELSE as[k] = d.attempts[k]
  BY DEF WithoutRunning
<1>1. d \in Document /\ AttemptsHold(d) /\ IntentHolds(d) /\ Honest(d)
  BY DEF Sound, WellFormed
<1>2. /\ e.attempts = as /\ e.status = "active" /\ e.unsafe = None /\ e.stage = d.stage
      /\ e.pending = d.pending /\ e.kind = d.kind
  BY <1>1 DEF Document
<1>3. /\ DOMAIN d.attempts = 1 .. Len(d.attempts) /\ Len(d.attempts) \in Nat
      /\ (d.attempts # <<>> => Len(d.attempts) \in 1 .. Len(d.attempts))
      /\ (d.attempts = <<>> => Len(d.attempts) = 0)
      /\ \A k \in DOMAIN d.attempts : d.attempts[k] \in Attempt
  BY <1>1, DocumentSequences
<1>4. as = <<>> <=> d.attempts = <<>>
  <2>1. as # <<>> => Len(as) # 0
    BY EmptySeq
  <2>2. Len(<<>>) = 0
    OBVIOUS
  <2>3. d.attempts # <<>> => Len(d.attempts) # 0
    BY <1>1, EmptySeq DEF Document
  <2> DEFINE das == d.attempts
  <2>4. Len(as) = Len(das)
    BY <1>0
  <2> HIDE DEF das
  <2> QED
    BY <2>1, <2>2, <2>3, <2>4 DEF das
<1>5. \A k \in DOMAIN d.attempts :
         /\ as[k].status # "running"
         /\ as[k].slot = d.attempts[k].slot /\ as[k].iteration = d.attempts[k].iteration
         /\ as[k].status = "succeeded" <=> d.attempts[k].status = "succeeded"
         /\ as[k].output => as[k].status \in {"succeeded", "failed"}
         /\ as[k].status = "succeeded" => as[k].output
         /\ as[k].proof => as[k].status = "interrupted"
  <2> TAKE k \in DOMAIN d.attempts
  <2>1. CASE k = Len(d.attempts) /\ Running(d)
    <3>1. Lost(d.attempts[k], as[k]) /\ d.attempts[k].status = "running"
      BY <1>0, <2>1 DEF Running, Last
    <3> QED
      BY <3>1 DEF Lost
  <2>2. CASE ~(k = Len(d.attempts) /\ Running(d))
    <3>0. d.attempts[k].status = "running" => k = Len(d.attempts)
      BY <1>1 DEF AttemptsHold
    <3>2. d.attempts # <<>>
      BY <1>1, SomeAttempt
    <3>1. as[k] = d.attempts[k] /\ d.attempts[k].status # "running"
      BY <1>0, <2>2, <3>0, <3>2 DEF Running, Last
    <3> QED
      BY <1>1, <3>1 DEF AttemptsHold
  <2> QED
    BY <2>1, <2>2
<1>6. AttemptsHold(e)
  <2> HIDE DEF e
  <2> QED
    BY <1>0, <1>2, <1>5 DEF AttemptsHold
<1>7. MarkerHolds(e) /\ IntentHolds(e)
  BY <1>1, <1>2 DEF MarkerHolds, IntentHolds
<1>8. as # <<>> => Last(as).status # "running"
  BY <1>0, <1>3, <1>4, <1>5 DEF Last
<1>9. Sound(e)
  <2>1. NoSuccess(d.attempts, as)
    BY <1>0, <1>5 DEF NoSuccess
  <2>2. d.stage = "setup" => as = <<>>
    BY <1>1, <1>4 DEF Honest
  <2>3. d.attempts # <<>> => as # <<>>
    BY <1>4
  <2> QED
    BY <1>6, <1>7, <1>8, <2>1, <2>2, <2>3, AttemptsChange
<1> QED
  BY <1>2, <1>8, <1>9 DEF Running

\* Naming the running worker, or another one, or none, as unsafe.
LEMMA MarkedIsSound ==
    ASSUME NEW d, Sound(d), Running(d), NEW x \in Dispatch \cup {None},
           x # None => x.attempt = Len(d.attempts)
    PROVE  LET e == [d EXCEPT !.unsafe = x]
           IN  Sound(e) /\ Running(e)
<1> DEFINE as == d.attempts
           e == [d EXCEPT !.attempts = as, !.unsafe = x]
<1>1. d \in Document /\ AttemptsHold(d) /\ IntentHolds(d) /\ Honest(d)
  BY DEF Sound, WellFormed
<1>2. /\ e.attempts = as /\ e.status = d.status /\ e.unsafe = x /\ e.stage = d.stage
      /\ e.pending = d.pending /\ e.kind = d.kind /\ e = [d EXCEPT !.unsafe = x]
  BY <1>1 DEF Document
<1>3. DOMAIN as = 1 .. Len(as) /\ as # <<>> /\ Len(as) \in DOMAIN as /\ as \in Seq(Attempt)
  BY <1>1, DocumentSequences DEF Running
<1>4. d.status = "active" /\ Last(as).status = "running"
  BY <1>1, <1>3 DEF AttemptsHold, Running, Last
<1>5. AttemptsHold(e) /\ MarkerHolds(e) /\ IntentHolds(e)
  BY <1>1, <1>2, <1>3, <1>4 DEF AttemptsHold, MarkerHolds, IntentHolds
<1>6. NoSuccess(d.attempts, as)
  BY DEF NoSuccess
<1>7. AskedFor(d, Last(as)) /\ d.stage # "setup"
  BY <1>1, <1>3 DEF Honest, Running
<1>8. Sound(e)
  BY <1>3, <1>4, <1>5, <1>6, <1>7, AttemptsChange
<1> QED
  BY <1>2, <1>3, <1>4, <1>8 DEF Running

\* A finished setup leaves the maker to begin.
LEMMA BoundIsSound ==
    ASSUME NEW d, Sound(d), d.status = "active", d.stage = "setup",
           NEW bound \in BOOLEAN, NEW c \in Artifacts \cup {Clean, Torn, None}
    PROVE  LET e == [d EXCEPT !.stage = "maker", !.bound = bound, !.checkpoint = c]
           IN  Sound(e) /\ ~Running(e)
<1> DEFINE e == [d EXCEPT !.stage = "maker", !.bound = bound, !.checkpoint = c]
<1>0. /\ d \in Document /\ Honest(d)
      /\ StageFits(d) /\ WithinRevisions(d) /\ MarkerHolds(d) /\ RecordCount(d)
      /\ IntentHolds(d) /\ ArtifactHolds(d) /\ FindingsHold(d)
  BY DEF Sound, WellFormed
<1>1. e \in Document
  BY <1>0 DEF Document
<1>2. /\ e.kind = d.kind /\ e.status = d.status /\ e.stage = "maker"
      /\ e.iteration = d.iteration /\ e.attempts = d.attempts /\ e.records = d.records
      /\ e.findings = d.findings /\ e.artifact = d.artifact /\ e.pending = d.pending
      /\ e.unsafe = d.unsafe
  BY <1>0 DEF Document
<1>3. d.attempts = <<>> /\ d.iteration = 1 /\ Len(d.records) = 0
  BY <1>0 DEF Honest, RecordCount
<1>4. DOMAIN d.attempts = {} /\ DOMAIN d.records = {}
  BY <1>0, <1>3, DocumentSequences
<1> HIDE DEF e
<1>5. StageFits(e) /\ WithinRevisions(e) /\ MarkerHolds(e) /\ RecordCount(e) /\ IntentHolds(e)
  BY <1>0, <1>2, <1>3 DEF StageFits, WithinRevisions, MarkerHolds, RecordCount, IntentHolds
<1>6. ArtifactHolds(e) /\ FindingsHold(e)
  BY <1>0, <1>2, <1>3 DEF ArtifactHolds, FindingsHold
<1>7. AttemptsHold(e) /\ RecordsHold(e) /\ OutputsBound(e)
  BY <1>2, <1>4 DEF AttemptsHold, RecordsHold, OutputsBound
<1>8. Honest(e) /\ ~Running(e)
  BY <1>2, <1>3, <1>4 DEF Honest, Running
<1>9. Sound(e)
  BY <1>1, <1>5, <1>6, <1>7, <1>8 DEF Sound, WellFormed
<1> QED
  BY <1>8, <1>9 DEF e

\* A patch is first an intent of its own.
LEMMA IntentIsSound ==
    ASSUME NEW d, Sound(d), Running(d), d.stage = "maker", d.kind = "code",
           NEW a \in Artifacts, a # d.artifact
    PROVE  LET e == [d EXCEPT !.stage = "apply", !.findings = NoFindings, !.pending = a]
           IN  Sound(e) /\ Running(e)
<1> DEFINE e == [d EXCEPT !.stage = "apply", !.findings = NoFindings, !.pending = a]
<1>0. /\ d \in Document /\ Honest(d) /\ AttemptsHold(d) /\ RecordsHold(d) /\ OutputsBound(d)
      /\ StageFits(d) /\ WithinRevisions(d) /\ MarkerHolds(d) /\ RecordCount(d)
      /\ IntentHolds(d) /\ ArtifactHolds(d) /\ FindingsHold(d)
  BY DEF Sound, WellFormed
<1>1. e \in Document
  <2>1. NoFindings \in Findings
    BY DEF NoFindings, Findings
  <2> QED
    BY <1>0, <2>1 DEF Document
<1>2. /\ e.kind = d.kind /\ e.status = d.status /\ e.stage = "apply"
      /\ e.iteration = d.iteration /\ e.attempts = d.attempts /\ e.records = d.records
      /\ e.findings = NoFindings /\ e.artifact = d.artifact /\ e.pending = a
      /\ e.unsafe = d.unsafe
  BY <1>0 DEF Document
<1>3. /\ d.attempts # <<>> /\ Last(d.attempts).status = "running"
      /\ Last(d.attempts).slot = "maker" /\ Last(d.attempts).iteration = d.iteration
  BY <1>0 DEF Running, Honest, AskedFor
<1>4. d.status = "active"
  BY <1>0, <1>3, DocumentSequences DEF AttemptsHold, Last
<1> HIDE DEF e
<1>5. StageFits(e) /\ WithinRevisions(e) /\ MarkerHolds(e) /\ RecordCount(e) /\ IntentHolds(e)
  BY <1>0, <1>2, <1>3, <1>4
     DEF StageFits, WithinRevisions, MarkerHolds, RecordCount, IntentHolds
<1>6. ArtifactHolds(e) /\ FindingsHold(e) /\ AttemptsHold(e)
  BY <1>0, <1>2 DEF ArtifactHolds, FindingsHold, AttemptsHold
<1>7. RecordsHold(e) /\ OutputsBound(e)
  <2>1. NoSuccess(d.attempts, e.attempts)
    BY <1>2 DEF NoSuccess
  <2> QED
    BY <1>0, <1>1, <1>2, <1>4, <2>1, SameSuccesses
<1>8. Honest(e) /\ Running(e)
  <2>1. AskedFor(e, Last(e.attempts)) /\ Running(e)
    BY <1>2, <1>3 DEF AskedFor, Running
  <2> QED
    BY <1>0, <1>2, <2>1 DEF Honest
<1>9. Sound(e)
  BY <1>1, <1>5, <1>6, <1>7, <1>8 DEF Sound, WellFormed
<1> QED
  BY <1>8, <1>9 DEF e

\* e counts the last attempt of d as a success of its slot and iteration.
JoinsSuccesses(d, e, slot, i) ==
    Succeeded(e, slot, i) =
       IF Last(d.attempts).slot = slot /\ Last(d.attempts).iteration = i
       THEN Succeeded(d, slot, i) \cup {Len(d.attempts)}
       ELSE Succeeded(d, slot, i)

\* The attempt that succeeded joins the successes of its slot and iteration.
LEMMA OneMoreSuccess ==
    ASSUME NEW d, Sound(d), Running(d), NEW e,
           e.attempts = Finished(d.attempts, "succeeded", TRUE),
           NEW slot, NEW i
    PROVE  JoinsSuccesses(d, e, slot, i)
<1> DEFINE n == Len(d.attempts)
           f == Finished(d.attempts, "succeeded", TRUE)
<1>1. d \in Document /\ d.attempts # <<>>
  BY DEF Sound, Running
<1>2. /\ DOMAIN f = DOMAIN d.attempts
      /\ \A k \in DOMAIN d.attempts :
            f[k] = IF k = n /\ Running(d)
                   THEN Settled(d.attempts[k], "succeeded", TRUE)
                   ELSE d.attempts[k]
  BY <1>1, FinishedAttempts
<1>3. n \in DOMAIN d.attempts /\ d.attempts[n] \in Attempt /\ d.attempts[n].status = "running"
  BY <1>1, DocumentSequences DEF Running, Last
<1>4. f[n].status = "succeeded" /\ f[n].slot = d.attempts[n].slot
      /\ f[n].iteration = d.attempts[n].iteration
  <2>1. f[n] = Settled(d.attempts[n], "succeeded", TRUE)
    BY <1>2, <1>3
  <2> QED
    BY <1>3, <2>1 DEF Attempt, Settled
<1>5. \A k \in DOMAIN d.attempts \ {n} : f[k] = d.attempts[k]
  BY <1>2
<1> HIDE DEF f, n
<1>6. ASSUME NEW k
      PROVE  k \in Succeeded(e, slot, i) <=>
                \/ k \in Succeeded(d, slot, i)
                \/ k = n /\ d.attempts[n].slot = slot /\ d.attempts[n].iteration = i
  <2>1. CASE k = n
    BY <1>2, <1>3, <1>4, <2>1 DEF Succeeded, f
  <2>2. CASE k # n
    BY <1>2, <1>5, <2>2 DEF Succeeded, f
  <2> QED
    BY <2>1, <2>2
<1> QED
  BY <1>6 DEF JoinsSuccesses, Last, n

\* No attempt has succeeded for an iteration that has no record yet.
LEMMA NoneYet ==
    ASSUME NEW d, Sound(d), NEW slot \in {"maker", "reviewer"}, NEW i,
           i \notin DOMAIN d.records
    PROVE  Succeeded(d, slot, i) = {}
<1>0. d \in Document /\ RecordsHold(d) /\ OutputsBound(d) /\ Honest(d)
  BY DEF Sound, WellFormed
<1> SUFFICES ASSUME NEW k \in Succeeded(d, slot, i) PROVE FALSE
  OBVIOUS
<1>1. /\ k \in DOMAIN d.attempts /\ d.attempts[k].status = "succeeded"
      /\ d.attempts[k].iteration = i
  BY DEF Succeeded
<1>2. PICK j \in DOMAIN d.records : k \in {d.records[j].maker, d.records[j].reviewer}
  BY <1>0, <1>1 DEF OutputsBound
<1>3. CASE k = d.records[j].maker
  <2>1. k \in Succeeded(d, "maker", j)
    BY <1>0, <1>3 DEF RecordsHold
  <2> QED
    BY <1>1, <2>1 DEF Succeeded
<1>4. CASE k = d.records[j].reviewer
  <2>1. d.records[j].verdict # "none"
    <3>1. k # 0
      BY <1>0, <1>1, DocumentSequences
    <3> QED
      BY <1>0, <1>4, <3>1 DEF Honest
  <2>2. k \in Succeeded(d, "reviewer", j)
    BY <1>0, <1>4, <2>1 DEF RecordsHold
  <2> QED
    BY <1>1, <2>2 DEF Succeeded
<1> QED
  BY <1>2, <1>3, <1>4

\* The finished attempts of a running one: none runs.
LEMMA SuccessfulAttempts ==
    ASSUME NEW d, Sound(d), Running(d)
    PROVE  LET f == Finished(d.attempts, "succeeded", TRUE)
           IN  /\ f \in Seq(Attempt) /\ f # <<>>
               /\ Len(f) = Len(d.attempts) /\ DOMAIN f = DOMAIN d.attempts
               /\ Len(d.attempts) \in DOMAIN d.attempts
               /\ \A k \in DOMAIN f :
                     /\ f[k].status # "running"
                     /\ f[k].output => f[k].status \in {"succeeded", "failed"}
                     /\ f[k].status = "succeeded" => f[k].output
                     /\ f[k].proof => f[k].status = "interrupted"
                     /\ f[k].status = "succeeded" =>
                           k = Len(f) \/ d.attempts[k].status = "succeeded"
<1> DEFINE f == Finished(d.attempts, "succeeded", TRUE)
           n == Len(d.attempts)
<1>1. d \in Document /\ d.attempts # <<>> /\ AttemptsHold(d)
  BY DEF Sound, WellFormed, Running
<1>2. /\ f \in Seq(Attempt) /\ f # <<>>
      /\ Len(f) = n /\ DOMAIN f = DOMAIN d.attempts
      /\ \A k \in DOMAIN d.attempts :
            f[k] = IF k = n /\ Running(d)
                   THEN Settled(d.attempts[k], "succeeded", TRUE)
                   ELSE d.attempts[k]
  BY <1>1, FinishedAttempts
<1>3. n \in DOMAIN d.attempts /\ d.attempts[n] \in Attempt /\ d.attempts[n].status = "running"
  BY <1>1, DocumentSequences DEF Running, Last
<1>4. f[n].status = "succeeded" /\ f[n].output = TRUE /\ f[n].proof = d.attempts[n].proof
  <2>1. f[n] = Settled(d.attempts[n], "succeeded", TRUE)
    BY <1>2, <1>3
  <2> QED
    BY <1>3, <2>1 DEF Attempt, Settled
<1>5. d.attempts[n].proof => FALSE
  BY <1>1, <1>3 DEF AttemptsHold
<1> HIDE DEF f
<1>6. ASSUME NEW k \in DOMAIN f
      PROVE  /\ f[k].status # "running"
             /\ f[k].output => f[k].status \in {"succeeded", "failed"}
             /\ f[k].status = "succeeded" => f[k].output
             /\ f[k].proof => f[k].status = "interrupted"
             /\ f[k].status = "succeeded" => k = Len(f) \/ d.attempts[k].status = "succeeded"
  <2>1. CASE k = n
    BY <1>2, <1>4, <1>5, <2>1
  <2>2. CASE k # n
    <3>1. f[k] = d.attempts[k] /\ k \in DOMAIN d.attempts
      BY <1>2, <2>2
    <3>2. d.attempts[k].status = "running" => k = n
      BY <1>1, <3>1 DEF AttemptsHold
    <3> QED
      BY <1>1, <2>2, <3>1, <3>2 DEF AttemptsHold
  <2> QED
    BY <2>1, <2>2
<1> QED
  BY <1>2, <1>3, <1>6 DEF f

\* A submitted artifact is up for review.
LEMMA SubmittedIsSound ==
    ASSUME NEW d, Sound(d), Running(d), d.stage \in {"maker", "apply"}, d.unsafe = None,
           NEW a \in Artifacts, NEW c \in Artifacts \cup {Clean, Torn, None}
    PROVE  /\ Sound(Submitted(d, a, c))
           /\ ~Running(Submitted(d, a, c))
<1> DEFINE n == Len(d.attempts)
           m == Len(d.records)
           f == Finished(d.attempts, "succeeded", TRUE)
           r == [artifact |-> a, maker |-> n, reviewer |-> 0, verdict |-> "none",
                 findings |-> NoFindings]
           rs == Append(d.records, r)
           e == Submitted(d, a, c)
<1>0. /\ d \in Document /\ Honest(d) /\ AttemptsHold(d) /\ RecordsHold(d) /\ OutputsBound(d)
      /\ StageFits(d) /\ WithinRevisions(d) /\ MarkerHolds(d) /\ RecordCount(d)
      /\ IntentHolds(d) /\ ArtifactHolds(d) /\ FindingsHold(d)
  BY DEF Sound, WellFormed
<1>1. /\ f \in Seq(Attempt) /\ f # <<>>
      /\ Len(f) = n /\ DOMAIN f = DOMAIN d.attempts
      /\ n \in DOMAIN d.attempts
      /\ \A k \in DOMAIN f :
            /\ f[k].status # "running"
            /\ f[k].output => f[k].status \in {"succeeded", "failed"}
            /\ f[k].status = "succeeded" => f[k].output
            /\ f[k].proof => f[k].status = "interrupted"
            /\ f[k].status = "succeeded" =>
                  k = Len(f) \/ d.attempts[k].status = "succeeded"
  BY SuccessfulAttempts
<1>2. /\ DOMAIN d.attempts = 1 .. n /\ n \in Nat /\ m \in Nat
      /\ DOMAIN d.records = 1 .. m /\ d.records \in Seq(Record)
      /\ (d.records # <<>> => m \in 1 .. m)
  BY <1>0, DocumentSequences
<1>3. /\ Last(d.attempts).slot = "maker" /\ Last(d.attempts).iteration = d.iteration
      /\ d.status = "active" /\ d.iteration = m + 1
  <2>1. AskedFor(d, Last(d.attempts)) /\ d.attempts[n].status = "running"
    BY <1>0 DEF Honest, Running, Last
  <2>2. d.status = "active"
    BY <1>0, <1>1, <2>1 DEF AttemptsHold
  <2>3. m = d.iteration - 1 /\ d.iteration \in Nat
    BY <1>0 DEF RecordCount, Document
  <2> QED
    BY <1>2, <2>1, <2>2, <2>3 DEF AskedFor
<1>4. r \in Record /\ NoFindings \in Findings
  <2>1. NoFindings \in Findings
    BY DEF NoFindings, Findings
  <2> QED
    BY <1>1, <1>2, <2>1 DEF Record
<1>5. /\ rs \in Seq(Record) /\ rs # <<>> /\ Len(rs) = m + 1 /\ rs[m + 1] = r
      /\ \A i \in 1 .. m : rs[i] = d.records[i]
  BY <1>2, <1>4, AppendProperties
<1>6. DOMAIN rs = 1 .. m + 1
  BY <1>5, LenProperties
<1>7. /\ e.kind = d.kind /\ e.status = d.status /\ e.stage = "reviewer"
      /\ e.iteration = d.iteration /\ e.attempts = f /\ e.records = rs
      /\ e.findings = NoFindings /\ e.artifact = a /\ e.pending = None
      /\ e.unsafe = None /\ e.bound = d.bound /\ e.checkpoint = c
  BY <1>0 DEF Submitted, Document
<1>8. e \in Document
  <2>1. e = [d EXCEPT !.stage = "reviewer", !.artifact = a, !.pending = None,
                      !.findings = NoFindings, !.checkpoint = c, !.attempts = f,
                      !.records = rs]
    BY <1>0 DEF Submitted, Document
  <2> HIDE DEF e, f, rs
  <2> QED
    BY <1>0, <1>1, <1>4, <1>5, <2>1 DEF Document
<1> HIDE DEF e, f, rs
<1>9. StageFits(e) /\ WithinRevisions(e) /\ MarkerHolds(e) /\ RecordCount(e) /\ IntentHolds(e)
  <2>1. StageFits(e) /\ WithinRevisions(e) /\ MarkerHolds(e) /\ IntentHolds(e)
    BY <1>0, <1>3, <1>7 DEF StageFits, WithinRevisions, MarkerHolds, IntentHolds
  <2>2. RecordCount(e)
    BY <1>3, <1>5, <1>7 DEF RecordCount
  <2> QED
    BY <2>1, <2>2
<1>10. ArtifactHolds(e) /\ FindingsHold(e) /\ AttemptsHold(e)
  <2>1. ArtifactHolds(e)
    BY <1>5, <1>7 DEF ArtifactHolds, Last
  <2>2. FindingsHold(e)
    BY <1>7 DEF FindingsHold
  <2>3. AttemptsHold(e)
    BY <1>1, <1>7 DEF AttemptsHold
  <2> QED
    BY <2>1, <2>2, <2>3
<1>11. ASSUME NEW slot, NEW i
       PROVE  Succeeded(e, slot, i) = IF slot = "maker" /\ i = m + 1
                                      THEN Succeeded(d, slot, i) \cup {n}
                                      ELSE Succeeded(d, slot, i)
  <2>1. e.attempts = Finished(d.attempts, "succeeded", TRUE)
    BY <1>7 DEF f
  <2>2. JoinsSuccesses(d, e, slot, i)
    BY <2>1, OneMoreSuccess
  <2> QED
    BY <1>3, <2>2 DEF JoinsSuccesses
<1>12. Succeeded(e, "maker", m + 1) = {n} /\ Succeeded(e, "reviewer", m + 1) = {}
  <2>1. m + 1 \notin DOMAIN d.records
    BY <1>2
  <2>2. Succeeded(d, "maker", m + 1) = {} /\ Succeeded(d, "reviewer", m + 1) = {}
    BY <2>1, NoneYet
  <2> QED
    BY <1>11, <2>2
<1>13. RecordsHold(e)
  <2> SUFFICES ASSUME NEW i \in DOMAIN e.records
               PROVE  LET q == e.records[i]
    IN  /\ Succeeded(e, "maker", i) = {q.maker}
        /\ Succeeded(e, "reviewer", i) = IF q.verdict = "none" THEN {} ELSE {q.reviewer}
        /\ q.verdict = "none" => /\ i = Len(e.records)
                                 /\ e.stage \in {"reviewer", "human-stop"}
                                 /\ q.findings = NoFindings
        /\ q.verdict = "PASS" => e.status = "completed" /\ i = Len(e.records)
        /\ q.verdict = "FAIL" /\ i > 1 /\ ~Progress(e.records[i - 1].findings, q.findings)
              => i = Len(e.records) /\ e.iteration = i /\ e.status = "aborted"
    BY DEF RecordsHold
  <2>1. CASE i = m + 1
    <3>1. e.records[i] = r
      BY <1>5, <1>7, <2>1
    <3>2. /\ e.records[i].maker = n /\ e.records[i].verdict = "none"
          /\ e.records[i].findings = NoFindings
      BY <3>1
    <3>3. i = Len(e.records) /\ e.stage = "reviewer"
      BY <1>5, <1>7, <2>1
    <3> QED
      BY <1>12, <2>1, <3>2, <3>3
  <2>2. CASE i # m + 1
    <3>1. i \in 1 .. m /\ e.records[i] = d.records[i] /\ i # m + 1
      BY <1>2, <1>5, <1>6, <1>7, <2>2
    <3>2. i > 1 => e.records[i - 1] = d.records[i - 1]
      BY <1>2, <1>5, <1>7, <3>1
    <3>3. /\ Succeeded(e, "maker", i) = Succeeded(d, "maker", i)
          /\ Succeeded(e, "reviewer", i) = Succeeded(d, "reviewer", i)
      BY <1>11, <3>1
    <3>4. /\ Succeeded(d, "maker", i) = {d.records[i].maker}
          /\ Succeeded(d, "reviewer", i) = IF d.records[i].verdict = "none" THEN {}
                                           ELSE {d.records[i].reviewer}
          /\ d.records[i].verdict # "none" /\ d.records[i].verdict # "PASS"
          /\ ~(d.records[i].verdict = "FAIL" /\ i > 1
                 /\ ~Progress(d.records[i - 1].findings, d.records[i].findings))
      BY <1>0, <1>2, <1>3, <3>1 DEF RecordsHold
    <3> QED
      BY <3>1, <3>2, <3>3, <3>4
  <2> QED
    BY <2>1, <2>2
<1>14. OutputsBound(e)
  <2> SUFFICES ASSUME NEW k \in DOMAIN f, f[k].status = "succeeded"
               PROVE  \E i \in 1 .. m + 1 : k \in {rs[i].maker, rs[i].reviewer}
    BY <1>6, <1>7 DEF OutputsBound
  <2>1. CASE k = n
    <3>1. m + 1 \in 1 .. m + 1 /\ rs[m + 1].maker = k
      BY <1>2, <1>5, <2>1
    <3> QED
      BY <3>1
  <2>2. CASE k # n
    <3>1. k \in DOMAIN d.attempts /\ d.attempts[k].status = "succeeded"
      BY <1>1, <2>2
    <3>2. PICK i \in 1 .. m : k \in {d.records[i].maker, d.records[i].reviewer}
      BY <1>0, <1>2, <3>1 DEF OutputsBound
    <3>3. i \in 1 .. m + 1 /\ rs[i] = d.records[i]
      BY <1>2, <1>5
    <3> QED
      BY <3>2, <3>3
  <2> QED
    BY <2>1, <2>2
<1>15. Honest(e) /\ ~Running(e)
  <2>1. ~Running(e)
    BY <1>1, <1>7 DEF Running, Last
  <2>2. \A i \in DOMAIN e.records : e.records[i].verdict = "none" => e.records[i].reviewer = 0
    BY <1>0, <1>2, <1>5, <1>6, <1>7 DEF Honest
  <2>3. Last(e.records).verdict = "none"
    BY <1>5, <1>7 DEF Last
  <2> QED
    BY <1>7, <2>1, <2>2, <2>3 DEF Honest
<1> QED
  BY <1>8, <1>9, <1>10, <1>13, <1>14, <1>15 DEF Sound, WellFormed, e

\* The review of an artifact takes the place of its record: what every record
\* says stays true, whether the run ends with it or goes on.
LEMMA ReviewedRecords ==
    ASSUME NEW d, Sound(d), Running(d), d.stage = "reviewer",
           NEW verdict \in {"PASS", "FAIL"}, NEW f \in Findings,
           NEW rs, rs = Reviewed(d, verdict, f).records
    PROVE  /\ rs \in Seq(Record) /\ Len(rs) = Len(d.records) /\ DOMAIN rs = 1 .. Len(d.records)
           /\ Len(d.records) \in Nat \ {0} /\ DOMAIN d.records = 1 .. Len(d.records)
           /\ Len(d.records) = d.iteration /\ d.status = "active"
           /\ \A i \in 1 .. Len(d.records) - 1 : rs[i] = d.records[i]
           /\ rs[Len(d.records)].verdict = verdict
           /\ rs[Len(d.records)].findings = f
           /\ rs[Len(d.records)].reviewer = Len(d.attempts)
           /\ rs[Len(d.records)].maker = d.records[Len(d.records)].maker
           /\ rs[Len(d.records)].artifact = d.records[Len(d.records)].artifact
<1> DEFINE n == Len(d.attempts)
           m == Len(d.records)
           r == [d.records[m] EXCEPT !.verdict = verdict, !.findings = f, !.reviewer = n]
           qs == [d.records EXCEPT ![m] = r]
<1>0. d \in Document /\ AttemptsHold(d) /\ RecordCount(d) /\ d.attempts # <<>>
  BY DEF Sound, WellFormed, Running
<1>1. /\ d.records \in Seq(Record) /\ DOMAIN d.records = 1 .. m /\ m \in Nat
      /\ n \in DOMAIN d.attempts /\ n \in Nat
  BY <1>0, DocumentSequences
<1>2. m = d.iteration /\ m \in Nat \ {0}
  BY <1>0 DEF RecordCount, Document
<1>3. d.records[m] \in Record /\ m \in 1 .. m
  BY <1>1, <1>2, ElementOfSeq
<1>4. r \in Record
  BY <1>1, <1>3 DEF Record
<1>5. /\ qs \in Seq(Record) /\ Len(qs) = m
      /\ \A j \in 1 .. m : qs[j] = IF j = m THEN r ELSE d.records[j]
  <2> HIDE DEF r, m
  <2>1. /\ [d.records EXCEPT ![m] = r] \in Seq(Record)
        /\ Len([d.records EXCEPT ![m] = r]) = Len(d.records)
        /\ \A j \in 1 .. Len(d.records) :
              [d.records EXCEPT ![m] = r][j] = IF j = m THEN r ELSE d.records[j]
    BY <1>1, <1>3, <1>4, ExceptSeq DEF m
  <2> QED
    BY <2>1 DEF m
<1>6. rs = qs
  BY <1>0 DEF Reviewed, Document
<1>7. d.status = "active"
  BY <1>0, <1>1 DEF AttemptsHold, Running, Last
<1>8. /\ r.verdict = verdict /\ r.findings = f /\ r.reviewer = n
      /\ r.maker = d.records[m].maker /\ r.artifact = d.records[m].artifact
  BY <1>3 DEF Record
<1> HIDE DEF qs, r, m
<1>9. /\ qs[m] = r /\ DOMAIN qs = 1 .. m
      /\ \A i \in 1 .. m - 1 : qs[i] = d.records[i]
  <2>1. DOMAIN qs = 1 .. m
    BY <1>5, LenProperties
  <2> QED
    BY <1>1, <1>2, <1>3, <1>5, <2>1
<1>10. rs \in Seq(Record) /\ Len(rs) = m /\ DOMAIN rs = 1 .. m /\ rs[m] = r
       /\ \A i \in 1 .. m - 1 : rs[i] = d.records[i]
  BY <1>5, <1>6, <1>9
<1> QED
  BY <1>1, <1>2, <1>7, <1>8, <1>10 DEF m

\* Nothing else of the document changes with a review.
LEMMA ReviewedFields ==
    ASSUME NEW d \in Document, NEW verdict, NEW f
    PROVE  LET e == Reviewed(d, verdict, f)
           IN  /\ e.attempts = Finished(d.attempts, "succeeded", TRUE)
               /\ e.kind = d.kind /\ e.status = d.status /\ e.stage = d.stage
               /\ e.iteration = d.iteration /\ e.findings = f /\ e.artifact = d.artifact
               /\ e.pending = d.pending /\ e.unsafe = d.unsafe /\ e.bound = d.bound
               /\ e.checkpoint = d.checkpoint
  BY DEF Reviewed, Document

\* The last record of a document is the review of the artifact of another one.
LastReview(d, e, verdict, f) ==
    /\ Last(e.records).verdict = verdict
    /\ Last(e.records).findings = f
    /\ Last(e.records).artifact = Last(d.records).artifact

\* What the documents that a review may leave have in common: the records are
\* those of the review, whether the run goes on or ends.
LEMMA ReviewHolds ==
    ASSUME NEW d, Sound(d), Running(d), d.stage = "reviewer",
           NEW verdict \in {"PASS", "FAIL"}, NEW f \in Findings,
           verdict = "PASS" => f = NoFindings,
           NEW e \in Document,
           e.attempts = Finished(d.attempts, "succeeded", TRUE),
           e.records = Reviewed(d, verdict, f).records,
           e.stage # "reviewer",
           verdict = "PASS" => e.status = "completed",
           \/ Len(d.records) = 1
           \/ Progress(d.records[Len(d.records) - 1].findings, f)
           \/ verdict = "PASS"
           \/ e.iteration = Len(d.records) /\ e.status = "aborted"
    PROVE  /\ AttemptsHold(e) /\ RecordsHold(e) /\ OutputsBound(e)
           /\ ~Running(e)
           /\ \A i \in DOMAIN e.records : e.records[i].verdict # "none"
           /\ e.records # <<>> /\ LastReview(d, e, verdict, f)
<1> DEFINE n == Len(d.attempts)
           m == Len(d.records)
           fs == Finished(d.attempts, "succeeded", TRUE)
<1>0. /\ d \in Document /\ Honest(d) /\ RecordsHold(d) /\ OutputsBound(d)
  BY DEF Sound, WellFormed
<1>1. /\ e.attempts = fs
      /\ e.records \in Seq(Record) /\ Len(e.records) = m /\ DOMAIN e.records = 1 .. m
      /\ m \in Nat \ {0} /\ DOMAIN d.records = 1 .. m /\ m = d.iteration
      /\ \A i \in 1 .. m - 1 : e.records[i] = d.records[i]
      /\ e.records[m].verdict = verdict /\ e.records[m].findings = f
      /\ e.records[m].reviewer = n /\ e.records[m].maker = d.records[m].maker
      /\ e.records[m].artifact = d.records[m].artifact
      /\ d.status = "active"
  <2>1. e.attempts = fs
    OBVIOUS
  <2> DEFINE rs == e.records
  <2>2. rs = Reviewed(d, verdict, f).records
    OBVIOUS
  <2> HIDE DEF rs
  <2>3. /\ rs \in Seq(Record) /\ Len(rs) = Len(d.records) /\ DOMAIN rs = 1 .. Len(d.records)
        /\ Len(d.records) \in Nat \ {0} /\ DOMAIN d.records = 1 .. Len(d.records)
        /\ Len(d.records) = d.iteration /\ d.status = "active"
        /\ \A i \in 1 .. Len(d.records) - 1 : rs[i] = d.records[i]
        /\ rs[Len(d.records)].verdict = verdict
        /\ rs[Len(d.records)].findings = f
        /\ rs[Len(d.records)].reviewer = Len(d.attempts)
        /\ rs[Len(d.records)].maker = d.records[Len(d.records)].maker
        /\ rs[Len(d.records)].artifact = d.records[Len(d.records)].artifact
    BY <2>2, ReviewedRecords
  <2> QED
    BY <2>1, <2>3 DEF rs
<1>2. /\ fs \in Seq(Attempt) /\ fs # <<>>
      /\ Len(fs) = n /\ DOMAIN fs = DOMAIN d.attempts
      /\ n \in DOMAIN d.attempts
      /\ \A k \in DOMAIN fs :
            /\ fs[k].status # "running"
            /\ fs[k].output => fs[k].status \in {"succeeded", "failed"}
            /\ fs[k].status = "succeeded" => fs[k].output
            /\ fs[k].proof => fs[k].status = "interrupted"
            /\ fs[k].status = "succeeded" =>
                  k = Len(fs) \/ d.attempts[k].status = "succeeded"
  BY SuccessfulAttempts
<1>4. Last(d.attempts).slot = "reviewer" /\ Last(d.attempts).iteration = m
  BY <1>0, <1>1 DEF Honest, AskedFor
<1>5. d.records[m].verdict = "none"
  BY <1>0 DEF Honest, Last
<1> HIDE DEF fs
<1>6. AttemptsHold(e) /\ ~Running(e)
  BY <1>1, <1>2 DEF AttemptsHold, Running, Last
<1>7. ASSUME NEW slot, NEW i
      PROVE  Succeeded(e, slot, i) = IF slot = "reviewer" /\ i = m
                                     THEN Succeeded(d, slot, i) \cup {n}
                                     ELSE Succeeded(d, slot, i)
  <2>1. e.attempts = Finished(d.attempts, "succeeded", TRUE)
    BY <1>1 DEF fs
  <2>2. JoinsSuccesses(d, e, slot, i)
    BY <2>1, OneMoreSuccess
  <2> QED
    BY <1>4, <2>2 DEF JoinsSuccesses
<1>8. \A i \in 1 .. m - 1 : d.records[i].verdict = "FAIL"
  <2> TAKE i \in 1 .. m - 1
  <2>1. i \in DOMAIN d.records /\ i # m
    BY <1>1
  <2>2. d.records[i] \in Record
    BY <1>0, <2>1, DocumentSequences
  <2>3. d.records[i].verdict \in {"none", "PASS", "FAIL"}
    BY <2>2 DEF Record
  <2>4. d.records[i].verdict # "none" /\ d.records[i].verdict # "PASS"
    BY <1>0, <1>1, <2>1 DEF RecordsHold
  <2> QED
    BY <2>3, <2>4
<1>9. RecordsHold(e)
  <2> SUFFICES ASSUME NEW i \in DOMAIN e.records
               PROVE  LET q == e.records[i]
    IN  /\ Succeeded(e, "maker", i) = {q.maker}
        /\ Succeeded(e, "reviewer", i) = IF q.verdict = "none" THEN {} ELSE {q.reviewer}
        /\ q.verdict = "none" => /\ i = Len(e.records)
                                 /\ e.stage \in {"reviewer", "human-stop"}
                                 /\ q.findings = NoFindings
        /\ q.verdict = "PASS" => e.status = "completed" /\ i = Len(e.records)
        /\ q.verdict = "FAIL" /\ i > 1 /\ ~Progress(e.records[i - 1].findings, q.findings)
              => i = Len(e.records) /\ e.iteration = i /\ e.status = "aborted"
    BY DEF RecordsHold
  <2>1. CASE i = m
    <3>1. Succeeded(d, "maker", m) = {d.records[m].maker} /\ Succeeded(d, "reviewer", m) = {}
      BY <1>0, <1>1, <1>5 DEF RecordsHold
    <3>2. Succeeded(e, "maker", m) = {d.records[m].maker} /\ Succeeded(e, "reviewer", m) = {n}
      BY <1>7, <3>1
    <3>3. verdict # "none" /\ Len(e.records) = i /\ (verdict = "PASS" => e.status = "completed")
      BY <1>1, <2>1
    <3>4. verdict = "FAIL" /\ i > 1 /\ ~Progress(e.records[i - 1].findings, f)
             => e.iteration = i /\ e.status = "aborted"
      <4> SUFFICES ASSUME verdict = "FAIL", i > 1, ~Progress(e.records[i - 1].findings, f)
                   PROVE  e.iteration = i /\ e.status = "aborted"
        OBVIOUS
      <4>1. e.records[m - 1] = d.records[m - 1] /\ m # 1
        BY <1>1, <2>1
      <4> QED
        BY <2>1, <4>1
    <3> QED
      BY <1>1, <2>1, <3>2, <3>3, <3>4
  <2>2. CASE i # m
    <3>1. i \in 1 .. m - 1 /\ e.records[i] = d.records[i] /\ i # m
      BY <1>1, <2>2
    <3>2. i > 1 => e.records[i - 1] = d.records[i - 1]
      BY <1>1, <3>1
    <3>3. /\ Succeeded(e, "maker", i) = Succeeded(d, "maker", i)
          /\ Succeeded(e, "reviewer", i) = Succeeded(d, "reviewer", i)
      BY <1>7, <3>1
    <3>4. /\ Succeeded(d, "maker", i) = {d.records[i].maker}
          /\ Succeeded(d, "reviewer", i) = {d.records[i].reviewer}
          /\ d.records[i].verdict = "FAIL"
          /\ i > 1 => Progress(d.records[i - 1].findings, d.records[i].findings)
      BY <1>0, <1>1, <1>8, <3>1 DEF RecordsHold
    <3> QED
      BY <3>1, <3>2, <3>3, <3>4
  <2> QED
    BY <2>1, <2>2
<1>10. OutputsBound(e)
  <2> SUFFICES ASSUME NEW k \in DOMAIN fs, fs[k].status = "succeeded"
               PROVE  \E i \in 1 .. m : k \in {e.records[i].maker, e.records[i].reviewer}
    BY <1>1 DEF OutputsBound
  <2>1. CASE k = n
    <3>1. m \in 1 .. m /\ e.records[m].reviewer = k
      BY <1>1, <2>1
    <3> QED
      BY <3>1
  <2>2. CASE k # n
    <3>1. k \in DOMAIN d.attempts /\ d.attempts[k].status = "succeeded"
      BY <1>2, <2>2
    <3>2. PICK i \in 1 .. m : k \in {d.records[i].maker, d.records[i].reviewer}
      BY <1>0, <1>1, <3>1 DEF OutputsBound
    <3>3. CASE i # m
      BY <1>1, <3>2, <3>3
    <3>4. CASE i = m
      <4>1. d.records[m].reviewer = 0 /\ k # 0
        BY <1>0, <1>1, <1>5, <3>1, DocumentSequences DEF Honest
      <4>2. k = e.records[m].maker
        BY <1>1, <3>2, <3>4, <4>1
      <4> QED
        BY <1>1, <4>2
    <3> QED
      BY <3>3, <3>4
  <2> QED
    BY <2>1, <2>2
<1>11. \A i \in DOMAIN e.records : e.records[i].verdict # "none"
  <2> TAKE i \in DOMAIN e.records
  <2>1. CASE i = m
    BY <1>1, <2>1
  <2>2. CASE i # m
    BY <1>1, <1>8, <2>2
  <2> QED
    BY <2>1, <2>2
<1>12. e.records # <<>> /\ Last(e.records) = e.records[m] /\ Last(d.records) = d.records[m]
  BY <1>1, EmptySeq DEF Last
<1> QED
  BY <1>1, <1>6, <1>9, <1>10, <1>11, <1>12 DEF LastReview

\* How a run goes on after a review: it passes, or has another revision to
\* make, or ends for lack of progress or of revisions.
GoesOn(d, verdict, f, e) ==
    \/ /\ verdict = "PASS" /\ f = NoFindings /\ e.findings = f
       /\ e.status = "completed" /\ e.stage = "completed" /\ e.iteration = d.iteration
    \/ /\ verdict = "FAIL" /\ f # NoFindings /\ e.findings = f
       /\ e.status = "active" /\ e.stage = "maker" /\ e.iteration = d.iteration + 1
       /\ d.iteration <= MaxRevisions
       /\ d.iteration = 1 \/ Progress(d.records[d.iteration - 1].findings, f)
    \/ /\ verdict = "FAIL" /\ e.findings = f
       /\ e.status = "aborted" /\ e.stage = "human-stop" /\ e.iteration = d.iteration

\* A review leaves a sound document, however the run goes on.
LEMMA JudgedIsSound ==
    ASSUME NEW d, Sound(d), Running(d), d.stage = "reviewer",
           NEW verdict \in {"PASS", "FAIL"}, NEW f \in Findings,
           NEW e \in Document,
           e.attempts = Finished(d.attempts, "succeeded", TRUE),
           e.records = Reviewed(d, verdict, f).records,
           e.kind = d.kind, e.artifact = d.artifact, e.pending = None, e.unsafe = None,
           GoesOn(d, verdict, f, e)
    PROVE  Sound(e) /\ ~Running(e)
<1> DEFINE m == Len(d.records)
           rs == e.records
<1>0. /\ d \in Document /\ WithinRevisions(d) /\ RecordCount(d) /\ ArtifactHolds(d)
  BY DEF Sound, WellFormed
<1>1. rs = Reviewed(d, verdict, f).records
  OBVIOUS
<1>2. /\ Len(rs) = m /\ m \in Nat \ {0} /\ m = d.iteration /\ DOMAIN rs = 1 .. m
      /\ DOMAIN d.records = 1 .. m
  <2> HIDE DEF rs
  <2> QED
    BY <1>1, ReviewedRecords
<1>3. \/ m = 1 \/ Progress(d.records[m - 1].findings, f) \/ verdict = "PASS"
      \/ e.iteration = m /\ e.status = "aborted"
  BY <1>2 DEF GoesOn
<1>4. /\ verdict = "PASS" => f = NoFindings /\ e.status = "completed"
      /\ e.stage # "reviewer"
  BY DEF GoesOn
<1>5. /\ AttemptsHold(e) /\ RecordsHold(e) /\ OutputsBound(e)
      /\ ~Running(e)
      /\ \A i \in DOMAIN e.records : e.records[i].verdict # "none"
      /\ e.records # <<>> /\ LastReview(d, e, verdict, f)
  BY <1>3, <1>4, ReviewHolds
<1>6. d.records # <<>>
  BY <1>0, <1>2, DocumentSequences
<1>7. StageFits(e) /\ MarkerHolds(e) /\ IntentHolds(e)
  BY DEF GoesOn, StageFits, MarkerHolds, IntentHolds
<1>8. WithinRevisions(e) /\ RecordCount(e)
  <2>1. Len(e.records) = d.iteration /\ d.iteration \in Nat
    BY <1>2
  <2>2. d.iteration <= MaxRevisions + 1
    BY <1>0 DEF WithinRevisions
  <2>3. WithinRevisions(e)
    BY <2>1, <2>2 DEF GoesOn, WithinRevisions
  <2>4. RecordCount(e)
    <3>1. CASE e.stage = "completed" /\ e.iteration = d.iteration
      BY <2>1, <3>1 DEF RecordCount
    <3>2. CASE e.stage = "maker" /\ e.iteration = d.iteration + 1
      BY <2>1, <3>2 DEF RecordCount
    <3>3. CASE e.stage = "human-stop" /\ e.iteration = d.iteration
      BY <2>1, <3>3 DEF RecordCount
    <3> QED
      BY <3>1, <3>2, <3>3 DEF GoesOn
  <2> QED
    BY <2>3, <2>4
<1>9. ArtifactHolds(e)
  BY <1>0, <1>5, <1>6 DEF ArtifactHolds, LastReview
<1>10. FindingsHold(e)
  <2>1. verdict = "FAIL" => LastFail(e) = f
    BY <1>5 DEF LastFail, LastReview
  <2>2. CASE verdict = "PASS"
    BY <2>2 DEF GoesOn, FindingsHold
  <2>3. CASE verdict = "FAIL"
    <3>1. LastFail(e) = e.findings /\ (e.stage = "maker" => e.findings # NoFindings)
          /\ e.stage \in {"maker", "human-stop"}
          /\ (e.stage = "maker" => e.iteration > 1)
      BY <1>2, <2>1, <2>3 DEF GoesOn
    <3> QED
      BY <3>1 DEF FindingsHold
  <2> QED
    BY <2>2, <2>3
<1>11. Honest(e)
  BY <1>5 DEF GoesOn, Honest
<1> QED
  BY <1>5, <1>7, <1>8, <1>9, <1>10, <1>11 DEF Sound, WellFormed

\* The document that a review leaves is a document.
LEMMA ReviewedIsDocument ==
    ASSUME NEW d, Sound(d), Running(d), d.stage = "reviewer",
           NEW verdict \in {"PASS", "FAIL"}, NEW f \in Findings
    PROVE  /\ Reviewed(d, verdict, f) \in Document
           /\ d \in Document
<1> DEFINE as == Finished(d.attempts, "succeeded", TRUE)
           rs == Reviewed(d, verdict, f).records
<1>1. d \in Document
  BY DEF Sound
<1>2. as \in Seq(Attempt)
  BY SuccessfulAttempts
<1>3. rs \in Seq(Record)
  <2> DEFINE qs == rs
  <2>1. qs = Reviewed(d, verdict, f).records
    OBVIOUS
  <2> HIDE DEF qs
  <2>2. qs \in Seq(Record)
    BY <2>1, ReviewedRecords
  <2> QED
    BY <2>2 DEF qs
<1>4. Reviewed(d, verdict, f) = [d EXCEPT !.attempts = as, !.findings = f, !.records = rs]
  BY <1>1 DEF Reviewed, Document
<1> HIDE DEF as, rs
<1> QED
  BY <1>1, <1>2, <1>3, <1>4 DEF Document

\* A PASS completes the run.
LEMMA PassedIsSound ==
    ASSUME NEW d, Sound(d), Running(d), d.stage = "reviewer", d.unsafe = None,
           NEW e, e = [Reviewed(d, "PASS", NoFindings) EXCEPT !.status = "completed",
                                                              !.stage = "completed"]
    PROVE  Sound(e) /\ ~Running(e)
<1> DEFINE r == Reviewed(d, "PASS", NoFindings)
<1>1. NoFindings \in Findings
  BY DEF NoFindings, Findings
<1>2. r \in Document /\ d \in Document
  BY <1>1, ReviewedIsDocument
<1>3. /\ r.attempts = Finished(d.attempts, "succeeded", TRUE)
      /\ r.kind = d.kind /\ r.iteration = d.iteration /\ r.findings = NoFindings
      /\ r.artifact = d.artifact /\ r.pending = d.pending /\ r.unsafe = d.unsafe
  BY <1>2 DEF Reviewed, Document
<1>4. d.pending = None
  BY DEF Sound, WellFormed, IntentHolds
<1> HIDE DEF r
<1>5. e = [r EXCEPT !.status = "completed", !.stage = "completed"]
  BY DEF r
<1>6. /\ e \in Document /\ e.attempts = r.attempts /\ e.records = r.records /\ e.kind = r.kind
      /\ e.iteration = r.iteration /\ e.findings = r.findings /\ e.artifact = r.artifact
      /\ e.pending = r.pending /\ e.unsafe = r.unsafe
      /\ e.status = "completed" /\ e.stage = "completed"
  BY <1>2, <1>5 DEF Document
<1>7. GoesOn(d, "PASS", NoFindings, e)
  BY <1>3, <1>6 DEF GoesOn
<1>8. e.records = Reviewed(d, "PASS", NoFindings).records
  BY <1>6 DEF r
<1> QED
  BY <1>1, <1>3, <1>4, <1>6, <1>7, <1>8, JudgedIsSound

\* A FAIL that made progress asks for another revision, as long as one is left.
LEMMA ContinuedIsSound ==
    ASSUME NEW d, Sound(d), Running(d), d.stage = "reviewer", d.unsafe = None,
           NEW f \in Findings, f # NoFindings, ~Exhausted(d, f),
           NEW e, e = [Reviewed(d, "FAIL", f) EXCEPT !.stage = "maker",
                                                     !.iteration = @ + 1]
    PROVE  Sound(e) /\ ~Running(e)
<1> DEFINE r == Reviewed(d, "FAIL", f)
<1>1. d.pending = None /\ d.status = "active"
  <2>1. d \in Document /\ StageFits(d) /\ IntentHolds(d)
    BY DEF Sound, WellFormed
  <2>2. d.status \in {"active", "completed", "aborted"}
    BY <2>1 DEF Document
  <2> QED
    BY <2>1, <2>2 DEF StageFits, IntentHolds
<1>2. r \in Document /\ d \in Document
  BY ReviewedIsDocument
<1>3. /\ r.attempts = Finished(d.attempts, "succeeded", TRUE)
      /\ r.kind = d.kind /\ r.iteration = d.iteration /\ r.findings = f
      /\ r.artifact = d.artifact /\ r.pending = d.pending /\ r.unsafe = d.unsafe
      /\ r.status = d.status
  BY <1>2 DEF Reviewed, Document
<1> HIDE DEF r
<1>4. e = [r EXCEPT !.stage = "maker", !.iteration = r.iteration + 1]
  BY <1>2 DEF r, Document
<1>5. /\ e \in Document /\ e.attempts = r.attempts /\ e.records = r.records /\ e.kind = r.kind
      /\ e.iteration = r.iteration + 1 /\ e.findings = r.findings /\ e.artifact = r.artifact
      /\ e.pending = r.pending /\ e.unsafe = r.unsafe
      /\ e.status = r.status /\ e.stage = "maker"
  <2> DEFINE k == r.iteration + 1
  <2>1. k \in Nat \ {0}
    BY <1>2 DEF Document
  <2>2. e = [r EXCEPT !.stage = "maker", !.iteration = k]
    BY <1>4
  <2> HIDE DEF k
  <2>3. e \in Document /\ e.iteration = k
    BY <1>2, <2>1, <2>2 DEF Document
  <2> QED
    BY <1>2, <2>2, <2>3 DEF Document, k
<1>6. d.iteration \in Nat \ {0}
  BY <1>2 DEF Document
<1>7. /\ d.iteration <= MaxRevisions
      /\ d.iteration = 1 \/ Progress(d.records[d.iteration - 1].findings, f)
  BY <1>6 DEF Exhausted
<1>8. GoesOn(d, "FAIL", f, e)
  BY <1>1, <1>3, <1>5, <1>7 DEF GoesOn
<1>9. e.records = Reviewed(d, "FAIL", f).records
  BY <1>5 DEF r
<1> QED
  BY <1>1, <1>3, <1>5, <1>8, <1>9, JudgedIsSound

\* A FAIL without progress, or without a revision left, ends the run.
LEMMA ExhaustedIsSound ==
    ASSUME NEW d, Sound(d), Running(d), d.stage = "reviewer", d.unsafe = None,
           NEW f \in Findings, NEW c \in Artifacts \cup {Clean, Torn, None},
           NEW e, e = Ended(Reviewed(d, "FAIL", f), "succeeded", TRUE, c)
    PROVE  Sound(e) /\ ~Running(e)
<1> DEFINE r == Reviewed(d, "FAIL", f)
<1>2. r \in Document /\ d \in Document
  BY ReviewedIsDocument
<1>3. /\ r.attempts = Finished(d.attempts, "succeeded", TRUE)
      /\ r.kind = d.kind /\ r.iteration = d.iteration /\ r.findings = f
      /\ r.artifact = d.artifact /\ r.unsafe = d.unsafe
  BY <1>2 DEF Reviewed, Document
<1>4. Finished(r.attempts, "succeeded", TRUE) = r.attempts
  <2> DEFINE as == Finished(d.attempts, "succeeded", TRUE)
  <2>2. /\ as # <<>> /\ Len(as) \in DOMAIN as
        /\ \A k \in DOMAIN as : as[k].status # "running"
    BY SuccessfulAttempts
  <2>1. r.attempts # <<>> /\ Last(r.attempts).status # "running"
    BY <1>3, <2>2 DEF Last
  <2> QED
    BY <2>1 DEF Finished
<1> HIDE DEF r
<1>5. e = [r EXCEPT !.status = "aborted", !.stage = "human-stop", !.pending = None,
                    !.checkpoint = c]
  BY <1>2, <1>4 DEF r, Ended, Document
<1>6. /\ e \in Document /\ e.attempts = r.attempts /\ e.records = r.records /\ e.kind = r.kind
      /\ e.iteration = r.iteration /\ e.findings = r.findings /\ e.artifact = r.artifact
      /\ e.pending = None /\ e.unsafe = r.unsafe
      /\ e.status = "aborted" /\ e.stage = "human-stop"
  BY <1>2, <1>5 DEF Document
<1>7. GoesOn(d, "FAIL", f, e)
  BY <1>3, <1>6 DEF GoesOn
<1>8. e.records = Reviewed(d, "FAIL", f).records
  BY <1>6 DEF r
<1> QED
  BY <1>3, <1>6, <1>7, <1>8, JudgedIsSound

\* What finishing the last attempt without success does to the attempts.
LEMMA UnsuccessfulAttempts ==
    ASSUME NEW d, Sound(d), d.status = "active",
           NEW status \in {"failed", "interrupted"}, NEW output \in BOOLEAN,
           output => status = "failed",
           NEW as, as = Finished(d.attempts, status, output)
    PROVE  /\ as \in Seq(Attempt) /\ DOMAIN as = DOMAIN d.attempts
           /\ Len(as) = Len(d.attempts)
           /\ NoSuccess(d.attempts, as)
           /\ \A k \in DOMAIN as :
                 /\ as[k].status # "running"
                 /\ as[k].output => as[k].status \in {"succeeded", "failed"}
                 /\ as[k].status = "succeeded" => as[k].output
                 /\ as[k].proof => as[k].status = "interrupted"
<1>1. d \in Document /\ AttemptsHold(d)
  BY DEF Sound, WellFormed
<1> DEFINE f == Finished(d.attempts, status, output)
<1>0. /\ f \in Seq(Attempt) /\ Len(f) = Len(d.attempts) /\ DOMAIN f = DOMAIN d.attempts
      /\ \A k \in DOMAIN d.attempts :
            f[k] = IF k = Len(d.attempts) /\ Running(d)
                   THEN Settled(d.attempts[k], status, output)
                   ELSE d.attempts[k]
  BY <1>1, FinishedAttempts
<1>2. /\ as \in Seq(Attempt) /\ Len(as) = Len(d.attempts) /\ DOMAIN as = DOMAIN d.attempts
      /\ \A k \in DOMAIN d.attempts :
            as[k] = IF k = Len(d.attempts) /\ Running(d)
                    THEN Settled(d.attempts[k], status, output)
                    ELSE d.attempts[k]
  BY <1>0
<1> HIDE DEF f
<1>3. \A k \in DOMAIN d.attempts : d.attempts[k] \in Attempt
  BY <1>1, DocumentSequences
<1>4. ASSUME NEW k \in DOMAIN d.attempts
      PROVE  /\ as[k].status # "running"
             /\ as[k].slot = d.attempts[k].slot /\ as[k].iteration = d.attempts[k].iteration
             /\ as[k].status = "succeeded" <=> d.attempts[k].status = "succeeded"
             /\ as[k].output => as[k].status \in {"succeeded", "failed"}
             /\ as[k].status = "succeeded" => as[k].output
             /\ as[k].proof => as[k].status = "interrupted"
  <2>1. CASE k = Len(d.attempts) /\ Running(d)
    <3>1. /\ as[k] = Settled(d.attempts[k], status, output)
          /\ d.attempts[k] \in Attempt /\ d.attempts[k].status = "running"
      BY <1>2, <1>3, <2>1 DEF Running, Last
    <3>2. /\ as[k].status = status /\ as[k].output = output
          /\ as[k].proof = d.attempts[k].proof
          /\ as[k].slot = d.attempts[k].slot /\ as[k].iteration = d.attempts[k].iteration
      BY <3>1 DEF Attempt, Settled
    <3>3. ~d.attempts[k].proof
      BY <1>1, <3>1 DEF AttemptsHold
    <3> QED
      BY <3>1, <3>2, <3>3
  <2>2. CASE ~(k = Len(d.attempts) /\ Running(d))
    <3>1. d.attempts[k].status = "running" => k = Len(d.attempts)
      BY <1>1 DEF AttemptsHold
    <3>2. d.attempts # <<>>
      BY <1>1, SomeAttempt
    <3>3. as[k] = d.attempts[k] /\ d.attempts[k].status # "running"
      BY <1>2, <2>2, <3>1, <3>2 DEF Running, Last
    <3> QED
      BY <1>1, <3>3 DEF AttemptsHold
  <2> QED
    BY <2>1, <2>2
<1>5. NoSuccess(d.attempts, as)
  BY <1>2, <1>4 DEF NoSuccess
<1> QED
  BY <1>2, <1>4, <1>5

\* The document of an ended run.
LEMMA EndedIsDocument ==
    ASSUME NEW d \in Document, NEW as \in Seq(Attempt),
           NEW c \in Artifacts \cup {Clean, Torn, None},
           NEW e, e = [d EXCEPT !.status = "aborted", !.stage = "human-stop", !.pending = None,
                                !.checkpoint = c, !.attempts = as]
    PROVE  e \in Document
  BY DEF Document

\* An active run that is stopped or aborted ends with its records.
LEMMA EndedIsSound ==
    ASSUME NEW d, Sound(d), d.status = "active", d.unsafe = None,
           NEW status \in {"failed", "interrupted"}, NEW output \in BOOLEAN,
           output => status = "failed",
           NEW c \in Artifacts \cup {Clean, Torn, None}
    PROVE  /\ Sound(Ended(d, status, output, c))
           /\ ~Running(Ended(d, status, output, c))
<1> DEFINE as == Finished(d.attempts, status, output)
           e == Ended(d, status, output, c)
<1>0. /\ d \in Document /\ Honest(d) /\ RecordsHold(d) /\ OutputsBound(d)
      /\ StageFits(d) /\ WithinRevisions(d) /\ RecordCount(d)
      /\ ArtifactHolds(d) /\ FindingsHold(d)
  BY DEF Sound, WellFormed
<1>1. /\ as \in Seq(Attempt) /\ DOMAIN as = DOMAIN d.attempts /\ Len(as) = Len(d.attempts)
      /\ NoSuccess(d.attempts, as)
      /\ \A k \in DOMAIN as :
            /\ as[k].status # "running"
            /\ as[k].output => as[k].status \in {"succeeded", "failed"}
            /\ as[k].status = "succeeded" => as[k].output
            /\ as[k].proof => as[k].status = "interrupted"
  BY UnsuccessfulAttempts
<1>2. /\ e.kind = d.kind /\ e.status = "aborted" /\ e.stage = "human-stop"
      /\ e.iteration = d.iteration /\ e.attempts = as /\ e.records = d.records
      /\ e.findings = d.findings /\ e.artifact = d.artifact /\ e.pending = None
      /\ e.unsafe = None
  BY <1>0 DEF Ended, Document
<1>3. e = [d EXCEPT !.status = "aborted", !.stage = "human-stop", !.pending = None,
                    !.checkpoint = c, !.attempts = as]
  BY DEF Ended
<1> HIDE DEF as, e
<1>4. e \in Document
  <2>1. d \in Document /\ as \in Seq(Attempt)
    BY <1>0, <1>1
  <2> QED
    BY <1>3, <2>1, EndedIsDocument
<1>5. StageFits(e) /\ WithinRevisions(e) /\ MarkerHolds(e) /\ IntentHolds(e)
  BY <1>0, <1>2 DEF StageFits, WithinRevisions, MarkerHolds, IntentHolds
<1>6. d.iteration \in Nat \ {0} /\ d.stage \in {"setup", "maker", "apply", "reviewer"}
  BY <1>0 DEF Document, StageFits
<1>7. RecordCount(e)
  <2>1. Len(d.records) = d.iteration - 1 \/ Len(d.records) = d.iteration
    <3>1. CASE d.stage = "setup"
      BY <1>0, <3>1 DEF RecordCount, Honest
    <3>2. CASE d.stage # "setup"
      BY <1>0, <1>6, <3>2 DEF RecordCount
    <3> QED
      BY <3>1, <3>2
  <2> QED
    BY <1>2, <2>1 DEF RecordCount
<1>8. ArtifactHolds(e)
  BY <1>0, <1>2 DEF ArtifactHolds
<1>9. FindingsHold(e)
  <2>1. d.findings \in {NoFindings, LastFail(d)}
    BY <1>0, <1>6 DEF FindingsHold
  <2>2. LastFail(e) = LastFail(d)
    BY <1>2 DEF LastFail
  <2> QED
    BY <1>2, <2>1, <2>2 DEF FindingsHold
<1>10. AttemptsHold(e)
  BY <1>1, <1>2 DEF AttemptsHold
<1>11. RecordsHold(e) /\ OutputsBound(e)
  <2>1. NoSuccess(d.attempts, e.attempts)
    BY <1>1, <1>2
  <2> QED
    BY <1>0, <1>2, <1>4, <2>1, SameSuccesses
<1>12. ~Running(e)
  <2>1. as # <<>> => Len(as) \in DOMAIN as
    BY <1>2, <1>4, DocumentSequences
  <2> QED
    BY <1>1, <1>2, <2>1 DEF Running, Last
<1>13. Honest(e)
  BY <1>0, <1>2, <1>12 DEF Honest
<1> QED
  BY <1>4, <1>5, <1>7, <1>8, <1>9, <1>10, <1>11, <1>12, <1>13 DEF Sound, WellFormed, e

\* A resumed run has no running attempt, unless its patch may be in the tree.
LEMMA InterruptedIsSound ==
    ASSUME NEW d, Sound(d), d.status = "active", d.unsafe = None, d.stage # "apply",
           NEW e, e = [d EXCEPT !.attempts = Finished(@, "interrupted", FALSE)]
    PROVE  Sound(e) /\ ~Running(e)
<1> DEFINE as == Finished(d.attempts, "interrupted", FALSE)
<1>1. d \in Document
  BY DEF Sound
<1>2. /\ as \in Seq(Attempt) /\ Len(as) = Len(d.attempts) /\ DOMAIN as = DOMAIN d.attempts
      /\ \A k \in DOMAIN d.attempts :
            as[k] = IF k = Len(d.attempts) /\ Running(d)
                    THEN Settled(d.attempts[k], "interrupted", FALSE)
                    ELSE d.attempts[k]
  BY <1>1, FinishedAttempts
<1>3. \A k \in DOMAIN d.attempts :
         IF k = Len(d.attempts) /\ Running(d)
         THEN Lost(d.attempts[k], as[k])
         ELSE as[k] = d.attempts[k]
  <2> TAKE k \in DOMAIN d.attempts
  <2>1. CASE k = Len(d.attempts) /\ Running(d)
    <3>1. d.attempts[k] \in Attempt /\ d.attempts[k].status = "running"
      BY <1>1, <2>1, DocumentSequences DEF Running, Last
    <3>2. d.attempts[k].proof = FALSE
      BY <3>1 DEF Sound, WellFormed, AttemptsHold, Attempt
    <3>3. as[k] = Settled(d.attempts[k], "interrupted", FALSE)
      BY <1>2, <2>1
    <3> HIDE DEF as
    <3>4. Lost(d.attempts[k], as[k])
      BY <3>1, <3>2, <3>3 DEF Attempt, Lost, Settled
    <3> QED
      BY <2>1, <3>4
  <2>2. CASE ~(k = Len(d.attempts) /\ Running(d))
    BY <1>2, <2>2
  <2> QED
    BY <2>1, <2>2
<1>4. e = [d EXCEPT !.attempts = as, !.unsafe = None]
  BY <1>1 DEF Document
<1>5. as \in Seq(Attempt) /\ Len(as) = Len(d.attempts) /\ DOMAIN as = DOMAIN d.attempts
  BY <1>2
<1>6. WithoutRunning(d, as)
  BY <1>3, <1>5 DEF WithoutRunning
<1> HIDE DEF as
<1>9. /\ Sound([d EXCEPT !.attempts = as, !.unsafe = None])
      /\ ~Running([d EXCEPT !.attempts = as, !.unsafe = None])
  BY <1>4, <1>5, <1>6, FailedIsSound
<1> QED
  BY <1>4, <1>9

\* An operator confirms that the marked worker has ended.
LEMMA ConfirmedIsSound ==
    ASSUME NEW d, Sound(d), Running(d), d.stage # "apply",
           NEW e, e = [d EXCEPT !.attempts[Len(d.attempts)] =
                                    [@ EXCEPT !.status = "interrupted", !.proof = TRUE],
                                !.unsafe = None]
    PROVE  Sound(e) /\ ~Running(e)
<1> DEFINE n == Len(d.attempts)
           t == [d.attempts[n] EXCEPT !.status = "interrupted", !.output = FALSE,
                                      !.proof = TRUE]
           as == [d.attempts EXCEPT ![n] = t]
<1>1. /\ d \in Document /\ AttemptsHold(d) /\ d.attempts \in Seq(Attempt)
      /\ n \in 1 .. n /\ DOMAIN d.attempts = 1 .. n /\ d.attempts[n] \in Attempt
      /\ d.attempts[n].status = "running"
  BY DocumentSequences DEF Sound, WellFormed, Running, Last
<1>2. d.status = "active" /\ d.attempts[n].output = FALSE
  BY <1>1 DEF AttemptsHold, Attempt
<1>3. t \in Attempt /\ t = [d.attempts[n] EXCEPT !.status = "interrupted", !.proof = TRUE]
  BY <1>1, <1>2 DEF Attempt
<1>4. e = [d EXCEPT !.attempts = as, !.unsafe = None]
  BY <1>1, <1>3 DEF Document
<1>5. /\ as \in Seq(Attempt) /\ Len(as) = n
      /\ \A k \in 1 .. n : as[k] = IF k = n THEN t ELSE d.attempts[k]
  <2> HIDE DEF t
  <2> QED
    BY <1>1, <1>3, ExceptSeq
<1>6. \A k \in DOMAIN d.attempts :
         IF k = Len(d.attempts) /\ Running(d)
         THEN Lost(d.attempts[k], as[k])
         ELSE as[k] = d.attempts[k]
  <2>1. Lost(d.attempts[n], t)
    BY <1>1 DEF Lost, Attempt
  <2> HIDE DEF t
  <2> QED
    BY <1>1, <1>5, <2>1
<1>7. DOMAIN as = DOMAIN d.attempts /\ Len(as) = Len(d.attempts) /\ as \in Seq(Attempt)
  BY <1>1, <1>5
<1>8. WithoutRunning(d, as)
  BY <1>6, <1>7 DEF WithoutRunning
<1> HIDE DEF as
<1>9. /\ Sound([d EXCEPT !.attempts = as, !.unsafe = None])
      /\ ~Running([d EXCEPT !.attempts = as, !.unsafe = None])
  BY <1>2, <1>4, <1>7, <1>8, FailedIsSound
<1> QED
  BY <1>4, <1>9

\* Taking a worktree into the document changes nothing it says of the run.
LEMMA FoldedIsSound ==
    ASSUME NEW d, Sound(d)
    PROVE  /\ Sound(Folded(d))
           /\ Folded(d).status = d.status /\ Folded(d).unsafe = d.unsafe
           /\ Folded(d).bound = TRUE /\ Folded(d).kind = d.kind /\ Folded(d).stage = d.stage
           /\ Folded(d).records = d.records /\ Folded(d).artifact = d.artifact
<1> DEFINE e == [d EXCEPT !.bound = TRUE]
<1>0. /\ d \in Document /\ Honest(d) /\ WellFormed(d)
  BY DEF Sound
<1>1. e \in Document
  BY <1>0 DEF Document
<1>2. /\ e.kind = d.kind /\ e.status = d.status /\ e.stage = d.stage
      /\ e.iteration = d.iteration /\ e.attempts = d.attempts /\ e.records = d.records
      /\ e.findings = d.findings /\ e.artifact = d.artifact /\ e.pending = d.pending
      /\ e.unsafe = d.unsafe /\ e.bound = TRUE
  BY <1>0 DEF Document
<1> HIDE DEF e
<1>3. StageFits(e) /\ WithinRevisions(e) /\ AttemptsHold(e) /\ MarkerHolds(e)
  BY <1>0, <1>2 DEF WellFormed, StageFits, WithinRevisions, AttemptsHold, MarkerHolds
<1>4. RecordsHold(e) /\ OutputsBound(e)
  BY <1>0, <1>2 DEF WellFormed, RecordsHold, OutputsBound, Succeeded
<1>5. RecordCount(e) /\ IntentHolds(e) /\ ArtifactHolds(e) /\ FindingsHold(e)
  BY <1>0, <1>2 DEF WellFormed, RecordCount, IntentHolds, ArtifactHolds, FindingsHold, LastFail
<1>6. Honest(e)
  BY <1>0, <1>2 DEF Honest, Running, AskedFor
<1> QED
  <2>1. Folded(d) = e
    BY DEF Folded, e
  <2> QED
    BY <1>1, <1>2, <1>3, <1>4, <1>5, <1>6, <2>1 DEF Sound, WellFormed

---------------------------------------------------------------------------
(* Every step keeps the invariant.                                         *)

WorktreeType == [record : {"none", "creating", "active", "succeeded", "failed",
                           "aborted", "removed"},
                 dir : Levels, tree : Artifacts \cup {Clean, Torn}]

ProcessType == [pc : {"idle", "setup", "adding", "loop", "spawn", "wait", "waiting", "cancel",
                      "cancelled", "collect", "parse", "applied", "stop", "mark",
                      "abort", "abortAdding", "aborted"},
                n : 1 .. TransportRetries + 1, output : BOOLEAN]

\* What is known of a state that holds a document.
Holding(d, w, n, c, l) ==
    /\ Sound(d) /\ Workspace(d, w) /\ ProcessFits(d, c, n)
    /\ w \in WorktreeType /\ n \subseteq Dispatch /\ c \in ProcessType
    /\ l \in 0 .. MaxLaunches

\* After any step there is a document, and the invariant holds again.
GoesOnHolding == doc' # None /\ MakerCheckerInvariant'

\* An invocation at work holds a document.
LEMMA AtWork ==
    ASSUME MakerCheckerInvariant, doc # None
    PROVE  /\ Holding(doc, wt, natives, co, launches)
           /\ doc \in Document
  BY DEF MakerCheckerInvariant, TypeOK, Holding, WorktreeType, ProcessType, Sound

\* The parts of the invariant are all there is to show of the next document.
LEMMA HoldsAgain ==
    ASSUME Holding(doc', wt', natives', co', launches')
    PROVE  GoesOnHolding
<1>1. doc' \in Document
  BY DEF Holding, Sound
<1>2. doc' # None
  BY <1>1, AbsentAssumption
<1>3. TypeOK'
  BY <1>1 DEF Holding, TypeOK, WorktreeType, ProcessType
<1> QED
  BY <1>2, <1>3 DEF Holding, MakerCheckerInvariant, GoesOnHolding

\* Moving the process from one step to the next.
LEMMA Moves ==
    ASSUME co \in ProcessType, NEW pc, Go(pc),
           pc \in {"idle", "setup", "adding", "loop", "spawn", "wait", "waiting", "cancel",
                   "cancelled", "collect", "parse", "applied", "stop", "mark",
                   "abort", "abortAdding", "aborted"}
    PROVE  co' \in ProcessType /\ co'.pc = pc /\ co'.n = co.n /\ co'.output = co.output
  BY DEF Go, ProcessType

\* A process that has left, or was killed.
LEMMA Left ==
    ASSUME Leave
    PROVE  co' \in ProcessType /\ co'.pc = "idle"
  BY DEF Leave, Idle, ProcessType, TransportRetries

\* Claiming the snapshot for a new run, or resuming the one it holds.
LEMMA ClaimsHold ==
    ASSUME MakerCheckerInvariant
    PROVE  /\ \A kind \in Kinds : CreateRun(kind) => GoesOnHolding
           /\ ResumeRun => GoesOnHolding
<1>0. /\ co \in ProcessType /\ launches \in 0 .. MaxLaunches /\ natives \subseteq Dispatch
  BY DEF MakerCheckerInvariant, TypeOK, ProcessType
<1>1. ASSUME Launch, doc # None => doc.unsafe = None
      PROVE  /\ co' \in ProcessType /\ co'.pc = "setup" /\ launches' \in 0 .. MaxLaunches
             /\ natives' = {} /\ natives' \subseteq Dispatch
  <2>1. co' \in ProcessType /\ co'.pc = "setup"
    BY <1>0, <1>1, Moves DEF Launch
  <2>2. launches' \in 0 .. MaxLaunches
    BY <1>0, <1>1, LaunchAssumption DEF Launch
  <2>3. natives = {}
    <3>1. doc # None => natives \subseteq {None}
      BY <1>1 DEF Launch, At, MakerCheckerInvariant, ProcessFits
    <3>2. None \notin Dispatch
      BY AbsentAssumption
    <3> QED
      BY <1>0, <3>1, <3>2 DEF MakerCheckerInvariant
  <2> QED
    BY <1>1, <2>1, <2>2, <2>3 DEF Launch
<1>2. ASSUME NEW kind \in Kinds, CreateRun(kind) PROVE GoesOnHolding
  <2>1. doc # None => doc.unsafe = None
    BY <1>2 DEF CreateRun, Valid, WellFormed, MarkerHolds
  <2>2. kind \in {"code", "document"}
    BY KindAssumption
  <2>3. Sound(doc') /\ ~Running(doc')
    BY <1>2, <2>2, NewIsSound DEF CreateRun
  <2>4. /\ doc'.kind = kind /\ doc'.status = "active" /\ doc'.stage = "setup"
        /\ doc'.unsafe = None /\ doc'.bound = FALSE
    BY <1>2 DEF CreateRun, NewDocument
  <2>5. wt' \in WorktreeType /\ wt'.record = "none"
    BY <1>2 DEF CreateRun, NoWorktree, WorktreeType, Levels, Progression
  <2>6. Workspace(doc', wt')
    BY <2>4, <2>5 DEF Workspace
  <2>7. ProcessFits(doc', co', natives')
    BY <1>1, <1>2, <2>1, <2>3, <2>4 DEF CreateRun, ProcessFits
  <2>8. Holding(doc', wt', natives', co', launches')
    BY <1>1, <1>2, <2>1, <2>3, <2>5, <2>6, <2>7 DEF CreateRun, Holding
  <2> QED
    BY <2>8, HoldsAgain
<1>3. ASSUME ResumeRun PROVE GoesOnHolding
  <2>0. /\ doc # None /\ doc.status = "active" /\ doc.unsafe = None
        /\ Sound(doc) /\ doc \in Document /\ Workspace(doc, wt) /\ wt \in WorktreeType
    BY <1>3, AtWork DEF ResumeRun, ResumeAllowed, Holding
  <2>1. /\ Sound(doc')
        /\ Running(doc') => doc'.stage = "apply"
    <3>1. CASE doc.stage = "apply"
      BY <1>3, <2>0, <3>1 DEF ResumeRun
    <3>2. CASE doc.stage # "apply"
      BY <1>3, <2>0, <3>2, InterruptedIsSound DEF ResumeRun
    <3> QED
      BY <3>1, <3>2
  <2>2. /\ doc'.kind = doc.kind /\ doc'.status = "active" /\ doc'.stage = doc.stage
        /\ doc'.artifact = doc.artifact /\ doc'.pending = doc.pending /\ doc'.unsafe = None
        /\ doc'.bound = doc.bound /\ doc'.checkpoint = doc.checkpoint /\ wt' = wt
    BY <1>3, <2>0 DEF ResumeRun, Document
  <2>3. Workspace(doc', wt')
    BY <2>0, <2>2 DEF Workspace
  <2>4. ProcessFits(doc', co', natives')
    BY <1>1, <1>3, <2>0, <2>1, <2>2 DEF ResumeRun, ProcessFits
  <2>5. Holding(doc', wt', natives', co', launches')
    BY <1>1, <1>3, <2>0, <2>1, <2>2, <2>3, <2>4 DEF ResumeRun, Holding
  <2> QED
    BY <2>5, HoldsAgain
<1> QED
  BY <1>2, <1>3

\* Setting the worktree up.
LEMMA SetupHolds ==
    ASSUME MakerCheckerInvariant,
           RecordCreating \/ FinishCreating \/ SetupRefused \/ BindSetup \/ AlreadySetUp
    PROVE  GoesOnHolding
<1> USE DEF At, Setup, UnboundSetup
<1>0. /\ doc # None /\ At("setup") /\ natives' = natives /\ launches' = launches
  BY DEF MakerCheckerInvariant, RecordCreating, FinishCreating, SetupRefused, BindSetup,
         AlreadySetUp
<1>1. /\ Sound(doc) /\ doc \in Document /\ Workspace(doc, wt) /\ ProcessFits(doc, co, natives)
      /\ wt \in WorktreeType /\ natives \subseteq Dispatch /\ co \in ProcessType
      /\ launches \in 0 .. MaxLaunches
  BY <1>0, AtWork DEF Holding
<1>2. /\ doc.status = "active" /\ natives = {} /\ doc.unsafe = None
      /\ Running(doc) => doc.stage = "apply"
  BY <1>0, <1>1 DEF ProcessFits
<1>3. CASE RecordCreating
  <2>1. wt' \in WorktreeType /\ wt'.record = "creating" /\ doc' = doc /\ co' = co
    BY <1>1, <1>3 DEF RecordCreating, WorktreeType
  <2>2. Workspace(doc', wt')
    BY <1>3, <2>1 DEF RecordCreating, Workspace, Unbound
  <2>3. Holding(doc', wt', natives', co', launches')
    BY <1>0, <1>1, <2>1, <2>2 DEF Holding
  <2> QED
    BY <2>3, HoldsAgain
<1>4. CASE FinishCreating
  <2>1. wt' = wt /\ doc' = doc /\ Unbound(doc) /\ doc.stage = "setup"
    BY <1>4 DEF FinishCreating
  <2>2. co' \in ProcessType /\ co'.pc \in {"idle", "adding"}
    BY <1>1, <1>4, Left, Moves DEF FinishCreating
  <2>3. ProcessFits(doc', co', natives')
    BY <1>0, <1>2, <2>1, <2>2 DEF ProcessFits
  <2>4. Holding(doc', wt', natives', co', launches')
    BY <1>0, <1>1, <2>1, <2>2, <2>3 DEF Holding
  <2> QED
    BY <2>4, HoldsAgain
<1>5. CASE SetupRefused
  <2>1. wt' = wt /\ doc' = doc /\ co' \in ProcessType /\ co'.pc = "idle"
    BY <1>5, Left DEF SetupRefused
  <2>2. ProcessFits(doc', co', natives')
    BY <1>0, <1>2, <2>1 DEF ProcessFits
  <2>3. Holding(doc', wt', natives', co', launches')
    BY <1>0, <1>1, <2>1, <2>2 DEF Holding
  <2> QED
    BY <2>3, HoldsAgain
<1>6. CASE BindSetup
  <2> DEFINE c == IF Code THEN wt.tree ELSE None
  <2>1. c \in Artifacts \cup {Clean, Torn, None} /\ Code \in BOOLEAN
    BY <1>1 DEF WorktreeType, Code
  <2>2. doc' = [doc EXCEPT !.stage = "maker", !.bound = Code, !.checkpoint = c]
    BY <1>6 DEF BindSetup
  <2>3. Code => wt.record = "active"
    BY <1>6 DEF BindSetup
  <2>4. doc.stage = "setup" /\ wt' = wt /\ co' \in ProcessType /\ co'.pc = "loop"
    BY <1>1, <1>6, Moves DEF BindSetup
  <2>5. /\ doc'.kind = doc.kind /\ doc'.status = "active" /\ doc'.stage = "maker"
        /\ doc'.unsafe = None /\ doc'.bound = Code /\ doc'.checkpoint = c
    BY <1>1, <1>2, <2>2 DEF Document
  <2>6. Workspace(doc', wt')
    BY <1>1, <2>3, <2>4, <2>5 DEF Workspace, Code, Document
  <2> DEFINE b == Code
  <2> HIDE DEF c, b
  <2>7. Sound(doc') /\ ~Running(doc')
    <3>1. doc' = [doc EXCEPT !.stage = "maker", !.bound = b, !.checkpoint = c]
      BY <2>2 DEF b
    <3>2. b \in BOOLEAN
      BY <2>1 DEF b
    <3> QED
      BY <1>1, <1>2, <2>1, <2>4, <3>1, <3>2, BoundIsSound
  <2>8. ProcessFits(doc', co', natives')
    BY <1>0, <1>2, <2>4, <2>5, <2>7 DEF ProcessFits
  <2>9. Holding(doc', wt', natives', co', launches')
    BY <1>0, <1>1, <2>4, <2>6, <2>7, <2>8 DEF Holding
  <2> QED
    BY <2>9, HoldsAgain
<1>7. CASE AlreadySetUp
  <2>1. wt' = wt /\ doc' = doc /\ co' \in ProcessType /\ co'.pc = "loop" /\ doc.stage # "setup"
    BY <1>1, <1>7, Moves DEF AlreadySetUp
  <2>2. ProcessFits(doc', co', natives')
    BY <1>0, <1>2, <2>1 DEF ProcessFits
  <2>3. Holding(doc', wt', natives', co', launches')
    BY <1>0, <1>1, <2>1, <2>2 DEF Holding
  <2> QED
    BY <2>3, HoldsAgain
<1> QED
  BY <1>3, <1>4, <1>5, <1>6, <1>7

\* Creating the worktree, step by step.
LEMMA CreationHolds ==
    ASSUME MakerCheckerInvariant, AddWorktree
    PROVE  GoesOnHolding
<1> USE DEF At
<1>0. /\ doc # None /\ doc' = doc /\ natives' = natives /\ launches' = launches
      /\ co.pc \in {"adding", "abortAdding"}
  BY DEF MakerCheckerInvariant, AddWorktree
<1>1. /\ Sound(doc) /\ doc \in Document /\ Workspace(doc, wt) /\ ProcessFits(doc, co, natives)
      /\ wt \in WorktreeType /\ natives \subseteq Dispatch /\ co \in ProcessType
      /\ launches \in 0 .. MaxLaunches
  BY <1>0, AtWork DEF Holding
<1>2. /\ doc.status = "active" /\ natives = {} /\ doc.unsafe = None
      /\ doc.stage = "setup" /\ Unbound(doc)
  BY <1>0, <1>1 DEF ProcessFits
<1>3. ~Running(doc)
  BY <1>1, <1>2 DEF Sound, Honest, Running
<1>4. CASE wt.dir = "bound"
  <2>1. wt' = [wt EXCEPT !.record = "active"]
    BY <1>4 DEF AddWorktree
  <2>2. wt' \in WorktreeType /\ wt'.record = "active"
    BY <1>1, <2>1 DEF WorktreeType
  <2>3. co' \in ProcessType /\ co'.pc \in {"setup", "abort"}
    BY <1>1, <1>4, Moves DEF AddWorktree
  <2>4. Workspace(doc', wt')
    BY <1>0, <1>2, <2>2 DEF Workspace, Unbound
  <2>5. ProcessFits(doc', co', natives')
    BY <1>0, <1>2, <1>3, <2>3 DEF ProcessFits
  <2>6. Holding(doc', wt', natives', co', launches')
    BY <1>0, <1>1, <2>2, <2>3, <2>4, <2>5 DEF Holding
  <2> QED
    BY <2>6, HoldsAgain
<1>5. CASE wt.dir # "bound"
  <2>1. PICK i \in 1 .. 4 : wt' = [wt EXCEPT !.dir = Progression[i + 1]]
    BY <1>5 DEF AddWorktree
  <2>2. Progression[i + 1] \in Levels
    <3>1. i + 1 \in 1 .. 5
      OBVIOUS
    <3>2. DOMAIN Progression = 1 .. 5
      BY DEF Progression
    <3> QED
      BY <3>1, <3>2 DEF Levels
  <2>3. wt' \in WorktreeType /\ wt'.record = wt.record /\ wt'.tree = wt.tree /\ co' = co
    BY <1>1, <1>5, <2>1, <2>2 DEF WorktreeType, AddWorktree
  <2>4. Workspace(doc', wt')
    BY <1>0, <1>1, <2>3 DEF Workspace
  <2>5. Holding(doc', wt', natives', co', launches')
    BY <1>0, <1>1, <2>3, <2>4 DEF Holding
  <2> QED
    BY <2>5, HoldsAgain
<1> QED
  BY <1>4, <1>5

\* Beginning an attempt, and launching, marking and starting its worker.
LEMMA LaunchesHold ==
    ASSUME MakerCheckerInvariant,
           BeginAttempt \/ SpawnRefused \/ Mark \/ StartNative
    PROVE  GoesOnHolding
<1> USE DEF At
<1>0. doc # None /\ launches' = launches /\ wt' = wt
  BY DEF MakerCheckerInvariant, BeginAttempt, SpawnRefused, Mark, StartNative
<1>1. /\ Sound(doc) /\ doc \in Document /\ Workspace(doc, wt) /\ ProcessFits(doc, co, natives)
      /\ wt \in WorktreeType /\ natives \subseteq Dispatch /\ co \in ProcessType
      /\ launches \in 0 .. MaxLaunches
  BY <1>0, AtWork DEF Holding
<1>2. CASE BeginAttempt
  <2>1. /\ doc.status = "active" /\ natives = {} /\ doc.unsafe = None
        /\ doc.stage \in {"maker", "reviewer"} /\ ~Running(doc)
        /\ doc' = Begun(doc, doc.stage) /\ natives' = natives
    BY <1>1, <1>2 DEF BeginAttempt, ProcessFits
  <2>2. Sound(doc') /\ Running(doc')
    BY <1>1, <2>1, BegunIsSound
  <2>3. /\ doc'.kind = doc.kind /\ doc'.status = doc.status /\ doc'.stage = doc.stage
        /\ doc'.artifact = doc.artifact /\ doc'.pending = doc.pending
        /\ doc'.unsafe = doc.unsafe
        /\ doc'.bound = doc.bound /\ doc'.checkpoint = doc.checkpoint
    BY <1>1, <2>1 DEF Begun, Document
  <2>4. Workspace(doc', wt')
    BY <1>0, <1>1, <2>3 DEF Workspace
  <2>5. co' \in ProcessType /\ co'.pc = "spawn"
    BY <1>2 DEF BeginAttempt, ProcessType, TransportRetries
  <2>6. ProcessFits(doc', co', natives')
    BY <2>1, <2>2, <2>3, <2>5 DEF ProcessFits
  <2>7. Holding(doc', wt', natives', co', launches')
    BY <1>0, <1>1, <2>1, <2>2, <2>4, <2>5, <2>6 DEF Holding
  <2> QED
    BY <2>7, HoldsAgain
<1>3. CASE SpawnRefused
  <2>1. co' \in ProcessType /\ co'.pc = "stop" /\ doc' = doc /\ natives' = natives
    BY <1>1, <1>3, Moves DEF SpawnRefused
  <2>2. ProcessFits(doc', co', natives')
    BY <1>1, <1>3, <2>1 DEF SpawnRefused, ProcessFits
  <2>3. Holding(doc', wt', natives', co', launches')
    BY <1>0, <1>1, <2>1, <2>2 DEF Holding
  <2> QED
    BY <2>3, HoldsAgain
<1>4. CASE Mark
  <2> DEFINE x == [attempt |-> Len(doc.attempts), n |-> co.n]
  <2>1. /\ Running(doc) /\ natives = {} /\ doc.stage \in {"maker", "reviewer"}
        /\ doc' = [doc EXCEPT !.unsafe = x] /\ natives' = natives
    BY <1>1, <1>4 DEF Mark, Mine, ProcessFits
  <2>2. Len(doc.attempts) \in Nat \ {0} /\ co.n \in 1 .. TransportRetries + 1
    BY <1>1, <2>1, DocumentSequences DEF Running, ProcessType
  <2>3. x \in Dispatch /\ x.attempt = Len(doc.attempts)
    BY <2>2 DEF Dispatch
  <2>4. /\ co' \in ProcessType /\ co'.pc \in {"wait", "cancel"} /\ co'.n = co.n
    BY <1>1, <1>4, Moves DEF Mark
  <2> HIDE DEF x
  <2>5. Sound(doc') /\ Running(doc')
    BY <1>1, <2>1, <2>3, MarkedIsSound
  <2>6. /\ doc'.kind = doc.kind /\ doc'.status = doc.status /\ doc'.stage = doc.stage
        /\ doc'.artifact = doc.artifact /\ doc'.pending = doc.pending /\ doc'.unsafe = x
        /\ doc'.bound = doc.bound /\ doc'.checkpoint = doc.checkpoint
        /\ doc'.attempts = doc.attempts
    BY <1>1, <2>1 DEF Document
  <2>7. Workspace(doc', wt')
    BY <1>0, <1>1, <2>6 DEF Workspace
  <2>8. x = [attempt |-> Len(doc'.attempts), n |-> co'.n]
    BY <2>4, <2>6 DEF x
  <2>9. ProcessFits(doc', co', natives')
    BY <2>1, <2>4, <2>5, <2>6, <2>8 DEF ProcessFits
  <2>10. Holding(doc', wt', natives', co', launches')
    BY <1>0, <1>1, <2>1, <2>4, <2>5, <2>7, <2>9 DEF Holding
  <2> QED
    BY <2>10, HoldsAgain
<1>5. CASE StartNative
  <2>1. /\ co' \in ProcessType /\ co'.pc = "waiting" /\ co'.n = co.n
        /\ doc' = doc /\ natives' = natives \cup {Mine}
    BY <1>1, <1>5, Moves DEF StartNative
  <2>2. /\ Running(doc) /\ natives = {} /\ doc.unsafe = Mine
        /\ doc.stage \in {"maker", "reviewer"}
    BY <1>1, <1>5 DEF StartNative, ProcessFits, Mine
  <2>3. Mine \in Dispatch
    <3>1. Len(doc.attempts) \in Nat \ {0} /\ co.n \in 1 .. TransportRetries + 1
      BY <1>1, <2>2, DocumentSequences DEF Running, ProcessType
    <3> QED
      BY <3>1 DEF Mine, Dispatch
  <2>4. doc'.unsafe = [attempt |-> Len(doc'.attempts), n |-> co'.n]
    BY <2>1, <2>2 DEF Mine
  <2>5. natives' \subseteq {doc'.unsafe} /\ natives' \subseteq Dispatch
    BY <2>1, <2>2, <2>3
  <2>6. ProcessFits(doc', co', natives')
    BY <2>1, <2>2, <2>4, <2>5 DEF ProcessFits
  <2>7. Holding(doc', wt', natives', co', launches')
    BY <1>0, <1>1, <2>1, <2>5, <2>6 DEF Holding
  <2> QED
    BY <2>7, HoldsAgain
<1> QED
  BY <1>2, <1>3, <1>4, <1>5

\* Waiting for the worker, cancelling it and collecting what it left.
LEMMA WaitsHold ==
    ASSUME MakerCheckerInvariant,
           Waited \/ WaitBroken \/ Cancel \/ CancelUnconfirmed \/ ClearCancelled \/ Collect
    PROVE  GoesOnHolding
<1> USE DEF At
<1>0. doc # None /\ launches' = launches /\ wt' = wt
  BY DEF MakerCheckerInvariant, Waited, WaitBroken, Cancel, CancelUnconfirmed,
         ClearCancelled, Collect
<1>1. /\ Sound(doc) /\ doc \in Document /\ Workspace(doc, wt) /\ ProcessFits(doc, co, natives)
      /\ wt \in WorktreeType /\ natives \subseteq Dispatch /\ co \in ProcessType
      /\ launches \in 0 .. MaxLaunches
  BY <1>0, AtWork DEF Holding
<1>2. CASE Waited
  <2>1. /\ co' \in ProcessType /\ co'.pc = "collect" /\ doc' = doc /\ natives' = natives
        /\ Mine \notin natives
    BY <1>1, <1>2, Moves DEF Waited
  <2>2. /\ Running(doc) /\ natives \subseteq {Mine} /\ doc.stage \in {"maker", "reviewer"}
    BY <1>1, <1>2 DEF Waited, ProcessFits, Mine
  <2>3. natives' = {}
    BY <2>1, <2>2
  <2>4. ProcessFits(doc', co', natives')
    BY <2>1, <2>2, <2>3 DEF ProcessFits
  <2>5. Holding(doc', wt', natives', co', launches')
    BY <1>0, <1>1, <2>1, <2>4 DEF Holding
  <2> QED
    BY <2>5, HoldsAgain
<1>3. CASE WaitBroken
  <2>1. /\ co' \in ProcessType /\ co'.pc = "cancel" /\ co'.n = co.n
        /\ doc' = doc /\ natives' = natives
    BY <1>1, <1>3, Moves DEF WaitBroken
  <2>2. /\ Running(doc) /\ natives \subseteq {doc.unsafe}
        /\ doc.unsafe = [attempt |-> Len(doc.attempts), n |-> co.n]
        /\ doc.stage \in {"maker", "reviewer"}
    BY <1>1, <1>3 DEF WaitBroken, ProcessFits
  <2>3. ProcessFits(doc', co', natives')
    BY <2>1, <2>2 DEF ProcessFits
  <2>4. Holding(doc', wt', natives', co', launches')
    BY <1>0, <1>1, <2>1, <2>3 DEF Holding
  <2> QED
    BY <2>4, HoldsAgain
<1>4. CASE Cancel
  <2>1. /\ co' \in ProcessType /\ co'.pc = "cancelled" /\ doc' = doc
        /\ natives' = natives \ {Mine}
    BY <1>1, <1>4, Moves DEF Cancel
  <2>2. /\ Running(doc) /\ natives \subseteq {Mine} /\ doc.stage \in {"maker", "reviewer"}
    BY <1>1, <1>4 DEF Cancel, ProcessFits, Mine
  <2>3. natives' = {}
    BY <2>1, <2>2
  <2>4. ProcessFits(doc', co', natives')
    BY <2>1, <2>2, <2>3 DEF ProcessFits
  <2>5. Holding(doc', wt', natives', co', launches')
    BY <1>0, <1>1, <2>1, <2>3, <2>4 DEF Holding
  <2> QED
    BY <2>5, HoldsAgain
<1>5. CASE CancelUnconfirmed
  <2>1. co' \in ProcessType /\ co'.pc = "idle" /\ doc' = doc /\ natives' = natives
    BY <1>5, Left DEF CancelUnconfirmed
  <2>2. natives \subseteq {doc.unsafe} /\ doc.stage # "apply"
    BY <1>1, <1>5 DEF CancelUnconfirmed, ProcessFits
  <2>3. ProcessFits(doc', co', natives')
    BY <2>1, <2>2 DEF ProcessFits
  <2>4. Holding(doc', wt', natives', co', launches')
    BY <1>0, <1>1, <2>1, <2>3 DEF Holding
  <2> QED
    BY <2>4, HoldsAgain
<1>6. CASE ClearCancelled \/ Collect
  <2>1. /\ doc' = [doc EXCEPT !.unsafe = None] /\ natives' = natives
        /\ Running(doc) /\ natives = {} /\ doc.stage \in {"maker", "reviewer"}
    BY <1>1, <1>6 DEF ClearCancelled, Collect, ProcessFits
  <2>2. co' \in ProcessType /\ co'.pc \in {"parse", "spawn", "stop"}
    <3>1. CASE ClearCancelled
      BY <1>1, <3>1, Moves DEF ClearCancelled
    <3>2. CASE Collect /\ co.n <= TransportRetries
                  /\ co' = [co EXCEPT !.pc = "spawn", !.n = @ + 1]
      <4> DEFINE k == co.n + 1
      <4>1. k \in 1 .. TransportRetries + 1
        BY <1>1, <3>2 DEF ProcessType, TransportRetries
      <4>2. co' = [co EXCEPT !.pc = "spawn", !.n = k]
        BY <3>2
      <4> HIDE DEF k
      <4> QED
        BY <1>1, <4>1, <4>2 DEF ProcessType
    <3>3. CASE Collect /\ (Go("parse") \/ Go("stop"))
      BY <1>1, <3>3, Moves
    <3> QED
      BY <1>6, <3>1, <3>2, <3>3 DEF Collect
  <2>3. Sound(doc') /\ Running(doc')
    BY <1>1, <2>1, MarkedIsSound
  <2>4. /\ doc'.kind = doc.kind /\ doc'.status = doc.status /\ doc'.stage = doc.stage
        /\ doc'.artifact = doc.artifact /\ doc'.pending = doc.pending /\ doc'.unsafe = None
        /\ doc'.bound = doc.bound /\ doc'.checkpoint = doc.checkpoint
    BY <1>1, <2>1 DEF Document
  <2>5. Workspace(doc', wt')
    BY <1>0, <1>1, <2>4 DEF Workspace
  <2>6. ProcessFits(doc', co', natives')
    BY <2>1, <2>2, <2>3, <2>4 DEF ProcessFits
  <2>7. Holding(doc', wt', natives', co', launches')
    BY <1>0, <1>1, <2>1, <2>2, <2>3, <2>5, <2>6 DEF Holding
  <2> QED
    BY <2>7, HoldsAgain
<1> QED
  BY <1>2, <1>3, <1>4, <1>5, <1>6

\* What a submission leaves of the document.
LEMMA SubmittedFields ==
    ASSUME NEW d \in Document, NEW a, NEW c
    PROVE  LET e == Submitted(d, a, c)
           IN  /\ e.kind = d.kind /\ e.status = d.status /\ e.stage = "reviewer"
               /\ e.artifact = a /\ e.pending = None /\ e.unsafe = d.unsafe
               /\ e.bound = d.bound /\ e.checkpoint = c
  BY DEF Submitted, Document

\* A document at work that has its patch in the tree, or is a document run,
\* submits its artifact.
LEMMA SubmissionHolds ==
    ASSUME NEW w \in WorktreeType, NEW d, Sound(d), Running(d), d.unsafe = None,
           d.stage \in {"maker", "apply"}, Workspace(d, w),
           NEW a \in Artifacts,
           NEW c, c = IF d.kind = "code" THEN w.tree ELSE None,
           d.kind = "code" => d.stage = "apply" /\ w.tree = a
    PROVE  /\ Sound(Submitted(d, a, c)) /\ ~Running(Submitted(d, a, c))
           /\ Workspace(Submitted(d, a, c), w)
           /\ Submitted(d, a, c).status = "active"
           /\ Submitted(d, a, c).stage = "reviewer"
           /\ Submitted(d, a, c).unsafe = None
<1> DEFINE e == Submitted(d, a, c)
<1>1. d \in Document /\ StageFits(d)
  BY DEF Sound, WellFormed
<1>2. d.status = "active" /\ d.kind \in {"code", "document"}
  BY <1>1 DEF StageFits, Document
<1>3. c \in Artifacts \cup {Clean, Torn, None}
  BY DEF WorktreeType
<1>4. Sound(e) /\ ~Running(e)
  BY <1>3, SubmittedIsSound
<1>5. /\ e.kind = d.kind /\ e.status = d.status /\ e.stage = "reviewer"
      /\ e.artifact = a /\ e.pending = None /\ e.unsafe = d.unsafe
      /\ e.bound = d.bound /\ e.checkpoint = c
  BY <1>1, SubmittedFields
<1> HIDE DEF e
<1>6. Workspace(e, w)
  BY <1>2, <1>5 DEF Workspace
<1> QED
  BY <1>2, <1>4, <1>5, <1>6 DEF e

\* The response of the maker, which is refused, submitted or made an intent.
LEMMA ResponsesHold ==
    ASSUME MakerCheckerInvariant
    PROVE  /\ MakerRefused \/ ReviewRefused => GoesOnHolding
           /\ \A a \in Artifacts : MakerResponse(a) => GoesOnHolding
<1> USE DEF At
<1>0. ASSUME At("parse")
      PROVE  /\ doc # None /\ Sound(doc) /\ doc \in Document /\ Workspace(doc, wt)
             /\ wt \in WorktreeType /\ natives \subseteq Dispatch /\ co \in ProcessType
             /\ launches \in 0 .. MaxLaunches
             /\ Running(doc) /\ natives = {} /\ doc.unsafe = None
             /\ doc.stage \in {"maker", "reviewer"}
  <2>1. doc # None
    BY <1>0 DEF MakerCheckerInvariant
  <2>2. Holding(doc, wt, natives, co, launches) /\ doc \in Document
    BY <2>1, AtWork
  <2> QED
    BY <1>0, <2>1, <2>2 DEF Holding, ProcessFits
<1>1. ASSUME MakerRefused \/ ReviewRefused PROVE GoesOnHolding
  <2>0. At("parse") /\ Refused
    BY <1>1 DEF MakerRefused, ReviewRefused
  <2>1. /\ co' \in ProcessType /\ co'.pc = "stop" /\ doc' = doc /\ natives' = natives
        /\ wt' = wt /\ launches' = launches
    BY <1>0, <2>0 DEF Refused, ProcessType
  <2>2. ProcessFits(doc', co', natives')
    BY <1>0, <2>0, <2>1 DEF ProcessFits
  <2>3. Holding(doc', wt', natives', co', launches')
    BY <1>0, <2>0, <2>1, <2>2 DEF Holding
  <2> QED
    BY <2>3, HoldsAgain
<1>2. ASSUME NEW a \in Artifacts, MakerResponse(a) PROVE GoesOnHolding
  <2>0. /\ At("parse") /\ doc.stage = "maker" /\ a # doc.artifact
        /\ wt' = wt /\ natives' = natives /\ launches' = launches /\ Go("loop")
    BY <1>2 DEF MakerResponse
  <2>1. co' \in ProcessType /\ co'.pc = "loop"
    BY <1>0, <2>0, Moves
  <2>2. CASE Code
    <3>1. doc' = [doc EXCEPT !.stage = "apply", !.findings = NoFindings, !.pending = a]
      BY <1>2, <2>2 DEF MakerResponse
    <3>2. Sound(doc') /\ Running(doc')
      BY <1>0, <2>0, <2>2, <3>1, IntentIsSound DEF Code
    <3>3. /\ doc'.kind = doc.kind /\ doc'.status = doc.status /\ doc'.stage = "apply"
          /\ doc'.artifact = doc.artifact /\ doc'.pending = a /\ doc'.unsafe = None
          /\ doc'.bound = doc.bound /\ doc'.checkpoint = doc.checkpoint
      BY <1>0, <2>0, <3>1 DEF Document
    <3>4. doc.status = "active"
      BY <1>0, <2>0 DEF Sound, WellFormed, StageFits, Document
    <3>5. Workspace(doc', wt')
      BY <1>0, <2>0, <2>2, <3>3, <3>4 DEF Workspace, Code
    <3>6. ProcessFits(doc', co', natives')
      BY <1>0, <2>0, <2>1, <3>3, <3>4 DEF ProcessFits
    <3>7. Holding(doc', wt', natives', co', launches')
      BY <1>0, <2>0, <2>1, <3>2, <3>5, <3>6 DEF Holding
    <3> QED
      BY <3>7, HoldsAgain
  <2>3. CASE ~Code
    <3> DEFINE c == IF doc.kind = "code" THEN wt.tree ELSE None
    <3>1. doc' = Submitted(doc, a, c) /\ doc.kind # "code"
      BY <1>2, <2>3 DEF MakerResponse, Code
    <3> HIDE DEF c
    <3>2. c = IF doc.kind = "code" THEN wt.tree ELSE None
      BY DEF c
    <3>3. /\ Sound(doc') /\ ~Running(doc') /\ Workspace(doc', wt)
          /\ doc'.status = "active" /\ doc'.stage = "reviewer" /\ doc'.unsafe = None
      BY <1>0, <2>0, <3>1, <3>2, SubmissionHolds
    <3>4. ProcessFits(doc', co', natives')
      BY <1>0, <2>0, <2>1, <3>3 DEF ProcessFits
    <3>5. Holding(doc', wt', natives', co', launches')
      BY <1>0, <2>0, <2>1, <3>3, <3>4 DEF Holding
    <3> QED
      BY <3>5, HoldsAgain
  <2> QED
    BY <2>2, <2>3
<1> QED
  BY <1>1, <1>2

\* Applying the patch of an intent, and recording it.
LEMMA PatchesHold ==
    ASSUME MakerCheckerInvariant,
           ApplyPatch \/ PatchRefused \/ TearApply \/ RecordApplied \/ AbortApplied
    PROVE  GoesOnHolding
<1> USE DEF At
<1>0. doc # None /\ launches' = launches /\ natives' = natives
  BY DEF MakerCheckerInvariant, ApplyPatch, PatchRefused, TearApply, RecordApplied,
         AbortApplied, Applying
<1>1. /\ Sound(doc) /\ doc \in Document /\ Workspace(doc, wt) /\ ProcessFits(doc, co, natives)
      /\ wt \in WorktreeType /\ natives \subseteq Dispatch /\ co \in ProcessType
      /\ launches \in 0 .. MaxLaunches
  BY <1>0, AtWork DEF Holding
<1>2. doc.stage = "apply" /\ natives = {} /\ doc.unsafe = None
  BY <1>1 DEF ApplyPatch, PatchRefused, TearApply, RecordApplied, AbortApplied, Applying,
              PatchApplied, ProcessFits
<1>3. /\ doc.kind = "code" /\ doc.pending \in Artifacts /\ Running(doc)
      /\ doc.status = "active" /\ doc.bound
      /\ wt.record = "active"
      /\ wt.tree \in {doc.checkpoint, doc.pending, Torn}
  <2>1. /\ doc.kind = "code" /\ doc.pending # None /\ Running(doc)
    BY <1>1, <1>2 DEF Sound, WellFormed, IntentHolds, Running
  <2>2. doc.status = "active" /\ doc.pending \in Artifacts
    BY <1>1, <1>2, <2>1 DEF Sound, WellFormed, StageFits, Document
  <2> QED
    BY <1>1, <1>2, <2>1, <2>2 DEF Workspace
<1>4. CASE ApplyPatch \/ PatchRefused \/ TearApply
  <2>1. doc' = doc
    BY <1>4 DEF ApplyPatch, PatchRefused, TearApply
  <2>2. /\ wt' \in WorktreeType /\ wt'.record = wt.record
        /\ wt'.tree \in {doc.checkpoint, doc.pending, Torn}
    BY <1>1, <1>3, <1>4 DEF ApplyPatch, PatchRefused, TearApply, WorktreeType
  <2>3. Workspace(doc', wt')
    BY <1>2, <1>3, <2>1, <2>2 DEF Workspace
  <2>4. co' \in ProcessType /\ co'.pc \in {"applied", "stop", "idle"}
    <3>1. CASE ApplyPatch
      BY <1>1, <3>1, Moves DEF ApplyPatch
    <3>2. CASE PatchRefused
      BY <1>1, <3>2 DEF PatchRefused, ProcessType
    <3>3. CASE TearApply
      BY <3>3, Left DEF TearApply
    <3> QED
      BY <1>4, <3>1, <3>2, <3>3
  <2>5. ProcessFits(doc', co', natives')
    BY <1>0, <1>2, <1>3, <2>1, <2>4 DEF ProcessFits
  <2>6. Holding(doc', wt', natives', co', launches')
    BY <1>0, <1>1, <2>1, <2>2, <2>3, <2>4, <2>5 DEF Holding
  <2> QED
    BY <2>6, HoldsAgain
<1>5. CASE RecordApplied \/ AbortApplied
  <2>1. wt' = wt
    BY <1>5 DEF RecordApplied, AbortApplied
  <2>2. CASE wt.tree = doc.pending
    <3> DEFINE c == wt.tree
               a == doc.pending
    <3>1. doc' = Submitted(doc, a, c)
      BY <1>5, <2>2 DEF RecordApplied, AbortApplied
    <3>2. co' \in ProcessType /\ co'.pc \in {"loop", "abort"}
      BY <1>1, <1>5, <2>2, Moves DEF RecordApplied, AbortApplied
    <3>3. c = (IF doc.kind = "code" THEN wt.tree ELSE None) /\ a \in Artifacts /\ wt.tree = a
      BY <1>3, <2>2
    <3> HIDE DEF c, a
    <3>4. /\ Sound(doc') /\ ~Running(doc') /\ Workspace(doc', wt)
          /\ doc'.status = "active" /\ doc'.stage = "reviewer" /\ doc'.unsafe = None
      BY <1>1, <1>2, <1>3, <3>1, <3>3, SubmissionHolds
    <3>5. ProcessFits(doc', co', natives')
      BY <1>0, <1>2, <3>2, <3>4 DEF ProcessFits
    <3>6. Holding(doc', wt', natives', co', launches')
      BY <1>0, <1>1, <2>1, <3>2, <3>4, <3>5 DEF Holding
    <3> QED
      BY <3>6, HoldsAgain
  <2>3. CASE wt.tree # doc.pending
    <3>1. doc' = doc /\ co' \in ProcessType /\ co'.pc \in {"stop", "idle"}
      <4>1. CASE RecordApplied
        BY <1>1, <2>3, <4>1 DEF RecordApplied, ProcessType
      <4>2. CASE AbortApplied
        BY <2>3, <4>2, Left DEF AbortApplied
      <4> QED
        BY <1>5, <4>1, <4>2
    <3>2. ProcessFits(doc', co', natives')
      BY <1>0, <1>2, <1>3, <3>1 DEF ProcessFits
    <3>3. Holding(doc', wt', natives', co', launches')
      BY <1>0, <1>1, <2>1, <3>1, <3>2 DEF Holding
    <3> QED
      BY <3>3, HoldsAgain
  <2> QED
    BY <2>2, <2>3
<1> QED
  BY <1>4, <1>5

\* The review of an artifact.
LEMMA VerdictsHold ==
    ASSUME MakerCheckerInvariant
    PROVE  /\ ReviewPass => GoesOnHolding
           /\ \A f \in Findings : ReviewFail(f) => GoesOnHolding
<1> USE DEF At
<1>0. ASSUME At("parse"), doc.stage = "reviewer"
      PROVE  /\ doc # None /\ Sound(doc) /\ doc \in Document /\ Workspace(doc, wt)
             /\ wt \in WorktreeType /\ natives \subseteq Dispatch /\ co \in ProcessType
             /\ launches \in 0 .. MaxLaunches
             /\ Running(doc) /\ natives = {} /\ doc.unsafe = None
             /\ doc.status = "active"
             /\ doc.kind = "code" => /\ doc.bound /\ wt.record = "active"
                                     /\ wt.tree = doc.checkpoint /\ wt.tree = doc.artifact
             /\ doc.kind = "document" => ~doc.bound
             /\ doc.kind \in {"code", "document"}
  <2>1. doc # None
    BY <1>0 DEF MakerCheckerInvariant
  <2>2. Holding(doc, wt, natives, co, launches) /\ doc \in Document
    BY <2>1, AtWork
  <2>3. doc.status = "active" /\ doc.kind \in {"code", "document"}
    BY <1>0, <2>2 DEF Holding, Sound, WellFormed, StageFits, Document
  <2> QED
    BY <1>0, <2>1, <2>2, <2>3 DEF Holding, ProcessFits, Workspace
<1>1. ASSUME ReviewPass PROVE GoesOnHolding
  <2>0. /\ At("parse") /\ doc.stage = "reviewer" /\ wt' = wt /\ natives' = natives
        /\ launches' = launches /\ Go("mark")
        /\ doc' = [Reviewed(doc, "PASS", NoFindings) EXCEPT !.status = "completed",
                                                            !.stage = "completed"]
    BY <1>1 DEF ReviewPass
  <2>1. co' \in ProcessType /\ co'.pc = "mark"
    BY <1>0, <2>0, Moves
  <2>2. Sound(doc') /\ ~Running(doc')
    BY <1>0, <2>0, PassedIsSound
  <2>3. /\ doc'.kind = doc.kind /\ doc'.status = "completed" /\ doc'.stage = "completed"
        /\ doc'.artifact = doc.artifact /\ doc'.bound = doc.bound
        /\ doc'.checkpoint = doc.checkpoint
    BY <1>0, <2>0 DEF Reviewed, Document
  <2>4. Workspace(doc', wt')
    BY <1>0, <2>0, <2>3 DEF Workspace
  <2>5. ProcessFits(doc', co', natives')
    BY <1>0, <2>0, <2>1, <2>3 DEF ProcessFits
  <2>6. Holding(doc', wt', natives', co', launches')
    BY <1>0, <2>0, <2>1, <2>2, <2>4, <2>5 DEF Holding
  <2> QED
    BY <2>6, HoldsAgain
<1>2. ASSUME NEW f \in Findings, ReviewFail(f) PROVE GoesOnHolding
  <2> DEFINE r == Reviewed(doc, "FAIL", f)
  <2>0. /\ At("parse") /\ doc.stage = "reviewer" /\ wt' = wt /\ natives' = natives
        /\ launches' = launches
        /\ IF Exhausted(doc, f)
           THEN doc' = Ended(r, "succeeded", TRUE, Checkpoint(r)) /\ Go("mark")
           ELSE doc' = [r EXCEPT !.stage = "maker", !.iteration = @ + 1] /\ Go("loop")
    BY <1>2 DEF ReviewFail
  <2>1. f # NoFindings
    <3>1. Cited(NoFindings) = {}
      BY DEF Cited, NoFindings
    <3> QED
      BY <1>2, <3>1 DEF ReviewFail
  <2>2. /\ r.kind = doc.kind /\ r.status = doc.status /\ r.stage = doc.stage
        /\ r.artifact = doc.artifact /\ r.unsafe = doc.unsafe
        /\ r.bound = doc.bound /\ r.checkpoint = doc.checkpoint
    BY <1>0, <2>0 DEF Reviewed, Document
  <2>3. r \in Document
    BY <1>0, <2>0, ReviewedIsDocument
  <2>4. CASE Exhausted(doc, f)
    <3> DEFINE c == Checkpoint(r)
    <3>1. doc' = Ended(r, "succeeded", TRUE, c) /\ co' \in ProcessType /\ co'.pc = "mark"
      BY <1>0, <2>0, <2>4, Moves
    <3>2. c \in Artifacts \cup {Clean, Torn, None} /\ (doc.bound => c = wt.tree)
      BY <1>0, <2>0, <2>2 DEF Checkpoint, WorktreeType
    <3> HIDE DEF c
    <3>3. Sound(doc') /\ ~Running(doc')
      BY <1>0, <2>0, <3>1, <3>2, ExhaustedIsSound
    <3> HIDE DEF r
    <3>4. /\ doc'.kind = doc.kind /\ doc'.status = "aborted" /\ doc'.stage = "human-stop"
          /\ doc'.bound = doc.bound /\ doc'.checkpoint = c
      BY <2>2, <2>3, <3>1 DEF Ended, Document
    <3>5. Workspace(doc', wt')
      BY <1>0, <2>0, <3>2, <3>4 DEF Workspace
    <3>6. ProcessFits(doc', co', natives')
      BY <1>0, <2>0, <3>1, <3>4 DEF ProcessFits
    <3>7. Holding(doc', wt', natives', co', launches')
      BY <1>0, <2>0, <3>1, <3>3, <3>5, <3>6 DEF Holding
    <3> QED
      BY <3>7, HoldsAgain
  <2>5. CASE ~Exhausted(doc, f)
    <3>1. /\ doc' = [r EXCEPT !.stage = "maker", !.iteration = @ + 1]
          /\ co' \in ProcessType /\ co'.pc = "loop"
      BY <1>0, <2>0, <2>5, Moves
    <3>2. Sound(doc') /\ ~Running(doc')
      BY <1>0, <2>0, <2>1, <2>5, <3>1, ContinuedIsSound
    <3> HIDE DEF r
    <3>3. /\ doc'.kind = doc.kind /\ doc'.status = "active" /\ doc'.stage = "maker"
          /\ doc'.bound = doc.bound /\ doc'.checkpoint = doc.checkpoint
          /\ doc'.unsafe = None
      BY <1>0, <2>0, <2>2, <2>3, <3>1 DEF Document
    <3>4. Workspace(doc', wt')
      BY <1>0, <2>0, <3>3 DEF Workspace
    <3>5. ProcessFits(doc', co', natives')
      BY <1>0, <2>0, <3>1, <3>2, <3>3 DEF ProcessFits
    <3>6. Holding(doc', wt', natives', co', launches')
      BY <1>0, <2>0, <3>1, <3>2, <3>4, <3>5 DEF Holding
    <3> QED
      BY <3>6, HoldsAgain
  <2> QED
    BY <2>4, <2>5
<1> QED
  BY <1>1, <1>2

\* An active document that is ended, with the content of its worktree.
LEMMA EndingHolds ==
    ASSUME NEW w \in WorktreeType, NEW d, Sound(d), d.status = "active", d.unsafe = None,
           NEW status \in {"failed", "interrupted"}, NEW output \in BOOLEAN,
           output => status = "failed",
           NEW c, c = IF d.bound THEN w.tree ELSE None,
           NEW e, e = Ended(d, status, output, c),
           d.kind = "document" => ~d.bound,
           d.kind = "code" => IF d.bound THEN w.record \notin {"none", "creating", "removed"}
                              ELSE w.record \in {"none", "removed"}
    PROVE  /\ Sound(e) /\ ~Running(e) /\ Workspace(e, w) /\ e.status = "aborted"
           /\ e.stage = "human-stop"
<1>1. d \in Document /\ d.kind \in {"code", "document"} /\ d.bound \in BOOLEAN
  BY DEF Sound, Document
<1>2. c \in Artifacts \cup {Clean, Torn, None}
  BY DEF WorktreeType
<1>3. Sound(e) /\ ~Running(e)
  BY <1>2, EndedIsSound
<1>4. /\ e.kind = d.kind /\ e.status = "aborted" /\ e.stage = "human-stop"
      /\ e.bound = d.bound /\ e.checkpoint = c
  BY <1>1 DEF Ended, Document
<1>5. Workspace(e, w)
  BY <1>1, <1>4 DEF Workspace
<1> QED
  BY <1>3, <1>4, <1>5

\* Ending a run, and recording its end in the worktree.
LEMMA StopsHold ==
    ASSUME MakerCheckerInvariant,
           TerminalStop \/ MarkWorktree \/ AbortStop \/ AbortWorktree
    PROVE  GoesOnHolding
<1> USE DEF At
<1>0. doc # None /\ launches' = launches /\ natives' = natives
  BY DEF MakerCheckerInvariant, TerminalStop, MarkWorktree, AbortStop, AbortWorktree
<1>1. /\ Sound(doc) /\ doc \in Document /\ Workspace(doc, wt) /\ ProcessFits(doc, co, natives)
      /\ wt \in WorktreeType /\ natives \subseteq Dispatch /\ co \in ProcessType
      /\ launches \in 0 .. MaxLaunches
  BY <1>0, AtWork DEF Holding
<1>2. doc.kind \in {"code", "document"} /\ doc.bound \in BOOLEAN /\ co.output \in BOOLEAN
  BY <1>1 DEF Document, ProcessType
<1>3. CASE TerminalStop
  <2> DEFINE c == Checkpoint(doc)
             o == co.output
             s == "failed"
  <2>1. /\ Running(doc) /\ natives = {} /\ doc.unsafe = None /\ doc.stage # "setup"
    BY <1>1, <1>3 DEF TerminalStop, ProcessFits
  <2>2. doc.status = "active"
    BY <1>1, <2>1, DocumentSequences DEF Sound, WellFormed, AttemptsHold, Running, Last
  <2>3. /\ doc.kind = "document" => ~doc.bound
        /\ doc.kind = "code" => IF doc.bound
                                THEN wt.record \notin {"none", "creating", "removed"}
                                ELSE wt.record \in {"none", "removed"}
    BY <1>1, <2>1 DEF Workspace
  <2>4. /\ doc' = Ended(doc, s, o, c) /\ o \in BOOLEAN /\ (o => s = "failed")
        /\ s \in {"failed", "interrupted"} /\ c = IF doc.bound THEN wt.tree ELSE None
    BY <1>2, <1>3 DEF TerminalStop, Checkpoint
  <2>5. wt' = wt /\ co' \in ProcessType /\ co'.pc = "mark"
    BY <1>1, <1>3, Moves DEF TerminalStop
  <2> HIDE DEF c, o, s
  <2>6. Sound(doc') /\ ~Running(doc') /\ Workspace(doc', wt) /\ doc'.status = "aborted"
    BY <1>1, <2>1, <2>2, <2>3, <2>4, EndingHolds
  <2>7. ProcessFits(doc', co', natives')
    BY <1>0, <2>1, <2>5, <2>6 DEF ProcessFits
  <2>8. Holding(doc', wt', natives', co', launches')
    BY <1>0, <1>1, <2>5, <2>6, <2>7 DEF Holding
  <2> QED
    BY <2>8, HoldsAgain
<1>4. CASE AbortStop
  <2> DEFINE d == IF Unbound(doc) /\ wt.record \notin {"none", "removed"}
                  THEN Folded(doc) ELSE doc
             c == Checkpoint(d)
             no == FALSE
             s == "interrupted"
  <2>1. /\ doc.status = "active" /\ natives = {} /\ doc.unsafe = None
        /\ ~Creating
    BY <1>1, <1>4 DEF AbortStop, ProcessFits
  <2>2. /\ Sound(d) /\ d.status = "active" /\ d.unsafe = None /\ d.kind = doc.kind
        /\ d.bound = (doc.bound \/ (Unbound(doc) /\ wt.record \notin {"none", "removed"}))
    BY <1>1, <1>2, <2>1, FoldedIsSound
  <2>3. /\ d.kind = "document" => ~d.bound
        /\ d.kind = "code" => IF d.bound THEN wt.record \notin {"none", "creating", "removed"}
                              ELSE wt.record \in {"none", "removed"}
    <3>1. CASE doc.kind = "document"
      BY <1>1, <2>2, <3>1 DEF Workspace, Unbound
    <3>2. CASE doc.kind = "code" /\ doc.bound
      BY <1>1, <2>2, <3>2 DEF Workspace
    <3>3. CASE doc.kind = "code" /\ ~doc.bound
      BY <1>1, <2>1, <2>2, <3>3 DEF Unbound, Creating
    <3> QED
      BY <1>2, <3>1, <3>2, <3>3
  <2>4. /\ doc' = Ended(d, s, no, c) /\ no \in BOOLEAN /\ (no => s = "failed")
        /\ s \in {"failed", "interrupted"} /\ c = IF d.bound THEN wt.tree ELSE None
    BY <1>4 DEF AbortStop, Checkpoint
  <2>5. wt' = wt /\ co' \in ProcessType /\ co'.pc = "aborted"
    BY <1>1, <1>4, Moves DEF AbortStop
  <2> HIDE DEF d, c, no, s
  <2>6. Sound(doc') /\ ~Running(doc') /\ Workspace(doc', wt) /\ doc'.status = "aborted"
    BY <1>1, <2>2, <2>3, <2>4, EndingHolds
  <2>7. ProcessFits(doc', co', natives')
    BY <1>0, <2>1, <2>5, <2>6 DEF ProcessFits
  <2>8. Holding(doc', wt', natives', co', launches')
    BY <1>0, <1>1, <2>5, <2>6, <2>7 DEF Holding
  <2> QED
    BY <2>8, HoldsAgain
<1>5. CASE MarkWorktree \/ AbortWorktree
  <2>1. doc' = doc /\ Leave
    BY <1>5 DEF MarkWorktree, AbortWorktree
  <2>2. doc.status # "active" /\ natives = {} /\ doc.stage \in {"completed", "human-stop"}
    <3>1. doc.status # "active" /\ natives = {}
      BY <1>1, <1>5 DEF MarkWorktree, AbortWorktree, ProcessFits
    <3> QED
      BY <1>1, <3>1 DEF Sound, WellFormed, StageFits, Document
  <2>3. wt' \in WorktreeType /\ wt'.tree = wt.tree
    BY <1>1, <1>5 DEF MarkWorktree, AbortWorktree, WorktreeType
  <2>4. \/ wt' = wt
        \/ wt.record = "active" /\ wt'.record \in {"succeeded", "failed", "aborted"}
    BY <1>1, <1>5 DEF MarkWorktree, AbortWorktree, WorktreeType
  <2>5. Workspace(doc', wt')
    BY <1>1, <2>1, <2>2, <2>3, <2>4 DEF Workspace
  <2>6. co' \in ProcessType /\ co'.pc = "idle"
    BY <2>1, Left
  <2>7. ProcessFits(doc', co', natives')
    BY <1>0, <2>1, <2>2, <2>6 DEF ProcessFits
  <2>8. Holding(doc', wt', natives', co', launches')
    BY <1>0, <1>1, <2>1, <2>3, <2>5, <2>6, <2>7 DEF Holding
  <2> QED
    BY <2>8, HoldsAgain
<1> QED
  BY <1>3, <1>4, <1>5

\* What an operator and the system around the process do: abort, confirm, the
\* end of a worker and of the process.
LEMMA SurroundingsHold ==
    ASSUME MakerCheckerInvariant,
           Abort \/ AbortCreation \/ Confirm \/ NativeEnds \/ Crash
    PROVE  GoesOnHolding
<1> USE DEF At
<1>0. doc # None /\ launches' = launches
  BY DEF MakerCheckerInvariant, Abort, AbortCreation, Confirm, Confirmable, NativeEnds, Crash
<1>1. /\ Sound(doc) /\ doc \in Document /\ Workspace(doc, wt) /\ ProcessFits(doc, co, natives)
      /\ wt \in WorktreeType /\ natives \subseteq Dispatch /\ co \in ProcessType
      /\ launches \in 0 .. MaxLaunches
  BY <1>0, AtWork DEF Holding
<1>2. CASE Abort
  <2>1. /\ doc.status = "active" /\ doc.unsafe = None /\ natives \subseteq {None}
        /\ doc' = doc /\ wt' = wt /\ natives' = natives
    BY <1>1, <1>2 DEF Abort, AbortAllowed, ResumeAllowed, ProcessFits
  <2>2. natives = {}
    BY <1>1, <2>1, AbsentAssumption
  <2>3. co' \in ProcessType /\ co'.pc = "abort"
    BY <1>1, <1>2, Moves DEF Abort
  <2>4. ProcessFits(doc', co', natives')
    BY <2>1, <2>2, <2>3 DEF ProcessFits
  <2>5. Holding(doc', wt', natives', co', launches')
    BY <1>0, <1>1, <2>1, <2>3, <2>4 DEF Holding
  <2> QED
    BY <2>5, HoldsAgain
<1>3. CASE AbortCreation
  <2>1. /\ doc' = doc /\ natives' = natives /\ doc.kind = "code" /\ ~doc.bound
        /\ wt.record = "creating" /\ Unbound(doc) /\ co.pc = "abort"
    BY <1>3 DEF AbortCreation, Creating, Unbound
  <2>2. /\ doc.stage = "setup" /\ doc.status = "active" /\ natives = {} /\ doc.unsafe = None
    BY <1>1, <2>1 DEF Workspace, ProcessFits
  <2>3. CASE wt.dir = "absent"
    <3>1. wt' = [wt EXCEPT !.record = "removed"] /\ co' = co
      BY <1>3, <2>3 DEF AbortCreation
    <3>2. wt' \in WorktreeType /\ wt'.record = "removed"
      BY <1>1, <3>1 DEF WorktreeType
    <3>3. Workspace(doc', wt')
      BY <2>1, <2>2, <3>2 DEF Workspace
    <3>4. Holding(doc', wt', natives', co', launches')
      BY <1>0, <1>1, <2>1, <3>1, <3>2, <3>3 DEF Holding
    <3> QED
      BY <3>4, HoldsAgain
  <2>4. CASE wt.dir # "absent"
    <3>1. wt' = wt /\ (Leave \/ Go("abortAdding"))
      BY <1>3, <2>4 DEF AbortCreation
    <3>2. co' \in ProcessType /\ co'.pc \in {"idle", "abortAdding"}
      BY <1>1, <3>1, Left, Moves
    <3>3. ProcessFits(doc', co', natives')
      BY <2>1, <2>2, <3>2 DEF ProcessFits
    <3>4. Holding(doc', wt', natives', co', launches')
      BY <1>0, <1>1, <2>1, <3>1, <3>2, <3>3 DEF Holding
    <3> QED
      BY <3>4, HoldsAgain
  <2> QED
    BY <2>3, <2>4
<1>4. CASE Confirm
  <2>1. /\ doc.unsafe # None /\ doc.unsafe \notin natives /\ natives \subseteq {doc.unsafe}
        /\ doc.stage # "apply" /\ co.pc = "idle"
        /\ wt' = wt /\ natives' = natives /\ co' = co
    BY <1>1, <1>4 DEF Confirm, Confirmable, ProcessFits
  <2>2. natives = {}
    BY <2>1
  <2>3. Running(doc)
    BY <1>1, <2>1 DEF Sound, WellFormed, MarkerHolds, Running
  <2>4. doc' = [doc EXCEPT !.attempts[Len(doc.attempts)] =
                              [@ EXCEPT !.status = "interrupted", !.proof = TRUE],
                           !.unsafe = None]
    BY <1>4 DEF Confirm
  <2>5. Sound(doc') /\ ~Running(doc')
    BY <1>1, <2>1, <2>3, <2>4, ConfirmedIsSound
  <2>6. /\ doc'.kind = doc.kind /\ doc'.status = doc.status /\ doc'.stage = doc.stage
        /\ doc'.artifact = doc.artifact /\ doc'.pending = doc.pending /\ doc'.unsafe = None
        /\ doc'.bound = doc.bound /\ doc'.checkpoint = doc.checkpoint
    BY <1>1, <2>4 DEF Document
  <2>7. Workspace(doc', wt')
    BY <1>1, <2>1, <2>6 DEF Workspace
  <2>8. ProcessFits(doc', co', natives')
    BY <2>1, <2>2, <2>6 DEF ProcessFits
  <2>9. Holding(doc', wt', natives', co', launches')
    BY <1>0, <1>1, <2>1, <2>5, <2>7, <2>8 DEF Holding
  <2> QED
    BY <2>9, HoldsAgain
<1>5. CASE NativeEnds
  <2>1. /\ doc' = doc /\ wt' = wt /\ co' = co /\ natives' \subseteq natives /\ natives # {}
    BY <1>5 DEF NativeEnds
  <2>2. ProcessFits(doc', co', natives')
    <3>1. co.pc \in {"idle", "waiting", "cancel"}
      BY <1>1, <2>1 DEF ProcessFits, ProcessType
    <3>2. natives \subseteq {doc.unsafe}
      BY <1>1, <3>1 DEF ProcessFits
    <3> QED
      BY <1>1, <2>1, <3>1, <3>2 DEF ProcessFits
  <2>3. Holding(doc', wt', natives', co', launches')
    BY <1>0, <1>1, <2>1, <2>2 DEF Holding
  <2> QED
    BY <2>3, HoldsAgain
<1>6. CASE Crash
  <2>1. /\ doc' = doc /\ wt' = wt /\ natives' = natives /\ co.pc # "idle" /\ Leave
    BY <1>6 DEF Crash
  <2>2. co' \in ProcessType /\ co'.pc = "idle"
    BY <2>1, Left
  <2>3. natives \subseteq {doc.unsafe} /\ (doc.stage = "apply" => doc.unsafe = None)
    <3>1. doc.status # "active" => doc.unsafe = None /\ doc.stage # "apply"
      BY <1>1 DEF Sound, WellFormed, MarkerHolds, StageFits, Document
    <3> QED
      BY <1>1, <2>1, <3>1 DEF ProcessFits, ProcessType
  <2>4. ProcessFits(doc', co', natives')
    BY <2>1, <2>2, <2>3 DEF ProcessFits
  <2>5. Holding(doc', wt', natives', co', launches')
    BY <1>0, <1>1, <2>1, <2>2, <2>4 DEF Holding
  <2> QED
    BY <2>5, HoldsAgain
<1> QED
  BY <1>2, <1>3, <1>4, <1>5, <1>6

\* Every step leaves a document and the invariant.
LEMMA StepsHold ==
    ASSUME MakerCheckerInvariant, Next
    PROVE  GoesOnHolding
<1>1. CASE \/ \E kind \in Kinds : CreateRun(kind)
           \/ ResumeRun
  BY <1>1, ClaimsHold
<1>2. CASE \/ RecordCreating \/ FinishCreating \/ AddWorktree \/ SetupRefused
           \/ BindSetup \/ AlreadySetUp
  BY <1>2, SetupHolds, CreationHolds
<1>3. CASE \/ BeginAttempt \/ SpawnRefused \/ Mark \/ StartNative
  BY <1>3, LaunchesHold
<1>4. CASE \/ Waited \/ WaitBroken \/ Cancel \/ CancelUnconfirmed \/ ClearCancelled
           \/ Collect
  BY <1>4, WaitsHold
<1>5. CASE \/ MakerRefused \/ ReviewRefused
           \/ \E a \in Artifacts : MakerResponse(a)
  BY <1>5, ResponsesHold
<1>6. CASE \/ ApplyPatch \/ PatchRefused \/ TearApply \/ RecordApplied \/ AbortApplied
  BY <1>6, PatchesHold
<1>7. CASE \/ ReviewPass
           \/ \E f \in Findings : ReviewFail(f)
  BY <1>7, VerdictsHold
<1>8. CASE \/ TerminalStop \/ MarkWorktree \/ AbortStop \/ AbortWorktree
  BY <1>8, StopsHold
<1>9. CASE \/ Abort \/ AbortCreation \/ Confirm \/ NativeEnds \/ Crash
  BY <1>9, SurroundingsHold
<1> QED
  BY <1>1, <1>2, <1>3, <1>4, <1>5, <1>6, <1>7, <1>8, <1>9 DEF Next, Step

\* The invariant is inductive.
LEMMA MakerCheckerHolds == Spec => []MakerCheckerInvariant
<1>1. Init => MakerCheckerInvariant
  BY LaunchAssumption
     DEF Init, MakerCheckerInvariant, TypeOK, Idle, NoWorktree, Levels, Progression, At,
         TransportRetries
<1>2. MakerCheckerInvariant /\ [Next]_vars => MakerCheckerInvariant'
  <2> SUFFICES ASSUME MakerCheckerInvariant, [Next]_vars PROVE MakerCheckerInvariant'
    OBVIOUS
  <2>1. CASE Next
    BY <2>1, StepsHold DEF GoesOnHolding
  <2>2. CASE UNCHANGED vars
    BY <2>2 DEF vars, MakerCheckerInvariant, TypeOK, At
  <2> QED
    BY <2>1, <2>2
<1> QED
  BY <1>1, <1>2, PTL DEF Spec

\* Every variable keeps its type.
THEOREM MakerCheckerTyped == Spec => []TypeOK
<1>1. MakerCheckerInvariant => TypeOK
  BY DEF MakerCheckerInvariant
<1> QED
  BY <1>1, MakerCheckerHolds, PTL

\* A worker at work is named by the snapshot, and the snapshot is one that its
\* own validation accepts, wherever the coordinator was interrupted.
THEOREM SnapshotsTellAll == Spec => []SnapshotTellsAll
<1>1. MakerCheckerInvariant => SnapshotTellsAll
  <2> SUFFICES ASSUME MakerCheckerInvariant PROVE SnapshotTellsAll
    OBVIOUS
  <2>1. CASE doc = None
    BY <2>1 DEF MakerCheckerInvariant, SnapshotTellsAll, NativesAreMarked, SnapshotWellFormed
  <2>2. CASE doc # None
    <3>1. /\ Sound(doc) /\ ProcessFits(doc, co, natives) /\ co \in ProcessType
      BY <2>2, AtWork DEF Holding
    <3>2. natives \subseteq {doc.unsafe}
      BY <3>1 DEF ProcessFits, ProcessType
    <3> QED
      BY <2>2, <3>1, <3>2 DEF SnapshotTellsAll, NativesAreMarked, SnapshotWellFormed, Sound
  <2> QED
    BY <2>1, <2>2
<1> QED
  BY <1>1, MakerCheckerHolds, PTL

\* What is under review, and what has passed, is what the owned worktree holds,
\* however its patch was applied.
THEOREM ReviewsAreOfTheTree == Spec => []ReviewedIsApplied
<1>1. MakerCheckerInvariant => ReviewedIsApplied
  <2> SUFFICES ASSUME MakerCheckerInvariant, doc # None, Code,
                      doc.stage \in {"reviewer", "completed"}
               PROVE  wt.tree = doc.artifact
    BY DEF ReviewedIsApplied
  <2> QED
    BY DEF MakerCheckerInvariant, Workspace, Code
<1> QED
  BY <1>1, MakerCheckerHolds, PTL

\* A run at rest can be resumed, into its loop, or aborted, confirmed or
\* archived, but for the three cases the property names.
THEOREM RunsCanGoOn == Spec => []RunsRecoverable
<1>1. MakerCheckerInvariant => RunsRecoverable
  <2> SUFFICES ASSUME MakerCheckerInvariant, At("idle"), doc # None, ~GivenUp,
                      ~(Unbound(doc) /\ Stuck)
               PROVE  IF doc.status # "active" THEN Valid(doc)
                      ELSE \/ doc.stage = "apply" /\ wt.tree = Torn
                           \/ ResumeAllowed(doc) /\ CanBeSetUp
                           \/ doc.unsafe # None /\ Valid(doc)
    BY DEF RunsRecoverable
  <2>1. /\ Sound(doc) /\ doc \in Document /\ Workspace(doc, wt) /\ ProcessFits(doc, co, natives)
    BY AtWork DEF Holding
  <2>2. /\ WellFormed(doc) /\ StageFits(doc) /\ doc.kind \in {"code", "document"}
        /\ doc.status \in {"active", "completed", "aborted"}
    BY <2>1 DEF Sound, WellFormed, Document
  <2>3. CASE doc.status # "active"
    <3>1. WorkspaceHolds(doc)
      BY <2>1, <2>2, <2>3 DEF WorkspaceHolds, Workspace, WorktreeHolds, StageFits, GivenUp,
                              Unbound
    <3> QED
      BY <2>2, <2>3, <3>1 DEF Valid
  <2>4. CASE doc.status = "active" /\ Unbound(doc)
    <3>1. doc.stage = "setup"
      BY <2>1, <2>2, <2>4 DEF Workspace, Unbound, StageFits
    <3>2. doc.unsafe = None
      BY <2>1, <3>1 DEF Sound, WellFormed, MarkerHolds, Honest
    <3>3. CanBeSetUp
      BY <2>1, <2>4, <3>1 DEF CanBeSetUp, Workspace, Unbound, GivenUp
    <3> QED
      BY <2>2, <2>4, <3>1, <3>2, <3>3 DEF ResumeAllowed, RecoverableSetup
  <2>5. CASE doc.status = "active" /\ ~Unbound(doc) /\ ~(doc.stage = "apply" /\ wt.tree = Torn)
    <3>1. WorkspaceHolds(doc)
      BY <2>1, <2>2, <2>5 DEF WorkspaceHolds, Workspace, WorktreeHolds, Unbound
    <3> QED
      BY <2>2, <2>5, <3>1 DEF Valid, ResumeAllowed, CanBeSetUp
  <2> QED
    BY <2>3, <2>4, <2>5
<1> QED
  BY <1>1, MakerCheckerHolds, PTL

---------------------------------------------------------------------------
(* The coordinator implements the loop.                                    *)

\* The number of failed reviews of a document: all its records but the last,
\* and the last one too if its artifact failed.
FailCount(d) == IF d.records # <<>> /\ Last(d.records).verdict # "FAIL"
                THEN Len(d.records) - 1 ELSE Len(d.records)

ReviewsOf(d) == [i \in 1 .. FailCount(d) |-> d.records[i].findings]

PhaseOf(d) == CASE d.status = "completed" -> "passed"
                [] d.status = "aborted" -> "stopped"
                [] d.status = "active" /\ d.stage = "reviewer" -> "reviewing"
                [] OTHER -> "making"

\* Only the last record can be anything but failed.
LEMMA FailedRecords ==
    ASSUME NEW d, Sound(d)
    PROVE  /\ {i \in DOMAIN d.records : d.records[i].verdict = "FAIL"} = 1 .. FailCount(d)
           /\ FailCount(d) \in Nat /\ FailCount(d) <= Len(d.records)
           /\ Len(d.records) \in Nat /\ DOMAIN d.records = 1 .. Len(d.records)
           /\ \A i \in 1 .. FailCount(d) : d.records[i].findings \in Findings
<1> DEFINE m == Len(d.records)
<1>1. d \in Document /\ RecordsHold(d)
  BY DEF Sound, WellFormed
<1>2. /\ DOMAIN d.records = 1 .. m /\ m \in Nat
      /\ d.records # <<>> => m \in 1 .. m
      /\ d.records = <<>> => m = 0
      /\ \A k \in DOMAIN d.records : d.records[k] \in Record
  BY <1>1, DocumentSequences
<1>3. \A k \in 1 .. m : d.records[k].verdict \in {"none", "PASS", "FAIL"}
                        /\ d.records[k].findings \in Findings
  BY <1>2 DEF Record
<1>4. \A k \in 1 .. m : k # m => d.records[k].verdict = "FAIL"
  BY <1>1, <1>2, <1>3 DEF RecordsHold
<1>5. FailCount(d) \in Nat /\ FailCount(d) <= m
  BY <1>2 DEF FailCount
<1>6. {i \in DOMAIN d.records : d.records[i].verdict = "FAIL"} = 1 .. FailCount(d)
  <2>1. CASE d.records = <<>>
    BY <1>2, <2>1 DEF FailCount
  <2>2. CASE d.records # <<>> /\ d.records[m].verdict = "FAIL"
    <3>1. FailCount(d) = m
      BY <2>2 DEF FailCount, Last
    <3> QED
      BY <1>2, <1>4, <2>2, <3>1
  <2>3. CASE d.records # <<>> /\ d.records[m].verdict # "FAIL"
    <3>1. FailCount(d) = m - 1
      BY <2>3 DEF FailCount, Last
    <3> QED
      BY <1>2, <1>4, <2>3, <3>1
  <2> QED
    BY <2>1, <2>2, <2>3
<1> QED
  BY <1>2, <1>3, <1>5, <1>6

\* The failed reviews are counted by their set.
LEMMA FailedReviewsCounted ==
    ASSUME NEW d, Sound(d)
    PROVE  ReviewsOf(d) =
             [i \in 1 .. Cardinality({k \in DOMAIN d.records : d.records[k].verdict = "FAIL"})
                 |-> d.records[i].findings]
<1>1. /\ {i \in DOMAIN d.records : d.records[i].verdict = "FAIL"} = 1 .. FailCount(d)
      /\ FailCount(d) \in Nat
  BY FailedRecords
<1>2. Cardinality(1 .. FailCount(d)) = FailCount(d)
  BY <1>1, FS_Interval
<1> QED
  BY <1>1, <1>2 DEF ReviewsOf

\* What the loop sees of a sound document.
LEMMA LoopView ==
    ASSUME doc # None, Sound(doc)
    PROVE  /\ Phase = PhaseOf(doc)
           /\ Submission = doc.artifact
           /\ FailedReviews = ReviewsOf(doc)
<1>1. FailedReviews = ReviewsOf(doc)
  BY FailedReviewsCounted DEF FailedReviews
<1> QED
  BY <1>1 DEF Phase, PhaseOf, Submission

LEMMA LoopViewNext ==
    ASSUME doc' # None, Sound(doc')
    PROVE  /\ Phase' = PhaseOf(doc')
           /\ Submission' = doc'.artifact
           /\ FailedReviews' = ReviewsOf(doc')
<1>1. FailedReviews' = ReviewsOf(doc')
  BY FailedReviewsCounted DEF FailedReviews
<1> QED
  BY <1>1 DEF Phase, PhaseOf, Submission

\* The failed reviews are a sequence of findings.
LEMMA ReviewsTyped ==
    ASSUME NEW d, Sound(d)
    PROVE  ReviewsOf(d) \in Seq(Findings) /\ Len(ReviewsOf(d)) = FailCount(d)
<1>1. FailCount(d) \in Nat /\ \A i \in 1 .. FailCount(d) : d.records[i].findings \in Findings
  BY FailedRecords
<1>2. ReviewsOf(d) \in [1 .. FailCount(d) -> Findings]
  BY <1>1 DEF ReviewsOf
<1> QED
  BY <1>1, <1>2, SeqDef, LenProperties

\* Documents with the same records have the same failed reviews.
LEMMA SameReviews ==
    ASSUME NEW d, NEW e, d.records = e.records
    PROVE  ReviewsOf(d) = ReviewsOf(e)
  BY DEF ReviewsOf, FailCount

\* A document that differs in nothing the loop can see.
SameRound(d, e) == /\ e.status = d.status /\ e.artifact = d.artifact /\ e.records = d.records
                   /\ e.stage = "reviewer" <=> d.stage = "reviewer"

LEMMA SameRoundStutters ==
    ASSUME doc # None, Sound(doc), doc' # None, Sound(doc'), SameRound(doc, doc')
    PROVE  UNCHANGED Loop!loop
<1>1. PhaseOf(doc') = PhaseOf(doc)
  BY DEF PhaseOf, SameRound
<1>2. ReviewsOf(doc') = ReviewsOf(doc)
  BY SameReviews DEF SameRound
<1> QED
  BY <1>1, <1>2, LoopView, LoopViewNext DEF Loop!loop, SameRound

\* A new run starts the loop again.
LEMMA CreateStarts ==
    ASSUME MakerCheckerInvariant, GoesOnHolding, NEW kind \in Kinds, CreateRun(kind)
    PROVE  Loop!Start
<1>1. /\ doc' = NewDocument(kind) /\ doc' # None /\ Sound(doc')
      /\ doc # None => doc.status # "active"
  BY DEF CreateRun, GoesOnHolding, MakerCheckerInvariant
<1>2. Phase \in {"none", "passed", "stopped"}
  <2>1. CASE doc = None
    BY <2>1 DEF Phase
  <2>2. CASE doc # None
    <3>1. Sound(doc) /\ doc.status \in {"active", "completed", "aborted"}
      BY <2>2 DEF MakerCheckerInvariant, Sound, Document
    <3> QED
      BY <1>1, <2>2, <3>1, LoopView DEF PhaseOf
  <2> QED
    BY <2>1, <2>2
<1>3. /\ doc'.status = "active" /\ doc'.stage = "setup" /\ doc'.artifact = None
      /\ doc'.records = <<>>
  BY <1>1 DEF NewDocument
<1>4. PhaseOf(doc') = "making"
  BY <1>3 DEF PhaseOf
<1>5. ReviewsOf(doc') = <<>>
  <2>1. FailCount(doc') = 0
    BY <1>3, EmptySeq DEF FailCount
  <2> QED
    BY <1>1, <2>1, ReviewsTyped, EmptySeq
<1> QED
  BY <1>1, <1>2, <1>3, <1>4, <1>5, LoopViewNext DEF Loop!Start

\* What an invocation does around the maker and the reviewer leaves the round
\* as it was.
LEMMA AroundTheRound ==
    ASSUME MakerCheckerInvariant, doc # None,
           \/ ResumeRun \/ BindSetup \/ BeginAttempt \/ Mark \/ ClearCancelled \/ Collect
           \/ Confirm
    PROVE  SameRound(doc, doc')
<1>1. doc \in Document /\ Sound(doc)
  BY DEF MakerCheckerInvariant, Sound
<1>2. CASE ResumeRun
  BY <1>1, <1>2 DEF ResumeRun, Document, SameRound
<1>3. CASE BindSetup
  BY <1>1, <1>3 DEF BindSetup, Setup, Document, SameRound
<1>4. CASE BeginAttempt
  BY <1>1, <1>4 DEF BeginAttempt, Begun, Document, SameRound
<1>5. CASE Mark \/ ClearCancelled \/ Collect
  BY <1>1, <1>5 DEF Mark, ClearCancelled, Collect, Document, SameRound
<1>6. CASE Confirm
  BY <1>1, <1>6 DEF Confirm, Document, SameRound
<1> QED
  BY <1>2, <1>3, <1>4, <1>5, <1>6

\* A submitted artifact opens the review: the failed reviews stay what they were.
LEMMA SubmissionSubmits ==
    ASSUME doc # None, Sound(doc), doc' # None, Sound(doc'),
           doc.status = "active", doc.stage \in {"maker", "apply"},
           NEW a \in Artifacts, a # doc.artifact, NEW c, doc' = Submitted(doc, a, c)
    PROVE  Loop!Submit(a)
<1> DEFINE m == Len(doc.records)
           r == [artifact |-> a, maker |-> Len(doc.attempts), reviewer |-> 0,
                 verdict |-> "none", findings |-> NoFindings]
<1>1. doc \in Document /\ RecordsHold(doc) /\ doc' \in Document
  BY DEF Sound, WellFormed
<1>2. /\ doc'.status = "active" /\ doc'.stage = "reviewer" /\ doc'.artifact = a
      /\ doc'.records = Append(doc.records, r)
  BY <1>1 DEF Submitted, Document
<1>3. /\ doc.records \in Seq(Record) /\ DOMAIN doc.records = 1 .. m /\ m \in Nat
      /\ doc.records # <<>> => m \in 1 .. m
  BY <1>1, DocumentSequences
<1>4. r \in Record
  <2>1. doc'.records \in Seq(Record)
    BY <1>1, DocumentSequences
  <2>2. Len(doc'.records) = m + 1 /\ doc'.records[m + 1] = r
    <3> HIDE DEF r
    <3> QED
      BY <1>2, <1>3
  <2> QED
    BY <1>3, <2>1, <2>2, ElementOfSeq
<1>5. /\ doc'.records # <<>> /\ Len(doc'.records) = m + 1 /\ doc'.records[m + 1] = r
      /\ \A i \in 1 .. m : doc'.records[i] = doc.records[i]
  <2> HIDE DEF r
  <2> QED
    BY <1>2, <1>3, <1>4, AppendProperties
<1>6. FailCount(doc') = m
  <2>1. Last(doc'.records).verdict = "none"
    BY <1>5 DEF Last
  <2> QED
    BY <1>3, <1>5, <2>1 DEF FailCount
<1>7. FailCount(doc) = m
  <2>1. doc.records # <<>> => Last(doc.records).verdict \notin {"none", "PASS"}
    BY <1>1, <1>3 DEF RecordsHold, Last
  <2>2. doc.records # <<>> => Last(doc.records) \in Record
    BY <1>3, ElementOfSeq DEF Last
  <2> QED
    BY <2>1, <2>2 DEF FailCount, Record
<1>8. ReviewsOf(doc') = ReviewsOf(doc)
  <2>1. \A i \in 1 .. m : doc'.records[i].findings = doc.records[i].findings
    BY <1>5
  <2> QED
    BY <1>6, <1>7, <2>1 DEF ReviewsOf
<1>9. PhaseOf(doc) = "making" /\ PhaseOf(doc') = "reviewing"
  BY <1>2 DEF PhaseOf
<1> QED
  BY <1>2, <1>8, <1>9, LoopView, LoopViewNext DEF Loop!Submit

\* The maker's response submits a document, and only prepares a patch.
LEMMA ResponseSubmits ==
    ASSUME MakerCheckerInvariant, GoesOnHolding, NEW a \in Artifacts, MakerResponse(a)
    PROVE  Loop!Submit(a) \/ UNCHANGED Loop!loop
<1>1. doc # None /\ Sound(doc) /\ doc \in Document
  BY DEF MakerCheckerInvariant, MakerResponse, At, Sound
<1>2. doc' # None /\ Sound(doc')
  BY DEF GoesOnHolding, MakerCheckerInvariant
<1>3. doc.stage = "maker" /\ a # doc.artifact /\ doc.status = "active"
  <2>1. doc.stage = "maker" /\ a # doc.artifact
    BY DEF MakerResponse
  <2> QED
    BY <1>1, <2>1 DEF Sound, WellFormed, StageFits, Document
<1>4. CASE Code
  <2>1. doc' = [doc EXCEPT !.stage = "apply", !.findings = NoFindings, !.pending = a]
    BY <1>4 DEF MakerResponse
  <2>2. SameRound(doc, doc')
    BY <1>1, <1>3, <2>1 DEF SameRound, Document
  <2> QED
    BY <1>1, <1>2, <2>2, SameRoundStutters
<1>5. CASE ~Code
  <2>1. doc' = Submitted(doc, a, None)
    BY <1>5 DEF MakerResponse
  <2> QED
    BY <1>1, <1>2, <1>3, <2>1, SubmissionSubmits
<1> QED
  BY <1>4, <1>5

\* An applied patch is submitted when it is recorded, by a resume or an abort.
LEMMA AppliedSubmits ==
    ASSUME MakerCheckerInvariant, GoesOnHolding, RecordApplied \/ AbortApplied
    PROVE  (\E a \in Artifacts : Loop!Submit(a)) \/ UNCHANGED Loop!loop
<1>1. doc # None /\ Sound(doc) /\ doc \in Document
  BY DEF MakerCheckerInvariant, RecordApplied, AbortApplied, At, Sound
<1>2. doc' # None /\ Sound(doc')
  BY DEF GoesOnHolding, MakerCheckerInvariant
<1>3. doc.stage = "apply"
  BY <1>1 DEF MakerCheckerInvariant, RecordApplied, AbortApplied, PatchApplied, ProcessFits, At
<1>4. /\ doc.status = "active" /\ doc.pending \in Artifacts /\ doc.pending # doc.artifact
  BY <1>1, <1>3 DEF Sound, WellFormed, StageFits, IntentHolds, Honest, Document
<1>5. CASE wt.tree = doc.pending
  <2> DEFINE c == wt.tree
             a == doc.pending
  <2>1. doc' = Submitted(doc, a, c)
    BY <1>5 DEF RecordApplied, AbortApplied
  <2>2. a \in Artifacts /\ a # doc.artifact
    BY <1>4
  <2> HIDE DEF c, a
  <2>3. Loop!Submit(a)
    BY <1>1, <1>2, <1>3, <1>4, <2>1, <2>2, SubmissionSubmits
  <2> QED
    BY <2>2, <2>3
<1>6. CASE wt.tree # doc.pending
  <2>1. doc' = doc
    BY <1>6 DEF RecordApplied, AbortApplied
  <2>2. SameRound(doc, doc')
    BY <2>1 DEF SameRound
  <2> QED
    BY <1>1, <1>2, <2>2, SameRoundStutters
<1> QED
  BY <1>5, <1>6

\* The review at hand: it judges the last record, every other one has failed.
LEMMA JudgedRound ==
    ASSUME NEW d, Sound(d), Running(d), d.stage = "reviewer",
           NEW verdict \in {"PASS", "FAIL"}, NEW f \in Findings,
           NEW e, Sound(e), e.records = Reviewed(d, verdict, f).records
    PROVE  /\ d.status = "active" /\ d.iteration = FailCount(d) + 1
           /\ \A i \in 1 .. FailCount(d) : ReviewsOf(d)[i] = d.records[i].findings
           /\ verdict = "PASS" => ReviewsOf(e) = ReviewsOf(d)
           /\ verdict = "FAIL" => ReviewsOf(e) = Append(ReviewsOf(d), f)
<1> DEFINE m == Len(d.records)
           rs == e.records
<1>1. /\ rs \in Seq(Record) /\ Len(rs) = m /\ DOMAIN rs = 1 .. m
      /\ m \in Nat \ {0} /\ m = d.iteration /\ d.status = "active"
      /\ \A i \in 1 .. m - 1 : rs[i] = d.records[i]
      /\ rs[m].verdict = verdict /\ rs[m].findings = f
  <2> DEFINE qs == rs
  <2>1. qs = Reviewed(d, verdict, f).records
    OBVIOUS
  <2> HIDE DEF qs
  <2>2. /\ qs \in Seq(Record) /\ Len(qs) = Len(d.records) /\ DOMAIN qs = 1 .. Len(d.records)
        /\ Len(d.records) \in Nat \ {0} /\ Len(d.records) = d.iteration
        /\ d.status = "active"
        /\ \A i \in 1 .. Len(d.records) - 1 : qs[i] = d.records[i]
        /\ qs[Len(d.records)].verdict = verdict
        /\ qs[Len(d.records)].findings = f
    BY <2>1, ReviewedRecords
  <2> QED
    BY <2>2 DEF qs
<1>2. d.records # <<>> /\ rs # <<>>
  BY <1>1, EmptySeq
<1>3. FailCount(d) = m - 1
  <2>1. Last(d.records).verdict = "none"
    BY DEF Sound, Honest
  <2> QED
    BY <1>2, <2>1 DEF FailCount
<1>4. FailCount(e) = IF verdict = "FAIL" THEN m ELSE m - 1
  BY <1>1, <1>2 DEF FailCount, Last
<1>5. \A i \in 1 .. m - 1 : rs[i].findings = d.records[i].findings
  BY <1>1
<1>6. ASSUME verdict = "PASS" PROVE ReviewsOf(e) = ReviewsOf(d)
  BY <1>3, <1>4, <1>5, <1>6 DEF ReviewsOf
<1>7. ASSUME verdict = "FAIL" PROVE ReviewsOf(e) = Append(ReviewsOf(d), f)
  <2>1. /\ ReviewsOf(d) \in Seq(Findings) /\ Len(ReviewsOf(d)) = m - 1
        /\ ReviewsOf(e) \in Seq(Findings) /\ Len(ReviewsOf(e)) = m
    BY <1>1, <1>3, <1>4, <1>7, ReviewsTyped
  <2>2. /\ Append(ReviewsOf(d), f) \in Seq(Findings)
        /\ Len(Append(ReviewsOf(d), f)) = m
        /\ Append(ReviewsOf(d), f)[m] = f
        /\ \A i \in 1 .. m - 1 : Append(ReviewsOf(d), f)[i] = ReviewsOf(d)[i]
    <3> DEFINE s == ReviewsOf(d)
    <3>1. s \in Seq(Findings) /\ Len(s) = m - 1
      BY <2>1
    <3> HIDE DEF s
    <3>2. /\ Append(s, f) \in Seq(Findings) /\ Len(Append(s, f)) = m
          /\ Append(s, f)[m] = f /\ \A i \in 1 .. m - 1 : Append(s, f)[i] = s[i]
      BY <1>1, <3>1, AppendProperties
    <3> QED
      BY <3>2 DEF s
  <2>3. /\ \A i \in 1 .. m - 1 : ReviewsOf(d)[i] = d.records[i].findings
        /\ \A i \in 1 .. m : ReviewsOf(e)[i] = rs[i].findings
    BY <1>3, <1>4, <1>7 DEF ReviewsOf
  <2>4. \A i \in 1 .. m : ReviewsOf(e)[i] = Append(ReviewsOf(d), f)[i]
    <3> SUFFICES ASSUME NEW i \in 1 .. m
                 PROVE  ReviewsOf(e)[i] = Append(ReviewsOf(d), f)[i]
      OBVIOUS
    <3>1. CASE i = m
      BY <1>1, <2>2, <2>3, <3>1
    <3>2. CASE i # m
      <4>1. i \in 1 .. m - 1
        BY <1>1, <3>2
      <4> QED
        BY <1>5, <2>2, <2>3, <4>1
    <3> QED
      BY <3>1, <3>2
  <2> QED
    BY <2>1, <2>2, <2>4, SeqEqual
<1>8. \A i \in 1 .. FailCount(d) : ReviewsOf(d)[i] = d.records[i].findings
  BY DEF ReviewsOf
<1> QED
  BY <1>1, <1>3, <1>6, <1>7, <1>8

\* A PASS passes the run.
LEMMA PassPasses ==
    ASSUME MakerCheckerInvariant, GoesOnHolding, ReviewPass
    PROVE  Loop!Pass
<1> DEFINE r == Reviewed(doc, "PASS", NoFindings)
<1>1. doc # None /\ Sound(doc) /\ doc \in Document /\ Running(doc) /\ doc.stage = "reviewer"
  BY DEF MakerCheckerInvariant, ReviewPass, ProcessFits, At, Sound
<1>2. doc' # None /\ Sound(doc')
  BY DEF GoesOnHolding, MakerCheckerInvariant
<1>3. NoFindings \in Findings
  BY DEF NoFindings, Findings
<1>4. r \in Document
  <2> DEFINE p == "PASS"
  <2>1. p \in {"PASS", "FAIL"} /\ r = Reviewed(doc, p, NoFindings)
    OBVIOUS
  <2> HIDE DEF p, r
  <2> QED
    BY <1>1, <1>3, <2>1, ReviewedIsDocument
<1>5. r.artifact = doc.artifact
  BY <1>1 DEF Reviewed, Document
<1>6. /\ doc'.records = r.records /\ doc'.artifact = doc.artifact
      /\ doc'.status = "completed"
  <2> HIDE DEF r
  <2>1. doc' = [r EXCEPT !.status = "completed", !.stage = "completed"]
    BY DEF ReviewPass, r
  <2> QED
    BY <1>4, <1>5, <2>1 DEF Document
<1>7. doc.status = "active" /\ ReviewsOf(doc') = ReviewsOf(doc)
  <2> DEFINE p == "PASS"
             e == doc'
  <2>1. p \in {"PASS", "FAIL"} /\ p = "PASS" /\ Sound(e)
        /\ e.records = Reviewed(doc, p, NoFindings).records
    BY <1>2, <1>6
  <2> HIDE DEF p, e
  <2>2. doc.status = "active" /\ (p = "PASS" => ReviewsOf(e) = ReviewsOf(doc))
    BY <1>1, <1>3, <2>1, JudgedRound
  <2> QED
    BY <2>1, <2>2 DEF e
<1>8. PhaseOf(doc) = "reviewing" /\ PhaseOf(doc') = "passed"
  BY <1>1, <1>6, <1>7 DEF PhaseOf
<1> QED
  BY <1>1, <1>2, <1>6, <1>7, <1>8, LoopView, LoopViewNext DEF Loop!Pass

\* A FAIL fails the review, and the run goes on exactly when the loop does.
LEMMA FailFails ==
    ASSUME MakerCheckerInvariant, GoesOnHolding, NEW f \in Findings, ReviewFail(f)
    PROVE  Loop!Fail(f)
<1> DEFINE r == Reviewed(doc, "FAIL", f)
           m == FailCount(doc)
<1>1. /\ doc # None /\ Sound(doc) /\ doc \in Document /\ Running(doc)
      /\ doc.stage = "reviewer" /\ Cited(f) # {}
  BY DEF MakerCheckerInvariant, ReviewFail, ProcessFits, At, Sound
<1>2. doc' # None /\ Sound(doc')
  BY DEF GoesOnHolding, MakerCheckerInvariant
<1>3. r \in Document
  <2> DEFINE p == "FAIL"
  <2>1. p \in {"PASS", "FAIL"} /\ r = Reviewed(doc, p, f)
    OBVIOUS
  <2> HIDE DEF p, r
  <2> QED
    BY <1>1, <2>1, ReviewedIsDocument
<1>4. r.artifact = doc.artifact /\ r.status = doc.status
  BY <1>1 DEF Reviewed, Document
<1>5. /\ doc'.records = r.records /\ doc'.artifact = doc.artifact
      /\ doc'.status = IF Exhausted(doc, f) THEN "aborted" ELSE doc.status
      /\ ~Exhausted(doc, f) => doc'.stage = "maker"
  <2>1. IF Exhausted(doc, f)
        THEN doc' = Ended(r, "succeeded", TRUE, Checkpoint(r)) /\ Go("mark")
        ELSE doc' = [r EXCEPT !.stage = "maker", !.iteration = @ + 1] /\ Go("loop")
    BY DEF ReviewFail
  <2> HIDE DEF r
  <2>2. CASE Exhausted(doc, f)
    <3>1. doc' = Ended(r, "succeeded", TRUE, Checkpoint(r))
      BY <2>1, <2>2
    <3> QED
      BY <1>3, <1>4, <2>2, <3>1 DEF Document, Ended
  <2>3. CASE ~Exhausted(doc, f)
    <3>1. doc' = [r EXCEPT !.stage = "maker", !.iteration = @ + 1]
      BY <2>1, <2>3
    <3> QED
      BY <1>3, <1>4, <2>3, <3>1 DEF Document
  <2> QED
    BY <2>2, <2>3
<1>6. /\ doc.status = "active" /\ doc.iteration = m + 1
      /\ \A i \in 1 .. m : ReviewsOf(doc)[i] = doc.records[i].findings
      /\ ReviewsOf(doc') = Append(ReviewsOf(doc), f)
  <2> DEFINE p == "FAIL"
             e == doc'
  <2>1. p \in {"PASS", "FAIL"} /\ p = "FAIL" /\ Sound(e)
        /\ e.records = Reviewed(doc, p, f).records
    BY <1>2, <1>5
  <2> HIDE DEF p, e
  <2>2. /\ doc.status = "active" /\ doc.iteration = FailCount(doc) + 1
        /\ \A i \in 1 .. FailCount(doc) : ReviewsOf(doc)[i] = doc.records[i].findings
        /\ (p = "FAIL" => ReviewsOf(e) = Append(ReviewsOf(doc), f))
    BY <1>1, <2>1, JudgedRound
  <2> QED
    BY <2>1, <2>2 DEF e
<1>7. /\ m \in Nat /\ Len(ReviewsOf(doc)) = m /\ ReviewsOf(doc) \in Seq(Findings)
      /\ ReviewsOf(doc) # <<>> <=> m > 0
  BY <1>1, FailedRecords, ReviewsTyped, EmptySeq
<1>8. Phase = "reviewing" /\ Submission = doc.artifact /\ FailedReviews = ReviewsOf(doc)
  BY <1>1, <1>6, LoopView DEF PhaseOf
<1>9. Loop!Continues(f) <=> ~Exhausted(doc, f)
  <2>1. m > 0 => ReviewsOf(doc)[m] = doc.records[doc.iteration - 1].findings
    BY <1>6, <1>7
  <2>2. Loop!Continues(f) <=> /\ m < MaxRevisions
                              /\ m > 0 => Progress(ReviewsOf(doc)[m], f)
    BY <1>7, <1>8 DEF Loop!Continues, Loop!Progress, Loop!Cited, Progress, Cited
  <2>3. Exhausted(doc, f) <=> \/ m > 0 /\ ~Progress(doc.records[doc.iteration - 1].findings, f)
                              \/ m + 1 > MaxRevisions
    BY <1>6, <1>7 DEF Exhausted
  <2> QED
    BY <1>7, <2>1, <2>2, <2>3
<1>10. Phase' = IF Loop!Continues(f) THEN "making" ELSE "stopped"
  BY <1>2, <1>5, <1>6, <1>9, LoopViewNext DEF PhaseOf
<1>11. Loop!Cited(f) # {}
  BY <1>1 DEF Loop!Cited, Cited
<1> QED
  BY <1>1, <1>2, <1>5, <1>6, <1>8, <1>10, <1>11, LoopViewNext DEF Loop!Fail

\* A run that is ended, by its own failure or by an abort, stops where it was.
LEMMA EndingStops ==
    ASSUME MakerCheckerInvariant, GoesOnHolding, TerminalStop \/ AbortStop
    PROVE  Loop!Stop
<1>1. doc # None /\ Sound(doc) /\ doc \in Document
  BY DEF MakerCheckerInvariant, TerminalStop, AbortStop, At, Sound
<1>2. doc' # None /\ Sound(doc')
  BY DEF GoesOnHolding, MakerCheckerInvariant
<1>3. doc.status = "active"
  <2>1. CASE TerminalStop
    <3>1. Running(doc)
      BY <1>1, <2>1 DEF MakerCheckerInvariant, TerminalStop, ProcessFits, At
    <3> QED
      BY <1>1, <3>1, DocumentSequences DEF Sound, WellFormed, AttemptsHold, Running, Last
  <2>2. CASE AbortStop
    BY <1>1, <2>2 DEF MakerCheckerInvariant, AbortStop, ProcessFits, At
  <2> QED
    BY <2>1, <2>2
<1>4. doc'.status = "aborted" /\ doc'.artifact = doc.artifact /\ doc'.records = doc.records
  <2>1. CASE TerminalStop
    BY <1>1, <2>1 DEF TerminalStop, Ended, Document
  <2>2. CASE AbortStop
    BY <1>1, <2>2 DEF AbortStop, Ended, Folded, Document
  <2> QED
    BY <2>1, <2>2
<1>5. ReviewsOf(doc') = ReviewsOf(doc)
  BY <1>4, SameReviews
<1>6. PhaseOf(doc) \in {"making", "reviewing"} /\ PhaseOf(doc') = "stopped"
  BY <1>3, <1>4 DEF PhaseOf
<1> QED
  BY <1>1, <1>2, <1>4, <1>5, <1>6, LoopView, LoopViewNext DEF Loop!Stop

\* Every step of the coordinator, whatever is interrupted and resumed, is a step
\* of the loop or changes nothing it can see.
THEOREM CoordinatorKeepsTheLoop == Spec => ImplementsLoop
<1>1. Init => Loop!LoopInit
  <2> SUFFICES ASSUME Init PROVE Loop!LoopInit
    OBVIOUS
  <2> QED
    BY DEF Init, Loop!LoopInit, Phase, Submission, FailedReviews
<1>2. MakerCheckerInvariant /\ [Next]_vars => [Loop!LoopNext]_(Loop!loop)
  <2> SUFFICES ASSUME MakerCheckerInvariant, [Next]_vars
               PROVE  Loop!LoopNext \/ UNCHANGED Loop!loop
    OBVIOUS
  <2>1. CASE UNCHANGED doc
    BY <2>1 DEF Loop!loop, Phase, Submission, FailedReviews
  <2>2. CASE Next /\ ~(UNCHANGED doc)
    <3>1. GoesOnHolding
      BY <2>2, StepsHold
    <3>2. CASE \E kind \in Kinds : CreateRun(kind)
      BY <3>1, <3>2, CreateStarts DEF Loop!LoopNext
    <3>3. CASE \/ ResumeRun \/ BindSetup \/ BeginAttempt \/ Mark \/ ClearCancelled
               \/ Collect \/ Confirm
      <4>1. doc # None
        BY <3>3 DEF MakerCheckerInvariant, ResumeRun, BindSetup, Setup, BeginAttempt, Mark,
                    ClearCancelled, Collect, Confirm, Confirmable, At
      <4>2. SameRound(doc, doc')
        BY <3>3, <4>1, AroundTheRound
      <4> QED
        BY <3>1, <4>1, <4>2, SameRoundStutters DEF MakerCheckerInvariant, GoesOnHolding
    <3>4. CASE \E a \in Artifacts : MakerResponse(a)
      BY <3>1, <3>4, ResponseSubmits DEF Loop!LoopNext
    <3>5. CASE RecordApplied \/ AbortApplied
      BY <3>1, <3>5, AppliedSubmits DEF Loop!LoopNext
    <3>6. CASE ReviewPass
      BY <3>1, <3>6, PassPasses DEF Loop!LoopNext
    <3>7. CASE \E f \in Findings : ReviewFail(f)
      <4>1. PICK f \in Findings : ReviewFail(f)
        BY <3>7
      <4>2. Loop!Fail(f) /\ f \in Loop!Findings
        BY <3>1, <4>1, FailFails DEF Loop!Findings, Findings
      <4> QED
        BY <4>2 DEF Loop!LoopNext
    <3>8. CASE TerminalStop \/ AbortStop
      BY <3>1, <3>8, EndingStops DEF Loop!LoopNext
    <3>9. CASE \/ RecordCreating \/ FinishCreating \/ AddWorktree \/ SetupRefused \/ AlreadySetUp
               \/ SpawnRefused \/ StartNative \/ Waited \/ WaitBroken \/ Cancel
               \/ CancelUnconfirmed \/ MakerRefused \/ ReviewRefused \/ ApplyPatch
               \/ PatchRefused \/ MarkWorktree \/ AbortCreation \/ AbortWorktree
               \/ Abort \/ NativeEnds \/ TearApply \/ Crash
      <4>1. UNCHANGED doc
        BY <3>9 DEF RecordCreating, FinishCreating, AddWorktree, SetupRefused, AlreadySetUp,
                    SpawnRefused, StartNative, Waited, WaitBroken, Cancel, CancelUnconfirmed, MakerRefused,
                    ReviewRefused, Refused, ApplyPatch, PatchRefused, MarkWorktree,
                    AbortCreation, AbortWorktree, Abort, NativeEnds, TearApply, Crash
      <4> QED
        BY <2>2, <4>1
    <3> QED
      BY <2>2, <3>2, <3>3, <3>4, <3>5, <3>6, <3>7, <3>8, <3>9 DEF Next, Step
  <2> QED
    BY <2>1, <2>2 DEF vars
<1> QED
  BY <1>1, <1>2, MakerCheckerHolds, PTL DEF Spec, ImplementsLoop, Loop!LoopSpec

---------------------------------------------------------------------------
(* What the loop promises of its budget.  The proofs use its actions only. *)

\* Progress is a strict order: it composes.
LEMMA ProgressComposes ==
    ASSUME NEW f \in Loop!Findings, NEW g \in Loop!Findings, NEW h \in Loop!Findings,
           Loop!Progress(f, g), Loop!Progress(g, h)
    PROVE  Loop!Progress(f, h)
<1>1. \A b \in Blockers : f[b] \in Nat /\ g[b] \in Nat /\ h[b] \in Nat
  BY DEF Loop!Findings
<1> QED
  BY <1>1 DEF Loop!Progress, Loop!Cited

\* The loop's variables keep their types.
LEMMA LoopTyped == Loop!LoopSpec => []Loop!LoopTypeOK
<1>1. Loop!LoopInit => Loop!LoopTypeOK
  BY EmptySeq DEF Loop!LoopInit, Loop!LoopTypeOK
<1>2. Loop!LoopTypeOK /\ [Loop!LoopNext]_(Loop!loop) => Loop!LoopTypeOK'
  <2> SUFFICES ASSUME Loop!LoopTypeOK, [Loop!LoopNext]_(Loop!loop) PROVE Loop!LoopTypeOK'
    OBVIOUS
  <2>1. CASE Loop!Start
    BY <2>1, EmptySeq DEF Loop!Start, Loop!LoopTypeOK
  <2>2. ASSUME NEW a \in Artifacts, Loop!Submit(a) PROVE Loop!LoopTypeOK'
    BY <2>2 DEF Loop!Submit, Loop!LoopTypeOK
  <2>3. CASE Loop!Pass \/ Loop!Stop \/ UNCHANGED Loop!loop
    BY <2>3 DEF Loop!Pass, Loop!Stop, Loop!loop, Loop!LoopTypeOK
  <2>4. ASSUME NEW f \in Loop!Findings, Loop!Fail(f) PROVE Loop!LoopTypeOK'
    BY <2>4, AppendProperties DEF Loop!Fail, Loop!LoopTypeOK
  <2> QED
    BY <2>1, <2>2, <2>3, <2>4 DEF Loop!LoopNext
<1> QED
  BY <1>1, <1>2, PTL DEF Loop!LoopSpec

\* At most one review more fails than there are revisions, and while the run
\* goes on there is a revision left for each failed review.
THEOREM BudgetIsKept == Loop!LoopSpec => []Loop!WithinBudget
<1>1. Loop!LoopInit => Loop!WithinBudget
  BY EmptySeq DEF Loop!LoopInit, Loop!WithinBudget
<1>2. Loop!LoopTypeOK /\ Loop!WithinBudget /\ [Loop!LoopNext]_(Loop!loop)
        => Loop!WithinBudget'
  <2> SUFFICES ASSUME Loop!LoopTypeOK, Loop!WithinBudget, [Loop!LoopNext]_(Loop!loop)
               PROVE  Loop!WithinBudget'
    OBVIOUS
  <2>1. CASE Loop!Start
    BY <2>1, EmptySeq DEF Loop!Start, Loop!WithinBudget
  <2>2. ASSUME NEW a \in Artifacts, Loop!Submit(a) PROVE Loop!WithinBudget'
    BY <2>2 DEF Loop!Submit, Loop!WithinBudget
  <2>3. CASE Loop!Pass \/ Loop!Stop \/ UNCHANGED Loop!loop
    BY <2>3 DEF Loop!Pass, Loop!Stop, Loop!loop, Loop!WithinBudget
  <2>4. ASSUME NEW f \in Loop!Findings, Loop!Fail(f) PROVE Loop!WithinBudget'
    <3>1. Len(FailedReviews') = Len(FailedReviews) + 1 /\ Len(FailedReviews) \in Nat
      BY <2>4, AppendProperties, LenProperties DEF Loop!Fail, Loop!LoopTypeOK
    <3> QED
      BY <2>4, <3>1 DEF Loop!Fail, Loop!Continues, Loop!WithinBudget
  <2> QED
    BY <2>1, <2>2, <2>3, <2>4 DEF Loop!LoopNext
<1> QED
  BY <1>1, <1>2, LoopTyped, PTL DEF Loop!LoopSpec

\* The reviews answered by another round cite less and less, so that a run
\* ends whatever its budget.
THEOREM ReviewsShrink == Loop!LoopSpec => []Loop!Shrinking
<1>1. Loop!LoopInit => Loop!Shrinking
  BY EmptySeq DEF Loop!LoopInit, Loop!Shrinking
<1>2. Loop!LoopTypeOK /\ Loop!Shrinking /\ [Loop!LoopNext]_(Loop!loop) => Loop!Shrinking'
  <2> SUFFICES ASSUME Loop!LoopTypeOK, Loop!Shrinking, [Loop!LoopNext]_(Loop!loop)
               PROVE  Loop!Shrinking'
    OBVIOUS
  <2>0. Len(FailedReviews) \in Nat
    BY LenProperties DEF Loop!LoopTypeOK
  <2>1. CASE Loop!Start
    BY <2>1, EmptySeq DEF Loop!Start, Loop!Shrinking
  <2>2. ASSUME NEW a \in Artifacts, Loop!Submit(a) PROVE Loop!Shrinking'
    BY <2>2 DEF Loop!Submit, Loop!Shrinking
  <2>3. CASE Loop!Pass \/ Loop!Stop \/ UNCHANGED Loop!loop
    BY <2>3 DEF Loop!Pass, Loop!Stop, Loop!loop, Loop!Shrinking
  <2>4. ASSUME NEW f \in Loop!Findings, Loop!Fail(f) PROVE Loop!Shrinking'
    <3>1. /\ Len(FailedReviews') = Len(FailedReviews) + 1
          /\ \A i \in 1 .. Len(FailedReviews) : FailedReviews'[i] = FailedReviews[i]
          /\ FailedReviews'[Len(FailedReviews) + 1] = f
      BY <2>4, AppendProperties DEF Loop!Fail, Loop!LoopTypeOK
    <3>2. \A i \in 1 .. Len(FailedReviews) : FailedReviews[i] \in Loop!Findings
      BY ElementOfSeq DEF Loop!LoopTypeOK
    <3>3. ASSUME NEW i \in 1 .. Len(FailedReviews), Loop!Continues(f)
          PROVE  Loop!Progress(FailedReviews[i], f)
      <4>1. FailedReviews # <<>> /\ Loop!Progress(FailedReviews[Len(FailedReviews)], f)
        BY <2>0, <3>3, EmptySeq DEF Loop!Continues, Loop!LoopTypeOK
      <4>2. i # Len(FailedReviews) =>
               Loop!Progress(FailedReviews[i], FailedReviews[Len(FailedReviews)])
        BY <2>0, <2>4, <3>3 DEF Loop!Shrinking, Loop!Fail
      <4> QED
        BY <2>0, <3>2, <3>3, <4>1, <4>2, ProgressComposes
    <3>4. ASSUME NEW i \in 1 .. Len(FailedReviews'), NEW j \in 1 .. Len(FailedReviews'), i < j,
                 j < Len(FailedReviews') \/ Phase' \in {"making", "reviewing", "passed"}
          PROVE  Loop!Progress(FailedReviews'[i], FailedReviews'[j])
      <4>1. CASE j = Len(FailedReviews) + 1
        <5>1. Loop!Continues(f) /\ i \in 1 .. Len(FailedReviews)
          BY <2>0, <2>4, <3>1, <3>4, <4>1 DEF Loop!Fail
        <5> QED
          BY <3>1, <3>3, <4>1, <5>1
      <4>2. CASE j \in 1 .. Len(FailedReviews)
        BY <2>0, <2>4, <3>1, <3>4, <4>2 DEF Loop!Shrinking, Loop!Fail
      <4> QED
        BY <2>0, <3>1, <4>1, <4>2
    <3> QED
      BY <3>4 DEF Loop!Shrinking
  <2> QED
    BY <2>1, <2>2, <2>3, <2>4 DEF Loop!LoopNext
<1> QED
  BY <1>1, <1>2, LoopTyped, PTL DEF Loop!LoopSpec

\* So the coordinator keeps the budget of its policy and its reviews shrink,
\* however often it was killed, resumed or aborted on the way.
THEOREM CoordinatorKeepsItsBudget == Spec => [](Loop!WithinBudget /\ Loop!Shrinking)
  BY CoordinatorKeepsTheLoop, BudgetIsKept, ReviewsShrink, PTL DEF ImplementsLoop
=============================================================================
