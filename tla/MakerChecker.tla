----------------------------- MODULE MakerChecker -----------------------------
(***************************************************************************)
(* The maker-checker coordinator of maker_checker.py: run, resume, abort   *)
(* and confirm over one snapshot, one worktree record of WorktreeManager   *)
(* and the native workers, which outlive a coordinator that dies.  Every   *)
(* invocation holds the managed execution lease (WorkflowExecutor), so     *)
(* one process at a time takes the steps below; a step ends where the      *)
(* process writes something durable or calls the dispatcher, and the       *)
(* process may be killed, or raise, between any two steps.                 *)
(*                                                                         *)
(* Evidence files, digests and routes are left out: an artifact, a review  *)
(* and an attempt are named by what they are.  Nobody else writes in the   *)
(* owned worktree; a kill in the middle of git apply tears it.             *)
(***************************************************************************)
EXTENDS Reviews

CONSTANTS Kinds,       \* deliverable kinds asked for: "code", "document"
          Clean,       \* content of the worktree at its base commit
          Torn,        \* any content that is no artifact
          MaxLaunches  \* bound: invocations of run and resume

ASSUME KindAssumption == Kinds \subseteq {"code", "document"}
ASSUME TreeAssumption == /\ Cardinality({Clean, Torn, None}) = 3
                         /\ {Clean, Torn} \cap Artifacts = {}
ASSUME LaunchAssumption == MaxLaunches \in Nat

VARIABLES doc,      \* the snapshot
          wt,       \* the ownership record, directory and content of the worktree
          natives,  \* native workers at work, named by attempt and dispatch attempt
          co,       \* the process that holds the lease
          launches  \* invocations of run and resume so far

vars == <<doc, wt, natives, co, launches>>

TransportRetries == 1

Dispatch == [attempt : Nat \ {0}, n : 1 .. TransportRetries + 1]

\* output: the attempt cites the worker's response; proof: an operator
\* confirmed that its worker had ended.
Attempt == [slot : {"maker", "reviewer"}, iteration : Nat \ {0},
            status : {"running", "succeeded", "failed", "interrupted"},
            output : BOOLEAN, proof : BOOLEAN]

\* An iteration names the attempts that made and reviewed its artifact.
Record == [artifact : Artifacts, maker : Nat \ {0}, reviewer : Nat,
           verdict : {"none", "PASS", "FAIL"}, findings : Findings]

Document == [kind : {"code", "document"}, status : {"active", "completed", "aborted"},
             stage : {"setup", "maker", "apply", "reviewer", "completed", "human-stop"},
             iteration : Nat \ {0}, attempts : Seq(Attempt), records : Seq(Record),
             findings : Findings, artifact : Artifacts \cup {None},
             pending : Artifacts \cup {None}, unsafe : Dispatch \cup {None},
             bound : BOOLEAN, checkpoint : Artifacts \cup {Clean, Torn, None}]

ASSUME AbsentAssumption == None \notin Document \cup Dispatch

NoFindings == [b \in Blockers |-> 0]

Idle == [pc |-> "idle", n |-> 1, output |-> FALSE]

\* How far git worktree add has come: a directory under its name, the attribute
\* that says whose it is, an entry in git's list, a checkout that git can read.
Progression == <<"absent", "untagged", "tagged", "registered", "bound">>
Levels == {Progression[i] : i \in DOMAIN Progression}
NoWorktree == [record |-> "none", dir |-> "absent", tree |-> Clean]

At(pc) == co.pc = pc
Go(pc) == co' = [co EXCEPT !.pc = pc]
Leave == co' = Idle

Last(s) == s[Len(s)]
Mine == [attempt |-> Len(doc.attempts), n |-> co.n]
Code == doc.kind = "code"

---------------------------------------------------------------------------
(* What validate_maker_checker_snapshot demands, part by part.             *)

StageFits(d) ==
    CASE d.status = "active"    -> d.stage \in {"setup", "maker", "apply", "reviewer"}
      [] d.status = "completed" -> d.stage = "completed"
      [] d.status = "aborted"   -> d.stage = "human-stop"

WithinRevisions(d) == d.iteration <= MaxRevisions + 1

\* At most one attempt runs: the last one, of an active run.
AttemptsHold(d) == \A k \in DOMAIN d.attempts :
    LET a == d.attempts[k]
    IN  /\ a.status = "running" => k = Len(d.attempts) /\ d.status = "active"
        /\ a.output => a.status \in {"succeeded", "failed"}
        /\ a.status = "succeeded" => a.output
        /\ a.proof => a.status = "interrupted"

MarkerHolds(d) == d.unsafe # None =>
    /\ d.status = "active"
    /\ d.attempts # <<>>
    /\ Last(d.attempts).status = "running"
    /\ d.unsafe.attempt = Len(d.attempts)

Succeeded(d, slot, i) == {k \in DOMAIN d.attempts : d.attempts[k].slot = slot
                             /\ d.attempts[k].iteration = i
                             /\ d.attempts[k].status = "succeeded"}

\* Each iteration has the one attempt that made it and, once reviewed, the
\* one that reviewed it; only a FAIL that made progress is followed by more.
RecordsHold(d) == \A i \in DOMAIN d.records :
    LET r == d.records[i]
    IN  /\ Succeeded(d, "maker", i) = {r.maker}
        /\ Succeeded(d, "reviewer", i) = IF r.verdict = "none" THEN {} ELSE {r.reviewer}
        /\ r.verdict = "none" => /\ i = Len(d.records)
                                 /\ d.stage \in {"reviewer", "human-stop"}
                                 /\ r.findings = NoFindings
        /\ r.verdict = "PASS" => d.status = "completed" /\ i = Len(d.records)
        /\ r.verdict = "FAIL" /\ i > 1 /\ ~Progress(d.records[i - 1].findings, r.findings)
              => i = Len(d.records) /\ d.iteration = i /\ d.status = "aborted"

\* A successful attempt is the maker or the reviewer of some iteration.
OutputsBound(d) == \A k \in DOMAIN d.attempts : d.attempts[k].status = "succeeded" =>
    \E i \in DOMAIN d.records : k \in {d.records[i].maker, d.records[i].reviewer}

RecordCount(d) ==
    CASE d.stage = "setup"                   -> Len(d.records) = 0
      [] d.stage \in {"maker", "apply"}        -> Len(d.records) = d.iteration - 1
      [] d.stage \in {"reviewer", "completed"} -> Len(d.records) = d.iteration
      [] d.stage = "human-stop" -> Len(d.records) \in {d.iteration - 1, d.iteration}

IntentHolds(d) ==
    IF d.stage = "apply"
    THEN /\ d.kind = "code"
         /\ d.pending # None
         /\ d.attempts # <<>>
         /\ Last(d.attempts).slot = "maker"
         /\ Last(d.attempts).status = "running"
    ELSE d.pending = None

ArtifactHolds(d) == /\ d.stage \in {"reviewer", "completed"} => d.artifact # None
                    /\ d.artifact # None /\ d.records # <<>>
                          => d.artifact = Last(d.records).artifact

LastFail(d) == IF d.records # <<>> /\ Last(d.records).verdict = "FAIL"
               THEN Last(d.records).findings ELSE NoFindings

FindingsHold(d) ==
    CASE d.stage = "maker" /\ d.iteration > 1 -> /\ d.findings = LastFail(d)
                                                 /\ d.findings # NoFindings
      [] d.stage = "human-stop" -> d.findings \in {NoFindings, LastFail(d)}
      [] OTHER -> d.findings = NoFindings

WellFormed(d) == /\ StageFits(d) /\ WithinRevisions(d)
                  /\ AttemptsHold(d) /\ MarkerHolds(d)
                  /\ RecordsHold(d) /\ OutputsBound(d) /\ RecordCount(d)
                  /\ IntentHolds(d) /\ ArtifactHolds(d) /\ FindingsHold(d)

\* verify() takes any status but CREATING; a removed worktree has no content.
WorktreeHolds(d) ==
    /\ wt.record \notin {"none", "creating"}
    /\ d.status = "active" => wt.record = "active"
    /\ \/ wt.record = "removed"
       \/ wt.tree = d.checkpoint
       \/ d.stage = "apply" /\ wt.tree = d.pending

\* Only a run that has no contract yet may be without a workspace.
Unbound(d) == d.kind = "code" /\ ~d.bound

WorkspaceHolds(d) == IF d.kind = "document" THEN ~d.bound
                     ELSE IF d.bound THEN WorktreeHolds(d)
                     ELSE d.stage \in {"setup", "human-stop"} /\ wt.record = "none"

Valid(d) == WellFormed(d) /\ WorkspaceHolds(d)

\* The one complaint a resume or an abort may overlook.
RecoverableSetup(d) == WellFormed(d) /\ Unbound(d) /\ d.stage = "setup"

\* _resume_ledger
ResumeAllowed(d) == /\ d.status = "active"
                    /\ Valid(d) \/ RecoverableSetup(d)
                    /\ d.unsafe = None

---------------------------------------------------------------------------
(* Writes to the document.                                                 *)

NewDocument(kind) ==
    [kind |-> kind, status |-> "active", stage |-> "setup", iteration |-> 1,
     attempts |-> <<>>, records |-> <<>>, findings |-> NoFindings,
     artifact |-> None, pending |-> None, unsafe |-> None,
     bound |-> FALSE, checkpoint |-> None]

\* _finish_attempt_in_document, of the last attempt if it still runs.
Finished(attempts, status, output) ==
    IF attempts # <<>> /\ Last(attempts).status = "running"
    THEN [attempts EXCEPT ![Len(attempts)] = [@ EXCEPT !.status = status, !.output = output]]
    ELSE attempts

Begun(d, slot) ==
    [d EXCEPT !.attempts = Append(@, [slot |-> slot, iteration |-> d.iteration,
                  status |-> "running", output |-> FALSE, proof |-> FALSE])]

Submitted(d, a, checkpoint) ==
    [d EXCEPT !.stage = "reviewer", !.artifact = a, !.pending = None,
              !.findings = NoFindings, !.checkpoint = checkpoint,
              !.attempts = Finished(@, "succeeded", TRUE),
              !.records = Append(@, [artifact |-> a, maker |-> Len(d.attempts),
                  reviewer |-> 0, verdict |-> "none", findings |-> NoFindings])]

Reviewed(d, verdict, f) ==
    [d EXCEPT !.attempts = Finished(@, "succeeded", TRUE),
              !.findings = f,
              !.records[Len(d.records)] = [@ EXCEPT !.verdict = verdict, !.findings = f,
                                                    !.reviewer = Len(d.attempts)]]

Ended(d, status, output, checkpoint) ==
    [d EXCEPT !.status = "aborted", !.stage = "human-stop", !.pending = None,
              !.checkpoint = checkpoint, !.attempts = Finished(@, status, output)]

\* Mutant: the worktree is not looked at again.
StaleCheckpoint(d) == d.checkpoint

\* The checkpoint of a terminal stop, which only a code run has.
Checkpoint(d) == IF d.bound THEN wt.tree ELSE None

---------------------------------------------------------------------------
(* run_maker_checker: claiming the snapshot, or resuming it                *)

Launch == /\ At("idle")
          /\ launches < MaxLaunches
          /\ launches' = launches + 1
          /\ Go("setup")
          /\ UNCHANGED natives

\* _create_ledger: the snapshot is free, or holds an ended run that still
\* validates and is archived.  A new run owns a worktree name of its own.
CreateRun(kind) == /\ Launch
                   /\ doc # None => doc.status # "active" /\ Valid(doc)
                   /\ doc' = NewDocument(kind)
                   /\ wt' = NoWorktree

\* A stale attempt is interrupted, unless its patch may have been applied.
ResumeRun == /\ Launch
             /\ doc # None
             /\ ResumeAllowed(doc)
             /\ doc' = IF doc.stage = "apply" THEN doc
                       ELSE [doc EXCEPT !.attempts = Finished(@, "interrupted", FALSE)]
             /\ UNCHANGED wt

---------------------------------------------------------------------------
(* _ensure_setup over WorktreeManager.create                               *)

Setup == At("setup") /\ doc.stage = "setup"
UnboundSetup == Setup /\ Unbound(doc)

\* The ownership record is written before git touches the disk.
RecordCreating == /\ UnboundSetup
                  /\ wt.record = "none"
                  /\ wt' = [wt EXCEPT !.record = "creating"]
                  /\ UNCHANGED <<doc, natives, co, launches>>

\* A creation that was killed before the directory was tagged, or inside git
\* before the checkout could be read, is refused by every later call.
Stuck == wt.record = "creating" /\ wt.dir \in {"untagged", "registered"}

\* _finish_creating, of a new record or to replay an interrupted one.
FinishCreating == /\ UnboundSetup
                  /\ wt.record = "creating"
                  /\ IF Stuck THEN Leave ELSE Go("adding")
                  /\ UNCHANGED <<doc, wt, natives, launches>>

\* One step of the creation; the last one records that it is complete.
AddWorktree == /\ At("adding") \/ At("abortAdding")
               /\ IF wt.dir = "bound"
                  THEN /\ wt' = [wt EXCEPT !.record = "active"]
                       /\ Go(IF At("adding") THEN "setup" ELSE "abort")
                  ELSE /\ \E i \in 1 .. 4 : /\ Progression[i] = wt.dir
                                            /\ wt' = [wt EXCEPT !.dir = Progression[i + 1]]
                       /\ UNCHANGED co
               /\ UNCHANGED <<doc, natives, launches>>

\* A record an interrupted abort had ended already: the invocation raises.
SetupRefused == /\ UnboundSetup
                /\ wt.record \notin {"none", "creating", "active"}
                /\ Leave
                /\ UNCHANGED <<doc, wt, natives, launches>>

BindSetup == /\ Setup
             /\ Code => wt.record = "active"
             /\ doc' = [doc EXCEPT !.stage = "maker", !.bound = Code,
                                   !.checkpoint = IF Code THEN wt.tree ELSE None]
             /\ Go("loop")
             /\ UNCHANGED <<wt, natives, launches>>

AlreadySetUp == /\ At("setup")
                /\ doc.stage # "setup"
                /\ Go("loop")
                /\ UNCHANGED <<doc, wt, natives, launches>>

---------------------------------------------------------------------------
(* _dispatch_output: one attempt and its native workers                    *)

BeginAttempt == /\ At("loop")
                /\ doc.stage \in {"maker", "reviewer"}
                /\ doc' = Begun(doc, doc.stage)
                /\ co' = [pc |-> "spawn", n |-> 1, output |-> FALSE]
                /\ UNCHANGED <<wt, natives, launches>>

\* Neither spawn nor retry is sure to get a handle.
SpawnRefused == /\ At("spawn")
                /\ Go("stop")
                /\ UNCHANGED <<doc, wt, natives, launches>>

\* Mutant: the retry of a worker keeps no marker of its own.
MarkFirst == /\ At("spawn")
             /\ doc' = IF co.n = 1 THEN [doc EXCEPT !.unsafe = Mine] ELSE doc
             /\ \E pc \in {"wait", "cancel"} : Go(pc)
             /\ UNCHANGED <<wt, natives, launches>>

\* The marker is durable while the worker is still queued; a handle that
\* fails its verification is cancelled at once.
Mark == /\ At("spawn")
        /\ doc' = [doc EXCEPT !.unsafe = Mine]
        /\ \E pc \in {"wait", "cancel"} : Go(pc)
        /\ UNCHANGED <<wt, natives, launches>>

\* wait() starts the queued worker.
StartNative == /\ At("wait")
                /\ natives' = natives \cup {Mine}
                /\ Go("waiting")
                /\ UNCHANGED <<doc, wt, launches>>

NativeEnds == /\ \E x \in natives : natives' = natives \ {x}
              /\ UNCHANGED <<doc, wt, co, launches>>

Waited == /\ At("waiting")
          /\ Mine \notin natives
          /\ Go("collect")
          /\ UNCHANGED <<doc, wt, natives, launches>>

\* Mutant: the wait goes on until the worker ends.
WaitPatiently == /\ At("wait")
                 /\ Go("cancel")
                 /\ UNCHANGED <<doc, wt, natives, launches>>

\* An interrupt, an error of the dispatcher or the hard timeout.
WaitBroken == /\ At("wait") \/ At("waiting")
              /\ Go("cancel")
              /\ UNCHANGED <<doc, wt, natives, launches>>

Cancel == /\ At("cancel")
          /\ natives' = natives \ {Mine}
          /\ Go("cancelled")
          /\ UNCHANGED <<doc, wt, launches>>

\* An unconfirmed cancellation raises and leaves the run active and marked.
CancelUnconfirmed == /\ At("cancel")
                     /\ Leave
                     /\ UNCHANGED <<doc, wt, natives, launches>>

ClearCancelled == /\ At("cancelled")
                  /\ doc' = [doc EXCEPT !.unsafe = None]
                  /\ Go("stop")
                  /\ UNCHANGED <<wt, natives, launches>>

\* What the worker left: a response, a transport failure that is retried
\* once under the next dispatch attempt, or anything that ends the run.
Collect == /\ At("collect")
           /\ doc' = [doc EXCEPT !.unsafe = None]
           /\ \/ Go("parse")
              \/ co.n <= TransportRetries /\ co' = [co EXCEPT !.pc = "spawn", !.n = @ + 1]
              \/ Go("stop")
           /\ UNCHANGED <<wt, natives, launches>>

---------------------------------------------------------------------------
(* The maker's response                                                    *)

Refused == /\ co' = [co EXCEPT !.pc = "stop", !.output = TRUE]
           /\ UNCHANGED <<doc, wt, natives, launches>>

\* It violates the contract, leaves a finding disputed or for a human, is no
\* safe patch, or is unchanged.
MakerRefused == At("parse") /\ doc.stage = "maker" /\ Refused

\* Mutant: a patch is submitted like a document and applied when resumed.
MakerResponseAtOnce(a) ==
    /\ At("parse")
    /\ doc.stage = "maker"
    /\ a # doc.artifact
    /\ doc' = Submitted(doc, a, doc.checkpoint)
    /\ Go("loop")
    /\ UNCHANGED <<wt, natives, launches>>

\* A document is recorded at once, a patch first as a durable intent.
MakerResponse(a) ==
    /\ At("parse")
    /\ doc.stage = "maker"
    /\ a # doc.artifact
    /\ doc' = IF Code THEN [doc EXCEPT !.stage = "apply", !.findings = NoFindings,
                                       !.pending = a]
              ELSE Submitted(doc, a, None)
    /\ Go("loop")
    /\ UNCHANGED <<wt, natives, launches>>

Applying == At("loop") /\ doc.stage = "apply"

\* _complete_apply_intent: the patch is applied unless the tree has changed.
ApplyPatch == /\ Applying
              /\ wt' = IF wt.tree = doc.checkpoint THEN [wt EXCEPT !.tree = doc.pending]
                       ELSE wt
              /\ Go("applied")
              /\ UNCHANGED <<doc, natives, launches>>

\* The patch fails its checks, before or after git wrote something.
PatchRefused == /\ Applying
                /\ wt.tree = doc.checkpoint
                /\ \E tree \in {wt.tree, Torn} : wt' = [wt EXCEPT !.tree = tree]
                /\ co' = [co EXCEPT !.pc = "stop", !.output = TRUE]
                /\ UNCHANGED <<doc, natives, launches>>

\* The process is killed in the middle of git apply.
TearApply == /\ Applying
             /\ wt.tree = doc.checkpoint
             /\ wt' = [wt EXCEPT !.tree = Torn]
             /\ Leave
             /\ UNCHANGED <<doc, natives, launches>>

RecordApplied == /\ At("applied")
                 /\ IF wt.tree = doc.pending
                    THEN doc' = Submitted(doc, doc.pending, wt.tree) /\ Go("loop")
                    ELSE /\ co' = [co EXCEPT !.pc = "stop", !.output = TRUE]
                         /\ UNCHANGED doc
                 /\ UNCHANGED <<wt, natives, launches>>

---------------------------------------------------------------------------
(* The reviewer's response                                                 *)

\* It violates the contract: foreign or missing criteria, a PASS with blocking
\* findings, a FAIL without.
ReviewRefused == At("parse") /\ doc.stage = "reviewer" /\ Refused

ReviewPass == /\ At("parse")
              /\ doc.stage = "reviewer"
              /\ doc' = [Reviewed(doc, "PASS", NoFindings) EXCEPT !.status = "completed",
                                                                 !.stage = "completed"]
              /\ Go("mark")
              /\ UNCHANGED <<wt, natives, launches>>

\* Mutant: the last round is not counted.
ExhaustedLate(d, f) == d.iteration > MaxRevisions + 1

\* No strict progress over the previous review, or no revision left.
Exhausted(d, f) ==
    \/ d.iteration > 1 /\ ~Progress(d.records[d.iteration - 1].findings, f)
    \/ d.iteration > MaxRevisions

ReviewFail(f) ==
    /\ At("parse")
    /\ doc.stage = "reviewer"
    /\ Cited(f) # {}
    /\ LET d == Reviewed(doc, "FAIL", f)
       IN  IF Exhausted(doc, f)
           THEN /\ doc' = Ended(d, "succeeded", TRUE, Checkpoint(d))
                /\ Go("mark")
           ELSE /\ doc' = [d EXCEPT !.stage = "maker", !.iteration = @ + 1]
                /\ Go("loop")
    /\ UNCHANGED <<wt, natives, launches>>

---------------------------------------------------------------------------
(* _terminal_stop_with_ledger, and the worktree record of an ended run     *)

TerminalStop == /\ At("stop")
                /\ doc' = Ended(doc, "failed", co.output, Checkpoint(doc))
                /\ Go("mark")
                /\ UNCHANGED <<wt, natives, launches>>

MarkWorktree == /\ At("mark")
                /\ wt' = IF Code /\ wt.record = "active"
                         THEN [wt EXCEPT !.record = IF doc.status = "completed"
                                                    THEN "succeeded" ELSE "failed"]
                         ELSE wt
                /\ Leave
                /\ UNCHANGED <<doc, natives, launches>>

---------------------------------------------------------------------------
(* abort_maker_checker_run                                                 *)

AbortAllowed(d) == ResumeAllowed(d)

Abort == /\ At("idle")
         /\ doc # None
         /\ AbortAllowed(doc)
         /\ Go("abort")
         /\ UNCHANGED <<doc, wt, natives, launches>>

Creating == Unbound(doc) /\ wt.record = "creating"

\* A worktree whose creation was interrupted is given up while it has no
\* directory, and otherwise finished first.
AbortCreation == /\ At("abort")
                 /\ Creating
                 /\ IF wt.dir = "absent"
                    THEN wt' = [wt EXCEPT !.record = "removed"] /\ UNCHANGED co
                    ELSE (IF Stuck THEN Leave ELSE Go("abortAdding")) /\ UNCHANGED wt
                 /\ UNCHANGED <<doc, natives, launches>>

PatchApplied == doc.stage = "apply" /\ wt.tree # doc.checkpoint

\* A patch that reached the tree is recorded before the run ends.
AbortApplied == /\ At("abort")
                /\ PatchApplied
                /\ IF wt.tree = doc.pending
                   THEN doc' = Submitted(doc, doc.pending, wt.tree) /\ UNCHANGED co
                   ELSE Leave /\ UNCHANGED doc
                /\ UNCHANGED <<wt, natives, launches>>

\* A worktree found at setup is folded into the terminal document.
Folded(d) == [d EXCEPT !.bound = TRUE]

AbortStop == /\ At("abort")
             /\ ~Creating
             /\ ~PatchApplied
             /\ LET d == IF Unbound(doc) /\ wt.record \notin {"none", "removed"}
                         THEN Folded(doc) ELSE doc
                IN  doc' = Ended(d, "interrupted", FALSE, Checkpoint(d))
             /\ Go("aborted")
             /\ UNCHANGED <<wt, natives, launches>>

AbortWorktree == /\ At("aborted")
                 /\ wt' = IF wt.record = "active" THEN [wt EXCEPT !.record = "aborted"]
                          ELSE wt
                 /\ Leave
                 /\ UNCHANGED <<doc, natives, launches>>

---------------------------------------------------------------------------
(* confirm_maker_checker_dispatch_terminated: an operator who has seen     *)
(* that the marked worker is gone records the proof.                       *)

Confirmable == /\ At("idle")
               /\ doc # None
               /\ doc.status = "active"
               /\ Valid(doc)
               /\ doc.unsafe # None
               /\ doc.unsafe \notin natives

Confirm == /\ Confirmable
           /\ doc' = [doc EXCEPT !.attempts[Len(doc.attempts)] =
                                    [@ EXCEPT !.status = "interrupted", !.proof = TRUE],
                                 !.unsafe = None]
           /\ UNCHANGED <<wt, natives, co, launches>>

---------------------------------------------------------------------------
\* The process is killed, or an exception leaves it between two steps.
Crash == /\ ~At("idle")
         /\ Leave
         /\ UNCHANGED <<doc, wt, natives, launches>>

Init == /\ doc = None
        /\ wt = NoWorktree
        /\ natives = {}
        /\ co = Idle
        /\ launches = 0

\* The steps of an invocation at work.
Step == \/ RecordCreating \/ FinishCreating \/ AddWorktree \/ SetupRefused \/ BindSetup \/ AlreadySetUp
        \/ BeginAttempt \/ SpawnRefused \/ Mark \/ StartNative
        \/ Waited \/ WaitBroken \/ Cancel \/ CancelUnconfirmed \/ ClearCancelled
        \/ Collect \/ MakerRefused \/ ReviewRefused
        \/ \E a \in Artifacts : MakerResponse(a)
        \/ ApplyPatch \/ PatchRefused \/ RecordApplied
        \/ ReviewPass
        \/ \E f \in Findings : ReviewFail(f)
        \/ TerminalStop \/ MarkWorktree
        \/ AbortCreation \/ AbortApplied \/ AbortStop \/ AbortWorktree

Next == \/ \E kind \in Kinds : CreateRun(kind)
        \/ ResumeRun \/ Abort \/ Confirm
        \/ Step
        \/ NativeEnds \/ TearApply \/ Crash

\* A process keeps running, and its waits end at their hard timeout.
Spec == Init /\ [][Next]_vars /\ WF_vars(Step)

---------------------------------------------------------------------------
TypeOK == /\ doc \in Document \cup {None}
          /\ wt \in [record : {"none", "creating", "active", "succeeded", "failed",
                              "aborted", "removed"},
                    dir : Levels, tree : Artifacts \cup {Clean, Torn}]
          /\ natives \subseteq Dispatch
          /\ co \in [pc : {"idle", "setup", "adding", "loop", "spawn", "wait", "waiting", "cancel",
                          "cancelled", "collect", "parse", "applied", "stop", "mark",
                          "abort", "abortAdding", "aborted"},
                    n : 1 .. TransportRetries + 1, output : BOOLEAN]
          /\ launches \in 0 .. MaxLaunches

\* A native worker at work is the one the snapshot names as unsafe: none
\* survives a crash, a retry or a failed cancellation behind the back of the
\* resume, the abort or the next run (_dispatch_output, _resume_ledger).
NativesAreMarked == \A x \in natives : doc # None /\ doc.unsafe = x

\* Whatever is interrupted, the snapshot on disk passes the structural part
\* of its own validation.
SnapshotWellFormed == doc # None => WellFormed(doc)

\* The snapshot a crash leaves behind tells the next command all it must know.
SnapshotTellsAll == NativesAreMarked /\ SnapshotWellFormed

\* What is reviewed, and what passes, is what the owned worktree holds:
\* resuming a half-done apply neither skips the patch nor records another.
ReviewedIsApplied == doc # None /\ Code /\ doc.stage \in {"reviewer", "completed"}
                        => wt.tree = doc.artifact

\* A setup that an abort gave up before its worktree had a directory.
GivenUp == Unbound(doc) /\ wt.record = "removed"

\* A resume gets past the setup: there is a worktree, or one can be made.
CanBeSetUp == Unbound(doc) => wt.record \in {"none", "creating", "active"} /\ ~Stuck

\* A run at rest can go on: an active one can be resumed, into its loop, or
\* aborted, or its uncertain worker confirmed; an ended one can be archived.
\* Three things the code does not recover from are excepted: a patch torn by a
\* kill, a worktree given up during setup, and one whose creation was killed
\* where no later call takes it up (Stuck).
RunsRecoverable == At("idle") /\ doc # None /\ ~GivenUp /\ ~(Unbound(doc) /\ Stuck) =>
    IF doc.status # "active" THEN Valid(doc)
    ELSE \/ doc.stage = "apply" /\ wt.tree = Torn
         \/ ResumeAllowed(doc) /\ CanBeSetUp
         \/ doc.unsafe # None /\ Valid(doc)

\* Every invocation returns.
InvocationsReturn == ~At("idle") ~> At("idle")

---------------------------------------------------------------------------
\* The coordinator keeps the promise of MakerCheckerLoop.
Phase == IF doc = None THEN "none"
         ELSE CASE doc.status = "completed" -> "passed"
                [] doc.status = "aborted" -> "stopped"
                [] doc.status = "active" /\ doc.stage = "reviewer" -> "reviewing"
                [] OTHER -> "making"

FailedReviews == IF doc = None THEN <<>>
                 ELSE LET fails == {i \in DOMAIN doc.records : doc.records[i].verdict = "FAIL"}
                      IN  [i \in 1 .. Cardinality(fails) |-> doc.records[i].findings]

Submission == IF doc = None THEN None ELSE doc.artifact

Loop == INSTANCE MakerCheckerLoop
            WITH phase <- Phase, artifact <- Submission, reviews <- FailedReviews

ImplementsLoop == Loop!LoopSpec
=============================================================================
