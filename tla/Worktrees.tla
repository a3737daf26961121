----------------------------- MODULE Worktrees -----------------------------
(***************************************************************************)
(* WorktreeManager (worktrees.py) for the workers of one run: create,      *)
(* mark, cleanup, abort-run and resume-run, interrupted anywhere, beside   *)
(* users and workers who write in the trees.  One command runs at a time   *)
(* (execution_lease.py).  The base commit of an intent is frozen; a tree   *)
(* is what a replay can tell of it: its directory and the nonce on it,     *)
(* git's registration and marker, how far it is checked out, and what      *)
(* somebody changed in it since.                                           *)
(***************************************************************************)
EXTENDS Naturals

CONSTANTS Workers,
          MaxKills,   \* bound on kills of the command at work
          MaxEdits    \* bound on what workers and users do to the trees

VARIABLES record,   \* WorktreeStatus of each worker in worktrees.json
          tree,
          op,       \* the command at work
          kills,
          edits

vars == <<record, tree, op, kills, edits>>

ASSUME BoundsAreNatural == Workers # {} /\ MaxKills \in Nat /\ MaxEdits \in Nat

Settled == {"succeeded", "failed", "aborted"}
Statuses == {"none", "creating", "active", "removed"} \cup Settled
Changes == {"tracked", "extra", "commit"}

\* Between the rename that publishes a directory and the attribute that binds it
\* to its intent it is untagged.
Tree == [dir : {"absent", "untagged", "tagged"}, registered : BOOLEAN, marker : BOOLEAN,
         files : {"none", "some", "base"}, changes : SUBSET Changes]
NoTree == [dir |-> "absent", registered |-> FALSE, marker |-> FALSE,
           files |-> "none", changes |-> {}]

\* todo: the workers a run-wide command has not come to; seen: the changes a
\* cleanup looked at; discard: its permission to lose them.
Idle == [kind |-> "idle", at |-> "end", worker |-> CHOOSE w \in Workers : TRUE, todo |-> {},
         discard |-> FALSE, seen |-> {}]
Op == [kind : {"idle", "create", "abort", "resume", "cleanup"},
       at : {"end", "next", "look", "publish", "tag", "reuse", "register", "mark", "bind",
             "checkout", "record", "delete", "unregister", "remove"},
       worker : Workers, todo : SUBSET Workers, discard : BOOLEAN, seen : SUBSET Changes]

Init == /\ record = [w \in Workers |-> "none"]
        /\ tree = [w \in Workers |-> NoTree]
        /\ op = Idle
        /\ kills = 0
        /\ edits = 0
---------------------------------------------------------------------------
(* Creation: the intent first, then whatever of it is not there yet.       *)

me == op.worker
mine == tree[me]
At(step) == op.kind # "idle" /\ op.at = step
Continue(step) == op' = [op EXCEPT !.at = step]
Refuse == op' = Idle /\ UNCHANGED <<record, tree, kills, edits>>

Create(w) ==
    /\ op = Idle
    /\ \/ record[w] = "none" /\ tree[w].dir = "absent"
       \/ record[w] = "creating"
    /\ record' = [record EXCEPT ![w] = "creating"]
    /\ op' = [Idle EXCEPT !.kind = "create", !.at = "look", !.worker = w]
    /\ UNCHANGED <<tree, kills, edits>>

\* What is left to do of an intent.  Mutant: what git has registered is done.
RestTrusting(t) == IF t.dir = "absent" THEN "publish" ELSE IF t.registered THEN "record" ELSE "reuse"
Rest(t) == IF t.dir = "absent" THEN "publish" ELSE IF t.registered THEN "bind" ELSE "reuse"

\* _finish_creating
Look == /\ At("look")
        /\ IF mine.dir = "absent" /\ mine.registered
           THEN Refuse
           ELSE Continue(Rest(mine)) /\ UNCHANGED <<record, tree, kills, edits>>

Publish == /\ At("publish")
           /\ mine.dir = "absent"
           /\ tree' = [tree EXCEPT ![me].dir = "untagged"]
           /\ Continue("tag")
           /\ UNCHANGED <<record, kills, edits>>

Tag == /\ At("tag")
       /\ IF mine.dir = "absent"
          THEN Refuse
          ELSE /\ tree' = [tree EXCEPT ![me].dir = "tagged"]
               /\ Continue("register")
               /\ UNCHANGED <<record, kills, edits>>

\* A directory that is there is taken if it bears the nonce and is empty.
Reuse == /\ At("reuse")
         /\ IF mine.dir = "tagged" /\ ~mine.marker /\ mine.files = "none" /\ mine.changes = {}
            THEN Continue("register") /\ UNCHANGED <<record, tree, kills, edits>>
            ELSE Refuse

\* git worktree add --no-checkout: the admin directory, then the marker.
Register == /\ At("register")
            /\ \/ /\ mine.dir # "absent" /\ mine.changes = {}
                  /\ tree' = [tree EXCEPT ![me].registered = TRUE]
                  /\ Continue("mark")
                  /\ UNCHANGED <<record, kills, edits>>
               \/ Refuse

MarkGit == /\ At("mark")
           /\ IF mine.dir = "absent"
              THEN Refuse
              ELSE /\ tree' = [tree EXCEPT ![me].marker = TRUE]
                   /\ Continue("bind")
                   /\ UNCHANGED <<record, kills, edits>>

Bound(t) == t.dir # "absent" /\ t.registered /\ t.marker
Whole(t) == t.files = "base" /\ t.changes = {}

Bind == /\ At("bind")
        /\ IF Bound(mine) /\ mine.changes \subseteq {"tracked"}
           THEN Continue(IF Whole(mine) THEN "record" ELSE "checkout") /\ UNCHANGED <<record, tree, kills, edits>>
           ELSE Refuse

\* _materialize_head_without_repository_commands, file by file, over what is there.
Checkout == /\ At("checkout")
            /\ IF Bound(mine) /\ mine.changes \subseteq {"tracked"}
               THEN /\ tree' = [tree EXCEPT ![me].files = IF @ = "none" THEN "some" ELSE "base",
                                            ![me].changes = {}]
                    /\ Continue(IF tree'[me].files = "base" THEN "record" ELSE "checkout")
                    /\ UNCHANGED <<record, kills, edits>>
               ELSE Refuse

Returned == IF op.kind = "create" THEN Idle ELSE [op EXCEPT !.at = "next"]

Record == /\ At("record")
          /\ record' = [record EXCEPT ![me] = "active"]
          /\ op' = Returned
          /\ UNCHANGED <<tree, kills, edits>>
---------------------------------------------------------------------------
(* The other commands *)

Mark(w, status) == /\ op = Idle
                   /\ record[w] = "active"
                   /\ record' = [record EXCEPT ![w] = status]
                   /\ UNCHANGED <<tree, op, kills, edits>>

RunWide(kind) == /\ op = Idle
                 /\ op' = [Idle EXCEPT !.kind = kind, !.at = "next",
                                       !.todo = {w \in Workers : record[w] # "none"}]
                 /\ UNCHANGED <<record, tree, kills, edits>>

\* abort_run: an intent with a directory is finished first, one without is
\* cancelled; then everything active is aborted at once.
AbortNext ==
    /\ At("next")
    /\ op.kind = "abort"
    /\ IF \E w \in op.todo : record[w] = "creating"
       THEN \E w \in {w \in op.todo : record[w] = "creating"} :
               IF tree[w].dir # "absent"
               THEN /\ op' = [op EXCEPT !.at = "look", !.worker = w, !.todo = @ \ {w}]
                    /\ UNCHANGED <<record, tree, kills, edits>>
               ELSE IF tree[w].registered
               THEN Refuse
               ELSE /\ record' = [record EXCEPT ![w] = "removed"]
                    /\ op' = [op EXCEPT !.todo = @ \ {w}]
                    /\ UNCHANGED <<tree, kills, edits>>
       ELSE /\ record' = [w \in Workers |-> IF record[w] = "active" THEN "aborted" ELSE record[w]]
            /\ op' = Idle
            /\ UNCHANGED <<tree, kills, edits>>

\* resume_run: intents are finished, everything else is verified.
ResumeNext ==
    /\ At("next")
    /\ op.kind = "resume"
    /\ IF op.todo = {}
       THEN Refuse
       ELSE \E w \in op.todo :
               IF record[w] = "creating"
               THEN /\ op' = [op EXCEPT !.at = "look", !.worker = w, !.todo = @ \ {w}]
                    /\ UNCHANGED <<record, tree, kills, edits>>
               ELSE IF record[w] = "removed" \/ Bound(tree[w])
               THEN op' = [op EXCEPT !.todo = @ \ {w}] /\ UNCHANGED <<record, tree, kills, edits>>
               ELSE Refuse

\* Mutant: an untouched work tree is all that is looked at.
DisposableUncommitted(w, discard) == discard \/ tree[w].changes \subseteq {"commit"}
Disposable(w, discard) == discard \/ Whole(tree[w])

Cleanup(w, discard, failed) ==
    /\ op = Idle
    /\ record[w] \in {"active"} \cup Settled
    /\ Bound(tree[w])
    /\ record[w] = "failed" => failed
    /\ Disposable(w, discard)
    /\ op' = [Idle EXCEPT !.kind = "cleanup", !.at = "delete", !.worker = w,
                          !.discard = discard, !.seen = tree[w].changes]
    /\ UNCHANGED <<record, tree, kills, edits>>

\* git worktree remove looks again, unless forced; for it a commit is no change.
Delete == /\ At("delete")
          /\ IF mine.dir # "absent" /\ (op.discard \/ mine.changes \subseteq {"commit"})
             THEN /\ tree' = [tree EXCEPT ![me] = [NoTree EXCEPT !.registered = mine.registered]]
                  /\ Continue("unregister")
                  /\ UNCHANGED <<record, kills, edits>>
             ELSE Refuse

Unregister == /\ At("unregister")
              /\ tree' = [tree EXCEPT ![me].registered = FALSE]
              /\ Continue("remove")
              /\ UNCHANGED <<record, kills, edits>>

Remove == /\ At("remove")
          /\ record' = [record EXCEPT ![me] = "removed"]
          /\ op' = Idle
          /\ UNCHANGED <<tree, kills, edits>>
---------------------------------------------------------------------------
(* Kills, workers and users *)

Kill == /\ op # Idle
        /\ kills < MaxKills
        /\ kills' = kills + 1
        /\ op' = Idle
        /\ UNCHANGED <<record, tree, edits>>

Edit(w, after) == /\ edits < MaxEdits
                  /\ edits' = edits + 1
                  /\ tree' = [tree EXCEPT ![w] = after]
                  /\ UNCHANGED <<record, op, kills>>

Change(w, what) ==
    /\ tree[w].dir # "absent"
    /\ what = "tracked" => tree[w].files # "none"
    /\ what = "commit" => Bound(tree[w]) /\ tree[w].files = "base"
    /\ Edit(w, [tree[w] EXCEPT !.changes = @ \cup {what}])

RemoveByHand(w) == /\ tree[w].dir # "absent"
                   /\ Edit(w, [NoTree EXCEPT !.registered = tree[w].registered])

\* git worktree prune, which git gc runs too
Prune(w) == /\ tree[w].registered /\ ~tree[w].marker
            /\ Edit(w, [tree[w] EXCEPT !.registered = FALSE])

Step == \/ Look \/ Publish \/ Tag \/ Reuse \/ Register \/ MarkGit \/ Bind \/ Checkout \/ Record
        \/ AbortNext \/ ResumeNext
        \/ Delete \/ Unregister \/ Remove

Next == \/ Step
        \/ \E w \in Workers :
              \/ Create(w)
              \/ \E status \in Settled : Mark(w, status)
              \/ \E discard, failed \in BOOLEAN : Cleanup(w, discard, failed)
              \/ \E what \in Changes : Change(w, what)
              \/ RemoveByHand(w)
              \/ Prune(w)
        \/ RunWide("abort")
        \/ RunWide("resume")
        \/ Kill

Spec == Init /\ [][Next]_vars
---------------------------------------------------------------------------
(* Properties *)

\* What is in the container or registered with git belongs to a record that says
\* so, whatever is killed, replayed, cancelled or removed: nothing is orphaned
\* (create writes its intent first, cleanup its record last).
NothingOrphaned == \A w \in Workers : tree[w].dir # "absent" \/ tree[w].registered
                                          => record[w] \notin {"none", "removed"}

\* A worker is handed a tree that holds exactly the frozen base, however often
\* its creation was killed and replayed (_finish_creating).
HandedOutWhole == edits = 0 => \A w \in Workers :
    record[w] \in {"active"} \cup Settled => (Bound(tree[w]) /\ Whole(tree[w])) \/ tree[w].dir = "absent"

OwnershipHolds == /\ record \in [Workers -> Statuses]
                  /\ tree \in [Workers -> Tree]
                  /\ op \in Op
                  /\ NothingOrphaned
                  /\ HandedOutWhole

\* What somebody did in a tree is lost by his own hand, or with the permission
\* to discard it, or because he did it after the last look: a commit after
\* cleanup's, a change of a file that a replayed creation checks out again.
WorkIsKept ==
    [][\A w \in Workers :
         LET lost == tree[w].changes \ tree'[w].changes
         IN  lost # {} => \/ RemoveByHand(w)
                          \/ w = me /\ op.kind = "cleanup" /\ (op.discard \/ lost \subseteq {"commit"} \ op.seen)
                          \/ record[w] = "creating" /\ lost = {"tracked"}]_vars
=============================================================================
