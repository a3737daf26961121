-------------------------- MODULE WorktreesProofs --------------------------
(***************************************************************************)
(* Proofs about Worktrees, for any number of workers, kills and edits.     *)
(* OwnershipHolds is not inductive: what a command may do next rests on    *)
(* what its earlier steps made sure of, which WorktreeInvariant says step  *)
(* by step.                                                                *)
(***************************************************************************)
EXTENDS Worktrees, TLAPS

Typed == /\ record \in [Workers -> Statuses]
         /\ tree \in [Workers -> Tree]
         /\ op \in Op
         /\ edits \in Nat

Creation == {"look", "publish", "tag", "reuse", "register", "mark", "bind", "checkout", "record"}
Removal == {"delete", "unregister", "remove"}
Kept == {"active"} \cup Settled

\* A creation works on an intent, what it hands out is whole if nobody touched it.
CreationFits == op.kind # "idle" /\ op.at \in Creation =>
    /\ op.kind # "cleanup"
    /\ record[op.worker] = "creating"
    /\ op.at = "record" /\ edits = 0 => Bound(tree[op.worker]) /\ Whole(tree[op.worker])

\* A removal works on a record that is not yet removed, in the order directory,
\* registration, record; without the permission to discard it saw no changes.
RemovalFits == op.kind # "idle" /\ op.at \in Removal =>
    /\ op.kind = "cleanup"
    /\ record[op.worker] \in Kept
    /\ op.discard \/ op.seen = {}
    /\ op.at # "delete" => tree[op.worker].dir = "absent"
    /\ op.at = "remove" => ~tree[op.worker].registered

WorktreeInvariant == Typed /\ NothingOrphaned /\ HandedOutWhole /\ CreationFits /\ RemovalFits

\* The initial state: no record, no tree, no command.
LEMMA InitHolds == Init => WorktreeInvariant
<1>1. Idle \in Op
  BY BoundsAreNatural DEF Idle, Op
<1>2. NoTree \in Tree
  BY DEF NoTree, Tree, Changes
<1> QED
  BY <1>1, <1>2 DEF Init, WorktreeInvariant, Typed, NothingOrphaned, HandedOutWhole, CreationFits,
                    RemovalFits, Statuses, Settled, Idle, NoTree, Creation, Removal

\* An idle command fits anything.
LEMMA IdleFits == Idle \in Op /\ Idle.kind = "idle"
  BY BoundsAreNatural DEF Idle, Op

\* A tree whose changes nobody touches keeps the records true, if the record of
\* the one worker it belongs to is an intent.
LEMMA CreationStep ==
  ASSUME WorktreeInvariant, NEW t \in Tree,
         record[op.worker] = "creating",
         tree' = [tree EXCEPT ![op.worker] = t],
         UNCHANGED <<record, edits>>
  PROVE  /\ record' \in [Workers -> Statuses]
         /\ tree' \in [Workers -> Tree]
         /\ tree'[op.worker] = t
         /\ edits' \in Nat
         /\ NothingOrphaned'
         /\ HandedOutWhole'
  BY DEF WorktreeInvariant, Typed, NothingOrphaned, HandedOutWhole, Op, Settled, Bound, Whole

\* Going on within a creation changes the step only.
LEMMA ContinueTyped ==
  ASSUME op \in Op, NEW step \in Creation \cup Removal \cup {"next", "end"}, Continue(step)
  PROVE  /\ op' \in Op
         /\ op'.at = step
          /\ op'.kind = op.kind /\ op'.worker = op.worker /\ op'.discard = op.discard /\ op'.seen = op.seen
  BY DEF Continue, Op, Creation, Removal

\* A refused command leaves everything as it is.
LEMMA RefuseHolds == ASSUME WorktreeInvariant, Refuse PROVE WorktreeInvariant'
  BY IdleFits DEF Refuse, WorktreeInvariant, Typed, NothingOrphaned, HandedOutWhole, CreationFits,
                  RemovalFits, Bound, Whole

\* Each step of a creation, and its refusal, keeps the invariant.
LEMMA CreationSteps ==
  ASSUME WorktreeInvariant,
         \/ Look \/ Publish \/ Tag \/ Reuse \/ Register \/ MarkGit \/ Bind \/ Checkout \/ Record
  PROVE  WorktreeInvariant'
<1> DEFINE Closing == /\ op' \in Op
                      /\ op'.at \in Creation \cup {"next"}
                      /\ op'.kind = op.kind /\ op'.worker = op.worker
                      /\ op'.at = "record" /\ edits = 0 => Bound(tree'[me]) /\ Whole(tree'[me])
<1>0. /\ me \in Workers /\ mine \in Tree /\ op \in Op /\ tree \in [Workers -> Tree]
      /\ At("look") \/ At("publish") \/ At("tag") \/ At("reuse") \/ At("register") \/ At("mark")
             \/ At("bind") \/ At("checkout") \/ At("record")
  BY DEF WorktreeInvariant, Typed, Op, me, mine, Look, Publish, Tag, Reuse, Register, MarkGit, Bind,
         Checkout, Record
<1>1. op.kind # "idle" /\ op.kind # "cleanup" /\ record[me] = "creating"
  BY <1>0 DEF WorktreeInvariant, CreationFits, At, Creation, me
<1>2. ASSUME UNCHANGED <<record, tree, kills, edits>>, Closing
      PROVE  WorktreeInvariant'
  BY <1>0, <1>1, <1>2 DEF WorktreeInvariant, Typed, NothingOrphaned, HandedOutWhole, CreationFits,
         RemovalFits, Creation, Removal, Bound, Whole, me
<1>3. ASSUME NEW t \in Tree, tree' = [tree EXCEPT ![me] = t], UNCHANGED <<record, kills, edits>>, Closing
      PROVE  WorktreeInvariant'
  <2>1. /\ Typed' /\ NothingOrphaned' /\ HandedOutWhole'
    BY <1>1, <1>3, CreationStep DEF Typed, me
  <2> QED
    BY <2>1, <1>1, <1>3 DEF WorktreeInvariant, CreationFits, RemovalFits, Creation, Removal, me
<1>4. CASE Refuse
  BY <1>4, RefuseHolds
<1>5. CASE Look /\ ~Refuse
  BY <1>5, <1>2, <1>0, ContinueTyped DEF Look, Rest, Creation
<1>6. CASE Publish
  <2> DEFINE t == [mine EXCEPT !.dir = "untagged"]
  <2>1. t \in Tree
    BY <1>0 DEF Tree
  <2>2. tree' = [tree EXCEPT ![me] = t]
    BY <1>6 DEF Publish, mine
  <2>3. Closing /\ UNCHANGED <<record, kills, edits>>
    BY <1>6, <1>0, ContinueTyped DEF Publish, Creation
  <2> HIDE DEF t
  <2> QED
    BY <2>1, <2>2, <2>3, <1>3
<1>7. CASE Tag /\ ~Refuse
  <2> DEFINE t == [mine EXCEPT !.dir = "tagged"]
  <2>1. t \in Tree
    BY <1>0 DEF Tree
  <2>2. tree' = [tree EXCEPT ![me] = t]
    BY <1>7 DEF Tag, mine
  <2>3. Closing /\ UNCHANGED <<record, kills, edits>>
    BY <1>7, <1>0, ContinueTyped DEF Tag, Creation
  <2> HIDE DEF t
  <2> QED
    BY <2>1, <2>2, <2>3, <1>3
<1>8. CASE Reuse /\ ~Refuse
  BY <1>8, <1>2, <1>0, ContinueTyped DEF Reuse, Creation
<1>9. CASE Register /\ ~Refuse
  <2> DEFINE t == [mine EXCEPT !.registered = TRUE]
  <2>1. t \in Tree
    BY <1>0 DEF Tree
  <2>2. tree' = [tree EXCEPT ![me] = t]
    BY <1>9 DEF Register, mine
  <2>3. Closing /\ UNCHANGED <<record, kills, edits>>
    BY <1>9, <1>0, ContinueTyped DEF Register, Creation
  <2> HIDE DEF t
  <2> QED
    BY <2>1, <2>2, <2>3, <1>3
<1>10. CASE MarkGit /\ ~Refuse
  <2> DEFINE t == [mine EXCEPT !.marker = TRUE]
  <2>1. t \in Tree
    BY <1>0 DEF Tree
  <2>2. tree' = [tree EXCEPT ![me] = t]
    BY <1>10 DEF MarkGit, mine
  <2>3. Closing /\ UNCHANGED <<record, kills, edits>>
    BY <1>10, <1>0, ContinueTyped DEF MarkGit, Creation
  <2> HIDE DEF t
  <2> QED
    BY <2>1, <2>2, <2>3, <1>3
<1>11. CASE Bind /\ ~Refuse
  <2>1. /\ Bound(mine) /\ UNCHANGED <<record, tree, kills, edits>>
        /\ Continue(IF Whole(mine) THEN "record" ELSE "checkout")
    BY <1>11 DEF Bind
  <2> QED
    BY <2>1, <1>2, <1>0, ContinueTyped DEF Creation, mine, me
<1>12. CASE Checkout /\ ~Refuse
  <2> DEFINE t == [mine EXCEPT !.files = IF @ = "none" THEN "some" ELSE "base", !.changes = {}]
  <2>1. t \in Tree /\ t.changes = {} /\ (Bound(mine) => Bound(t))
    BY <1>0 DEF Tree, Bound, Changes
  <2>2. /\ tree' = [tree EXCEPT ![me].files = IF @ = "none" THEN "some" ELSE "base",
                                ![me].changes = {}]
        /\ Continue(IF tree'[me].files = "base" THEN "record" ELSE "checkout")
        /\ Bound(mine) /\ UNCHANGED <<record, kills, edits>>
    BY <1>12 DEF Checkout
  <2>3. tree' = [tree EXCEPT ![me] = t]
    BY <2>2, <1>0 DEF Tree, mine
  <2>4. tree'[me] = t
    BY <2>3, <1>0
  <2>5. Closing
    BY <2>1, <2>2, <2>3, <2>4, <1>0, ContinueTyped DEF Creation, Whole
  <2> HIDE DEF t
  <2> QED
    BY <2>1, <2>2, <2>3, <2>5, <1>3
<1>13. CASE Record
  <2>1. /\ record' = [record EXCEPT ![me] = "active"] /\ UNCHANGED <<tree, kills, edits>>
        /\ op' = Returned
        /\ edits = 0 => Bound(mine) /\ Whole(mine)
    BY <1>13 DEF Record, WorktreeInvariant, CreationFits, At, Creation, me, mine
  <2>2. op' \in Op /\ (op'.kind # "idle" => op'.at = "next")
    BY <2>1, <1>0, IdleFits DEF Returned, Op
  <2>3. Typed' /\ NothingOrphaned'
    BY <2>1, <2>2, <1>0 DEF WorktreeInvariant, Typed, NothingOrphaned, Statuses, Settled
  <2>4. HandedOutWhole'
    BY <2>1, <1>0 DEF WorktreeInvariant, Typed, HandedOutWhole, Bound, Whole, mine, Statuses, Settled
  <2> QED
    BY <2>2, <2>3, <2>4 DEF WorktreeInvariant, CreationFits, RemovalFits, Creation, Removal
<1> QED
  BY <1>4, <1>5, <1>6, <1>7, <1>8, <1>9, <1>10, <1>11, <1>12, <1>13

\* The steps of a run-wide command between two workers.
LEMMA RunWideSteps ==
  ASSUME WorktreeInvariant, AbortNext \/ ResumeNext
  PROVE  WorktreeInvariant'
<1>0. op \in Op /\ op.kind \in {"abort", "resume"} /\ At("next")
  BY DEF AbortNext, ResumeNext, WorktreeInvariant, Typed
<1>1. CASE Refuse
  BY <1>1, RefuseHolds
<1>2. ASSUME NEW w \in op.todo, record[w] = "creating",
             op' = [op EXCEPT !.at = "look", !.worker = w, !.todo = @ \ {w}],
             UNCHANGED <<record, tree, kills, edits>>
      PROVE  WorktreeInvariant'
  <2>1. op' \in Op /\ op'.at = "look" /\ op'.worker = w /\ op'.kind = op.kind
    BY <1>0, <1>2 DEF Op
  <2> QED
    BY <1>0, <1>2, <2>1 DEF WorktreeInvariant, Typed, NothingOrphaned, HandedOutWhole, CreationFits,
       RemovalFits, Removal, Bound, Whole
<1>3. ASSUME NEW w \in op.todo, op' = [op EXCEPT !.todo = @ \ {w}]
      PROVE  op' \in Op /\ op'.at = "next"
  BY <1>0, <1>3 DEF Op, At
<1>4. ASSUME NEW w \in op.todo, record[w] = "creating", tree[w].dir = "absent", ~tree[w].registered,
             record' = [record EXCEPT ![w] = "removed"],
             op' = [op EXCEPT !.todo = @ \ {w}],
             UNCHANGED <<tree, kills, edits>>
      PROVE  WorktreeInvariant'
  <2>1. w \in Workers
    BY <1>0, <1>4 DEF Op
  <2> QED
    BY <1>4, <1>3, <2>1 DEF WorktreeInvariant, Typed, Statuses, Settled, NothingOrphaned, HandedOutWhole,
       CreationFits, RemovalFits, Creation, Removal, Bound, Whole
<1>5. CASE /\ record' = [w \in Workers |-> IF record[w] = "active" THEN "aborted" ELSE record[w]]
           /\ op' = Idle
           /\ UNCHANGED <<tree, kills, edits>>
  BY <1>5, IdleFits DEF WorktreeInvariant, Typed, Statuses, Settled, NothingOrphaned, HandedOutWhole,
     CreationFits, RemovalFits, Bound, Whole
<1>6. CASE AbortNext
  BY <1>6, <1>1, <1>2, <1>4, <1>5 DEF AbortNext
<1>7. CASE ResumeNext /\ ~Refuse
  <2>1. PICK w \in op.todo :
          \/ /\ record[w] = "creating"
             /\ op' = [op EXCEPT !.at = "look", !.worker = w, !.todo = @ \ {w}]
             /\ UNCHANGED <<record, tree, kills, edits>>
          \/ /\ op' = [op EXCEPT !.todo = @ \ {w}]
             /\ UNCHANGED <<record, tree, kills, edits>>
    BY <1>7 DEF ResumeNext
  <2>2. CASE op' = [op EXCEPT !.todo = @ \ {w}] /\ UNCHANGED <<record, tree, kills, edits>>
    BY <2>2, <1>3 DEF WorktreeInvariant, Typed, NothingOrphaned, HandedOutWhole, CreationFits,
       RemovalFits, Creation, Removal, Bound, Whole
  <2> QED
    BY <2>1, <2>2, <1>2
<1> QED
  BY <1>1, <1>6, <1>7

\* The steps of a cleanup: directory, registration, record.
LEMMA RemovalSteps ==
  ASSUME WorktreeInvariant, Delete \/ Unregister \/ Remove
  PROVE  WorktreeInvariant'
<1>0. /\ me \in Workers /\ mine \in Tree /\ op \in Op /\ tree \in [Workers -> Tree]
      /\ At("delete") \/ At("unregister") \/ At("remove")
  BY DEF WorktreeInvariant, Typed, Op, me, mine, Delete, Unregister, Remove
<1>1. /\ op.kind = "cleanup" /\ record[me] \in Kept
      /\ op.discard \/ op.seen = {}
      /\ op.at # "delete" => mine.dir = "absent"
      /\ op.at = "remove" => ~mine.registered
  BY <1>0 DEF WorktreeInvariant, RemovalFits, At, Removal, me, mine
<1>2. ASSUME NEW t \in Tree, t.dir = "absent", NEW step \in {"unregister", "remove"},
             step = "remove" => ~t.registered,
             tree' = [tree EXCEPT ![me] = t], Continue(step), UNCHANGED <<record, kills, edits>>
      PROVE  WorktreeInvariant'
  <2>1. /\ op' \in Op /\ op'.at = step /\ op'.kind = op.kind /\ op'.worker = me
        /\ op'.discard = op.discard /\ op'.seen = op.seen
    BY <1>2, <1>0, ContinueTyped DEF me, Removal
  <2>2. Typed' /\ NothingOrphaned' /\ HandedOutWhole'
    BY <1>0, <1>1, <1>2, <2>1 DEF WorktreeInvariant, Typed, NothingOrphaned, HandedOutWhole, Kept,
       Settled, Bound, Whole
  <2> QED
    BY <1>0, <1>1, <1>2, <2>1, <2>2 DEF WorktreeInvariant, CreationFits, RemovalFits, Creation, Removal
<1>3. CASE Refuse
  BY <1>3, RefuseHolds
<1>4. CASE Delete /\ ~Refuse
  <2> DEFINE t == [NoTree EXCEPT !.registered = mine.registered]
  <2>1. t \in Tree /\ t.dir = "absent"
    BY <1>0 DEF Tree, NoTree, Changes
  <2>2. tree' = [tree EXCEPT ![me] = t]
    BY <1>4, <1>0 DEF Delete, mine, NoTree
  <2>3. Continue("unregister") /\ UNCHANGED <<record, kills, edits>>
    BY <1>4 DEF Delete
  <2> HIDE DEF t
  <2> QED
    BY <2>1, <2>2, <2>3, <1>2
<1>5. CASE Unregister
  <2> DEFINE t == [mine EXCEPT !.registered = FALSE]
  <2>1. t \in Tree /\ t.dir = mine.dir /\ ~t.registered
    BY <1>0 DEF Tree
  <2>2. tree' = [tree EXCEPT ![me] = t]
    BY <1>5, <1>0 DEF Unregister, mine
  <2>3. Continue("remove") /\ UNCHANGED <<record, kills, edits>> /\ op.at = "unregister"
    BY <1>5 DEF Unregister, At
  <2> HIDE DEF t
  <2> QED
    BY <2>1, <2>2, <2>3, <1>1, <1>2
<1>6. CASE Remove
  <2>1. /\ record' = [record EXCEPT ![me] = "removed"] /\ op' = Idle /\ UNCHANGED <<tree, kills, edits>>
        /\ tree[me].dir = "absent" /\ ~tree[me].registered
    BY <1>6, <1>1 DEF Remove, At, mine
  <2> QED
    BY <2>1, <1>0, IdleFits DEF WorktreeInvariant, Typed, Statuses, NothingOrphaned, HandedOutWhole,
       CreationFits, RemovalFits, Settled, Bound, Whole
<1> QED
  BY <1>3, <1>4, <1>5, <1>6

\* The start of a command, and its end by a kill or a mark.
LEMMA CommandSteps ==
  ASSUME WorktreeInvariant, NEW w \in Workers,
         \/ Kill
         \/ \E kind \in {"abort", "resume"} : RunWide(kind)
         \/ Create(w)
         \/ \E status \in Settled : Mark(w, status)
         \/ \E discard, failed \in BOOLEAN : Cleanup(w, discard, failed)
  PROVE  WorktreeInvariant'
<1>1. CASE Kill
  BY <1>1, IdleFits DEF Kill, WorktreeInvariant, Typed, NothingOrphaned, HandedOutWhole, CreationFits,
     RemovalFits, Bound, Whole
<1>2. ASSUME NEW kind \in {"abort", "resume"}, RunWide(kind) PROVE WorktreeInvariant'
  <2>1. op' \in Op /\ op'.at = "next"
    BY <1>2, IdleFits DEF RunWide, Op
  <2> QED
    BY <1>2, <2>1 DEF RunWide, WorktreeInvariant, Typed, NothingOrphaned, HandedOutWhole, CreationFits,
       RemovalFits, Creation, Removal, Bound, Whole
<1>3. CASE Create(w)
  <2>1. op' \in Op /\ op'.at = "look" /\ op'.kind = "create" /\ op'.worker = w
    BY <1>3, IdleFits DEF Create, Op
  <2> QED
    BY <1>3, <2>1 DEF Create, WorktreeInvariant, Typed, Statuses, Settled, NothingOrphaned,
       HandedOutWhole, CreationFits, RemovalFits, Removal, Bound, Whole
<1>4. ASSUME NEW status \in Settled, Mark(w, status) PROVE WorktreeInvariant'
  BY <1>4, IdleFits DEF Mark, WorktreeInvariant, Typed, Statuses, Settled, NothingOrphaned,
     HandedOutWhole, CreationFits, RemovalFits, Bound, Whole
<1>5. ASSUME NEW discard \in BOOLEAN, NEW failed \in BOOLEAN, Cleanup(w, discard, failed)
      PROVE  WorktreeInvariant'
  <2>0. tree[w] \in Tree
    BY DEF WorktreeInvariant, Typed
  <2>1. /\ op' \in Op /\ op'.at = "delete" /\ op'.kind = "cleanup" /\ op'.worker = w
        /\ op'.discard = discard /\ op'.seen = tree[w].changes
    BY <1>5, <2>0, IdleFits DEF Cleanup, Op, Tree
  <2>2. discard \/ tree[w].changes = {}
    BY <1>5 DEF Cleanup, Disposable, Whole
  <2>3. record[w] \in Kept /\ UNCHANGED <<record, tree, edits>>
    BY <1>5 DEF Cleanup, Kept
  <2> QED
    BY <2>1, <2>2, <2>3 DEF WorktreeInvariant, Typed, NothingOrphaned,
       HandedOutWhole, CreationFits, RemovalFits, Creation, Removal, Bound, Whole
<1> QED
  BY <1>1, <1>2, <1>3, <1>4, <1>5

\* What workers and users do: directories appear with an intent only.
LEMMA EditSteps ==
  ASSUME WorktreeInvariant, NEW w \in Workers,
         (\E what \in Changes : Change(w, what)) \/ RemoveByHand(w) \/ Prune(w)
  PROVE  WorktreeInvariant'
<1>0. tree[w] \in Tree /\ edits \in Nat /\ tree \in [Workers -> Tree]
  BY DEF WorktreeInvariant, Typed
<1>1. ASSUME NEW t \in Tree, Edit(w, t),
             t.dir = "absent" \/ t.dir = tree[w].dir,
             t.registered => tree[w].registered
      PROVE  WorktreeInvariant'
  <2>1. /\ edits' = edits + 1 /\ edits' # 0 /\ edits' \in Nat
        /\ tree' = [tree EXCEPT ![w] = t] /\ UNCHANGED <<record, op>>
    BY <1>0, <1>1 DEF Edit
  <2> QED
    BY <1>0, <1>1, <2>1 DEF WorktreeInvariant, Typed, NothingOrphaned, HandedOutWhole, CreationFits, RemovalFits
<1>2. ASSUME NEW what \in Changes, Change(w, what) PROVE WorktreeInvariant'
  <2> DEFINE t == [tree[w] EXCEPT !.changes = @ \cup {what}]
  <2>1. t \in Tree /\ t.dir = tree[w].dir /\ t.registered = tree[w].registered
    BY <1>0 DEF Tree
  <2>2. Edit(w, t)
    BY <1>2 DEF Change
  <2> HIDE DEF t
  <2> QED
    BY <2>1, <2>2, <1>1
<1>3. CASE RemoveByHand(w)
  <2> DEFINE t == [NoTree EXCEPT !.registered = tree[w].registered]
  <2>1. t \in Tree /\ t.dir = "absent" /\ t.registered = tree[w].registered
    BY <1>0 DEF Tree, NoTree
  <2>2. Edit(w, t)
    BY <1>3 DEF RemoveByHand
  <2> HIDE DEF t
  <2> QED
    BY <2>1, <2>2, <1>1
<1>4. CASE Prune(w)
  <2> DEFINE t == [tree[w] EXCEPT !.registered = FALSE]
  <2>1. t \in Tree /\ t.dir = tree[w].dir /\ ~t.registered
    BY <1>0 DEF Tree
  <2>2. Edit(w, t)
    BY <1>4 DEF Prune
  <2> HIDE DEF t
  <2> QED
    BY <2>1, <2>2, <1>1
<1> QED
  BY <1>2, <1>3, <1>4

\* The invariant is inductive.
LEMMA StepHolds == WorktreeInvariant /\ [Next]_vars => WorktreeInvariant'
<1> SUFFICES ASSUME WorktreeInvariant, [Next]_vars PROVE WorktreeInvariant'
  OBVIOUS
<1>1. CASE Step
  BY <1>1, CreationSteps, RunWideSteps, RemovalSteps DEF Step
<1>2. CASE UNCHANGED vars
  BY <1>2 DEF vars, WorktreeInvariant, Typed, NothingOrphaned, HandedOutWhole, CreationFits,
     RemovalFits, Bound, Whole
<1>3. CASE RunWide("abort") \/ RunWide("resume") \/ Kill
  BY <1>3, CommandSteps, BoundsAreNatural
<1>4. ASSUME NEW w \in Workers,
             \/ Create(w)
             \/ \E status \in Settled : Mark(w, status)
             \/ \E discard, failed \in BOOLEAN : Cleanup(w, discard, failed)
      PROVE  WorktreeInvariant'
  BY <1>4, CommandSteps
<1>5. ASSUME NEW w \in Workers, (\E what \in Changes : Change(w, what)) \/ RemoveByHand(w) \/ Prune(w)
      PROVE  WorktreeInvariant'
  BY <1>5, EditSteps
<1>6. ASSUME NEW w \in Workers,
             \/ Create(w)
             \/ \E status \in Settled : Mark(w, status)
             \/ \E discard, failed \in BOOLEAN : Cleanup(w, discard, failed)
             \/ \E what \in Changes : Change(w, what)
             \/ RemoveByHand(w)
             \/ Prune(w)
      PROVE  WorktreeInvariant'
  BY <1>4, <1>5, <1>6
<1> QED
  BY <1>1, <1>2, <1>3, <1>6 DEF Next

\* Every reachable state has it.
LEMMA InvariantHolds == Spec => []WorktreeInvariant
  BY InitHolds, StepHolds, PTL DEF Spec

\* Whatever is killed, replayed, cancelled or removed, no directory and no git
\* registration is without its record, and a worker is handed a tree that holds
\* the frozen base (create, _finish_creating, cleanup, abort_run).
THEOREM OwnershipIsKept == Spec => []OwnershipHolds
<1>1. WorktreeInvariant => OwnershipHolds
  BY DEF WorktreeInvariant, OwnershipHolds, Typed
<1> QED
  BY <1>1, InvariantHolds, PTL

\* What WorkIsKept allows a step to do to the changes in a tree.
Keeps(w) ==
    LET lost == tree[w].changes \ tree'[w].changes
    IN  lost # {} => \/ RemoveByHand(w)
                     \/ w = me /\ op.kind = "cleanup" /\ (op.discard \/ lost \subseteq {"commit"} \ op.seen)
                     \/ record[w] = "creating" /\ lost = {"tracked"}

\* A step that leaves the changes of a tree alone loses nothing of it.
LEMMA NothingLost == ASSUME NEW w \in Workers, tree[w].changes \subseteq tree'[w].changes PROVE Keeps(w)
  BY DEF Keeps

\* Each step keeps what somebody did in a tree, or is allowed to lose it.
LEMMA StepKeeps == ASSUME WorktreeInvariant, [Next]_vars, NEW w \in Workers PROVE Keeps(w)
<1>0. tree \in [Workers -> Tree] /\ op \in Op /\ me \in Workers /\ mine \in Tree
  BY DEF WorktreeInvariant, Typed, Op, me, mine
<1>1. CASE UNCHANGED tree
  BY <1>1, NothingLost
<1>2. CASE Publish \/ Tag \/ Register \/ MarkGit \/ Unregister
  <2>1. tree'[w].changes = tree[w].changes
    BY <1>0, <1>2, <1>1 DEF Publish, Tag, Register, MarkGit, Unregister, Refuse, Tree
  <2> QED
    BY <2>1, NothingLost
<1>3. CASE Checkout /\ ~UNCHANGED tree
  <2>1. /\ mine.changes \subseteq {"tracked"} /\ At("checkout")
        /\ tree' = [tree EXCEPT ![me].files = IF @ = "none" THEN "some" ELSE "base",
                                ![me].changes = {}]
    BY <1>3 DEF Checkout, Refuse
  <2>2. tree'[me].changes = {} /\ (w # me => tree'[w] = tree[w])
    BY <2>1, <1>0 DEF Tree
  <2>3. record[me] = "creating"
    BY <2>1 DEF WorktreeInvariant, CreationFits, At, Creation, me
  <2> QED
    BY <2>1, <2>2, <2>3 DEF Keeps, mine
<1>4. CASE Delete /\ ~UNCHANGED tree
  <2>1. /\ op.discard \/ mine.changes \subseteq {"commit"}
        /\ At("delete")
        /\ tree' = [tree EXCEPT ![me] = [NoTree EXCEPT !.registered = mine.registered]]
    BY <1>4 DEF Delete, Refuse
  <2>2. w # me => tree'[w] = tree[w]
    BY <2>1, <1>0
  <2>3. op.kind = "cleanup" /\ (op.discard \/ op.seen = {})
    BY <2>1 DEF WorktreeInvariant, RemovalFits, At, Removal
  <2> QED
    BY <2>1, <2>2, <2>3 DEF Keeps, mine
<1>5. ASSUME NEW v \in Workers, NEW what \in Changes, Change(v, what) PROVE Keeps(w)
  <2>1. tree' = [tree EXCEPT ![v] = [tree[v] EXCEPT !.changes = @ \cup {what}]]
    BY <1>5 DEF Change, Edit
  <2>2. tree[w].changes \subseteq tree'[w].changes
    BY <2>1, <1>0 DEF Tree
  <2> QED
    BY <2>2, NothingLost
<1>6. ASSUME NEW v \in Workers, RemoveByHand(v) PROVE Keeps(w)
  <2>1. w # v => tree'[w] = tree[w]
    BY <1>6, <1>0 DEF RemoveByHand, Edit
  <2> QED
    BY <2>1, <1>6 DEF Keeps
<1>7. ASSUME NEW v \in Workers, Prune(v) PROVE Keeps(w)
  <2>1. tree[w].changes = tree'[w].changes
    BY <1>7, <1>0 DEF Prune, Edit, Tree
  <2> QED
    BY <2>1, NothingLost
<1>8. CASE Step
  BY <1>8, <1>1, <1>2, <1>3, <1>4 DEF Step, Look, Refuse, Reuse, Bind, Record, AbortNext, ResumeNext, Remove
<1>9. ASSUME NEW v \in Workers,
             \/ Create(v)
             \/ \E status \in Settled : Mark(v, status)
             \/ \E discard, failed \in BOOLEAN : Cleanup(v, discard, failed)
      PROVE  Keeps(w)
  BY <1>9, <1>1 DEF Create, Mark, Cleanup
<1>10. CASE RunWide("abort") \/ RunWide("resume") \/ Kill \/ UNCHANGED vars
  BY <1>10, <1>1 DEF RunWide, Kill, vars
<1> QED
  BY <1>5, <1>6, <1>7, <1>8, <1>9, <1>10 DEF Next

\* What somebody did in a tree is lost by his own hand, with the permission to
\* discard it, or because he did it after the command's last look.
THEOREM WorkStays == Spec => WorkIsKept
<1>1. WorktreeInvariant /\ [Next]_vars => [\A w \in Workers : Keeps(w)]_vars
  BY StepKeeps
<1> QED
  BY <1>1, InvariantHolds, PTL DEF Spec, WorkIsKept, Keeps
============================================================================
