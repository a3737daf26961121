-------------------------- MODULE ProjectMutation --------------------------
(***************************************************************************)
(* Who may write a project, and what survives a crash.  An installer,      *)
(* upgrade or migration (secure_fs.ProjectTransaction) takes the exclusive *)
(* project lease, recovers what an earlier one left behind, saves the      *)
(* protected surface, publishes a marker and a journal, and then changes   *)
(* the live entries; ledger commands (pipeline._pipeline_write_lock) take  *)
(* the shared lease, then the O_EXCL lock file of the snapshot, which lies *)
(* inside the protected surface.  Any process may die between two steps.   *)
(*                                                                         *)
(* Data: an entry of the surface is the generation that wrote it; the      *)
(* snapshot is the set of commands whose writes it holds.  A lease is held *)
(* exactly while its holder is at work, since flock dies with the process. *)
(***************************************************************************)
EXTENDS Integers, FiniteSets

CONSTANTS NumEntries,       \* protected paths, saved and restored in this order
          Writers,          \* ledger commands, each run once
          MaxTransactions,  \* bound: transactions begun
          MaxCrashes,       \* bound: interruptions of transactions
          None              \* the absent value

ASSUME EntriesAssumption == NumEntries \in Nat \ {0}
ASSUME BoundsAssumption == MaxTransactions \in Nat /\ MaxCrashes \in Nat
ASSUME NobodyAssumption == None \notin Writers

VARIABLES tx,        \* the transaction or recovery under way: where, for what, at which entry
          live,      \* the protected surface on disk
          backup,    \* the rollback copy of the newest transaction directory
          marker,    \* its transaction.json
          pc,        \* where each ledger command is
          copy,      \* the snapshot each ledger command loaded
          gen,       \* transactions begun
          crashes,   \* transactions interrupted
          committed, \* auxiliary: the newest generation whose commit reached the marker
          exposed,   \* auxiliary: commands that wrote over an interrupted transaction
          torn       \* auxiliary: the window a transaction was lost in, if it was

disk == <<live, backup, marker>>
ghosts == <<committed, exposed, torn>>
vars == <<tx, disk, pc, copy, gen, crashes, ghosts>>

Entries == 1 .. NumEntries
State == NumEntries              \* the entry that holds snapshot, lock file and journal

Phases == {"absent", "applying", "committed"}

Content == [there : BOOLEAN, gen : {None} \cup 0 .. MaxTransactions,
            ledger : {None} \cup SUBSET Writers, lock : {None} \cup Writers,
            journal : Phases]

Gone == [there |-> FALSE, gen |-> None, ledger |-> None, lock |-> None,
         journal |-> "absent"]
Hollow == [Gone EXCEPT !.there = TRUE]       \* an emptied directory

Marker == [phase : Phases, present : SUBSET Entries]
NoMarker == [phase |-> "absent", present |-> {}]

Busy == {"leased", "locked", "loaded", "stored", "refusing", "unlocked"}
Holding == {"locked", "loaded", "stored", "refusing"}

ExclusiveLease == tx.at # "idle"
SharedLease == \E w \in Writers : pc[w] \in Busy
Ledger == live[State].ledger

---------------------------------------------------------------------------
(* The transaction: begin(), the mutation, commit(), rollback().           *)

Idle == [at |-> "idle", goal |-> "release", pos |-> 1]
Goto(step) == tx' = [tx EXCEPT !.at = step, !.pos = 1]
At(step) == tx.at = step
Last == tx.pos = NumEntries
Advance(step) == tx' = IF Last THEN [tx EXCEPT !.at = step, !.pos = 1]
                               ELSE [tx EXCEPT !.pos = @ + 1]

\* Mutant: the lease is not exclusive.
BeginUnleased(goal) ==
    /\ At("idle")
    /\ goal = "save" => gen < MaxTransactions
    /\ tx' = [at |-> "recovering", goal |-> goal, pos |-> 1]
    /\ UNCHANGED <<disk, pc, copy, gen, crashes, ghosts>>

\* The lease is non-blocking: while anyone holds one, begin() fails.
Begin(goal) ==
    /\ At("idle")
    /\ ~SharedLease
    /\ goal = "save" => gen < MaxTransactions
    /\ tx' = [at |-> "recovering", goal |-> goal, pos |-> 1]
    /\ UNCHANGED <<disk, pc, copy, gen, crashes, ghosts>>

\* What follows recovery or restoration: the snapshot of the new transaction,
\* in a transaction directory of its own, or the release of the lease.
AfterRecovery(step) ==
    IF step = "save"
    THEN /\ tx' = [at |-> "saving", goal |-> "release", pos |-> 1]
         /\ gen' = gen + 1
         /\ backup' = [e \in Entries |-> Gone]
    ELSE /\ tx' = Idle
         /\ UNCHANGED <<gen, backup>>

\* Every copy the marker declares must be there before live data is deleted.
Preflight == \A e \in marker.present : backup[e].there
Restore == IF Preflight THEN Goto("emptying") ELSE tx' = Idle

\* Mutant: whatever transaction is found is taken for committed.
RecoverForward ==
    /\ At("recovering")
    /\ \/ /\ marker.phase = "absent"
          /\ AfterRecovery(tx.goal)
       \/ /\ marker.phase # "absent"
          /\ Goto("dropping")
          /\ UNCHANGED <<backup, gen>>
    /\ UNCHANGED <<live, marker, pc, copy, crashes, ghosts>>

Recover ==
    /\ At("recovering")
    /\ \/ /\ marker.phase = "absent"
          /\ AfterRecovery(tx.goal)
       \/ /\ marker.phase = "committed"
          /\ Goto("dropping")
          /\ UNCHANGED <<backup, gen>>
       \/ /\ marker.phase = "applying"
          /\ Restore
          /\ UNCHANGED <<backup, gen>>
    /\ UNCHANGED <<live, marker, pc, copy, crashes, ghosts>>

Save ==
    /\ At("saving")
    /\ backup' = [backup EXCEPT ![tx.pos] = live[tx.pos]]
    /\ Advance("marking")
    /\ UNCHANGED <<live, marker, pc, copy, gen, crashes, ghosts>>

WriteMarker ==
    /\ At("marking")
    /\ marker' = [phase |-> "applying", present |-> {e \in Entries : backup[e].there}]
    /\ Goto("journaling")
    /\ UNCHANGED <<live, backup, pc, copy, gen, crashes, ghosts>>

WriteJournal ==
    /\ At("journaling")
    /\ live' = [live EXCEPT ![State].journal = "applying", ![State].there = TRUE]
    /\ Goto("applying")
    /\ UNCHANGED <<backup, marker, pc, copy, gen, crashes, ghosts>>

Apply ==
    /\ At("applying")
    /\ live' = [live EXCEPT ![tx.pos].gen = gen, ![tx.pos].there = TRUE]
    /\ Advance("committing")
    /\ UNCHANGED <<backup, marker, pc, copy, gen, crashes, ghosts>>

\* The top-level marker is the commit point.
Commit ==
    /\ At("committing")
    /\ marker' = [marker EXCEPT !.phase = "committed"]
    /\ committed' = gen
    /\ Goto("closing")
    /\ UNCHANGED <<live, backup, pc, copy, gen, crashes, exposed, torn>>

CloseJournal ==
    /\ At("closing")
    /\ live' = [live EXCEPT ![State].journal = "committed"]
    /\ Goto("dropping")
    /\ UNCHANGED <<backup, marker, pc, copy, gen, crashes, ghosts>>

DropJournal ==
    /\ At("dropping")
    /\ live' = [live EXCEPT ![State].journal = "absent"]
    /\ Goto("sweeping")
    /\ UNCHANGED <<backup, marker, pc, copy, gen, crashes, ghosts>>

\* A step that raises is rolled back from the document in memory.
Fail ==
    /\ tx.at \in {"marking", "journaling", "applying", "committing"}
    /\ crashes < MaxCrashes
    /\ crashes' = crashes + 1
    /\ Restore
    /\ UNCHANGED <<disk, pc, copy, gen, ghosts>>

---------------------------------------------------------------------------
(* _restore_document() and remove_tree().                                  *)

Empty ==
    /\ At("emptying")
    /\ live' = [live EXCEPT ![tx.pos] = Gone]
    /\ tx' = [tx EXCEPT !.at = "refilling"]
    /\ UNCHANGED <<backup, marker, pc, copy, gen, crashes, ghosts>>

Refill ==
    /\ At("refilling")
    /\ live' = [live EXCEPT ![tx.pos] = backup[tx.pos]]
    /\ tx' = IF Last THEN [tx EXCEPT !.at = "sweeping", !.pos = 1]
                     ELSE [tx EXCEPT !.at = "emptying", !.pos = @ + 1]
    /\ UNCHANGED <<backup, marker, pc, copy, gen, crashes, ghosts>>

\* remove_tree() goes down in name order: rollback/ before transaction.json, a
\* directory's contents before the directory.
Removed(c) == IF c.there /\ c # Hollow THEN Hollow ELSE Gone

Sweep ==
    /\ At("sweeping")
    /\ IF backup[tx.pos].there
       THEN /\ backup' = [backup EXCEPT ![tx.pos] = Removed(backup[tx.pos])]
            /\ UNCHANGED <<tx, marker, gen>>
       ELSE IF ~Last
            THEN Advance("sweeping") /\ UNCHANGED <<backup, marker, gen>>
            ELSE marker' = NoMarker /\ AfterRecovery(tx.goal)
    /\ UNCHANGED <<live, pc, copy, crashes, ghosts>>

---------------------------------------------------------------------------
(* A process dies, is killed, or a recovery raises: the lease is free and  *)
(* what is on disk stays.  Two windows lose data, and are remembered: a    *)
(* rolled back transaction whose copies are partly swept while its marker  *)
(* still says "applying", and a restoration that never had a marker.       *)

Window ==
    CASE /\ At("sweeping") /\ marker.phase = "applying"
         /\ \E e \in marker.present : backup[e] \in {Hollow, Gone} -> "sweep"
      [] tx.at \in {"emptying", "refilling"} /\ marker.phase = "absent" -> "unmarked"
      [] OTHER -> "none"

Interrupt ==
    /\ ~At("idle")
    /\ crashes < MaxCrashes
    /\ crashes' = crashes + 1
    /\ tx' = Idle
    /\ torn' = IF torn = "none" THEN Window ELSE torn
    /\ UNCHANGED <<disk, pc, copy, gen, committed, exposed>>

Transaction ==
    \/ Recover \/ Save \/ WriteMarker \/ WriteJournal \/ Apply \/ Commit
    \/ CloseJournal \/ DropJournal \/ Empty \/ Refill \/ Sweep

---------------------------------------------------------------------------
(* A ledger command: shared lease, lock file, load, store, unlock, return. *)

Move(w, from, to) == pc[w] = from /\ pc' = [pc EXCEPT ![w] = to]

TakeLease(w) ==
    /\ ~ExclusiveLease
    /\ Move(w, "idle", "leased")
    /\ UNCHANGED <<tx, disk, copy, gen, crashes, ghosts>>

\* Mutant: a lock file somebody else left or holds is taken over.
LockByForce(w) ==
    /\ Move(w, "leased", "locked")
    /\ live' = [live EXCEPT ![State].lock = w, ![State].there = TRUE]
    /\ UNCHANGED <<tx, backup, marker, copy, gen, crashes, ghosts>>

\* mkdir of the state directory, then the O_EXCL creation.
Lock(w) ==
    /\ live[State].lock = None
    /\ Move(w, "leased", "locked")
    /\ live' = [live EXCEPT ![State].lock = w, ![State].there = TRUE]
    /\ UNCHANGED <<tx, backup, marker, copy, gen, crashes, ghosts>>

\* Mutant: only a live owner of the lock file is given up on.
LockTimeoutAlive(w) ==
    /\ \E v \in Writers : live[State].lock = v /\ pc[v] \in Holding
    /\ Move(w, "leased", "failed")
    /\ UNCHANGED <<tx, disk, copy, gen, crashes, ghosts>>

\* The deadline passes while the lock file is still there, whoever left it.
LockTimeout(w) ==
    /\ live[State].lock # None
    /\ Move(w, "leased", "failed")
    /\ UNCHANGED <<tx, disk, copy, gen, crashes, ghosts>>

Load(w) ==
    /\ Move(w, "locked", IF Ledger = None THEN "refusing" ELSE "loaded")
    /\ copy' = [copy EXCEPT ![w] = Ledger]
    /\ UNCHANGED <<tx, disk, gen, crashes, ghosts>>

\* The transaction marker is not looked at.
Store(w) ==
    /\ Move(w, "loaded", "stored")
    /\ live' = [live EXCEPT ![State].ledger = copy[w] \cup {w}]
    /\ exposed' = IF marker.phase = "applying" THEN exposed \cup {w} ELSE exposed
    /\ UNCHANGED <<tx, backup, marker, copy, gen, crashes, committed, torn>>

Unlock(w) ==
    /\ \/ Move(w, "stored", "unlocked")
       \/ Move(w, "refusing", "failed")
    /\ live' = [live EXCEPT ![State].lock = None]
    /\ UNCHANGED <<tx, backup, marker, copy, gen, crashes, ghosts>>

\* Success is reported after the lease is released.
Return(w) ==
    /\ Move(w, "unlocked", "acknowledged")
    /\ UNCHANGED <<tx, disk, copy, gen, crashes, ghosts>>

Die(w) ==
    /\ pc[w] \in Busy
    /\ pc' = [pc EXCEPT ![w] = "dead"]
    /\ UNCHANGED <<tx, disk, copy, gen, crashes, ghosts>>

\* A lock file is never reclaimed by age: an operator removes it after verifying
\* that no writer owns it.
RemoveStaleLock ==
    /\ live[State].lock # None
    /\ \A w \in Writers : pc[w] \notin Holding
    /\ live' = [live EXCEPT ![State].lock = None]
    /\ UNCHANGED <<tx, backup, marker, pc, copy, gen, crashes, ghosts>>

Command(w) == Lock(w) \/ LockTimeout(w) \/ Load(w) \/ Store(w) \/ Unlock(w) \/ Return(w)

---------------------------------------------------------------------------
Init ==
    /\ tx = Idle
    /\ live = [e \in Entries |->
                 [Gone EXCEPT !.there = TRUE, !.gen = 0,
                              !.ledger = IF e = State THEN {} ELSE None]]
    /\ backup = [e \in Entries |-> Gone]
    /\ marker = NoMarker
    /\ pc = [w \in Writers |-> "idle"]
    /\ copy = [w \in Writers |-> {}]
    /\ gen = 0
    /\ crashes = 0
    /\ committed = 0
    /\ exposed = {}
    /\ torn = "none"

Next ==
    \/ \E goal \in {"save", "release"} : Begin(goal)
    \/ Transaction
    \/ Fail
    \/ Interrupt
    \/ \E w \in Writers : TakeLease(w) \/ Command(w) \/ Die(w)
    \/ RemoveStaleLock

\* A running process keeps running; nobody is obliged to start one, to retry, or
\* to remove a lock.
Fairness == /\ WF_vars(Transaction)
            /\ \A w \in Writers : WF_vars(Command(w))

Spec == Init /\ [][Next]_vars /\ Fairness
---------------------------------------------------------------------------
Steps == {"idle", "recovering", "saving", "marking", "journaling", "applying",
          "committing", "closing", "dropping", "emptying", "refilling", "sweeping"}

\* Every variable has its type.
TypeOK ==
    /\ tx \in [at : Steps, goal : {"save", "release"}, pos : Entries]
    /\ live \in [Entries -> Content]
    /\ backup \in [Entries -> Content]
    /\ marker \in Marker
    /\ pc \in [Writers -> Busy \cup {"idle", "acknowledged", "failed", "dead"}]
    /\ copy \in [Writers -> {None} \cup SUBSET Writers]
    /\ gen \in 0 .. MaxTransactions
    /\ crashes \in 0 .. MaxCrashes
    /\ committed \in 0 .. MaxTransactions
    /\ exposed \in SUBSET Writers
    /\ torn \in {"none", "sweep", "unmarked"}

Wrote == {w \in Writers : pc[w] \in {"stored", "unlocked", "acknowledged"}}

\* Nothing is in progress or waiting to be recovered.
Settled == At("idle") /\ marker.phase = "absent"

\* A transaction is all or nothing, wherever it or its recovery was interrupted:
\* on a settled project every entry is of the last generation whose commit
\* reached the marker (ProjectTransaction, _recover_interrupted_transaction_locked).
\* Until then interruptions never make recovery impossible: while the marker
\* says "applying" and the copies are not being swept, they are complete, of the
\* committed generation, and hold every write made before the transaction began
\* ("its presence promises that the rollback snapshot is complete", begin()).
AllOrNothing ==
    torn = "none" =>
        /\ Settled => \A e \in Entries : live[e].gen = committed
        /\ marker.phase = "applying" /\ ~At("sweeping") =>
              /\ Preflight
              /\ \A e \in Entries : backup[e].gen = committed
              /\ (Wrote \ exposed) \subseteq backup[State].ledger

\* A command that wrote while no transaction was waiting to be recovered keeps its
\* write, whatever transactions, rollbacks and other commands follow
\* (_pipeline_write_lock).
WritesKept ==
    torn = "none" /\ Settled => (Wrote \ exposed) \subseteq Ledger

\* Between a command's load and its store nobody else writes the snapshot or takes
\* its lock file away, stale locks and their removal included (_snapshot_lock).
NoLostUpdate ==
    \A w \in Writers :
        /\ pc[w] \in Holding => live[State].lock = w
        /\ pc[w] = "loaded" => copy[w] = Ledger

\* Everyone who got a lease gives it up again: a ledger command, although a dead
\* one may have left the lock file behind for good (_LOCK_TIMEOUT_S), and a
\* transaction or recovery, whichever of its steps raised.
EveryoneReturns ==
    /\ \A w \in Writers : pc[w] \in Busy ~> pc[w] \notin Busy
    /\ ~At("idle") ~> At("idle")
=============================================================================
