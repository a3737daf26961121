----------------------- MODULE ProjectMutationProofs -----------------------
(***************************************************************************)
(* Proofs about ProjectMutation, for any number of protected entries,      *)
(* ledger commands, transactions and interruptions, and about the commands *)
(* that ProjectLifecycle runs inside such transactions.  AllOrNothing      *)
(* speaks of settled projects and of unfinished recoveries; what makes it  *)
(* inductive is what each step of a transaction knows of the copies, the   *)
(* marker and the live entries behind and before its position.  That no    *)
(* command loses what a user wrote rests on the records never holding it.  *)
(***************************************************************************)
EXTENDS ProjectMutation, ProjectLifecycle, TLAPS

USE EntriesAssumption, BoundsAssumption

Where == [at : Steps, goal : {"save", "release"}, pos : Entries]
Places == Busy \cup {"idle", "acknowledged", "failed", "dead"}

\* The lease excludes ledger commands from a transaction under way.
LeaseExcludes == ExclusiveLease => \A w \in Writers : pc[w] \notin Busy

\* A loaded snapshot is one.
LoadedIsSnapshot == \A w \in Writers : pc[w] = "loaded" => copy[w] \in SUBSET Writers

\* Room for the transaction that a recovery is to be followed by.
SaveHasRoom == tx.goal = "save" /\ tx.at # "idle" => gen < MaxTransactions

CommandInvariant == TypeOK /\ SaveHasRoom /\ LeaseExcludes /\ NoLostUpdate /\ LoadedIsSnapshot

\* The first, last and next position.
LEMMA Positions == /\ 1 \in Entries /\ State \in Entries
                   /\ \A n \in Entries : n # NumEntries => n + 1 \in Entries
  BY DEF Entries, State

\* What an entry can hold.
LEMMA GoneTyped == Gone \in Content /\ Hollow \in Content /\ Hollow.there /\ ~Gone.there
  BY DEF Gone, Hollow, Content, Phases

\* The initial state.
LEMMA CommandsInit == Init => CommandInvariant
<1> SUFFICES ASSUME Init PROVE CommandInvariant
  OBVIOUS
<1>0. 0 \in 0 .. MaxTransactions /\ 0 \in 0 .. MaxCrashes
  OBVIOUS
<1>1. \A e \in Entries : \A x \in {None} \cup SUBSET Writers :
         [Gone EXCEPT !.there = TRUE, !.gen = 0, !.ledger = x] \in Content
  BY <1>0 DEF Content, Gone, Phases
<1>2. live \in [Entries -> Content]
  <2>1. \A e \in Entries : (IF e = State THEN {} ELSE None) \in {None} \cup SUBSET Writers
    OBVIOUS
  <2> QED
    BY <1>1, <2>1 DEF Init
<1>3. tx \in [at : Steps, goal : {"save", "release"}, pos : Entries]
  BY Positions DEF Init, Idle, Steps
<1>4. backup \in [Entries -> Content] /\ marker \in Marker
  BY GoneTyped DEF Init, NoMarker, Marker, Phases
<1>5. TypeOK
  BY <1>0, <1>2, <1>3, <1>4 DEF Init, TypeOK
<1> QED
  BY <1>5 DEF Init, CommandInvariant, SaveHasRoom, LeaseExcludes, ExclusiveLease, Idle, NoLostUpdate, Holding,
     LoadedIsSnapshot

\* The place a transaction goes to.
LEMMA GotoTyped ==
  ASSUME TypeOK, NEW step \in Steps
  PROVE  /\ [tx EXCEPT !.at = step, !.pos = 1] \in Where
         /\ Goto(step) => tx'.at = step /\ tx'.pos = 1 /\ tx'.goal = tx.goal
         /\ Advance(step) => /\ tx' \in Where
                             /\ tx'.goal = tx.goal
                             /\ \/ tx.pos = NumEntries /\ tx'.at = step /\ tx'.pos = 1
                                \/ tx.pos # NumEntries /\ tx'.at = tx.at /\ tx'.pos = tx.pos + 1
<1>1. tx \in Where
  BY DEF TypeOK, Where
<1> QED
  BY <1>1, Positions DEF Goto, Advance, Last, Where

\* What AfterRecovery, Restore and Advance leave of the types.
LEMMA AfterRecoveryTyped ==
  ASSUME TypeOK, NEW step \in {"save", "release"}, step = "save" => gen < MaxTransactions, AfterRecovery(step)
  PROVE  tx' \in Where /\ gen' \in 0 .. MaxTransactions /\ backup' \in [Entries -> Content]
  BY GoneTyped, Positions DEF TypeOK, AfterRecovery, Idle, Where, Steps

\* A transaction at work changes entries to entries.
LEMMA EntryTyped ==
  ASSUME NEW c \in Content, NEW phase \in Phases, NEW g \in 0 .. MaxTransactions
  PROVE  /\ [c EXCEPT !.journal = phase] \in Content
         /\ [c EXCEPT !.gen = g, !.there = TRUE] \in Content
         /\ [c EXCEPT !.journal = phase, !.there = TRUE] \in Content
  BY DEF Content

\* An update of one entry.
LEMMA OneEntry ==
  ASSUME NEW f \in [Entries -> Content], NEW e \in Entries, NEW c \in Content
  PROVE  [f EXCEPT ![e] = c] \in [Entries -> Content]
  OBVIOUS

\* The steps of a transaction keep the types.
LEMMA TransactionTyped ==
  ASSUME TypeOK, SaveHasRoom, Transaction \/ Fail \/ Interrupt \/ \E goal \in {"save", "release"} : Begin(goal)
  PROVE  TypeOK' /\ SaveHasRoom' /\ UNCHANGED <<pc, copy>>
<1> USE DEF Where
<1>0. tx \in Where /\ tx.pos \in Entries /\ live \in [Entries -> Content] /\ backup \in [Entries -> Content]
      /\ marker \in Marker /\ gen \in 0 .. MaxTransactions /\ crashes \in 0 .. MaxCrashes
  BY DEF TypeOK
<1>a. \A step \in Steps : Goto(step) => tx' \in Where /\ tx'.goal = tx.goal
  BY GotoTyped DEF Goto
<1>b. \A step \in Steps : Advance(step) => tx' \in Where /\ tx'.goal = tx.goal
  BY GotoTyped
<1>c. Restore => tx' \in Where /\ (tx'.at = "idle" \/ tx'.goal = tx.goal)
  BY <1>a, Positions DEF Restore, Idle, Steps
<1>d. ASSUME tx' \in Where, tx'.at = "idle" \/ tx'.goal = tx.goal, ~At("idle"), UNCHANGED <<gen, crashes, ghosts>>,
             live' \in [Entries -> Content], backup' \in [Entries -> Content], marker' \in Marker,
             UNCHANGED <<pc, copy>>
      PROVE  TypeOK' /\ SaveHasRoom'
  BY <1>d DEF TypeOK, SaveHasRoom, At, ghosts
<1>1. CASE \E goal \in {"save", "release"} : Begin(goal)
  BY <1>1, Positions DEF Begin, TypeOK, SaveHasRoom, Steps, disk, ghosts
<1>2. CASE Recover
  <2>1. CASE marker.phase = "absent"
    <3>1. AfterRecovery(tx.goal) /\ UNCHANGED <<live, marker, pc, copy, crashes, ghosts>> /\ At("recovering")
      BY <1>2, <2>1 DEF Recover
    <3>2. tx' \in Where /\ gen' \in 0 .. MaxTransactions /\ backup' \in [Entries -> Content]
      BY <3>1, <1>0, AfterRecoveryTyped DEF SaveHasRoom, At
    <3>3. tx'.goal = "release"
      BY <3>1 DEF AfterRecovery, Idle
    <3> QED
      BY <3>1, <3>2, <3>3 DEF TypeOK, SaveHasRoom, ghosts
  <2>2. CASE marker.phase # "absent"
    BY <1>2, <2>2, <1>0, <1>a, <1>c, <1>d DEF Recover, At, Steps
  <2> QED
    BY <2>1, <2>2
<1>3. CASE Save
  BY <1>3, <1>0, <1>b, <1>d DEF Save, At, Steps
<1>4. CASE WriteMarker
  BY <1>4, <1>0, <1>a, <1>d DEF WriteMarker, At, Steps, Marker, Phases
<1>5. CASE WriteJournal
  <2>1. live' = [live EXCEPT ![State] = [live[State] EXCEPT !.journal = "applying", !.there = TRUE]]
    BY <1>5, <1>0, Positions DEF WriteJournal, Content
  <2>2. live' \in [Entries -> Content]
    BY <2>1, <1>0, Positions, EntryTyped DEF Phases
  <2> QED
    BY <2>2, <1>5, <1>0, <1>a, <1>d DEF WriteJournal, At, Steps
<1>6. CASE Apply
  <2>1. live' = [live EXCEPT ![tx.pos] = [live[tx.pos] EXCEPT !.gen = gen, !.there = TRUE]]
    BY <1>6, <1>0, Positions DEF Apply, Content
  <2>2. live' \in [Entries -> Content]
    BY <2>1, <1>0, Positions, EntryTyped DEF Phases
  <2> QED
    BY <2>2, <1>6, <1>0, <1>b, <1>d DEF Apply, At, Steps
<1>7. CASE Commit
  <2>1. marker' \in Marker
    BY <1>7, <1>0 DEF Commit, Marker, Phases
  <2>2. tx' \in Where /\ tx'.goal = tx.goal
    BY <1>7, <1>a DEF Commit, Steps
  <2> QED
    BY <2>1, <2>2, <1>7 DEF Commit, At, TypeOK, SaveHasRoom
<1>8. CASE CloseJournal
  <2>1. live' \in [Entries -> Content]
    BY <1>8, <1>0, Positions, EntryTyped DEF CloseJournal, Phases
  <2> QED
    BY <2>1, <1>8, <1>0, <1>a, <1>d DEF CloseJournal, At, Steps
<1>9. CASE DropJournal
  <2>1. live' \in [Entries -> Content]
    BY <1>9, <1>0, Positions, EntryTyped DEF DropJournal, Phases
  <2> QED
    BY <2>1, <1>9, <1>0, <1>a, <1>d DEF DropJournal, At, Steps
<1>10. CASE Empty
  <2>1. tx' \in Where /\ tx'.goal = tx.goal
    BY <1>10, <1>0 DEF Empty, Steps
  <2> QED
    BY <2>1, <1>10, <1>0, <1>d, GoneTyped DEF Empty, At
<1>11. CASE Refill
  <2>1. tx' \in Where /\ tx'.goal = tx.goal
    BY <1>11, <1>0, Positions DEF Refill, Steps, Last
  <2> QED
    BY <2>1, <1>11, <1>0, <1>d DEF Refill, At
<1>12. CASE Sweep
  <2>1. CASE backup[tx.pos].there
    <3>1. Removed(backup[tx.pos]) \in Content
      BY GoneTyped DEF Removed
    <3> QED
      BY <3>1, <2>1, <1>12, <1>0, <1>d DEF Sweep, At
  <2>2. CASE ~backup[tx.pos].there /\ ~Last
    BY <2>2, <1>12, <1>0, <1>b, <1>d DEF Sweep, At, Steps
  <2>3. CASE ~backup[tx.pos].there /\ Last
    <3>1. /\ marker' = NoMarker /\ AfterRecovery(tx.goal) /\ At("sweeping")
          /\ UNCHANGED <<live, pc, copy, crashes, ghosts>>
      BY <1>12, <2>3 DEF Sweep
    <3>2. tx' \in Where /\ gen' \in 0 .. MaxTransactions /\ backup' \in [Entries -> Content]
      BY <3>1, <1>0, AfterRecoveryTyped DEF SaveHasRoom, At
    <3>3. tx'.goal = "release"
      BY <3>1 DEF AfterRecovery, Idle
    <3> QED
      BY <3>1, <3>2, <3>3 DEF TypeOK, SaveHasRoom, ghosts, NoMarker, Marker, Phases
  <2> QED
    BY <2>1, <2>2, <2>3
<1>13. CASE Fail
  BY <1>13, <1>0, <1>c DEF Fail, TypeOK, SaveHasRoom, disk, ghosts
<1>14. CASE Interrupt
  <2>1. Window \in {"none", "sweep", "unmarked"}
    BY DEF Window, At
  <2>2. tx' \in Where /\ tx'.at = "idle"
    BY <1>14, Positions DEF Interrupt, Idle, Steps
  <2>3. /\ crashes' \in 0 .. MaxCrashes
        /\ torn' \in {"none", "sweep", "unmarked"}
    BY <1>14, <1>0, <2>1 DEF Interrupt, TypeOK
  <2> QED
    BY <1>14, <2>2, <2>3 DEF Interrupt, TypeOK, SaveHasRoom, disk
<1>15. UNCHANGED <<pc, copy>>
  BY DEF Begin, Transaction, Fail, Interrupt, Recover, Save, WriteMarker, WriteJournal, Apply, Commit,
         CloseJournal, DropJournal, Empty, Refill, Sweep, disk, ghosts
<1> QED
  BY <1>1, <1>2, <1>3, <1>4, <1>5, <1>6, <1>7, <1>8, <1>9, <1>10, <1>11, <1>12, <1>13, <1>14, <1>15 DEF Transaction

\* While a transaction is at work no ledger command is.
LEMMA TransactionStep ==
  ASSUME CommandInvariant, Transaction \/ Fail \/ Interrupt \/ \E goal \in {"save", "release"} : Begin(goal)
  PROVE  CommandInvariant'
<1>1. TypeOK' /\ SaveHasRoom' /\ UNCHANGED <<pc, copy>>
  BY TransactionTyped DEF CommandInvariant
<1>2. \A w \in Writers : pc[w] \notin Busy
  <2>1. CASE ExclusiveLease
    BY <2>1 DEF CommandInvariant, LeaseExcludes
  <2>2. CASE ~ExclusiveLease
    BY <2>2 DEF ExclusiveLease, Transaction, Fail, Interrupt, Begin, Recover, Save, WriteMarker, WriteJournal,
       Apply, Commit, CloseJournal, DropJournal, Empty, Refill, Sweep, At, SharedLease
  <2> QED
    BY <2>1, <2>2
<1> QED
  BY <1>1, <1>2 DEF CommandInvariant, LeaseExcludes, NoLostUpdate, LoadedIsSnapshot, Busy, Holding

\* What a step of a ledger command does to the snapshot's entry, if anything.
LEMMA StateEntryTyped ==
  ASSUME TypeOK, NEW lock \in {None} \cup Writers, NEW ledger \in {None} \cup SUBSET Writers
  PROVE  /\ [live EXCEPT ![State].lock = lock] \in [Entries -> Content]
         /\ [live EXCEPT ![State].lock = lock, ![State].there = TRUE] \in [Entries -> Content]
         /\ [live EXCEPT ![State].ledger = ledger] \in [Entries -> Content]
<1>1. live \in [Entries -> Content] /\ State \in Entries
  BY Positions DEF TypeOK
<1>2. /\ [live[State] EXCEPT !.lock = lock] \in Content
      /\ [live[State] EXCEPT !.lock = lock, !.there = TRUE] \in Content
      /\ [live[State] EXCEPT !.ledger = ledger] \in Content
  BY <1>1 DEF Content
<1>3. /\ [live EXCEPT ![State].lock = lock] = [live EXCEPT ![State] = [live[State] EXCEPT !.lock = lock]]
      /\ [live EXCEPT ![State].lock = lock, ![State].there = TRUE]
           = [live EXCEPT ![State] = [live[State] EXCEPT !.lock = lock, !.there = TRUE]]
      /\ [live EXCEPT ![State].ledger = ledger] = [live EXCEPT ![State] = [live[State] EXCEPT !.ledger = ledger]]
  BY <1>1 DEF Content
<1> QED
  BY <1>1, <1>2, <1>3

\* What it leaves of the entry.
LEMMA StateEntryRead ==
  ASSUME TypeOK, NEW lock \in {None} \cup Writers, NEW ledger \in {None} \cup SUBSET Writers
  PROVE  /\ live' = [live EXCEPT ![State].lock = lock] => live'[State].lock = lock /\ Ledger' = Ledger
         /\ live' = [live EXCEPT ![State].lock = lock, ![State].there = TRUE]
              => live'[State].lock = lock /\ Ledger' = Ledger
         /\ live' = [live EXCEPT ![State].ledger = ledger]
              => live'[State].lock = live[State].lock /\ Ledger' = ledger
<1>1. live \in [Entries -> Content] /\ State \in Entries
  BY Positions DEF TypeOK
<1> QED
  BY <1>1 DEF Content, Ledger

\* Each step of a ledger command, and the removal of a stale lock.
LEMMA CommandStep ==
  ASSUME CommandInvariant, NEW w \in Writers, TakeLease(w) \/ Command(w) \/ Die(w) \/ RemoveStaleLock
  PROVE  CommandInvariant'
<1>0. pc \in [Writers -> Places] /\ copy \in [Writers -> {None} \cup SUBSET Writers]
      /\ Ledger \in {None} \cup SUBSET Writers /\ None \notin Writers
      /\ live \in [Entries -> Content]
  BY Positions, NobodyAssumption DEF CommandInvariant, TypeOK, Places, Content, Ledger
<1>1. ASSUME UNCHANGED <<tx, live, copy, backup, marker, gen, crashes, ghosts>>,
             NEW to \in Places, to \notin Holding, to \in Busy => pc[w] \in Busy \/ ~ExclusiveLease,
             pc' = [pc EXCEPT ![w] = to]
      PROVE  CommandInvariant'
  BY <1>0, <1>1 DEF CommandInvariant, TypeOK, Places, SaveHasRoom, LeaseExcludes, ExclusiveLease, NoLostUpdate,
     LoadedIsSnapshot, Ledger, Holding, ghosts
<1>2. CASE TakeLease(w)
  BY <1>1, <1>2 DEF TakeLease, Move, Places, Busy, Holding, disk
<1>3. CASE Die(w)
  BY <1>1, <1>3 DEF Die, Places, Busy, Holding, disk
<1>4. CASE LockTimeout(w)
  BY <1>1, <1>4 DEF LockTimeout, Move, Places, Busy, Holding, disk
<1>5. CASE Return(w)
  BY <1>1, <1>5 DEF Return, Move, Places, Busy, Holding, disk
<1>6. CASE Lock(w)
  <2>1. live' \in [Entries -> Content] /\ live'[State].lock = w /\ Ledger' = Ledger
    BY <1>6, StateEntryTyped, StateEntryRead DEF Lock, CommandInvariant
  <2>2. \A v \in Writers : pc[v] \notin Holding
    BY <1>0, <1>6 DEF Lock, CommandInvariant, NoLostUpdate
  <2> QED
    BY <1>0, <1>6, <2>1, <2>2 DEF Lock, Move, CommandInvariant, TypeOK, Places, SaveHasRoom, LeaseExcludes,
       ExclusiveLease, NoLostUpdate, LoadedIsSnapshot, Holding, Busy, ghosts
<1>7. CASE Load(w)
  <2>1. /\ copy' = [copy EXCEPT ![w] = Ledger] /\ UNCHANGED <<tx, disk, gen, crashes, ghosts>>
        /\ pc[w] = "locked" /\ pc' = [pc EXCEPT ![w] = IF Ledger = None THEN "refusing" ELSE "loaded"]
    BY <1>7 DEF Load, Move
  <2>2. Ledger' = Ledger /\ live'[State] = live[State]
    BY <2>1 DEF Ledger, disk
  <2>3. TypeOK' /\ SaveHasRoom' /\ LeaseExcludes'
    BY <1>0, <2>1 DEF CommandInvariant, TypeOK, Places, SaveHasRoom, LeaseExcludes, ExclusiveLease, Busy,
       disk, ghosts
  <2>4. NoLostUpdate'
    BY <1>0, <2>1, <2>2 DEF CommandInvariant, NoLostUpdate, Holding
  <2>5. LoadedIsSnapshot'
    BY <1>0, <2>1 DEF CommandInvariant, LoadedIsSnapshot
  <2> QED
    BY <2>3, <2>4, <2>5 DEF CommandInvariant
<1>8. CASE Store(w)
  <2>1. /\ live' = [live EXCEPT ![State].ledger = copy[w] \cup {w}]
        /\ pc[w] = "loaded" /\ pc' = [pc EXCEPT ![w] = "stored"] /\ exposed' \in SUBSET Writers
        /\ UNCHANGED <<tx, backup, marker, copy, gen, crashes, committed, torn>>
    BY <1>8 DEF Store, Move, CommandInvariant, TypeOK
  <2>2. copy[w] \cup {w} \in SUBSET Writers
    BY <1>0, <2>1 DEF CommandInvariant, LoadedIsSnapshot
  <2>3. live' \in [Entries -> Content] /\ live'[State].lock = live[State].lock
    BY <2>1, <2>2, StateEntryTyped, StateEntryRead DEF CommandInvariant
  <2>4. \A v \in Writers : pc[v] \in Holding => v = w
    BY <1>0, <2>1 DEF CommandInvariant, NoLostUpdate, Holding
  <2> QED
    BY <1>0, <2>1, <2>3, <2>4 DEF CommandInvariant, TypeOK, Places, SaveHasRoom, LeaseExcludes, ExclusiveLease,
       NoLostUpdate, LoadedIsSnapshot, Holding, Busy
<1>9. CASE Unlock(w)
  <2>1. PICK to \in {"unlocked", "failed"} :
          /\ pc[w] \in {"stored", "refusing"} /\ pc' = [pc EXCEPT ![w] = to]
          /\ live' = [live EXCEPT ![State].lock = None]
          /\ UNCHANGED <<tx, backup, marker, copy, gen, crashes, ghosts>>
    BY <1>9 DEF Unlock, Move
  <2>2. live' \in [Entries -> Content] /\ Ledger' = Ledger
    BY <2>1, StateEntryTyped, StateEntryRead DEF CommandInvariant
  <2>3. \A v \in Writers : pc[v] \in Holding => v = w
    BY <1>0, <2>1 DEF CommandInvariant, NoLostUpdate, Holding
  <2> QED
    BY <1>0, <2>1, <2>2, <2>3 DEF CommandInvariant, TypeOK, Places, SaveHasRoom, LeaseExcludes, ExclusiveLease,
       NoLostUpdate, LoadedIsSnapshot, Holding, Busy, ghosts
<1>10. CASE RemoveStaleLock
  <2>1. live' \in [Entries -> Content]
    BY <1>10, StateEntryTyped DEF CommandInvariant, RemoveStaleLock
  <2> QED
    BY <1>0, <1>10, <2>1 DEF RemoveStaleLock, CommandInvariant, TypeOK, SaveHasRoom, LeaseExcludes, ExclusiveLease,
       NoLostUpdate, LoadedIsSnapshot, Holding, ghosts
<1> QED
  BY <1>2, <1>3, <1>4, <1>5, <1>6, <1>7, <1>8, <1>9, <1>10 DEF Command

\* No step but these.
LEMMA StepCases ==
  ASSUME [Next]_vars
  PROVE  \/ Transaction \/ Fail \/ Interrupt \/ \E goal \in {"save", "release"} : Begin(goal)
         \/ \E w \in Writers : TakeLease(w) \/ Command(w) \/ Die(w)
         \/ RemoveStaleLock
         \/ UNCHANGED vars
  BY DEF Next

\* The types, the lease and the snapshot lock hold in every reachable state.
LEMMA CommandsKept == CommandInvariant /\ [Next]_vars => CommandInvariant'
<1> SUFFICES ASSUME CommandInvariant, [Next]_vars PROVE CommandInvariant'
  OBVIOUS
<1>1. CASE Transaction \/ Fail \/ Interrupt \/ \E goal \in {"save", "release"} : Begin(goal)
  BY <1>1, TransactionStep
<1>2. ASSUME NEW w \in Writers, TakeLease(w) \/ Command(w) \/ Die(w) PROVE CommandInvariant'
  BY <1>2, CommandStep
<1>3. CASE RemoveStaleLock
  <2>1. CASE \E w \in Writers : TRUE
    BY <1>3, <2>1, CommandStep
  <2>2. CASE ~\E w \in Writers : TRUE
    <3>1. live' \in [Entries -> Content]
      BY <1>3, StateEntryTyped DEF CommandInvariant, RemoveStaleLock
    <3> QED
      BY <1>3, <2>2, <3>1 DEF RemoveStaleLock, CommandInvariant, TypeOK, SaveHasRoom, LeaseExcludes,
         ExclusiveLease, NoLostUpdate, LoadedIsSnapshot, ghosts
  <2> QED
    BY <2>1, <2>2
<1>4. CASE UNCHANGED vars
  BY <1>4 DEF vars, disk, ghosts, CommandInvariant, TypeOK, SaveHasRoom, LeaseExcludes, ExclusiveLease,
     NoLostUpdate, LoadedIsSnapshot, Ledger
<1> QED
  BY <1>1, <1>2, <1>3, <1>4, StepCases

\* It holds through any interleaving.
LEMMA CommandsHold == Spec => []CommandInvariant
  BY CommandsInit, CommandsKept, PTL DEF Spec

\* Between a command's load and its store nobody else writes the snapshot or
\* takes its lock file away, whatever dies (_snapshot_lock, _project_mutation_lease).
THEOREM UpdatesAreNotLost == Spec => []NoLostUpdate
<1>1. CommandInvariant => NoLostUpdate
  BY DEF CommandInvariant
<1> QED
  BY <1>1, CommandsHold, PTL
---------------------------------------------------------------------------
(* What a transaction knows at each of its steps, as long as neither of    *)
(* the two windows was hit.                                                *)

Good(c) == c.there /\ c.gen = committed
Promised == Wrote \ exposed

LiveGood == (\A e \in Entries : Good(live[e])) /\ Promised \subseteq Ledger
BackupGood == (\A e \in Entries : Good(backup[e])) /\ Promised \subseteq backup[State].ledger

\* One entry, once it is saved and once it is restored.  Its lock file may have
\* been removed meanwhile.
Saved(e) == Good(backup[e]) /\ (e = State => Promised \subseteq backup[e].ledger)
Restored(e) == Good(live[e]) /\ (e = State => Promised \subseteq live[e].ledger)

Between == tx.at \in {"idle", "recovering"} =>
    IF marker.phase = "applying" THEN BackupGood ELSE LiveGood

Saving == tx.at \in {"saving", "marking"} =>
    /\ marker.phase = "absent"
    /\ LiveGood
    /\ \A e \in Entries : e < tx.pos \/ tx.at = "marking" => Saved(e)

Applying == tx.at \in {"journaling", "applying", "committing"} =>
    /\ marker.phase = "applying"
    /\ BackupGood
    /\ Promised \subseteq Ledger
    /\ \A e \in Entries : (tx.at = "applying" /\ e < tx.pos) \/ tx.at = "committing"
                             => live[e].there /\ live[e].gen = gen

Closing == tx.at \in {"closing", "dropping"} => marker.phase = "committed" /\ LiveGood

Restoring == tx.at \in {"emptying", "refilling"} =>
    /\ marker.phase # "committed"
    /\ BackupGood
    /\ \A e \in Entries : e < tx.pos => Restored(e)

\* A copy is swept, or still what it was.
Sweeping == tx.at = "sweeping" =>
    /\ LiveGood
    /\ marker.phase = "applying" =>
          /\ \A e \in Entries : backup[e] \in {Hollow, Gone} \/ Good(backup[e])
          /\ backup[State] \in {Hollow, Gone} \/ Promised \subseteq backup[State].ledger

AllMarked == marker.phase = "applying" => marker.present = Entries

TransactionFacts == /\ Between /\ Saving /\ Applying /\ Closing
                    /\ Restoring /\ Sweeping /\ AllMarked

TransactionInvariant == torn = "none" => TransactionFacts

\* The properties are what these facts say of the steps they speak of.
LEMMA FactsSuffice == TypeOK /\ TransactionInvariant => AllOrNothing /\ WritesKept
<1> SUFFICES ASSUME TypeOK, TransactionFacts, torn = "none" PROVE AllOrNothing /\ WritesKept
  BY DEF TransactionInvariant, AllOrNothing, WritesKept
<1> USE DEF TransactionFacts
<1>0. tx.at \in Steps
  BY DEF TypeOK
<1>1. Settled => LiveGood
  BY DEF Settled, At, Between
<1>2. marker.phase = "applying" /\ ~At("sweeping") => BackupGood /\ marker.present = Entries
  BY <1>0 DEF Steps, At, Between, Saving, Applying, Closing, Restoring, AllMarked
<1> QED
  BY <1>1, <1>2 DEF AllOrNothing, WritesKept, LiveGood, BackupGood, Good, Promised, Preflight

\* The initial state.
LEMMA FactsInit == Init => TransactionInvariant
<1> SUFFICES ASSUME Init PROVE TransactionFacts
  BY DEF TransactionInvariant
<1>1. \A e \in Entries : live[e].there /\ live[e].gen = 0
  BY DEF Init, Gone
<1>2. Wrote = {}
  BY DEF Init, Wrote
<1>3. tx.at = "idle" /\ marker.phase = "absent" /\ committed = 0
  BY DEF Init, Idle, NoMarker
<1> QED
  BY <1>1, <1>2, <1>3 DEF TransactionFacts, Between, Saving, Applying, Closing, Restoring, Sweeping, AllMarked,
     LiveGood, Good, Promised

\* Where a transaction that leaves the surface and its copies alone may go.
LEMMA GoodStays ==
  ASSUME UNCHANGED <<pc, committed, exposed>>
  PROVE  /\ Promised' = Promised
         /\ UNCHANGED live /\ LiveGood => LiveGood'
         /\ UNCHANGED backup /\ BackupGood => BackupGood'
         /\ \A c : Good(c)' <=> Good(c)
  BY DEF Promised, Wrote, LiveGood, BackupGood, Good, Ledger

\* The steps before the commit.
LEMMA ForwardSteps ==
  ASSUME TypeOK, TransactionFacts, Save \/ WriteMarker \/ WriteJournal \/ Apply
  PROVE  TransactionFacts'
<1> USE DEF Where
<1>0. /\ tx \in Where /\ live \in [Entries -> Content] /\ backup \in [Entries -> Content] /\ marker \in Marker
      /\ tx.pos \in Entries /\ State \in Entries /\ NumEntries \in Int /\ \A e \in Entries : e \in Int /\ e <= NumEntries
  BY Positions DEF TypeOK, Entries
<1>g. /\ Promised' = Promised
      /\ UNCHANGED live /\ LiveGood => LiveGood'
      /\ UNCHANGED backup /\ BackupGood => BackupGood'
      /\ \A c : Good(c)' <=> Good(c)
  BY GoodStays DEF Save, WriteMarker, WriteJournal, Apply, ghosts
<1>1. CASE Save
  <2>1. /\ At("saving") /\ backup' = [backup EXCEPT ![tx.pos] = live[tx.pos]] /\ Advance("marking")
        /\ UNCHANGED <<live, marker>>
    BY <1>1 DEF Save
  <2>2. LiveGood' /\ marker.phase = "absent" /\ tx.at = "saving"
    BY <2>1, <1>g DEF TransactionFacts, Saving, At
  <2>3. tx' \in Where /\ \/ tx.pos = NumEntries /\ tx'.at = "marking" /\ tx'.pos = 1
                         \/ tx.pos # NumEntries /\ tx'.at = "saving" /\ tx'.pos = tx.pos + 1
    BY <2>1, <2>2, GotoTyped DEF Steps
  <2>4. \A e \in Entries : e <= tx.pos => Saved(e)'
    <3>1. \A e \in Entries : e < tx.pos => Saved(e)
      BY <2>2 DEF TransactionFacts, Saving
    <3>2. Good(live[tx.pos]) /\ (tx.pos = State => Promised \subseteq live[tx.pos].ledger)
      BY <1>0, <2>2, <2>1, <1>g DEF LiveGood, Ledger
    <3> QED
      BY <2>1, <3>1, <3>2, <1>0, <1>g DEF Saved
  <2>5. Saving'
    BY <1>0, <2>1, <2>2, <2>3, <2>4 DEF Saving
  <2> QED
    BY <2>1, <2>2, <2>3, <2>5 DEF TransactionFacts, Between, Applying, Closing, Restoring, Sweeping, AllMarked
<1>2. CASE WriteMarker
  <2>1. /\ tx.at = "marking" /\ marker' = [phase |-> "applying", present |-> {e \in Entries : backup[e].there}]
        /\ tx'.at = "journaling" /\ UNCHANGED <<live, backup>>
    BY <1>2, GotoTyped DEF WriteMarker, At, Steps
  <2>2. LiveGood /\ BackupGood
    BY <2>1, <1>0 DEF TransactionFacts, Saving, Saved, BackupGood
  <2>3. marker'.present = Entries
    BY <2>1, <2>2 DEF BackupGood, Good
  <2>4. BackupGood' /\ Promised' \subseteq Ledger'
    BY <2>1, <2>2, <1>g DEF LiveGood, Ledger
  <2> QED
    BY <2>1, <2>3, <2>4 DEF TransactionFacts, Between, Saving, Applying, Closing, Restoring, Sweeping, AllMarked
<1>3. CASE WriteJournal
  <2>1. /\ tx.at = "journaling" /\ tx'.at = "applying" /\ tx'.pos = 1 /\ UNCHANGED <<backup, marker>>
        /\ live' = [live EXCEPT ![State].journal = "applying", ![State].there = TRUE]
    BY <1>3, GotoTyped DEF WriteJournal, At, Steps
  <2>2. Ledger' = Ledger
    BY <2>1, <1>0 DEF Ledger, Content
  <2>3. BackupGood' /\ Promised' \subseteq Ledger' /\ marker'.phase = "applying" /\ AllMarked'
    BY <2>1, <2>2, <1>g DEF TransactionFacts, Applying, AllMarked
  <2>4. \A e \in Entries : ~(e < tx'.pos)
    BY <2>1 DEF Entries
  <2> QED
    BY <2>1, <2>3, <2>4 DEF TransactionFacts, Between, Saving, Applying, Closing, Restoring, Sweeping
<1>4. CASE Apply
  <2>1. /\ tx.at = "applying" /\ Advance("committing") /\ UNCHANGED <<backup, marker, gen>>
        /\ live' = [live EXCEPT ![tx.pos].gen = gen, ![tx.pos].there = TRUE]
    BY <1>4 DEF Apply, At
  <2>2. Ledger' = Ledger
    BY <2>1, <1>0 DEF Ledger, Content
  <2>3. BackupGood' /\ Promised' \subseteq Ledger' /\ marker'.phase = "applying" /\ AllMarked'
    BY <2>1, <2>2, <1>g DEF TransactionFacts, Applying, AllMarked
  <2>4. \A e \in Entries : e <= tx.pos => live'[e].there /\ live'[e].gen = gen
    <3>1. /\ live'[tx.pos].there /\ live'[tx.pos].gen = gen
          /\ \A e \in Entries : e # tx.pos => live'[e] = live[e]
      BY <2>1, <1>0 DEF Content
    <3> QED
      BY <2>1, <1>0, <3>1 DEF TransactionFacts, Applying
  <2>5. tx' \in Where /\ \/ tx.pos = NumEntries /\ tx'.at = "committing" /\ tx'.pos = 1
                         \/ tx.pos # NumEntries /\ tx'.at = "applying" /\ tx'.pos = tx.pos + 1
    BY <2>1, GotoTyped DEF Steps
  <2>6. Applying'
    BY <1>0, <2>1, <2>3, <2>4, <2>5 DEF Applying
  <2> QED
    BY <2>3, <2>5, <2>6 DEF TransactionFacts, Between, Saving, Closing, Restoring, Sweeping
<1> QED
  BY <1>1, <1>2, <1>3, <1>4

\* The commit and what follows it, up to the sweep.
LEMMA CommitSteps ==
  ASSUME TypeOK, TransactionFacts, Commit \/ CloseJournal \/ DropJournal
  PROVE  TransactionFacts'
<1>0. /\ live \in [Entries -> Content] /\ State \in Entries /\ marker \in Marker
  BY Positions DEF TypeOK
<1>1. CASE Commit
  <2>1. /\ tx.at = "committing" /\ tx'.at = "closing" /\ marker'.phase = "committed" /\ committed' = gen
        /\ UNCHANGED <<live, pc, exposed>>
    BY <1>1, <1>0, GotoTyped DEF Commit, At, Steps, Marker
  <2>2. \A e \in Entries : live[e].there /\ live[e].gen = gen
    BY <2>1 DEF TransactionFacts, Applying
  <2>3. LiveGood'
    BY <2>1, <2>2 DEF LiveGood, Good, TransactionFacts, Applying, Promised, Wrote, Ledger
  <2> QED
    BY <2>1, <2>3 DEF TransactionFacts, Between, Saving, Applying, Closing, Restoring, Sweeping, AllMarked
<1>2. ASSUME tx.at \in {"closing", "dropping"}, tx'.at \in {"dropping", "sweeping"}, UNCHANGED <<marker, pc, committed, exposed>>,
             NEW phase \in Phases, live' = [live EXCEPT ![State].journal = phase]
      PROVE  TransactionFacts'
  <2>1. Ledger' = Ledger /\ \A e \in Entries : live'[e].there = live[e].there /\ live'[e].gen = live[e].gen
    BY <1>2, <1>0 DEF Ledger, Content
  <2>2. LiveGood' /\ marker'.phase = "committed"
    BY <1>2, <2>1 DEF TransactionFacts, Closing, LiveGood, Good, Promised, Wrote
  <2> QED
    BY <1>2, <2>2 DEF TransactionFacts, Between, Saving, Applying, Closing, Restoring, Sweeping, AllMarked
<1>3. CASE CloseJournal
  BY <1>3, <1>2, GotoTyped DEF CloseJournal, At, Steps, ghosts, Phases
<1>4. CASE DropJournal
  BY <1>4, <1>2, GotoTyped DEF DropJournal, At, Steps, ghosts, Phases
<1> QED
  BY <1>1, <1>3, <1>4

\* Going back, from the copies on disk or in memory.
LEMMA RestoreHolds ==
  ASSUME TypeOK, TransactionFacts, Restore, UNCHANGED <<live, backup, marker, pc, committed, exposed, gen>>,
         BackupGood,
         marker.phase = "applying" \/ (marker.phase = "absent" /\ LiveGood)
  PROVE  TransactionFacts'
<1>1. BackupGood' /\ (LiveGood => LiveGood') /\ AllMarked'
  BY GoodStays DEF TransactionFacts, AllMarked
<1>2. CASE Preflight
  <2>1. tx'.at = "emptying" /\ tx'.pos = 1
    BY <1>2, GotoTyped DEF Restore, Steps
  <2>2. \A e \in Entries : ~(e < tx'.pos)
    BY <2>1 DEF Entries
  <2> QED
    BY <1>1, <2>1, <2>2 DEF TransactionFacts, Between, Saving, Applying, Closing, Restoring, Sweeping
<1>3. CASE ~Preflight
  <2>1. tx'.at = "idle"
    BY <1>3 DEF Restore, Idle
  <2> QED
    BY <1>1, <2>1 DEF TransactionFacts, Between, Saving, Applying, Closing, Restoring, Sweeping
<1> QED
  BY <1>2, <1>3

\* The steps of a restoration.
LEMMA RestoringSteps ==
  ASSUME TypeOK, TransactionFacts, Fail \/ Empty \/ Refill
  PROVE  TransactionFacts'
<1> USE DEF Where
<1>0. /\ tx \in Where /\ live \in [Entries -> Content] /\ backup \in [Entries -> Content] /\ marker \in Marker
      /\ tx.pos \in Entries /\ State \in Entries /\ NumEntries \in Int /\ \A e \in Entries : e \in Int /\ e <= NumEntries
  BY Positions DEF TypeOK, Entries
<1>1. CASE Fail
  <2>1. /\ tx.at \in {"marking", "journaling", "applying", "committing"} /\ Restore
        /\ UNCHANGED <<live, backup, marker, pc, committed, exposed, gen>>
    BY <1>1 DEF Fail, disk, ghosts
  <2>2. BackupGood
    BY <2>1, <1>0 DEF TransactionFacts, Saving, Applying, Saved, BackupGood
  <2>3. marker.phase = "applying" \/ (marker.phase = "absent" /\ LiveGood)
    BY <2>1 DEF TransactionFacts, Saving, Applying
  <2> QED
    BY <2>1, <2>2, <2>3, RestoreHolds
<1>2. CASE Empty
  <2>1. /\ tx.at = "emptying" /\ tx'.at = "refilling" /\ tx'.pos = tx.pos /\ live' = [live EXCEPT ![tx.pos] = Gone]
        /\ UNCHANGED <<backup, marker, pc, committed, exposed>>
    BY <1>2, <1>0 DEF Empty, At, ghosts
  <2>2. BackupGood' /\ AllMarked' /\ marker'.phase # "committed"
    BY <2>1, GoodStays DEF TransactionFacts, Restoring, AllMarked
  <2>3. \A e \in Entries : e < tx'.pos => Restored(e)'
    BY <1>0, <2>1, GoodStays DEF TransactionFacts, Restoring, Restored
  <2> QED
    BY <2>1, <2>2, <2>3 DEF TransactionFacts, Between, Saving, Applying, Closing, Restoring, Sweeping
<1>3. CASE Refill
  <2>1. /\ tx.at = "refilling" /\ live' = [live EXCEPT ![tx.pos] = backup[tx.pos]]
        /\ UNCHANGED <<backup, marker, pc, committed, exposed>>
    BY <1>3 DEF Refill, At, ghosts
  <2>2. BackupGood' /\ AllMarked' /\ marker'.phase # "committed"
    BY <2>1, GoodStays DEF TransactionFacts, Restoring, AllMarked
  <2>3. \A e \in Entries : e <= tx.pos => Restored(e)'
    <3>1. \A e \in Entries : e < tx.pos => Restored(e)
      BY <2>1 DEF TransactionFacts, Restoring
    <3>2. Good(backup[tx.pos]) /\ (tx.pos = State => Promised \subseteq backup[tx.pos].ledger)
      BY <1>0, <2>1 DEF TransactionFacts, Restoring, BackupGood
    <3> QED
      BY <2>1, <3>1, <3>2, <1>0, GoodStays DEF Restored
  <2>4. CASE Last
    <3>1. tx'.at = "sweeping"
      BY <1>3, <1>0, <2>4 DEF Refill
    <3>2. \A e \in Entries : Restored(e)'
      BY <1>0, <2>3, <2>4 DEF Last
    <3>3. LiveGood'
      BY <1>0, <3>2 DEF LiveGood, Ledger, Restored
    <3>4. Sweeping'
      BY <2>2, <3>3 DEF Sweeping, BackupGood
    <3> QED
      BY <2>2, <3>1, <3>4 DEF TransactionFacts, Between, Saving, Applying, Closing, Restoring
  <2>5. CASE ~Last
    <3>1. tx'.at = "emptying" /\ tx'.pos = tx.pos + 1
      BY <1>3, <1>0, <2>5 DEF Refill
    <3>2. \A e \in Entries : e < tx'.pos => Restored(e)'
      BY <1>0, <2>3, <3>1
    <3> QED
      BY <2>2, <3>1, <3>2 DEF TransactionFacts, Between, Saving, Applying, Closing, Restoring, Sweeping
  <2> QED
    BY <2>4, <2>5
<1> QED
  BY <1>1, <1>2, <1>3

\* Nothing is left to recover.
LEMMA AfterRecoveryHolds ==
  ASSUME TypeOK, LiveGood, NEW step \in {"save", "release"}, AfterRecovery(step), marker'.phase = "absent",
         UNCHANGED <<live, pc, committed, exposed>>
  PROVE  TransactionFacts'
<1>1. LiveGood'
  BY GoodStays
<1>2. \/ tx'.at = "idle"
      \/ tx'.at = "saving" /\ tx'.pos = 1
  BY DEF AfterRecovery, Idle
<1>3. \A e \in Entries : ~(e < 1)
  BY DEF Entries
<1> QED
  BY <1>1, <1>2, <1>3 DEF TransactionFacts, Between, Saving, Applying, Closing, Restoring, Sweeping, AllMarked

\* The recovery's choice, and the sweep.
LEMMA RecoverySteps ==
  ASSUME TypeOK, TransactionFacts, Recover \/ Sweep
  PROVE  TransactionFacts'
<1> USE DEF Where
<1>0. /\ tx \in Where /\ backup \in [Entries -> Content] /\ marker \in Marker
      /\ tx.pos \in Entries /\ State \in Entries /\ tx.goal \in {"save", "release"}
  BY Positions DEF TypeOK
<1>1. CASE Recover
  <2>0. tx.at = "recovering" /\ UNCHANGED <<live, marker, pc, committed, exposed>>
    BY <1>1 DEF Recover, At, ghosts
  <2>1. CASE marker.phase = "absent"
    <3>1. AfterRecovery(tx.goal) /\ LiveGood
      BY <1>1, <2>0, <2>1 DEF Recover, TransactionFacts, Between
    <3> QED
      BY <3>1, <2>0, <2>1, <1>0, AfterRecoveryHolds
  <2>2. CASE marker.phase = "committed"
    <3>1. Goto("dropping") /\ LiveGood
      BY <1>1, <2>0, <2>2 DEF Recover, TransactionFacts, Between
    <3>2. LiveGood' /\ tx'.at = "dropping"
      BY <3>1, <2>0, GoodStays, GotoTyped DEF Steps
    <3> QED
      BY <3>2, <2>0, <2>2 DEF TransactionFacts, Between, Saving, Applying, Closing, Restoring, Sweeping, AllMarked
  <2>3. CASE marker.phase = "applying"
    <3>1. Restore /\ UNCHANGED <<backup, gen>> /\ BackupGood
      BY <1>1, <2>0, <2>3 DEF Recover, TransactionFacts, Between
    <3> QED
      BY <3>1, <2>0, <2>3, RestoreHolds
  <2> QED
    BY <2>1, <2>2, <2>3, <1>0 DEF Marker, Phases
<1>2. CASE Sweep
  <2>0. tx.at = "sweeping" /\ UNCHANGED <<live, pc, committed, exposed>> /\ LiveGood
    BY <1>2 DEF Sweep, At, ghosts, TransactionFacts, Sweeping
  <2>1. LiveGood' /\ \A c : Good(c)' <=> Good(c)
    BY <2>0, GoodStays
  <2>2. CASE backup[tx.pos].there
    <3>1. /\ backup' = [backup EXCEPT ![tx.pos] = Removed(backup[tx.pos])] /\ UNCHANGED <<tx, marker, gen>>
          /\ Removed(backup[tx.pos]) \in {Hollow, Gone}
      BY <1>2, <2>2 DEF Sweep, Removed
    <3>2. \A e \in Entries : backup'[e] \in {Hollow, Gone} \/ backup'[e] = backup[e]
      BY <3>1, <1>0
    <3>3. Promised' = Promised
      BY <2>0 DEF Promised, Wrote
    <3>4. Sweeping'
      BY <1>0, <2>0, <2>1, <3>1, <3>2, <3>3 DEF TransactionFacts, Sweeping
    <3> QED
      BY <2>0, <3>1, <3>4 DEF TransactionFacts, Between, Saving, Applying, Closing, Restoring, AllMarked
  <2>3. CASE ~backup[tx.pos].there /\ ~Last
    <3>1. Advance("sweeping") /\ UNCHANGED <<backup, marker, gen>>
      BY <1>2, <2>3 DEF Sweep
    <3>2. tx'.at = "sweeping"
      BY <3>1, <2>0, GotoTyped DEF Steps
    <3>3. Promised' = Promised
      BY <2>0 DEF Promised, Wrote
    <3>4. Sweeping'
      BY <2>0, <2>1, <3>1, <3>3 DEF TransactionFacts, Sweeping
    <3> QED
      BY <3>1, <3>2, <3>4 DEF TransactionFacts, Between, Saving, Applying, Closing, Restoring, AllMarked
  <2>4. CASE ~backup[tx.pos].there /\ Last
    <3>1. AfterRecovery(tx.goal) /\ marker'.phase = "absent"
      BY <1>2, <2>4 DEF Sweep, NoMarker
    <3> QED
      BY <3>1, <2>0, <1>0, AfterRecoveryHolds
  <2> QED
    BY <2>2, <2>3, <2>4
<1> QED
  BY <1>1, <1>2

\* An interruption outside the two windows leaves what recovery needs.
LEMMA InterruptHolds ==
  ASSUME TypeOK, TransactionFacts, Interrupt, torn = "none", torn' = "none"
  PROVE  TransactionFacts'
<1>0. /\ tx.at \in Steps \ {"idle"} /\ tx'.at = "idle" /\ UNCHANGED <<live, backup, marker, pc, gen, committed, exposed>>
      /\ Window = "none" /\ marker.phase \in Phases /\ State \in Entries
  BY Positions DEF Interrupt, Idle, disk, TypeOK, Marker, At
<1>1. /\ ~(/\ tx.at = "sweeping" /\ marker.phase = "applying"
           /\ \E e \in marker.present : backup[e] \in {Hollow, Gone})
      /\ ~(tx.at \in {"emptying", "refilling"} /\ marker.phase = "absent")
  BY <1>0 DEF Window, At
<1>2. IF marker.phase = "applying" THEN BackupGood ELSE LiveGood
  <2>1. CASE tx.at = "sweeping" /\ marker.phase = "applying"
    <3>1. \A e \in Entries : backup[e] \notin {Hollow, Gone}
      BY <1>1, <2>1 DEF TransactionFacts, AllMarked
    <3> QED
      BY <2>1, <1>0, <3>1 DEF TransactionFacts, Sweeping, BackupGood
  <2>2. CASE ~(tx.at = "sweeping" /\ marker.phase = "applying")
    BY <2>2, <1>0, <1>1 DEF TransactionFacts, Between, Saving, Applying, Closing, Restoring, Sweeping, Steps, Phases
  <2> QED
    BY <2>1, <2>2
<1>3. IF marker'.phase = "applying" THEN BackupGood' ELSE LiveGood'
  BY <1>0, <1>2, GoodStays
<1> QED
  BY <1>0, <1>3 DEF TransactionFacts, Between, Saving, Applying, Closing, Restoring, Sweeping, AllMarked

\* A lease is taken between transactions.
LEMMA BeginHolds ==
  ASSUME TypeOK, TransactionFacts, NEW goal \in {"save", "release"}, Begin(goal)
  PROVE  TransactionFacts'
<1>0. tx.at = "idle" /\ tx'.at = "recovering" /\ UNCHANGED <<live, backup, marker, pc, gen, committed, exposed>>
  BY DEF Begin, At, disk, ghosts
<1>1. IF marker'.phase = "applying" THEN BackupGood' ELSE LiveGood'
  BY <1>0, GoodStays DEF TransactionFacts, Between
<1> QED
  BY <1>0, <1>1 DEF TransactionFacts, Between, Saving, Applying, Closing, Restoring, Sweeping, AllMarked

\* Ledger commands work between transactions, on the live entries only.
LEMMA CommandsHoldFacts ==
  ASSUME CommandInvariant, TransactionFacts, NEW w \in Writers, TakeLease(w) \/ Command(w) \/ Die(w)
  PROVE  TransactionFacts'
<1>0. /\ live \in [Entries -> Content] /\ State \in Entries /\ pc \in [Writers -> Places]
      /\ UNCHANGED <<tx, backup, marker, gen, committed>>
  BY Positions DEF CommandInvariant, TypeOK, Places, TakeLease, Command, Die, Lock, LockTimeout, Load, Store,
     Unlock, Return, disk, ghosts
<1>1. tx.at = "idle"
  BY <1>0 DEF CommandInvariant, LeaseExcludes, ExclusiveLease, TakeLease, Command, Die, Lock, LockTimeout, Load,
     Store, Unlock, Return, Move, Busy
<1>2. \A e \in Entries : Good(live[e]) => Good(live[e])'
  <2>1. CASE Lock(w)
    BY <2>1, <1>0 DEF Good, Lock, Content
  <2>2. CASE Store(w)
    BY <2>2, <1>0 DEF Good, Store, Content
  <2>3. CASE Unlock(w)
    BY <2>3, <1>0 DEF Good, Unlock, Content
  <2>4. CASE UNCHANGED live
    BY <2>4, <1>0 DEF Good
  <2> QED
    BY <2>1, <2>2, <2>3, <2>4 DEF TakeLease, Command, Die, LockTimeout, Load, Return, disk
<1>3. /\ Promised' \subseteq Promised \cup (IF Store(w) /\ marker.phase # "applying" THEN {w} ELSE {})
      /\ Promised \subseteq Ledger => Promised \subseteq Ledger'
      /\ Store(w) => w \in Ledger'
  <2>1. CASE Store(w)
    <3>1. /\ pc[w] = "loaded" /\ pc' = [pc EXCEPT ![w] = "stored"]
          /\ live' = [live EXCEPT ![State].ledger = copy[w] \cup {w}]
          /\ exposed' = IF marker.phase = "applying" THEN exposed \cup {w} ELSE exposed
      BY <2>1 DEF Store, Move
    <3>2. Ledger' = copy[w] \cup {w} /\ copy[w] = Ledger
      BY <3>1, <1>0 DEF Ledger, Content, CommandInvariant, NoLostUpdate
    <3>3. Wrote' = Wrote \cup {w}
      BY <3>1, <1>0 DEF Wrote
    <3> QED
      BY <2>1, <3>1, <3>2, <3>3 DEF Promised
  <2>2. CASE ~Store(w)
    <3>1. Wrote' \subseteq Wrote /\ exposed' = exposed
      BY <2>2, <1>0 DEF Wrote, TakeLease, Command, Die, Lock, LockTimeout, Load, Unlock, Return, Move, ghosts, Busy
    <3>2. Ledger' = Ledger
      BY <2>2, <1>0 DEF Ledger, Content, TakeLease, Command, Die, Lock, LockTimeout, Load, Unlock, Return, disk
    <3> QED
      BY <2>2, <3>1, <3>2 DEF Promised
  <2> QED
    BY <2>1, <2>2
<1>4. IF marker.phase = "applying" THEN BackupGood' ELSE LiveGood'
  <2>1. CASE marker.phase = "applying"
    BY <2>1, <1>0, <1>1, <1>3 DEF TransactionFacts, Between, BackupGood, Good
  <2>2. CASE marker.phase # "applying"
    <3>1. LiveGood
      BY <2>2, <1>1 DEF TransactionFacts, Between
    <3>2. Promised' \subseteq Ledger'
      BY <1>3, <3>1 DEF LiveGood
    <3>3. \A e \in Entries : Good(live[e])'
      BY <1>2, <3>1 DEF LiveGood, Good
    <3> QED
      BY <2>2, <3>2, <3>3 DEF LiveGood
  <2> QED
    BY <2>1, <2>2
<1> QED
  BY <1>0, <1>1, <1>4 DEF TransactionFacts, Between, Saving, Applying, Closing, Restoring, Sweeping, AllMarked

\* A lost transaction stays lost.
LEMMA TornStays == ASSUME [Next]_vars, torn # "none" PROVE torn' # "none"
<1>1. Transaction \/ Fail => UNCHANGED torn
  BY DEF ghosts, Transaction, Fail, Recover, Save, WriteMarker, WriteJournal, Apply, Commit, CloseJournal,
         DropJournal, Empty, Refill, Sweep
<1>2. \A goal \in {"save", "release"} : Begin(goal) => UNCHANGED torn
  BY DEF Begin, ghosts
<1>3. \A w \in Writers : TakeLease(w) \/ Command(w) \/ Die(w) => UNCHANGED torn
  BY DEF TakeLease, Command, Die, Lock, LockTimeout, Load, Store, Unlock, Return, ghosts
<1>4. RemoveStaleLock \/ UNCHANGED vars \/ Interrupt => UNCHANGED torn
  BY DEF RemoveStaleLock, vars, ghosts, Interrupt
<1> QED
  BY <1>1, <1>2, <1>3, <1>4, StepCases

\* The facts are kept by every step that does not hit one of the two windows.
LEMMA FactsKept == CommandInvariant /\ TransactionInvariant /\ [Next]_vars => TransactionInvariant'
<1> SUFFICES ASSUME CommandInvariant, TransactionFacts, [Next]_vars, torn = "none", torn' = "none"
             PROVE  TransactionFacts'
  BY TornStays DEF TransactionInvariant
<1>0. TypeOK
  BY DEF CommandInvariant
<1>1. CASE Transaction \/ Fail
  BY <1>1, <1>0, ForwardSteps, CommitSteps, RestoringSteps, RecoverySteps DEF Transaction
<1>2. CASE Interrupt
  BY <1>2, <1>0, InterruptHolds
<1>3. CASE \E goal \in {"save", "release"} : Begin(goal)
  BY <1>3, <1>0, BeginHolds
<1>4. ASSUME NEW w \in Writers, TakeLease(w) \/ Command(w) \/ Die(w) PROVE TransactionFacts'
  BY <1>4, CommandsHoldFacts
<1>5. CASE RemoveStaleLock
  <2>1. /\ UNCHANGED <<tx, backup, marker, pc, gen, committed, exposed>> /\ tx \in Where
        /\ live \in [Entries -> Content] /\ State \in Entries /\ live' = [live EXCEPT ![State].lock = None]
    BY <1>5, <1>0, Positions DEF RemoveStaleLock, ghosts, TypeOK, Where
  <2>2. Ledger' = Ledger /\ \A e \in Entries : live'[e].there = live[e].there /\ live'[e].gen = live[e].gen
    BY <2>1 DEF Ledger, Content
  <2>3. Promised' = Promised /\ \A c : Good(c)' <=> Good(c)
    BY <2>1, GoodStays
  <2>4. (LiveGood => LiveGood') /\ (BackupGood => BackupGood')
    BY <2>1, <2>2, <2>3 DEF LiveGood, BackupGood, Good
  <2>5. \A e \in Entries : (Saved(e) => Saved(e)') /\ (Restored(e) => Restored(e)')
    BY <2>1, <2>2, <2>3 DEF Saved, Restored, Good, Ledger
  <2> QED
    BY <2>1, <2>2, <2>3, <2>4, <2>5 DEF TransactionFacts, Between, Saving, Applying, Closing, Restoring, Sweeping,
       AllMarked
<1>6. CASE UNCHANGED vars
  BY <1>6 DEF vars, disk, ghosts, TransactionFacts, Between, Saving, Applying, Closing, Restoring, Sweeping,
     AllMarked, LiveGood, BackupGood, Saved, Restored, Good, Promised, Wrote, Ledger
<1> QED
  BY <1>1, <1>2, <1>3, <1>4, <1>5, <1>6, StepCases

\* Every reachable state has them.
LEMMA FactsHold == Spec => []TransactionInvariant
<1>1. Spec => []CommandInvariant
  BY CommandsHold
<1> QED
  BY <1>1, FactsInit, FactsKept, PTL DEF Spec

\* A transaction is all or nothing wherever it, its rollback or its recovery was
\* interrupted, for surfaces of any size (ProjectTransaction.begin, commit and
\* rollback, _recover_interrupted_transaction_locked, _restore_document).
THEOREM TransactionsAreAtomic == Spec => []AllOrNothing
<1>1. CommandInvariant /\ TransactionInvariant => AllOrNothing
  BY FactsSuffice DEF CommandInvariant
<1> QED
  BY <1>1, CommandsHold, FactsHold, PTL

\* What a ledger command wrote while nothing waited to be recovered survives
\* every transaction, rollback and recovery (_pipeline_write_lock).
THEOREM AcknowledgedWritesStay == Spec => []WritesKept
<1>1. CommandInvariant /\ TransactionInvariant => WritesKept
  BY FactsSuffice DEF CommandInvariant
<1> QED
  BY <1>1, CommandsHold, FactsHold, PTL

---------------------------------------------------------------------------
(* The life of a project, for any kinds of paths, kit versions and edits.   *)

\* What the kinds of paths have to do with each other.
LEMMA KindsApart ==
    /\ Rules \cap (Guides \cup Servers \cup Charter \cup OldMemory \cup Memory) = {}
    /\ Agents \cap (Guides \cup Servers \cup Charter \cup OldMemory \cup Memory) = {}
    /\ Codex \cap UserEditable = {}
    /\ Templates \cap UserEditable = {}
    /\ Templates \cap (Rules \cup Agents \cup Codex) = {}
    /\ Guides \cap (Servers \cup Charter \cup OldMemory \cup Memory) = {}
    /\ Servers \cap (Charter \cup OldMemory \cup Memory) = {}
    /\ Charter \cap (OldMemory \cup Memory) = {}
    /\ OldMemory \cap Memory = {}
    /\ Codex \cap (Rules \cup Agents) = {}
<1>1. /\ PathKinds[1] = Rules /\ PathKinds[2] = Agents /\ PathKinds[3] = Guides
      /\ PathKinds[4] = Servers /\ PathKinds[5] = Charter /\ PathKinds[6] = Codex
      /\ PathKinds[7] = OldMemory /\ PathKinds[8] = Memory /\ PathKinds[9] = Templates
  BY DEF PathKinds
<1>2. \A j \in {3, 4, 5, 6, 7, 8, 9} : /\ PathKinds[1] \cap PathKinds[j] = {}
                                       /\ PathKinds[2] \cap PathKinds[j] = {}
  BY PathsAssumption
<1>3. \A j \in {3, 4, 5, 7, 8, 9} : PathKinds[6] \cap PathKinds[j] = {}
  BY PathsAssumption
<1>4. \A j \in {3, 4, 5, 7, 8} : PathKinds[9] \cap PathKinds[j] = {}
  BY PathsAssumption
<1>5. \A j \in {4, 5, 7, 8} : PathKinds[3] \cap PathKinds[j] = {}
  BY PathsAssumption
<1>6. \A j \in {5, 7, 8} : PathKinds[4] \cap PathKinds[j] = {}
  BY PathsAssumption
<1>7. \A j \in {7, 8} : PathKinds[5] \cap PathKinds[j] = {}
  BY PathsAssumption
<1>8. PathKinds[7] \cap PathKinds[8] = {}
  BY PathsAssumption
<1> QED
  BY <1>1, <1>2, <1>3, <1>4, <1>5, <1>6, <1>7, <1>8 DEF UserEditable

\* The contents of files.
LEMMA PartsTyped ==
    /\ Nothing \in Contents
    /\ \A v \in Versions : {Kit(v)} \in Contents /\ {Block(v)} \in Contents
    /\ \A n \in Nat : {Mine(n)} \in Contents /\ {Within(n)} \in Contents
    /\ \A x, y \in Contents : x \cup y \in Contents
    /\ \A x \in Contents : FreeIn(x) \in Contents /\ Unblocked(x) \in Contents
  BY VersionAssumption
  DEF Contents, Kit, Block, Mine, Within, Nothing, Versions, FreeIn, Unblocked

\* Nothing of the kit's is anybody's text; replacing a marked block keeps what is
\* not within it.
LEMMA PartsMine ==
    /\ MineIn(Nothing) = {}
    /\ \A v : MineIn({Kit(v)}) = {} /\ MineIn({Block(v)}) = {}
    /\ \A x, y : MineIn(x \cup y) = MineIn(x) \cup MineIn(y)
    /\ \A x : MineIn(Unblocked(x)) = FreeIn(x) /\ MineIn(FreeIn(x)) = FreeIn(x)
    /\ \A v, x : /\ MineIn({Block(v)} \cup Unblocked(x)) = FreeIn(x)
                 /\ MineIn({Kit(v)} \cup FreeIn(x)) = FreeIn(x)
    /\ \A x : FreeIn(x) \subseteq MineIn(x) /\ (FreeIn(x) = x => MineIn(x) = x)
    /\ \A x : \A m \in MineIn(x) : m.by # "within" => m \in FreeIn(x)
  BY DEF Nothing, Kit, Block, MineIn, FreeIn, Unblocked

\* What is collected from files is text of its own.
LEMMA AllMineTyped ==
    ASSUME NEW files \in [Paths -> Contents], NEW S \in SUBSET Paths
    PROVE  AllMine(files, S) \in SUBSET [by : {"mine", "within"}, n : Nat]
<1> SUFFICES ASSUME NEW p \in S, NEW part \in MineIn(files[p])
             PROVE  part \in [by : {"mine", "within"}, n : Nat]
  BY DEF AllMine
<1>1. part \in files[p] /\ part.by \in {"mine", "within"} /\ files[p] \in Contents
  BY DEF MineIn
<1> QED
  BY <1>1 DEF Contents

---------------------------------------------------------------------------
(* What each command makes of the files.                                    *)

TextIn(t) == t.saved \cup AllMine(t.live, Paths)

\* Text that stays in its file, moves to another or is saved is not lost.
LEMMA TextStays ==
    ASSUME NEW s, NEW t, s.saved \subseteq t.saved,
           \A p \in Paths : \/ MineIn(s.live[p]) \subseteq t.saved
                            \/ \E q \in Paths : MineIn(s.live[p]) \subseteq MineIn(t.live[q])
    PROVE  TextIn(s) \subseteq TextIn(t)
<1> SUFFICES ASSUME NEW p \in Paths, NEW m \in MineIn(s.live[p])
             PROVE  m \in TextIn(t)
  BY DEF TextIn, AllMine
<1>1. CASE MineIn(s.live[p]) \subseteq t.saved
  BY <1>1 DEF TextIn
<1>2. CASE \E q \in Paths : MineIn(s.live[p]) \subseteq MineIn(t.live[q])
  BY <1>2 DEF TextIn, AllMine
<1> QED
  BY <1>1, <1>2

\* Text of some files is collected from each of them.
LEMMA AllMineHas ==
    ASSUME NEW files, NEW S, NEW p \in S
    PROVE  MineIn(files[p]) \subseteq AllMine(files, S)
  BY DEF AllMine

\* The fields of a tree.
LEMMA TreeParts ==
    ASSUME NEW t \in Trees
    PROVE  /\ t = [live |-> t.live, beside |-> t.beside, saved |-> t.saved]
           /\ t.live \in [Paths -> Contents]
           /\ t.beside \in [Paths -> {0} \cup Versions]
           /\ t.saved \in SUBSET [by : {"mine", "within"}, n : Nat]
           /\ \A p \in Paths : t.live[p] \in Contents /\ t.beside[p] \in {0} \cup Versions
  BY DEF Trees

\* The legacy spine writes kit text, keeps files or takes them away.
LEMMA LegacyInstallTyped ==
    ASSUME NEW t \in Trees, NEW records \in [Paths -> Contents], NEW v \in Versions,
           NEW force \in BOOLEAN
    PROVE  LegacyInstall(t, records, v, force) \in Trees
<1> DEFINE documents == Guides \cup Servers \cup Charter
           files == [p \in Paths |->
                       CASE p \in Rules \cup Agents -> Promoted(t, records, v, p)
                         [] p \in documents -> Document(t, v, p, force)
                         [] p \in OldMemory -> Seeded(t, v, p)
                         [] OTHER -> t.live[p]]
           beside == [p \in Paths |-> IF p \in documents /\ PutBeside(t, v, p, force)
                                      THEN v ELSE t.beside[p]]
           saved == t.saved \cup AllMine(t.live, Rules \cap Added(records, LegacyShips(v)))
<1>1. ASSUME NEW p \in Paths
      PROVE  /\ Promoted(t, records, v, p) \in Contents
             /\ Document(t, v, p, force) \in Contents
             /\ Seeded(t, v, p) \in Contents
             /\ t.live[p] \in Contents
  BY TreeParts, PartsTyped DEF Promoted, Document, Seeded
<1>2. files \in [Paths -> Contents]
  <2> SUFFICES ASSUME NEW p \in Paths PROVE files[p] \in Contents
    OBVIOUS
  <2>1. \/ files[p] = Promoted(t, records, v, p) \/ files[p] = Document(t, v, p, force)
        \/ files[p] = Seeded(t, v, p) \/ files[p] = t.live[p]
    OBVIOUS
  <2> HIDE DEF files
  <2> QED
    BY <1>1, <2>1
<1>3. beside \in [Paths -> {0} \cup Versions]
  BY TreeParts
<1>4. saved \in SUBSET [by : {"mine", "within"}, n : Nat]
  <2>1. Rules \cap Added(records, LegacyShips(v)) \in SUBSET Paths
    BY DEF Paths
  <2> QED
    BY <2>1, AllMineTyped, TreeParts
<1>5. LegacyInstall(t, records, v, force) = [live |-> files, beside |-> beside, saved |-> saved]
  BY DEF LegacyInstall
<1> HIDE DEF files, beside, saved
<1> QED
  BY <1>2, <1>3, <1>4, <1>5 DEF Trees

\* What it records is of the right type, and of its own files only its own text.
LEMMA LegacyRecordsHold ==
    ASSUME NEW t \in Trees, NEW records \in [Paths -> Contents], NEW v \in Versions,
           NEW force \in BOOLEAN
    PROVE  LET after == LegacyRecords(LegacyInstall(t, records, v, force), v)
           IN  /\ after \in [Paths -> Contents]
               /\ \A p \in KitOwned : MineIn(after[p]) = {}
<1> DEFINE tt == LegacyInstall(t, records, v, force)
<1>1. tt \in Trees
  BY LegacyInstallTyped
<1>2. ASSUME NEW p \in KitOwned, p \in LegacyShips(v) \cup OldMemory
      PROVE  MineIn(tt.live[p]) = {}
  <2>1. p \in (Rules \cup Agents) \cap LegacyShips(v) /\ p \in Paths
    BY <1>2 DEF KitOwned, UserEditable, Paths, LegacyShips
  <2>2. tt.live[p] = Promoted(t, records, v, p)
    BY <2>1, KindsApart DEF LegacyInstall
  <2>3. tt.live[p] = {Kit(v)}
    BY <2>1, <2>2 DEF Promoted
  <2> QED
    BY <2>3, PartsMine
<1> HIDE DEF tt
<1>3. ASSUME NEW p \in KitOwned PROVE MineIn(LegacyRecords(tt, v)[p]) = {}
  BY <1>2, PartsMine DEF LegacyRecords, KitOwned
<1>4. LegacyRecords(tt, v) \in [Paths -> Contents]
  BY <1>1, TreeParts, PartsTyped DEF LegacyRecords
<1> QED
  BY <1>3, <1>4 DEF tt

\* Where there is no .claude tree it loses nothing unless forced.
LEMMA LegacyInstallKeeps ==
    ASSUME NEW t \in Trees, NEW records \in [Paths -> Contents], NEW v \in Versions,
           \A p \in Rules \cup Agents \cup OldMemory : t.live[p] = Nothing
    PROVE  TextIn(t) \subseteq TextIn(LegacyInstall(t, records, v, FALSE))
<1> DEFINE tt == LegacyInstall(t, records, v, FALSE)
<1>1. t.saved \subseteq tt.saved
  BY DEF LegacyInstall
<1>2. ASSUME NEW p \in Paths PROVE MineIn(t.live[p]) \subseteq MineIn(tt.live[p])
  <2>1. CASE p \in Rules \cup Agents \cup OldMemory
    BY <2>1, PartsMine
  <2>2. CASE p \in Guides \cup Servers \cup Charter
    <3>1. tt.live[p] = Document(t, v, p, FALSE)
      BY <2>2, KindsApart DEF LegacyInstall
    <3>2. t.live[p] = Nothing \/ tt.live[p] = t.live[p]
      BY <3>1 DEF Document
    <3> QED
      BY <3>2, PartsMine
  <2>3. CASE p \notin Rules \cup Agents \cup OldMemory \cup Guides \cup Servers \cup Charter
    BY <2>3 DEF LegacyInstall
  <2> QED
    BY <2>1, <2>2, <2>3
<1> HIDE DEF tt
<1>3. TextIn(t) \subseteq TextIn(tt)
  BY <1>1, <1>2, TextStays
<1> QED
  BY <1>3 DEF tt

\* A .claude tree that is backed up is gone and its text saved.
LEMMA BackupHolds ==
    ASSUME NEW t \in Trees
    PROVE  /\ BackedUp(t) \in Trees
           /\ \A p \in Rules \cup Agents \cup OldMemory : BackedUp(t).live[p] = Nothing
           /\ TextIn(t) \subseteq TextIn(BackedUp(t))
<1> DEFINE dir == Rules \cup Agents \cup OldMemory
           tt == BackedUp(t)
<1>1. dir \in SUBSET Paths
  BY DEF Paths
<1>2. tt = [live |-> [p \in Paths |-> IF p \in dir THEN Nothing ELSE t.live[p]],
            beside |-> [p \in Paths |-> IF p \in dir THEN 0 ELSE t.beside[p]],
            saved |-> t.saved \cup AllMine(t.live, dir)]
  BY DEF BackedUp
<1> HIDE DEF dir, tt
<1>3. tt \in Trees
  <2>1. tt.live \in [Paths -> Contents]
    BY <1>2, TreeParts, PartsTyped
  <2>2. tt.beside \in [Paths -> {0} \cup Versions]
    BY <1>2, TreeParts
  <2>3. tt.saved \in SUBSET [by : {"mine", "within"}, n : Nat]
    BY <1>1, <1>2, TreeParts, AllMineTyped
  <2> QED
    BY <1>2, <2>1, <2>2, <2>3 DEF Trees
<1>4. \A p \in dir : tt.live[p] = Nothing
  BY <1>1, <1>2
<1>5. \A p \in Paths \ dir : tt.live[p] = t.live[p]
  BY <1>1, <1>2
<1>6. \A p \in dir : MineIn(t.live[p]) \subseteq tt.saved
  BY <1>2, AllMineHas
<1>7. TextIn(t) \subseteq TextIn(tt)
  BY <1>2, <1>5, <1>6, TextStays
<1> QED
  BY <1>3, <1>4, <1>7 DEF dir, tt

\* A merge or an upgrade writes kit text, keeps files or takes orphans away.
LEMMA ReconciledTyped ==
    ASSUME NEW t \in Trees, NEW records \in [Paths -> Contents], NEW v \in Versions,
           NEW untracked \in BOOLEAN, NEW force \in BOOLEAN
    PROVE  Reconciled(t, records, v, untracked, force) \in Trees
<1> DEFINE orphans == Orphans(t, records, v)
           kept == Kept(t, records, v, untracked)
           edited == {p \in Outdated(t, v) : Modified(t, records, p, untracked)}
           replaced == IF force THEN Outdated(t, v) ELSE Outdated(t, v) \ kept
           files == [p \in Paths |-> CASE p \in replaced -> {Kit(v)}
                                       [] p \in orphans -> Nothing
                                       [] OTHER -> t.live[p]]
           beside == [p \in Paths |-> IF p \in kept /\ ~force THEN v ELSE t.beside[p]]
           saved == t.saved \cup AllMine(t.live, orphans \cup (edited \cap replaced))
<1>1. Reconciled(t, records, v, untracked, force)
        = [live |-> files, beside |-> beside, saved |-> saved]
  BY DEF Reconciled
<1>2. Outdated(t, v) \subseteq Paths /\ orphans \subseteq Paths
  BY ShipsAssumption DEF Outdated, Orphans, LegacyShips
<1>3. saved \in SUBSET [by : {"mine", "within"}, n : Nat]
  <2>1. orphans \cup (edited \cap replaced) \in SUBSET Paths
    BY <1>2
  <2> QED
    BY <2>1, AllMineTyped, TreeParts
<1> HIDE DEF orphans, kept, replaced, edited
<1>4. files \in [Paths -> Contents]
  <2> SUFFICES ASSUME NEW p \in Paths PROVE files[p] \in Contents
    OBVIOUS
  <2>1. files[p] = {Kit(v)} \/ files[p] = Nothing \/ files[p] = t.live[p]
    OBVIOUS
  <2> QED
    BY <2>1, TreeParts, PartsTyped
<1>5. beside \in [Paths -> {0} \cup Versions]
  BY TreeParts
<1> HIDE DEF files, beside, saved
<1> QED
  BY <1>1, <1>3, <1>4, <1>5 DEF Trees

\* It loses the text of files that are as recorded; an upgrade also that of files
\* without a record at paths the kit ships.
LEMMA ReconciledLoses ==
    ASSUME NEW t \in Trees, NEW records \in [Paths -> Contents], NEW v \in Versions,
           NEW untracked \in BOOLEAN, NEW force \in BOOLEAN
    PROVE  LET unchanged == {p \in Paths : t.live[p] = records[p]}
               unrecorded == {p \in LegacyShips(v) : records[p] = Nothing}
           IN  TextIn(t) \ TextIn(Reconciled(t, records, v, untracked, force))
                 \subseteq AllMine(t.live, IF untracked THEN unchanged
                                           ELSE unchanged \cup unrecorded)
<1> DEFINE orphans == Orphans(t, records, v)
           kept == Kept(t, records, v, untracked)
           edited == {p \in Outdated(t, v) : Modified(t, records, p, untracked)}
           replaced == IF force THEN Outdated(t, v) ELSE Outdated(t, v) \ kept
           unchanged == {p \in Paths : t.live[p] = records[p]}
           unrecorded == {p \in LegacyShips(v) : records[p] = Nothing}
           gone == IF untracked THEN unchanged ELSE unchanged \cup unrecorded
           tt == Reconciled(t, records, v, untracked, force)
<1>1. /\ tt.saved = t.saved \cup AllMine(t.live, orphans \cup (edited \cap replaced))
      /\ \A p \in Paths : p \notin replaced \cup orphans => tt.live[p] = t.live[p]
  BY DEF Reconciled
<1>2. \A p \in Paths : p \in replaced /\ p \notin edited => p \in gone
  BY ShipsAssumption DEF Outdated, Modified
<1> HIDE DEF orphans, kept, edited, replaced, tt, gone
<1> SUFFICES ASSUME NEW m \in TextIn(t), m \notin TextIn(tt)
             PROVE  m \in AllMine(t.live, gone)
  BY DEF gone, tt
<1>3. PICK p \in Paths : m \in MineIn(t.live[p])
  BY <1>1 DEF TextIn, AllMine
<1>4. p \notin orphans \cup (edited \cap replaced)
  BY <1>1, <1>3 DEF TextIn, AllMine
<1>5. p \in replaced
  BY <1>1, <1>3, <1>4 DEF TextIn, AllMine
<1> QED
  BY <1>2, <1>3, <1>4, <1>5 DEF AllMine

\* It records what it wrote and nobody's text of the kit's files.
LEMMA ReconciledRecordsHold ==
    ASSUME NEW t \in Trees, NEW records \in [Paths -> Contents], NEW v \in Versions,
           \A p \in KitOwned : MineIn(records[p]) = {}
    PROVE  /\ ReconciledRecords(t, records, v) \in [Paths -> Contents]
           /\ \A p \in KitOwned : MineIn(ReconciledRecords(t, records, v)[p]) = {}
  BY PartsTyped, PartsMine DEF ReconciledRecords, KitOwned

\* A migration overwrites nothing that differs.
LEMMA MigratedHolds ==
    ASSUME NEW t \in Trees
    PROVE  /\ Migrated(t) \in Trees
           /\ ~MigrationConflict(t) => TextIn(t) \subseteq TextIn(Migrated(t))
<1> DEFINE files == [q \in Paths |->
                       IF \E p \in OldMemory : NeutralOf[p] = q /\ t.live[p] # Nothing
                       THEN t.live[CHOOSE p \in OldMemory : NeutralOf[p] = q]
                       ELSE t.live[q]]
           tt == Migrated(t)
<1>1. /\ tt.live = files /\ tt.saved = t.saved /\ tt.beside = t.beside
      /\ tt = [live |-> files, beside |-> t.beside, saved |-> t.saved]
  BY DEF Migrated, Trees
<1>2. ASSUME NEW q \in Paths
      PROVE  \/ files[q] = t.live[q]
             \/ \E p \in OldMemory : /\ NeutralOf[p] = q /\ t.live[p] # Nothing
                                     /\ files[q] = t.live[p]
  <2>1. CASE \E p \in OldMemory : NeutralOf[p] = q /\ t.live[p] # Nothing
    <3>1. PICK p \in OldMemory : NeutralOf[p] = q /\ t.live[p] # Nothing
      BY <2>1
    <3>2. (CHOOSE r \in OldMemory : NeutralOf[r] = q) = p
      BY <3>1, NeutralAssumption
    <3>3. files[q] = t.live[p]
      BY <2>1, <3>2
    <3> QED
      BY <3>1, <3>3
  <2>2. CASE ~ \E p \in OldMemory : NeutralOf[p] = q /\ t.live[p] # Nothing
    BY <2>2
  <2> QED
    BY <2>1, <2>2
<1>3. OldMemory \subseteq Paths
  BY DEF Paths
<1>4. files = [q \in Paths |-> files[q]]
  OBVIOUS
<1> HIDE DEF files, tt
<1>5. files \in [Paths -> Contents]
  BY <1>2, <1>3, <1>4, TreeParts
<1>6. tt \in Trees
  BY <1>1, <1>5, TreeParts DEF Trees
<1>7. ASSUME ~MigrationConflict(t), NEW q \in Paths
      PROVE  MineIn(t.live[q]) \subseteq MineIn(files[q])
  <2>1. CASE files[q] = t.live[q]
    BY <2>1
  <2>2. ASSUME NEW p \in OldMemory, NeutralOf[p] = q, t.live[p] # Nothing,
               files[q] = t.live[p]
        PROVE  MineIn(t.live[q]) \subseteq MineIn(files[q])
    BY <1>7, <2>2, PartsMine DEF MigrationConflict
  <2> QED
    BY <1>2, <2>1, <2>2
<1>8. ~MigrationConflict(t) => TextIn(t) \subseteq TextIn(tt)
  BY <1>1, <1>7, TextStays
<1> QED
  BY <1>6, <1>8 DEF tt

\* The records follow the files they are of.
LEMMA MigratedRecordsHold ==
    ASSUME NEW records \in [Paths -> Contents], \A p \in KitOwned : MineIn(records[p]) = {}
    PROVE  /\ MigratedRecords(records) \in [Paths -> Contents]
           /\ \A p \in KitOwned : MineIn(MigratedRecords(records)[p]) = {}
<1> DEFINE after == MigratedRecords(records)
<1>1. \A q \in Paths : (\E p \in OldMemory : NeutralOf[p] = q) => q \in Memory
  BY NeutralAssumption
<1>2. OldMemory \subseteq Paths
  BY DEF Paths
<1>3. ASSUME NEW q \in Paths
      PROVE  after[q] \in Contents
  <2>1. CASE \E p \in OldMemory : NeutralOf[p] = q
    <3>1. (CHOOSE p \in OldMemory : NeutralOf[p] = q) \in OldMemory
      BY <2>1
    <3>2. after[q] = records[CHOOSE p \in OldMemory : NeutralOf[p] = q]
      BY <2>1 DEF MigratedRecords
    <3> QED
      BY <1>2, <3>1, <3>2
  <2>2. CASE ~ \E p \in OldMemory : NeutralOf[p] = q
    BY <2>2, PartsTyped DEF MigratedRecords
  <2> QED
    BY <2>1, <2>2
<1>4. ASSUME NEW q \in KitOwned PROVE MineIn(after[q]) = {}
  <2>1. q \in Paths /\ q \notin Memory \cup OldMemory
    BY DEF KitOwned, UserEditable
  <2>2. after[q] = records[q]
    BY <1>1, <2>1 DEF MigratedRecords
  <2> QED
    BY <2>2
<1>5. after = [q \in Paths |-> after[q]]
  BY DEF MigratedRecords
<1> HIDE DEF after
<1>6. after \in [Paths -> Contents]
  BY <1>3, <1>5
<1> QED
  BY <1>4, <1>6 DEF after

Manifests == [runtimes : SUBSET Providers, policy : SUBSET Providers,
              records : [Paths -> Contents]]

\* A manifest records nobody's text as the kit's.
Clean(records) == \A p \in KitOwned : MineIn(records[p]) = {}

\* The native spine, file by file.
NativeWritten(t, old, v, force, p) == p \in Charter \cup Servers \/ Refreshed(t, old, p, v, force)

NativeLive(t, old, shipped, v, force, p) ==
    CASE p \in Charter \cap shipped -> Charted(t, p, v, force)
      [] p \in Servers \cap shipped -> Served(t, p, v, force)
      [] p \in Servers \ shipped -> Unserved(t, old, p)
      [] p \in Templates \ shipped -> Retired(t, old, p)
      [] p \in shipped \ (Charter \cup Servers) /\ NativeWritten(t, old, v, force, p) -> {Kit(v)}
      [] OTHER -> t.live[p]

\* A tree with other files.
LEMMA TreeWith ==
    ASSUME NEW t \in Trees, NEW l, NEW b
    PROVE  [t EXCEPT !.live = l, !.beside = b] = [live |-> l, beside |-> b, saved |-> t.saved]
<1> DEFINE u == [t EXCEPT !.live = l]
<1>1. u \in [live : {l}, beside : {t.beside}, saved : {t.saved}]
  BY DEF Trees
<1> HIDE DEF u
<1>2. [u EXCEPT !.beside = b] = [live |-> l, beside |-> b, saved |-> t.saved]
  BY <1>1
<1>3. [t EXCEPT !.live = l, !.beside = b] = [u EXCEPT !.beside = b]
  BY DEF Trees, u
<1> QED
  BY <1>2, <1>3

\* The installed tree.
LEMMA NativeInstallTree ==
    ASSUME NEW t \in Trees, NEW old \in Manifests, NEW runtimes, NEW v \in Versions,
           NEW force \in BOOLEAN
    PROVE  LET shipped == NativeShips(runtimes, v)
           IN  NativeInstall(t, old, runtimes, v, force)
                 = [live |-> [p \in Paths |-> NativeLive(t, old, shipped, v, force, p)],
                    beside |-> [p \in Paths |->
                                  IF p \in shipped \ Memory /\ ~NativeWritten(t, old, v, force, p)
                                  THEN v ELSE t.beside[p]],
                    saved |-> t.saved]
<1> DEFINE shipped == NativeShips(runtimes, v)
           L == [p \in Paths |-> NativeLive(t, old, shipped, v, force, p)]
           B == [p \in Paths |-> IF p \in shipped \ Memory /\ ~NativeWritten(t, old, v, force, p)
                                 THEN v ELSE t.beside[p]]
<1>1. NativeInstall(t, old, runtimes, v, force) = [t EXCEPT !.live = L, !.beside = B]
  BY DEF NativeInstall, NativeLive, NativeWritten
<1> HIDE DEF L, B
<1>2. [t EXCEPT !.live = L, !.beside = B] = [live |-> L, beside |-> B, saved |-> t.saved]
  BY TreeWith
<1> QED
  BY <1>1, <1>2 DEF L, B

\* Its files are of the right type.
LEMMA NativeInstallTyped ==
    ASSUME NEW t \in Trees, NEW old \in Manifests, NEW runtimes, NEW v \in Versions,
           NEW force \in BOOLEAN
    PROVE  NativeInstall(t, old, runtimes, v, force) \in Trees
<1> DEFINE tt == NativeInstall(t, old, runtimes, v, force)
           shipped == NativeShips(runtimes, v)
<1>1. ASSUME NEW p \in Paths
      PROVE  /\ Charted(t, p, v, force) \in Contents /\ Served(t, p, v, force) \in Contents
             /\ Unserved(t, old, p) \in Contents /\ Retired(t, old, p) \in Contents
             /\ {Kit(v)} \in Contents /\ t.live[p] \in Contents
  <2>1. /\ t.live[p] \in Contents /\ {Kit(v)} \in Contents /\ {Block(v)} \in Contents
        /\ {} \in Contents /\ FreeIn(t.live[p]) \in Contents
        /\ Unblocked(t.live[p]) \in Contents
    BY TreeParts, PartsTyped DEF Nothing
  <2>2. Charted(t, p, v, force) \in Contents /\ Served(t, p, v, force) \in Contents
    BY <2>1, PartsTyped DEF Charted, Served
  <2> QED
    BY <2>1, <2>2 DEF Unserved, Retired, Nothing
<1>2. ASSUME NEW p \in Paths PROVE NativeLive(t, old, shipped, v, force, p) \in Contents
  BY <1>1 DEF NativeLive
<1>3. tt = [live |-> [p \in Paths |-> NativeLive(t, old, shipped, v, force, p)],
            beside |-> [p \in Paths |->
                          IF p \in shipped \ Memory /\ ~NativeWritten(t, old, v, force, p)
                          THEN v ELSE t.beside[p]],
            saved |-> t.saved]
  BY NativeInstallTree
<1> HIDE DEF tt, shipped
<1>4. tt.live \in [Paths -> Contents]
  BY <1>2, <1>3
<1>5. tt.beside \in [Paths -> {0} \cup Versions]
  BY <1>3, TreeParts
<1>6. tt \in Trees
  BY <1>3, <1>4, <1>5, TreeParts DEF Trees
<1> QED
  BY <1>6 DEF tt

\* The files in which the native spine takes what is within the kit's.
TakenIn(old) == Charter \cup {p \in Servers : Managed(old, p)}

\* Unless forced it writes over the kit's own text and over what is within it.
LEMMA NativeFilesKeep ==
    ASSUME NEW t \in Trees, NEW old \in Manifests, NEW runtimes, NEW v \in Versions,
           NEW force \in BOOLEAN, ~force, Clean(old.records),
           ~NativeConflict(t, old, runtimes, v, force), NEW p \in Paths
    PROVE  LET after == NativeInstall(t, old, runtimes, v, force).live[p]
           IN  /\ FreeIn(t.live[p]) \subseteq MineIn(after)
               /\ p \notin TakenIn(old) => MineIn(t.live[p]) \subseteq MineIn(after)
<1> DEFINE shipped == NativeShips(runtimes, v)
           after == NativeLive(t, old, shipped, v, force, p)
<1>1. NativeInstall(t, old, runtimes, v, force).live[p] = after
  BY NativeInstallTree
<1>2. /\ MineIn({}) = {} /\ FreeIn({}) = {}
      /\ MineIn({Kit(v)}) = {} /\ MineIn({Block(v)}) = {}
      /\ FreeIn(t.live[p]) \subseteq MineIn(t.live[p])
  BY PartsMine DEF Nothing, FreeIn
<1>3. FreeIn(t.live[p]) = MineIn(Charted(t, p, v, force))
  <2>1. CASE t.live[p] = {}
    <3>1. Charted(t, p, v, force) = {Block(v)}
      BY <2>1 DEF Charted, Nothing
    <3> QED
      BY <1>2, <2>1, <3>1
  <2>2. CASE t.live[p] # {}
    <3>1. Charted(t, p, v, force) = {Block(v)} \cup Unblocked(t.live[p])
      BY <2>2 DEF Charted, Nothing
    <3> QED
      BY <3>1, PartsMine
  <2> QED
    BY <2>1, <2>2
<1>4. FreeIn(t.live[p]) = MineIn(Served(t, p, v, force))
  <2>1. CASE t.live[p] = {}
    <3>1. Served(t, p, v, force) = {Kit(v)}
      BY <2>1 DEF Served, Nothing
    <3> QED
      BY <1>2, <2>1, <3>1
  <2>2. CASE t.live[p] # {}
    <3>1. Served(t, p, v, force) = {Kit(v)} \cup FreeIn(t.live[p])
      BY <2>2 DEF Served, Nothing
    <3> QED
      BY <3>1, PartsMine
  <2> QED
    BY <2>1, <2>2
<1>5. /\ FreeIn(t.live[p]) \subseteq MineIn(Unserved(t, old, p))
      /\ ~Managed(old, p) => MineIn(t.live[p]) = MineIn(Unserved(t, old, p))
  BY <1>2, PartsMine DEF Unserved
<1>6. ASSUME p \in Templates PROVE MineIn(Retired(t, old, p)) = MineIn(t.live[p])
  <2>1. MineIn(old.records[p]) = {}
    BY <1>6, KindsApart DEF Clean, KitOwned
  <2> QED
    BY <2>1, PartsMine DEF Retired
<1>7. ASSUME Refreshed(t, old, p, v, force) PROVE MineIn(t.live[p]) = {}
  BY <1>2, <1>7, PartsMine DEF Refreshed, Clean, KitOwned
<1>8. ASSUME p \in Servers \cap shipped, ~Managed(old, p)
      PROVE  MineIn(t.live[p]) = FreeIn(t.live[p])
  <2>1. FreeIn(t.live[p]) = t.live[p]
    BY <1>8 DEF NativeConflict
  <2> QED
    BY <2>1, PartsMine
<1> HIDE DEF shipped
<1>9. FreeIn(t.live[p]) \subseteq MineIn(after)
  BY <1>2, <1>3, <1>4, <1>5, <1>6, <1>7 DEF NativeLive, NativeWritten
<1>10. ASSUME p \notin TakenIn(old) PROVE MineIn(t.live[p]) \subseteq MineIn(after)
  BY <1>2, <1>4, <1>5, <1>6, <1>7, <1>8, <1>10 DEF NativeLive, NativeWritten, TakenIn
<1> HIDE DEF after
<1> QED
  BY <1>1, <1>9, <1>10

\* So all it loses is what is within the kit's in those files.
LEMMA NativeInstallLoses ==
    ASSUME NEW t \in Trees, NEW old \in Manifests, NEW runtimes, NEW v \in Versions,
           NEW force \in BOOLEAN, ~force, Clean(old.records),
           ~NativeConflict(t, old, runtimes, v, force),
           NEW m \in TextIn(t) \ TextIn(NativeInstall(t, old, runtimes, v, force))
    PROVE  m.by = "within" /\ \E p \in TakenIn(old) : m \in MineIn(t.live[p])
<1> DEFINE tt == NativeInstall(t, old, runtimes, v, force)
<1> DEFINE shipped == NativeShips(runtimes, v)
<1>1. /\ t.saved = tt.saved
      /\ tt.live = [p \in Paths |-> NativeLive(t, old, shipped, v, force, p)]
  BY NativeInstallTree
<1>2. \A p \in Paths : /\ FreeIn(t.live[p]) \subseteq MineIn(tt.live[p])
                       /\ p \notin TakenIn(old) => MineIn(t.live[p]) \subseteq MineIn(tt.live[p])
  BY NativeFilesKeep
<1>3. m \in TextIn(t) /\ m \notin TextIn(tt)
  OBVIOUS
<1> HIDE DEF tt, shipped
<1>4. PICK p \in Paths : m \in MineIn(t.live[p])
  BY <1>1, <1>3 DEF TextIn, AllMine
<1>5. m \notin MineIn(tt.live[p])
  BY <1>3, <1>4 DEF TextIn, AllMine
<1>6. m \notin FreeIn(t.live[p]) /\ p \in TakenIn(old)
  BY <1>2, <1>4, <1>5
<1> QED
  BY <1>4, <1>6, PartsMine

\* It records kit text at the paths that are the kit's.
LEMMA NativeRecordsHold ==
    ASSUME NEW t \in Trees, NEW old \in Manifests, NEW runtimes, NEW v \in Versions,
           NEW force \in BOOLEAN
    PROVE  /\ NativeRecords(t, old, runtimes, v, force) \in [Paths -> Contents]
           /\ Clean(NativeRecords(t, old, runtimes, v, force))
<1> DEFINE tt == NativeInstall(t, old, runtimes, v, force)
           after == NativeRecords(t, old, runtimes, v, force)
           recorded(p) == /\ p \in NativeShips(runtimes, v)
                          /\ p \in Charter \cup Servers \/ Refreshed(t, old, p, v, force)
<1>1. ASSUME NEW p \in Paths
      PROVE  after[p] = CASE recorded(p) -> tt.live[p]
                          [] p \in Memory /\ tt.live[p] # Nothing -> old.records[p]
                          [] OTHER -> Nothing
  BY DEF NativeRecords
<1>2. after = [p \in Paths |-> after[p]]
  BY DEF NativeRecords
<1>3. \A p \in Paths : tt.live[p] \in Contents
  BY NativeInstallTyped, TreeParts
<1>4. \A p \in Paths : old.records[p] \in Contents
  BY DEF Manifests
<1>5. ASSUME NEW p \in KitOwned, recorded(p) PROVE tt.live[p] = {Kit(v)}
  <2>1. /\ p \in Paths /\ p \notin Charter \cup Servers \cup Memory \cup Guides \cup OldMemory
        /\ p \in NativeShips(runtimes, v)
        /\ Refreshed(t, old, p, v, force)
    BY <1>5 DEF KitOwned, UserEditable
  <2>2. tt.live[p] = NativeLive(t, old, NativeShips(runtimes, v), v, force, p)
    BY <2>1, NativeInstallTree
  <2>3. tt.live[p] = {Kit(v)}
    BY <2>1, <2>2 DEF NativeLive, NativeWritten
  <2> QED
    BY <2>3
<1> HIDE DEF tt, after, recorded
<1>6. \A p \in Paths : after[p] \in Contents
  <2> SUFFICES ASSUME NEW p \in Paths PROVE after[p] \in Contents
    OBVIOUS
  <2>1. after[p] = tt.live[p] \/ after[p] = old.records[p] \/ after[p] = Nothing
    BY <1>1
  <2> QED
    BY <1>3, <1>4, <2>1, PartsTyped
<1>7. after \in [Paths -> Contents]
  BY <1>2, <1>6
<1>8. \A p \in KitOwned : MineIn(after[p]) = {}
  <2> SUFFICES ASSUME NEW p \in KitOwned PROVE MineIn(after[p]) = {}
    OBVIOUS
  <2>1. p \in Paths /\ p \notin Memory
    BY DEF KitOwned, UserEditable
  <2>2. (after[p] = tt.live[p] /\ recorded(p)) \/ after[p] = Nothing
    BY <1>1, <2>1
  <2> QED
    BY <1>5, <2>2, PartsMine
<1> QED
  BY <1>7, <1>8 DEF Clean, after

\* What a transition withdraws is saved.
LEMMA WithdrawnHolds ==
    ASSUME NEW t \in Trees, NEW removed \in SUBSET Providers
    PROVE  Withdrawn(t, removed) \in Trees /\ TextIn(t) \subseteq TextIn(Withdrawn(t, removed))
<1> DEFINE gone == UNION {Surfaces(r) : r \in removed}
           tt == Withdrawn(t, removed)
<1>1. gone \in SUBSET Paths
  BY DEF Paths, Surfaces
<1>2. tt = [live |-> [p \in Paths |-> IF p \in gone THEN Nothing ELSE t.live[p]],
            beside |-> [p \in Paths |-> IF p \in gone THEN 0 ELSE t.beside[p]],
            saved |-> t.saved \cup AllMine(t.live, gone)]
  BY DEF Withdrawn
<1> HIDE DEF gone, tt
<1>3. tt \in Trees
  <2>1. tt.live \in [Paths -> Contents]
    BY <1>2, TreeParts, PartsTyped
  <2>2. tt.beside \in [Paths -> {0} \cup Versions]
    BY <1>2, TreeParts
  <2>3. tt.saved \in SUBSET [by : {"mine", "within"}, n : Nat]
    BY <1>1, <1>2, TreeParts, AllMineTyped
  <2> QED
    BY <1>2, <2>1, <2>2, <2>3 DEF Trees
<1>4. \A p \in Paths \ gone : tt.live[p] = t.live[p]
  BY <1>1, <1>2
<1>5. \A p \in gone : MineIn(t.live[p]) \subseteq tt.saved
  BY <1>2, AllMineHas
<1>6. TextIn(t) \subseteq TextIn(tt)
  BY <1>2, <1>4, <1>5, TextStays
<1> QED
  BY <1>3, <1>6 DEF tt

---------------------------------------------------------------------------
(* What every command keeps.                                                *)

LifeInvariant == InstallInvariant /\ FrozenProvidersStay

\* The parts of the invariant.
LEMMA LifeParts ==
    LifeInvariant <=>
      /\ tree \in Trees
      /\ legacy \in [Paths -> Contents] /\ Clean(legacy)
      /\ native \in Manifests /\ Clean(native.records)
      /\ native.policy \subseteq native.runtimes
      /\ run \in [kind : {"none", "managed", "maker-checker"}, providers : SUBSET Providers]
      /\ version \in Versions /\ edits \in Nat
      /\ FrozenProvidersStay
  BY DEF LifeInvariant, InstallInvariant, LTypeOK, RecordsAreTheKits, Clean, Manifests

\* The same of the next state.
LEMMA LifePartsNext ==
    LifeInvariant' <=>
      /\ tree' \in Trees
      /\ legacy' \in [Paths -> Contents] /\ Clean(legacy')
      /\ native' \in Manifests /\ Clean(native'.records)
      /\ native'.policy \subseteq native'.runtimes
      /\ run' \in [kind : {"none", "managed", "maker-checker"}, providers : SUBSET Providers]
      /\ version' \in Versions /\ edits' \in Nat
      /\ FrozenProvidersStay'
  BY DEF LifeInvariant, InstallInvariant, LTypeOK, RecordsAreTheKits, Clean, Manifests

\* What is absent is of its type.
LEMMA NothingInstalled ==
    /\ NoRecords \in [Paths -> Contents] /\ Clean(NoRecords)
    /\ NotInstalled \in Manifests
    /\ NotInstalled.runtimes = {} /\ NotInstalled.policy = {}
    /\ NotInstalled.records = NoRecords
<1>1. NoRecords \in [Paths -> Contents] /\ Clean(NoRecords)
  BY PartsTyped, PartsMine DEF NoRecords, Clean, KitOwned
<1> QED
  BY <1>1 DEF NotInstalled, Manifests

\* The empty directory.
LEMMA LifeBegins == LInit => LifeInvariant
<1> SUFFICES ASSUME LInit PROVE LifeInvariant
  OBVIOUS
<1>1. tree \in Trees
  BY NothingInstalled DEF LInit, Trees
<1>2. version \in Versions
  BY VersionAssumption DEF LInit, Versions
<1>3. /\ run \in [kind : {"none", "managed", "maker-checker"}, providers : SUBSET Providers]
      /\ FrozenProvidersStay
  BY DEF LInit, NoRun, FrozenProvidersStay
<1> QED
  BY <1>1, <1>2, <1>3, LifeParts, NothingInstalled DEF LInit

\* What the user does to a file.
LEMMA EditHolds ==
    ASSUME LifeInvariant, NEW p \in Paths, Write(p) \/ WriteWithin(p) \/ Delete(p)
    PROVE  LifeInvariant'
<1> USE LifeParts
<1>1. \E c \in Contents : tree' = [tree EXCEPT !.live[p] = c]
  <2>1. /\ tree.live[p] \cup {Mine(edits + 1)} \in Contents
        /\ tree.live[p] \cup {Within(edits + 1)} \in Contents
    <3>1. edits + 1 \in Nat /\ tree.live[p] \in Contents
      BY TreeParts
    <3> QED
      BY <3>1, PartsTyped
  <2>2. CASE Write(p)
    BY <2>1, <2>2 DEF Write, Put
  <2>4. CASE WriteWithin(p)
    BY <2>1, <2>4 DEF WriteWithin, Put
  <2>3. CASE Delete(p)
    BY <2>3, PartsTyped DEF Delete
  <2> QED
    BY <2>2, <2>3, <2>4
<1>2. tree' \in Trees
  BY <1>1 DEF Trees
<1>3. edits' \in Nat /\ UNCHANGED <<legacy, native, run, version>>
  BY DEF Write, WriteWithin, Put, Delete
<1> QED
  BY <1>2, <1>3, LifePartsNext DEF FrozenProvidersStay

\* The legacy installer over any tree and records.
LEMMA InstallLegacyHolds ==
    ASSUME LifeInvariant, NEW base \in Trees, NEW records \in [Paths -> Contents],
           NEW force \in BOOLEAN, InstallLegacy(base, records, force)
    PROVE  LifeInvariant'
<1> USE LifeParts
<1>1. /\ tree' = LegacyInstall(base, records, version, force)
      /\ legacy' = LegacyRecords(tree', version)
      /\ UNCHANGED <<native, run, version, edits>>
  BY DEF InstallLegacy
<1>2. tree' \in Trees
  BY <1>1, LegacyInstallTyped
<1>3. legacy' \in [Paths -> Contents] /\ Clean(legacy')
  BY <1>1, LegacyRecordsHold DEF Clean
<1> QED
  BY <1>1, <1>2, <1>3, LifePartsNext DEF FrozenProvidersStay

\* Merge and the upgrade of a legacy install.
LEMMA ReconcileHolds ==
    ASSUME LifeInvariant, NEW untracked \in BOOLEAN, NEW force \in BOOLEAN,
           Reconcile(untracked, force)
    PROVE  LifeInvariant'
<1> USE LifeParts
<1>1. /\ tree' = Reconciled(tree, legacy, version, untracked, force)
      /\ legacy' = ReconciledRecords(tree, legacy, version)
      /\ UNCHANGED <<native, run, version, edits>>
  BY DEF Reconcile
<1>2. tree' \in Trees
  BY <1>1, ReconciledTyped
<1>3. legacy' \in [Paths -> Contents] /\ Clean(legacy')
  BY <1>1, ReconciledRecordsHold DEF Clean
<1> QED
  BY <1>1, <1>2, <1>3, LifePartsNext DEF FrozenProvidersStay

\* The manifest a migration adopts.
LEMMA AdoptedHolds ==
    ASSUME LifeInvariant
    PROVE  /\ AdoptedManifest \in Manifests /\ Clean(AdoptedManifest.records)
           /\ AdoptedManifest.policy = {}
<1> USE LifeParts
<1>1. MigratedRecords(legacy) \in [Paths -> Contents] /\ Clean(MigratedRecords(legacy))
  BY MigratedRecordsHold DEF Clean
<1>2. CASE legacy = NoRecords
  BY <1>2, NothingInstalled DEF AdoptedManifest
<1>3. CASE legacy # NoRecords
  <2>1. AdoptedManifest = [runtimes |-> {"claude"}, policy |-> {},
                           records |-> MigratedRecords(legacy)]
    BY <1>3 DEF AdoptedManifest
  <2> QED
    BY <1>1, <2>1 DEF Manifests, Providers
<1> QED
  BY <1>2, <1>3

\* A run has frozen nothing where nothing is installed natively.
LEMMA MigrateHolds == LifeInvariant /\ Migrate => LifeInvariant'
<1> SUFFICES ASSUME LifeInvariant, Migrate PROVE LifeInvariant'
  OBVIOUS
<1> USE LifeParts
<1>1. /\ tree' \in Trees
      /\ native' = AdoptedManifest
      /\ UNCHANGED <<legacy, run, version, edits>>
  BY MigratedHolds DEF Migrate
<1>2. FrozenProvidersStay'
  <2>1. native.runtimes = {}
    BY NothingInstalled DEF Migrate
  <2> QED
    BY <1>1, <2>1 DEF FrozenProvidersStay
<1> QED
  BY <1>1, <1>2, AdoptedHolds, LifePartsNext

\* The native installer over any tree and manifest that leaves frozen providers in.
LEMMA InstallNativeHolds ==
    ASSUME LifeInvariant, NEW base \in Trees, NEW old \in Manifests,
           NEW runtimes \in SUBSET Providers, NEW policy \in SUBSET runtimes,
           NEW force \in BOOLEAN, InstallNative(base, old, runtimes, policy, force),
           legacy' \in {legacy, NoRecords}, UNCHANGED <<run, version, edits>>,
           run.kind = "maker-checker" => run.providers \subseteq runtimes
    PROVE  LifeInvariant'
<1> USE LifeParts
<1> DEFINE after == NativeRecords(base, old, runtimes, version, force)
<1>1. /\ tree' = NativeInstall(base, old, runtimes, version, force)
      /\ native' = [runtimes |-> runtimes, policy |-> policy, records |-> after]
  BY DEF InstallNative
<1>2. tree' \in Trees
  BY <1>1, NativeInstallTyped
<1>3. after \in [Paths -> Contents] /\ Clean(after)
  BY NativeRecordsHold
<1> HIDE DEF after
<1>4. /\ native' \in Manifests /\ Clean(native'.records)
      /\ native'.policy \subseteq native'.runtimes
  BY <1>1, <1>3 DEF Manifests
<1>5. legacy' \in [Paths -> Contents] /\ Clean(legacy')
  BY NothingInstalled
<1>6. FrozenProvidersStay'
  BY <1>1 DEF FrozenProvidersStay
<1> QED
  BY <1>2, <1>4, <1>5, <1>6, LifePartsNext

\* A repeated init keeps the runtime, a first one finds nothing frozen.
LEMMA InitRuntimeHolds ==
    ASSUME LifeInvariant, NEW runtimes \in Runtimes, NEW policy, NEW force \in BOOLEAN,
           InitRuntime(runtimes, policy, force)
    PROVE  LifeInvariant'
<1> USE LifeParts
<1>1. /\ native = NotInstalled \/ native.runtimes = runtimes
      /\ policy \in SUBSET runtimes
      /\ runtimes \in SUBSET Providers
      /\ legacy' \in {legacy, NoRecords}
      /\ UNCHANGED <<run, version, edits>>
  BY DEF InitRuntime, Runtimes
<1>2. run.kind = "maker-checker" => run.providers \subseteq runtimes
  BY <1>1, NothingInstalled DEF FrozenProvidersStay
<1>3. CASE LegacyState
  <2>1. InstallNative(Migrated(tree), AdoptedManifest, runtimes, policy, force)
    BY <1>3 DEF InitRuntime
  <2> QED
    BY <1>1, <1>2, <2>1, MigratedHolds, AdoptedHolds, InstallNativeHolds
<1>4. CASE ~LegacyState
  <2>1. InstallNative(tree, native, runtimes, policy, force)
    BY <1>4 DEF InitRuntime
  <2> QED
    BY <1>1, <1>2, <2>1, InstallNativeHolds
<1> QED
  BY <1>3, <1>4

\* A transition does not remove what an active run has frozen.
LEMMA UpgradeNativeHolds ==
    ASSUME LifeInvariant, NEW runtimes \in Runtimes, NEW force \in BOOLEAN,
           UpgradeNative(runtimes, force)
    PROVE  LifeInvariant'
<1> USE LifeParts
<1> DEFINE removed == native.runtimes \ runtimes
<1>1. /\ native.policy \in SUBSET runtimes
      /\ run.providers \cap removed = {}
      /\ InstallNative(Withdrawn(tree, removed), native, runtimes, native.policy, force)
      /\ legacy' \in {legacy, NoRecords}
      /\ UNCHANGED <<run, version, edits>>
      /\ runtimes \in SUBSET Providers
  BY DEF UpgradeNative, Removable, Runtimes
<1>2. run.kind = "maker-checker" => run.providers \subseteq runtimes
  BY <1>1 DEF FrozenProvidersStay
<1>3. removed \in SUBSET Providers
  BY DEF Manifests
<1> HIDE DEF removed
<1> QED
  BY <1>1, <1>2, <1>3, WithdrawnHolds, InstallNativeHolds

\* A policy replaced while a run is active changes neither the run nor the runtimes.
LEMMA ConfigureHolds ==
    ASSUME LifeInvariant, NEW policy, Configure(policy)
    PROVE  LifeInvariant'
<1> USE LifeParts
<1>1. /\ policy \subseteq native.runtimes
      /\ native' = [native EXCEPT !.policy = policy]
      /\ UNCHANGED <<tree, legacy, run, version, edits>>
  BY DEF Configure
<1>2. /\ native' \in Manifests /\ native'.records = native.records
      /\ native'.runtimes = native.runtimes /\ native'.policy = policy
  BY <1>1 DEF Manifests
<1> QED
  BY <1>1, <1>2, LifePartsNext DEF FrozenProvidersStay

\* A run freezes the providers of the policy, which are installed.
LEMMA RunHolds ==
    ASSUME LifeInvariant, StartManaged \/ StartMakerChecker \/ EndRun
    PROVE  LifeInvariant'
<1> USE LifeParts
<1>1. UNCHANGED <<tree, legacy, native, version, edits>>
  BY DEF StartManaged, StartMakerChecker, EndRun
<1>2. native.policy \in SUBSET Providers
  BY DEF Manifests
<1>3. \/ run' = [kind |-> "managed", providers |-> {}]
      \/ run' = [kind |-> "maker-checker", providers |-> native.policy]
      \/ run' = NoRun
  BY DEF StartManaged, StartMakerChecker, EndRun
<1>4. run' \in [kind : {"none", "managed", "maker-checker"}, providers : SUBSET Providers]
  BY <1>2, <1>3 DEF NoRun
<1>5. FrozenProvidersStay'
  BY <1>1, <1>3 DEF FrozenProvidersStay, NoRun
<1> QED
  BY <1>1, <1>4, <1>5, LifePartsNext

\* Every step keeps the invariant.
LEMMA LifeStep == LifeInvariant /\ [LNext]_lvars => LifeInvariant'
<1> SUFFICES ASSUME LifeInvariant, [LNext]_lvars PROVE LifeInvariant'
  OBVIOUS
<1> USE LifeParts
<1>1. ASSUME NEW p \in Paths, Write(p) \/ WriteWithin(p) \/ Delete(p) PROVE LifeInvariant'
  BY <1>1, EditHolds
<1>2. CASE NewKit
  <2>1. version' \in Versions /\ UNCHANGED <<tree, legacy, native, run, edits>>
    BY <1>2, VersionAssumption DEF NewKit, Versions
  <2> QED
    BY <2>1, LifePartsNext DEF FrozenProvidersStay
<1>3. CASE InitOverwrite
  BY <1>3, InstallLegacyHolds DEF InitOverwrite
<1>4. CASE InitOtherAnswer
  BY <1>4, InstallLegacyHolds DEF InitOtherAnswer
<1>5. CASE InitBackup
  BY <1>5, BackupHolds, NothingInstalled, InstallLegacyHolds DEF InitBackup
<1>6. CASE Merge
  BY <1>6, ReconcileHolds DEF Merge
<1>7. ASSUME NEW force \in BOOLEAN, InitFresh(force) \/ UpgradeLegacy(force)
      PROVE  LifeInvariant'
  <2>1. CASE InitFresh(force)
    BY <2>1, InstallLegacyHolds DEF InitFresh
  <2>2. CASE UpgradeLegacy(force)
    BY <2>2, ReconcileHolds DEF UpgradeLegacy
  <2> QED
    BY <1>7, <2>1, <2>2
<1>8. CASE Migrate
  BY <1>8, MigrateHolds
<1>9. ASSUME NEW runtimes \in Runtimes, NEW force \in BOOLEAN,
             \/ \E policy \in Policies : InitRuntime(runtimes, policy, force)
             \/ UpgradeNative(runtimes, force)
      PROVE  LifeInvariant'
  BY <1>9, InitRuntimeHolds, UpgradeNativeHolds
<1>10. ASSUME NEW policy \in Policies, Configure(policy) PROVE LifeInvariant'
  BY <1>10, ConfigureHolds
<1>11. CASE StartManaged \/ StartMakerChecker \/ EndRun
  BY <1>11, RunHolds
<1>12. CASE UNCHANGED lvars
  BY <1>12, LifePartsNext DEF lvars, FrozenProvidersStay
<1> QED
  BY <1>1, <1>2, <1>3, <1>4, <1>5, <1>6, <1>7, <1>8, <1>9, <1>10, <1>11, <1>12 DEF LNext

\* The invariant holds through every life of a project.
LEMMA LifeHolds == LSpec => []LifeInvariant
  BY LifeBegins, LifeStep, PTL DEF LSpec

\* For any kinds of paths, kit versions, policies and edits: no manifest, legacy
\* or native, ever records somebody's text as the kit's at a path the kit owns.
THEOREM RecordsStayTheKits == LSpec => []InstallInvariant
<1>1. LifeInvariant => InstallInvariant
  BY DEF LifeInvariant
<1> QED
  BY <1>1, LifeHolds, PTL

\* What an active maker/checker run froze stays installed, whatever policy is
\* configured, disabled or replaced and whatever transitions are tried meanwhile.
THEOREM FrozenStayInstalled == LSpec => []FrozenProvidersStay
<1>1. LifeInvariant => FrozenProvidersStay
  BY DEF LifeInvariant
<1> QED
  BY <1>1, LifeHolds, PTL

---------------------------------------------------------------------------
(* What the user wrote.                                                     *)

\* A careful command keeps it all.
LEMMA CarefulKeeps == LifeInvariant /\ Careful => Written \subseteq Written'
<1> SUFFICES ASSUME LifeInvariant, Careful PROVE Written \subseteq Written'
  OBVIOUS
<1> USE LifeParts
<1>1. Written = TextIn(tree) /\ Written' = TextIn(tree')
  BY DEF Written, TextIn
<1>2. CASE InitFresh(FALSE)
  <2>1. \A p \in Rules \cup Agents \cup OldMemory : tree.live[p] = Nothing
    BY <1>2 DEF InitFresh, HasClaude
  <2>2. tree' = LegacyInstall(tree, legacy, version, FALSE)
    BY <1>2 DEF InitFresh, InstallLegacy
  <2> QED
    BY <1>1, <2>1, <2>2, LegacyInstallKeeps
<1>3. CASE InitBackup
  <2>1. tree' = LegacyInstall(BackedUp(tree), NoRecords, version, FALSE)
    BY <1>3 DEF InitBackup, InstallLegacy
  <2>2. TextIn(BackedUp(tree)) \subseteq TextIn(tree')
    BY <2>1, BackupHolds, NothingInstalled, LegacyInstallKeeps
  <2> QED
    BY <1>1, <2>2, BackupHolds
<1>4. CASE Migrate
  BY <1>1, <1>4, MigratedHolds DEF Migrate
<1> QED
  BY <1>2, <1>3, <1>4 DEF Careful

\* Migration leaves the files alone in which the native spine takes something, and
\* their records.
LEMMA MigratedElsewhere ==
    ASSUME NEW p \in Charter \cup Servers
    PROVE  /\ Migrated(tree).live[p] = tree.live[p]
           /\ AdoptedManifest.records[p] # Nothing => legacy[p] # Nothing
<1>1. /\ p \in Paths /\ p \notin OldMemory
      /\ \A q \in OldMemory : NeutralOf[q] # p
  BY KindsApart, NeutralAssumption DEF Paths
<1>2. MigratedRecords(legacy)[p] = legacy[p]
  BY <1>1 DEF MigratedRecords
<1>3. AdoptedManifest.records[p] = IF legacy = NoRecords THEN Nothing ELSE legacy[p]
  BY <1>1, <1>2 DEF AdoptedManifest, NotInstalled, NoRecords
<1>4. Migrated(tree).live[p] = tree.live[p]
  BY <1>1 DEF Migrated
<1> QED
  BY <1>3, <1>4

\* A native installer loses what is within the kit's, and nothing else.
LEMMA NativeLoses == LifeInvariant /\ Native => Written \ Written' \subseteq WithinTheKits
<1> SUFFICES ASSUME LifeInvariant, Native, NEW m \in Written \ Written'
             PROVE  m \in WithinTheKits
  OBVIOUS
<1> USE LifeParts
<1>1. Written = TextIn(tree) /\ Written' = TextIn(tree')
  BY DEF Written, TextIn
<1>2. ASSUME NEW base \in Trees, NEW old \in Manifests, NEW runtimes, NEW policy,
             NEW force \in BOOLEAN, ~force, Clean(old.records),
             InstallNative(base, old, runtimes, policy, force),
             TextIn(tree) \subseteq TextIn(base),
             \A p \in Charter \cup Servers :
                /\ MineIn(base.live[p]) \subseteq MineIn(tree.live[p])
                /\ old.records[p] # Nothing => legacy[p] # Nothing \/ native.records[p] # Nothing
      PROVE  m \in WithinTheKits
  <2>1. /\ ~NativeConflict(base, old, runtimes, version, force)
        /\ tree' = NativeInstall(base, old, runtimes, version, force)
    BY <1>2 DEF InstallNative
  <2>2. m \in TextIn(base) \ TextIn(NativeInstall(base, old, runtimes, version, force))
    BY <1>1, <1>2, <2>1
  <2>3. m.by = "within" /\ \E p \in TakenIn(old) : m \in MineIn(base.live[p])
    BY <1>2, <2>1, <2>2, NativeInstallLoses
  <2>4. PICK p \in TakenIn(old) : m \in MineIn(base.live[p])
    BY <2>3
  <2>5. p \in Claimed /\ m \in MineIn(tree.live[p])
    BY <1>2, <2>4 DEF TakenIn, Claimed, Managed
  <2> QED
    BY <2>3, <2>5 DEF WithinTheKits, AllMine
<1>3. ASSUME NEW runtimes \in Runtimes, NEW force \in BOOLEAN, ~force,
             UpgradeNative(runtimes, force)
      PROVE  m \in WithinTheKits
  <2> DEFINE removed == native.runtimes \ runtimes
             base == Withdrawn(tree, removed)
  <2>1. InstallNative(base, native, runtimes, native.policy, force)
    BY <1>3 DEF UpgradeNative
  <2>2. removed \in SUBSET Providers
    BY DEF Manifests
  <2>3. ASSUME NEW p \in Charter \cup Servers
        PROVE  MineIn(base.live[p]) \subseteq MineIn(tree.live[p])
    <3>1. base.live[p] = Nothing \/ base.live[p] = tree.live[p]
      BY DEF Withdrawn, Paths
    <3> QED
      BY <3>1, PartsMine
  <2>4. base \in Trees /\ TextIn(tree) \subseteq TextIn(base)
    BY <2>2, WithdrawnHolds
  <2> HIDE DEF removed, base
  <2> QED
    BY <1>2, <1>3, <2>1, <2>3, <2>4
<1>4. ASSUME NEW runtimes \in Runtimes, NEW policy, NEW force \in BOOLEAN, ~force,
             InitRuntime(runtimes, policy, force)
      PROVE  m \in WithinTheKits
  <2>1. CASE LegacyState
    <3>1. /\ ~MigrationConflict(tree)
          /\ InstallNative(Migrated(tree), AdoptedManifest, runtimes, policy, force)
      BY <1>4, <2>1 DEF InitRuntime
    <3>2. Migrated(tree) \in Trees /\ TextIn(tree) \subseteq TextIn(Migrated(tree))
      BY <3>1, MigratedHolds
    <3>3. AdoptedManifest \in Manifests /\ Clean(AdoptedManifest.records)
      BY AdoptedHolds
    <3>4. \A p \in Charter \cup Servers :
             /\ Migrated(tree).live[p] = tree.live[p]
             /\ AdoptedManifest.records[p] # Nothing => legacy[p] # Nothing
      BY MigratedElsewhere
    <3> QED
      BY <1>2, <1>4, <3>1, <3>2, <3>3, <3>4
  <2>2. CASE ~LegacyState
    <3>1. InstallNative(tree, native, runtimes, policy, force)
      BY <1>4, <2>2 DEF InitRuntime
    <3> QED
      BY <1>2, <1>4, <3>1
  <2> QED
    BY <2>1, <2>2
<1> QED
  BY <1>3, <1>4 DEF Native

\* A merge loses the text of files that are as the last install recorded them.
LEMMA MergeLoses ==
    LifeInvariant /\ Merge => Written \ Written' \subseteq AllMine(tree.live, AsRecorded)
<1> SUFFICES ASSUME LifeInvariant, Merge
             PROVE  Written \ Written' \subseteq AllMine(tree.live, AsRecorded)
  OBVIOUS
<1>1. Written = TextIn(tree) /\ Written' = TextIn(tree')
  BY DEF Written, TextIn
<1>2. tree' = Reconciled(tree, legacy, version, TRUE, FALSE)
  BY DEF Merge, Reconcile
<1> QED
  BY <1>1, <1>2, LifeParts, ReconciledLoses DEF AsRecorded

\* An upgrade also that of files it has no record of, at paths the kit ships.
LEMMA UpgradeLoses ==
    ASSUME LifeInvariant, NEW force \in BOOLEAN, UpgradeLegacy(force)
    PROVE  Written \ Written' \subseteq AllMine(tree.live, AsRecorded \cup Uncharted)
<1>1. Written = TextIn(tree) /\ Written' = TextIn(tree')
  BY DEF Written, TextIn
<1>2. tree' = Reconciled(tree, legacy, version, FALSE, force)
  BY DEF UpgradeLegacy, Reconcile
<1> QED
  BY <1>1, <1>2, LifeParts, ReconciledLoses DEF AsRecorded, Uncharted

\* For any kinds of paths, kit versions and edits, in any order of commands: no
\* command that was not forced loses what the user wrote, but for the three
\* exceptions the property names.
THEOREM WorkAlwaysSurvives == LSpec => WorkSurvives
<1> DEFINE NothingElse ==
             LET lost == Written \ Written'
             IN  lost # {} =>
                    /\ ~Careful
                    /\ Native => lost \subseteq WithinTheKits
                    /\ Merge => lost \subseteq AllMine(tree.live, AsRecorded)
                    /\ (\E force \in BOOLEAN : UpgradeLegacy(force))
                          => lost \subseteq AllMine(tree.live, AsRecorded \cup Uncharted)
<1>1. LifeInvariant => NothingElse
  BY CarefulKeeps, NativeLoses, MergeLoses, UpgradeLoses
<1>2. LSpec => [][NothingElse]_lvars
  BY <1>1, LifeHolds, PTL
<1> QED
  BY <1>2 DEF WorkSurvives
=============================================================================
