------------------------- MODULE ProjectLifecycle -------------------------
(***************************************************************************)
(* The life of an installed project: init in its four modes and natively,  *)
(* merge, upgrade, state migration, runtime transitions and the execution  *)
(* policy, in any order, between edits of the user, new kit versions and   *)
(* pipeline runs that froze what is installed.  Each command is one step:  *)
(* it runs under the exclusive lease and in a transaction that leaves all  *)
(* or nothing (ProjectMutation).                                           *)
(***************************************************************************)
EXTENDS InstalledFiles

CONSTANTS Policies,      \* the provider sets an execution policy may name
          MaxEdits       \* bound on what the user writes or deletes

ASSUME EditsAssumption == MaxEdits \in Nat

VARIABLES tree,          \* the files
          legacy,        \* records of .claude/config/init-options.json
          native,        \* the .ckit manifest
          run,           \* the active run that froze its providers
          version,       \* the kit on the PATH
          edits          \* how often the user has written or deleted

lvars == <<tree, legacy, native, run, version, edits>>

NotInstalled == [runtimes |-> {}, policy |-> {}, records |-> NoRecords]
NoRun == [kind |-> "none", providers |-> {}]
Runtimes == SUBSET Providers \ {{}}

HasClaude == \/ legacy # NoRecords
             \/ \E p \in Rules \cup Agents \cup OldMemory : tree.live[p] # Nothing
NeutralState == native # NotInstalled \/ \E p \in Memory : tree.live[p] # Nothing
LegacyState == /\ ~NeutralState
               /\ legacy # NoRecords \/ \E p \in OldMemory : tree.live[p] # Nothing

LInit == /\ tree = [live |-> NoRecords, beside |-> [p \in Paths |-> 0], saved |-> {}]
         /\ legacy = NoRecords
         /\ native = NotInstalled
         /\ run = NoRun
         /\ version = 1
         /\ edits = 0
---------------------------------------------------------------------------
(* The user *)

Put(p, text) == /\ edits < MaxEdits
                /\ edits' = edits + 1
                /\ tree' = [tree EXCEPT !.live[p] = @ \cup {text}]
                /\ UNCHANGED <<legacy, native, run, version>>

Write(p) == Put(p, Mine(edits + 1))

\* Into a block, once there is one; under an id of the kit's at any time, also
\* before anything is installed.
WriteWithin(p) == /\ p \in Servers \/ \E v \in Versions : Block(v) \in tree.live[p]
                  /\ Put(p, Within(edits + 1))

Delete(p) == /\ edits < MaxEdits
             /\ tree.live[p] # Nothing
             /\ edits' = edits + 1
             /\ tree' = [tree EXCEPT !.live[p] = Nothing]
             /\ UNCHANGED <<legacy, native, run, version>>

NewKit == /\ version < MaxVersion
          /\ version' = version + 1
          /\ UNCHANGED <<tree, legacy, native, run, edits>>
---------------------------------------------------------------------------
(* The legacy installer *)

InstallLegacy(base, records, force) ==
    /\ tree' = LegacyInstall(base, records, version, force)
    /\ legacy' = LegacyRecords(tree', version)
    /\ UNCHANGED <<native, run, version, edits>>

InitFresh(force) == ~HasClaude /\ InstallLegacy(tree, legacy, force)
InitOverwrite == HasClaude /\ InstallLegacy(tree, legacy, TRUE)
\* Asked for a mode, any other answer installs over what is there.
InitOtherAnswer == HasClaude /\ InstallLegacy(tree, legacy, FALSE)
InitBackup == HasClaude /\ InstallLegacy(BackedUp(tree), NoRecords, FALSE)

Reconcile(untracked, force) ==
    /\ tree' = Reconciled(tree, legacy, version, untracked, force)
    /\ legacy' = ReconciledRecords(tree, legacy, version)
    /\ UNCHANGED <<native, run, version, edits>>

Merge == HasClaude /\ Reconcile(TRUE, FALSE)

UpgradeLegacy(force) == /\ legacy # NoRecords
                        /\ native = NotInstalled
                        /\ Reconcile(FALSE, force)

AdoptedManifest == IF legacy = NoRecords THEN NotInstalled
                   ELSE [runtimes |-> {"claude"}, policy |-> {},
                         records |-> MigratedRecords(legacy)]

Migrate == /\ native = NotInstalled
           /\ ~MigrationConflict(tree)
           /\ tree' = Migrated(tree)
           /\ native' = AdoptedManifest
           /\ UNCHANGED <<legacy, run, version, edits>>
---------------------------------------------------------------------------
(* The native installer *)

InstallNative(base, old, runtimes, policy, force) ==
    /\ ~NativeConflict(base, old, runtimes, version, force)
    /\ tree' = NativeInstall(base, old, runtimes, version, force)
    /\ native' = [runtimes |-> runtimes, policy |-> policy,
                  records |-> NativeRecords(base, old, runtimes, version, force)]

\* ckit init --runtime: a repeated one keeps the runtime and the policy; with
\* --migrate-state it takes a legacy install over, unless that removes claude.
InitRuntime(runtimes, policy, force) ==
    /\ native = NotInstalled \/ native.runtimes = runtimes
    /\ native = NotInstalled \/ policy = native.policy
    /\ policy \subseteq runtimes
    /\ IF LegacyState
       THEN /\ ~MigrationConflict(tree)
            /\ AdoptedManifest.runtimes \subseteq runtimes
            /\ InstallNative(Migrated(tree), AdoptedManifest, runtimes, policy, force)
       ELSE InstallNative(tree, native, runtimes, policy, force)
    /\ UNCHANGED <<legacy, run, version, edits>>

\* A managed run freezes the whole projection, a maker/checker run its providers.
NoManagedRun == run.kind # "managed"

\* Mutant: the policy, which may have been replaced since, stands for the run.
RemovableByPolicy(removed) == native.policy \cap removed = {}
Removable(removed) == run.providers \cap removed = {}

\* ckit upgrade, with --runtime and the confirmation where providers go.
UpgradeNative(runtimes, force) ==
    LET removed == native.runtimes \ runtimes
    IN  /\ native # NotInstalled
        /\ native.policy \subseteq runtimes
        /\ NoManagedRun
        /\ Removable(removed)
        /\ InstallNative(Withdrawn(tree, removed), native, runtimes, native.policy, force)
        /\ legacy' = IF "claude" \in removed THEN NoRecords ELSE legacy
        /\ UNCHANGED <<run, version, edits>>

\* ckit maker-checker configure and disable
Configure(policy) == /\ native # NotInstalled
                     /\ policy \subseteq native.runtimes
                     /\ native' = [native EXCEPT !.policy = policy]
                     /\ UNCHANGED <<tree, legacy, run, version, edits>>
---------------------------------------------------------------------------
(* Runs *)

StartManaged == /\ run = NoRun
                /\ native # NotInstalled
                /\ run' = [kind |-> "managed", providers |-> {}]
                /\ UNCHANGED <<tree, legacy, native, version, edits>>

\* The policy is read under the lease that keeps transitions out.
StartMakerChecker == /\ run = NoRun
                     /\ native.policy # {}
                     /\ run' = [kind |-> "maker-checker", providers |-> native.policy]
                     /\ UNCHANGED <<tree, legacy, native, version, edits>>

EndRun == /\ run # NoRun
          /\ run' = NoRun
          /\ UNCHANGED <<tree, legacy, native, version, edits>>

LNext == \/ \E p \in Paths : Write(p) \/ WriteWithin(p) \/ Delete(p)
         \/ NewKit
         \/ InitOverwrite
         \/ InitOtherAnswer
         \/ InitBackup
         \/ Merge
         \/ \E force \in BOOLEAN : InitFresh(force) \/ UpgradeLegacy(force)
         \/ Migrate
         \/ \E runtimes \in Runtimes, force \in BOOLEAN :
               \/ \E policy \in Policies : InitRuntime(runtimes, policy, force)
               \/ UpgradeNative(runtimes, force)
         \/ \E policy \in Policies : Configure(policy)
         \/ StartManaged
         \/ StartMakerChecker
         \/ EndRun

LSpec == LInit /\ [][LNext]_lvars
---------------------------------------------------------------------------
(* Properties *)

LTypeOK == /\ tree \in Trees
           /\ legacy \in [Paths -> Contents]
           /\ native \in [runtimes : SUBSET Providers, policy : SUBSET Providers,
                          records : [Paths -> Contents]]
           /\ native.policy \subseteq native.runtimes
           /\ run \in [kind : {"none", "managed", "maker-checker"}, providers : SUBSET Providers]
           /\ version \in Versions
           /\ edits \in Nat

\* Nobody's text is ever recorded as the kit's at a path the kit owns, through
\* merges, migrations and transitions: such a record is what lets an upgrade
\* write over a file without asking (FileRecord, _diff_actions, _write_artifact).
KitOwned == Paths \ UserEditable
RecordsAreTheKits == \A p \in KitOwned : MineIn(legacy[p]) = {} /\ MineIn(native.records[p]) = {}

InstallInvariant == LTypeOK /\ RecordsAreTheKits

\* The providers an active maker/checker run froze stay installed, although the
\* policy it was started under may be replaced or disabled while it runs
\* (configure_execution_policy, transition_runtime).
FrozenProvidersStay == run.kind = "maker-checker" => run.providers \subseteq native.runtimes

\* What the user wrote and has not deleted is in a file or in a backup.
Written == tree.saved \cup AllMine(tree.live, Paths)

\* Lost by a merge or an upgrade: a file that is as the last install recorded it;
\* by an upgrade also one at a path the kit begins to ship (_diff_actions).
AsRecorded == {p \in Paths : tree.live[p] = legacy[p]}
Uncharted == {p \in LegacyShips(version) : legacy[p] = Nothing}

\* Lost by a native installer: what is written within a marked block, or within the
\* kit's servers in a file that an install recorded (_strip_managed,
\* _prior_managed_claude_mcp_ids); no copy is kept of either.
Claimed == Charter \cup {p \in Servers : legacy[p] # Nothing \/ native.records[p] # Nothing}
WithinTheKits == {part \in AllMine(tree.live, Claimed) : part.by = "within"}

Careful == InitFresh(FALSE) \/ InitBackup \/ Migrate
Native == \E runtimes \in Runtimes :
             \/ UpgradeNative(runtimes, FALSE)
             \/ \E policy \in Policies : InitRuntime(runtimes, policy, FALSE)

\* Without --force no command loses what the user wrote, wherever he wrote it and
\* whatever was installed, migrated or withdrawn before, with the exceptions
\* above; a forced upgrade of a legacy install keeps a copy too.
WorkSurvives ==
    [][LET lost == Written \ Written'
       IN  lost # {} =>
              /\ ~Careful
              /\ Native => lost \subseteq WithinTheKits
              /\ Merge => lost \subseteq AllMine(tree.live, AsRecorded)
              /\ (\E force \in BOOLEAN : UpgradeLegacy(force))
                    => lost \subseteq AllMine(tree.live, AsRecorded \cup Uncharted)]_lvars
=============================================================================
