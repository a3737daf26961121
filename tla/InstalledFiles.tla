--------------------------- MODULE InstalledFiles ---------------------------
(***************************************************************************)
(* What the installers do to the files of a project, as functions of its   *)
(* tree: the legacy spine (scaffold.py), the merge and the upgrade of a    *)
(* legacy install (upgrader.py), the migration of its state and the native *)
(* spine (state_migration.py, runtime_scaffold.py).                        *)
(*                                                                         *)
(* A path stands for all files of its kind, and a content is the set of    *)
(* the parts it was put together from: text of a kit version, the marked   *)
(* block of one, text somebody wrote, and text somebody wrote within what  *)
(* the kit takes for its own.  The empty set is no file.                   *)
(***************************************************************************)
EXTENDS Naturals

CONSTANTS Rules,      \* .claude/rules, skills, templates
          Agents,     \* .claude/agents, hooks, scripts, org-packs
          Guides,     \* CLAUDE.md, README.claude-sdlc.md, settings.json
          Servers,    \* .mcp.json
          Charter,    \* AGENTS.md; natively also .codex/config.toml
          Codex,      \* .codex, .agents
          OldMemory,  \* .claude/agent-memory, CONTINUITY.md
          Memory,     \* .ckit/agent-memory, CONTINUITY.md
          Templates,  \* .ckit/artifacts/templates, no longer shipped
          NeutralOf,  \* where the migration copies the old memory
          MaxVersion,
          Ships(_)    \* the paths a kit version ships

Paths == Rules \cup Agents \cup Guides \cup Servers \cup Charter \cup Codex
         \cup OldMemory \cup Memory \cup Templates
Versions == 1 .. MaxVersion

\* A path is of one kind, and the migration keeps different files different.
PathKinds == <<Rules, Agents, Guides, Servers, Charter, Codex, OldMemory, Memory, Templates>>
ASSUME PathsAssumption == \A i, j \in 1 .. 9 : i # j => PathKinds[i] \cap PathKinds[j] = {}
ASSUME NeutralAssumption == /\ NeutralOf \in [OldMemory -> Memory]
                            /\ \A p, q \in OldMemory : NeutralOf[p] = NeutralOf[q] => p = q
ASSUME ShipsAssumption == \A v \in Versions : Ships(v) \subseteq Paths
ASSUME VersionAssumption == MaxVersion \in Nat \ {0}

Contents == SUBSET [by : {"kit", "block", "mine", "within"}, n : Nat]
Kit(v) == [by |-> "kit", n |-> v]
Block(v) == [by |-> "block", n |-> v]
Mine(n) == [by |-> "mine", n |-> n]
\* Typed between the markers of a block; a server of the kit's that was edited,
\* or somebody's own under an id of the kit's.
Within(n) == [by |-> "within", n |-> n]
Nothing == {}

MineIn(content) == {part \in content : part.by \in {"mine", "within"}}
FreeIn(content) == {part \in content : part.by = "mine"}
Unblocked(content) == {part \in content : part.by \notin {"block", "within"}}
AllMine(live, paths) == UNION {MineIn(live[p]) : p \in paths}

\* A tree: the files, the kit version of the .claude-kit sidecar beside each,
\* and what somebody wrote that is now in a backup directory.
Trees == [live : [Paths -> Contents],
          beside : [Paths -> {0} \cup Versions],
          saved : SUBSET [by : {"mine", "within"}, n : Nat]]

NoRecords == [p \in Paths |-> Nothing]
UserEditable == Guides \cup Servers \cup Charter \cup OldMemory \cup Memory
---------------------------------------------------------------------------
(* The legacy spine *)

LegacyShips(v) == Ships(v) \ (Codex \cup Memory \cup Templates)

\* A kit tree is assembled anew; what no manifest recorded is moved aside from
\* trees of the first kind and carried over in those of the second.
Added(records, shipped) == {p \in (Rules \cup Agents) \ shipped : records[p] = Nothing}
Promoted(tree, records, v, p) ==
    IF p \in LegacyShips(v) THEN {Kit(v)}
    ELSE IF p \in Agents \cap Added(records, LegacyShips(v)) THEN tree.live[p]
    ELSE Nothing

\* A document that is there is kept unless forced, the kit's goes beside it.
Document(tree, v, p, force) ==
    IF p \in LegacyShips(v) /\ (tree.live[p] = Nothing \/ force) THEN {Kit(v)} ELSE tree.live[p]
PutBeside(tree, v, p, force) ==
    p \in LegacyShips(v) /\ ~force /\ tree.live[p] \notin {Nothing, {Kit(v)}}

\* Memory is seeded where there is none.
Seeded(tree, v, p) ==
    IF p \in LegacyShips(v) /\ \A q \in OldMemory : tree.live[q] = Nothing THEN {Kit(v)}
    ELSE tree.live[p]

\* The validated stage is applied over the files an earlier manifest recorded.
LegacyInstall(tree, records, v, force) ==
    LET documents == Guides \cup Servers \cup Charter
    IN  [live   |-> [p \in Paths |->
                       CASE p \in Rules \cup Agents -> Promoted(tree, records, v, p)
                         [] p \in documents -> Document(tree, v, p, force)
                         [] p \in OldMemory -> Seeded(tree, v, p)
                         [] OTHER -> tree.live[p]],
         beside |-> [p \in Paths |-> IF p \in documents /\ PutBeside(tree, v, p, force)
                                     THEN v ELSE tree.beside[p]],
         saved  |-> tree.saved \cup AllMine(tree.live, Rules \cap Added(records, LegacyShips(v)))]

\* The manifest records what is live, a kept document included.
LegacyRecords(tree, v) ==
    [p \in Paths |-> IF p \in LegacyShips(v) \cup OldMemory THEN tree.live[p] ELSE Nothing]

\* install_sdlc(backup_existing): .claude is moved aside first.
BackedUp(tree) ==
    LET dir == Rules \cup Agents \cup OldMemory
    IN  [live   |-> [p \in Paths |-> IF p \in dir THEN Nothing ELSE tree.live[p]],
         beside |-> [p \in Paths |-> IF p \in dir THEN 0 ELSE tree.beside[p]],
         saved  |-> tree.saved \cup AllMine(tree.live, dir)]
---------------------------------------------------------------------------
(* Merge and upgrade of a legacy install *)

\* A file differs from its record; one without a record is somebody's for a
\* merge, the kit's for an upgrade.
Modified(tree, records, p, untracked) ==
    IF records[p] = Nothing THEN untracked ELSE tree.live[p] # records[p]

Outdated(tree, v) == {p \in LegacyShips(v) : tree.live[p] # {Kit(v)}}
Orphans(tree, records, v) ==
    {p \in Paths \ (LegacyShips(v) \cup UserEditable) :
        records[p] # Nothing /\ tree.live[p] # Nothing}

\* What somebody edited is kept if it is a document, backed up otherwise.
Kept(tree, records, v, untracked) ==
    {p \in Outdated(tree, v) \cap UserEditable :
        tree.live[p] # Nothing /\ Modified(tree, records, p, untracked)}

Reconciled(tree, records, v, untracked, force) ==
    LET orphans  == Orphans(tree, records, v)
        kept     == Kept(tree, records, v, untracked)
        edited   == {p \in Outdated(tree, v) : Modified(tree, records, p, untracked)}
        replaced == IF force THEN Outdated(tree, v) ELSE Outdated(tree, v) \ kept
    IN  [live   |-> [p \in Paths |-> CASE p \in replaced -> {Kit(v)}
                                       [] p \in orphans -> Nothing
                                       [] OTHER -> tree.live[p]],
         beside |-> [p \in Paths |-> IF p \in kept /\ ~force THEN v ELSE tree.beside[p]],
         saved  |-> tree.saved \cup AllMine(tree.live, orphans \cup (edited \cap replaced))]

\* The reference's checksums become the baseline, unless there was nothing to do.
ReconciledRecords(tree, records, v) ==
    IF Outdated(tree, v) \cup Orphans(tree, records, v) = {} THEN records
    ELSE [p \in Paths |-> IF p \in LegacyShips(v) THEN {Kit(v)} ELSE Nothing]
---------------------------------------------------------------------------
(* State migration *)

\* Nothing that is there in the neutral layout is overwritten.
MigrationConflict(tree) ==
    \E p \in OldMemory : /\ tree.live[p] # Nothing
                         /\ tree.live[NeutralOf[p]] \notin {Nothing, tree.live[p]}

Migrated(tree) ==
    [tree EXCEPT !.live =
        [q \in Paths |->
           IF \E p \in OldMemory : NeutralOf[p] = q /\ tree.live[p] # Nothing
           THEN tree.live[CHOOSE p \in OldMemory : NeutralOf[p] = q]
           ELSE tree.live[q]]]

MigratedRecords(records) ==
    [q \in Paths |->
       IF \E p \in OldMemory : NeutralOf[p] = q
       THEN records[CHOOSE p \in OldMemory : NeutralOf[p] = q]
       ELSE IF q \in OldMemory THEN Nothing ELSE records[q]]
---------------------------------------------------------------------------
(* The native spine *)

Providers == {"claude", "codex"}
Surfaces(provider) == IF provider = "claude"
                      THEN Rules \cup Agents \cup Guides \cup Servers \cup OldMemory
                      ELSE Codex \cup Charter

NativeShips(runtimes, v) ==
    Ships(v) \cap (Memory \cup Templates
                   \cup (UNION {Surfaces(r) : r \in runtimes} \ OldMemory))

\* The server ids of an earlier install in .mcp.json are the kit's to replace.
Managed(old, p) == "claude" \in old.runtimes /\ old.records[p] # Nothing

\* A server somebody defined under an id of the kit's is not guessed at.
NativeConflict(tree, old, runtimes, v, force) ==
    \E p \in Servers \cap NativeShips(runtimes, v) :
        ~force /\ ~Managed(old, p) /\ FreeIn(tree.live[p]) # tree.live[p]

\* Mutant: the record of the last install is not compared with the file.
RefreshedIfRecorded(tree, old, p, v, force) ==
    \/ tree.live[p] \in {Nothing, {Kit(v)}}
    \/ force
    \/ p \notin UserEditable /\ old.records[p] # Nothing

\* Written over: what is not there, what an earlier install wrote and nobody
\* changed, or anything if forced.
Refreshed(tree, old, p, v, force) ==
    \/ tree.live[p] \in {Nothing, {Kit(v)}}
    \/ force
    \/ p \notin UserEditable /\ old.records[p] = tree.live[p]

\* Marked blocks are replaced, with what was typed into them, and the prose around
\* them stays; every server under an id of the last install's selection is replaced,
\* whoever defined it, and the others stay; an unchanged template is retired.
Charted(tree, p, v, force) ==
    {Block(v)} \cup (IF force \/ tree.live[p] = Nothing THEN {} ELSE Unblocked(tree.live[p]))
Served(tree, p, v, force) ==
    {Kit(v)} \cup (IF force \/ tree.live[p] = Nothing THEN {} ELSE FreeIn(tree.live[p]))
Unserved(tree, old, p) == IF Managed(old, p) THEN FreeIn(tree.live[p]) ELSE tree.live[p]
Retired(tree, old, p) == IF old.records[p] = tree.live[p] THEN Nothing ELSE tree.live[p]

NativeInstall(tree, old, runtimes, v, force) ==
    LET shipped == NativeShips(runtimes, v)
        written(p) == p \in Charter \cup Servers \/ Refreshed(tree, old, p, v, force)
    IN  [tree EXCEPT
           !.live = [p \in Paths |->
                       CASE p \in Charter \cap shipped -> Charted(tree, p, v, force)
                         [] p \in Servers \cap shipped -> Served(tree, p, v, force)
                         [] p \in Servers \ shipped -> Unserved(tree, old, p)
                         [] p \in Templates \ shipped -> Retired(tree, old, p)
                         [] p \in shipped \ (Charter \cup Servers) /\ written(p) -> {Kit(v)}
                         [] OTHER -> tree.live[p]],
           !.beside = [p \in Paths |->
                         IF p \in shipped \ Memory /\ ~written(p) THEN v ELSE tree.beside[p]]]

\* Mutant: a kept file is recorded as it is.
NativeRecordsOfAll(tree, old, runtimes, v, force) ==
    [p \in Paths |-> IF p \in NativeShips(runtimes, v)
                     THEN NativeInstall(tree, old, runtimes, v, force).live[p] ELSE Nothing]

\* Recorded is what was written; a kept file loses its record, except memory.
NativeRecords(tree, old, runtimes, v, force) ==
    LET after == NativeInstall(tree, old, runtimes, v, force).live
    IN  [p \in Paths |->
           CASE p \in NativeShips(runtimes, v)
                    /\ (p \in Charter \cup Servers \/ Refreshed(tree, old, p, v, force)) -> after[p]
             [] p \in Memory /\ after[p] # Nothing -> old.records[p]
             [] OTHER -> Nothing]

\* Removed providers' files are moved to a backup, edited or not.
Withdrawn(tree, removed) ==
    LET gone == UNION {Surfaces(r) : r \in removed}
    IN  [live   |-> [p \in Paths |-> IF p \in gone THEN Nothing ELSE tree.live[p]],
         beside |-> [p \in Paths |-> IF p \in gone THEN 0 ELSE tree.beside[p]],
         saved  |-> tree.saved \cup AllMine(tree.live, gone)]
=============================================================================
