\* Every command in any order, two versions of the kit, and edits in between.
SPECIFICATION LSpec
CONSTANTS
    rule = rule
    agent = agent
    memory = memory
    Rules = {rule}
    Agents = {agent}
    Guides = {}
    Servers = {servers}
    Charter = {charter}
    Codex = {}
    OldMemory = {old}
    Memory = {memory}
    Templates = {}
    NeutralOf <- MCNeutralOf
    Ships <- MCShips
    Policies <- MCPolicies
    MaxVersion = 2
    MaxEdits = 1
INVARIANTS InstallInvariant FrozenProvidersStay
PROPERTIES WorkSurvives
CHECK_DEADLOCK FALSE
