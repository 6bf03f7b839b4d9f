SPECIFICATION Spec
CONSTANTS
    Tables <- MCTables
    Base <- MCBase
    Trimmed <- MCTrimmed
    NameOf <- MCNameOf
    NoTable = "no table"
    PrefixPairs <- MCPrefixPairs
    NumberIn <- MCNumberIn
    Slots = {s1, s2}
    Tenants = {"a", "b"}
    Versions = {"agent", "guarded"}
    Definition <- MCDefinition
    Arguments <- MCArguments
    Rules <- MCRules
    Schema <- MCSchema
    FirstRows <- MCFirstRows
    MaxPending = 1
    FirstSerial = 2
    MaxSerial = 2
VIEW ButForTheAnswer
SYMMETRY SlotSymmetry
PROPERTIES EveryOperationIsScoped
CHECK_DEADLOCK FALSE
