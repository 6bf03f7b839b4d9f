SPECIFICATION Spec
CONSTANTS
    Tables <- MCTables
    Base <- MCBase
    Trimmed <- MCTrimmed
    NameOf <- MCNameOf
    NoTable = "no table"
    Identifiers <- MCIdentifiers
    Sorted <- MCSorted
    Candidates <- MCCandidates
    TenantLike <- MCTenantLike
    DefaultTenant = "organization_id"
    GlobalNames = {"countries"}
    SupportNames = {"customers", "tickets"}
    TicketNames = {"tickets"}
    Looks <- MCLooks
    TextOf <- MCTextOf
    JoinedText = "joined"
    Databases <- MCDatabases
    Migrated <- MCMigrated
    RoleDocs <- MCRoleDocs
    RoleNames = {"agent"}
    Tenants = {"acme"}
    Browsers = {b1}
    Edited = {"agent"}
    NewNames = {"agent"}
    Cuts = {1, 6}
    MaxInits = 2
    MaxWrites = 1
    MaxClicks = 1
INVARIANTS CheckedMeansUsable FreshProjectsPass
PROPERTIES SavesKeepTheRest
CHECK_DEADLOCK FALSE
