------------------------------ MODULE ConfigCheck ------------------------------
(***************************************************************************)
(* What the files of a project mean once loaded (cori-core/src/config/     *)
(* mod.rs) and what `cori check' and the hook before `cori run' find wrong *)
(* in them (cori-cli/src/commands/check.rs).                               *)
(*                                                                         *)
(* A project is [dir, config, key, schema, rules, types, roles, groups]:   *)
(*   dir     whether there is a directory                                  *)
(*   config  whether there is a cori.yaml                                  *)
(*   key     which keypair lies in keys/, 0 for none                       *)
(*   schema, rules   options: is there a file?  Of what it reads as, itself*)
(*           an option: a `tables:' with nothing under it reads as nothing *)
(*   types   the types that types.yaml defines                             *)
(*   roles   file name -> [approvals, tables]: an option of the default    *)
(*           group, and what `tables:' reads as.  A role's file is named   *)
(*           for its role: init and the dashboard write no other.          *)
(*   groups  group -> its members                                          *)
(* A loaded configuration is [schema, rules, types, roles, groups] with    *)
(* the inner options gone.                                                 *)
(***************************************************************************)
EXTENDS RoleDefinition

CONSTANTS
    Identifiers     \* names that match ^[a-z][a-z0-9_]*$

\* load_with_context: schema and rules that do not parse end it, roles that do
\* not parse are left out.
LoadFails(files) == {} \in files.schema \cup files.rules

LoadWithContext(files) ==
    LET readable == {n \in DOMAIN files.roles : IsSome(files.roles[n].tables)}
    IN [schema |-> UNION files.schema, rules |-> UNION files.rules,
        types |-> files.types, groups |-> files.groups,
        roles |-> [n \in readable |-> [approvals |-> files.roles[n].approvals,
                                       tables |-> The(files.roles[n].tables)]]]

\* Check 1.  Of what the JSON schemas ask, what the programs that write these
\* files can miss: names of roles and groups, empty `tables:', empty groups.
ValidateJsonSchemas(files) ==
    /\ {} \notin files.schema \cup files.rules
    /\ DOMAIN files.roles \cup DOMAIN files.groups \subseteq Identifiers
    /\ \A n \in DOMAIN files.roles :
          /\ IsSome(files.roles[n].tables)
          /\ files.roles[n].approvals \subseteq Identifiers
    /\ \A g \in DOMAIN files.groups : files.groups[g] # {}

-----------------------------------------------------------------------------
SchemaTables(config) == UNION {DOMAIN s : s \in config.schema}

\* Mutant: the tables of the roles are not looked at.
CheckRuleTables(config) ==
    \/ SchemaTables(config) = {}
    \/ \A r \in config.rules : DOMAIN r \subseteq SchemaTables(config)

\* Check 2.  Without tables in the schema there is but a warning.
CheckTableNames(config) ==
    \/ SchemaTables(config) = {}
    \/ /\ \A n \in DOMAIN config.roles : DOMAIN config.roles[n].tables \subseteq SchemaTables(config)
       /\ \A r \in config.rules : DOMAIN r \subseteq SchemaTables(config)

\* Check 3, of the tables that the schema has.
CheckReadableConfig(readable, columns) == readable.all \/ readable.columns \subseteq columns
CheckCreatableColumns(map, columns) == map.all \/ DOMAIN map.map \subseteq columns

RoleColumnsExist(tables, schema) ==
    \A t \in DOMAIN tables \cap DOMAIN schema :
        LET columns == DOMAIN schema[t].columns
        IN /\ CheckReadableConfig(tables[t].readable, columns)
           /\ CheckCreatableColumns(tables[t].creatable, columns)
           /\ CheckCreatableColumns(tables[t].updatable, columns)

RuleColumnsExist(rules, schema) ==
    \A t \in DOMAIN rules \cap DOMAIN schema :
        LET columns == DOMAIN schema[t].columns
        IN /\ DOMAIN rules[t].columns \subseteq columns
           /\ \A u \in rules[t].tenant : (IF u.kind = "direct" THEN u.column ELSE u.via) \in columns
           /\ rules[t].soft_delete \subseteq columns

CheckColumnNames(config) ==
    \A s \in config.schema :
        /\ \A n \in DOMAIN config.roles : RoleColumnsExist(config.roles[n].tables, s)
        /\ \A r \in config.rules : RuleColumnsExist(r, s)

\* Check 5.  A group must exist and have members; `true' needs only that the
\* role names a default group, which is looked at on its own.
CheckApprovalConfig(config, group) ==
    group \in DOMAIN config.groups /\ config.groups[group] # {}

CheckApprovalRequirement(config, role, approval) ==
    IF IsSome(approval.group) THEN CheckApprovalConfig(config, The(approval.group))
    ELSE approval.required => IsSome(role.approvals)

Requirements(perms) ==
    (UNION {perms.creatable.map[c].approval : c \in DOMAIN perms.creatable.map})
    \cup (UNION {perms.updatable.map[c].approval : c \in DOMAIN perms.updatable.map})
    \cup perms.deletable.approval

CheckApprovalGroups(config) ==
    \A n \in DOMAIN config.roles :
        LET role == config.roles[n]
        IN /\ \A g \in role.approvals : CheckApprovalConfig(config, g)
           /\ \A t \in DOMAIN role.tables : \A a \in Requirements(role.tables[t]) :
                 CheckApprovalRequirement(config, role, a)

\* Check 6.
CheckSoftDelete(config) ==
    \A r \in config.rules : \A n \in DOMAIN config.roles :
        \A t \in DOMAIN config.roles[n].tables :
            config.roles[n].tables[t].deletable.soft_delete
                => t \in DOMAIN r /\ IsSome(r[t].soft_delete)

\* Check 7.
CheckTypeReferences(config) ==
    \A r \in config.rules : \A t \in DOMAIN r : \A c \in DOMAIN r[t].columns :
        r[t].columns[c].type \subseteq config.types

\* Check 8.  What the database insists on, unless it is the key or filled in
\* from the token.
RequiredColumns(config, schema, table) ==
    LET columns == schema[table].columns
        tenant == UNION {GetDirectTenantColumn(r[table]) : r \in {q \in config.rules : table \in DOMAIN q}}
    IN {c \in DOMAIN columns : ~columns[c].nullable /\ columns[c].default = {}}
       \ (KeySet(schema, table) \cup tenant)

CheckNonnullColumns(config) ==
    \A s \in config.schema : \A n \in DOMAIN config.roles :
        LET tables == config.roles[n].tables
        IN \A t \in DOMAIN tables \cap DOMAIN s :
              LET creatable == tables[t].creatable
              IN creatable.all \/ MapIsEmpty(creatable)
                 \/ RequiredColumns(config, s, t) \subseteq DOMAIN creatable.map

\* Check 9.  To change a row one must be able to read its key.
CheckPrimaryKeyAccess(config) ==
    \A s \in config.schema : \A n \in DOMAIN config.roles :
        LET tables == config.roles[n].tables
        IN \A t \in DOMAIN tables :
              CanUpdate(tables, t) \/ CanDelete(tables, t)
                  => tables[t].readable.all \/ KeySet(s, t) \subseteq tables[t].readable.columns

PreHookChecks(config) ==
    /\ CheckTableNames(config)
    /\ CheckColumnNames(config)
    /\ CheckApprovalGroups(config)
    /\ CheckSoftDelete(config)
    /\ CheckTypeReferences(config)
    /\ CheckNonnullColumns(config)
    /\ CheckPrimaryKeyAccess(config)

\* run_pre_hook: with no cori.yaml there is nothing to check.
RunPreHook(files) ==
    files.config => /\ ValidateJsonSchemas(files)
                    /\ ~LoadFails(files)
                    /\ PreHookChecks(LoadWithContext(files))

-----------------------------------------------------------------------------
(* Check 10, of `cori check' alone: a column verified as a foreign key is  *)
(* one, and the role can read what it must hand over.                      *)

ReadableIn(tables, table, columns) ==
    IF table \in DOMAIN tables
    THEN tables[table].readable.all \/ columns \subseteq tables[table].readable.columns
    ELSE columns = {}

ForeignKeysVerifiable(tables, schema, table, columns) ==
    \A c \in {d \in DOMAIN columns.map : columns.map[d].fk} :
        LET references == GetFkReferencedTable(schema, table, c)
        IN /\ IsSome(references)
           /\ ReadableIn(tables, The(references), columns.map[c].verify_with)

CheckForeignKeyVerifyColumns(config) ==
    \A s \in config.schema : \A n \in DOMAIN config.roles :
        LET tables == config.roles[n].tables
        IN \A t \in DOMAIN tables :
              /\ ForeignKeysVerifiable(tables, s, t, tables[t].creatable)
              /\ ForeignKeysVerifiable(tables, s, t, tables[t].updatable)
              /\ ReadableIn(tables, t, tables[t].deletable.verify_with)

\* cori check
RunCheck(files) ==
    /\ files.config /\ RunPreHook(files)
    /\ CheckForeignKeyVerifyColumns(LoadWithContext(files))
=============================================================================
