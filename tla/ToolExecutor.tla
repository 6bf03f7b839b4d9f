------------------------------ MODULE ToolExecutor ------------------------------
(***************************************************************************)
(* The statements that the tool executor sends to the database             *)
(* (cori-mcp/src/executor.rs): for each operation which rows it reads or   *)
(* changes, and when it is an error that changes nothing.                  *)
(*                                                                         *)
(* A database maps each table of the schema to its set of rows; a row maps *)
(* columns to values.  What PostgreSQL does is modelled as far as the      *)
(* executor relies on it: a statement that names an unknown column, brings *)
(* a value that does not fit or breaks a reference fails as a whole.       *)
(* Names are made of letters, digits and underscores (the executor drops   *)
(* the others).                                                            *)
(***************************************************************************)
EXTENDS Policy, ToolGenerator, FiniteSets

\* An integer column whose default is the next of a sequence.
Serial == <<"serial">>

-----------------------------------------------------------------------------
(* PostgreSQL                                                              *)

\* A value as a literal for a column.
Fits(value, column) ==
    IF value = Null THEN column.nullable ELSE HasType(value, JsonSchemaType(column.type))

RowFits(schema, table, row) ==
    \A c \in DOMAIN schema[table].columns : Fits(row[c], schema[table].columns[c])

\* Every foreign key of the table's rows points to a row.
ReferencesHold(schema, db) ==
    \A t \in DOMAIN schema : \A c \in DOMAIN schema[t].foreign_keys :
        LET fk == schema[t].foreign_keys[c]
        IN \A row \in db[t] : row[c] = Null \/ \E parent \in db[fk.table] : parent[fk.column] = row[c]

KeysAreUnique(schema, table, rows) ==
    \A r, s \in rows : (\A k \in KeySet(schema, table) : r[k] = s[k]) => r = s

\* The table's new contents, if the database takes them.
Accepts(schema, db, table, rows) ==
    /\ \A row \in rows : RowFits(schema, table, row)
    /\ KeySet(schema, table) # {} => KeysAreUnique(schema, table, rows)
    /\ ReferencesHold(schema, [db EXCEPT ![table] = rows])

\* A row from the values given; serial is what the sequence gives.
NewRow(schema, table, values, serial) ==
    [c \in DOMAIN schema[table].columns |->
        IF c \in DOMAIN values THEN values[c]
        ELSE IF schema[table].columns[c].default = {} THEN Null
        ELSE IF The(schema[table].columns[c].default) = Serial THEN <<"int", serial>>
        ELSE The(schema[table].columns[c].default)]

-----------------------------------------------------------------------------
(* The tenant.  A table that inherits its tenant has no tenant column here *)
(* ("handled separately in query building", which no statement does), so   *)
(* that its statements have no tenant condition at all.                    *)

TenantColumn(rules, table) ==
    IF table \in DOMAIN rules /\ ~rules[table].global
    THEN GetDirectTenantColumn(rules[table])
    ELSE {}

TenantValue(tenant) == <<"str", tenant>>

\* validate_tenant_for_table
TenantGiven(rules, table, tenant) ==
    TenantColumn(rules, table) = {} \/ tenant \notin Unscoped

\* The tenant condition of a statement; no condition without a column.
OfTenant(rules, table, tenant, row) ==
    \A c \in TenantColumn(rules, table) : c \in DOMAIN row /\ row[c] = TenantValue(tenant)

-----------------------------------------------------------------------------
(* Keys.  What is not an integer is taken for 0 in the WHERE clause.       *)

KeyValue(value) == IF Kind(value) = "int" THEN value ELSE <<"int", 0>>

HasIntegerKey(schema, table) ==
    /\ KeySet(schema, table) # {}
    /\ \A k \in KeySet(schema, table) : ColumnType(schema, table, k) = "integer"

\* The rows that "key = ... AND tenant = ..." selects.
Selected(rules, schema, db, call) ==
    {row \in db[call.table] :
        /\ \A k \in KeySet(schema, call.table) : row[k] = KeyValue(call.args[k])
        /\ OfTenant(rules, call.table, call.tenant, row)}

\* What get, update and delete ask before they look at anything else.
Addressed(rules, schema, call) ==
    /\ call.table \in DOMAIN schema
    /\ TenantGiven(rules, call.table, call.tenant)
    /\ HasIntegerKey(schema, call.table)
    /\ KeySet(schema, call.table) \subseteq DOMAIN call.args

\* fetch_row_snapshot: by the first key column; the first row that comes.
Snapshots(rules, schema, db, call) ==
    LET pk == GetPrimaryKeyColumns(schema, call.table)
    IN {row \in db[call.table] :
            /\ row[pk[1]] = KeyValue(call.args[pk[1]])
            /\ OfTenant(rules, call.table, call.tenant, row)}

\* role_has_old_constraints, and fetch_current_row, which takes a string for a
\* key too: the database reads it as the number it stands for.
NeedsCurrentRow(role, table) ==
    /\ table \in DOMAIN role
    /\ LET map == role[table].updatable.map
       IN \E c \in DOMAIN map : \E sets \in map[c].only_when : HasOldConditions(sets)

CONSTANT NumberIn(_)        \* the integer that a string spells, or the value itself

CurrentRows(rules, schema, db, call) ==
    {row \in db[call.table] :
        /\ KeySet(schema, call.table) # {} /\ KeySet(schema, call.table) \subseteq DOMAIN call.args
        /\ \A k \in KeySet(schema, call.table) : row[k] = NumberIn(call.args[k])
        /\ OfTenant(rules, call.table, call.tenant, row)}

-----------------------------------------------------------------------------
(* SELECT.  No column list stands for all columns.                         *)

ReadColumns(role, schema, table) ==
    LET named == IF table \in DOMAIN role /\ ~role[table].readable.all
                 THEN role[table].readable.columns ELSE {}
    IN IF named = {} THEN DOMAIN schema[table].columns ELSE named

Shown(row, columns) == [c \in columns |-> row[c]]

GetAnswers(role, rules, schema, db, call) ==
    IF /\ Addressed(rules, schema, call)
       /\ ReadColumns(role, schema, call.table) \subseteq DOMAIN schema[call.table].columns
    THEN {Shown(row, ReadColumns(role, schema, call.table)) : row \in Selected(rules, schema, db, call)}
    ELSE {}

FilterableColumns(role, schema, table) ==
    IF CanRead(role, table) THEN ReadColumns(role, schema, table) ELSE {}

Filters(call) == DOMAIN call.args \ {"limit", "offset", "dryRun"}

\* Mutant: the filters are joined with OR.
MatchingAny(rules, db, call) ==
    {row \in db[call.table] :
        \/ OfTenant(rules, call.table, call.tenant, row)
        \/ \E c \in Filters(call) : row[c] = call.args[c]}

Matching(rules, db, call) ==
    {row \in db[call.table] :
        /\ OfTenant(rules, call.table, call.tenant, row)
        /\ \A c \in Filters(call) : row[c] = call.args[c]}

\* limit is 50 and max_per_page 1000 unless given.
EffectiveLimit(role, call) ==
    LET given == IF /\ "limit" \in DOMAIN call.args
                    /\ Kind(call.args["limit"]) = "int" /\ call.args["limit"][2] >= 0
                 THEN call.args["limit"][2] ELSE 50
        max == IF MaxPerPage(role, call.table) = {} THEN 1000 ELSE The(MaxPerPage(role, call.table))
    IN IF given < max THEN given ELSE max

\* The pages a list may answer with: there is no ORDER BY.  offset is left to
\* the database: a page is any set of matching rows.
ListAnswers(role, rules, schema, db, call) ==
    LET columns == ReadColumns(role, schema, call.table)
    IN IF /\ TenantGiven(rules, call.table, call.tenant)
          /\ columns \subseteq DOMAIN schema[call.table].columns
          /\ Filters(call) \subseteq FilterableColumns(role, schema, call.table)
          /\ \A c \in Filters(call) : Kind(call.args[c]) \notin {"object", "array"}
       THEN {{Shown(row, columns) : row \in page} :
                page \in {p \in SUBSET Matching(rules, db, call) :
                            Cardinality(p) <= EffectiveLimit(role, call)}}
       ELSE {{}}

-----------------------------------------------------------------------------
(* INSERT                                                                  *)

\* The constraints of a create that the executor itself looks at.
Constrained(role, rules, table) ==
    IF table \in DOMAIN role
    THEN DOMAIN role[table].creatable.map \ TenantColumn(rules, table)
    ELSE {}

\* The agent's values without the tenant column, completed by the defaults.
Completed(role, rules, call) ==
    LET given == DOMAIN call.args \ TenantColumn(rules, call.table)
        map == role[call.table].creatable.map
        defaulted == {c \in Constrained(role, rules, call.table) : IsSome(map[c].default)}
    IN [c \in given \cup defaulted |-> IF c \in given THEN call.args[c] ELSE The(map[c].default)]

\* Foreign keys to check: those of the role that the schema knows, with a value.
CheckedFks(role, rules, schema, call) ==
    {c \in Constrained(role, rules, call.table) \cap DOMAIN Completed(role, rules, call) :
        /\ role[call.table].creatable.map[c].fk
        /\ IsSome(GetFkReferencedTable(schema, call.table, c))}

\* The executor names verification values after the referenced table, which has a
\* key here (without one the code guesses <table>_id).
ExecutorVerifyKey(refTable, verify) == Trimmed[refTable] \o "_" \o verify

\* In SQL nothing equals NULL.
SqlEquals(stored, given) == given # Null /\ stored = given

\* Mutant: the referenced row may be anybody's.
FkHoldsAnywhere(role, rules, schema, db, call, c) ==
    LET refTable == The(GetFkReferencedTable(schema, call.table, c))
        key == GetPrimaryKeyColumns(schema, refTable)[1]
    IN \E parent \in db[refTable] : SqlEquals(parent[key], Completed(role, rules, call)[c])

\* The check query of a foreign key finds a row.  A verification value that is
\* not given is not compared.
FkHolds(role, rules, schema, db, call, c) ==
    LET values == Extend(Completed(role, rules, call), call.args)
        refTable == The(GetFkReferencedTable(schema, call.table, c))
        key == GetPrimaryKeyColumns(schema, refTable)[1]
    IN \E parent \in db[refTable] :
          /\ SqlEquals(parent[key], values[c])
          /\ OfTenant(rules, refTable, call.tenant, parent)
          /\ \A v \in role[call.table].creatable.map[c].verify_with :
                LET k == ExecutorVerifyKey(refTable, v)
                IN k \in DOMAIN values => SqlEquals(parent[v], values[k])

UsedVerifyKeys(role, rules, schema, call) ==
    UNION {{ExecutorVerifyKey(The(GetFkReferencedTable(schema, call.table, c)), v) :
                v \in role[call.table].creatable.map[c].verify_with} :
           c \in CheckedFks(role, rules, schema, call)}

\* Mutant: a tenant column among the arguments is taken over.
InsertedAsGiven(role, rules, schema, call) ==
    LET values == Completed(role, rules, call)
        left == DOMAIN values \ UsedVerifyKeys(role, rules, schema, call)
        Given(c) == IF c \in DOMAIN call.args THEN call.args[c] ELSE TenantValue(call.tenant)
    IN [c \in left \cup TenantColumn(rules, call.table) |->
            IF c \in TenantColumn(rules, call.table) THEN Given(c) ELSE values[c]]

\* What the INSERT names: the tenant of the token, and every value left.
Inserted(role, rules, schema, call) ==
    LET values == Completed(role, rules, call)
        left == DOMAIN values \ UsedVerifyKeys(role, rules, schema, call)
    IN [c \in left \cup TenantColumn(rules, call.table) |->
            IF c \in TenantColumn(rules, call.table) THEN TenantValue(call.tenant) ELSE values[c]]

\* What a create is asked before its first statement.  Which columns are given is
\* not looked at, nor whether the role has the table: validation did, if the call
\* was not an approved one.
CreateAllowed(role, rules, call) ==
    /\ TenantGiven(rules, call.table, call.tenant)
    /\ \A c \in Constrained(role, rules, call.table) :
          role[call.table].creatable.map[c].required => c \in DOMAIN call.args

\* The INSERT of a create whose foreign keys were all found.
ExecuteInsert(role, rules, schema, db, call, serial) ==
    LET inserted == Inserted(role, rules, schema, call)
        row == NewRow(schema, call.table, inserted, serial)
        rows == db[call.table] \cup {row}
    IN IF /\ DOMAIN inserted \subseteq DOMAIN schema[call.table].columns
          /\ row \notin db[call.table]
          /\ Accepts(schema, db, call.table, rows)
       THEN [db EXCEPT ![call.table] = rows]
       ELSE db

-----------------------------------------------------------------------------
(* UPDATE and DELETE                                                       *)

\* Mutant: a column that may be created may be updated.
UpdatableOrCreatable(role, schema, call) ==
    {c \in DOMAIN call.args \ KeySet(schema, call.table) :
        /\ call.table \in DOMAIN role
        /\ \/ MapContains(role[call.table].updatable, c)
           \/ MapContains(role[call.table].creatable, c)}

\* Columns to set: what the role at hand lets it update.  Other columns, and
\* values that are neither scalar nor null, are left out in silence.
Updatable(role, schema, call) ==
    {c \in DOMAIN call.args \ KeySet(schema, call.table) :
        call.table \in DOMAIN role /\ MapContains(role[call.table].updatable, c)}

SetColumns(role, schema, call) ==
    {c \in Updatable(role, schema, call) : Kind(call.args[c]) \in {"str", "int", "bool", "null"}}

RestrictionsHold(role, schema, call) ==
    \A c \in Updatable(role, schema, call) :
        c \in DOMAIN role[call.table].updatable.map =>
            \A sets \in role[call.table].updatable.map[c].only_when :
                \A values \in NewValueRestriction(sets, c) : call.args[c] \in values

ExecuteUpdate(role, rules, schema, db, call) ==
    LET set == SetColumns(role, schema, call)
        hit == Selected(rules, schema, db, call)
        Changed(row) == [c \in DOMAIN row |-> IF c \in set THEN call.args[c] ELSE row[c]]
        rows == (db[call.table] \ hit) \cup {Changed(row) : row \in hit}
    IN IF /\ Addressed(rules, schema, call)
          /\ set # {} /\ RestrictionsHold(role, schema, call)
          /\ set \subseteq DOMAIN schema[call.table].columns
          /\ Accepts(schema, db, call.table, rows)
       THEN [db EXCEPT ![call.table] = rows]
       ELSE db

\* soft_delete and verify_with of the role, and soft_delete of the rules, are
\* not looked at.
ExecuteDelete(rules, schema, db, call) ==
    LET rows == db[call.table] \ Selected(rules, schema, db, call)
    IN IF Addressed(rules, schema, call) /\ Accepts(schema, db, call.table, rows)
       THEN [db EXCEPT ![call.table] = rows]
       ELSE db
=============================================================================
