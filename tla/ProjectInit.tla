------------------------------ MODULE ProjectInit ------------------------------
(***************************************************************************)
(* The project that `cori init' makes of a database                        *)
(* (cori-cli/src/commands/init.rs).                                        *)
(*                                                                         *)
(* A database is a schema, as in RoleDefinition.  What init guesses from a *)
(* name is a constant: which names look like what.  Its output is text;    *)
(* what matters of the text is how it reads, see RulesRead.                *)
(***************************************************************************)
EXTENDS ConfigCheck, Integers, FiniteSets

CONSTANTS
    Sorted,         \* all tables in the order of their names, which is that of introspection
    Candidates,     \* TENANT_COLUMN_CANDIDATES, in their order
    TenantLike,     \* columns with "tenant", "org", or "account" and "id" in their name
    DefaultTenant,  \* organization_id
    GlobalNames,    \* tables whose name has a global pattern in it
    SupportNames,   \* tables whose name looks like customers, tickets, orders...
    TicketNames,    \* of these, those that look like tickets
    Looks           \* column -> "email", "phone", "sensitive", "status", "deleted", "plain"

\* The tables of a database at their places among all, and the first n of them.
Listed(db) == [i \in {j \in DOMAIN Sorted : Sorted[j] \in DOMAIN db} |-> Sorted[i]]
FirstOf(n, listed) ==
    {listed[i] : i \in {j \in DOMAIN listed : Cardinality({k \in DOMAIN listed : k <= j}) <= n}}

\* extract_tables looks for "mappings" in a foreign key, which introspection does
\* not write: init never sees one.
ExtractTables(db) == [t \in DOMAIN db |-> [db[t] EXCEPT !.foreign_keys = NoKeys]]

Having(db, column) == {t \in DOMAIN db : column \in DOMAIN db[t].columns}
InHalf(db, column) == Cardinality(Having(db, column)) >= Cardinality(DOMAIN db) \div 2

\* detect_tenant_column: the first candidate that half of the tables have, or else
\* a column with a telling name; of several in as many tables, any.
DetectTenantColumn(db) ==
    LET known == {i \in DOMAIN Candidates : Having(db, Candidates[i]) # {} /\ InHalf(db, Candidates[i])}
        telling == {c \in TenantLike : Having(db, c) # {} /\ InHalf(db, c)}
        Count(c) == Cardinality(Having(db, c))
    IN IF known # {} THEN {Candidates[CHOOSE i \in known : \A j \in known : i <= j]}
       ELSE IF telling # {} THEN {c \in telling : \A d \in telling : Count(d) <= Count(c)}
       ELSE {DefaultTenant}

\* is_likely_global_table
IsLikelyGlobalTable(db, table) ==
    \/ table \in GlobalNames
    \/ db[table].foreign_keys = NoKeys /\ Cardinality(DOMAIN db[table].columns) <= 5

\* analyze_tenancy.  find_tenant_via_fk has no foreign key to start from.
Tenancy(db, tenant, table) ==
    IF tenant \in DOMAIN db[table].columns THEN "direct"
    ELSE IF IsLikelyGlobalTable(db, table) THEN "global" ELSE "unknown"

-----------------------------------------------------------------------------
\* generate_schema_yaml: no defaults, and nothing under `tables:' without tables.
SchemaRead(db) ==
    IF DOMAIN db = {} THEN {}
    ELSE {[t \in DOMAIN db |->
            [db[t] EXCEPT !.columns = [c \in DOMAIN db[t].columns |->
                                        [db[t].columns[c] EXCEPT !.default = {}]]]]}

\* generate_column_rules: the rules of the columns that look like something, and
\* the column that marks a deleted row.
ColumnRulesOf(columns) ==
    [c \in {d \in columns : Looks[d] \in {"email", "phone", "sensitive", "status"}} |->
        CASE Looks[c] \in {"email", "phone"} -> [NoColumnRules EXCEPT !.type = {Looks[c]}]
          [] Looks[c] = "status" -> [NoColumnRules EXCEPT !.allowed =
                {{<<"str", s>> : s \in {"active", "inactive", "pending", "archived"}}}]
          [] OTHER -> NoColumnRules]

SoftDeleteOf(columns) ==
    LET deleted == {c \in columns : Looks[c] = "deleted"} IN IF deleted = {} THEN {} ELSE {The(deleted)}

GenerateColumnRules(db, table) ==
    LET columns == DOMAIN db[table].columns
    IN [columns |-> ColumnRulesOf(columns), soft_delete |-> SoftDeleteOf(columns)]

HasBlock(block) == DOMAIN block.columns # {} \/ IsSome(block.soft_delete)

\* generate_rules_yaml: one entry for each table in the order of the names.  Of a
\* table of unknown tenancy the name is in a comment, and what follows it is not:
\* to a reader it belongs to the table before.
RulesEntries(db, tenant) ==
    LET tables == Listed(db)
    IN [i \in DOMAIN tables |->
            [table |-> tables[i], tenancy |-> Tenancy(db, tenant, tables[i]),
             block |-> GenerateColumnRules(db, tables[i])]]

\* The entries that are not in a comment, and the entries whose lines are read as
\* those of entry i: all up to the next one that is not in a comment.
Heads(entries) == {i \in DOMAIN entries : entries[i].tenancy # "unknown"}
Under(entries, i) == {j \in DOMAIN entries : j >= i /\ \A k \in Heads(entries) : k <= i \/ k > j}
WithColumns(entries, i) == {j \in Under(entries, i) : DOMAIN entries[j].block.columns # {}}
WithSoftDelete(entries, i) == {j \in Under(entries, i) : IsSome(entries[j].block.soft_delete)}
Stray(entries) == {j \in DOMAIN entries : HasBlock(entries[j].block) /\ \A i \in Heads(entries) : i > j}

\* The file does not read at all if every table is in a comment, if a block comes
\* before the first table, or if a table gets two `columns:' or two `soft_delete:'.
\* (With every table in a comment and a rule under one of them, `columns' is the name of
\* a table to the reader; the checks refuse that as they refuse an empty `tables:'.)
Unreadable(entries) ==
    \/ Heads(entries) = {} \/ Stray(entries) # {}
    \/ \E i \in Heads(entries) : \/ Cardinality(WithColumns(entries, i)) > 1
                                \/ Cardinality(WithSoftDelete(entries, i)) > 1

RuleRead(entries, tenant, i) ==
    [tenant |-> IF entries[i].tenancy = "direct" THEN {[kind |-> "direct", column |-> tenant]} ELSE {},
     global |-> entries[i].tenancy = "global",
     soft_delete |-> UNION {entries[j].block.soft_delete : j \in WithSoftDelete(entries, i)},
     columns |-> IF WithColumns(entries, i) = {} THEN NoKeys
                 ELSE entries[The(WithColumns(entries, i))].block.columns]

\* How the file reads.
RulesRead(db, tenant) ==
    LET entries == RulesEntries(db, tenant)
        HeadOf(t) == CHOOSE i \in Heads(entries) : entries[i].table = t
    IN IF Unreadable(entries) THEN {}
       ELSE {[t \in {entries[i].table : i \in Heads(entries)} |-> RuleRead(entries, tenant, HeadOf(t))]}

TypesGenerated == {"email", "phone", "url", "uuid", "slug", "currency_code", "country_code",
                   "ssn", "credit_card"}

-----------------------------------------------------------------------------
(* The sample roles.  A list of no tables is nothing under `tables:'.      *)

RoleRead(tables) == IF DOMAIN tables = {} THEN {} ELSE {tables}

ReadAllColumns(db, table) ==
    [TablePermissions EXCEPT !.readable = [NoRead EXCEPT !.columns = DOMAIN db[table].columns]]

AdminRole(db) ==
    LET all == [NoMap EXCEPT !.all = TRUE]
    IN [t \in DOMAIN db |->
            [readable |-> [NoRead EXCEPT !.all = TRUE], creatable |-> all, updatable |-> all,
             deletable |-> [NoDelete EXCEPT !.allowed = TRUE]]]

ReadonlyRole(db) == [t \in FirstOf(20, Listed(db)) |-> ReadAllColumns(db, t)]

Lifecycle ==
    LET Step(from, to) ==
            [key \in {<<"old", "status">>, <<"new", "status">>} |->
                IF key[1] = "old" THEN {[op |-> "equals", value |-> <<"str", from>>]}
                ELSE {[op |-> "in", values |-> {<<"str", s>> : s \in to}]}]
    IN <<Step("open", {"in_progress"}), Step("in_progress", {"open", "resolved"}),
         Step("resolved", {"closed"})>>

\* The support role may move a ticket along its life, and change its priority
\* with approval, whether or not it has one.
TicketUpdates ==
    LET Plain == [only_when |-> {}, approval |-> {}, fk |-> FALSE, verify_with |-> {}]
    IN [status |-> [Plain EXCEPT !.only_when = {Lifecycle}],
        priority |-> [Plain EXCEPT !.approval = {[required |-> TRUE, group |-> {}]}]]

IsTicketTable(db, table) == table \in TicketNames /\ "status" \in DOMAIN db[table].columns

SupportRole(db) ==
    LET support == DOMAIN db \cap SupportNames
    IN IF support = {} THEN [t \in FirstOf(5, Listed(db)) |-> ReadAllColumns(db, t)]
       ELSE [t \in support |->
                IF IsTicketTable(db, t)
                THEN [ReadAllColumns(db, t) EXCEPT !.updatable = [NoMap EXCEPT !.map = TicketUpdates]]
                ELSE ReadAllColumns(db, t)]

GenerateSampleRoles(db) ==
    [admin_agent |-> [approvals |-> {}, tables |-> RoleRead(AdminRole(db))],
     readonly_agent |-> [approvals |-> {}, tables |-> RoleRead(ReadonlyRole(db))],
     support_agent |-> [approvals |-> {"support_managers"}, tables |-> RoleRead(SupportRole(db))]]

\* Mutant: a group that no role asks.
GenerateOtherGroups == [managers |-> {"manager@example.com", "lead@example.com"}]

GenerateSampleGroups == [support_managers |-> {"manager@example.com", "lead@example.com"}]

-----------------------------------------------------------------------------
NoFiles == [dir |-> FALSE, config |-> FALSE, key |-> 0, schema |-> {}, rules |-> {}, types |-> {},
            roles |-> NoKeys, groups |-> NoKeys]

Overwritten(old, new) == [k \in DOMAIN old \cup DOMAIN new |-> IF k \in DOMAIN new THEN new[k] ELSE old[k]]

\* The files when `steps' of the seven that write something the program reads are
\* done: keys, schema, rules, types, cori.yaml, roles, groups.  The directory comes
\* before them.  With --force, what init does not write stays.
WriteProject(old, db, tenant, key, steps) ==
    LET tables == ExtractTables(db)
    IN [dir |-> TRUE,
        key |-> IF steps >= 1 THEN key ELSE old.key,
        schema |-> IF steps >= 2 THEN {SchemaRead(tables)} ELSE old.schema,
        rules |-> IF steps >= 3 THEN {RulesRead(tables, tenant)} ELSE old.rules,
        types |-> IF steps >= 4 THEN TypesGenerated ELSE old.types,
        config |-> steps >= 5 \/ old.config,
        roles |-> IF steps >= 6 THEN Overwritten(old.roles, GenerateSampleRoles(tables)) ELSE old.roles,
        groups |-> IF steps >= 7 THEN Overwritten(old.groups, GenerateSampleGroups) ELSE old.groups]
LastStep == 7

\* run_db_sync: the schema as it is, keys, defaults and all.
WriteSchema(files, db) == [files EXCEPT !.schema = {{db}}]
=============================================================================
