---------------------------- MODULE RoleDefinition ----------------------------
(***************************************************************************)
(* What the gateway is configured with, and the questions asked of it:     *)
(* roles (cori-core/src/config/role_definition.rs), rules                  *)
(* (rules_definition.rs), the captured schema (schema_definition.rs and    *)
(* its copy for tool generation, cori-mcp/src/schema.rs).                  *)
(*                                                                         *)
(* An Option is a set of at most one element.  A JSON value is a tuple     *)
(* whose first element is its kind: <<"int", 3>>, <<"str", "open">>,       *)
(* <<"null">>.  A map is a function on the keys it has.                    *)
(***************************************************************************)
EXTENDS Naturals, Sequences

CONSTANTS
    Tables,         \* names of tables that roles, rules or the schema speak of
    Base,           \* a column's name without the suffix "_id"
    Trimmed         \* a table's name without its trailing "s"

IsSome(option) == option # {}
The(option) == CHOOSE x \in option : TRUE
NoKeys == [k \in {} |-> k]

Kind(value) == value[1]
Null == <<"null">>

-----------------------------------------------------------------------------
(* Roles.  A role maps the tables it may use to their permissions:         *)
(*   readable  : [all, columns, max]       max is max_per_page             *)
(*   creatable : [all, map]                map: column -> constraints      *)
(*   updatable : [all, map]                                                *)
(*   deletable : [allowed, approval, soft_delete, verify_with]             *)
(* `all' is the "*" of the YAML.  Constraints on INSERT are                *)
(*   [required, default, restrict_to, approval, fk, verify_with]           *)
(* and on UPDATE                                                           *)
(*   [only_when, approval, fk, verify_with]                                *)
(* only_when is an option of a sequence of condition sets: one for an      *)
(* object, several for an array.  approval is an option of                 *)
(* [required, group]: Simple(b) has no group, Detailed always is required. *)

NoRead == [all |-> FALSE, columns |-> {}, max |-> {}]
NoMap == [all |-> FALSE, map |-> NoKeys]
NoDelete == [allowed |-> FALSE, approval |-> {}, soft_delete |-> FALSE, verify_with |-> {}]

\* serde's defaults: a table without a permission is a table that grants nothing.
TablePermissions == [readable |-> NoRead, creatable |-> NoMap,
                     updatable |-> NoMap, deletable |-> NoDelete]

ReadableContains(readable, column) == readable.all \/ column \in readable.columns
ReadableIsEmpty(readable) == ~readable.all /\ readable.columns = {}
MapContains(columns, column) == columns.all \/ column \in DOMAIN columns.map
MapIsEmpty(columns) == ~columns.all /\ DOMAIN columns.map = {}

\* ApprovalRequirement::is_required, under an Option.
IsRequired(approval) == \E a \in approval : a.required

\* The names under which an agent hands over verification values.
VerifyKey(column, verify) == Base[column] \o "_" \o verify
FkVerificationColumns(columns) ==
    UNION {{VerifyKey(c, v) : v \in columns.map[c].verify_with} :
           c \in {d \in DOMAIN columns.map : columns.map[d].fk}}

CanRead(role, table) == table \in DOMAIN role /\ ~ReadableIsEmpty(role[table].readable)
CanCreate(role, table) == table \in DOMAIN role /\ ~MapIsEmpty(role[table].creatable)
CanUpdate(role, table) == table \in DOMAIN role /\ ~MapIsEmpty(role[table].updatable)
CanDelete(role, table) == table \in DOMAIN role /\ role[table].deletable.allowed

MaxPerPage(role, table) == IF table \in DOMAIN role THEN role[table].readable.max ELSE {}

\* Columns whose constraints speak of approval, if only to say `false'.
ApprovalColumns(columns) == {c \in DOMAIN columns.map : IsSome(columns.map[c].approval)}
\* Mutant: only creatable columns are collected.
GetCreateApprovalColumns(role, table) ==
    IF table \in DOMAIN role THEN ApprovalColumns(role[table].creatable) ELSE {}

GetApprovalColumns(role, table) ==
    IF table \in DOMAIN role
    THEN ApprovalColumns(role[table].creatable) \cup ApprovalColumns(role[table].updatable)
    ELSE {}
TableRequiresApproval(role, table) ==
    /\ table \in DOMAIN role
    /\ \/ GetApprovalColumns(role, table) # {}
       \/ IsSome(role[table].deletable.approval)

\* A condition set maps <<"old", column>> and <<"new", column>> to conditions.
HasOldConditions(sets) ==
    \E i \in DOMAIN sets : \E key \in DOMAIN sets[i] : key[1] = "old"

\* get_new_value_restriction: {new.<column>: [values]} and nothing else.
NewValueRestriction(sets, column) ==
    IF Len(sets) = 1 /\ DOMAIN sets[1] = {<<"new", column>>}
    THEN {c.values : c \in {d \in sets[1][<<"new", column>>] : d.op = "in"}}
    ELSE {}

-----------------------------------------------------------------------------
(* Rules: table -> [tenant, global, soft_delete, columns].  tenant is an   *)
(* option of [column] (Direct) or [via, references] (Inherited), told      *)
(* apart by `kind'; soft_delete is an option of a column; columns maps a   *)
(* column to [type, pattern, allowed], where a pattern is an option of     *)
(* [valid, matches].                                                       *)

NoColumnRules == [type |-> {}, pattern |-> {}, allowed |-> {}]
TableRules == [tenant |-> {}, global |-> FALSE, soft_delete |-> {}, columns |-> NoKeys]

GetDirectTenantColumn(tableRules) ==
    {t.column : t \in {u \in tableRules.tenant : u.kind = "direct"}}

-----------------------------------------------------------------------------
(* Schema: table -> [columns, primary_key, foreign_keys], where columns    *)
(* maps a column to [type, nullable, default], primary_key is a sequence   *)
(* of columns and foreign_keys maps a column to the [table, column] it     *)
(* references.  A type is PostgreSQL's name of it.                         *)

\* ColumnSchema::json_schema_type looks for pieces of the name, so an
\* interval, which has "int" in it, is an integer to the tools.
JsonSchemaType(type) ==
    CASE type \in {"integer", "bigint", "smallint", "serial", "bigserial", "interval", "point"} -> "integer"
      [] type \in {"numeric", "decimal", "float", "double precision", "real"} -> "number"
      [] type = "boolean" -> "boolean"
      [] type \in {"json", "jsonb"} -> "object"
      [] type = "ARRAY" -> "array"
      [] OTHER -> "string"

GetPrimaryKeyColumns(schema, table) ==
    IF table \in DOMAIN schema THEN schema[table].primary_key ELSE <<>>

KeySet(schema, table) ==
    LET pk == GetPrimaryKeyColumns(schema, table) IN {pk[i] : i \in DOMAIN pk}

GetFkReferencedTable(schema, table, column) ==
    IF table \in DOMAIN schema /\ column \in DOMAIN schema[table].foreign_keys
    THEN {schema[table].foreign_keys[column].table}
    ELSE {}
=============================================================================
