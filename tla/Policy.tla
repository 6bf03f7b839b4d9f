-------------------------------- MODULE Policy --------------------------------
(***************************************************************************)
(* cori-policy: what a role and the rules let a tool call do.              *)
(* ToolValidator::validate asks the role (role.rs), then the rules for     *)
(* the tenant (rules.rs), then the constraints of the operation            *)
(* (constraints.rs), then the rules for the values.  The first error is    *)
(* the answer, so validation is a conjunction.                             *)
(*                                                                         *)
(* A request is [op, table, args, tenant, row, keys]: args maps the keys   *)
(* of the JSON object to values, row is an option of the current row and   *)
(* keys the table's primary key columns.  The gateway always names a role  *)
(* (executor.rs), so the empty role name is not modelled; a wrong one is   *)
(* only logged.                                                            *)
(***************************************************************************)
EXTENDS RoleDefinition, Integers

CONSTANTS
    PrefixPairs     \* <<s, p>> for the string values where s starts with p

Unscoped == {"", "unknown"}     \* tenant ids that stand for no tenant

-----------------------------------------------------------------------------
(* A ColumnCondition is a set of [op, ...]: one for In and Equals, one for *)
(* each field that a ComparisonCondition sets.                             *)

\* resolve_number_or_column_ref: new.<column>, too, is read from the current row.
Threshold(bound, row) ==
    IF bound.ref = {} THEN {bound.number}
    ELSE {r[The(bound.ref)][2] : r \in {s \in row : /\ The(bound.ref) \in DOMAIN s
                                                   /\ Kind(s[The(bound.ref)]) = "int"}}

Exceeds(op, a, b) ==
    CASE op = "greater_than" -> a > b
      [] op = "greater_than_or_equal" -> a >= b
      [] op = "lower_than" -> a < b
      [] op = "lower_than_or_equal" -> a <= b

\* starts_with: a literal, or old.<column>, which must be a string.
Prefix(bound, row) ==
    IF bound.ref = {} THEN {bound.text}
    ELSE {r[The(bound.ref)] : r \in {s \in row : /\ The(bound.ref) \in DOMAIN s
                                                /\ Kind(s[The(bound.ref)]) = "str"}}

Satisfies(value, condition, row) ==
    CASE condition.op \in {"in", "in_values"} -> value \in condition.values
      [] condition.op = "equals" -> value = condition.value
      [] condition.op = "not_equals" -> value # condition.value
      [] condition.op = "not_null" -> value # Null
      [] condition.op = "is_null" -> value = Null
      [] condition.op = "not_in" -> value \notin condition.values
      [] condition.op = "starts_with" ->
            Kind(value) = "str" => \E p \in Prefix(condition.bound, row) : <<value, p>> \in PrefixPairs
      [] OTHER ->     \* the comparisons of numbers
            Kind(value) = "int" =>
                \E n \in Threshold(condition.bound, row) : Exceeds(condition.op, value[2], n)

CheckCondition(value, conditions, row) == \A c \in conditions : Satisfies(value, c, row)

\* The value a key of a condition set speaks of: none when the update does not
\* bring it, or when the current row is not known.
Subject(key, args, row) ==
    IF key[1] = "new"
    THEN {args[k] : k \in {key[2]} \cap DOMAIN args}
    ELSE {IF key[2] \in DOMAIN r THEN r[key[2]] ELSE Null : r \in row}

\* Mutant: one condition of a set is enough.
ConditionSetTouched(conditions, args, row) ==
    \E key \in DOMAIN conditions :
        \E value \in Subject(key, args, row) : CheckCondition(value, conditions[key], row)

ConditionSetHolds(conditions, args, row) ==
    \A key \in DOMAIN conditions :
        \E value \in Subject(key, args, row) : CheckCondition(value, conditions[key], row)

\* AND within a set, OR between the sets.
OnlyWhenHolds(sets, args, row) ==
    \E i \in DOMAIN sets : ConditionSetHolds(sets[i], args, row)

-----------------------------------------------------------------------------
(* role.rs                                                                 *)

HasKeys(request) == request.keys \subseteq DOMAIN request.args

ValidateRole(role, request) ==
    /\ request.table \in DOMAIN role
    /\ LET perms == role[request.table]
       IN CASE request.op = "get" -> ~ReadableIsEmpty(perms.readable) /\ HasKeys(request)
            [] request.op = "list" ->
                  /\ ~ReadableIsEmpty(perms.readable)
                  /\ \A max \in perms.readable.max :
                        /\ "limit" \in DOMAIN request.args
                        /\ Kind(request.args["limit"]) = "int"
                        => request.args["limit"][2] <= max
            [] request.op = "create" -> ~MapIsEmpty(perms.creatable)
            [] request.op = "update" -> ~MapIsEmpty(perms.updatable) /\ HasKeys(request)
            [] request.op = "delete" -> perms.deletable.allowed /\ HasKeys(request)

-----------------------------------------------------------------------------
(* rules.rs                                                                *)

ValidateTenant(rules, request) ==
    request.table \in DOMAIN rules =>
        \/ rules[request.table].global
        \/ rules[request.table].tenant = {}
        \/ request.tenant \notin Unscoped

\* Only a Direct column is one; `global' is not looked at.
IsTenantColumn(rules, table, column) ==
    table \in DOMAIN rules /\ column \in GetDirectTenantColumn(rules[table])

ValidateColumnValue(rules, table, column, value) ==
    table \in DOMAIN rules /\ column \in DOMAIN rules[table].columns =>
        LET columnRules == rules[table].columns[column]
        IN /\ \A p \in columnRules.pattern : p.valid /\ Kind(value) = "str" => value \in p.matches
           /\ \A allowed \in columnRules.allowed : value \in allowed

-----------------------------------------------------------------------------
(* constraints.rs and validator.rs                                         *)

\* Mutant: a verification value is taken for a column.
ValidateCreateStrict(role, rules, request) ==
    \A c \in DOMAIN request.args :
        ~IsTenantColumn(rules, request.table, c) =>
            MapContains(role[request.table].creatable, c)

ValidateCreate(role, rules, request) ==
    LET creatable == role[request.table].creatable
        Checked(c) == ~IsTenantColumn(rules, request.table, c)
    IN /\ \A c \in DOMAIN request.args \ FkVerificationColumns(creatable) :
            Checked(c) =>
                /\ MapContains(creatable, c)
                /\ c \in DOMAIN creatable.map =>
                      \A allowed \in creatable.map[c].restrict_to : request.args[c] \in allowed
       /\ \A c \in DOMAIN creatable.map :
            /\ Checked(c)
            /\ creatable.map[c].required
            => c \in DOMAIN request.args \/ IsSome(creatable.map[c].default)

ValidateUpdate(role, rules, request) ==
    LET updatable == role[request.table].updatable
    IN \A c \in DOMAIN request.args \ (request.keys \cup FkVerificationColumns(updatable)) :
            ~IsTenantColumn(rules, request.table, c) =>
                /\ MapContains(updatable, c)
                /\ c \in DOMAIN updatable.map =>
                      \A sets \in updatable.map[c].only_when :
                          OnlyWhenHolds(sets, request.args, request.row)

ValidateColumnValues(rules, request) ==
    \A c \in DOMAIN request.args \ request.keys :
        ~IsTenantColumn(rules, request.table, c) =>
            ValidateColumnValue(rules, request.table, c, request.args[c])

Validate(role, rules, request) ==
    /\ ValidateRole(role, request)
    /\ ValidateTenant(rules, request)
    /\ request.op = "create" => /\ ValidateCreate(role, rules, request)
                                /\ ValidateColumnValues(rules, request)
    /\ request.op = "update" => /\ ValidateUpdate(role, rules, request)
                                /\ ValidateColumnValues(rules, request)

ApprovalFields(columns, keys) ==
    {c \in keys \cap DOMAIN columns.map : IsRequired(columns.map[c].approval)}

\* requires_approval: an option of the fields; a delete needs it for the row.
RequiresApproval(role, request) ==
    LET perms == role[request.table]
        created == ApprovalFields(perms.creatable, DOMAIN request.args)
        updated == ApprovalFields(perms.updatable, DOMAIN request.args \ request.keys)
    IN CASE request.op = "create" /\ created # {} -> {created}
         [] request.op = "update" /\ updated # {} -> {updated}
         [] request.op = "delete" /\ IsRequired(perms.deletable.approval) -> {{}}
         [] OTHER -> {}
=============================================================================
