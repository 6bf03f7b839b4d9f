------------------------------- MODULE RoleEditor -------------------------------
(***************************************************************************)
(* The dashboard's role editor: the JSON that a role becomes for the page  *)
(* (role_tables_to_json in cori-dashboard/src/pages.rs), what each control *)
(* of the page does to it (roleEditor, in the page's script), and the role *)
(* that the posted form is read as (handlers.rs).                          *)
(*                                                                         *)
(* A JSON object is a function on the keys it has.  `tables', the state of *)
(* the page, maps a table to [readable, creatable, updatable, deletable];  *)
(* each but the last is an option, where null is none:                     *)
(*   readable   of [all, columns, max]                                     *)
(*   creatable, updatable   of [all, map], map: column -> an object        *)
(*   deletable  {} for false, {object} otherwise: `true' is the object     *)
(*              without keys, and setDeletableOption makes it so           *)
(* A condition is <<"array", values>>, <<"object", conditions>> or         *)
(* <<"scalar", value>>.  Conditions written {in: ...} and {equals: ...}    *)
(* are not told apart from the plain array and value, nor an array of one  *)
(* condition set from the set.                                             *)
(***************************************************************************)
EXTENDS RoleDefinition, FiniteSets

CONSTANTS
    TextOf,         \* String(value), as a JSON string
    JoinedText      \* values.join(", "), for more than one

Present(options) == [k \in {j \in DOMAIN options : IsSome(options[j])} |-> The(options[k])]
Get(object, key) == IF key \in DOMAIN object THEN {object[key]} ELSE {}

-----------------------------------------------------------------------------
(* From the role to the page: serde's output for the constraints.          *)

ApprovalToJson(approval) ==
    IF IsSome(approval.group) THEN <<"object", The(approval.group)>> ELSE <<"bool", approval.required>>
ApprovalJson(option) == {ApprovalToJson(a) : a \in option}
ForeignKeyJson(constraints) == IF constraints.fk THEN {constraints.verify_with} ELSE {}

ConditionToJson(conditions) ==
    IF \E c \in conditions : conditions = {c} /\ c.op = "in"
    THEN <<"array", (The(conditions)).values>>
    ELSE IF \E c \in conditions : conditions = {c} /\ c.op = "equals"
    THEN <<"scalar", (The(conditions)).value>>
    ELSE <<"object", conditions>>

SetToJson(set) == [key \in DOMAIN set |-> ConditionToJson(set[key])]
OnlyWhenToJson(sets) == [i \in DOMAIN sets |-> SetToJson(sets[i])]

CreatableToJson(c) ==
    Present([required |-> {c.required}, default |-> c.default, restrict_to |-> c.restrict_to,
             requires_approval |-> ApprovalJson(c.approval), foreign_key |-> ForeignKeyJson(c)])

UpdatableToJson(c) ==
    Present([only_when |-> {OnlyWhenToJson(sets) : sets \in c.only_when},
             requires_approval |-> ApprovalJson(c.approval), foreign_key |-> ForeignKeyJson(c)])

DeletableToJson(d) ==
    IF d.allowed
    THEN {Present([requires_approval |-> ApprovalJson(d.approval),
                   soft_delete |-> IF d.soft_delete THEN {TRUE} ELSE {},
                   verify_with |-> IF d.verify_with # {} THEN {d.verify_with} ELSE {}])}
    ELSE {}

MapToJson(columns, json) == IF MapIsEmpty(columns) THEN {} ELSE {[all |-> columns.all, map |-> json]}
CreatablesToJson(columns) ==
    MapToJson(columns, [c \in DOMAIN columns.map |-> CreatableToJson(columns.map[c])])
UpdatablesToJson(columns) ==
    MapToJson(columns, [c \in DOMAIN columns.map |-> UpdatableToJson(columns.map[c])])

TableToJson(perms) ==
    [readable |-> {perms.readable},
     creatable |-> CreatablesToJson(perms.creatable),
     updatable |-> UpdatablesToJson(perms.updatable),
     deletable |-> DeletableToJson(perms.deletable)]

RoleTablesToJson(tables) == [t \in DOMAIN tables |-> TableToJson(tables[t])]

-----------------------------------------------------------------------------
(* From the form to the role.                                              *)

\* Mutant: an approval that names its group is one by the default group.
ParseApprovalSimply(json) == [required |-> json[1] # "bool" \/ json[2], group |-> {}]

ParseApproval(json) ==
    IF json[1] = "bool" THEN [required |-> json[2], group |-> {}]
    ELSE [required |-> TRUE, group |-> {json[2]}]

ParseApprovals(object) == {ParseApproval(v) : v \in Get(object, "requires_approval")}

ParseCondition(json) ==
    CASE json[1] = "array" -> {[op |-> "in", values |-> json[2]]}
      [] json[1] = "scalar" -> {[op |-> "equals", value |-> json[2]]}
      [] OTHER -> json[2]

ParseConditionSet(set) == [key \in DOMAIN set |-> ParseCondition(set[key])]
ParseOnlyWhen(sets) == [i \in DOMAIN sets |-> ParseConditionSet(sets[i])]

ParseCreatable(o) ==
    [required |-> Get(o, "required") = {TRUE}, default |-> Get(o, "default"),
     restrict_to |-> Get(o, "restrict_to"), approval |-> ParseApprovals(o),
     fk |-> IsSome(Get(o, "foreign_key")), verify_with |-> UNION Get(o, "foreign_key")]

ParseUpdatable(o) ==
    [only_when |-> {ParseOnlyWhen(sets) : sets \in Get(o, "only_when")}, approval |-> ParseApprovals(o),
     fk |-> IsSome(Get(o, "foreign_key")), verify_with |-> UNION Get(o, "foreign_key")]

ParseCreatables(json) ==
    IF IsSome(json)
    THEN [all |-> (The(json)).all,
          map |-> [c \in DOMAIN (The(json)).map |-> ParseCreatable((The(json)).map[c])]]
    ELSE NoMap
ParseUpdatables(json) ==
    IF IsSome(json)
    THEN [all |-> (The(json)).all,
          map |-> [c \in DOMAIN (The(json)).map |-> ParseUpdatable((The(json)).map[c])]]
    ELSE NoMap

ParseDeletable(json) ==
    IF IsSome(json)
    THEN [allowed |-> TRUE, approval |-> ParseApprovals(The(json)),
          soft_delete |-> Get(The(json), "soft_delete") = {TRUE},
          verify_with |-> UNION Get(The(json), "verify_with")]
    ELSE NoDelete

ParseTable(json) ==
    [readable |-> IF IsSome(json.readable) THEN The(json.readable) ELSE NoRead,
     creatable |-> ParseCreatables(json.creatable),
     updatable |-> ParseUpdatables(json.updatable),
     deletable |-> ParseDeletable(json.deletable)]

FormToTables(tables) == [t \in DOMAIN tables |-> ParseTable(tables[t])]

-----------------------------------------------------------------------------
(* The controls of the page.  Each takes what it changes and returns it.   *)

SelectTable == [readable |-> {NoRead}, creatable |-> {}, updatable |-> {}, deletable |-> {}]

TogglePermission(part, enabled) ==
    IF ~enabled THEN {} ELSE IF part = "readable" THEN {NoRead} ELSE {NoMap}

\* Switching between "*" and a list drops the list and max_per_page.
SetAllColumns(part, all) ==
    IF part = "readable" THEN {[NoRead EXCEPT !.all = all]} ELSE {[NoMap EXCEPT !.all = all]}

\* A column ticked or unticked leaves a plain list, without max_per_page.
ToggleReadable(readable, column, checked) ==
    {[all |-> FALSE, max |-> {},
      columns |-> IF checked THEN r.columns \cup {column} ELSE r.columns \ {column}] : r \in readable}

\* A column ticked again starts without constraints.
ToggleColumn(columns, column, checked) ==
    {IF v.all THEN v
     ELSE LET kept == IF checked THEN DOMAIN v.map \cup {column} ELSE DOMAIN v.map \ {column}
          IN [v EXCEPT !.map = [c \in kept |-> IF c = column THEN NoKeys ELSE v.map[c]]] : v \in columns}

SetMaxPerPage(readable, max) == {[r EXCEPT !.max = max] : r \in readable}

ToggleDeletable(enabled) == IF enabled THEN {NoKeys} ELSE {}

SetDeletableOption(deletable, key, option) ==
    {LET keys == (DOMAIN d \ {key}) \cup (IF IsSome(option) THEN {key} ELSE {})
     IN [k \in keys |-> IF k = key THEN The(option) ELSE d[k]] : d \in deletable}

-----------------------------------------------------------------------------
(* The dialog of one column: openColumnEditor, then saveColumnConstraints. *)
(* Values turn into text on the way, and a comparison of the column's new  *)
(* value turns into one with its old value.                                *)

Ordered == <<"greater_than", "greater_than_or_equal", "lower_than", "lower_than_or_equal", "starts_with">>
Recognised == Ordered \o <<"not_null", "is_null", "in_values", "not_in", "equals", "not_equals">>
OrderedOps == {Ordered[i] : i \in DOMAIN Ordered}
RecognisedOps == {Recognised[i] : i \in DOMAIN Recognised}

\* The first of a condition's operators, in the order the script asks for them.
FirstOp(conditions) ==
    LET found == {i \in DOMAIN Recognised : \E c \in conditions : c.op = Recognised[i]}
    IN {c \in conditions : \E i \in found : c.op = Recognised[i] /\ \A j \in found : i <= j}

TextOfAll(values) == {TextOf[v] : v \in values}
ArrayOrScalar(texts) == IF Cardinality(texts) = 1 THEN <<"scalar", The(texts)>> ELSE <<"array", texts>>
Joined(values) == IF Cardinality(values) = 1 THEN TextOf[The(values)] ELSE JoinedText

\* parseConditionObj and buildCondValue; not_in and not_equals come out as values.
Rebuilt(c) ==
    CASE c.op \in OrderedOps \cup {"not_null", "is_null"} -> <<"object", {c}>>
      [] c.op = "in_values" -> ArrayOrScalar(TextOfAll(c.values))
      [] c.op = "not_in" -> <<"scalar", Joined(c.values)>>
      [] c.op \in {"equals", "not_equals"} -> <<"scalar", TextOf[c.value]>>

RebuiltCondition(json) ==
    CASE json[1] = "array" -> {ArrayOrScalar(TextOfAll(json[2]))}
      [] json[1] = "scalar" -> {<<"scalar", TextOf[json[2]]>>}
      [] OTHER -> {Rebuilt(c) : c \in FirstOp(json[2])}

RebuiltSet(set) ==
    LET kept == {key \in DOMAIN set : IsSome(RebuiltCondition(set[key]))}
    IN [key \in kept |-> The(RebuiltCondition(set[key]))]

\* Rules without conditions are left out, the others keep their order.
RebuiltRules(sets) ==
    LET kept == {i \in DOMAIN sets : DOMAIN RebuiltSet(sets[i]) # {}}
        Nth(n) == CHOOSE i \in kept : Cardinality({j \in kept : j <= i}) = n
    IN IF kept = {} THEN {} ELSE {[n \in 1 .. Cardinality(kept) |-> RebuiltSet(sets[Nth(n)])]}

\* A threshold of 0 is no threshold to `if (val.greater_than)'.
Truthy(c) ==
    \/ c.op = "not_null"
    \/ c.op \in OrderedOps /\ c.bound \notin {[ref |-> {}, number |-> 0], [ref |-> {}, text |-> ""]}

ReplacedComparison(column, conditions) ==
    <<"object", {IF c.op = "not_null" THEN c ELSE [c EXCEPT !.bound.ref = {column}] :
                    c \in FirstOp({d \in conditions : Truthy(d)})}>>

SaveOnlyWhen(column, sets) ==
    LET new == <<"new", column>>
        Single == Len(sets) = 1 /\ DOMAIN sets[1] = {new}
        Only(json) == {<<[key \in {new} |-> json]>>}
    IN IF Single /\ sets[1][new][1] = "array"
       THEN IF sets[1][new][2] = {} THEN {} ELSE Only(<<"array", TextOfAll(sets[1][new][2])>>)
       ELSE IF Single /\ sets[1][new][1] = "object" /\ \E c \in sets[1][new][2] : Truthy(c)
       THEN Only(ReplacedComparison(column, sets[1][new][2]))
       ELSE RebuiltRules(sets)

\* An empty text or list, a zero and `false' are not kept.
Falsy(value) == value \in {<<"int", 0>>, <<"str", "">>, <<"bool", FALSE>>, Null}

\* The object that the dialog leaves, when its box for approval is `ticked' and
\* nothing else in it was changed.  A group of its own is lost.
SaveColumnConstraints(column, object, ticked) ==
    Present([required |-> Get(object, "required") \cap {TRUE},
             requires_approval |-> IF ticked THEN {<<"bool", TRUE>>} ELSE {},
             default |-> {v \in Get(object, "default") : ~Falsy(v)},
             restrict_to |-> {TextOfAll(vs) : vs \in {ws \in Get(object, "restrict_to") : ws # {}}},
             only_when |-> UNION {SaveOnlyWhen(column, sets) : sets \in Get(object, "only_when")},
             foreign_key |-> Get(object, "foreign_key") \ {{}}])

\* What the box shows when the dialog opens.
ApprovalTicked(object) == Get(object, "requires_approval") \notin {{}, {<<"bool", FALSE>>}}
-----------------------------------------------------------------------------
(* Roles as serde reads them.                                              *)

Option(x) == \A a, b \in x : a = b

WellFormedApproval(a) ==
    /\ a = [required |-> a.required, group |-> a.group]
    /\ a.required \in BOOLEAN /\ Option(a.group)
    /\ IsSome(a.group) => a.required

WellFormedApprovals(option) == Option(option) /\ \A a \in option : WellFormedApproval(a)

\* Lists and plain values are what In and Equals hold, and nothing else.
WellFormedConditions(conditions) ==
    \A c \in conditions :
        /\ c.op = "in" /\ conditions = {c} => c = [op |-> "in", values |-> c.values]
        /\ c.op = "equals" /\ conditions = {c} => c = [op |-> "equals", value |-> c.value]

WellFormedSet(set) ==
    /\ set = [key \in DOMAIN set |-> set[key]]
    /\ \A key \in DOMAIN set : WellFormedConditions(set[key])

WellFormedSets(sets) ==
    /\ sets = [i \in DOMAIN sets |-> sets[i]]
    /\ \A i \in DOMAIN sets : WellFormedSet(sets[i])

WellFormedCreatable(c) ==
    /\ c = [required |-> c.required, default |-> c.default, restrict_to |-> c.restrict_to,
            approval |-> c.approval, fk |-> c.fk, verify_with |-> c.verify_with]
    /\ c.required \in BOOLEAN /\ c.fk \in BOOLEAN
    /\ Option(c.default) /\ Option(c.restrict_to) /\ WellFormedApprovals(c.approval)
    /\ ~c.fk => c.verify_with = {}

WellFormedUpdatable(c) ==
    /\ c = [only_when |-> c.only_when, approval |-> c.approval, fk |-> c.fk,
            verify_with |-> c.verify_with]
    /\ c.fk \in BOOLEAN
    /\ Option(c.only_when) /\ \A sets \in c.only_when : WellFormedSets(sets)
    /\ WellFormedApprovals(c.approval)
    /\ ~c.fk => c.verify_with = {}

WellFormedMap(columns) ==
    /\ columns = [all |-> columns.all, map |-> columns.map]
    /\ columns.all \in BOOLEAN
    /\ columns.map = [c \in DOMAIN columns.map |-> columns.map[c]]

\* `deletable: false' has no options.
WellFormedDeletable(d) ==
    /\ d = [allowed |-> d.allowed, approval |-> d.approval, soft_delete |-> d.soft_delete,
            verify_with |-> d.verify_with]
    /\ d.allowed \in BOOLEAN /\ d.soft_delete \in BOOLEAN
    /\ WellFormedApprovals(d.approval)
    /\ ~d.allowed => d = NoDelete

WellFormedTable(perms) ==
    /\ perms = [readable |-> perms.readable, creatable |-> perms.creatable,
                updatable |-> perms.updatable, deletable |-> perms.deletable]
    /\ WellFormedMap(perms.creatable)
    /\ \A c \in DOMAIN perms.creatable.map : WellFormedCreatable(perms.creatable.map[c])
    /\ WellFormedMap(perms.updatable)
    /\ \A c \in DOMAIN perms.updatable.map : WellFormedUpdatable(perms.updatable.map[c])
    /\ WellFormedDeletable(perms.deletable)

RoleTables(tables) ==
    /\ tables = [t \in DOMAIN tables |-> tables[t]]
    /\ \A t \in DOMAIN tables : WellFormedTable(tables[t])

(* No list or rule in it is empty, and a condition compares something: what *)
(* a column's dialog drops of a role is then only wording.                 *)

CarefulConditions(conditions) ==
    /\ \A c \in conditions : "op" \in DOMAIN c /\ (c.op \in {"in", "in_values"} => c.values # {})
    /\ \/ \E c \in conditions : c.op \in RecognisedOps
       \/ \E c \in conditions : conditions = {c} /\ c.op = "in"

CarefulSets(sets) ==
    /\ Len(sets) > 0 /\ DOMAIN sets = 1 .. Len(sets)
    /\ \A i \in DOMAIN sets :
          DOMAIN sets[i] # {} /\ \A key \in DOMAIN sets[i] : CarefulConditions(sets[i][key])

CarefulTable(perms) ==
    /\ \A c \in DOMAIN perms.creatable.map : {} \notin perms.creatable.map[c].restrict_to
    /\ \A c \in DOMAIN perms.updatable.map :
          \A sets \in perms.updatable.map[c].only_when : CarefulSets(sets)

CarefulRole(tables) == RoleTables(tables) /\ \A t \in DOMAIN tables : CarefulTable(tables[t])
=============================================================================
