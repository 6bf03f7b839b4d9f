----------------------------- MODULE ToolGenerator -----------------------------
(***************************************************************************)
(* The tools a role is offered (cori-mcp/src/tool_generator.rs) and the    *)
(* way back from a tool's name to an operation on a table                  *)
(* (parse_tool_operation in executor.rs).                                  *)
(*                                                                         *)
(* A tool is [op, entity, props, required, requires_approval,              *)
(* approval_fields].  entity is the word in its name, [root, end]: of a    *)
(* word only the ending matters, since singularize and pluralize change    *)
(* nothing else and pascal_case and snake_case undo each other on the      *)
(* lower-case words that table names are made of.  props maps a property   *)
(* of the input schema to [type, enum, max]; formats, defaults and         *)
(* descriptions are for the agent to read and nothing checks them.         *)
(***************************************************************************)
EXTENDS RoleDefinition, Integers

CONSTANTS
    NameOf,         \* a table's name as a word
    NoTable         \* what a name that no table has stands for

\* "people" and the like have no ending in common: their root is the word.
Irregular == [people |-> "person", children |-> "child", men |-> "man", women |-> "woman",
              mice |-> "mouse", geese |-> "goose", teeth |-> "tooth", feet |-> "foot"]

Singularize(word) ==
    LET Ending(e) == [word EXCEPT !.end = e]
    IN CASE word.end = "" /\ word.root \in DOMAIN Irregular -> [word EXCEPT !.root = Irregular[word.root]]
         [] word.end = "ies" -> Ending("y")
         [] word.end = "xes" -> Ending("x")
         [] word.end = "ches" -> Ending("ch")
         [] word.end = "shes" -> Ending("sh")
         [] word.end = "sses" -> Ending("ss")
         [] word.end = "ves" -> Ending("f")
         [] word.end = "ys" -> Ending("y")
         [] word.end = "eys" -> Ending("ey")
         [] word.end = "s" -> Ending("")
         [] OTHER -> word           \* "ss", "us" and "is" keep their s

\* "ey" stands for "ay" and "oy" too.
Pluralize(word) ==
    LET Ending(e) == [word EXCEPT !.end = e]
    IN CASE word.end = "y" -> Ending("ies")
         [] word.end = "ey" -> Ending("eys")
         [] word.end = "x" -> Ending("xes")
         [] word.end = "ch" -> Ending("ches")
         [] word.end = "sh" -> Ending("shes")
         [] word.end = "ss" -> Ending("sses")
         [] word.end = "us" -> Ending("uses")
         [] word.end = "is" -> Ending("ises")
         [] word.end = "s" -> Ending("ses")
         [] word.end = "f" -> Ending("fs")
         [] word.end = "" -> Ending("s")
         [] OTHER -> Ending("eses")

TableNamed(word) ==
    IF \E t \in Tables : NameOf[t] = word THEN CHOOSE t \in Tables : NameOf[t] = word ELSE NoTable

\* list tools carry the plural, the others the singular.
EntityOf(op, table) ==
    LET singular == Singularize(NameOf[table])
    IN IF op = "list" THEN Pluralize(singular) ELSE singular

ParseToolOperation(tool) ==
    TableNamed(IF tool.op = "list" THEN tool.entity ELSE Pluralize(tool.entity))

-----------------------------------------------------------------------------
Prop(type, enum) == [type |-> type, enum |-> enum, max |-> {}]

ColumnType(schema, table, column) ==
    IF column \in DOMAIN schema[table].columns
    THEN JsonSchemaType(schema[table].columns[column].type)
    ELSE "string"

\* The type a verification value has in the table that the column references.
VerifyType(schema, table, columns, key) ==
    LET origin == {o \in UNION {{c} \X columns.map[c].verify_with : c \in DOMAIN columns.map} :
                        VerifyKey(o[1], o[2]) = key}
        cv == The(origin)
        ref == The(GetFkReferencedTable(schema, table, cv[1]))
    IN IF ref \in DOMAIN schema THEN ColumnType(schema, ref, cv[2]) ELSE "string"

\* add_verify_with_columns: for the columns that are foreign keys in the schema.
OfferedVerifyKeys(schema, table, columns) ==
    UNION {{VerifyKey(c, v) : v \in columns.map[c].verify_with} :
           c \in {d \in DOMAIN columns.map :
                    columns.map[d].fk /\ IsSome(GetFkReferencedTable(schema, table, d))}}

\* The columns of creatable or updatable, with their enums.  A verification
\* key that is also the name of a column is not modelled.
ColumnProps(schema, table, columns, enums) ==
    LET named == IF columns.all THEN DOMAIN schema[table].columns ELSE DOMAIN columns.map
        verify == OfferedVerifyKeys(schema, table, columns)
    IN [k \in named \cup verify |->
            IF k \in verify THEN Prop(VerifyType(schema, table, columns, k), {})
            ELSE Prop(ColumnType(schema, table, k), IF k \in DOMAIN enums THEN enums[k] ELSE {})]

KeyProps(schema, table) ==
    [k \in KeySet(schema, table) \cap DOMAIN schema[table].columns |->
        Prop(ColumnType(schema, table, k), {})]

\* The second map's entries replace the first's.
Extend(f, g) == [k \in DOMAIN f \cup DOMAIN g |-> IF k \in DOMAIN g THEN g[k] ELSE f[k]]

GetTool(schema, table) ==
    [op |-> "get", entity |-> EntityOf("get", table),
     props |-> KeyProps(schema, table), required |-> KeySet(schema, table),
     requires_approval |-> FALSE, approval_fields |-> {}]

\* generate_filter_properties: no filter on a json or an array.
FilterProps(role, schema, table) ==
    LET readable == role[table].readable
        columns == DOMAIN schema[table].columns
        named == IF readable.all THEN columns ELSE readable.columns \cap columns
    IN [c \in {d \in named : ColumnType(schema, table, d) \notin {"object", "array"}} |->
            Prop(ColumnType(schema, table, c), {})]

ListTool(role, schema, table) ==
    LET max == IF MaxPerPage(role, table) = {} THEN {1000} ELSE MaxPerPage(role, table)
        paging == [limit |-> [type |-> "integer", enum |-> {}, max |-> max],
                   offset |-> Prop("integer", {})]
    IN [op |-> "list", entity |-> EntityOf("list", table),
        props |-> Extend(paging, FilterProps(role, schema, table)), required |-> {},
        requires_approval |-> FALSE, approval_fields |-> {}]

\* A column that the database insists on is required, whatever default the role
\* has for it; a verification value is required even if its column is not given.
CreateRequired(role, schema, table) ==
    LET creatable == role[table].creatable
        columns == schema[table].columns
        MustBeGiven(c) == c \in DOMAIN columns /\ ~columns[c].nullable /\ columns[c].default = {}
    IN IF creatable.all THEN {c \in DOMAIN columns : MustBeGiven(c)}
       ELSE {c \in DOMAIN creatable.map : creatable.map[c].required \/ MustBeGiven(c)}
            \cup OfferedVerifyKeys(schema, table, creatable)

CreateTool(role, schema, table) ==
    LET map == role[table].creatable.map
        enums == [c \in DOMAIN map |-> map[c].restrict_to]
    IN [op |-> "create", entity |-> EntityOf("create", table),
        props |-> ColumnProps(schema, table, role[table].creatable, enums),
        required |-> CreateRequired(role, schema, table),
        requires_approval |-> TableRequiresApproval(role, table),
        approval_fields |-> GetApprovalColumns(role, table)]

UpdateTool(role, schema, table) ==
    LET map == role[table].updatable.map
        enums == [c \in DOMAIN map |->
                    UNION {NewValueRestriction(sets, c) : sets \in map[c].only_when}]
    IN [op |-> "update", entity |-> EntityOf("update", table),
        props |-> Extend(ColumnProps(schema, table, role[table].updatable, enums), KeyProps(schema, table)),
        required |-> KeySet(schema, table),
        requires_approval |-> TableRequiresApproval(role, table),
        approval_fields |-> GetApprovalColumns(role, table)]

\* Annotated as needing approval whether or not the role asks for it.
DeleteTool(role, schema, table) ==
    LET verify == role[table].deletable.verify_with
    IN [op |-> "delete", entity |-> EntityOf("delete", table),
        props |-> Extend(KeyProps(schema, table),
                         [c \in verify |-> Prop(ColumnType(schema, table, c), {})]),
        required |-> KeySet(schema, table),
        requires_approval |-> TRUE, approval_fields |-> {}]

GenerateTableTools(role, schema, table) ==
    LET keyed == KeySet(schema, table) # {}
    IN  (IF CanRead(role, table) /\ keyed THEN {GetTool(schema, table)} ELSE {})
        \cup (IF CanRead(role, table) THEN {ListTool(role, schema, table)} ELSE {})
        \cup (IF CanCreate(role, table) THEN {CreateTool(role, schema, table)} ELSE {})
        \cup (IF CanUpdate(role, table) /\ keyed THEN {UpdateTool(role, schema, table)} ELSE {})
        \cup (IF CanDelete(role, table) /\ keyed THEN {DeleteTool(role, schema, table)} ELSE {})

\* A table of the role that the schema lacks ends the server in a panic.
GeneratePanics(role, schema) == ~(DOMAIN role \subseteq DOMAIN schema)
GenerateAll(role, schema) == UNION {GenerateTableTools(role, schema, t) : t \in DOMAIN role}

-----------------------------------------------------------------------------
\* check_type: null has no type that a tool asks for.
HasType(value, type) ==
    CASE type = "string" -> Kind(value) = "str"
      [] type = "integer" -> Kind(value) = "int"
      [] type = "number" -> Kind(value) \in {"int", "float"}
      [] type = "boolean" -> Kind(value) = "bool"
      [] type = "object" -> Kind(value) = "object"
      [] type = "array" -> Kind(value) = "array"

\* No tool has a minimum or a pattern.
ValidateArguments(tool, args) ==
    /\ tool.required \subseteq DOMAIN args
    /\ \A k \in DOMAIN args \cap DOMAIN tool.props :
          /\ \A enum \in tool.props[k].enum : args[k] \in enum
          /\ HasType(args[k], tool.props[k].type)
          /\ Kind(args[k]) = "int" => \A max \in tool.props[k].max : args[k][2] <= max
=============================================================================
