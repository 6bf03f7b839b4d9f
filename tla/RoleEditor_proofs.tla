---------------------------- MODULE RoleEditor_proofs ----------------------------
(***************************************************************************)
(* Opening a role in the dashboard and saving it without a click writes    *)
(* the role that was opened, whatever it grants: what the page is made of  *)
(* (pages.rs) and what its form is read as (handlers.rs) undo each other.  *)
(* Whatever was clicked, the form is read as a role without empty lists,   *)
(* and a dialog that is confirmed keeps the rules it was opened with.      *)
(***************************************************************************)
EXTENDS RoleEditor, FiniteSetTheorems, WellFoundedInduction, TLAPS

-----------------------------------------------------------------------------
\* What is there can be read back.
LEMMA GetPresent ==
    ASSUME NEW options, NEW k \in DOMAIN options, Option(options[k])
    PROVE  Get(Present(options), k) = options[k]
<1>1. CASE IsSome(options[k])
  <2>1. options[k] = {The(options[k])}
    BY <1>1 DEF IsSome, The, Option
  <2>2. k \in DOMAIN Present(options) /\ Present(options)[k] = The(options[k])
    BY <1>1 DEF Present
  <2>. QED BY <2>1, <2>2 DEF Get
<1>2. CASE ~IsSome(options[k])
  BY <1>2 DEF Get, Present, IsSome
<1>. QED BY <1>1, <1>2

\* An approval that names its group comes back with it.
LEMMA ApprovalReadBack ==
    ASSUME NEW a, WellFormedApproval(a)
    PROVE  ParseApproval(ApprovalToJson(a)) = a
<1>1. CASE IsSome(a.group)
  <2>1. a.group = {The(a.group)} /\ a.required = TRUE
    BY <1>1 DEF WellFormedApproval, IsSome, The, Option
  <2>2. ParseApproval(ApprovalToJson(a)) = [required |-> TRUE, group |-> {The(a.group)}]
    BY <1>1 DEF ParseApproval, ApprovalToJson
  <2>. QED BY <2>1, <2>2 DEF WellFormedApproval
<1>2. CASE ~IsSome(a.group)
  <2>1. ParseApproval(ApprovalToJson(a)) = [required |-> a.required, group |-> {}]
    BY <1>2 DEF ParseApproval, ApprovalToJson
  <2>. QED BY <1>2, <2>1 DEF WellFormedApproval, IsSome
<1>. QED BY <1>1, <1>2

LEMMA ApprovalsReadBack ==
    ASSUME NEW option, WellFormedApprovals(option)
    PROVE  /\ Option(ApprovalJson(option))
           /\ {ParseApproval(v) : v \in ApprovalJson(option)} = option
<1>1. \A a \in option : ParseApproval(ApprovalToJson(a)) = a
  BY ApprovalReadBack DEF WellFormedApprovals
<1>. QED BY <1>1 DEF ApprovalJson, Option, WellFormedApprovals

\* A reference that is verified comes back with what it is verified by.
LEMMA ForeignKeyReadBack ==
    ASSUME NEW c, c.fk \in BOOLEAN, ~c.fk => c.verify_with = {}
    PROVE  /\ Option(ForeignKeyJson(c))
           /\ IsSome(ForeignKeyJson(c)) = c.fk
           /\ UNION ForeignKeyJson(c) = c.verify_with
<1>1. CASE c.fk
  <2>1. ForeignKeyJson(c) = {c.verify_with}
    BY <1>1 DEF ForeignKeyJson
  <2>. QED BY <1>1, <2>1 DEF Option, IsSome
<1>2. CASE ~c.fk
  <2>1. ForeignKeyJson(c) = {}
    BY <1>2 DEF ForeignKeyJson
  <2>. QED BY <1>2, <2>1 DEF Option, IsSome
<1>. QED BY <1>1, <1>2

LEMMA CreatableReadBack ==
    ASSUME NEW c, WellFormedCreatable(c)
    PROVE  ParseCreatable(CreatableToJson(c)) = c
<1>. DEFINE options == [required |-> {c.required}, default |-> c.default, restrict_to |-> c.restrict_to,
                        requires_approval |-> ApprovalJson(c.approval), foreign_key |-> ForeignKeyJson(c)]
            o == CreatableToJson(c)
<1>1. o = Present(options)
  BY DEF CreatableToJson
<1>2. /\ options["required"] = {c.required} /\ options["default"] = c.default
      /\ options["restrict_to"] = c.restrict_to
      /\ options["requires_approval"] = ApprovalJson(c.approval)
      /\ options["foreign_key"] = ForeignKeyJson(c)
      /\ DOMAIN options = {"required", "default", "restrict_to", "requires_approval", "foreign_key"}
  OBVIOUS
<1>3. /\ Option(ApprovalJson(c.approval)) /\ Option(ForeignKeyJson(c))
      /\ IsSome(ForeignKeyJson(c)) = c.fk /\ UNION ForeignKeyJson(c) = c.verify_with
      /\ {ParseApproval(v) : v \in ApprovalJson(c.approval)} = c.approval
  BY ApprovalsReadBack, ForeignKeyReadBack DEF WellFormedCreatable
<1>4. Option(c.default) /\ Option(c.restrict_to) /\ Option({c.required})
  BY DEF WellFormedCreatable, Option
<1>. HIDE DEF options
<1>5. /\ Get(o, "required") = {c.required} /\ Get(o, "default") = c.default
      /\ Get(o, "restrict_to") = c.restrict_to
      /\ Get(o, "requires_approval") = ApprovalJson(c.approval)
      /\ Get(o, "foreign_key") = ForeignKeyJson(c)
  <2>1. \A k \in DOMAIN options : Option(options[k])
    BY <1>2, <1>3, <1>4
  <2>2. \A k \in DOMAIN options : Get(o, k) = options[k]
    BY <1>1, <2>1, GetPresent
  <2>. HIDE DEF o
  <2>. QED BY <1>2, <2>2
<1>. HIDE DEF o
<1>6. ParseApprovals(o) = c.approval
  BY <1>3, <1>5 DEF ParseApprovals
<1>7. (Get(o, "required") = {TRUE}) = c.required
  BY <1>5 DEF WellFormedCreatable
<1>8. /\ IsSome(Get(o, "foreign_key")) = c.fk
      /\ UNION Get(o, "foreign_key") = c.verify_with
  BY <1>3, <1>5
<1>9. ParseCreatable(o) = [required |-> c.required, default |-> c.default, restrict_to |-> c.restrict_to,
                           approval |-> c.approval, fk |-> c.fk, verify_with |-> c.verify_with]
  BY <1>5, <1>6, <1>7, <1>8 DEF ParseCreatable
<1>. QED BY <1>9 DEF WellFormedCreatable, o

\* Conditions written as a list, as a value or as an object are read back.
LEMMA ConditionReadBack ==
    ASSUME NEW conditions, WellFormedConditions(conditions)
    PROVE  ParseCondition(ConditionToJson(conditions)) = conditions
<1>1. CASE \E c \in conditions : conditions = {c} /\ c.op = "in"
  <2>1. PICK c \in conditions : conditions = {c} /\ c.op = "in"
    BY <1>1
  <2>2. The(conditions) = c
    BY <2>1 DEF The
  <2>3. ParseCondition(ConditionToJson(conditions)) = {[op |-> "in", values |-> c.values]}
    BY <1>1, <2>2 DEF ConditionToJson, ParseCondition
  <2>. QED BY <2>1, <2>3 DEF WellFormedConditions
<1>2. CASE /\ ~\E c \in conditions : conditions = {c} /\ c.op = "in"
           /\ \E c \in conditions : conditions = {c} /\ c.op = "equals"
  <2>1. PICK c \in conditions : conditions = {c} /\ c.op = "equals"
    BY <1>2
  <2>2. The(conditions) = c
    BY <2>1 DEF The
  <2>3. ConditionToJson(conditions) = <<"scalar", c.value>>
    BY <1>2, <2>2 DEF ConditionToJson
  <2>4. ParseCondition(ConditionToJson(conditions)) = {[op |-> "equals", value |-> c.value]}
    BY <2>3 DEF ParseCondition
  <2>. QED BY <2>1, <2>4 DEF WellFormedConditions
<1>3. CASE /\ ~\E c \in conditions : conditions = {c} /\ c.op = "in"
           /\ ~\E c \in conditions : conditions = {c} /\ c.op = "equals"
  <2>1. ConditionToJson(conditions) = <<"object", conditions>>
    BY <1>3 DEF ConditionToJson
  <2>. QED BY <2>1 DEF ParseCondition
<1>. QED BY <1>1, <1>2, <1>3

LEMMA SetReadBack ==
    ASSUME NEW set, WellFormedSet(set)
    PROVE  ParseConditionSet(SetToJson(set)) = set
<1>1. DOMAIN SetToJson(set) = DOMAIN set
  BY DEF SetToJson
<1>2. \A key \in DOMAIN set : SetToJson(set)[key] = ConditionToJson(set[key])
  BY DEF SetToJson
<1>3. \A key \in DOMAIN set : ParseCondition(SetToJson(set)[key]) = set[key]
  BY <1>2, ConditionReadBack DEF WellFormedSet
<1>4. ParseConditionSet(SetToJson(set)) = [key \in DOMAIN set |-> set[key]]
  BY <1>1, <1>3 DEF ParseConditionSet
<1>. QED BY <1>4 DEF WellFormedSet

LEMMA SetsReadBack ==
    ASSUME NEW sets, WellFormedSets(sets)
    PROVE  ParseOnlyWhen(OnlyWhenToJson(sets)) = sets
<1>1. DOMAIN OnlyWhenToJson(sets) = DOMAIN sets
  BY DEF OnlyWhenToJson
<1>2. \A i \in DOMAIN sets : OnlyWhenToJson(sets)[i] = SetToJson(sets[i])
  BY DEF OnlyWhenToJson
<1>3. \A i \in DOMAIN sets : ParseConditionSet(OnlyWhenToJson(sets)[i]) = sets[i]
  BY <1>2, SetReadBack DEF WellFormedSets
<1>4. ParseOnlyWhen(OnlyWhenToJson(sets)) = [i \in DOMAIN sets |-> sets[i]]
  BY <1>1, <1>3 DEF ParseOnlyWhen
<1>. QED BY <1>4 DEF WellFormedSets

LEMMA UpdatableReadBack ==
    ASSUME NEW c, WellFormedUpdatable(c)
    PROVE  ParseUpdatable(UpdatableToJson(c)) = c
<1>. DEFINE written == {OnlyWhenToJson(sets) : sets \in c.only_when}
            options == [only_when |-> written, requires_approval |-> ApprovalJson(c.approval),
                        foreign_key |-> ForeignKeyJson(c)]
            o == UpdatableToJson(c)
<1>1. o = Present(options)
  BY DEF UpdatableToJson
<1>. HIDE DEF written
<1>2. /\ options["only_when"] = written
      /\ options["requires_approval"] = ApprovalJson(c.approval)
      /\ options["foreign_key"] = ForeignKeyJson(c)
      /\ DOMAIN options = {"only_when", "requires_approval", "foreign_key"}
  OBVIOUS
<1>3. /\ Option(ApprovalJson(c.approval)) /\ Option(ForeignKeyJson(c))
      /\ IsSome(ForeignKeyJson(c)) = c.fk /\ UNION ForeignKeyJson(c) = c.verify_with
      /\ {ParseApproval(v) : v \in ApprovalJson(c.approval)} = c.approval
  BY ApprovalsReadBack, ForeignKeyReadBack DEF WellFormedUpdatable
<1>4. Option(written) /\ {ParseOnlyWhen(sets) : sets \in written} = c.only_when
  <2>1. \A sets \in c.only_when : ParseOnlyWhen(OnlyWhenToJson(sets)) = sets
    BY SetsReadBack DEF WellFormedUpdatable
  <2>. QED BY <2>1 DEF written, Option, WellFormedUpdatable
<1>. HIDE DEF options
<1>5. /\ Get(o, "only_when") = written
      /\ Get(o, "requires_approval") = ApprovalJson(c.approval)
      /\ Get(o, "foreign_key") = ForeignKeyJson(c)
  <2>1. \A k \in DOMAIN options : Option(options[k])
    BY <1>2, <1>3, <1>4
  <2>2. \A k \in DOMAIN options : Get(o, k) = options[k]
    BY <1>1, <2>1, GetPresent
  <2>. HIDE DEF o
  <2>. QED BY <1>2, <2>2
<1>. HIDE DEF o
<1>6. ParseApprovals(o) = c.approval
  BY <1>3, <1>5 DEF ParseApprovals
<1>7. /\ IsSome(Get(o, "foreign_key")) = c.fk
      /\ UNION Get(o, "foreign_key") = c.verify_with
  BY <1>3, <1>5
<1>8. ParseUpdatable(o) = [only_when |-> c.only_when, approval |-> c.approval, fk |-> c.fk,
                           verify_with |-> c.verify_with]
  BY <1>4, <1>5, <1>6, <1>7 DEF ParseUpdatable
<1>. QED BY <1>8 DEF WellFormedUpdatable, o

\* A deletable table comes back with its options, another one without.
LEMMA DeletableReadBack ==
    ASSUME NEW d, WellFormedDeletable(d)
    PROVE  ParseDeletable(DeletableToJson(d)) = d
<1>. DEFINE options == [requires_approval |-> ApprovalJson(d.approval),
                        soft_delete |-> IF d.soft_delete THEN {TRUE} ELSE {},
                        verify_with |-> IF d.verify_with # {} THEN {d.verify_with} ELSE {}]
            o == Present(options)
<1>1. CASE d.allowed
  <2>1. DeletableToJson(d) = {o}
    BY <1>1 DEF DeletableToJson
  <2>2. /\ options["requires_approval"] = ApprovalJson(d.approval)
        /\ options["soft_delete"] = IF d.soft_delete THEN {TRUE} ELSE {}
        /\ options["verify_with"] = IF d.verify_with # {} THEN {d.verify_with} ELSE {}
        /\ DOMAIN options = {"requires_approval", "soft_delete", "verify_with"}
    OBVIOUS
  <2>3. /\ Option(ApprovalJson(d.approval))
        /\ {ParseApproval(v) : v \in ApprovalJson(d.approval)} = d.approval
    BY ApprovalsReadBack DEF WellFormedDeletable
  <2>. HIDE DEF options
  <2>4. \A k \in DOMAIN options : Option(options[k])
    <3>1. Option(options["requires_approval"])
      BY <2>2, <2>3
    <3>2. Option(options["soft_delete"])
      BY <2>2 DEF Option
    <3>3. Option(options["verify_with"])
      BY <2>2 DEF Option
    <3>. QED BY <2>2, <3>1, <3>2, <3>3
  <2>5. \A k \in DOMAIN options : Get(o, k) = options[k]
    BY <2>4, GetPresent
  <2>. HIDE DEF o
  <2>6. The(DeletableToJson(d)) = o /\ IsSome(DeletableToJson(d))
    BY <2>1 DEF The, IsSome
  <2>7. ParseApprovals(o) = d.approval
    BY <2>2, <2>3, <2>5 DEF ParseApprovals
  <2>8. (Get(o, "soft_delete") = {TRUE}) = d.soft_delete
    <3>1. Get(o, "soft_delete") = IF d.soft_delete THEN {TRUE} ELSE {}
      BY <2>2, <2>5
    <3>. QED BY <3>1 DEF WellFormedDeletable
  <2>9. UNION Get(o, "verify_with") = d.verify_with
    <3>1. Get(o, "verify_with") = IF d.verify_with # {} THEN {d.verify_with} ELSE {}
      BY <2>2, <2>5
    <3>. QED BY <3>1
  <2>10. ParseDeletable(DeletableToJson(d)) =
           [allowed |-> d.allowed, approval |-> d.approval, soft_delete |-> d.soft_delete,
            verify_with |-> d.verify_with]
    <3>1. d.allowed = TRUE
      BY <1>1 DEF WellFormedDeletable
    <3>2. ParseDeletable(DeletableToJson(d)) =
            [allowed |-> TRUE, approval |-> ParseApprovals(o),
             soft_delete |-> Get(o, "soft_delete") = {TRUE}, verify_with |-> UNION Get(o, "verify_with")]
      BY <2>6 DEF ParseDeletable
    <3>. QED BY <2>7, <2>8, <2>9, <3>1, <3>2
  <2>. QED BY <2>10 DEF WellFormedDeletable
<1>2. CASE ~d.allowed
  <2>1. DeletableToJson(d) = {}
    BY <1>2 DEF DeletableToJson
  <2>. QED BY <1>2, <2>1 DEF ParseDeletable, IsSome, WellFormedDeletable
<1>. QED BY <1>1, <1>2

\* A map that grants nothing is no map at all.
LEMMA EmptyMap ==
    ASSUME NEW columns, WellFormedMap(columns), MapIsEmpty(columns)
    PROVE  columns = NoMap
<1>1. columns.all = FALSE /\ DOMAIN columns.map = {}
  BY DEF WellFormedMap, MapIsEmpty
<1>2. columns.map = NoKeys
  BY <1>1 DEF WellFormedMap, NoKeys
<1>. QED BY <1>1, <1>2 DEF WellFormedMap, NoMap

LEMMA CreatablesReadBack ==
    ASSUME NEW columns, WellFormedMap(columns),
           \A c \in DOMAIN columns.map : WellFormedCreatable(columns.map[c])
    PROVE  ParseCreatables(CreatablesToJson(columns)) = columns
<1>1. CASE MapIsEmpty(columns)
  <2>1. CreatablesToJson(columns) = {}
    BY <1>1 DEF CreatablesToJson, MapToJson
  <2>2. ParseCreatables(CreatablesToJson(columns)) = NoMap
    BY <2>1 DEF ParseCreatables, IsSome
  <2>. QED BY <1>1, <2>2, EmptyMap
<1>2. CASE ~MapIsEmpty(columns)
  <2>. DEFINE map == [c \in DOMAIN columns.map |-> CreatableToJson(columns.map[c])]
              json == CreatablesToJson(columns)
  <2>1. json = {[all |-> columns.all, map |-> map]}
    BY <1>2 DEF CreatablesToJson, MapToJson
  <2>2. /\ DOMAIN map = DOMAIN columns.map
        /\ \A c \in DOMAIN columns.map : map[c] = CreatableToJson(columns.map[c])
    OBVIOUS
  <2>3. \A c \in DOMAIN columns.map : ParseCreatable(map[c]) = columns.map[c]
    BY <2>2, CreatableReadBack
  <2>. HIDE DEF map, json
  <2>4. IsSome(json) /\ (The(json)).all = columns.all /\ (The(json)).map = map
    <3>1. The(json) = [all |-> columns.all, map |-> map]
      BY <2>1 DEF The
    <3>. QED BY <2>1, <3>1 DEF IsSome
  <2>5. ParseCreatables(json) =
          [all |-> columns.all, map |-> [c \in DOMAIN map |-> ParseCreatable(map[c])]]
    BY <2>4 DEF ParseCreatables
  <2>6. [c \in DOMAIN map |-> ParseCreatable(map[c])] = [c \in DOMAIN columns.map |-> columns.map[c]]
    BY <2>2, <2>3
  <2>. QED BY <2>5, <2>6 DEF WellFormedMap, json
<1>. QED BY <1>1, <1>2

LEMMA UpdatablesReadBack ==
    ASSUME NEW columns, WellFormedMap(columns),
           \A c \in DOMAIN columns.map : WellFormedUpdatable(columns.map[c])
    PROVE  ParseUpdatables(UpdatablesToJson(columns)) = columns
<1>1. CASE MapIsEmpty(columns)
  <2>1. UpdatablesToJson(columns) = {}
    BY <1>1 DEF UpdatablesToJson, MapToJson
  <2>2. ParseUpdatables(UpdatablesToJson(columns)) = NoMap
    BY <2>1 DEF ParseUpdatables, IsSome
  <2>. QED BY <1>1, <2>2, EmptyMap
<1>2. CASE ~MapIsEmpty(columns)
  <2>. DEFINE map == [c \in DOMAIN columns.map |-> UpdatableToJson(columns.map[c])]
              json == UpdatablesToJson(columns)
  <2>1. json = {[all |-> columns.all, map |-> map]}
    BY <1>2 DEF UpdatablesToJson, MapToJson
  <2>2. /\ DOMAIN map = DOMAIN columns.map
        /\ \A c \in DOMAIN columns.map : map[c] = UpdatableToJson(columns.map[c])
    OBVIOUS
  <2>3. \A c \in DOMAIN columns.map : ParseUpdatable(map[c]) = columns.map[c]
    BY <2>2, UpdatableReadBack
  <2>. HIDE DEF map, json
  <2>4. IsSome(json) /\ (The(json)).all = columns.all /\ (The(json)).map = map
    <3>1. The(json) = [all |-> columns.all, map |-> map]
      BY <2>1 DEF The
    <3>. QED BY <2>1, <3>1 DEF IsSome
  <2>5. ParseUpdatables(json) =
          [all |-> columns.all, map |-> [c \in DOMAIN map |-> ParseUpdatable(map[c])]]
    BY <2>4 DEF ParseUpdatables
  <2>6. [c \in DOMAIN map |-> ParseUpdatable(map[c])] = [c \in DOMAIN columns.map |-> columns.map[c]]
    BY <2>2, <2>3
  <2>. QED BY <2>5, <2>6 DEF WellFormedMap, json
<1>. QED BY <1>1, <1>2

LEMMA TableReadBack ==
    ASSUME NEW perms, WellFormedTable(perms)
    PROVE  ParseTable(TableToJson(perms)) = perms
<1>. DEFINE json == TableToJson(perms)
<1>1. /\ json.readable = {perms.readable}
      /\ json.creatable = CreatablesToJson(perms.creatable)
      /\ json.updatable = UpdatablesToJson(perms.updatable)
      /\ json.deletable = DeletableToJson(perms.deletable)
  BY DEF TableToJson
<1>. HIDE DEF json
<1>2. ParseCreatables(json.creatable) = perms.creatable
  <2>1. ParseCreatables(CreatablesToJson(perms.creatable)) = perms.creatable
    BY CreatablesReadBack DEF WellFormedTable
  <2>. QED BY <1>1, <2>1
<1>3. ParseUpdatables(json.updatable) = perms.updatable
  <2>1. ParseUpdatables(UpdatablesToJson(perms.updatable)) = perms.updatable
    BY UpdatablesReadBack DEF WellFormedTable
  <2>. QED BY <1>1, <2>1
<1>4. ParseDeletable(json.deletable) = perms.deletable
  BY <1>1, DeletableReadBack DEF WellFormedTable
<1>5. IsSome(json.readable) /\ The(json.readable) = perms.readable
  BY <1>1 DEF IsSome, The
<1>6. ParseTable(json) = [readable |-> perms.readable, creatable |-> perms.creatable,
                          updatable |-> perms.updatable, deletable |-> perms.deletable]
  BY <1>2, <1>3, <1>4, <1>5 DEF ParseTable
<1>. QED BY <1>6 DEF WellFormedTable, json

-----------------------------------------------------------------------------
(***************************************************************************)
(* What the page makes of a role (role_tables_to_json, pages.rs) and what  *)
(* the form is read as (role_save, handlers.rs) are inverse: opening a     *)
(* role and saving it unedited keeps every permission, constraint,         *)
(* condition, approval group and verification column it has.               *)
(***************************************************************************)
THEOREM OpeningChangesNothing ==
    ASSUME NEW tables, RoleTables(tables)
    PROVE  FormToTables(RoleTablesToJson(tables)) = tables
<1>. DEFINE json == RoleTablesToJson(tables)
<1>1. DOMAIN json = DOMAIN tables /\ \A t \in DOMAIN tables : json[t] = TableToJson(tables[t])
  BY DEF RoleTablesToJson
<1>2. \A t \in DOMAIN tables : ParseTable(json[t]) = tables[t]
  BY <1>1, TableReadBack DEF RoleTables
<1>. HIDE DEF json
<1>3. FormToTables(json) = [t \in DOMAIN tables |-> tables[t]]
  BY <1>1, <1>2 DEF FormToTables
<1>. QED BY <1>3 DEF RoleTables, json

-----------------------------------------------------------------------------
(* What the page holds, of a role and after any clicks                     *)

PageApprovals(object) == \A v \in Get(object, "requires_approval") : v[1] = "bool" => v[2] \in BOOLEAN

PageCondition(json) ==
    \/ json[1] = "array" /\ json[2] # {}
    \/ json[1] = "scalar"
    \/ /\ json[1] = "object" /\ WellFormedConditions(json[2]) /\ CarefulConditions(json[2])
       /\ \E c \in json[2] : c.op \in RecognisedOps

PageSet(set) == DOMAIN set # {} /\ \A key \in DOMAIN set : PageCondition(set[key])
PageRules(sets) ==
    /\ Len(sets) > 0 /\ DOMAIN sets = 1 .. Len(sets)
    /\ \A i \in DOMAIN sets : PageSet(sets[i])

PageCreatable(object) == PageApprovals(object) /\ {} \notin Get(object, "restrict_to")
PageUpdatable(object) == PageApprovals(object) /\ \A sets \in Get(object, "only_when") : PageRules(sets)
PageCreatables(json) ==
    Option(json) /\ \A v \in json : WellFormedMap(v) /\ \A c \in DOMAIN v.map : PageCreatable(v.map[c])
PageUpdatables(json) ==
    Option(json) /\ \A v \in json : WellFormedMap(v) /\ \A c \in DOMAIN v.map : PageUpdatable(v.map[c])
PageDeletable(json) == Option(json) /\ \A d \in json : PageApprovals(d)

PageTable(json) ==
    /\ json = [readable |-> json.readable, creatable |-> json.creatable,
               updatable |-> json.updatable, deletable |-> json.deletable]
    /\ PageCreatables(json.creatable) /\ PageUpdatables(json.updatable) /\ PageDeletable(json.deletable)

PageTables(tables) ==
    tables = [t \in DOMAIN tables |-> tables[t]] /\ \A t \in DOMAIN tables : PageTable(tables[t])

\* A key that is there has its value, a key that is not has none.
LEMMA GetOption == ASSUME NEW object, NEW key PROVE Option(Get(object, key))
  BY DEF Get, Option

-----------------------------------------------------------------------------
(* What the form is read as is a role without empty lists                  *)

LEMMA ApprovalsParsed ==
    ASSUME NEW object, PageApprovals(object)
    PROVE  WellFormedApprovals(ParseApprovals(object))
<1>1. Option(ParseApprovals(object))
  BY DEF ParseApprovals, Get, Option
<1>2. ASSUME NEW v \in Get(object, "requires_approval") PROVE WellFormedApproval(ParseApproval(v))
  <2>1. CASE v[1] = "bool"
    <3>1. ParseApproval(v) = [required |-> v[2], group |-> {}] /\ v[2] \in BOOLEAN
      BY <1>2, <2>1 DEF ParseApproval, PageApprovals
    <3>. QED BY <3>1 DEF WellFormedApproval, Option, IsSome
  <2>2. CASE v[1] # "bool"
    <3>1. ParseApproval(v) = [required |-> TRUE, group |-> {v[2]}]
      BY <2>2 DEF ParseApproval
    <3>. QED BY <3>1 DEF WellFormedApproval, Option, IsSome
  <2>. QED BY <2>1, <2>2
<1>. QED BY <1>1, <1>2 DEF WellFormedApprovals, ParseApprovals

LEMMA CreatableParsed ==
    ASSUME NEW object, PageCreatable(object)
    PROVE  /\ WellFormedCreatable(ParseCreatable(object))
           /\ {} \notin ParseCreatable(object).restrict_to
<1>1. WellFormedApprovals(ParseApprovals(object))
  BY ApprovalsParsed DEF PageCreatable
<1>2. /\ Option(Get(object, "default")) /\ Option(Get(object, "restrict_to"))
  BY GetOption
<1>3. ~IsSome(Get(object, "foreign_key")) => UNION Get(object, "foreign_key") = {}
  BY DEF IsSome
<1>4. (Get(object, "required") = {TRUE}) \in BOOLEAN /\ IsSome(Get(object, "foreign_key")) \in BOOLEAN
  BY DEF IsSome
<1>. DEFINE required == Get(object, "required") = {TRUE}
            fk == IsSome(Get(object, "foreign_key"))
            verify_with == UNION Get(object, "foreign_key")
<1>5. ParseCreatable(object) =
        [required |-> required, default |-> Get(object, "default"),
         restrict_to |-> Get(object, "restrict_to"), approval |-> ParseApprovals(object),
         fk |-> fk, verify_with |-> verify_with]
  BY DEF ParseCreatable
<1>6. required \in BOOLEAN /\ fk \in BOOLEAN /\ (~fk => verify_with = {})
  BY <1>3, <1>4
<1>. HIDE DEF required, fk, verify_with
<1>. QED BY <1>1, <1>2, <1>5, <1>6 DEF WellFormedCreatable, PageCreatable

LEMMA ConditionParsed ==
    ASSUME NEW json, PageCondition(json)
    PROVE  WellFormedConditions(ParseCondition(json)) /\ CarefulConditions(ParseCondition(json))
<1>1. CASE json[1] = "array" /\ json[2] # {}
  <2>1. PICK c : c = [op |-> "in", values |-> json[2]]
    OBVIOUS
  <2>2. ParseCondition(json) = {c}
    BY <1>1, <2>1 DEF ParseCondition
  <2>. QED BY <1>1, <2>1, <2>2 DEF WellFormedConditions, CarefulConditions
<1>2. CASE json[1] = "scalar"
  <2>1. PICK c : c = [op |-> "equals", value |-> json[2]]
    OBVIOUS
  <2>2. ParseCondition(json) = {c}
    BY <1>2, <2>1 DEF ParseCondition
  <2>3. c.op \in RecognisedOps
    <3>1. 10 \in DOMAIN Recognised /\ Recognised[10] = "equals"
      BY DEF Recognised, Ordered
    <3>. QED BY <2>1, <3>1 DEF RecognisedOps
  <2>. QED BY <2>1, <2>2, <2>3 DEF WellFormedConditions, CarefulConditions
<1>3. CASE json[1] = "object"
  BY <1>3 DEF PageCondition, ParseCondition
<1>. QED BY <1>1, <1>2, <1>3 DEF PageCondition

LEMMA RulesParsed ==
    ASSUME NEW sets, PageRules(sets)
    PROVE  WellFormedSets(ParseOnlyWhen(sets)) /\ CarefulSets(ParseOnlyWhen(sets))
<1>. DEFINE parsed == ParseOnlyWhen(sets)
<1>1. /\ parsed = [i \in DOMAIN parsed |-> parsed[i]] /\ DOMAIN parsed = DOMAIN sets
      /\ \A i \in DOMAIN sets : parsed[i] = ParseConditionSet(sets[i])
  BY DEF ParseOnlyWhen
<1>. HIDE DEF parsed
<1>2. ASSUME NEW i \in DOMAIN sets
      PROVE  /\ WellFormedSet(parsed[i]) /\ DOMAIN parsed[i] # {}
             /\ \A key \in DOMAIN parsed[i] : CarefulConditions(parsed[i][key])
  <2>1. PageSet(sets[i])
    BY DEF PageRules
  <2>2. /\ DOMAIN parsed[i] = DOMAIN sets[i]
        /\ \A key \in DOMAIN sets[i] : parsed[i][key] = ParseCondition(sets[i][key])
        /\ parsed[i] = [key \in DOMAIN parsed[i] |-> parsed[i][key]]
    BY <1>1 DEF ParseConditionSet
  <2>3. \A key \in DOMAIN sets[i] :
            WellFormedConditions(parsed[i][key]) /\ CarefulConditions(parsed[i][key])
    BY <2>1, <2>2, ConditionParsed DEF PageSet
  <2>. QED BY <2>1, <2>2, <2>3 DEF WellFormedSet, PageSet
<1>3. Len(parsed) = Len(sets)
  BY <1>1 DEF PageRules
<1>. QED BY <1>1, <1>2, <1>3 DEF WellFormedSets, CarefulSets, PageRules, parsed

LEMMA UpdatableParsed ==
    ASSUME NEW object, PageUpdatable(object)
    PROVE  /\ WellFormedUpdatable(ParseUpdatable(object))
           /\ \A sets \in ParseUpdatable(object).only_when : CarefulSets(sets)
<1>. DEFINE fk == IsSome(Get(object, "foreign_key"))
            verify_with == UNION Get(object, "foreign_key")
            only_when == {ParseOnlyWhen(sets) : sets \in Get(object, "only_when")}
<1>1. WellFormedApprovals(ParseApprovals(object))
  BY ApprovalsParsed DEF PageUpdatable
<1>2. Option(only_when)
  BY DEF Get, Option
<1>3. \A sets \in only_when : WellFormedSets(sets) /\ CarefulSets(sets)
  BY RulesParsed DEF PageUpdatable
<1>4. fk \in BOOLEAN /\ (~fk => verify_with = {})
  BY DEF IsSome
<1>5. ParseUpdatable(object) = [only_when |-> only_when, approval |-> ParseApprovals(object),
                                fk |-> fk, verify_with |-> verify_with]
  BY DEF ParseUpdatable
<1>. HIDE DEF fk, verify_with, only_when
<1>. QED BY <1>1, <1>2, <1>3, <1>4, <1>5 DEF WellFormedUpdatable

LEMMA CreatablesParsed ==
    ASSUME NEW json, PageCreatables(json)
    PROVE  /\ WellFormedMap(ParseCreatables(json))
           /\ \A c \in DOMAIN ParseCreatables(json).map :
                 /\ WellFormedCreatable(ParseCreatables(json).map[c])
                 /\ {} \notin ParseCreatables(json).map[c].restrict_to
<1>1. CASE IsSome(json)
  <2>. DEFINE v == The(json)
              map == [c \in DOMAIN v.map |-> ParseCreatable(v.map[c])]
  <2>1. v \in json
    BY <1>1 DEF IsSome, The
  <2>2. v.all \in BOOLEAN /\ \A c \in DOMAIN v.map : PageCreatable(v.map[c])
    BY <2>1 DEF PageCreatables, WellFormedMap
  <2>3. ParseCreatables(json) = [all |-> v.all, map |-> map]
    BY <1>1 DEF ParseCreatables
  <2>. HIDE DEF v
  <2>4. \A c \in DOMAIN map : WellFormedCreatable(map[c]) /\ {} \notin map[c].restrict_to
    BY <2>2, CreatableParsed
  <2>5. map = [c \in DOMAIN map |-> map[c]]
    OBVIOUS
  <2>. HIDE DEF map
  <2>. QED BY <2>2, <2>3, <2>4, <2>5 DEF WellFormedMap
<1>2. CASE ~IsSome(json)
  <2>1. ParseCreatables(json) = NoMap
    BY <1>2 DEF ParseCreatables
  <2>. QED BY <2>1 DEF NoMap, NoKeys, WellFormedMap
<1>. QED BY <1>1, <1>2

LEMMA UpdatablesParsed ==
    ASSUME NEW json, PageUpdatables(json)
    PROVE  /\ WellFormedMap(ParseUpdatables(json))
           /\ \A c \in DOMAIN ParseUpdatables(json).map :
                 /\ WellFormedUpdatable(ParseUpdatables(json).map[c])
                 /\ \A sets \in ParseUpdatables(json).map[c].only_when : CarefulSets(sets)
<1>1. CASE IsSome(json)
  <2>. DEFINE v == The(json)
              map == [c \in DOMAIN v.map |-> ParseUpdatable(v.map[c])]
  <2>1. v \in json
    BY <1>1 DEF IsSome, The
  <2>2. v.all \in BOOLEAN /\ \A c \in DOMAIN v.map : PageUpdatable(v.map[c])
    BY <2>1 DEF PageUpdatables, WellFormedMap
  <2>3. ParseUpdatables(json) = [all |-> v.all, map |-> map]
    BY <1>1 DEF ParseUpdatables
  <2>. HIDE DEF v
  <2>4. \A c \in DOMAIN map :
            WellFormedUpdatable(map[c]) /\ \A sets \in map[c].only_when : CarefulSets(sets)
    BY <2>2, UpdatableParsed
  <2>5. map = [c \in DOMAIN map |-> map[c]]
    OBVIOUS
  <2>. HIDE DEF map
  <2>. QED BY <2>2, <2>3, <2>4, <2>5 DEF WellFormedMap
<1>2. CASE ~IsSome(json)
  <2>1. ParseUpdatables(json) = NoMap
    BY <1>2 DEF ParseUpdatables
  <2>. QED BY <2>1 DEF NoMap, NoKeys, WellFormedMap
<1>. QED BY <1>1, <1>2

LEMMA DeletableParsed ==
    ASSUME NEW json, PageDeletable(json)
    PROVE  WellFormedDeletable(ParseDeletable(json))
<1>1. CASE IsSome(json)
  <2>. DEFINE d == The(json)
              soft == Get(d, "soft_delete") = {TRUE}
              verify_with == UNION Get(d, "verify_with")
  <2>1. d \in json
    BY <1>1 DEF IsSome, The
  <2>2. WellFormedApprovals(ParseApprovals(d))
    BY <2>1, ApprovalsParsed DEF PageDeletable
  <2>3. ParseDeletable(json) = [allowed |-> TRUE, approval |-> ParseApprovals(d),
                                soft_delete |-> soft, verify_with |-> verify_with]
    BY <1>1 DEF ParseDeletable
  <2>4. soft \in BOOLEAN
    OBVIOUS
  <2>. HIDE DEF soft, verify_with, d
  <2>. QED BY <2>2, <2>3, <2>4 DEF WellFormedDeletable
<1>2. CASE ~IsSome(json)
  <2>1. ParseDeletable(json) = NoDelete
    BY <1>2 DEF ParseDeletable
  <2>. QED BY <2>1 DEF NoDelete, WellFormedDeletable, WellFormedApprovals, Option
<1>. QED BY <1>1, <1>2

\* Whatever was clicked, the form is read as a role without empty lists.
THEOREM TablesParsed ==
    ASSUME NEW tables, PageTables(tables)
    PROVE  CarefulRole(FormToTables(tables))
<1>1. ASSUME NEW t \in DOMAIN tables
      PROVE  WellFormedTable(ParseTable(tables[t])) /\ CarefulTable(ParseTable(tables[t]))
  <2>1. /\ PageCreatables(tables[t].creatable) /\ PageUpdatables(tables[t].updatable)
        /\ PageDeletable(tables[t].deletable)
    BY DEF PageTables, PageTable
  <2>2. WellFormedDeletable(ParseDeletable(tables[t].deletable))
    BY <2>1, DeletableParsed
  <2>. DEFINE perms == ParseTable(tables[t])
              readable == IF IsSome(tables[t].readable) THEN The(tables[t].readable) ELSE NoRead
  <2>3. perms = [readable |-> readable, creatable |-> ParseCreatables(tables[t].creatable),
                 updatable |-> ParseUpdatables(tables[t].updatable),
                 deletable |-> ParseDeletable(tables[t].deletable)]
    BY DEF ParseTable
  <2>. HIDE DEF readable, perms
  <2>4. WellFormedTable(perms)
    BY <2>1, <2>2, <2>3, CreatablesParsed, UpdatablesParsed DEF WellFormedTable
  <2>5. CarefulTable(perms)
    BY <2>1, <2>3, CreatablesParsed, UpdatablesParsed DEF CarefulTable
  <2>. QED BY <2>4, <2>5 DEF perms
<1>2. /\ DOMAIN FormToTables(tables) = DOMAIN tables
      /\ \A t \in DOMAIN tables : FormToTables(tables)[t] = ParseTable(tables[t])
      /\ FormToTables(tables) = [t \in DOMAIN FormToTables(tables) |-> FormToTables(tables)[t]]
  BY DEF FormToTables
<1>. QED BY <1>1, <1>2 DEF CarefulRole, RoleTables

-----------------------------------------------------------------------------
(* What a role becomes on the page                                         *)

LEMMA ApprovalsShown ==
    ASSUME NEW approval, WellFormedApprovals(approval), NEW object,
           Get(object, "requires_approval") = ApprovalJson(approval)
    PROVE  PageApprovals(object)
<1>1. ASSUME NEW a \in approval PROVE ApprovalToJson(a)[1] = "bool" => ApprovalToJson(a)[2] \in BOOLEAN
  <2>1. CASE IsSome(a.group)
    BY <2>1 DEF ApprovalToJson
  <2>2. CASE ~IsSome(a.group)
    <3>1. ApprovalToJson(a) = <<"bool", a.required>>
      BY <2>2 DEF ApprovalToJson
    <3>. QED BY <3>1 DEF WellFormedApprovals, WellFormedApproval
  <2>. QED BY <2>1, <2>2
<1>. QED BY <1>1 DEF PageApprovals, ApprovalJson

LEMMA CreatableShown ==
    ASSUME NEW c, WellFormedCreatable(c), {} \notin c.restrict_to
    PROVE  PageCreatable(CreatableToJson(c))
<1>. DEFINE options == [required |-> {c.required}, default |-> c.default, restrict_to |-> c.restrict_to,
                        requires_approval |-> ApprovalJson(c.approval), foreign_key |-> ForeignKeyJson(c)]
            o == CreatableToJson(c)
<1>1. o = Present(options)
  BY DEF CreatableToJson
<1>2. /\ options["restrict_to"] = c.restrict_to
      /\ options["requires_approval"] = ApprovalJson(c.approval)
      /\ "restrict_to" \in DOMAIN options /\ "requires_approval" \in DOMAIN options
  OBVIOUS
<1>. HIDE DEF options
<1>3. Option(c.restrict_to) /\ Option(ApprovalJson(c.approval)) /\ WellFormedApprovals(c.approval)
  BY ApprovalsReadBack DEF WellFormedCreatable
<1>4. Get(o, "restrict_to") = c.restrict_to
  BY <1>1, <1>2, <1>3, GetPresent
<1>5. Get(o, "requires_approval") = ApprovalJson(c.approval)
  BY <1>1, <1>2, <1>3, GetPresent
<1>. HIDE DEF o
<1>6. PageApprovals(o)
  BY <1>3, <1>5, ApprovalsShown
<1>7. PageCreatable(o)
  BY <1>4, <1>6 DEF PageCreatable
<1>. QED BY <1>7 DEF o

LEMMA ConditionShown ==
    ASSUME NEW conditions, WellFormedConditions(conditions), CarefulConditions(conditions)
    PROVE  PageCondition(ConditionToJson(conditions))
<1>1. CASE \E c \in conditions : conditions = {c} /\ c.op = "in"
  <2>1. PICK c \in conditions : conditions = {c} /\ c.op = "in"
    BY <1>1
  <2>2. The(conditions) = c
    BY <2>1 DEF The
  <2>3. ConditionToJson(conditions) = <<"array", c.values>>
    BY <1>1, <2>2 DEF ConditionToJson
  <2>4. c.values # {}
    BY <2>1 DEF CarefulConditions
  <2>. QED BY <2>3, <2>4 DEF PageCondition
<1>2. CASE /\ ~\E c \in conditions : conditions = {c} /\ c.op = "in"
           /\ \E c \in conditions : conditions = {c} /\ c.op = "equals"
  <2>1. ConditionToJson(conditions) = <<"scalar", (The(conditions)).value>>
    BY <1>2 DEF ConditionToJson
  <2>. QED BY <2>1 DEF PageCondition
<1>3. CASE /\ ~\E c \in conditions : conditions = {c} /\ c.op = "in"
           /\ ~\E c \in conditions : conditions = {c} /\ c.op = "equals"
  <2>1. ConditionToJson(conditions) = <<"object", conditions>>
    BY <1>3 DEF ConditionToJson
  <2>2. \E c \in conditions : c.op \in RecognisedOps
    BY <1>3 DEF CarefulConditions
  <2>. QED BY <2>1, <2>2 DEF PageCondition
<1>. QED BY <1>1, <1>2, <1>3

LEMMA RulesShown ==
    ASSUME NEW sets, WellFormedSets(sets), CarefulSets(sets)
    PROVE  PageRules(OnlyWhenToJson(sets))
<1>. DEFINE json == OnlyWhenToJson(sets)
<1>1. DOMAIN json = DOMAIN sets /\ \A i \in DOMAIN sets : json[i] = SetToJson(sets[i])
  BY DEF OnlyWhenToJson
<1>. HIDE DEF json
<1>2. ASSUME NEW i \in DOMAIN sets PROVE PageSet(json[i])
  <2>1. /\ DOMAIN json[i] = DOMAIN sets[i]
        /\ \A key \in DOMAIN sets[i] : json[i][key] = ConditionToJson(sets[i][key])
    BY <1>1 DEF SetToJson
  <2>2. \A key \in DOMAIN sets[i] :
            WellFormedConditions(sets[i][key]) /\ CarefulConditions(sets[i][key])
    BY DEF WellFormedSets, WellFormedSet, CarefulSets
  <2>3. DOMAIN sets[i] # {}
    BY DEF CarefulSets
  <2>. QED BY <2>1, <2>2, <2>3, ConditionShown DEF PageSet
<1>3. json = [i \in 1 .. Len(sets) |-> json[i]] /\ Len(sets) \in Nat
  <2>1. json = [i \in DOMAIN sets |-> json[i]]
    BY DEF OnlyWhenToJson, json
  <2>2. Len(sets) \in Nat
    BY DEF CarefulSets
  <2>. QED BY <2>1, <2>2 DEF CarefulSets
<1>4. Len(json) = Len(sets)
  BY <1>3
<1>5. PageRules(json)
  BY <1>1, <1>2, <1>4 DEF PageRules, CarefulSets
<1>. QED BY <1>5 DEF json

LEMMA UpdatableShown ==
    ASSUME NEW c, WellFormedUpdatable(c), \A sets \in c.only_when : CarefulSets(sets)
    PROVE  PageUpdatable(UpdatableToJson(c))
<1>. DEFINE written == {OnlyWhenToJson(sets) : sets \in c.only_when}
            options == [only_when |-> written, requires_approval |-> ApprovalJson(c.approval),
                        foreign_key |-> ForeignKeyJson(c)]
            o == UpdatableToJson(c)
<1>1. o = Present(options)
  BY DEF UpdatableToJson
<1>2. Option(written) /\ \A sets \in written : PageRules(sets)
  BY RulesShown DEF Option, WellFormedUpdatable
<1>. HIDE DEF written
<1>3. /\ options["only_when"] = written
      /\ options["requires_approval"] = ApprovalJson(c.approval)
      /\ "only_when" \in DOMAIN options /\ "requires_approval" \in DOMAIN options
  OBVIOUS
<1>. HIDE DEF options
<1>4. Option(ApprovalJson(c.approval)) /\ WellFormedApprovals(c.approval)
  BY ApprovalsReadBack DEF WellFormedUpdatable
<1>5. Get(o, "only_when") = written
  BY <1>1, <1>2, <1>3, GetPresent
<1>6. Get(o, "requires_approval") = ApprovalJson(c.approval)
  BY <1>1, <1>3, <1>4, GetPresent
<1>. HIDE DEF o
<1>7. PageApprovals(o)
  BY <1>4, <1>6, ApprovalsShown
<1>8. PageUpdatable(o)
  BY <1>2, <1>5, <1>7 DEF PageUpdatable
<1>. QED BY <1>8 DEF o

LEMMA DeletableShown ==
    ASSUME NEW d, WellFormedDeletable(d)
    PROVE  PageDeletable(DeletableToJson(d))
<1>. DEFINE options == [requires_approval |-> ApprovalJson(d.approval),
                        soft_delete |-> IF d.soft_delete THEN {TRUE} ELSE {},
                        verify_with |-> IF d.verify_with # {} THEN {d.verify_with} ELSE {}]
<1>1. DeletableToJson(d) \subseteq {Present(options)}
  BY DEF DeletableToJson
<1>2. options["requires_approval"] = ApprovalJson(d.approval) /\ "requires_approval" \in DOMAIN options
  OBVIOUS
<1>. HIDE DEF options
<1>3. Option(ApprovalJson(d.approval)) /\ WellFormedApprovals(d.approval)
  BY ApprovalsReadBack DEF WellFormedDeletable
<1>4. PICK o : o = Present(options)
  OBVIOUS
<1>5. Get(o, "requires_approval") = ApprovalJson(d.approval)
  BY <1>2, <1>3, <1>4, GetPresent
<1>6. PageApprovals(o)
  BY <1>3, <1>5, ApprovalsShown
<1>. QED BY <1>1, <1>4, <1>6 DEF PageDeletable, Option

LEMMA MapShown ==
    ASSUME NEW columns, WellFormedMap(columns), NEW map, map = [c \in DOMAIN map |-> map[c]]
    PROVE  /\ Option(MapToJson(columns, map))
           /\ \A v \in MapToJson(columns, map) : WellFormedMap(v) /\ v.map = map
<1>1. MapToJson(columns, map) \subseteq {[all |-> columns.all, map |-> map]}
  BY DEF MapToJson
<1>. QED BY <1>1 DEF WellFormedMap, Option

LEMMA TableShown ==
    ASSUME NEW perms, WellFormedTable(perms), CarefulTable(perms)
    PROVE  PageTable(TableToJson(perms))
<1>1. PageCreatables(CreatablesToJson(perms.creatable))
  <2>. DEFINE columns == perms.creatable
              map == [c \in DOMAIN columns.map |-> CreatableToJson(columns.map[c])]
  <2>1. map = [c \in DOMAIN map |-> map[c]]
    OBVIOUS
  <2>2. \A c \in DOMAIN map : PageCreatable(map[c])
    BY CreatableShown DEF WellFormedTable, CarefulTable
  <2>3. CreatablesToJson(columns) = MapToJson(columns, map) /\ WellFormedMap(columns)
    BY DEF CreatablesToJson, WellFormedTable
  <2>. HIDE DEF columns, map
  <2>4. PageCreatables(CreatablesToJson(columns))
    BY <2>1, <2>2, <2>3, MapShown DEF PageCreatables
  <2>. QED BY <2>4 DEF columns
<1>2. PageUpdatables(UpdatablesToJson(perms.updatable))
  <2>. DEFINE columns == perms.updatable
              map == [c \in DOMAIN columns.map |-> UpdatableToJson(columns.map[c])]
  <2>1. map = [c \in DOMAIN map |-> map[c]]
    OBVIOUS
  <2>2. \A c \in DOMAIN map : PageUpdatable(map[c])
    BY UpdatableShown DEF WellFormedTable, CarefulTable
  <2>3. UpdatablesToJson(columns) = MapToJson(columns, map) /\ WellFormedMap(columns)
    BY DEF UpdatablesToJson, WellFormedTable
  <2>. HIDE DEF columns, map
  <2>4. PageUpdatables(UpdatablesToJson(columns))
    BY <2>1, <2>2, <2>3, MapShown DEF PageUpdatables
  <2>. QED BY <2>4 DEF columns
<1>3. PageDeletable(DeletableToJson(perms.deletable))
  BY DeletableShown DEF WellFormedTable
<1>4. TableToJson(perms) =
        [readable |-> {perms.readable}, creatable |-> CreatablesToJson(perms.creatable),
         updatable |-> UpdatablesToJson(perms.updatable), deletable |-> DeletableToJson(perms.deletable)]
  BY DEF TableToJson
<1>. QED BY <1>1, <1>2, <1>3, <1>4 DEF PageTable

LEMMA TablesShown ==
    ASSUME NEW tables, CarefulRole(tables) PROVE PageTables(RoleTablesToJson(tables))
<1>1. \A t \in DOMAIN tables : PageTable(TableToJson(tables[t]))
  BY TableShown DEF CarefulRole, RoleTables
<1>. QED BY <1>1 DEF RoleTablesToJson, PageTables

-----------------------------------------------------------------------------
(* What a column's dialog makes of a condition                             *)

LEMMA TheOps ==
    /\ OrderedOps = {"greater_than", "greater_than_or_equal", "lower_than", "lower_than_or_equal",
                     "starts_with"}
    /\ RecognisedOps = OrderedOps \cup {"not_null", "is_null", "in_values", "not_in", "equals", "not_equals"}
    /\ DOMAIN Recognised \subseteq Nat
<1>1. /\ DOMAIN Ordered = 1 .. 5
      /\ Ordered[1] = "greater_than" /\ Ordered[2] = "greater_than_or_equal" /\ Ordered[3] = "lower_than"
      /\ Ordered[4] = "lower_than_or_equal" /\ Ordered[5] = "starts_with"
  BY DEF Ordered
<1>2. DOMAIN Recognised = 1 .. 11
  BY DEF Recognised, Ordered
<1>3. /\ Recognised[1] = "greater_than" /\ Recognised[2] = "greater_than_or_equal" /\ Recognised[3] = "lower_than"
      /\ Recognised[4] = "lower_than_or_equal" /\ Recognised[5] = "starts_with"
      /\ Recognised[6] = "not_null" /\ Recognised[7] = "is_null" /\ Recognised[8] = "in_values"
      /\ Recognised[9] = "not_in" /\ Recognised[10] = "equals" /\ Recognised[11] = "not_equals"
  BY DEF Recognised, Ordered
<1>4. 1 .. 5 = {1, 2, 3, 4, 5} /\ 1 .. 11 = {1, 2, 3, 4, 5, 6, 7, 8, 9, 10, 11}
  OBVIOUS
<1>5. OrderedOps = {"greater_than", "greater_than_or_equal", "lower_than", "lower_than_or_equal",
                    "starts_with"}
  BY <1>1, <1>4 DEF OrderedOps
<1>6. RecognisedOps = {"greater_than", "greater_than_or_equal", "lower_than", "lower_than_or_equal",
                       "starts_with", "not_null", "is_null", "in_values", "not_in", "equals", "not_equals"}
  BY <1>2, <1>3, <1>4 DEF RecognisedOps
<1>. QED BY <1>2, <1>5, <1>6

\* A set of numbers that is not empty has a least one.
LEMMA LeastNumber ==
    ASSUME NEW B, B \subseteq Nat, B # {}
    PROVE  \E m \in B : \A n \in B : m <= n
<1>. DEFINE R == OpToRel(<, Nat)
<1>1. PICK x \in B : \A y \in B : ~ (<<y, x>> \in R)
  BY NatLessThanWellFounded, WFMin
<1>2. ASSUME NEW y \in B PROVE x <= y
  <2>1. x \in Nat /\ y \in Nat
    OBVIOUS
  <2>2. ~(y < x)
    BY <1>1, <2>1 DEF OpToRel
  <2>. QED BY <2>1, <2>2
<1>. QED BY <1>2

LEMMA FirstFound ==
    ASSUME NEW conditions, \E c \in conditions : c.op \in RecognisedOps
    PROVE  /\ FirstOp(conditions) # {} /\ FirstOp(conditions) \subseteq conditions
           /\ \A c \in FirstOp(conditions) : c.op \in RecognisedOps
<1>. DEFINE found == {i \in DOMAIN Recognised : \E c \in conditions : c.op = Recognised[i]}
<1>1. found # {} /\ found \subseteq Nat
  BY TheOps DEF RecognisedOps
<1>2. PICK i \in found : \A j \in found : i <= j
  <2>. HIDE DEF found
  <2>. QED BY <1>1, LeastNumber
<1>3. PICK c \in conditions : c.op = Recognised[i]
  OBVIOUS
<1>4. FirstOp(conditions) = {d \in conditions : \E k \in found : d.op = Recognised[k] /\ \A j \in found : k <= j}
  BY DEF FirstOp
<1>5. \A k \in found : Recognised[k] \in RecognisedOps
  BY DEF RecognisedOps
<1>. HIDE DEF found
<1>. QED BY <1>2, <1>3, <1>4, <1>5

LEMMA ListsStay ==
    ASSUME NEW values, values # {} PROVE PageCondition(ArrayOrScalar(TextOfAll(values)))
<1>1. TextOfAll(values) # {}
  BY DEF TextOfAll
<1>2. ArrayOrScalar(TextOfAll(values)) \in {<<"scalar", The(TextOfAll(values))>>, <<"array", TextOfAll(values)>>}
  BY DEF ArrayOrScalar
<1>. QED BY <1>1, <1>2 DEF PageCondition

\* A condition of one recognised operator, on its own.
LEMMA AloneIsCareful ==
    ASSUME NEW c, "op" \in DOMAIN c, c.op \in OrderedOps \cup {"not_null", "is_null"}
    PROVE  PageCondition(<<"object", {c}>>)
<1>1. /\ c.op \notin {"in", "in_values", "equals"} /\ c.op \in RecognisedOps
  BY TheOps
<1>. QED BY <1>1 DEF PageCondition, WellFormedConditions, CarefulConditions

LEMMA RebuiltStays ==
    ASSUME NEW c, "op" \in DOMAIN c, c.op \in RecognisedOps, c.op = "in_values" => c.values # {}
    PROVE  PageCondition(Rebuilt(c))
<1>1. CASE c.op \in OrderedOps \cup {"not_null", "is_null"}
  <2>1. Rebuilt(c) = <<"object", {c}>>
    BY <1>1, TheOps DEF Rebuilt
  <2>. QED BY <1>1, <2>1, AloneIsCareful
<1>2. CASE c.op = "in_values"
  <2>1. Rebuilt(c) = ArrayOrScalar(TextOfAll(c.values))
    BY <1>2, TheOps DEF Rebuilt
  <2>. QED BY <1>2, <2>1, ListsStay
<1>3. CASE c.op = "not_in"
  <2>1. Rebuilt(c) = <<"scalar", Joined(c.values)>>
    BY <1>3, TheOps DEF Rebuilt
  <2>. QED BY <2>1 DEF PageCondition
<1>4. CASE c.op \in {"equals", "not_equals"}
  <2>1. Rebuilt(c) = <<"scalar", TextOf[c.value]>>
    BY <1>4, TheOps DEF Rebuilt
  <2>. QED BY <2>1 DEF PageCondition
<1>. QED BY <1>1, <1>2, <1>3, <1>4, TheOps

LEMMA RebuiltConditionStays ==
    ASSUME NEW json, PageCondition(json)
    PROVE  RebuiltCondition(json) # {} /\ \A x \in RebuiltCondition(json) : PageCondition(x)
<1>1. CASE json[1] = "array" /\ json[2] # {}
  <2>1. RebuiltCondition(json) = {ArrayOrScalar(TextOfAll(json[2]))}
    BY <1>1 DEF RebuiltCondition
  <2>. QED BY <1>1, <2>1, ListsStay
<1>2. CASE json[1] = "scalar"
  <2>1. RebuiltCondition(json) = {<<"scalar", TextOf[json[2]]>>}
    BY <1>2 DEF RebuiltCondition
  <2>. QED BY <2>1 DEF PageCondition
<1>3. CASE /\ json[1] = "object" /\ CarefulConditions(json[2])
           /\ \E c \in json[2] : c.op \in RecognisedOps
  <2>1. RebuiltCondition(json) = {Rebuilt(c) : c \in FirstOp(json[2])}
    BY <1>3 DEF RebuiltCondition
  <2>2. /\ FirstOp(json[2]) # {} /\ FirstOp(json[2]) \subseteq json[2]
        /\ \A c \in FirstOp(json[2]) : c.op \in RecognisedOps
    BY <1>3, FirstFound
  <2>3. \A c \in FirstOp(json[2]) : PageCondition(Rebuilt(c))
    BY <1>3, <2>2, RebuiltStays DEF CarefulConditions
  <2>. QED BY <2>1, <2>2, <2>3
<1>. QED BY <1>1, <1>2, <1>3 DEF PageCondition

LEMMA RebuiltSetStays ==
    ASSUME NEW set, PageSet(set)
    PROVE  DOMAIN RebuiltSet(set) = DOMAIN set /\ PageSet(RebuiltSet(set))
<1>1. \A key \in DOMAIN set :
         /\ IsSome(RebuiltCondition(set[key]))
         /\ The(RebuiltCondition(set[key])) \in RebuiltCondition(set[key])
  BY RebuiltConditionStays DEF PageSet, IsSome, The
<1>2. /\ DOMAIN RebuiltSet(set) = DOMAIN set
      /\ \A key \in DOMAIN set : RebuiltSet(set)[key] = The(RebuiltCondition(set[key]))
  BY <1>1 DEF RebuiltSet
<1>3. \A key \in DOMAIN set : PageCondition(RebuiltSet(set)[key])
  BY <1>1, <1>2, RebuiltConditionStays DEF PageSet
<1>. QED BY <1>2, <1>3 DEF PageSet

-----------------------------------------------------------------------------
(* What a column's dialog makes of the rules of a column                   *)

\* Rules that speak of the same columns as others.
SameRefs(old, new) == DOMAIN new = DOMAIN old /\ \A i \in DOMAIN old : DOMAIN new[i] = DOMAIN old[i]

LEMMA RebuiltRulesStay ==
    ASSUME NEW sets, PageRules(sets)
    PROVE  \E new : RebuiltRules(sets) = {new} /\ PageRules(new) /\ SameRefs(sets, new)
<1>. DEFINE N == Len(sets)
            kept == {i \in DOMAIN sets : DOMAIN RebuiltSet(sets[i]) # {}}
            Nth(n) == CHOOSE i \in kept : Cardinality({j \in kept : j <= i}) = n
            new == [n \in 1 .. Cardinality(kept) |-> RebuiltSet(sets[Nth(n)])]
<1>1. DOMAIN sets = 1 .. N /\ N > 0
  BY DEF PageRules
<1>2. N \in Nat
  BY <1>1 DEF PageRules
<1>3. \A i \in 1 .. N : PageSet(sets[i]) /\ PageSet(RebuiltSet(sets[i]))
                        /\ DOMAIN RebuiltSet(sets[i]) = DOMAIN sets[i]
  BY <1>1, RebuiltSetStays DEF PageRules
<1>. HIDE DEF N
<1>4. kept = 1 .. N
  BY <1>1, <1>3 DEF PageSet
<1>5. RebuiltRules(sets) = IF kept = {} THEN {} ELSE {new}
  BY DEF RebuiltRules
<1>. HIDE DEF kept
<1>6. Cardinality(kept) = N
  BY <1>2, <1>4, FS_Interval
<1>7. ASSUME NEW n \in 1 .. N PROVE Nth(n) = n
  <2>1. ASSUME NEW i \in 1 .. N PROVE Cardinality({j \in kept : j <= i}) = i
    <3>1. {j \in kept : j <= i} = 1 .. i /\ i \in Nat
      BY <1>2, <1>4
    <3>2. Cardinality(1 .. i) = i
      BY <3>1, FS_Interval
    <3>. QED BY <3>1, <3>2
  <2>. QED BY <1>4, <2>1
<1>. HIDE DEF Nth
<1>8. DOMAIN new = 1 .. N /\ \A n \in 1 .. N : new[n] = RebuiltSet(sets[n])
  BY <1>6, <1>7
<1>9. Len(new) = N
  BY <1>2, <1>6
<1>. HIDE DEF new
<1>10. PageRules(new)
  BY <1>1, <1>3, <1>8, <1>9 DEF PageRules
<1>11. SameRefs(sets, new)
  BY <1>1, <1>3, <1>8 DEF SameRefs
<1>12. kept # {}
  BY <1>1, <1>2, <1>4
<1>. QED BY <1>5, <1>10, <1>11, <1>12

LEMMA OneRule ==
    ASSUME NEW key, NEW json, PageCondition(json)
    PROVE  PageRules(<<[k \in {key} |-> json]>>)
<1>. DEFINE set == [k \in {key} |-> json]
<1>1. DOMAIN set = {key} /\ set[key] = json
  OBVIOUS
<1>. HIDE DEF set
<1>2. PageSet(set)
  BY <1>1 DEF PageSet
<1>3. Len(<<set>>) = 1 /\ DOMAIN <<set>> = 1 .. 1 /\ <<set>>[1] = set
  OBVIOUS
<1>4. PageRules(<<set>>)
  BY <1>2, <1>3 DEF PageRules
<1>. QED BY <1>4 DEF set

LEMMA ReplacedStays ==
    ASSUME NEW column, NEW conditions, CarefulConditions(conditions), \E c \in conditions : Truthy(c)
    PROVE  PageCondition(ReplacedComparison(column, conditions))
<1>. DEFINE true == {d \in conditions : Truthy(d)}
            Replaced(c) == IF c.op = "not_null" THEN c ELSE [c EXCEPT !.bound.ref = {column}]
            new == {Replaced(c) : c \in FirstOp(true)}
<1>1. \A c \in true : c.op \in OrderedOps \cup {"not_null"} /\ "op" \in DOMAIN c
  BY DEF Truthy, CarefulConditions
<1>2. FirstOp(true) # {} /\ FirstOp(true) \subseteq true
  <2>1. \E c \in true : c.op \in RecognisedOps
    BY <1>1, TheOps
  <2>. HIDE DEF true
  <2>. QED BY <2>1, FirstFound
<1>3. ReplacedComparison(column, conditions) = <<"object", new>>
  BY DEF ReplacedComparison
<1>4. ASSUME NEW c \in true PROVE Replaced(c).op = c.op /\ "op" \in DOMAIN Replaced(c)
  <2>1. CASE c.op = "not_null"
    BY <1>1, <2>1
  <2>2. CASE c.op # "not_null"
    <3>1. PICK bound : bound = [c.bound EXCEPT !.ref = {column}]
      OBVIOUS
    <3>2. Replaced(c) = [c EXCEPT !["bound"] = bound]
      BY <2>2, <3>1
    <3>3. "op" \in DOMAIN c
      BY <1>1
    <3>. QED BY <3>2, <3>3
  <2>. QED BY <2>1, <2>2
<1>. HIDE DEF true, Replaced
<1>5. \A d \in new : d.op \in OrderedOps \cup {"not_null"} /\ "op" \in DOMAIN d
  BY <1>1, <1>2, <1>4
<1>6. new # {}
  BY <1>2
<1>. HIDE DEF new
<1>7. \A d \in new : d.op \in RecognisedOps /\ d.op \notin {"in", "in_values", "equals"}
  BY <1>5, TheOps
<1>8. WellFormedConditions(new) /\ CarefulConditions(new)
  BY <1>5, <1>6, <1>7 DEF WellFormedConditions, CarefulConditions
<1>9. PageCondition(<<"object", new>>)
  BY <1>6, <1>7, <1>8 DEF PageCondition
<1>. QED BY <1>3, <1>9

\* A dialog that is confirmed keeps the rules, whatever it does to their values.
THEOREM DialogKeepsRules ==
    ASSUME NEW column, NEW sets, PageRules(sets)
    PROVE  \E new : SaveOnlyWhen(column, sets) = {new} /\ PageRules(new) /\ SameRefs(sets, new)
<1>. DEFINE key == <<"new", column>>
            Single == Len(sets) = 1 /\ DOMAIN sets[1] = {key}
            Only(json) == {<<[k \in {key} |-> json]>>}
<1>1. ASSUME Single PROVE DOMAIN sets = {1} /\ PageCondition(sets[1][key])
  <2>1. DOMAIN sets = {1}
    BY <1>1 DEF PageRules
  <2>. QED BY <1>1, <2>1 DEF PageRules, PageSet
<1>2. ASSUME Single, NEW json, PageCondition(json)
      PROVE  \E new : Only(json) = {new} /\ PageRules(new) /\ SameRefs(sets, new)
  <2>. DEFINE set == [k \in {key} |-> json]
  <2>1. DOMAIN set = {key}
    OBVIOUS
  <2>2. Only(json) = {<<set>>} /\ PageRules(<<set>>)
    BY <1>2, OneRule
  <2>. HIDE DEF set
  <2>3. DOMAIN <<set>> = {1} /\ <<set>>[1] = set
    OBVIOUS
  <2>4. SameRefs(sets, <<set>>)
    BY <1>1, <1>2, <2>1, <2>3 DEF SameRefs
  <2>. QED BY <2>2, <2>4
<1>3. CASE Single /\ sets[1][key][1] = "array"
  <2>1. sets[1][key][2] # {}
    BY <1>1, <1>3 DEF PageCondition
  <2>2. SaveOnlyWhen(column, sets) = Only(<<"array", TextOfAll(sets[1][key][2])>>)
    BY <1>3, <2>1 DEF SaveOnlyWhen
  <2>3. PageCondition(<<"array", TextOfAll(sets[1][key][2])>>)
    BY <2>1 DEF PageCondition, TextOfAll
  <2>. HIDE DEF Single, Only, key
  <2>. QED BY <1>2, <1>3, <2>2, <2>3
<1>4. CASE /\ ~(Single /\ sets[1][key][1] = "array")
           /\ Single /\ sets[1][key][1] = "object" /\ \E c \in sets[1][key][2] : Truthy(c)
  <2>1. SaveOnlyWhen(column, sets) = Only(ReplacedComparison(column, sets[1][key][2]))
    BY <1>4 DEF SaveOnlyWhen
  <2>2. CarefulConditions(sets[1][key][2])
    BY <1>1, <1>4 DEF PageCondition
  <2>3. PageCondition(ReplacedComparison(column, sets[1][key][2]))
    BY <1>4, <2>2, ReplacedStays
  <2>. HIDE DEF Single, Only, key
  <2>. QED BY <1>2, <1>4, <2>1, <2>3
<1>5. CASE /\ ~(Single /\ sets[1][key][1] = "array")
           /\ ~(Single /\ sets[1][key][1] = "object" /\ \E c \in sets[1][key][2] : Truthy(c))
  <2>1. SaveOnlyWhen(column, sets) = RebuiltRules(sets)
    BY <1>5 DEF SaveOnlyWhen
  <2>. QED BY <2>1, RebuiltRulesStay
<1>. QED BY <1>3, <1>4, <1>5

-----------------------------------------------------------------------------
(* What a column's dialog makes of its constraints                         *)

\* What the dialog writes of the rules, of the lists and of the approval of a column.
DialogRules(column, object) == UNION {SaveOnlyWhen(column, sets) : sets \in Get(object, "only_when")}
DialogLists(object) == {TextOfAll(vs) : vs \in {ws \in Get(object, "restrict_to") : ws # {}}}
DialogRequired(object) == Get(object, "required") \cap {TRUE}
DialogApproval(ticked) == IF ticked THEN {<<"bool", TRUE>>} ELSE {}

LEMMA DialogKeys ==
    ASSUME NEW column, NEW object, NEW ticked
    PROVE  /\ Get(SaveColumnConstraints(column, object, ticked), "required") = DialogRequired(object)
           /\ Get(SaveColumnConstraints(column, object, ticked), "requires_approval") = DialogApproval(ticked)
           /\ Get(SaveColumnConstraints(column, object, ticked), "foreign_key") = Get(object, "foreign_key") \ {{}}
           /\ Get(SaveColumnConstraints(column, object, ticked), "restrict_to") = DialogLists(object)
           /\ Option(DialogRules(column, object))
                => Get(SaveColumnConstraints(column, object, ticked), "only_when") = DialogRules(column, object)
<1>. DEFINE approval == DialogApproval(ticked)
            required == DialogRequired(object)
            default == {v \in Get(object, "default") : ~Falsy(v)}
            restrict == DialogLists(object)
            rules == DialogRules(column, object)
            options == [required |-> required, requires_approval |-> approval,
                        default |-> default, restrict_to |-> restrict, only_when |-> rules,
                        foreign_key |-> Get(object, "foreign_key") \ {{}}]
            saved == SaveColumnConstraints(column, object, ticked)
<1>1. saved = Present(options)
  BY DEF SaveColumnConstraints, DialogRequired, DialogApproval, DialogLists, DialogRules
<1>2. Option(approval)
  BY DEF Option, DialogApproval
<1>3. Option(restrict)
  BY GetOption DEF Option, DialogLists
<1>4. Option(required) /\ Option(Get(object, "foreign_key") \ {{}})
  BY GetOption DEF Option, DialogRequired
<1>. HIDE DEF approval, required, default, restrict, rules
<1>5. /\ options["required"] = required /\ options["requires_approval"] = approval
      /\ options["restrict_to"] = restrict /\ options["only_when"] = rules
      /\ options["foreign_key"] = Get(object, "foreign_key") \ {{}}
      /\ "required" \in DOMAIN options /\ "requires_approval" \in DOMAIN options
      /\ "restrict_to" \in DOMAIN options /\ "only_when" \in DOMAIN options
      /\ "foreign_key" \in DOMAIN options
  OBVIOUS
<1>. HIDE DEF options
<1>6. ASSUME NEW k \in DOMAIN options, Option(options[k]) PROVE Get(saved, k) = options[k]
  BY <1>1, <1>6, GetPresent
<1>. HIDE DEF saved
<1>7. /\ Get(saved, "required") = required
      /\ Get(saved, "requires_approval") = approval
      /\ Get(saved, "foreign_key") = Get(object, "foreign_key") \ {{}}
      /\ Get(saved, "restrict_to") = restrict
      /\ Option(rules) => Get(saved, "only_when") = rules
  BY <1>2, <1>3, <1>4, <1>5, <1>6
<1>. QED BY <1>7 DEF approval, required, restrict, rules, saved

\* What the dialog leaves is again what a page holds.
LEMMA DialogKeepsPage ==
    ASSUME NEW column, NEW object, NEW ticked
    PROVE  /\ PageCreatable(SaveColumnConstraints(column, object, ticked))
           /\ PageUpdatable(object) => PageUpdatable(SaveColumnConstraints(column, object, ticked))
<1>. DEFINE saved == SaveColumnConstraints(column, object, ticked)
            rules == DialogRules(column, object)
<1>1. /\ Get(saved, "requires_approval") = DialogApproval(ticked)
      /\ Get(saved, "restrict_to") = DialogLists(object)
      /\ Option(rules) => Get(saved, "only_when") = rules
  BY DialogKeys
<1>. HIDE DEF saved
<1>2. PageApprovals(saved)
  <2>1. <<"bool", TRUE>>[2] \in BOOLEAN
    OBVIOUS
  <2>2. \A v \in Get(saved, "requires_approval") : v = <<"bool", TRUE>>
    BY <1>1 DEF DialogApproval
  <2>. QED BY <2>1, <2>2 DEF PageApprovals
<1>3. {} \notin Get(saved, "restrict_to")
  BY <1>1 DEF TextOfAll, DialogLists
<1>4. ASSUME PageUpdatable(object) PROVE PageUpdatable(saved)
  <2>1. \A sets \in Get(object, "only_when") :
            \E new : SaveOnlyWhen(column, sets) = {new} /\ PageRules(new)
    BY <1>4, DialogKeepsRules DEF PageUpdatable
  <2>2. Option(rules) /\ \A new \in rules : PageRules(new)
    BY <2>1, GetOption DEF Option, DialogRules
  <2>. QED BY <1>1, <1>2, <2>2 DEF PageUpdatable
<1>. QED BY <1>2, <1>3, <1>4 DEF PageCreatable, saved
=============================================================================
