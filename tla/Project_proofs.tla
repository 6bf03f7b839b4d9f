----------------------------- MODULE Project_proofs -----------------------------
(***************************************************************************)
(* Theorems about Project, for every database, migration, role and bound.  *)
(*                                                                         *)
(* What the hook before `cori run' checks (PreHookChecks) implies what can *)
(* be said of the process that serves it (ChecksSuffice); the invariant    *)
(* carries the one to the other over the time between the hook and the     *)
(* loading, as long as the files are the same.                             *)
(*                                                                         *)
(* What an editor has clicked so far (Kept) leaves the rest as it was when *)
(* the page was made (RestStays), click by click; that the form can be     *)
(* read back at all needs roles without empty lists in the files and in    *)
(* the dashboard's memory (EditInv).                                       *)
(*                                                                         *)
(* Of a project that only init has written it is known what is in its      *)
(* files (FreshInv): the rules, as a reader finds them under the wrong     *)
(* tables or not (RuleOfSilent, RuleOfLoud), and the sample roles, and     *)
(* what the checks say of both (FreshJudged).                              *)
(***************************************************************************)
EXTENDS Project, RoleEditor_proofs, TLAPS

-----------------------------------------------------------------------------
(* What the checks are good for                                            *)

\* There is one schema, if there is any.
OneSchema(schemas) == \A s, z \in schemas : s = z

\* Tables that pass check 2 make tools without a panic, unless there are none.
LEMMA CheckedTablesMakeTools ==
    ASSUME NEW config, CheckTableNames(config), OneSchema(config.schema),
           NEW s \in config.schema, NEW n \in DOMAIN config.roles,
           GeneratePanics(config.roles[n].tables, s)
    PROVE  SchemaTables(config) = {}
<1>1. SUFFICES ASSUME DOMAIN config.roles[n].tables \subseteq SchemaTables(config)
               PROVE  FALSE
  BY DEF CheckTableNames
<1>2. SchemaTables(config) = DOMAIN s
  BY DEF SchemaTables, OneSchema
<1>. QED BY <1>1, <1>2 DEF GeneratePanics

\* Roles that pass check 5 require no approval that nobody can give.
LEMMA CheckedApprovalsAreApprovable ==
    ASSUME NEW config, CheckApprovalGroups(config),
           NEW n \in DOMAIN config.roles, NEW t \in DOMAIN config.roles[n].tables
    PROVE  Approvable(config, config.roles[n], config.roles[n].tables[t])
<1>. DEFINE role == config.roles[n]
<1>. SUFFICES ASSUME NEW a \in Requirements(role.tables[t]), a.required
              PROVE  \E g \in (IF IsSome(a.group) THEN a.group ELSE role.approvals) :
                        CheckApprovalConfig(config, g)
  BY DEF Approvable, CheckApprovalConfig
<1>1. /\ CheckApprovalRequirement(config, role, a)
      /\ \A g \in role.approvals : CheckApprovalConfig(config, g)
  BY DEF CheckApprovalGroups
<1>2. CASE IsSome(a.group)
  BY <1>1, <1>2 DEF CheckApprovalRequirement, IsSome, The
<1>3. CASE ~IsSome(a.group)
  BY <1>1, <1>3 DEF CheckApprovalRequirement, IsSome
<1>. QED BY <1>2, <1>3

\* Roles that pass check 8 have create tools that ask for every column the
\* database insists on, and with check 10 for every value that is verified.
LEMMA CheckedRolesCanCreate ==
    ASSUME NEW config, CheckNonnullColumns(config), NEW s \in config.schema,
           NEW n \in DOMAIN config.roles, NEW t \in DOMAIN config.roles[n].tables \cap DOMAIN s,
           CanCreate(config.roles[n].tables, t)
    PROVE  Creatable(config, s, config.roles[n].tables, t)
<1>. DEFINE tables == config.roles[n].tables
            creatable == tables[t].creatable
<1>1. creatable.all \/ RequiredColumns(config, s, t) \subseteq DOMAIN creatable.map
  BY DEF CheckNonnullColumns, CanCreate
<1>2. ASSUME NEW c \in RequiredColumns(config, s, t)
      PROVE  c \in CreateRequired(tables, s, t)
  <2>1. /\ c \in DOMAIN s[t].columns
        /\ ~s[t].columns[c].nullable /\ s[t].columns[c].default = {}
    BY DEF RequiredColumns
  <2>. QED BY <1>1, <2>1 DEF CreateRequired
<1>3. ASSUME ~creatable.all, CheckForeignKeyVerifyColumns(config)
      PROVE  FkVerificationColumns(creatable) \subseteq CreateRequired(tables, s, t)
  <2>1. ForeignKeysVerifiable(tables, s, t, creatable)
    BY <1>3 DEF CheckForeignKeyVerifyColumns
  <2>2. FkVerificationColumns(creatable) \subseteq OfferedVerifyKeys(s, t, creatable)
    BY <2>1 DEF ForeignKeysVerifiable, FkVerificationColumns, OfferedVerifyKeys
  <2>. QED BY <1>3, <2>2 DEF CreateRequired
<1>. QED BY <1>2, <1>3 DEF Creatable

\* What is served of a configuration that passed the hook's checks.
LEMMA ChecksSuffice ==
    ASSUME NEW config, PreHookChecks(config)
    PROVE  \A n \in DOMAIN config.roles : \A t \in DOMAIN config.roles[n].tables :
              /\ Approvable(config, config.roles[n], config.roles[n].tables[t])
              /\ \A s \in config.schema :
                    t \in DOMAIN s /\ CanCreate(config.roles[n].tables, t)
                        => Creatable(config, s, config.roles[n].tables, t)
  BY CheckedApprovalsAreApprovable, CheckedRolesCanCreate DEF PreHookChecks

-----------------------------------------------------------------------------
(* The invariant                                                           *)

FileFields == {"dir", "config", "key", "schema", "rules", "types", "roles", "groups"}
ProcFields == {"phase", "mode", "same", "config", "role"}

FilesWritten == DOMAIN files = FileFields /\ OneSchema(UNION files.schema)

\* A process whose files did not change since the hook passed them.
CheckedBefore == proc.phase = "checked" /\ proc.same => RunPreHook(files)

ServedAsChecked ==
    proc.phase \in {"serving", "panicked"} /\ proc.same =>
        /\ PreHookChecks(proc.config) /\ OneSchema(proc.config.schema)
        /\ proc.phase = "panicked" =>
              \E s \in proc.config.schema : \E r \in Served(proc) : GeneratePanics(r, s)

IInv == FilesWritten /\ DOMAIN proc = ProcFields /\ CheckedBefore /\ ServedAsChecked

\* The invariant has what is checked.
LEMMA ServedIsUsable ==
    ASSUME IInv PROVE CheckedMeansUsable
<1>. SUFFICES ASSUME proc.same, proc.phase \in {"serving", "panicked"}
              PROVE  CheckedMeansUsable
  BY DEF CheckedMeansUsable
<1>1. PreHookChecks(proc.config) /\ OneSchema(proc.config.schema)
  BY DEF IInv, ServedAsChecked
<1>2. ASSUME proc.phase = "panicked" PROVE SchemaTables(proc.config) = {}
  <2>1. PICK s \in proc.config.schema : \E r \in Served(proc) : GeneratePanics(r, s)
    BY <1>2 DEF IInv, ServedAsChecked
  <2>2. PICK r \in Served(proc) : GeneratePanics(r, s)
    BY <2>1
  <2>3. PICK n \in DOMAIN proc.config.roles : r = proc.config.roles[n].tables
    BY DEF Served
  <2>. QED BY <1>1, <2>2, <2>3, CheckedTablesMakeTools DEF PreHookChecks
<1>. QED BY <1>1, <1>2, ChecksSuffice DEF CheckedMeansUsable

\* Files that change under a process are noticed.
LEMMA ChangedKeeps ==
    ASSUME IInv, Changed, FilesWritten' PROVE IInv'
<1>1. CASE proc.phase = "checked"
  <2>1. /\ DOMAIN proc' = ProcFields /\ proc'.phase = "checked"
        /\ proc'.same <=> proc.same /\ files' = files
    BY <1>1 DEF Changed, IInv, ProcFields
  <2>2. CheckedBefore'
    BY <1>1, <2>1 DEF IInv, CheckedBefore
  <2>3. ServedAsChecked'
    BY <2>1 DEF ServedAsChecked
  <2>. QED BY <2>1, <2>2, <2>3 DEF IInv
<1>2. CASE proc.phase # "checked"
  <2>1. proc' = proc
    BY <1>2 DEF Changed
  <2>. QED BY <1>2, <2>1 DEF IInv, CheckedBefore, ServedAsChecked, Served
<1>. QED BY <1>1, <1>2

\* A role or a group written or removed leaves the schema as it is.
LEMMA RolesWritten ==
    ASSUME IInv, NEW field \in {"roles", "groups"}, NEW value,
           files' = [files EXCEPT ![field] = value]
    PROVE  FilesWritten'
<1>1. files'.schema = files.schema /\ DOMAIN files' = FileFields
  BY DEF IInv, FilesWritten, FileFields
<1>. QED BY <1>1 DEF IInv, FilesWritten

\* init writes one schema, or leaves the one there is.
LEMMA ProjectWritten ==
    ASSUME IInv, NEW tenant, NEW key, NEW steps, files' = WriteProject(files, database, tenant, key, steps)
    PROVE  FilesWritten'
<1>. DEFINE written == SchemaRead(ExtractTables(database))
<1>1. files'.schema = (IF steps >= 2 THEN {written} ELSE files.schema)
  BY DEF WriteProject
<1>2. DOMAIN files' = FileFields
  BY DEF WriteProject, FileFields
<1>3. OneSchema(written)
  BY DEF SchemaRead, OneSchema
<1>. HIDE DEF written
<1>4. UNION {written} = written
  OBVIOUS
<1>. QED BY <1>1, <1>2, <1>3, <1>4 DEF IInv, FilesWritten

\* A process that starts serves what is in files that passed the hook, if they
\* are still the same.
LEMMA StartKeeps ==
    ASSUME IInv, NEW role, proc.phase = "checked", Loadable, Start(role), UNCHANGED files
    PROVE  IInv'
<1>. DEFINE loaded == [proc EXCEPT !.config = LoadWithContext(files), !.role = role]
            panics == \E s \in loaded.config.schema : \E r \in Served(loaded) : GeneratePanics(r, s)
<1>1. proc' = [loaded EXCEPT !.phase = IF panics THEN "panicked" ELSE "serving"]
  BY DEF Start
<1>2. DOMAIN loaded = ProcFields /\ loaded.config = LoadWithContext(files) /\ loaded.same = proc.same
      /\ loaded.role = role /\ loaded.mode = proc.mode
  BY DEF IInv, ProcFields
<1>. HIDE DEF loaded
<1>. DEFINE raised == panics
<1>3. /\ raised <=> \E s \in loaded.config.schema : \E r \in Served(loaded) : GeneratePanics(r, s)
      /\ proc' = [loaded EXCEPT !.phase = IF raised THEN "panicked" ELSE "serving"]
  BY <1>1
<1>. HIDE DEF raised
<1>4. /\ DOMAIN proc' = ProcFields /\ proc'.config = loaded.config /\ proc'.same = loaded.same
      /\ proc'.role = loaded.role /\ proc'.mode = loaded.mode
      /\ proc'.phase = IF raised THEN "panicked" ELSE "serving"
  BY <1>2, <1>3 DEF ProcFields
<1>5. Served(proc') = Served(loaded)
  BY <1>4 DEF Served
<1>6. CheckedBefore'
  BY <1>4 DEF CheckedBefore
<1>7. ASSUME proc'.same
      PROVE  PreHookChecks(proc'.config) /\ OneSchema(proc'.config.schema)
  <2>1. RunPreHook(files)
    BY <1>2, <1>4, <1>7 DEF IInv, CheckedBefore
  <2>2. PreHookChecks(LoadWithContext(files))
    BY <2>1 DEF RunPreHook, Loadable
  <2>3. LoadWithContext(files).schema = UNION files.schema
    BY DEF LoadWithContext
  <2>. QED BY <1>2, <1>4, <2>2, <2>3 DEF IInv, FilesWritten
<1>8. proc'.phase = "panicked" => \E s \in proc'.config.schema : \E r \in Served(proc') : GeneratePanics(r, s)
  BY <1>3, <1>4, <1>5
<1>9. ServedAsChecked'
  BY <1>7, <1>8 DEF ServedAsChecked, Served
<1>. QED BY <1>4, <1>6, <1>9 DEF IInv, FilesWritten

\* An idle process promises nothing.
LEMMA IdleKeeps ==
    ASSUME IInv, proc' = Idle, UNCHANGED files PROVE IInv'
  BY DEF IInv, FilesWritten, Idle, ProcFields, CheckedBefore, ServedAsChecked

\* Neither do steps that touch neither the process nor the files.
LEMMA ElsewhereKeeps ==
    ASSUME IInv, UNCHANGED <<proc, files>> PROVE IInv'
  BY DEF IInv, FilesWritten, CheckedBefore, ServedAsChecked, Served

LEMMA PreHookKeeps ==
    ASSUME IInv, PreHook PROVE IInv'
<1>1. UNCHANGED files
  BY DEF PreHook
<1>2. CASE proc' = Idle
  BY <1>1, <1>2, IdleKeeps
<1>3. CASE RunPreHook(files) /\ \E mode : proc' = [Idle EXCEPT !.phase = "checked", !.mode = mode, !.same = TRUE]
  <2>1. DOMAIN proc' = ProcFields /\ proc'.phase = "checked"
    BY <1>3 DEF Idle, ProcFields
  <2>. QED BY <1>1, <1>3, <2>1 DEF IInv, FilesWritten, CheckedBefore, ServedAsChecked
<1>. QED BY <1>2, <1>3 DEF PreHook

\* The actions that change files.
LEMMA WritersKeep ==
    ASSUME IInv,
           \/ RunInit \/ SyncSchema \/ WriteRole \/ RemoveGroup \/ DeleteRole
           \/ \E b \in Browsers : SaveRole(b)
    PROVE  IInv'
<1>1. CASE RunInit
  <2>1. \E tenant, steps : files' = WriteProject(files, database, tenant, inits', steps)
    BY <1>1, Zenon DEF RunInit
  <2>. QED BY <1>1, <2>1, ProjectWritten, ChangedKeeps DEF RunInit
<1>2. CASE SyncSchema
  <2>1. files' = [files EXCEPT !.schema = {{database}}]
    BY <1>2 DEF SyncSchema, WriteSchema
  <2>2. FilesWritten'
    BY <2>1 DEF IInv, FilesWritten, FileFields, OneSchema
  <2>. QED BY <1>2, <2>2, ChangedKeeps DEF SyncSchema
<1>3. CASE WriteRole
  <2>1. \E value : files' = [files EXCEPT !["roles"] = value]
    BY <1>3, Zenon DEF WriteRole, Written, Changes
  <2>. QED BY <1>3, <2>1, RolesWritten, ChangedKeeps DEF WriteRole
<1>4. CASE RemoveGroup
  <2>1. \E value : files' = [files EXCEPT !["groups"] = value]
    BY <1>4, Zenon DEF RemoveGroup, Written, Changes
  <2>. QED BY <1>4, <2>1, RolesWritten, ChangedKeeps DEF RemoveGroup
<1>5. CASE DeleteRole
  <2>1. \E value : files' = [files EXCEPT !["roles"] = value]
    BY <1>5, Zenon DEF DeleteRole, Written, Changes
  <2>. QED BY <1>5, <2>1, RolesWritten, ChangedKeeps DEF DeleteRole
<1>6. ASSUME NEW b \in Browsers, SaveRole(b) PROVE IInv'
  <2>1. \E name, role : Save(name, role)
    BY <1>6, Zenon DEF SaveRole
  <2>2. Changed /\ \E value : files' = [files EXCEPT !["roles"] = value]
    BY <2>1, Zenon DEF Save, Changes
  <2>. QED BY <2>2, RolesWritten, ChangedKeeps
<1>. QED BY <1>1, <1>2, <1>3, <1>4, <1>5, <1>6

\* The actions of the pages, and the ones of the process.
LEMMA PagesKeep ==
    ASSUME IInv, NEW b \in Browsers,
           \/ RoleEdit(b) \/ RoleNew(b) \/ Cancel(b) \/ ClickTable(b) \/ ClickPermission(b)
           \/ ClickOption(b) \/ ClickColumn(b) \/ ClickDialog(b) \/ ClickGroup(b)
    PROVE  IInv'
<1>1. UNCHANGED <<proc, files>>
  BY DEF RoleEdit, RoleNew, Cancel, ClickTable, ClickPermission, ClickOption, ClickColumn,
         ClickDialog, ClickGroup, Clicks
<1>. QED BY <1>1, ElsewhereKeeps

LEMMA ServersKeep ==
    ASSUME IInv, LoadError \/ LoadHttp \/ LoadStdio \/ Stop PROVE IInv'
<1>1. CASE LoadError
  BY <1>1, IdleKeeps DEF LoadError
<1>2. CASE LoadHttp
  BY <1>2, StartKeeps DEF LoadHttp
<1>3. CASE LoadStdio
  <2>1. /\ proc.phase = "checked" /\ Loadable /\ UNCHANGED files
        /\ proc' = Idle \/ \E role : Start(role)
    BY <1>3, Zenon DEF LoadStdio
  <2>. QED BY <2>1, IdleKeeps, StartKeeps
<1>4. CASE Stop
  BY <1>4, IdleKeeps DEF Stop
<1>. QED BY <1>1, <1>2, <1>3, <1>4

LEMMA InitHolds ==
    ASSUME Init PROVE IInv
<1>1. FilesWritten
  BY DEF Init, FilesWritten, NoFiles, FileFields, OneSchema
<1>2. DOMAIN proc = ProcFields /\ proc.phase = "idle"
  BY DEF Init, Idle, ProcFields
<1>. QED BY <1>1, <1>2 DEF IInv, CheckedBefore, ServedAsChecked

LEMMA NextKeeps ==
    ASSUME IInv, [Next]_vars PROVE IInv'
<1>1. CASE \/ RunInit \/ SyncSchema \/ WriteRole \/ RemoveGroup \/ DeleteRole
           \/ \E b \in Browsers : SaveRole(b)
  BY <1>1, WritersKeep
<1>2. CASE PreHook
  BY <1>2, PreHookKeeps
<1>3. CASE LoadError \/ LoadHttp \/ LoadStdio \/ Stop
  BY <1>3, ServersKeep
<1>4. CASE Migrate \/ RefreshSchema \/ UNCHANGED vars
  BY <1>4, ElsewhereKeeps DEF Migrate, RefreshSchema, vars
<1>5. ASSUME NEW b \in Browsers,
             \/ RoleEdit(b) \/ RoleNew(b) \/ Cancel(b) \/ ClickTable(b) \/ ClickPermission(b)
             \/ ClickOption(b) \/ ClickColumn(b) \/ ClickDialog(b) \/ ClickGroup(b)
      PROVE  IInv'
  BY <1>5, PagesKeep
<1>. QED BY <1>1, <1>2, <1>3, <1>4, <1>5 DEF Next

\* What the hook before `cori run' lets through can be served, if the files are
\* still the same when they are loaded (commands/run.rs, commands/check.rs).
THEOREM CheckedIsServable == Spec => []CheckedMeansUsable
<1>1. Init => IInv
  BY InitHolds
<1>2. IInv /\ [Next]_vars => IInv'
  BY NextKeeps
<1>3. IInv => CheckedMeansUsable
  BY ServedIsUsable
<1>. QED BY <1>1, <1>2, <1>3, PTL DEF Spec

-----------------------------------------------------------------------------
(* What a dialog must not lose, it keeps                                   *)

LEMMA DialogKeepsApproval ==
    ASSUME NEW column, NEW object, IsRequired(ParseApprovals(object))
    PROVE  IsRequired(ParseApprovals(SaveColumnConstraints(column, object, ApprovalTicked(object))))
<1>. DEFINE ticked == ApprovalTicked(object)
            saved == SaveColumnConstraints(column, object, ticked)
<1>1. PICK v \in Get(object, "requires_approval") : ParseApproval(v).required
  BY DEF IsRequired, ParseApprovals
<1>2. v # <<"bool", FALSE>>
  <2>1. ASSUME v = <<"bool", FALSE>> PROVE FALSE
    <3>1. v[1] = "bool" /\ ~v[2]
      BY <2>1
    <3>2. ParseApproval(v) = [required |-> v[2], group |-> {}]
      BY <3>1 DEF ParseApproval
    <3>3. ParseApproval(v).required = v[2]
      BY <3>2
    <3>. QED BY <1>1, <3>1, <3>3
  <2>. QED BY <2>1
<1>3. Get(object, "requires_approval") # {} /\ Get(object, "requires_approval") # {<<"bool", FALSE>>}
  BY <1>1, <1>2
<1>4. ticked
  BY <1>3 DEF ApprovalTicked
<1>5. Get(saved, "requires_approval") = DialogApproval(ticked)
  BY DialogKeys
<1>. HIDE DEF saved, ticked
<1>6. Get(saved, "requires_approval") = {<<"bool", TRUE>>}
  BY <1>4, <1>5 DEF DialogApproval
<1>7. ParseApproval(<<"bool", TRUE>>).required
  BY DEF ParseApproval
<1>8. IsRequired(ParseApprovals(saved))
  BY <1>6, <1>7 DEF IsRequired, ParseApprovals
<1>. QED BY <1>8 DEF saved, ticked

LEMMA CreatableDialogKeeps ==
    ASSUME NEW column, NEW object, PageCreatable(object)
    PROVE  ConstraintsStay("creatable", ParseCreatable(object),
              ParseCreatable(SaveColumnConstraints(column, object, ApprovalTicked(object))))
<1>. DEFINE ticked == ApprovalTicked(object)
            saved == SaveColumnConstraints(column, object, ticked)
            old == ParseCreatable(object)
            new == ParseCreatable(saved)
<1>1. /\ old.approval = ParseApprovals(object) /\ new.approval = ParseApprovals(saved)
      /\ old.verify_with = UNION Get(object, "foreign_key")
      /\ new.verify_with = UNION Get(saved, "foreign_key")
      /\ old.restrict_to = Get(object, "restrict_to") /\ new.restrict_to = Get(saved, "restrict_to")
  BY DEF ParseCreatable
<1>2. /\ old.required = (Get(object, "required") = {TRUE})
      /\ new.required = (Get(saved, "required") = {TRUE})
  BY DEF ParseCreatable
<1>3. IsRequired(old.approval) => IsRequired(new.approval)
  BY <1>1, DialogKeepsApproval
<1>4. /\ Get(saved, "foreign_key") = Get(object, "foreign_key") \ {{}}
      /\ Get(saved, "restrict_to") = DialogLists(object)
      /\ Get(saved, "required") = DialogRequired(object)
  BY DialogKeys
<1>. HIDE DEF saved, ticked, old, new
<1>5. old.verify_with = new.verify_with
  BY <1>1, <1>4
<1>6. IsSome(old.restrict_to) = IsSome(new.restrict_to)
  BY <1>1, <1>4 DEF IsSome, DialogLists, PageCreatable
<1>7. Get(object, "required") = {TRUE} <=> Get(saved, "required") = {TRUE}
  BY <1>4, GetOption DEF Option, DialogRequired
<1>8. old.required = new.required
  BY <1>2, <1>7
<1>9. ConstraintsStay("creatable", old, new)
  BY <1>3, <1>5, <1>6, <1>8 DEF ConstraintsStay
<1>. QED BY <1>9 DEF old, new, saved, ticked

\* The columns that the rules of a column speak of.
Refs(sets) == [i \in DOMAIN sets |-> DOMAIN sets[i]]

LEMMA UpdatableDialogKeeps ==
    ASSUME NEW column, NEW object, PageUpdatable(object)
    PROVE  ConstraintsStay("updatable", ParseUpdatable(object),
              ParseUpdatable(SaveColumnConstraints(column, object, ApprovalTicked(object))))
<1>. DEFINE ticked == ApprovalTicked(object)
            saved == SaveColumnConstraints(column, object, ticked)
            old == ParseUpdatable(object)
            new == ParseUpdatable(saved)
<1>1. /\ old.approval = ParseApprovals(object) /\ new.approval = ParseApprovals(saved)
      /\ old.verify_with = UNION Get(object, "foreign_key")
      /\ new.verify_with = UNION Get(saved, "foreign_key")
      /\ old.only_when = {ParseOnlyWhen(sets) : sets \in Get(object, "only_when")}
      /\ new.only_when = {ParseOnlyWhen(sets) : sets \in Get(saved, "only_when")}
  BY DEF ParseUpdatable
<1>2. IsRequired(old.approval) => IsRequired(new.approval)
  BY <1>1, DialogKeepsApproval
<1>3. /\ Get(saved, "foreign_key") = Get(object, "foreign_key") \ {{}}
      /\ Option(DialogRules(column, object)) => Get(saved, "only_when") = DialogRules(column, object)
  BY DialogKeys
<1>. HIDE DEF saved, ticked, old, new
<1>4. old.verify_with = new.verify_with
  BY <1>1, <1>3
<1>5. \A sets : Refs(ParseOnlyWhen(sets)) = Refs(sets)
  BY DEF Refs, ParseOnlyWhen, ParseConditionSet
<1>6. \A sets \in Get(object, "only_when") :
         \E rules : SaveOnlyWhen(column, sets) = {rules} /\ Refs(rules) = Refs(sets)
  BY DialogKeepsRules DEF PageUpdatable, SameRefs, Refs
<1>7. Option(DialogRules(column, object))
  BY <1>6, GetOption DEF Option, DialogRules
<1>8. {Refs(sets) : sets \in Get(saved, "only_when")} = {Refs(sets) : sets \in Get(object, "only_when")}
  BY <1>3, <1>6, <1>7 DEF DialogRules
<1>9. {Refs(sets) : sets \in old.only_when} = {Refs(sets) : sets \in new.only_when}
  <2>1. {Refs(sets) : sets \in old.only_when} = {Refs(sets) : sets \in Get(object, "only_when")}
    BY <1>1, <1>5
  <2>2. {Refs(sets) : sets \in new.only_when} = {Refs(sets) : sets \in Get(saved, "only_when")}
    BY <1>1, <1>5
  <2>. QED BY <1>8, <2>1, <2>2
<1>10. ConstraintsStay("updatable", old, new)
  BY <1>2, <1>4, <1>9 DEF ConstraintsStay, Refs
<1>. QED BY <1>10 DEF old, new, saved, ticked

LEMMA ConstraintsStayTransitive ==
    ASSUME NEW part, NEW a, NEW b, NEW c, ConstraintsStay(part, a, b), ConstraintsStay(part, b, c)
    PROVE  ConstraintsStay(part, a, c)
<1>1. CASE part = "creatable"
  BY <1>1 DEF ConstraintsStay
<1>2. CASE part # "creatable"
  BY <1>2 DEF ConstraintsStay
<1>. QED BY <1>1, <1>2

-----------------------------------------------------------------------------
(* The parts of a table's permissions                                      *)

ParsePart(part, json) ==
    IF part = "readable" THEN (IF IsSome(json) THEN The(json) ELSE NoRead)
    ELSE IF part = "creatable" THEN ParseCreatables(json)
    ELSE IF part = "updatable" THEN ParseUpdatables(json) ELSE ParseDeletable(json)

PagePart(part, json) ==
    /\ part = "creatable" => PageCreatables(json)
    /\ part = "updatable" => PageUpdatables(json)
    /\ part = "deletable" => PageDeletable(json)

ParseObject(part, object) == IF part = "creatable" THEN ParseCreatable(object) ELSE ParseUpdatable(object)
PageObject(part, object) == IF part = "creatable" THEN PageCreatable(object) ELSE PageUpdatable(object)

LEMMA PartParsed ==
    ASSUME NEW json, NEW part \in Parts
    PROVE  ParseTable(json)[part] = ParsePart(part, json[part])
<1>1. CASE part = "readable"
  BY <1>1 DEF ParseTable, ParsePart
<1>2. CASE part = "creatable"
  BY <1>2 DEF ParseTable, ParsePart
<1>3. CASE part = "updatable"
  BY <1>3 DEF ParseTable, ParsePart
<1>4. CASE part = "deletable"
  BY <1>4 DEF ParseTable, ParsePart
<1>. QED BY <1>1, <1>2, <1>3, <1>4 DEF Parts

WithPart(json, part, new) == [json EXCEPT ![part] = new]

LEMMA PartReplaced ==
    ASSUME NEW json, PageTable(json), NEW part \in Parts, NEW new, PagePart(part, new)
    PROVE  /\ PageTable(WithPart(json, part, new))
           /\ \A p \in Parts : WithPart(json, part, new)[p] = IF p = part THEN new ELSE json[p]
<1>. DEFINE after == WithPart(json, part, new)
<1>1. json = [readable |-> json.readable, creatable |-> json.creatable,
              updatable |-> json.updatable, deletable |-> json.deletable]
  BY DEF PageTable
<1>2. DOMAIN json = Parts
  BY <1>1 DEF Parts
<1>3. \A p \in Parts : after[p] = IF p = part THEN new ELSE json[p]
  BY <1>2 DEF WithPart
<1>4. after = [p \in Parts |-> after[p]]
  BY <1>2 DEF WithPart
<1>. HIDE DEF after
<1>5. after = [readable |-> after.readable, creatable |-> after.creatable,
               updatable |-> after.updatable, deletable |-> after.deletable]
  BY <1>4 DEF Parts
<1>6. /\ PageCreatables(after.creatable) /\ PageUpdatables(after.updatable)
      /\ PageDeletable(after.deletable)
  BY <1>3 DEF Parts, PageTable, PagePart
<1>7. PageTable(after)
  BY <1>5, <1>6 DEF PageTable
<1>. QED BY <1>3, <1>7 DEF after

Replaced(tables, t, part, new) == [tables EXCEPT ![t] = [@ EXCEPT ![part] = new]]

\* Of all tables, one part of one table is replaced.
LEMMA TablesReplaced ==
    ASSUME NEW tables, PageTables(tables), NEW t \in DOMAIN tables, NEW part \in Parts,
           NEW new, PagePart(part, new)
    PROVE  /\ PageTables(Replaced(tables, t, part, new))
           /\ DOMAIN FormToTables(Replaced(tables, t, part, new)) = DOMAIN FormToTables(tables)
           /\ \A u \in DOMAIN FormToTables(tables), p \in Parts :
                 FormToTables(Replaced(tables, t, part, new))[u][p] =
                    IF u = t /\ p = part THEN ParsePart(part, new) ELSE FormToTables(tables)[u][p]
<1>. DEFINE after == Replaced(tables, t, part, new)
<1>1. PICK json : json = tables[t]
  OBVIOUS
<1>2. PICK replaced : replaced = WithPart(json, part, new)
  OBVIOUS
<1>3. PageTable(json)
  BY <1>1 DEF PageTables
<1>4. /\ PageTable(replaced)
      /\ \A p \in Parts : replaced[p] = IF p = part THEN new ELSE json[p]
  BY <1>3, <1>2, PartReplaced
<1>5. after = [tables EXCEPT ![t] = replaced]
  BY <1>1, <1>2 DEF WithPart, Replaced
<1>. HIDE DEF after
<1>6. DOMAIN after = DOMAIN tables /\ \A u \in DOMAIN tables : after[u] = IF u = t THEN replaced ELSE tables[u]
  BY <1>5
<1>7. after = [u \in DOMAIN after |-> after[u]]
  BY <1>5 DEF PageTables
<1>8. PageTables(after)
  BY <1>4, <1>6, <1>7 DEF PageTables
<1>9. /\ DOMAIN FormToTables(after) = DOMAIN tables /\ DOMAIN FormToTables(tables) = DOMAIN tables
      /\ \A u \in DOMAIN tables : /\ FormToTables(after)[u] = ParseTable(after[u])
                                  /\ FormToTables(tables)[u] = ParseTable(tables[u])
  BY <1>6 DEF FormToTables
<1>10. ASSUME NEW u \in DOMAIN tables, NEW p \in Parts
      PROVE  FormToTables(after)[u][p] = IF u = t /\ p = part THEN ParsePart(part, new)
                                         ELSE FormToTables(tables)[u][p]
  <2>1. /\ FormToTables(after)[u][p] = ParsePart(p, after[u][p])
        /\ FormToTables(tables)[u][p] = ParsePart(p, tables[u][p])
    <3>1. ParseTable(after[u])[p] = ParsePart(p, after[u][p])
      BY PartParsed
    <3>2. ParseTable(tables[u])[p] = ParsePart(p, tables[u][p])
      BY PartParsed
    <3>. QED BY <1>9, <3>1, <3>2
  <2>2. after[u][p] = IF u = t /\ p = part THEN new ELSE tables[u][p]
    BY <1>1, <1>4, <1>6
  <2>. QED BY <2>1, <2>2
<1>. QED BY <1>8, <1>9, <1>10 DEF after

\* The one map of columns that there may be, and how it is read.
Some(v) == {v}

LEMMA MapParsed ==
    ASSUME NEW part \in {"creatable", "updatable"}, NEW v
    PROVE  /\ ParsePart(part, Some(v)).all = v.all
           /\ DOMAIN ParsePart(part, Some(v)).map = DOMAIN v.map
           /\ \A c \in DOMAIN v.map : ParsePart(part, Some(v)).map[c] = ParseObject(part, v.map[c])
<1>1. IsSome(Some(v)) /\ The(Some(v)) = v
  BY DEF IsSome, The, Some
<1>2. CASE part = "creatable"
  <2>1. ParsePart(part, Some(v)) = [all |-> v.all, map |-> [c \in DOMAIN v.map |-> ParseCreatable(v.map[c])]]
    BY <1>1, <1>2 DEF ParsePart, ParseCreatables
  <2>. QED BY <1>2, <2>1 DEF ParseObject
<1>3. CASE part = "updatable"
  <2>1. ParsePart(part, Some(v)) = [all |-> v.all, map |-> [c \in DOMAIN v.map |-> ParseUpdatable(v.map[c])]]
    BY <1>1, <1>3 DEF ParsePart, ParseUpdatables
  <2>. QED BY <1>3, <2>1 DEF ParseObject
<1>. QED BY <1>2, <1>3

LEMMA MapOnPage ==
    ASSUME NEW part \in {"creatable", "updatable"}, NEW v
    PROVE  PagePart(part, Some(v)) <=> WellFormedMap(v) /\ \A c \in DOMAIN v.map : PageObject(part, v.map[c])
<1>1. CASE part = "creatable"
  BY <1>1 DEF PagePart, PageCreatables, PageObject, Option, Some
<1>2. CASE part = "updatable"
  BY <1>2 DEF PagePart, PageUpdatables, PageObject, Option, Some
<1>. QED BY <1>1, <1>2

-----------------------------------------------------------------------------
(* What a click changes of the role that the form would be read as         *)

\* Of a part of a table, what was neither touched nor in a dialog.
ColumnsKept(t, part, touched, dialogs, old, new) ==
    /\ old.all = new.all
    /\ \A c \in DOMAIN old.map \cup DOMAIN new.map :
          <<t, part, c>> \notin touched =>
             /\ c \in DOMAIN old.map \cap DOMAIN new.map
             /\ \/ new.map[c] = old.map[c]
                \/ /\ <<t, part, c>> \in dialogs
                   /\ ConstraintsStay(part, old.map[c], new.map[c])

Kept(touched, dialogs, old, new) ==
    \A t \in DOMAIN old \cup DOMAIN new :
        <<t>> \notin touched =>
           /\ t \in DOMAIN old \cap DOMAIN new
           /\ \A part \in {p \in Parts : <<t, p>> \notin touched} :
                 IF part \in {"creatable", "updatable"}
                 THEN ColumnsKept(t, part, touched, dialogs, old[t][part], new[t][part])
                 ELSE new[t][part] = old[t][part]

\* A click on what was kept so far.
LEMMA KeptStays ==
    ASSUME NEW d, NEW e, NEW touched, NEW dialogs, NEW old, NEW new,
           e.opened = d.opened, e.touched = d.touched \cup touched, e.dialogs = d.dialogs \cup dialogs,
           RestStays(d, old), Kept(touched, dialogs, old, new)
    PROVE  RestStays(e, new)
<1>. SUFFICES ASSUME NEW t \in DOMAIN e.opened \cup DOMAIN new, <<t>> \notin e.touched
              PROVE  /\ t \in DOMAIN e.opened \cap DOMAIN new
                     /\ \A part \in {p \in Parts : <<t, p>> \notin e.touched} :
                           IF part \in {"creatable", "updatable"}
                           THEN ColumnsStay(e, t, part, e.opened[t][part], new[t][part])
                           ELSE e.opened[t][part] = new[t][part]
  BY DEF RestStays
<1>1. <<t>> \notin d.touched /\ <<t>> \notin touched
  OBVIOUS
<1>2. t \in DOMAIN d.opened \cap DOMAIN old \cap DOMAIN new
  BY <1>1 DEF RestStays, Kept
<1>3. ASSUME NEW part \in Parts, <<t, part>> \notin e.touched, part \notin {"creatable", "updatable"}
      PROVE  e.opened[t][part] = new[t][part]
  <2>1. <<t, part>> \notin d.touched /\ <<t, part>> \notin touched
    BY <1>3
  <2>2. d.opened[t][part] = old[t][part]
    BY <1>1, <1>2, <1>3, <2>1 DEF RestStays
  <2>3. new[t][part] = old[t][part]
    BY <1>1, <1>2, <1>3, <2>1 DEF Kept
  <2>. QED BY <2>2, <2>3
<1>4. ASSUME NEW part \in {"creatable", "updatable"}, <<t, part>> \notin e.touched
      PROVE  ColumnsStay(e, t, part, e.opened[t][part], new[t][part])
  <2>1. <<t, part>> \notin d.touched /\ <<t, part>> \notin touched /\ part \in Parts
    BY <1>4 DEF Parts
  <2>2. ColumnsStay(d, t, part, d.opened[t][part], old[t][part])
    BY <1>1, <1>2, <1>4, <2>1 DEF RestStays
  <2>3. ColumnsKept(t, part, touched, dialogs, old[t][part], new[t][part])
    BY <1>1, <1>2, <1>4, <2>1 DEF Kept
  <2>4. PICK x, y, z : x = d.opened[t][part] /\ y = old[t][part] /\ z = new[t][part]
    OBVIOUS
  <2>5. ColumnsStay(d, t, part, x, y) /\ ColumnsKept(t, part, touched, dialogs, y, z)
    BY <2>2, <2>3, <2>4
  <2>6. ASSUME NEW c \in DOMAIN x.map \cup DOMAIN z.map, <<t, part, c>> \notin e.touched
        PROVE  /\ c \in DOMAIN x.map \cap DOMAIN z.map
               /\ IF <<t, part, c>> \in e.dialogs
                  THEN ConstraintsStay(part, x.map[c], z.map[c])
                  ELSE x.map[c] = z.map[c]
    <3>1. <<t, part, c>> \notin d.touched /\ <<t, part, c>> \notin touched
      BY <2>6
    <3>2. c \in DOMAIN x.map \cap DOMAIN y.map \cap DOMAIN z.map
      BY <2>5, <3>1 DEF ColumnsStay, ColumnsKept
    <3>3. IF <<t, part, c>> \in d.dialogs
          THEN ConstraintsStay(part, x.map[c], y.map[c]) ELSE x.map[c] = y.map[c]
      BY <2>5, <3>1, <3>2 DEF ColumnsStay
    <3>4. \/ z.map[c] = y.map[c]
          \/ <<t, part, c>> \in dialogs /\ ConstraintsStay(part, y.map[c], z.map[c])
      BY <2>5, <3>1, <3>2 DEF ColumnsKept
    <3>5. \A k : ConstraintsStay(part, k, k)
      BY <1>4 DEF ConstraintsStay
    <3>6. <<t, part, c>> \in e.dialogs <=> <<t, part, c>> \in d.dialogs \/ <<t, part, c>> \in dialogs
      OBVIOUS
    <3>. QED BY <3>2, <3>3, <3>4, <3>5, <3>6, ConstraintsStayTransitive
  <2>7. x.all = z.all
    BY <2>5 DEF ColumnsStay, ColumnsKept
  <2>8. ColumnsStay(e, t, part, x, z)
    BY <2>6, <2>7 DEF ColumnsStay
  <2>. QED BY <2>4, <2>8
<1>. QED BY <1>2, <1>3, <1>4

-----------------------------------------------------------------------------
(* The clicks                                                              *)

\* What the page holds and what was kept of it, after one part of a table was replaced.
PartClicked(tables, t, part, new, touched, dialogs) ==
    /\ PageTables(Replaced(tables, t, part, new))
    /\ Kept(touched, dialogs, FormToTables(tables), FormToTables(Replaced(tables, t, part, new)))

\* A permission that was set as a whole.
LEMMA PermissionClicked ==
    ASSUME NEW tables, PageTables(tables), NEW t \in DOMAIN tables, NEW part \in Parts,
           NEW new, PagePart(part, new)
    PROVE  PartClicked(tables, t, part, new, {<<t, part>>}, {})
<1>1. PICK after : after = Replaced(tables, t, part, new)
  OBVIOUS
<1>2. /\ PageTables(after)
      /\ DOMAIN FormToTables(after) = DOMAIN FormToTables(tables)
      /\ \A u \in DOMAIN FormToTables(tables), p \in Parts :
            FormToTables(after)[u][p] = IF u = t /\ p = part THEN ParsePart(part, new)
                                        ELSE FormToTables(tables)[u][p]
  BY <1>1, TablesReplaced
<1>3. PICK old, saved : old = FormToTables(tables) /\ saved = FormToTables(after)
  OBVIOUS
<1>4. \A u \in DOMAIN old, p \in Parts : <<u, p>> # <<t, part>> => saved[u][p] = old[u][p]
  BY <1>2, <1>3
<1>5. Kept({<<t, part>>}, {}, old, saved)
  BY <1>2, <1>3, <1>4 DEF Kept, ColumnsKept
<1>. QED BY <1>1, <1>2, <1>3, <1>5 DEF PartClicked

\* In a list of columns, all but column c stays.
OthersStay(v, w, c) ==
    /\ w.all = v.all
    /\ \A k \in DOMAIN v.map \cup DOMAIN w.map :
          k # c => k \in DOMAIN v.map \cap DOMAIN w.map /\ w.map[k] = v.map[k]

\* One column of a list that was changed, or whose dialog was confirmed.
LEMMA ColumnClicked ==
    ASSUME NEW tables, PageTables(tables), NEW t \in DOMAIN tables,
           NEW part \in {"creatable", "updatable"}, NEW v, tables[t][part] = Some(v),
           NEW w, PagePart(part, Some(w)), NEW c, OthersStay(v, w, c), NEW touched, NEW dialogs,
           \/ <<t, part, c>> \in touched
           \/ /\ <<t, part, c>> \in dialogs /\ c \in DOMAIN v.map \cap DOMAIN w.map
              /\ ConstraintsStay(part, ParseObject(part, v.map[c]), ParseObject(part, w.map[c]))
    PROVE  PartClicked(tables, t, part, Some(w), touched, dialogs)
<1>1. part \in Parts
  BY DEF Parts
<1>2. PICK new : new = Some(w)
  OBVIOUS
<1>3. PagePart(part, new)
  BY <1>2
<1>4. PICK after : after = Replaced(tables, t, part, new)
  OBVIOUS
<1>5. /\ PageTables(after)
      /\ DOMAIN FormToTables(after) = DOMAIN FormToTables(tables)
      /\ \A u \in DOMAIN FormToTables(tables), p \in Parts :
            FormToTables(after)[u][p] = IF u = t /\ p = part THEN ParsePart(part, new)
                                        ELSE FormToTables(tables)[u][p]
  BY <1>1, <1>3, <1>4, TablesReplaced
<1>6. PICK old, saved : old = FormToTables(tables) /\ saved = FormToTables(after)
  OBVIOUS
<1>7. \A u \in DOMAIN old, p \in Parts : <<u, p>> # <<t, part>> => saved[u][p] = old[u][p]
  BY <1>5, <1>6
<1>8. t \in DOMAIN old /\ old[t] = ParseTable(tables[t])
  BY <1>6 DEF FormToTables
<1>9. ParseTable(tables[t])[part] = ParsePart(part, tables[t][part])
  BY <1>1, PartParsed
<1>10. old[t][part] = ParsePart(part, Some(v)) /\ saved[t][part] = ParsePart(part, Some(w))
  BY <1>1, <1>2, <1>5, <1>6, <1>8, <1>9
<1>11. PICK x, y : x = ParsePart(part, Some(v)) /\ y = ParsePart(part, Some(w))
  OBVIOUS
<1>12. /\ x.all = v.all /\ DOMAIN x.map = DOMAIN v.map
      /\ \A k \in DOMAIN v.map : x.map[k] = ParseObject(part, v.map[k])
  BY <1>11, MapParsed
<1>13. /\ y.all = w.all /\ DOMAIN y.map = DOMAIN w.map
       /\ \A k \in DOMAIN w.map : y.map[k] = ParseObject(part, w.map[k])
  BY <1>11, MapParsed
<1>14. x.all = y.all
  BY <1>12, <1>13 DEF OthersStay
<1>15. ASSUME NEW k \in DOMAIN x.map \cup DOMAIN y.map, <<t, part, k>> \notin touched
       PROVE  /\ k \in DOMAIN x.map \cap DOMAIN y.map
              /\ \/ y.map[k] = x.map[k]
                 \/ <<t, part, k>> \in dialogs /\ ConstraintsStay(part, x.map[k], y.map[k])
  <2>1. CASE k = c
    BY <1>12, <1>13, <1>15, <2>1
  <2>2. CASE k # c
    <3>1. k \in DOMAIN v.map \cap DOMAIN w.map /\ w.map[k] = v.map[k]
      BY <1>12, <1>13, <2>2 DEF OthersStay
    <3>. QED BY <1>12, <1>13, <3>1
  <2>. QED BY <2>1, <2>2
<1>16. ColumnsKept(t, part, touched, dialogs, x, y)
  BY <1>14, <1>15 DEF ColumnsKept
<1>17. ASSUME NEW u \in DOMAIN old, NEW p \in {"creatable", "updatable"}
       PROVE  ColumnsKept(u, p, touched, dialogs, old[u][p], saved[u][p])
  <2>1. CASE u = t /\ p = part
    BY <1>10, <1>11, <1>16, <2>1
  <2>2. CASE <<u, p>> # <<t, part>>
    <3>1. saved[u][p] = old[u][p]
      BY <1>7, <2>2 DEF Parts
    <3>. QED BY <3>1 DEF ColumnsKept
  <2>. QED BY <2>1, <2>2
<1>18. \A u \in DOMAIN old, p \in Parts \ {"creatable", "updatable"} : saved[u][p] = old[u][p]
  BY <1>7
<1>19. DOMAIN saved = DOMAIN old
  BY <1>5, <1>6
<1>20. Kept(touched, dialogs, old, saved)
  BY <1>17, <1>18, <1>19 DEF Kept
<1>. QED BY <1>2, <1>4, <1>5, <1>6, <1>20 DEF PartClicked

\* A table that is ticked or unticked.
LEMMA TableAdded ==
    ASSUME NEW tables, PageTables(tables), NEW t
    PROVE  /\ PageTables(Overwritten(tables, [u \in {t} |-> SelectTable]))
           /\ Kept({<<t>>}, {}, FormToTables(tables),
                   FormToTables(Overwritten(tables, [u \in {t} |-> SelectTable])))
<1>1. PICK after : after = Overwritten(tables, [u \in {t} |-> SelectTable])
  OBVIOUS
<1>2. /\ DOMAIN after = DOMAIN tables \cup {t}
      /\ \A u \in DOMAIN after : after[u] = IF u = t THEN SelectTable ELSE tables[u]
      /\ after = [u \in DOMAIN after |-> after[u]]
  BY <1>1 DEF Overwritten
<1>3. PageTable(SelectTable)
  BY DEF PageTable, SelectTable, PageCreatables, PageUpdatables, PageDeletable, Option
<1>4. PageTables(after)
  BY <1>2, <1>3 DEF PageTables
<1>5. PICK old, saved : old = FormToTables(tables) /\ saved = FormToTables(after)
  OBVIOUS
<1>6. \A u \in (DOMAIN old \cup DOMAIN saved) \ {t} : u \in DOMAIN old \cap DOMAIN saved /\ saved[u] = old[u]
  BY <1>2, <1>5 DEF FormToTables
<1>7. Kept({<<t>>}, {}, old, saved)
  BY <1>6 DEF Kept, ColumnsKept
<1>. QED BY <1>1, <1>4, <1>5, <1>7

LEMMA TableRemoved ==
    ASSUME NEW tables, PageTables(tables), NEW t
    PROVE  /\ PageTables([u \in DOMAIN tables \ {t} |-> tables[u]])
           /\ Kept({<<t>>}, {}, FormToTables(tables),
                   FormToTables([u \in DOMAIN tables \ {t} |-> tables[u]]))
<1>1. PICK after : after = [u \in DOMAIN tables \ {t} |-> tables[u]]
  OBVIOUS
<1>2. /\ DOMAIN after = DOMAIN tables \ {t}
      /\ \A u \in DOMAIN after : after[u] = tables[u]
      /\ after = [u \in DOMAIN after |-> after[u]]
  BY <1>1
<1>3. PageTables(after)
  BY <1>2 DEF PageTables
<1>4. PICK old, saved : old = FormToTables(tables) /\ saved = FormToTables(after)
  OBVIOUS
<1>5. \A u \in (DOMAIN old \cup DOMAIN saved) \ {t} : u \in DOMAIN old \cap DOMAIN saved /\ saved[u] = old[u]
  BY <1>2, <1>4 DEF FormToTables
<1>6. Kept({<<t>>}, {}, old, saved)
  BY <1>5 DEF Kept, ColumnsKept
<1>. QED BY <1>1, <1>3, <1>4, <1>6

-----------------------------------------------------------------------------
(* The open editors                                                        *)

DraftFields == {"name", "new", "group", "opened", "schema", "rules", "tables", "touched", "dialogs"}

DraftCareful(d) ==
    DOMAIN d = DraftFields /\ PageTables(d.tables) /\ RestStays(d, FormToTables(d.tables))

DraftsCareful ==
    /\ DOMAIN drafts = Browsers
    /\ \A b \in Browsers : Option(drafts[b]) /\ \A d \in drafts[b] : DraftCareful(d)

LEMMA ClickKeeps ==
    ASSUME DraftsCareful, NEW b \in Browsers, NEW d \in drafts[b], NEW tables, PageTables(tables),
           NEW touched, NEW dialogs, Kept(touched, dialogs, FormToTables(d.tables), FormToTables(tables)),
           Click(b, tables, touched, dialogs)
    PROVE  DraftsCareful'
<1>. DEFINE e == [d EXCEPT !.tables = tables, !.touched = @ \cup touched, !.dialogs = @ \cup dialogs]
<1>1. DOMAIN d = DraftFields /\ RestStays(d, FormToTables(d.tables)) /\ drafts[b] = {d}
  BY DEF DraftsCareful, DraftCareful, Option
<1>2. /\ DOMAIN e = DraftFields /\ e.tables = tables /\ e.opened = d.opened
      /\ e.touched = d.touched \cup touched /\ e.dialogs = d.dialogs \cup dialogs
  BY <1>1 DEF DraftFields
<1>3. drafts' = [drafts EXCEPT ![b] = {e}]
  BY <1>1 DEF Click
<1>. HIDE DEF e
<1>4. RestStays(e, FormToTables(tables))
  BY <1>1, <1>2, KeptStays
<1>5. DraftCareful(e)
  BY <1>2, <1>4 DEF DraftCareful
<1>6. DOMAIN drafts' = Browsers /\ \A a \in Browsers : drafts'[a] = IF a = b THEN {e} ELSE drafts[a]
  BY <1>3 DEF DraftsCareful
<1>. QED BY <1>5, <1>6 DEF DraftsCareful, Option

LEMMA PartClickKeeps ==
    ASSUME DraftsCareful, NEW b \in Browsers, NEW d \in drafts[b], NEW t, NEW part, NEW new,
           NEW touched, NEW dialogs, PartClicked(d.tables, t, part, new, touched, dialogs),
           ClickPart(b, d, t, part, new, touched, dialogs)
    PROVE  DraftsCareful'
<1>1. PICK tables : tables = Replaced(d.tables, t, part, new)
  OBVIOUS
<1>2. PageTables(tables) /\ Kept(touched, dialogs, FormToTables(d.tables), FormToTables(tables))
  BY <1>1 DEF PartClicked
<1>3. Click(b, tables, touched, dialogs)
  BY <1>1 DEF ClickPart, Replaced
<1>. QED BY <1>2, <1>3, ClickKeeps

LEMMA PermissionClickKeeps ==
    ASSUME DraftsCareful, NEW b \in Browsers, NEW d \in drafts[b], NEW t \in DOMAIN d.tables,
           NEW part \in Parts, NEW new, PagePart(part, new),
           ClickPart(b, d, t, part, new, {<<t, part>>}, {})
    PROVE  DraftsCareful'
<1>1. PageTables(d.tables)
  BY DEF DraftsCareful, DraftCareful
<1>2. PartClicked(d.tables, t, part, new, {<<t, part>>}, {})
  BY <1>1, PermissionClicked
<1>. QED BY <1>2, PartClickKeeps

LEMMA TableClicksKeep ==
    ASSUME DraftsCareful, NEW b \in Browsers, ClickTable(b) PROVE DraftsCareful'
<1>1. PICK d \in drafts[b] :
         \/ \E t : Click(b, Overwritten(d.tables, [u \in {t} |-> SelectTable]), {<<t>>}, {})
         \/ \E t : Click(b, [u \in DOMAIN d.tables \ {t} |-> d.tables[u]], {<<t>>}, {})
  BY Zenon DEF ClickTable
<1>2. PageTables(d.tables)
  BY DEF DraftsCareful, DraftCareful
<1>3. ASSUME NEW t, Click(b, Overwritten(d.tables, [u \in {t} |-> SelectTable]), {<<t>>}, {})
      PROVE  DraftsCareful'
  <2>1. PICK tables : tables = Overwritten(d.tables, [u \in {t} |-> SelectTable])
    OBVIOUS
  <2>2. PageTables(tables) /\ Kept({<<t>>}, {}, FormToTables(d.tables), FormToTables(tables))
    BY <1>2, <2>1, TableAdded
  <2>3. Click(b, tables, {<<t>>}, {})
    BY <1>3, <2>1
  <2>. QED BY <2>2, <2>3, ClickKeeps
<1>4. ASSUME NEW t, Click(b, [u \in DOMAIN d.tables \ {t} |-> d.tables[u]], {<<t>>}, {})
      PROVE  DraftsCareful'
  <2>1. PICK tables : tables = [u \in DOMAIN d.tables \ {t} |-> d.tables[u]]
    OBVIOUS
  <2>2. PageTables(tables) /\ Kept({<<t>>}, {}, FormToTables(d.tables), FormToTables(tables))
    BY <1>2, <2>1, TableRemoved
  <2>3. Click(b, tables, {<<t>>}, {})
    BY <1>4, <2>1
  <2>. QED BY <2>2, <2>3, ClickKeeps
<1>. QED BY <1>1, <1>3, <1>4

LEMMA PermissionClicksKeep ==
    ASSUME DraftsCareful, NEW b \in Browsers, ClickPermission(b) PROVE DraftsCareful'
<1>1. PICK d \in drafts[b] : \E t \in DOMAIN d.tables :
         \/ \E part \in Parts \ {"deletable"}, enabled \in BOOLEAN :
               ClickPart(b, d, t, part, TogglePermission(part, enabled), {<<t, part>>}, {})
         \/ \E part \in Parts \ {"deletable"}, all \in BOOLEAN :
               ClickPart(b, d, t, part, SetAllColumns(part, all), {<<t, part>>}, {})
         \/ \E enabled \in BOOLEAN :
               ClickPart(b, d, t, "deletable", ToggleDeletable(enabled), {<<t, "deletable">>}, {})
  BY Zenon DEF ClickPermission
<1>2. PICK t \in DOMAIN d.tables :
         \/ \E part \in Parts \ {"deletable"}, enabled \in BOOLEAN :
               ClickPart(b, d, t, part, TogglePermission(part, enabled), {<<t, part>>}, {})
         \/ \E part \in Parts \ {"deletable"}, all \in BOOLEAN :
               ClickPart(b, d, t, part, SetAllColumns(part, all), {<<t, part>>}, {})
         \/ \E enabled \in BOOLEAN :
               ClickPart(b, d, t, "deletable", ToggleDeletable(enabled), {<<t, "deletable">>}, {})
  BY <1>1
<1>3. ASSUME NEW all \in BOOLEAN PROVE WellFormedMap([NoMap EXCEPT !.all = all])
                                       /\ DOMAIN [NoMap EXCEPT !.all = all].map = {}
  BY DEF WellFormedMap, NoMap, NoKeys
<1>4. WellFormedMap(NoMap) /\ DOMAIN NoMap.map = {}
  BY DEF WellFormedMap, NoMap, NoKeys
<1>5. ASSUME NEW part \in Parts \ {"deletable"}, NEW enabled \in BOOLEAN
      PROVE  PagePart(part, TogglePermission(part, enabled))
  BY <1>4 DEF PagePart, PageCreatables, PageUpdatables, TogglePermission, Option
<1>6. ASSUME NEW part \in Parts \ {"deletable"}, NEW all \in BOOLEAN
      PROVE  PagePart(part, SetAllColumns(part, all))
  BY <1>3 DEF PagePart, PageCreatables, PageUpdatables, SetAllColumns, Option
<1>7. ASSUME NEW enabled \in BOOLEAN
      PROVE  PagePart("deletable", ToggleDeletable(enabled))
  <2>1. Get(NoKeys, "requires_approval") = {}
    BY DEF Get, NoKeys
  <2>. QED BY <2>1 DEF PagePart, PageDeletable, PageApprovals, ToggleDeletable, Option
<1>8. ASSUME NEW part \in Parts \ {"deletable"}, NEW enabled \in BOOLEAN,
             ClickPart(b, d, t, part, TogglePermission(part, enabled), {<<t, part>>}, {})
      PROVE  DraftsCareful'
  BY <1>5, <1>8, PermissionClickKeeps
<1>9. ASSUME NEW part \in Parts \ {"deletable"}, NEW all \in BOOLEAN,
             ClickPart(b, d, t, part, SetAllColumns(part, all), {<<t, part>>}, {})
      PROVE  DraftsCareful'
  BY <1>6, <1>9, PermissionClickKeeps
<1>10. ASSUME NEW enabled \in BOOLEAN,
             ClickPart(b, d, t, "deletable", ToggleDeletable(enabled), {<<t, "deletable">>}, {})
      PROVE  DraftsCareful'
  <2>1. "deletable" \in Parts
    BY DEF Parts
  <2>. QED BY <1>7, <1>10, <2>1, PermissionClickKeeps
<1>. QED BY <1>2, <1>8, <1>9, <1>10

LEMMA DeletableOptionSet ==
    ASSUME NEW json, PageDeletable(json), NEW key, NEW option,
           key = "requires_approval" => option \subseteq {<<"bool", TRUE>>}
    PROVE  PageDeletable(SetDeletableOption(json, key, option))
<1>. DEFINE Keys(d) == (DOMAIN d \ {key}) \cup (IF IsSome(option) THEN {key} ELSE {})
            Set(d) == [k \in Keys(d) |-> IF k = key THEN The(option) ELSE d[k]]
<1>1. SetDeletableOption(json, key, option) = {Set(d) : d \in json}
  BY DEF SetDeletableOption
<1>2. ASSUME NEW d \in json PROVE PageApprovals(Set(d))
  <2>1. PageApprovals(d)
    BY DEF PageDeletable
  <2>2. ASSUME NEW v \in Get(Set(d), "requires_approval"), v[1] = "bool" PROVE v[2] \in BOOLEAN
    <3>1. "requires_approval" \in Keys(d) /\ v = Set(d)["requires_approval"]
      BY DEF Get
    <3>2. CASE key = "requires_approval"
      <4>1. IsSome(option) /\ v = The(option)
        BY <3>1, <3>2
      <4>2. v \in option
        BY <4>1 DEF IsSome, The
      <4>3. v = <<"bool", TRUE>>
        BY <3>2, <4>2
      <4>. QED BY <4>3
    <3>3. CASE key # "requires_approval"
      <4>1. "requires_approval" \in DOMAIN d /\ v = d["requires_approval"]
        BY <3>1, <3>3
      <4>. QED BY <2>1, <2>2, <4>1 DEF PageApprovals, Get
    <3>. QED BY <3>2, <3>3
  <2>. QED BY <2>2 DEF PageApprovals
<1>. HIDE DEF Set
<1>3. Option({Set(d) : d \in json})
  BY DEF PageDeletable, Option
<1>. QED BY <1>1, <1>2, <1>3 DEF PageDeletable

LEMMA OptionClicksKeep ==
    ASSUME DraftsCareful, NEW b \in Browsers, ClickOption(b) PROVE DraftsCareful'
<1>1. PICK d \in drafts[b] : \E t \in DOMAIN d.tables :
         \/ \E new : ClickPart(b, d, t, "readable", new, {<<t, "readable">>}, {})
         \/ \E key, option :
               /\ key = "requires_approval" => option \subseteq {<<"bool", TRUE>>}
               /\ ClickPart(b, d, t, "deletable", SetDeletableOption(d.tables[t].deletable, key, option),
                            {<<t, "deletable">>}, {})
  <2>1. PICK d, t : d \in drafts[b] /\ t \in DOMAIN d.tables /\
         (\/ \E max \in {{}, {10}} :
                ClickPart(b, d, t, "readable", SetMaxPerPage(d.tables[t].readable, max),
                             {<<t, "readable">>}, {})
          \/ \E key \in {"requires_approval", "soft_delete"}, value \in BOOLEAN :
                LET set == IF key = "soft_delete" THEN TRUE ELSE <<"bool", TRUE>>
                IN ClickPart(b, d, t, "deletable",
                                SetDeletableOption(d.tables[t].deletable, key, IF value THEN {set} ELSE {}),
                                {<<t, "deletable">>}, {})
          \/ \E columns \in {{}, Columns(d, t)} :
                ClickPart(b, d, t, "deletable",
                             SetDeletableOption(d.tables[t].deletable, "verify_with",
                                                IF columns = {} THEN {} ELSE {columns}),
                             {<<t, "deletable">>}, {}))
    BY Zenon DEF ClickOption
  <2>2. CASE \E max \in {{}, {10}} :
                ClickPart(b, d, t, "readable", SetMaxPerPage(d.tables[t].readable, max),
                             {<<t, "readable">>}, {})
    BY <2>1, <2>2, Zenon
  <2>3. ASSUME NEW key \in {"requires_approval", "soft_delete"}, NEW value \in BOOLEAN,
               NEW set, set = IF key = "soft_delete" THEN TRUE ELSE <<"bool", TRUE>>,
               ClickPart(b, d, t, "deletable",
                         SetDeletableOption(d.tables[t].deletable, key, IF value THEN {set} ELSE {}),
                         {<<t, "deletable">>}, {})
        PROVE  \E other, option :
                  /\ other = "requires_approval" => option \subseteq {<<"bool", TRUE>>}
                  /\ ClickPart(b, d, t, "deletable",
                               SetDeletableOption(d.tables[t].deletable, other, option),
                               {<<t, "deletable">>}, {})
    <3>1. PICK option : option = IF value THEN {set} ELSE {}
      OBVIOUS
    <3>2. key = "requires_approval" => option \subseteq {<<"bool", TRUE>>}
      BY <2>3, <3>1
    <3>3. ClickPart(b, d, t, "deletable", SetDeletableOption(d.tables[t].deletable, key, option),
                    {<<t, "deletable">>}, {})
      BY <2>3, <3>1, Zenon
    <3>. QED BY <3>2, <3>3, Zenon
  <2>4. ASSUME NEW columns,
               ClickPart(b, d, t, "deletable",
                             SetDeletableOption(d.tables[t].deletable, "verify_with",
                                                IF columns = {} THEN {} ELSE {columns}),
                             {<<t, "deletable">>}, {})
        PROVE  \E key, option :
                  /\ key = "requires_approval" => option \subseteq {<<"bool", TRUE>>}
                  /\ ClickPart(b, d, t, "deletable", SetDeletableOption(d.tables[t].deletable, key, option),
                               {<<t, "deletable">>}, {})
    <3>1. PICK key, option : key = "verify_with" /\ option = IF columns = {} THEN {} ELSE {columns}
      OBVIOUS
    <3>2. ClickPart(b, d, t, "deletable", SetDeletableOption(d.tables[t].deletable, key, option),
                    {<<t, "deletable">>}, {})
      BY <2>4, <3>1, Zenon
    <3>3. key # "requires_approval"
      BY <3>1
    <3>. QED BY <3>2, <3>3, Zenon
  <2>. QED BY <2>1, <2>2, <2>3, <2>4, Zenon
<1>2. PICK t \in DOMAIN d.tables :
         \/ \E new : ClickPart(b, d, t, "readable", new, {<<t, "readable">>}, {})
         \/ \E key, option :
               /\ key = "requires_approval" => option \subseteq {<<"bool", TRUE>>}
               /\ ClickPart(b, d, t, "deletable", SetDeletableOption(d.tables[t].deletable, key, option),
                            {<<t, "deletable">>}, {})
  BY <1>1
<1>3. "readable" \in Parts /\ "deletable" \in Parts
  BY DEF Parts
<1>4. ASSUME NEW new, ClickPart(b, d, t, "readable", new, {<<t, "readable">>}, {})
      PROVE  DraftsCareful'
  <2>1. PagePart("readable", new)
    BY DEF PagePart
  <2>. QED BY <1>3, <1>4, <2>1, PermissionClickKeeps
<1>5. ASSUME NEW key, NEW option, key = "requires_approval" => option \subseteq {<<"bool", TRUE>>},
             ClickPart(b, d, t, "deletable", SetDeletableOption(d.tables[t].deletable, key, option),
                       {<<t, "deletable">>}, {})
      PROVE  DraftsCareful'
  <2>1. PageDeletable(d.tables[t].deletable)
    BY DEF DraftsCareful, DraftCareful, PageTables, PageTable
  <2>2. PICK new : new = SetDeletableOption(d.tables[t].deletable, key, option)
    OBVIOUS
  <2>3. PageDeletable(new)
    BY <1>5, <2>1, <2>2, DeletableOptionSet
  <2>4. PagePart("deletable", new)
    BY <2>3 DEF PagePart
  <2>5. ClickPart(b, d, t, "deletable", new, {<<t, "deletable">>}, {})
    BY <1>5, <2>2
  <2>. QED BY <1>3, <2>4, <2>5, PermissionClickKeeps
<1>. QED BY <1>2, <1>4, <1>5

\* A list of columns on the page.
LEMMA ListOnPage ==
    ASSUME DraftsCareful, NEW b \in Browsers, NEW d \in drafts[b], NEW t \in DOMAIN d.tables,
           NEW part \in {"creatable", "updatable"}, Listing(d, t, part)
    PROVE  \E v : /\ d.tables[t][part] = Some(v) /\ ~v.all /\ The(d.tables[t][part]) = v
                  /\ PagePart(part, Some(v))
<1>1. PICK json : json = d.tables[t]
  OBVIOUS
<1>2. PageCreatables(json.creatable) /\ PageUpdatables(json.updatable)
  BY <1>1 DEF DraftsCareful, DraftCareful, PageTables, PageTable
<1>3. PagePart(part, json[part]) /\ Option(json[part])
  BY <1>2 DEF PagePart, PageCreatables, PageUpdatables
<1>4. PICK v \in json[part] : ~v.all
  BY <1>1 DEF Listing
<1>5. json[part] = Some(v) /\ The(json[part]) = v
  BY <1>3, <1>4 DEF Option, Some, The
<1>. QED BY <1>1, <1>3, <1>4, <1>5

LEMMA ColumnClicksKeep ==
    ASSUME DraftsCareful, NEW b \in Browsers, ClickColumn(b) PROVE DraftsCareful'
<1>1. PICK d, t : d \in drafts[b] /\ t \in DOMAIN d.tables /\
         (\/ \E new : ClickPart(b, d, t, "readable", new, {<<t, "readable">>}, {})
          \/ \E c : \E part \in {"creatable", "updatable"}, checked \in BOOLEAN :
                /\ Listing(d, t, part)
                /\ ClickPart(b, d, t, part, ToggleColumn(d.tables[t][part], c, checked),
                             {<<t, part, c>>}, {}))
  BY Zenon DEF ClickColumn
<1>2. "readable" \in Parts
  BY DEF Parts
<1>3. ASSUME NEW new, ClickPart(b, d, t, "readable", new, {<<t, "readable">>}, {})
      PROVE  DraftsCareful'
  <2>1. PagePart("readable", new)
    BY DEF PagePart
  <2>. QED BY <1>1, <1>2, <1>3, <2>1, PermissionClickKeeps
<1>4. ASSUME NEW part \in {"creatable", "updatable"}, NEW c, NEW checked \in BOOLEAN,
             Listing(d, t, part),
             ClickPart(b, d, t, part, ToggleColumn(d.tables[t][part], c, checked), {<<t, part, c>>}, {})
      PROVE  DraftsCareful'
  <2>1. PICK v : /\ d.tables[t][part] = Some(v) /\ ~v.all /\ PagePart(part, Some(v))
    BY <1>1, <1>4, ListOnPage
  <2>2. WellFormedMap(v) /\ \A k \in DOMAIN v.map : PageObject(part, v.map[k])
    BY <2>1, MapOnPage
  <2>. DEFINE kept == IF checked THEN DOMAIN v.map \cup {c} ELSE DOMAIN v.map \ {c}
              map == [k \in kept |-> IF k = c THEN NoKeys ELSE v.map[k]]
              w == [v EXCEPT !.map = map]
  <2>3. ToggleColumn(d.tables[t][part], c, checked) = Some(w)
    BY <2>1 DEF ToggleColumn, Some
  <2>4. DOMAIN map = kept /\ map = [k \in DOMAIN map |-> map[k]]
        /\ \A k \in DOMAIN map : map[k] = IF k = c THEN NoKeys ELSE v.map[k]
    OBVIOUS
  <2>5. \A k \in kept : k = c \/ k \in DOMAIN v.map
    OBVIOUS
  <2>6. \A k \in DOMAIN v.map : k = c \/ k \in kept
    OBVIOUS
  <2>. HIDE DEF map, kept
  <2>7. w.all = v.all /\ w.map = map /\ WellFormedMap(w)
    BY <2>2, <2>4 DEF WellFormedMap
  <2>. HIDE DEF w
  <2>8. PageObject(part, NoKeys)
    <3>1. \A key : Get(NoKeys, key) = {}
      BY DEF Get, NoKeys
    <3>. QED BY <3>1 DEF PageObject, PageCreatable, PageUpdatable, PageApprovals
  <2>9. \A k \in DOMAIN w.map : PageObject(part, w.map[k])
    BY <2>2, <2>4, <2>5, <2>7, <2>8
  <2>10. PagePart(part, Some(w))
    BY <2>7, <2>9, MapOnPage
  <2>11. OthersStay(v, w, c)
    BY <2>4, <2>5, <2>6, <2>7 DEF OthersStay
  <2>12. PageTables(d.tables)
    BY <1>1 DEF DraftsCareful, DraftCareful
  <2>13. <<t, part, c>> \in {<<t, part, c>>}
    OBVIOUS
  <2>14. PICK touched : touched = {<<t, part, c>>}
    OBVIOUS
  <2>15. PartClicked(d.tables, t, part, Some(w), touched, {})
    BY <1>1, <2>1, <2>10, <2>11, <2>12, <2>13, <2>14, ColumnClicked
  <2>16. ClickPart(b, d, t, part, Some(w), touched, {})
    BY <1>4, <2>3, <2>14
  <2>. QED BY <1>1, <2>15, <2>16, PartClickKeeps
<1>. QED BY <1>1, <1>3, <1>4

LEMMA DialogClicksKeep ==
    ASSUME DraftsCareful, NEW b \in Browsers, ClickDialog(b) PROVE DraftsCareful'
<1>. DEFINE Saved(columns, c, ticked) == SaveColumnConstraints(c, columns.map[c], ticked)
            Same(columns, c, ticked) == ticked = ApprovalTicked(columns.map[c])
<1>1. PICK d, t, part, c, ticked, columns :
         /\ d \in drafts[b] /\ t \in DOMAIN d.tables /\ part \in {"creatable", "updatable"}
         /\ Listing(d, t, part) /\ columns = The(d.tables[t][part])
         /\ c \in DOMAIN columns.map /\ ticked \in BOOLEAN
         /\ ClickPart(b, d, t, part, {[columns EXCEPT !.map[c] = Saved(columns, c, ticked)]},
                      IF Same(columns, c, ticked) THEN {} ELSE {<<t, part, c>>},
                      IF Same(columns, c, ticked) THEN {<<t, part, c>>} ELSE {})
  <2>. DEFINE Confirm(d, t, part) ==
                LET columns == The(d.tables[t][part])
                IN \E c \in (DOMAIN columns.map \cap Columns(d, t)) \ TenantColumns(d, t), ticked \in BOOLEAN :
                      LET at == {<<t, part, c>>}
                          saved == SaveColumnConstraints(c, columns.map[c], ticked)
                          same == ticked = ApprovalTicked(columns.map[c])
                      IN ClickPart(b, d, t, part, {[columns EXCEPT !.map[c] = saved]},
                                   IF same THEN {} ELSE at, IF same THEN at ELSE {})
  <2>1. PICK d \in drafts[b] : \E t \in DOMAIN d.tables : \E part \in {"creatable", "updatable"} :
           Listing(d, t, part) /\ Confirm(d, t, part)
    BY DEF ClickDialog
  <2>2. PICK t \in DOMAIN d.tables, part \in {"creatable", "updatable"} :
           Listing(d, t, part) /\ Confirm(d, t, part)
    BY <2>1
  <2>3. PICK columns : columns = The(d.tables[t][part])
    OBVIOUS
  <2>4. \E c \in DOMAIN columns.map, ticked \in BOOLEAN :
                 ClickPart(b, d, t, part, {[columns EXCEPT !.map[c] = Saved(columns, c, ticked)]},
                      IF Same(columns, c, ticked) THEN {} ELSE {<<t, part, c>>},
                      IF Same(columns, c, ticked) THEN {<<t, part, c>>} ELSE {})
    BY <2>2, <2>3, Zenon DEF Saved, Same
  <2>. QED BY <2>2, <2>3, <2>4, Zenon
<1>2. columns.map[c] = columns.map[c] /\ PageTables(d.tables)
  BY <1>1 DEF DraftsCareful, DraftCareful
<1>3. d.tables[t][part] = Some(columns) /\ PagePart(part, Some(columns))
  BY <1>1, ListOnPage
<1>4. PICK saved, same : /\ saved = Saved(columns, c, ticked)
                         /\ same = Same(columns, c, ticked)
  OBVIOUS
<1>. DEFINE w == [columns EXCEPT !.map[c] = saved]
<1>5. ClickPart(b, d, t, part, Some(w), IF same THEN {} ELSE {<<t, part, c>>},
                IF same THEN {<<t, part, c>>} ELSE {})
  BY <1>1, <1>4, Zenon DEF Some
<1>6. WellFormedMap(columns) /\ \A k \in DOMAIN columns.map : PageObject(part, columns.map[k])
  BY <1>1, <1>3, MapOnPage
<1>7. /\ w.all = columns.all /\ DOMAIN w.map = DOMAIN columns.map /\ WellFormedMap(w)
      /\ \A k \in DOMAIN w.map : w.map[k] = IF k = c THEN saved ELSE columns.map[k]
  BY <1>6 DEF WellFormedMap
<1>. HIDE DEF w
<1>8. PICK object : object = columns.map[c]
  OBVIOUS
<1>9. PageObject(part, object)
  BY <1>1, <1>6, <1>8
<1>10. saved = SaveColumnConstraints(c, object, ticked) /\ same = (ticked = ApprovalTicked(object))
  BY <1>4, <1>8
<1>11. PageObject(part, saved)
  BY <1>1, <1>9, <1>10, DialogKeepsPage DEF PageObject
<1>12. PagePart(part, Some(w))
  <2>1. \A k \in DOMAIN w.map : PageObject(part, w.map[k])
    BY <1>6, <1>7, <1>11
  <2>. QED BY <1>1, <1>7, <2>1, MapOnPage
<1>13. OthersStay(columns, w, c)
  BY <1>7 DEF OthersStay
<1>14. ASSUME same
       PROVE  ConstraintsStay(part, ParseObject(part, object), ParseObject(part, saved))
  <2>1. saved = SaveColumnConstraints(c, object, ApprovalTicked(object))
    BY <1>10, <1>14
  <2>2. CASE part = "creatable"
    BY <1>9, <2>1, <2>2, CreatableDialogKeeps DEF ParseObject, PageObject
  <2>3. CASE part = "updatable"
    BY <1>9, <2>1, <2>3, UpdatableDialogKeeps DEF ParseObject, PageObject
  <2>. QED BY <1>1, <2>2, <2>3
<1>15. PICK touched, dialogs : /\ touched = IF same THEN {} ELSE {<<t, part, c>>}
                               /\ dialogs = IF same THEN {<<t, part, c>>} ELSE {}
  OBVIOUS
<1>16. c \in DOMAIN columns.map \cap DOMAIN w.map /\ w.map[c] = saved
  BY <1>1, <1>7
<1>17. \/ <<t, part, c>> \in touched
       \/ /\ <<t, part, c>> \in dialogs /\ c \in DOMAIN columns.map \cap DOMAIN w.map
          /\ ConstraintsStay(part, ParseObject(part, columns.map[c]), ParseObject(part, w.map[c]))
  BY <1>8, <1>14, <1>15, <1>16
<1>18. PartClicked(d.tables, t, part, Some(w), touched, dialogs)
  BY <1>1, <1>2, <1>3, <1>12, <1>13, <1>17, ColumnClicked
<1>19. ClickPart(b, d, t, part, Some(w), touched, dialogs)
  BY <1>5, <1>15 DEF w
<1>. QED BY <1>1, <1>18, <1>19, PartClickKeeps

\* The group of the role is no part of its tables.
LEMMA GroupClicksKeep ==
    ASSUME DraftsCareful, NEW b \in Browsers, ClickGroup(b) PROVE DraftsCareful'
<1>1. PICK d \in drafts[b] : \E group : drafts' = [drafts EXCEPT ![b] = {[d EXCEPT !.group = group]}]
  BY Zenon DEF ClickGroup
<1>2. PICK group : drafts' = [drafts EXCEPT ![b] = {[d EXCEPT !.group = group]}]
  BY <1>1
<1>. DEFINE e == [d EXCEPT !.group = group]
<1>3. DraftCareful(d)
  BY DEF DraftsCareful
<1>4. /\ DOMAIN e = DraftFields /\ e.tables = d.tables /\ e.opened = d.opened
      /\ e.touched = d.touched /\ e.dialogs = d.dialogs
  BY <1>3 DEF DraftCareful, DraftFields
<1>. HIDE DEF e
<1>5. RestStays(e, FormToTables(e.tables))
  BY <1>3, <1>4 DEF DraftCareful, RestStays, ColumnsStay
<1>6. DraftCareful(e)
  BY <1>3, <1>4, <1>5 DEF DraftCareful
<1>7. DOMAIN drafts' = Browsers /\ \A a \in Browsers : drafts'[a] = IF a = b THEN {e} ELSE drafts[a]
  BY <1>2 DEF DraftsCareful, e
<1>. QED BY <1>6, <1>7 DEF DraftsCareful, Option

\* An editor that opens has clicked nothing.
LEMMA EditorOpens ==
    ASSUME DraftsCareful, NEW b \in Browsers, NEW name, NEW new, NEW group,
           NEW tables, CarefulRole(tables),
           drafts' = [drafts EXCEPT ![b] = Editor(name, new, group, tables)]
    PROVE  DraftsCareful'
<1>. DEFINE d == [name |-> name, new |-> new, group |-> group, opened |-> tables,
                  schema |-> (The(dash)).cache, rules |-> proc.config.rules,
                  tables |-> RoleTablesToJson(tables), touched |-> {}, dialogs |-> {}]
<1>1. Editor(name, new, group, tables) = {d}
  BY DEF Editor
<1>2. DOMAIN d = DraftFields /\ d.tables = RoleTablesToJson(tables) /\ d.opened = tables
  BY DEF DraftFields
<1>. HIDE DEF d
<1>3. PageTables(RoleTablesToJson(tables))
  BY TablesShown
<1>4. FormToTables(RoleTablesToJson(tables)) = tables
  BY OpeningChangesNothing DEF CarefulRole
<1>5. RestStays(d, tables)
  BY <1>2 DEF RestStays, ColumnsStay, ConstraintsStay
<1>6. DraftCareful(d)
  BY <1>2, <1>3, <1>4, <1>5 DEF DraftCareful
<1>7. DOMAIN drafts' = Browsers /\ \A a \in Browsers : drafts'[a] = IF a = b THEN {d} ELSE drafts[a]
  BY <1>1 DEF DraftsCareful
<1>. QED BY <1>6, <1>7 DEF DraftsCareful, Option

LEMMA NoTablesAreCareful == CarefulRole(NoKeys)
  BY DEF CarefulRole, RoleTables, NoKeys

-----------------------------------------------------------------------------
(* The roles that init writes                                              *)

LEMMA PlainParts ==
    /\ WellFormedMap(NoMap) /\ NoMap.map = NoKeys /\ WellFormedDeletable(NoDelete)
    /\ WellFormedMap([NoMap EXCEPT !.all = TRUE]) /\ [NoMap EXCEPT !.all = TRUE].map = NoKeys
    /\ WellFormedDeletable([NoDelete EXCEPT !.allowed = TRUE])
    /\ DOMAIN NoKeys = {}
<1>1. DOMAIN NoKeys = {} /\ NoKeys = [c \in DOMAIN NoKeys |-> NoKeys[c]]
  BY DEF NoKeys
<1>2. WellFormedMap(NoMap) /\ NoMap.map = NoKeys
  BY <1>1 DEF NoMap, WellFormedMap
<1>3. PICK all : all = [NoMap EXCEPT !.all = TRUE]
  OBVIOUS
<1>4. all = [all |-> all.all, map |-> all.map] /\ all.all = TRUE /\ all.map = NoKeys
  BY <1>3 DEF NoMap
<1>5. WellFormedMap(all)
  BY <1>1, <1>4 DEF WellFormedMap
<1>6. WellFormedDeletable(NoDelete)
  BY DEF WellFormedDeletable, NoDelete, WellFormedApprovals, Option
<1>7. PICK deletable : deletable = [NoDelete EXCEPT !.allowed = TRUE]
  OBVIOUS
<1>8. /\ deletable = [allowed |-> deletable.allowed, approval |-> deletable.approval,
                      soft_delete |-> deletable.soft_delete, verify_with |-> deletable.verify_with]
      /\ deletable.allowed = TRUE /\ deletable.approval = {} /\ deletable.soft_delete = FALSE
  BY <1>7 DEF NoDelete
<1>9. WellFormedDeletable(deletable)
  BY <1>8 DEF WellFormedDeletable, WellFormedApprovals, Option
<1>. QED BY <1>1, <1>2, <1>3, <1>4, <1>5, <1>6, <1>7, <1>9

LEMMA AdminIsCareful == ASSUME NEW db PROVE CarefulRole(AdminRole(db))
<1>1. ASSUME NEW t \in DOMAIN db
      PROVE  WellFormedTable(AdminRole(db)[t]) /\ CarefulTable(AdminRole(db)[t])
  <2>1. AdminRole(db)[t] =
           [readable |-> [NoRead EXCEPT !.all = TRUE], creatable |-> [NoMap EXCEPT !.all = TRUE],
            updatable |-> [NoMap EXCEPT !.all = TRUE], deletable |-> [NoDelete EXCEPT !.allowed = TRUE]]
    BY DEF AdminRole
  <2>2. PICK perms : perms = AdminRole(db)[t]
    OBVIOUS
  <2>3. /\ perms = [readable |-> perms.readable, creatable |-> perms.creatable,
                    updatable |-> perms.updatable, deletable |-> perms.deletable]
        /\ perms.creatable = [NoMap EXCEPT !.all = TRUE] /\ perms.updatable = [NoMap EXCEPT !.all = TRUE]
        /\ perms.deletable = [NoDelete EXCEPT !.allowed = TRUE]
    BY <2>1, <2>2
  <2>4. /\ WellFormedMap(perms.creatable) /\ DOMAIN perms.creatable.map = {}
        /\ WellFormedMap(perms.updatable) /\ DOMAIN perms.updatable.map = {}
        /\ WellFormedDeletable(perms.deletable)
    BY <2>3, PlainParts
  <2>5. WellFormedTable(perms) /\ CarefulTable(perms)
    BY <2>3, <2>4 DEF WellFormedTable, CarefulTable
  <2>. QED BY <2>2, <2>5
<1>2. DOMAIN AdminRole(db) = DOMAIN db /\ AdminRole(db) = [t \in DOMAIN AdminRole(db) |-> AdminRole(db)[t]]
  BY DEF AdminRole
<1>. QED BY <1>1, <1>2 DEF CarefulRole, RoleTables

LEMMA ReaderIsCareful ==
    ASSUME NEW db, NEW t
    PROVE  WellFormedTable(ReadAllColumns(db, t)) /\ CarefulTable(ReadAllColumns(db, t))
<1>1. PICK perms : perms = ReadAllColumns(db, t)
  OBVIOUS
<1>2. /\ perms = [readable |-> perms.readable, creatable |-> perms.creatable,
                  updatable |-> perms.updatable, deletable |-> perms.deletable]
      /\ perms.creatable = NoMap /\ perms.updatable = NoMap /\ perms.deletable = NoDelete
  BY <1>1 DEF ReadAllColumns, TablePermissions
<1>3. WellFormedTable(perms) /\ CarefulTable(perms)
  BY <1>2, PlainParts DEF WellFormedTable, CarefulTable
<1>. QED BY <1>1, <1>3

\* The steps of a ticket's life that the support role may take it through.
LEMMA LifecycleIsCareful == WellFormedSets(Lifecycle) /\ CarefulSets(Lifecycle)
<1>. DEFINE Step(from, to) ==
              [key \in {<<"old", "status">>, <<"new", "status">>} |->
                IF key[1] = "old" THEN {[op |-> "equals", value |-> <<"str", from>>]}
                ELSE {[op |-> "in", values |-> {<<"str", s>> : s \in to}]}]
<1>1. ASSUME NEW from, NEW to, to # {}
      PROVE  /\ WellFormedSet(Step(from, to)) /\ DOMAIN Step(from, to) # {}
             /\ \A key \in DOMAIN Step(from, to) : CarefulConditions(Step(from, to)[key])
  <2>1. ASSUME NEW value
        PROVE  WellFormedConditions({[op |-> "equals", value |-> value]})
               /\ CarefulConditions({[op |-> "equals", value |-> value]})
    <3>1. "equals" \in RecognisedOps
      BY TheOps
    <3>. QED BY <3>1 DEF WellFormedConditions, CarefulConditions
  <2>2. ASSUME NEW values, values # {}
        PROVE  WellFormedConditions({[op |-> "in", values |-> values]})
               /\ CarefulConditions({[op |-> "in", values |-> values]})
    BY <2>2 DEF WellFormedConditions, CarefulConditions
  <2>3. {<<"str", s>> : s \in to} # {}
    BY <1>1
  <2>4. \A key \in DOMAIN Step(from, to) : WellFormedConditions(Step(from, to)[key])
                                           /\ CarefulConditions(Step(from, to)[key])
    BY <2>1, <2>2, <2>3
  <2>. QED BY <2>4 DEF WellFormedSet
<1>2. Lifecycle = <<Step("open", {"in_progress"}), Step("in_progress", {"open", "resolved"}),
                    Step("resolved", {"closed"})>>
  BY DEF Lifecycle
<1>. HIDE DEF Step
<1>3. Len(Lifecycle) = 3 /\ DOMAIN Lifecycle = 1 .. 3 /\ Lifecycle = [i \in DOMAIN Lifecycle |-> Lifecycle[i]]
  BY <1>2
<1>4. \A i \in DOMAIN Lifecycle : \E from, to : to # {} /\ Lifecycle[i] = Step(from, to)
  <2>1. /\ Lifecycle[1] = Step("open", {"in_progress"})
        /\ Lifecycle[2] = Step("in_progress", {"open", "resolved"})
        /\ Lifecycle[3] = Step("resolved", {"closed"})
    BY <1>2
  <2>2. {"in_progress"} # {} /\ {"open", "resolved"} # {} /\ {"closed"} # {}
    OBVIOUS
  <2>3. \A i \in DOMAIN Lifecycle : i = 1 \/ i = 2 \/ i = 3
    BY <1>3
  <2>. QED BY <2>1, <2>2, <2>3
<1>. QED BY <1>1, <1>3, <1>4 DEF WellFormedSets, CarefulSets

LEMMA TicketUpdatesAreCareful ==
    /\ WellFormedMap([NoMap EXCEPT !.map = TicketUpdates])
    /\ [NoMap EXCEPT !.map = TicketUpdates].map = TicketUpdates
    /\ \A c \in DOMAIN TicketUpdates :
          /\ WellFormedUpdatable(TicketUpdates[c])
          /\ \A sets \in TicketUpdates[c].only_when : CarefulSets(sets)
<1>. DEFINE Plain == [only_when |-> {}, approval |-> {}, fk |-> FALSE, verify_with |-> {}]
<1>1. PICK status, priority :
         /\ status = [Plain EXCEPT !.only_when = {Lifecycle}]
         /\ priority = [Plain EXCEPT !.approval = {[required |-> TRUE, group |-> {}]}]
  OBVIOUS
<1>2. TicketUpdates = [status |-> status, priority |-> priority]
  BY <1>1 DEF TicketUpdates
<1>3. /\ status = [only_when |-> status.only_when, approval |-> status.approval, fk |-> status.fk,
                   verify_with |-> status.verify_with]
      /\ status.only_when = {Lifecycle} /\ status.approval = {} /\ status.fk = FALSE
      /\ status.verify_with = {}
  BY <1>1
<1>4. /\ priority = [only_when |-> priority.only_when, approval |-> priority.approval, fk |-> priority.fk,
                     verify_with |-> priority.verify_with]
      /\ priority.only_when = {} /\ priority.approval = {[required |-> TRUE, group |-> {}]}
      /\ priority.fk = FALSE /\ priority.verify_with = {}
  BY <1>1
<1>5. WellFormedUpdatable(status) /\ \A sets \in status.only_when : CarefulSets(sets)
  BY <1>3, LifecycleIsCareful DEF WellFormedUpdatable, WellFormedApprovals, Option
<1>6. WellFormedUpdatable(priority) /\ priority.only_when = {}
  <2>1. PICK a : a = [required |-> TRUE, group |-> {}]
    OBVIOUS
  <2>2. a = [required |-> a.required, group |-> a.group] /\ a.required = TRUE /\ a.group = {}
    BY <2>1
  <2>3. WellFormedApproval(a)
    BY <2>2 DEF WellFormedApproval, Option, IsSome
  <2>4. priority.approval = {a}
    BY <1>4, <2>1
  <2>5. WellFormedApprovals(priority.approval)
    BY <2>3, <2>4 DEF WellFormedApprovals, Option
  <2>. QED BY <1>4, <2>5 DEF WellFormedUpdatable, Option
<1>7. /\ DOMAIN TicketUpdates = {"status", "priority"}
      /\ TicketUpdates["status"] = status /\ TicketUpdates["priority"] = priority
      /\ TicketUpdates = [c \in DOMAIN TicketUpdates |-> TicketUpdates[c]]
  BY <1>2
<1>8. WellFormedMap([NoMap EXCEPT !.map = TicketUpdates]) /\ [NoMap EXCEPT !.map = TicketUpdates].map = TicketUpdates
  <2>1. PICK map : map = [NoMap EXCEPT !.map = TicketUpdates]
    OBVIOUS
  <2>2. map = [all |-> map.all, map |-> map.map] /\ map.all = FALSE /\ map.map = TicketUpdates
    BY <2>1 DEF NoMap
  <2>3. WellFormedMap(map)
    BY <1>7, <2>2 DEF WellFormedMap
  <2>. QED BY <2>1, <2>2, <2>3
<1>. QED BY <1>5, <1>6, <1>7, <1>8

LEMMA SupportIsCareful == ASSUME NEW db PROVE CarefulRole(SupportRole(db))
<1>1. ASSUME NEW t
      PROVE  LET perms == [ReadAllColumns(db, t) EXCEPT !.updatable = [NoMap EXCEPT !.map = TicketUpdates]]
             IN WellFormedTable(perms) /\ CarefulTable(perms)
  <2>1. PICK perms : perms = [ReadAllColumns(db, t) EXCEPT !.updatable = [NoMap EXCEPT !.map = TicketUpdates]]
    OBVIOUS
  <2>2. /\ perms = [readable |-> perms.readable, creatable |-> perms.creatable,
                    updatable |-> perms.updatable, deletable |-> perms.deletable]
        /\ perms.creatable = NoMap /\ perms.deletable = NoDelete
        /\ perms.updatable = [NoMap EXCEPT !.map = TicketUpdates]
    BY <2>1 DEF ReadAllColumns, TablePermissions
  <2>3. WellFormedTable(perms) /\ CarefulTable(perms)
    BY <2>2, PlainParts, TicketUpdatesAreCareful DEF WellFormedTable, CarefulTable
  <2>. QED BY <2>1, <2>3
<1>2. \A t \in DOMAIN SupportRole(db) :
         \/ SupportRole(db)[t] = ReadAllColumns(db, t)
         \/ SupportRole(db)[t] = [ReadAllColumns(db, t) EXCEPT !.updatable = [NoMap EXCEPT !.map = TicketUpdates]]
  BY DEF SupportRole
<1>3. SupportRole(db) = [t \in DOMAIN SupportRole(db) |-> SupportRole(db)[t]]
  BY DEF SupportRole
<1>. QED BY <1>1, <1>2, <1>3, ReaderIsCareful DEF CarefulRole, RoleTables

CarefulFile(role) == \A tables \in role.tables : CarefulRole(tables)

LEMMA SamplesAreCareful ==
    ASSUME NEW db, NEW n \in DOMAIN GenerateSampleRoles(db)
    PROVE  CarefulFile(GenerateSampleRoles(db)[n])
<1>1. /\ CarefulRole(AdminRole(db)) /\ CarefulRole(SupportRole(db))
      /\ CarefulRole(ReadonlyRole(db))
  <2>1. CarefulRole(ReadonlyRole(db))
    BY ReaderIsCareful DEF ReadonlyRole, CarefulRole, RoleTables
  <2>. QED BY <2>1, AdminIsCareful, SupportIsCareful
<1>2. \A role : \A tables \in RoleRead(role) : tables = role
  BY DEF RoleRead
<1>3. GenerateSampleRoles(db)[n].tables \in
         {RoleRead(AdminRole(db)), RoleRead(ReadonlyRole(db)), RoleRead(SupportRole(db))}
  BY DEF GenerateSampleRoles
<1>. QED BY <1>1, <1>2, <1>3 DEF CarefulFile

-----------------------------------------------------------------------------
(* The invariant of the roles                                              *)

FilesCareful == \A n \in DOMAIN files.roles : CarefulFile(files.roles[n])

DashCareful ==
    \A d \in dash : "roles" \in DOMAIN d /\ \A n \in DOMAIN d.roles : CarefulRole(d.roles[n].tables)

EditInv == IInv /\ FilesCareful /\ DashCareful /\ DraftsCareful

\* Roles overwritten by careful ones.
LEMMA CarefulOverwritten ==
    ASSUME FilesCareful, NEW roles, \A n \in DOMAIN roles : CarefulFile(roles[n]),
           files'.roles = Overwritten(files.roles, roles)
    PROVE  FilesCareful'
  BY DEF FilesCareful, Overwritten

LEMMA InitKeepsCare ==
    ASSUME EditInv, RunInit PROVE FilesCareful'
<1>1. PICK tenant, steps : files' = WriteProject(files, database, tenant, inits', steps)
  BY Zenon DEF RunInit
<1>2. PICK roles : roles = GenerateSampleRoles(ExtractTables(database))
  OBVIOUS
<1>3. files'.roles = IF steps >= 6 THEN Overwritten(files.roles, roles) ELSE files.roles
  BY <1>1, <1>2 DEF WriteProject
<1>4. \A n \in DOMAIN roles : CarefulFile(roles[n])
  BY <1>2, SamplesAreCareful
<1>5. CASE steps >= 6
  BY <1>3, <1>4, <1>5, CarefulOverwritten DEF EditInv
<1>6. CASE ~(steps >= 6)
  BY <1>3, <1>6 DEF EditInv, FilesCareful
<1>. QED BY <1>5, <1>6

\* The operator's own.
LEMMA WriteRoleKeepsCare ==
    ASSUME EditInv, CarefulDocs, WriteRole PROVE FilesCareful'
<1>1. PICK doc \in RoleDocs :
         files' = [files EXCEPT !.roles = Overwritten(@, [n \in {doc.name} |->
                        [approvals |-> doc.approvals, tables |-> doc.tables]])]
  BY Zenon DEF WriteRole, Written, Changes
<1>2. PICK roles : roles = [n \in {doc.name} |-> [approvals |-> doc.approvals, tables |-> doc.tables]]
  OBVIOUS
<1>3. files'.roles = Overwritten(files.roles, roles)
  BY <1>1, <1>2 DEF EditInv, IInv, FilesWritten, FileFields
<1>4. \A n \in DOMAIN roles : CarefulFile(roles[n])
  BY <1>2 DEF CarefulDocs, CarefulFile
<1>. QED BY <1>3, <1>4, CarefulOverwritten DEF EditInv

\* What SaveRole makes of an editor, of the files and of the memory.
RoleSaved(draft) ==
    /\ files' = [files EXCEPT !.roles = Overwritten(@, [n \in {draft.name} |->
                    [approvals |-> draft.group, tables |-> {FormToTables(draft.tables)}]])]
    /\ dash' = {[d EXCEPT !.roles = Overwritten(@, [n \in {draft.name} |->
                    [approvals |-> draft.group, tables |-> FormToTables(draft.tables)]])] : d \in dash}

LEMMA SavedFromDraft ==
    ASSUME NEW b, SaveRole(b)
    PROVE  \E draft \in drafts[b] : RoleSaved(draft)
<1>1. PICK draft \in drafts[b] : Save(draft.name, FormToRoleDefinition(draft))
  BY Zenon DEF SaveRole
<1>2. FormToRoleDefinition(draft) = [approvals |-> draft.group, tables |-> FormToTables(draft.tables)]
  BY DEF FormToRoleDefinition
<1>3. /\ FormToRoleDefinition(draft).approvals = draft.group
      /\ FormToRoleDefinition(draft).tables = FormToTables(draft.tables)
  BY <1>2
<1>4. RoleSaved(draft)
  BY <1>1, <1>2, <1>3, Zenon DEF Save, Changes, RoleSaved
<1>. QED BY <1>4

LEMMA FileSaved ==
    ASSUME EditInv, NEW draft, RoleSaved(draft)
    PROVE  /\ \A n \in DOMAIN files.roles \ {draft.name} : files'.roles[n] = files.roles[n]
           /\ DOMAIN files'.roles = DOMAIN files.roles \cup {draft.name}
           /\ files'.roles[draft.name].tables = {FormToTables(draft.tables)}
<1>1. PICK tables : tables = FormToTables(draft.tables)
  OBVIOUS
<1>2. files' = [files EXCEPT !.roles = Overwritten(@, [n \in {draft.name} |->
                    [approvals |-> draft.group, tables |-> {tables}]])]
  BY <1>1 DEF RoleSaved
<1>3. files'.roles = Overwritten(files.roles, [n \in {draft.name} |->
                    [approvals |-> draft.group, tables |-> {tables}]])
  BY <1>2 DEF EditInv, IInv, FilesWritten, FileFields
<1>. QED BY <1>1, <1>3 DEF Overwritten

LEMMA SaveKeepsCare ==
    ASSUME EditInv, NEW b \in Browsers, SaveRole(b) PROVE FilesCareful' /\ DashCareful' /\ DraftsCareful'
<1>1. PICK draft \in drafts[b] : RoleSaved(draft)
  BY SavedFromDraft
<1>2. CarefulRole(FormToTables(draft.tables))
  BY TablesParsed DEF EditInv, DraftsCareful, DraftCareful
<1>3. FilesCareful'
  <2>1. PICK tables : tables = FormToTables(draft.tables)
    OBVIOUS
  <2>2. /\ \A n \in DOMAIN files.roles \ {draft.name} : files'.roles[n] = files.roles[n]
        /\ DOMAIN files'.roles = DOMAIN files.roles \cup {draft.name}
        /\ files'.roles[draft.name].tables = {tables}
    BY <1>1, <2>1, FileSaved
  <2>. QED BY <1>2, <2>1, <2>2 DEF EditInv, FilesCareful, CarefulFile
<1>4. DashCareful'
  <2>1. PICK tables : tables = FormToTables(draft.tables)
    OBVIOUS
  <2>. DEFINE role == [approvals |-> draft.group, tables |-> tables]
              Roles(roles) == Overwritten(roles, [n \in {draft.name} |-> role])
  <2>2. dash' = {[d EXCEPT !.roles = Roles(d.roles)] : d \in dash}
    BY <1>1, <2>1 DEF RoleSaved
  <2>3. ASSUME NEW roles, \A n \in DOMAIN roles : CarefulRole(roles[n].tables)
        PROVE  \A n \in DOMAIN Roles(roles) : CarefulRole(Roles(roles)[n].tables)
    BY <1>2, <2>1, <2>3 DEF Overwritten
  <2>. HIDE DEF Roles
  <2>4. ASSUME NEW d \in dash, NEW e, e = [d EXCEPT !.roles = Roles(d.roles)]
        PROVE  "roles" \in DOMAIN e /\ \A n \in DOMAIN e.roles : CarefulRole(e.roles[n].tables)
    <3>1. "roles" \in DOMAIN d /\ \A n \in DOMAIN d.roles : CarefulRole(d.roles[n].tables)
      BY DEF EditInv, DashCareful
    <3>2. "roles" \in DOMAIN e /\ e.roles = Roles(d.roles)
      BY <2>4, <3>1
    <3>. QED BY <2>3, <3>1, <3>2
  <2>. QED BY <2>2, <2>4 DEF DashCareful
<1>5. DraftsCareful'
  <2>1. drafts' = [drafts EXCEPT ![b] = {}]
    BY DEF SaveRole
  <2>. QED BY <2>1 DEF EditInv, DraftsCareful, Option
<1>. QED BY <1>3, <1>4, <1>5

LEMMA DeleteKeepsCare ==
    ASSUME EditInv, DeleteRole PROVE FilesCareful' /\ DashCareful' /\ DraftsCareful'
<1>1. PICK d \in dash : \E n :
         /\ files' = [files EXCEPT !.roles = [m \in DOMAIN @ \ {n} |-> @[m]]]
         /\ dash' = {[d EXCEPT !.roles = [m \in DOMAIN @ \ {n} |-> @[m]]]}
  BY Zenon DEF DeleteRole, Written, Changes
<1>2. PICK n : /\ files' = [files EXCEPT !.roles = [m \in DOMAIN @ \ {n} |-> @[m]]]
               /\ dash' = {[d EXCEPT !.roles = [m \in DOMAIN @ \ {n} |-> @[m]]]}
  BY <1>1
<1>3. files'.roles = [m \in DOMAIN files.roles \ {n} |-> files.roles[m]]
  BY <1>2 DEF EditInv, IInv, FilesWritten, FileFields
<1>4. FilesCareful'
  BY <1>3 DEF EditInv, FilesCareful
<1>5. PICK e : e = [d EXCEPT !.roles = [m \in DOMAIN @ \ {n} |-> @[m]]]
  OBVIOUS
<1>6. "roles" \in DOMAIN e /\ e.roles = [m \in DOMAIN d.roles \ {n} |-> d.roles[m]]
  BY <1>5 DEF EditInv, DashCareful
<1>7. DashCareful'
  BY <1>2, <1>5, <1>6 DEF EditInv, DashCareful
<1>8. DraftsCareful'
  BY DEF DeleteRole, EditInv, DraftsCareful
<1>. QED BY <1>4, <1>7, <1>8

\* The dashboard starts with the roles that were loaded.
LEMMA StartKeepsCare ==
    ASSUME EditInv, NEW role, Start(role), UNCHANGED files PROVE DashCareful'
<1>. DEFINE loaded == [proc EXCEPT !.config = LoadWithContext(files), !.role = role]
<1>1. loaded.config = LoadWithContext(files)
  BY DEF EditInv, IInv, ProcFields
<1>2. dash' = {} \/ dash' = {[roles |-> loaded.config.roles, cache |-> database]}
  BY Zenon DEF Start
<1>. HIDE DEF loaded
<1>3. PICK roles : roles = loaded.config.roles
  OBVIOUS
<1>4. /\ DOMAIN roles = {n \in DOMAIN files.roles : IsSome(files.roles[n].tables)}
      /\ \A n \in DOMAIN roles : roles[n].tables = The(files.roles[n].tables)
  BY <1>1, <1>3 DEF LoadWithContext
<1>5. \A n \in DOMAIN roles : CarefulRole(roles[n].tables)
  BY <1>4 DEF EditInv, FilesCareful, CarefulFile, IsSome, The
<1>6. \A d \in dash' : "roles" \in DOMAIN d /\ d.roles = roles
  BY <1>2, <1>3
<1>. QED BY <1>5, <1>6 DEF DashCareful

LEMMA RefreshKeepsCare ==
    ASSUME EditInv, RefreshSchema PROVE DashCareful'
<1>1. dash' = {[d EXCEPT !.cache = database] : d \in dash}
  BY DEF RefreshSchema
<1>2. ASSUME NEW d \in dash, NEW e, e = [d EXCEPT !.cache = database]
      PROVE  "roles" \in DOMAIN e /\ e.roles = d.roles
  <2>1. "roles" \in DOMAIN d
    BY DEF EditInv, DashCareful
  <2>. QED BY <1>2, <2>1
<1>. QED BY <1>1, <1>2 DEF EditInv, DashCareful

LEMMA PagesKeepCare ==
    ASSUME EditInv, NEW b \in Browsers,
           \/ RoleEdit(b) \/ RoleNew(b) \/ Cancel(b) \/ ClickTable(b) \/ ClickPermission(b)
           \/ ClickOption(b) \/ ClickColumn(b) \/ ClickDialog(b) \/ ClickGroup(b)
    PROVE  DraftsCareful'
<1>. USE DEF EditInv
<1>1. CASE RoleEdit(b)
  <2>1. PICK d \in dash : \E n \in DOMAIN d.roles :
           drafts' = [drafts EXCEPT ![b] = Editor(n, FALSE, d.roles[n].approvals, d.roles[n].tables)]
    BY <1>1, Zenon DEF RoleEdit
  <2>2. PICK n \in DOMAIN d.roles :
           drafts' = [drafts EXCEPT ![b] = Editor(n, FALSE, d.roles[n].approvals, d.roles[n].tables)]
    BY <2>1
  <2>3. CarefulRole(d.roles[n].tables)
    BY DEF DashCareful
  <2>4. PICK new, group, tables : new = FALSE /\ group = d.roles[n].approvals /\ tables = d.roles[n].tables
    OBVIOUS
  <2>5. drafts' = [drafts EXCEPT ![b] = Editor(n, new, group, tables)]
    BY <2>2, <2>4, Zenon
  <2>. QED BY <2>3, <2>4, <2>5, EditorOpens
<1>2. CASE RoleNew(b)
  <2>1. PICK n : drafts' = [drafts EXCEPT ![b] = Editor(n, TRUE, {}, NoKeys)]
    BY <1>2, Zenon DEF RoleNew
  <2>2. PICK new, group, tables : new = TRUE /\ group = {} /\ tables = NoKeys
    OBVIOUS
  <2>3. drafts' = [drafts EXCEPT ![b] = Editor(n, new, group, tables)]
    BY <2>1, <2>2, Zenon
  <2>. QED BY <2>2, <2>3, EditorOpens, NoTablesAreCareful
<1>3. CASE Cancel(b)
  <2>1. drafts' = [drafts EXCEPT ![b] = {}]
    BY <1>3 DEF Cancel
  <2>. QED BY <2>1 DEF DraftsCareful, Option
<1>4. CASE \/ ClickTable(b) \/ ClickPermission(b) \/ ClickOption(b) \/ ClickColumn(b)
           \/ ClickDialog(b) \/ ClickGroup(b)
  BY <1>4, TableClicksKeep, PermissionClicksKeep, OptionClicksKeep, ColumnClicksKeep,
     DialogClicksKeep, GroupClicksKeep
<1>. QED BY <1>1, <1>2, <1>3, <1>4

LEMMA NextKeepsCare ==
    ASSUME CarefulDocs, EditInv, [Next]_vars PROVE EditInv'
<1>. USE DEF EditInv
<1>1. IInv'
  BY NextKeeps
<1>2. CASE RunInit
  <2>1. UNCHANGED <<dash, drafts>>
    BY <1>2 DEF RunInit
  <2>. QED BY <1>1, <1>2, <2>1, InitKeepsCare DEF DashCareful, DraftsCareful
<1>3. CASE Migrate \/ PreHook \/ LoadError \/ UNCHANGED vars
  <2>1. UNCHANGED <<files, dash, drafts>>
    BY <1>3 DEF Migrate, PreHook, LoadError, vars
  <2>. QED BY <1>1, <2>1 DEF FilesCareful, DashCareful, DraftsCareful
<1>4. CASE SyncSchema
  <2>1. files'.roles = files.roles
    BY <1>4 DEF SyncSchema, WriteSchema, IInv, FilesWritten, FileFields
  <2>2. UNCHANGED <<dash, drafts>>
    BY <1>4 DEF SyncSchema
  <2>. QED BY <1>1, <2>1, <2>2 DEF FilesCareful, DashCareful, DraftsCareful
<1>5. CASE WriteRole
  <2>1. UNCHANGED <<dash, drafts>>
    BY <1>5 DEF WriteRole
  <2>. QED BY <1>1, <1>5, <2>1, WriteRoleKeepsCare DEF DashCareful, DraftsCareful
<1>6. CASE RemoveGroup
  <2>1. \E groups : files' = [files EXCEPT !.groups = groups]
    BY <1>6, Zenon DEF RemoveGroup, Written, Changes
  <2>2. files'.roles = files.roles
    BY <2>1 DEF IInv, FilesWritten, FileFields
  <2>3. UNCHANGED <<dash, drafts>>
    BY <1>6 DEF RemoveGroup
  <2>. QED BY <1>1, <2>2, <2>3 DEF FilesCareful, DashCareful, DraftsCareful
<1>7. CASE LoadHttp \/ LoadStdio
  <2>1. UNCHANGED <<files, drafts>>
    BY <1>7 DEF LoadHttp, LoadStdio
  <2>2. UNCHANGED dash \/ \E role : Start(role)
    BY <1>7, Zenon DEF LoadHttp, LoadStdio
  <2>3. DashCareful'
    BY <2>1, <2>2, StartKeepsCare DEF DashCareful
  <2>. QED BY <1>1, <2>1, <2>3 DEF FilesCareful, DraftsCareful
<1>8. CASE Stop
  BY <1>1, <1>8 DEF Stop, FilesCareful, DashCareful, DraftsCareful
<1>9. CASE DeleteRole
  BY <1>1, <1>9, DeleteKeepsCare
<1>10. CASE RefreshSchema
  <2>1. UNCHANGED <<files, drafts>>
    BY <1>10 DEF RefreshSchema
  <2>. QED BY <1>1, <1>10, <2>1, RefreshKeepsCare DEF FilesCareful, DraftsCareful
<1>11. ASSUME NEW b \in Browsers, SaveRole(b) PROVE EditInv'
  BY <1>1, <1>11, SaveKeepsCare
<1>12. ASSUME NEW b \in Browsers,
              \/ RoleEdit(b) \/ RoleNew(b) \/ Cancel(b) \/ ClickTable(b) \/ ClickPermission(b)
              \/ ClickOption(b) \/ ClickColumn(b) \/ ClickDialog(b) \/ ClickGroup(b)
       PROVE  EditInv'
  <2>1. UNCHANGED <<files, dash>>
    BY <1>12 DEF RoleEdit, RoleNew, Cancel, ClickTable, ClickPermission, ClickOption, ClickColumn,
         ClickDialog, ClickGroup, Clicks
  <2>. QED BY <1>1, <1>12, <2>1, PagesKeepCare DEF FilesCareful, DashCareful
<1>. QED BY <1>2, <1>3, <1>4, <1>5, <1>6, <1>7, <1>8, <1>9, <1>10, <1>11, <1>12 DEF Next

(* Saving a role through the editor saves every table, permission and      *)
(* column that was not touched as it was when the page was made, and of a  *)
(* column whose dialog was only confirmed the approval, the verification   *)
(* and what it is restricted by (dashboard pages.rs, handlers.rs), as long *)
(* as the roles that the operator writes have no empty lists and rules.    *)
THEOREM SavedAsOpened == ASSUME CarefulDocs PROVE Spec => SavesKeepTheRest
<1>. DEFINE Rest == \A b \in Browsers : SaveRole(b) =>
                       \A draft \in drafts[b] : \A saved \in files'.roles[draft.name].tables :
                          RestStays(draft, saved)
<1>1. Init => EditInv
  <2>. SUFFICES ASSUME Init PROVE EditInv
    OBVIOUS
  <2>1. FilesCareful
    BY DEF Init, NoFiles, NoKeys, FilesCareful
  <2>2. DashCareful /\ DraftsCareful
    BY DEF Init, DashCareful, DraftsCareful, Option
  <2>. QED BY <2>1, <2>2, InitHolds DEF EditInv
<1>2. EditInv /\ [Next]_vars => EditInv'
  BY NextKeepsCare
<1>3. EditInv /\ [Next]_vars => Rest
  <2>. SUFFICES ASSUME EditInv, NEW b \in Browsers, SaveRole(b), NEW draft \in drafts[b],
                       NEW saved \in files'.roles[draft.name].tables
                PROVE  RestStays(draft, saved)
    OBVIOUS
  <2>1. PICK other \in drafts[b] : RoleSaved(other)
    BY SavedFromDraft
  <2>2. other = draft /\ DraftCareful(draft)
    BY DEF EditInv, DraftsCareful, Option
  <2>3. files'.roles[draft.name].tables = {FormToTables(draft.tables)}
    BY <2>1, <2>2, FileSaved
  <2>4. saved = FormToTables(draft.tables)
    BY <2>3
  <2>. QED BY <2>2, <2>4 DEF DraftCareful
<1>. QED BY <1>1, <1>2, <1>3, PTL DEF Spec, SavesKeepTheRest

-----------------------------------------------------------------------------
(* The project that init makes                                             *)

LEMMA TablesExtracted ==
    ASSUME NEW db, Introspected(db) PROVE Introspected(ExtractTables(db))
<1>1. PICK tables : tables = ExtractTables(db)
  OBVIOUS
<1>2. DOMAIN tables = DOMAIN db /\ \A t \in DOMAIN db : tables[t] = [db[t] EXCEPT !.foreign_keys = NoKeys]
  BY <1>1 DEF ExtractTables
<1>3. ASSUME NEW t \in DOMAIN db
      PROVE  /\ DOMAIN tables[t] = DOMAIN db[t]
             /\ tables[t].columns = db[t].columns /\ tables[t].primary_key = db[t].primary_key
  BY <1>2 DEF Introspected
<1>4. \A t \in DOMAIN db : KeySet(tables, t) = KeySet(db, t)
  BY <1>2, <1>3 DEF KeySet, GetPrimaryKeyColumns
<1>5. Introspected(tables)
  BY <1>2, <1>3, <1>4 DEF Introspected
<1>. QED BY <1>1, <1>5

\* The tables of a database, by their places among all names.
LEMMA TablesListed ==
    ASSUME KnownNames, NEW tables, Introspected(tables)
    PROVE  /\ DOMAIN Listed(tables) \subseteq Nat /\ IsFiniteSet(DOMAIN Listed(tables))
           /\ \A i \in DOMAIN Listed(tables) : Listed(tables)[i] \in DOMAIN tables
           /\ \A t \in DOMAIN tables : \E i \in DOMAIN Listed(tables) : Listed(tables)[i] = t
           /\ \A i, j \in DOMAIN Listed(tables) : Listed(tables)[i] = Listed(tables)[j] => i = j
<1>1. DOMAIN Sorted = 1 .. Len(Sorted) /\ Len(Sorted) \in Nat
  BY DEF KnownNames
<1>2. /\ DOMAIN Listed(tables) = {j \in DOMAIN Sorted : Sorted[j] \in DOMAIN tables}
      /\ \A i \in DOMAIN Listed(tables) : Listed(tables)[i] = Sorted[i]
  BY DEF Listed
<1>3. IsFiniteSet(1 .. Len(Sorted))
  BY <1>1, FS_Interval
<1>4. IsFiniteSet(DOMAIN Listed(tables))
  BY <1>1, <1>2, <1>3, FS_Subset
<1>5. DOMAIN Listed(tables) \subseteq Nat
  BY <1>1, <1>2
<1>. QED BY <1>2, <1>4, <1>5 DEF Introspected, KnownNames

\* Of the first n tables there are some, if there are any.
LEMMA FirstTables ==
    ASSUME KnownNames, NEW tables, Introspected(tables), NEW n \in Nat \ {0}
    PROVE  /\ FirstOf(n, Listed(tables)) \subseteq DOMAIN tables
           /\ DOMAIN tables # {} => FirstOf(n, Listed(tables)) # {}
<1>1. PICK listed : listed = Listed(tables)
  OBVIOUS
<1>2. /\ DOMAIN listed \subseteq Nat /\ \A i \in DOMAIN listed : listed[i] \in DOMAIN tables
      /\ \A t \in DOMAIN tables : \E i \in DOMAIN listed : listed[i] = t
  BY <1>1, TablesListed
<1>3. FirstOf(n, listed) \subseteq DOMAIN tables
  BY <1>2 DEF FirstOf
<1>4. ASSUME DOMAIN tables # {} PROVE FirstOf(n, listed) # {}
  <2>1. PICK i \in DOMAIN listed : \A j \in DOMAIN listed : i <= j
    BY <1>2, <1>4, LeastNumber
  <2>2. {k \in DOMAIN listed : k <= i} = {i}
    BY <1>2, <2>1
  <2>3. Cardinality({i}) = 1
    BY FS_Singleton
  <2>4. Cardinality({k \in DOMAIN listed : k <= i}) <= n
    BY <2>2, <2>3
  <2>. QED BY <2>4 DEF FirstOf
<1>. QED BY <1>1, <1>3, <1>4

-----------------------------------------------------------------------------
(* The rules that init writes, as they are read                            *)

UnknownTables(tables, tenant) == {t \in DOMAIN tables : Tenancy(tables, tenant, t) = "unknown"}

\* No table of unknown tenancy has a rule.
Silent(tables, tenant) ==
    \A t \in UnknownTables(tables, tenant) : ~HasBlock(GenerateColumnRules(tables, t))

\* An entry for every table, and no other.
EntriesFit(entries, tables, tenant) ==
    /\ DOMAIN entries \subseteq Nat /\ IsFiniteSet(DOMAIN entries)
    /\ \A i \in DOMAIN entries :
          /\ entries[i].table \in DOMAIN tables
          /\ entries[i].tenancy = Tenancy(tables, tenant, entries[i].table)
          /\ entries[i].block = GenerateColumnRules(tables, entries[i].table)
    /\ \A t \in DOMAIN tables : \E i \in DOMAIN entries : entries[i].table = t
    /\ \A i, j \in DOMAIN entries : entries[i].table = entries[j].table => i = j

LEMMA EntriesOfTables ==
    ASSUME KnownNames, NEW tables, Introspected(tables), NEW tenant
    PROVE  EntriesFit(RulesEntries(tables, tenant), tables, tenant)
<1>1. PICK listed : listed = Listed(tables)
  OBVIOUS
<1>2. PICK entries : entries = RulesEntries(tables, tenant)
  OBVIOUS
<1>3. /\ DOMAIN listed \subseteq Nat /\ IsFiniteSet(DOMAIN listed)
      /\ \A i \in DOMAIN listed : listed[i] \in DOMAIN tables
      /\ \A t \in DOMAIN tables : \E i \in DOMAIN listed : listed[i] = t
      /\ \A i, j \in DOMAIN listed : listed[i] = listed[j] => i = j
  BY <1>1, TablesListed
<1>4. /\ DOMAIN entries = DOMAIN listed
      /\ \A i \in DOMAIN listed :
            /\ entries[i].table = listed[i] /\ entries[i].tenancy = Tenancy(tables, tenant, listed[i])
            /\ entries[i].block = GenerateColumnRules(tables, listed[i])
  BY <1>1, <1>2 DEF RulesEntries
<1>5. EntriesFit(entries, tables, tenant)
  BY <1>3, <1>4 DEF EntriesFit
<1>. QED BY <1>2, <1>5

LEMMA AtMostOne ==
    ASSUME NEW S, IsFiniteSet(S)
    PROVE  /\ \A x \in S : ~(Cardinality(S) > 1) => S = {x}
           /\ \A x : S \subseteq {x} => ~(Cardinality(S) > 1)
<1>1. Cardinality(S) \in Nat /\ (Cardinality(S) = 0 <=> S = {}) /\ (Cardinality(S) = 1 <=> \E x : S = {x})
  BY FS_CardinalityType, FS_EmptySet, FS_Singleton
<1>2. ASSUME NEW x \in S, ~(Cardinality(S) > 1) PROVE S = {x}
  <2>1. Cardinality(S) = 1
    BY <1>1, <1>2
  <2>. QED BY <1>1, <2>1
<1>3. ASSUME NEW x, S \subseteq {x} PROVE ~(Cardinality(S) > 1)
  <2>1. S = {} \/ S = {x}
    BY <1>3
  <2>2. Cardinality(S) = 0 \/ Cardinality(S) = 1
    BY <1>1, <2>1
  <2>. QED BY <2>2
<1>. QED BY <1>2, <1>3

LEMMA TheOnly == ASSUME NEW x PROVE The({x}) = x
  BY DEF The

\* Under a table that is not in a comment, the others are.
LEMMA UnderHead ==
    ASSUME NEW entries, DOMAIN entries \subseteq Nat, IsFiniteSet(DOMAIN entries),
           NEW i \in Heads(entries)
    PROVE  /\ i \in Under(entries, i) /\ Under(entries, i) \cap Heads(entries) = {i}
           /\ IsFiniteSet(WithColumns(entries, i)) /\ IsFiniteSet(WithSoftDelete(entries, i))
<1>1. i \in Under(entries, i)
  BY DEF Under, Heads
<1>2. ASSUME NEW j \in Under(entries, i) \cap Heads(entries) PROVE j = i
  <2>1. j >= i /\ (j <= i \/ j > j) /\ i \in Nat /\ j \in Nat
    BY DEF Under, Heads
  <2>. QED BY <2>1
<1>3. WithColumns(entries, i) \subseteq DOMAIN entries /\ WithSoftDelete(entries, i) \subseteq DOMAIN entries
  BY DEF WithColumns, WithSoftDelete, Under
<1>. QED BY <1>1, <1>2, <1>3, FS_Subset

LEMMA KnownTables ==
    ASSUME NEW entries, NEW tables, NEW tenant, EntriesFit(entries, tables, tenant)
    PROVE  Heads(entries) # {} <=> DOMAIN tables \ UnknownTables(tables, tenant) # {}
<1>1. ASSUME NEW i \in Heads(entries)
      PROVE  entries[i].table \in DOMAIN tables \ UnknownTables(tables, tenant)
  BY DEF Heads, EntriesFit, UnknownTables
<1>2. ASSUME NEW t \in DOMAIN tables \ UnknownTables(tables, tenant)
      PROVE  Heads(entries) # {}
  <2>1. PICK i \in DOMAIN entries : entries[i].table = t
    BY DEF EntriesFit
  <2>2. i \in Heads(entries)
    BY <2>1 DEF Heads, EntriesFit, UnknownTables
  <2>. QED BY <2>2
<1>. QED BY <1>1, <1>2

\* Without rules in comments, what is read of a table is what was written of it.
LEMMA SilentReads ==
    ASSUME NEW entries, NEW tables, NEW tenant, EntriesFit(entries, tables, tenant),
           Silent(tables, tenant)
    PROVE  /\ Stray(entries) = {}
           /\ \A i \in Heads(entries) : /\ WithColumns(entries, i) \subseteq {i}
                                        /\ WithSoftDelete(entries, i) \subseteq {i}
           /\ Heads(entries) # {} => ~Unreadable(entries)
<1>1. ASSUME NEW j \in DOMAIN entries, HasBlock(entries[j].block) PROVE j \in Heads(entries)
  BY <1>1 DEF Heads, Silent, UnknownTables, EntriesFit
<1>2. Stray(entries) = {}
  <2>1. \A j \in DOMAIN entries : ~(j > j)
    BY DEF EntriesFit
  <2>. QED BY <1>1, <2>1 DEF Stray
<1>3. ASSUME NEW i \in Heads(entries), NEW j \in Under(entries, i), HasBlock(entries[j].block) PROVE j = i
  <2>1. j \in DOMAIN entries
    BY DEF Under
  <2>2. j \in Heads(entries)
    BY <1>1, <1>3, <2>1
  <2>. QED BY <1>3, <2>2, UnderHead DEF EntriesFit
<1>4. ASSUME NEW i \in Heads(entries)
      PROVE  WithColumns(entries, i) \subseteq {i} /\ WithSoftDelete(entries, i) \subseteq {i}
  BY <1>3 DEF WithColumns, WithSoftDelete, HasBlock
<1>5. ASSUME NEW i \in Heads(entries)
      PROVE  ~(Cardinality(WithColumns(entries, i)) > 1) /\ ~(Cardinality(WithSoftDelete(entries, i)) > 1)
  <2>1. IsFiniteSet(WithColumns(entries, i)) /\ IsFiniteSet(WithSoftDelete(entries, i))
    BY UnderHead DEF EntriesFit
  <2>. QED BY <1>4, <2>1, AtMostOne
<1>. QED BY <1>2, <1>4, <1>5 DEF Unreadable

\* The rules of a table speak of its columns, and of types that there are.
LEMMA BlockFits ==
    ASSUME NEW tables, NEW t
    PROVE  LET block == GenerateColumnRules(tables, t)
               columns == DOMAIN tables[t].columns
           IN /\ DOMAIN block.columns \subseteq columns /\ block.soft_delete \subseteq columns
              /\ \A c \in DOMAIN block.columns : block.columns[c].type \subseteq TypesGenerated
<1>1. PICK columns : columns = DOMAIN tables[t].columns
  OBVIOUS
<1>2. GenerateColumnRules(tables, t) = [columns |-> ColumnRulesOf(columns), soft_delete |-> SoftDeleteOf(columns)]
  BY <1>1 DEF GenerateColumnRules
<1>3. SoftDeleteOf(columns) \subseteq columns
  BY DEF SoftDeleteOf, The
<1>4. DOMAIN ColumnRulesOf(columns) \subseteq columns
  BY DEF ColumnRulesOf
<1>5. ASSUME NEW c \in DOMAIN ColumnRulesOf(columns)
      PROVE  ColumnRulesOf(columns)[c].type \subseteq TypesGenerated
  <2>1. Looks[c] \in {"email", "phone", "sensitive", "status"}
    BY DEF ColumnRulesOf
  <2>2. CASE Looks[c] \in {"email", "phone"}
    <3>1. ColumnRulesOf(columns)[c] = [NoColumnRules EXCEPT !.type = {Looks[c]}]
      BY <2>2 DEF ColumnRulesOf
    <3>. QED BY <2>2, <3>1 DEF NoColumnRules, TypesGenerated
  <2>3. CASE Looks[c] = "status"
    <3>1. PICK states : ColumnRulesOf(columns)[c] = [NoColumnRules EXCEPT !.allowed = states]
      BY <2>3 DEF ColumnRulesOf
    <3>. QED BY <3>1 DEF NoColumnRules
  <2>4. CASE Looks[c] = "sensitive"
    BY <2>4 DEF ColumnRulesOf, NoColumnRules
  <2>. QED BY <2>1, <2>2, <2>3, <2>4
<1>. QED BY <1>1, <1>2, <1>3, <1>4, <1>5

\* A rule that the checks of columns and types pass.
RuleFits(rule, columns) ==
    /\ DOMAIN rule.columns \subseteq columns /\ rule.soft_delete \subseteq columns
    /\ \A u \in rule.tenant : u.kind = "direct" /\ u.column \in columns
    /\ \A c \in DOMAIN rule.columns : rule.columns[c].type \subseteq TypesGenerated

LEMMA RuleOfSilent ==
    ASSUME NEW entries, NEW tables, NEW tenant, EntriesFit(entries, tables, tenant),
           Silent(tables, tenant), NEW i \in Heads(entries)
    PROVE  RuleFits(RuleRead(entries, tenant, i), DOMAIN tables[entries[i].table].columns)
<1>1. PICK rule, table, columns : /\ rule = RuleRead(entries, tenant, i) /\ table = entries[i].table
                                  /\ columns = DOMAIN tables[table].columns
  OBVIOUS
<1>2. PICK block : block = GenerateColumnRules(tables, table)
  OBVIOUS
<1>3. i \in DOMAIN entries /\ entries[i].block = block /\ entries[i].tenancy = Tenancy(tables, tenant, table)
  BY <1>1, <1>2 DEF Heads, EntriesFit
<1>4. /\ DOMAIN block.columns \subseteq columns /\ block.soft_delete \subseteq columns
      /\ \A c \in DOMAIN block.columns : block.columns[c].type \subseteq TypesGenerated
  BY <1>1, <1>2, BlockFits
<1>5. WithColumns(entries, i) \subseteq {i} /\ WithSoftDelete(entries, i) \subseteq {i}
  BY SilentReads
<1>6. rule.soft_delete \subseteq columns
  <2>1. rule.soft_delete = UNION {entries[j].block.soft_delete : j \in WithSoftDelete(entries, i)}
    BY <1>1 DEF RuleRead
  <2>. QED BY <1>3, <1>4, <1>5, <2>1
<1>7. rule.columns = NoKeys \/ rule.columns = block.columns
  <2>1. rule.columns = IF WithColumns(entries, i) = {} THEN NoKeys
                       ELSE entries[The(WithColumns(entries, i))].block.columns
    BY <1>1 DEF RuleRead
  <2>2. CASE WithColumns(entries, i) = {i}
    BY <1>3, <2>1, <2>2, TheOnly
  <2>. QED BY <1>5, <2>1, <2>2
<1>8. DOMAIN NoKeys = {}
  BY DEF NoKeys
<1>9. \A u \in rule.tenant : u.kind = "direct" /\ u.column \in columns
  <2>1. rule.tenant = IF entries[i].tenancy = "direct" THEN {[kind |-> "direct", column |-> tenant]} ELSE {}
    BY <1>1 DEF RuleRead
  <2>2. entries[i].tenancy = "direct" => tenant \in columns
    BY <1>1, <1>3 DEF Tenancy
  <2>. QED BY <2>1, <2>2
<1>10. RuleFits(rule, columns)
  BY <1>4, <1>6, <1>7, <1>8, <1>9 DEF RuleFits
<1>. QED BY <1>1, <1>10

\* The head that a line is read under.
LEMMA ReadUnder ==
    ASSUME NEW entries, DOMAIN entries \subseteq Nat, NEW j \in DOMAIN entries,
           HasBlock(entries[j].block), Stray(entries) = {}
    PROVE  \E i \in Heads(entries) : j \in Under(entries, i)
<1>. DEFINE before == {k \in Heads(entries) : k <= j}
            gaps == {j - k : k \in before}
<1>1. Heads(entries) \subseteq Nat /\ j \in Nat
  BY DEF Heads
<1>2. PICK h \in Heads(entries) : ~(h > j)
  BY DEF Stray
<1>3. h \in before
  BY <1>1, <1>2
<1>4. gaps \subseteq Nat /\ gaps # {}
  BY <1>1, <1>3
<1>5. PICK g \in gaps : \A f \in gaps : g <= f
  <2>. HIDE DEF gaps
  <2>. QED BY <1>4, LeastNumber
<1>6. PICK i \in before : g = j - i
  OBVIOUS
<1>7. ASSUME NEW k \in Heads(entries) PROVE k <= i \/ k > j
  <2>1. CASE k <= j
    <3>1. j - k \in gaps
      BY <2>1
    <3>2. j - i <= j - k
      BY <1>5, <1>6, <3>1
    <3>. QED BY <1>1, <3>2
  <2>2. CASE ~(k <= j)
    BY <1>1, <2>2
  <2>. QED BY <2>1, <2>2
<1>8. j >= i
  BY <1>1
<1>. QED BY <1>7, <1>8 DEF Under

\* A rule in a comment is read under a table without such columns.
LEMMA RuleOfLoud ==
    ASSUME NEW entries, NEW tables, NEW tenant, EntriesFit(entries, tables, tenant),
           ~Silent(tables, tenant), ~Unreadable(entries)
    PROVE  \E i \in Heads(entries) :
              ~RuleFits(RuleRead(entries, tenant, i), DOMAIN tables[entries[i].table].columns)
<1>1. PICK t \in UnknownTables(tables, tenant) : HasBlock(GenerateColumnRules(tables, t))
  BY DEF Silent
<1>2. PICK j \in DOMAIN entries : entries[j].table = t
  BY DEF EntriesFit, UnknownTables
<1>3. entries[j].block = GenerateColumnRules(tables, t) /\ HasBlock(entries[j].block) /\ j \notin Heads(entries)
  BY <1>1, <1>2 DEF EntriesFit, UnknownTables, Heads
<1>4. PICK i \in Heads(entries) : j \in Under(entries, i)
  BY <1>3, ReadUnder DEF Unreadable, EntriesFit
<1>5. /\ IsFiniteSet(WithColumns(entries, i)) /\ IsFiniteSet(WithSoftDelete(entries, i))
      /\ i \in Under(entries, i)
  BY UnderHead DEF EntriesFit
<1>6. ~(Cardinality(WithColumns(entries, i)) > 1) /\ ~(Cardinality(WithSoftDelete(entries, i)) > 1)
  BY DEF Unreadable
<1>7. i # j
  BY <1>3
<1>8. PICK rule, table, columns, theirs :
         /\ rule = RuleRead(entries, tenant, i) /\ table = entries[i].table
         /\ columns = DOMAIN tables[table].columns /\ theirs = DOMAIN tables[t].columns
  OBVIOUS
<1>9. /\ entries[j].block = [columns |-> ColumnRulesOf(theirs), soft_delete |-> SoftDeleteOf(theirs)]
      /\ entries[i].block = [columns |-> ColumnRulesOf(columns), soft_delete |-> SoftDeleteOf(columns)]
  BY <1>3, <1>8 DEF GenerateColumnRules, EntriesFit, Heads
<1>10. /\ entries[j].block.columns = ColumnRulesOf(theirs) /\ entries[i].block.columns = ColumnRulesOf(columns)
       /\ entries[j].block.soft_delete = SoftDeleteOf(theirs) /\ entries[i].block.soft_delete = SoftDeleteOf(columns)
  BY <1>9
<1>11. CASE DOMAIN entries[j].block.columns # {}
  <2>1. j \in WithColumns(entries, i)
    BY <1>4, <1>11 DEF WithColumns
  <2>2. WithColumns(entries, i) = {j}
    BY <1>5, <1>6, <2>1, AtMostOne
  <2>3. rule.columns = ColumnRulesOf(theirs)
    BY <1>8, <1>10, <2>2, TheOnly DEF RuleRead
  <2>4. PICK c : c \in DOMAIN ColumnRulesOf(theirs)
    BY <1>10, <1>11
  <2>5. c \notin columns
    <3>1. SUFFICES ASSUME c \in columns PROVE FALSE
      OBVIOUS
    <3>2. c \in DOMAIN ColumnRulesOf(columns)
      BY <2>4, <3>1 DEF ColumnRulesOf
    <3>3. i \in WithColumns(entries, i)
      BY <1>5, <1>10, <3>2 DEF WithColumns
    <3>. QED BY <1>7, <2>2, <3>3
  <2>6. ~RuleFits(rule, columns)
    BY <2>3, <2>4, <2>5 DEF RuleFits
  <2>. QED BY <1>8, <2>6
<1>12. CASE IsSome(entries[j].block.soft_delete)
  <2>1. j \in WithSoftDelete(entries, i)
    BY <1>4, <1>12 DEF WithSoftDelete
  <2>2. WithSoftDelete(entries, i) = {j}
    BY <1>5, <1>6, <2>1, AtMostOne
  <2>3. rule.soft_delete = SoftDeleteOf(theirs)
    <3>1. rule.soft_delete = UNION {entries[k].block.soft_delete : k \in WithSoftDelete(entries, i)}
      BY <1>8 DEF RuleRead
    <3>. QED BY <1>10, <2>2, <3>1
  <2>4. PICK c \in SoftDeleteOf(theirs) : Looks[c] = "deleted"
    BY <1>10, <1>12 DEF IsSome, SoftDeleteOf, The
  <2>5. c \notin columns
    <3>1. SUFFICES ASSUME c \in columns PROVE FALSE
      OBVIOUS
    <3>2. IsSome(SoftDeleteOf(columns))
      BY <2>4, <3>1 DEF SoftDeleteOf, IsSome
    <3>3. i \in WithSoftDelete(entries, i)
      BY <1>5, <1>10, <3>2 DEF WithSoftDelete
    <3>. QED BY <1>7, <2>2, <3>3
  <2>6. ~RuleFits(rule, columns)
    BY <2>3, <2>4, <2>5 DEF RuleFits
  <2>. QED BY <1>8, <2>6
<1>. QED BY <1>3, <1>11, <1>12 DEF HasBlock

\* What the rules say of the tables.
RulesFit(entries, tables, tenant) ==
    /\ RulesRead(tables, tenant) = {} <=> Unreadable(entries)
    /\ \A r \in RulesRead(tables, tenant) :
          /\ RulesRead(tables, tenant) = {r}
          /\ DOMAIN r = {entries[i].table : i \in Heads(entries)}
          /\ \A i \in Heads(entries) : r[entries[i].table] = RuleRead(entries, tenant, i)

LEMMA RulesOfTables ==
    ASSUME KnownNames, NEW tables, Introspected(tables), NEW tenant
    PROVE  RulesFit(RulesEntries(tables, tenant), tables, tenant)
<1>0. PICK entries : entries = RulesEntries(tables, tenant)
  OBVIOUS
<1>1. EntriesFit(entries, tables, tenant)
  BY <1>0, EntriesOfTables
<1>. DEFINE HeadOf(t) == CHOOSE i \in Heads(entries) : entries[i].table = t
            rules == [t \in {entries[i].table : i \in Heads(entries)} |-> RuleRead(entries, tenant, HeadOf(t))]
<1>2. RulesRead(tables, tenant) = IF Unreadable(entries) THEN {} ELSE {rules}
  BY <1>0 DEF RulesRead
<1>3. \A i \in Heads(entries) : HeadOf(entries[i].table) = i
  BY <1>1 DEF Heads, EntriesFit
<1>. HIDE DEF HeadOf
<1>4. /\ DOMAIN rules = {entries[i].table : i \in Heads(entries)}
      /\ \A i \in Heads(entries) : rules[entries[i].table] = RuleRead(entries, tenant, i)
  BY <1>3
<1>. HIDE DEF rules
<1>5. RulesFit(entries, tables, tenant)
  BY <1>2, <1>4 DEF RulesFit
<1>. QED BY <1>0, <1>5

-----------------------------------------------------------------------------
(* The files that init writes                                              *)

SampleNames == {"admin_agent", "readonly_agent", "support_agent"}

LEMMA Overwriting ==
    ASSUME NEW new
    PROVE  DOMAIN Overwritten(NoKeys, new) = DOMAIN new /\ \A n \in DOMAIN new : Overwritten(NoKeys, new)[n] = new[n]
<1>1. DOMAIN NoKeys = {}
  BY DEF NoKeys
<1>. QED BY <1>1 DEF Overwritten

LEMMA FreshFiles ==
    ASSUME NEW db, NEW tenant, NEW key, NEW project,
           project = WriteProject(NoFiles, db, tenant, key, LastStep)
    PROVE  /\ project.config
           /\ project.schema = {SchemaRead(ExtractTables(db))}
           /\ project.rules = {RulesRead(ExtractTables(db), tenant)}
           /\ project.types = TypesGenerated
           /\ project.roles = Overwritten(NoKeys, GenerateSampleRoles(ExtractTables(db)))
           /\ project.groups = Overwritten(NoKeys, GenerateSampleGroups)
<1>1. PICK tables : tables = ExtractTables(db)
  OBVIOUS
<1>2. LastStep >= 2 /\ LastStep >= 3 /\ LastStep >= 4 /\ LastStep >= 5 /\ LastStep >= 6 /\ LastStep >= 7
  BY DEF LastStep
<1>3. NoFiles.roles = NoKeys /\ NoFiles.groups = NoKeys
  BY DEF NoFiles
<1>. QED BY <1>1, <1>2, <1>3 DEF WriteProject

\* The sample groups.
LEMMA SampleGroups ==
    LET groups == Overwritten(NoKeys, GenerateSampleGroups)
    IN DOMAIN groups = {"support_managers"} /\ groups["support_managers"] # {}
<1>1. DOMAIN GenerateSampleGroups = {"support_managers"} /\ GenerateSampleGroups["support_managers"] # {}
  BY DEF GenerateSampleGroups
<1>. HIDE DEF GenerateSampleGroups
<1>. QED BY <1>1, Overwriting

\* The schema that init writes has the tables of the database, with their columns and keys.
LEMMA SchemaFits ==
    ASSUME NEW tables, Introspected(tables)
    PROVE  /\ SchemaRead(tables) = {} <=> DOMAIN tables = {}
           /\ \A s \in SchemaRead(tables) :
                 /\ DOMAIN s = DOMAIN tables
                 /\ \A t \in DOMAIN tables : /\ DOMAIN s[t].columns = DOMAIN tables[t].columns
                                            /\ KeySet(s, t) = KeySet(tables, t)
           /\ \A s, r \in SchemaRead(tables) : s = r
<1>1. ASSUME NEW s \in SchemaRead(tables)
      PROVE  /\ DOMAIN s = DOMAIN tables
             /\ \A t \in DOMAIN tables : /\ DOMAIN s[t].columns = DOMAIN tables[t].columns
                                        /\ KeySet(s, t) = KeySet(tables, t)
  <2>1. /\ DOMAIN s = DOMAIN tables
        /\ \A t \in DOMAIN tables : \E columns :
              /\ s[t] = [tables[t] EXCEPT !.columns = columns] /\ DOMAIN columns = DOMAIN tables[t].columns
    BY DEF SchemaRead
  <2>2. ASSUME NEW t \in DOMAIN tables
        PROVE  DOMAIN s[t].columns = DOMAIN tables[t].columns /\ s[t].primary_key = tables[t].primary_key
    <3>1. PICK columns : /\ s[t] = [tables[t] EXCEPT !.columns = columns]
                         /\ DOMAIN columns = DOMAIN tables[t].columns
      BY <2>1
    <3>. QED BY <3>1 DEF Introspected
  <2>. QED BY <2>1, <2>2 DEF KeySet, GetPrimaryKeyColumns
<1>. QED BY <1>1 DEF SchemaRead

-----------------------------------------------------------------------------
(* The sample roles                                                        *)

\* What the checks ask of a table in a role, the columns that may be changed apart.
TableFits(perms, tables, t) ==
    /\ t \in DOMAIN tables
    /\ \/ perms.readable.all
       \/ /\ perms.readable.columns \subseteq DOMAIN tables[t].columns
          /\ KeySet(tables, t) \subseteq perms.readable.columns
    /\ perms.creatable.all \/ (MapIsEmpty(perms.creatable) /\ DOMAIN perms.creatable.map = {})
    /\ ~perms.deletable.soft_delete
    /\ \A a \in Requirements(perms) : a.group = {}

LEMMA PermissionParts ==
    /\ TablePermissions.creatable = NoMap /\ TablePermissions.updatable = NoMap
    /\ TablePermissions.deletable = NoDelete /\ TablePermissions.readable = NoRead
    /\ DOMAIN TablePermissions = {"readable", "creatable", "updatable", "deletable"}
    /\ ~NoMap.all /\ NoMap.map = NoKeys /\ DOMAIN NoKeys = {} /\ DOMAIN NoMap = {"all", "map"}
    /\ NoDelete.approval = {} /\ ~NoDelete.soft_delete /\ DOMAIN NoDelete = {"allowed", "approval", "soft_delete", "verify_with"}
    /\ ~NoRead.all /\ NoRead.columns = {} /\ DOMAIN NoRead = {"all", "columns", "max"}
  BY DEF TablePermissions, NoMap, NoDelete, NoRead, NoKeys

LEMMA ReadAllFits ==
    ASSUME NEW tables, Introspected(tables), NEW t \in DOMAIN tables
    PROVE  /\ TableFits(ReadAllColumns(tables, t), tables, t)
           /\ ReadAllColumns(tables, t).updatable = NoMap
           /\ Requirements(ReadAllColumns(tables, t)) = {}
<1>1. PICK perms, columns : perms = ReadAllColumns(tables, t) /\ columns = DOMAIN tables[t].columns
  OBVIOUS
<1>2. PICK readable : readable = [NoRead EXCEPT !.columns = columns]
  OBVIOUS
<1>3. readable.columns = columns
  BY <1>2, PermissionParts
<1>4. perms = [TablePermissions EXCEPT !.readable = readable]
  BY <1>1, <1>2 DEF ReadAllColumns
<1>5. /\ perms.readable = readable /\ perms.creatable = NoMap /\ perms.updatable = NoMap
      /\ perms.deletable = NoDelete
  BY <1>4, PermissionParts
<1>6. Requirements(perms) = {}
  BY <1>5, PermissionParts DEF Requirements
<1>7. MapIsEmpty(perms.creatable) /\ DOMAIN perms.creatable.map = {}
  BY <1>5, PermissionParts DEF MapIsEmpty
<1>8. KeySet(tables, t) \subseteq columns
  BY <1>1 DEF Introspected
<1>9. TableFits(perms, tables, t)
  BY <1>1, <1>3, <1>5, <1>6, <1>7, <1>8, PermissionParts DEF TableFits
<1>. QED BY <1>1, <1>5, <1>6, <1>9

LEMMA TicketUpdatesAsk ==
    /\ DOMAIN TicketUpdates = {"status", "priority"}
    /\ \A c \in DOMAIN TicketUpdates : \A a \in TicketUpdates[c].approval : a.group = {}
<1>. DEFINE Plain == [only_when |-> {}, approval |-> {}, fk |-> FALSE, verify_with |-> {}]
            required == [required |-> TRUE, group |-> {}]
            status == [Plain EXCEPT !.only_when = {Lifecycle}]
            priority == [Plain EXCEPT !.approval = {required}]
<1>1. TicketUpdates = [status |-> status, priority |-> priority]
  BY Zenon DEF TicketUpdates
<1>2. required.group = {}
  OBVIOUS
<1>3. status.approval = {}
  OBVIOUS
<1>4. priority.approval = {required}
  <2>. HIDE DEF required
  <2>. QED OBVIOUS
<1>. HIDE DEF status, priority, required
<1>5. DOMAIN TicketUpdates = {"status", "priority"} /\ TicketUpdates["status"] = status /\ TicketUpdates["priority"] = priority
  BY <1>1
<1>. QED BY <1>2, <1>3, <1>4, <1>5

LEMMA RequirementsOfUpdates ==
    ASSUME NEW perms, DOMAIN perms.creatable.map = {}, perms.deletable.approval = {},
           NEW a \in Requirements(perms)
    PROVE  \E c \in DOMAIN perms.updatable.map : a \in perms.updatable.map[c].approval
  BY DEF Requirements

LEMMA TicketFits ==
    ASSUME NEW tables, Introspected(tables), NEW t \in DOMAIN tables, NEW perms,
           perms = [ReadAllColumns(tables, t) EXCEPT !.updatable = [NoMap EXCEPT !.map = TicketUpdates]]
    PROVE  TableFits(perms, tables, t) /\ ~perms.updatable.all /\ perms.updatable.map = TicketUpdates
<1>1. PICK updates, read : updates = [NoMap EXCEPT !.map = TicketUpdates] /\ read = ReadAllColumns(tables, t)
  OBVIOUS
<1>2. ~updates.all /\ updates.map = TicketUpdates
  BY <1>1, PermissionParts
<1>3. TableFits(read, tables, t)
  BY <1>1, ReadAllFits
<1>4. DOMAIN read = {"readable", "creatable", "updatable", "deletable"} /\ read.creatable = NoMap /\ read.deletable = NoDelete
  BY <1>1, PermissionParts DEF ReadAllColumns
<1>5. /\ perms.readable = read.readable /\ perms.creatable = NoMap /\ perms.deletable = NoDelete
      /\ perms.updatable = updates
  BY <1>1, <1>4
<1>6. DOMAIN perms.creatable.map = {} /\ perms.deletable.approval = {} /\ perms.updatable.map = TicketUpdates
  BY <1>2, <1>5, PermissionParts
<1>7. ASSUME NEW a \in Requirements(perms) PROVE a.group = {}
  <2>1. PICK c \in DOMAIN TicketUpdates : a \in TicketUpdates[c].approval
    BY <1>6, RequirementsOfUpdates
  <2>. QED BY <2>1, TicketUpdatesAsk
<1>. QED BY <1>2, <1>3, <1>4, <1>5, <1>7 DEF TableFits

LEMMA AdminFits ==
    ASSUME NEW tables, NEW t \in DOMAIN tables
    PROVE  /\ TableFits(AdminRole(tables)[t], tables, t) /\ AdminRole(tables)[t].updatable.all
           /\ DOMAIN AdminRole(tables) = DOMAIN tables
           /\ Requirements(AdminRole(tables)[t]) = {}
<1>1. PICK all : all = [NoMap EXCEPT !.all = TRUE]
  OBVIOUS
<1>2. all.all /\ all.map = NoKeys
  BY <1>1, PermissionParts
<1>3. PICK readable : readable = [NoRead EXCEPT !.all = TRUE]
  OBVIOUS
<1>4. readable.all
  BY <1>3, PermissionParts
<1>5. PICK deletable : deletable = [NoDelete EXCEPT !.allowed = TRUE]
  OBVIOUS
<1>6. deletable.approval = {} /\ ~deletable.soft_delete
  BY <1>5, PermissionParts
<1>7. PICK perms : perms = AdminRole(tables)[t]
  OBVIOUS
<1>8. perms = [readable |-> readable, creatable |-> all, updatable |-> all, deletable |-> deletable]
  BY <1>1, <1>3, <1>5, <1>7 DEF AdminRole
<1>9. perms.readable = readable /\ perms.creatable = all /\ perms.updatable = all /\ perms.deletable = deletable
  BY <1>8
<1>10. DOMAIN perms.creatable.map = {} /\ DOMAIN perms.updatable.map = {} /\ perms.deletable.approval = {}
  BY <1>2, <1>6, <1>9, PermissionParts
<1>13. ASSUME NEW a \in Requirements(perms) PROVE FALSE
  BY <1>10, RequirementsOfUpdates
<1>14. perms.readable.all /\ perms.creatable.all /\ ~perms.deletable.soft_delete
  BY <1>2, <1>4, <1>6, <1>9
<1>11. TableFits(perms, tables, t)
  BY <1>13, <1>14 DEF TableFits
<1>12. DOMAIN AdminRole(tables) = DOMAIN tables
  BY DEF AdminRole
<1>. QED BY <1>2, <1>7, <1>9, <1>11, <1>12, <1>13

\* The columns that a sample role may change are there, of a ticket table without a
\* priority apart.
Unprioritised(tables) ==
    {t \in DOMAIN tables \cap SupportNames :
        IsTicketTable(tables, t) /\ "priority" \notin DOMAIN tables[t].columns}

UpdatesFit(perms, tables, t) ==
    perms.updatable.all \/ DOMAIN perms.updatable.map \subseteq DOMAIN tables[t].columns

LEMMA ReadonlyFits ==
    ASSUME KnownNames, NEW tables, Introspected(tables), DOMAIN tables # {}, NEW n \in Nat \ {0},
           NEW role, role = [t \in FirstOf(n, Listed(tables)) |-> ReadAllColumns(tables, t)]
    PROVE  /\ DOMAIN role # {} /\ DOMAIN role \subseteq DOMAIN tables
           /\ \A t \in DOMAIN role : /\ TableFits(role[t], tables, t) /\ UpdatesFit(role[t], tables, t)
                                      /\ Requirements(role[t]) = {}
<1>1. PICK first : first = FirstOf(n, Listed(tables))
  OBVIOUS
<1>2. first # {} /\ first \subseteq DOMAIN tables
  BY <1>1, FirstTables
<1>3. DOMAIN role = first /\ \A t \in first : role[t] = ReadAllColumns(tables, t)
  BY <1>1
<1>4. ASSUME NEW t \in first
      PROVE  TableFits(role[t], tables, t) /\ UpdatesFit(role[t], tables, t) /\ Requirements(role[t]) = {}
  <2>1. TableFits(role[t], tables, t) /\ role[t].updatable = NoMap /\ Requirements(role[t]) = {}
    BY <1>2, <1>3, ReadAllFits
  <2>. QED BY <2>1, PermissionParts DEF UpdatesFit
<1>. QED BY <1>2, <1>3, <1>4

LEMMA SupportFits ==
    ASSUME KnownNames, NEW tables, Introspected(tables), DOMAIN tables # {}
    PROVE  /\ DOMAIN SupportRole(tables) # {} /\ DOMAIN SupportRole(tables) \subseteq DOMAIN tables
           /\ \A t \in DOMAIN SupportRole(tables) : TableFits(SupportRole(tables)[t], tables, t)
           /\ (\A t \in DOMAIN SupportRole(tables) : UpdatesFit(SupportRole(tables)[t], tables, t))
                 <=> Unprioritised(tables) = {}
<1>1. PICK role, support : role = SupportRole(tables) /\ support = DOMAIN tables \cap SupportNames
  OBVIOUS
<1>2. CASE support = {}
  <2>1. role = [t \in FirstOf(5, Listed(tables)) |-> ReadAllColumns(tables, t)]
    BY <1>1, <1>2 DEF SupportRole
  <2>2. /\ DOMAIN role # {} /\ DOMAIN role \subseteq DOMAIN tables
        /\ \A t \in DOMAIN role : TableFits(role[t], tables, t) /\ UpdatesFit(role[t], tables, t)
    BY <2>1, ReadonlyFits
  <2>3. Unprioritised(tables) = {}
    BY <1>1, <1>2 DEF Unprioritised
  <2>. QED BY <1>1, <2>2, <2>3
<1>3. CASE support # {}
  <2>1. /\ DOMAIN role = support
        /\ \A t \in support : role[t] = IF IsTicketTable(tables, t)
              THEN [ReadAllColumns(tables, t) EXCEPT !.updatable = [NoMap EXCEPT !.map = TicketUpdates]]
              ELSE ReadAllColumns(tables, t)
    BY <1>1, <1>3 DEF SupportRole
  <2>2. ASSUME NEW t \in support
        PROVE  /\ TableFits(role[t], tables, t)
               /\ UpdatesFit(role[t], tables, t) <=> t \notin Unprioritised(tables)
    <3>1. t \in DOMAIN tables /\ t \in SupportNames
      BY <1>1
    <3>2. CASE IsTicketTable(tables, t)
      <4>1. TableFits(role[t], tables, t) /\ ~role[t].updatable.all /\ role[t].updatable.map = TicketUpdates
        BY <2>1, <3>1, <3>2, TicketFits
      <4>2. "status" \in DOMAIN tables[t].columns
        BY <3>2 DEF IsTicketTable
      <4>. QED BY <3>1, <3>2, <4>1, <4>2, TicketUpdatesAsk DEF UpdatesFit, Unprioritised
    <3>3. CASE ~IsTicketTable(tables, t)
      <4>1. TableFits(role[t], tables, t) /\ role[t].updatable = NoMap
        BY <2>1, <3>1, <3>3, ReadAllFits
      <4>. QED BY <3>3, <4>1, PermissionParts DEF UpdatesFit, Unprioritised
    <3>. QED BY <3>2, <3>3
  <2>3. Unprioritised(tables) \subseteq support
    BY <1>1 DEF Unprioritised
  <2>4. support \subseteq DOMAIN tables
    BY <1>1
  <2>5. (\A t \in support : UpdatesFit(role[t], tables, t)) <=> Unprioritised(tables) = {}
    BY <2>2, <2>3
  <2>. QED BY <1>1, <1>3, <2>1, <2>2, <2>4, <2>5
<1>. QED BY <1>2, <1>3

SampleTables(n, tables) ==
    CASE n = "admin_agent" -> AdminRole(tables)
      [] n = "readonly_agent" -> ReadonlyRole(tables)
      [] n = "support_agent" -> SupportRole(tables)

LEMMA SampleTablesFit ==
    ASSUME KnownNames, NEW tables, Introspected(tables), DOMAIN tables # {}
    PROVE  /\ \A n \in SampleNames :
                 /\ DOMAIN SampleTables(n, tables) # {}
                 /\ \A t \in DOMAIN SampleTables(n, tables) :
                       /\ TableFits(SampleTables(n, tables)[t], tables, t)
                       /\ n # "support_agent" => Requirements(SampleTables(n, tables)[t]) = {}
           /\ (\A n \in SampleNames : \A t \in DOMAIN SampleTables(n, tables) :
                    UpdatesFit(SampleTables(n, tables)[t], tables, t)) <=> Unprioritised(tables) = {}
<1>1. PICK admin, readonly, support :
         /\ admin = AdminRole(tables) /\ readonly = ReadonlyRole(tables) /\ support = SupportRole(tables)
  OBVIOUS
<1>2. /\ SampleTables("admin_agent", tables) = admin
      /\ SampleTables("readonly_agent", tables) = readonly
      /\ SampleTables("support_agent", tables) = support
  BY <1>1 DEF SampleTables
<1>3. /\ DOMAIN admin # {}
      /\ \A t \in DOMAIN admin : /\ TableFits(admin[t], tables, t) /\ UpdatesFit(admin[t], tables, t)
                                    /\ Requirements(admin[t]) = {}
  <2>1. DOMAIN admin = DOMAIN tables
    BY <1>1 DEF AdminRole
  <2>2. ASSUME NEW t \in DOMAIN tables
        PROVE  TableFits(admin[t], tables, t) /\ UpdatesFit(admin[t], tables, t) /\ Requirements(admin[t]) = {}
    <3>1. TableFits(admin[t], tables, t) /\ admin[t].updatable.all /\ Requirements(admin[t]) = {}
      BY <1>1, AdminFits
    <3>. QED BY <3>1 DEF UpdatesFit
  <2>. QED BY <2>1, <2>2
<1>4. /\ DOMAIN readonly # {}
      /\ \A t \in DOMAIN readonly : /\ TableFits(readonly[t], tables, t) /\ UpdatesFit(readonly[t], tables, t)
                                       /\ Requirements(readonly[t]) = {}
  <2>1. readonly = [t \in FirstOf(20, Listed(tables)) |-> ReadAllColumns(tables, t)]
    BY <1>1 DEF ReadonlyRole
  <2>. QED BY <2>1, ReadonlyFits
<1>5. /\ DOMAIN support # {}
      /\ \A t \in DOMAIN support : TableFits(support[t], tables, t)
      /\ (\A t \in DOMAIN support : UpdatesFit(support[t], tables, t)) <=> Unprioritised(tables) = {}
  BY <1>1, SupportFits
<1>. QED BY <1>2, <1>3, <1>4, <1>5 DEF SampleNames

LEMMA SampleRolesWritten ==
    ASSUME KnownNames, NEW tables, Introspected(tables), DOMAIN tables # {},
           NEW roles, roles = Overwritten(NoKeys, GenerateSampleRoles(tables))
    PROVE  /\ DOMAIN roles = SampleNames
           /\ \A n \in SampleNames : /\ roles[n].tables = {SampleTables(n, tables)}
                                     /\ roles[n].approvals \subseteq {"support_managers"}
           /\ roles["support_agent"].approvals # {}
<1>1. PICK admin, readonly, support :
         /\ admin = AdminRole(tables) /\ readonly = ReadonlyRole(tables) /\ support = SupportRole(tables)
  OBVIOUS
<1>2. /\ SampleTables("admin_agent", tables) = admin
      /\ SampleTables("readonly_agent", tables) = readonly
      /\ SampleTables("support_agent", tables) = support
  BY <1>1 DEF SampleTables
<1>3. RoleRead(admin) = {admin} /\ RoleRead(readonly) = {readonly} /\ RoleRead(support) = {support}
  <2>1. DOMAIN admin # {} /\ DOMAIN readonly # {} /\ DOMAIN support # {}
    BY <1>2, SampleTablesFit DEF SampleNames
  <2>. QED BY <2>1 DEF RoleRead
<1>4. PICK samples : samples = GenerateSampleRoles(tables)
  OBVIOUS
<1>5. samples = [admin_agent |-> [approvals |-> {}, tables |-> RoleRead(admin)],
                 readonly_agent |-> [approvals |-> {}, tables |-> RoleRead(readonly)],
                 support_agent |-> [approvals |-> {"support_managers"}, tables |-> RoleRead(support)]]
  BY <1>1, <1>4 DEF GenerateSampleRoles
<1>6. DOMAIN samples = SampleNames
  BY <1>5 DEF SampleNames
<1>7. /\ samples["admin_agent"].approvals = {} /\ samples["admin_agent"].tables = {admin}
      /\ samples["readonly_agent"].approvals = {} /\ samples["readonly_agent"].tables = {readonly}
      /\ samples["support_agent"].approvals = {"support_managers"}
      /\ samples["support_agent"].tables = {support}
  BY <1>3, <1>5
<1>8. DOMAIN roles = SampleNames /\ \A n \in SampleNames : roles[n] = samples[n]
  BY <1>4, <1>6, Overwriting
<1>. QED BY <1>2, <1>7, <1>8 DEF SampleNames

-----------------------------------------------------------------------------
(* The checks of what init wrote                                           *)

\* The configuration that is loaded, of a schema and rules that read.
LoadedFresh(config, tables, s, r) ==
    /\ config.schema = {s} /\ config.rules = {r} /\ config.types = TypesGenerated
    /\ DOMAIN config.groups = {"support_managers"} /\ config.groups["support_managers"] # {}
    /\ DOMAIN config.roles = SampleNames
    /\ \A n \in SampleNames : /\ config.roles[n].tables = SampleTables(n, tables)
                              /\ config.roles[n].approvals \subseteq {"support_managers"}
    /\ config.roles["support_agent"].approvals # {}
    /\ DOMAIN s = DOMAIN tables /\ DOMAIN r \subseteq DOMAIN tables
    /\ \A t \in DOMAIN tables : /\ DOMAIN s[t].columns = DOMAIN tables[t].columns
                               /\ KeySet(s, t) = KeySet(tables, t)

TypesDefined(r, types) ==
    \A t \in DOMAIN r : \A c \in DOMAIN r[t].columns : r[t].columns[c].type \subseteq types

LEMMA FreshChecks ==
    ASSUME KnownNames, NEW tables, Introspected(tables), DOMAIN tables # {},
           NEW config, NEW s, NEW r, LoadedFresh(config, tables, s, r)
    PROVE  /\ CheckTableNames(config) /\ CheckSoftDelete(config)
           /\ CheckNonnullColumns(config) /\ CheckPrimaryKeyAccess(config) /\ CheckApprovalGroups(config)
           /\ CheckColumnNames(config) <=> Unprioritised(tables) = {} /\ RuleColumnsExist(r, s)
           /\ CheckTypeReferences(config) <=> TypesDefined(r, TypesGenerated)
<1>1. /\ config.schema = {s} /\ config.rules = {r} /\ config.types = TypesGenerated
      /\ DOMAIN config.roles = SampleNames
      /\ DOMAIN s = DOMAIN tables /\ DOMAIN r \subseteq DOMAIN tables
  BY DEF LoadedFresh
<1>2. \A n \in SampleNames : config.roles[n].tables = SampleTables(n, tables)
  BY DEF LoadedFresh
<1>3. \A t \in DOMAIN tables : DOMAIN s[t].columns = DOMAIN tables[t].columns /\ KeySet(s, t) = KeySet(tables, t)
  BY DEF LoadedFresh
<1>4. ASSUME NEW n \in SampleNames, NEW t \in DOMAIN config.roles[n].tables
      PROVE  TableFits(config.roles[n].tables[t], tables, t)
  BY <1>2, SampleTablesFit
<1>5. \A n \in SampleNames : DOMAIN config.roles[n].tables \subseteq DOMAIN tables
  BY <1>4 DEF TableFits
<1>6. CheckTableNames(config)
  <2>1. SchemaTables(config) = DOMAIN tables
    BY <1>1 DEF SchemaTables
  <2>. QED BY <1>1, <1>5, <2>1 DEF CheckTableNames
<1>7. CheckSoftDelete(config)
  BY <1>1, <1>4 DEF CheckSoftDelete, TableFits
<1>8. CheckNonnullColumns(config)
  <2>1. \A n \in SampleNames : \A t \in DOMAIN config.roles[n].tables :
           config.roles[n].tables[t].creatable.all \/ MapIsEmpty(config.roles[n].tables[t].creatable)
    BY <1>4 DEF TableFits
  <2>. QED BY <1>1, <2>1 DEF CheckNonnullColumns
<1>9. CheckPrimaryKeyAccess(config)
  BY <1>1, <1>3, <1>4 DEF CheckPrimaryKeyAccess, TableFits
<1>10. CheckTypeReferences(config) <=> TypesDefined(r, TypesGenerated)
  BY <1>1 DEF CheckTypeReferences, TypesDefined
<1>11. ASSUME NEW n \in SampleNames
       PROVE  RoleColumnsExist(config.roles[n].tables, s)
              <=> \A t \in DOMAIN config.roles[n].tables : UpdatesFit(config.roles[n].tables[t], tables, t)
  <2>1. ASSUME NEW t \in DOMAIN config.roles[n].tables
        PROVE  /\ t \in DOMAIN s /\ DOMAIN s[t].columns = DOMAIN tables[t].columns
               /\ CheckReadableConfig(config.roles[n].tables[t].readable, DOMAIN s[t].columns)
               /\ CheckCreatableColumns(config.roles[n].tables[t].creatable, DOMAIN s[t].columns)
               /\ CheckCreatableColumns(config.roles[n].tables[t].updatable, DOMAIN s[t].columns)
                  <=> UpdatesFit(config.roles[n].tables[t], tables, t)
    <3>1. TableFits(config.roles[n].tables[t], tables, t)
      BY <1>4
    <3>2. t \in DOMAIN s /\ DOMAIN s[t].columns = DOMAIN tables[t].columns
      BY <1>1, <1>3, <3>1 DEF TableFits
    <3>. QED BY <3>1, <3>2 DEF TableFits, CheckReadableConfig, CheckCreatableColumns, UpdatesFit
  <2>2. RoleColumnsExist(config.roles[n].tables, s) <=>
           \A t \in DOMAIN config.roles[n].tables \cap DOMAIN s :
              /\ CheckReadableConfig(config.roles[n].tables[t].readable, DOMAIN s[t].columns)
              /\ CheckCreatableColumns(config.roles[n].tables[t].creatable, DOMAIN s[t].columns)
              /\ CheckCreatableColumns(config.roles[n].tables[t].updatable, DOMAIN s[t].columns)
    BY Zenon DEF RoleColumnsExist
  <2>. QED BY <2>1, <2>2
<1>12. (\A n \in SampleNames : RoleColumnsExist(config.roles[n].tables, s)) <=> Unprioritised(tables) = {}
  <2>1. (\A n \in SampleNames : \A t \in DOMAIN SampleTables(n, tables) :
            UpdatesFit(SampleTables(n, tables)[t], tables, t)) <=> Unprioritised(tables) = {}
    BY SampleTablesFit
  <2>. QED BY <1>2, <1>11, <2>1
<1>13. CheckColumnNames(config) <=> Unprioritised(tables) = {} /\ RuleColumnsExist(r, s)
  BY <1>1, <1>12 DEF CheckColumnNames
<1>14. CheckApprovalGroups(config)
  <2>1. ASSUME NEW n \in SampleNames, NEW g \in config.roles[n].approvals PROVE CheckApprovalConfig(config, g)
    BY DEF LoadedFresh, CheckApprovalConfig
  <2>2. ASSUME NEW n \in SampleNames, NEW t \in DOMAIN config.roles[n].tables,
               NEW a \in Requirements(config.roles[n].tables[t])
        PROVE  CheckApprovalRequirement(config, config.roles[n], a)
    <3>1. a.group = {}
      BY <1>4 DEF TableFits
    <3>2. n = "support_agent"
      BY <1>2, SampleTablesFit
    <3>. QED BY <3>1, <3>2 DEF LoadedFresh, CheckApprovalRequirement, IsSome
  <2>. QED BY <1>1, <2>1, <2>2 DEF CheckApprovalGroups
<1>. QED BY <1>6, <1>7, <1>8, <1>9, <1>10, <1>13, <1>14

\* What is read of a rule's tenancy is a column of the table itself.
LEMMA RulesAreDirect ==
    ASSUME NEW entries, NEW tenant, NEW i, NEW u \in RuleRead(entries, tenant, i).tenant
    PROVE  u.kind = "direct"
<1>1. PICK rule : rule = RuleRead(entries, tenant, i)
  OBVIOUS
<1>2. rule.tenant = IF entries[i].tenancy = "direct" THEN {[kind |-> "direct", column |-> tenant]} ELSE {}
  BY <1>1 DEF RuleRead
<1>. QED BY <1>1, <1>2

\* The rules that are read pass the checks exactly if no table in a comment has one.
LEMMA FreshRules ==
    ASSUME KnownNames, NEW tables, Introspected(tables), NEW tenant, NEW s, NEW r,
           DOMAIN s = DOMAIN tables,
           \A t \in DOMAIN tables : DOMAIN s[t].columns = DOMAIN tables[t].columns,
           r \in RulesRead(tables, tenant)
    PROVE  /\ DOMAIN r \subseteq DOMAIN tables
           /\ DOMAIN tables \ UnknownTables(tables, tenant) # {}
           /\ Silent(tables, tenant) <=> RuleColumnsExist(r, s) /\ TypesDefined(r, TypesGenerated)
<1>1. PICK entries : entries = RulesEntries(tables, tenant)
  OBVIOUS
<1>2. EntriesFit(entries, tables, tenant)
  BY <1>1, EntriesOfTables
<1>3. /\ ~Unreadable(entries)
      /\ DOMAIN r = {entries[i].table : i \in Heads(entries)}
      /\ \A i \in Heads(entries) : r[entries[i].table] = RuleRead(entries, tenant, i)
  <2>1. RulesFit(entries, tables, tenant)
    BY <1>1, RulesOfTables
  <2>. QED BY <2>1 DEF RulesFit
<1>4. DOMAIN r \subseteq DOMAIN tables
  BY <1>2, <1>3 DEF EntriesFit, Heads
<1>5. DOMAIN tables \ UnknownTables(tables, tenant) # {}
  BY <1>2, <1>3, KnownTables DEF Unreadable
<1>6. ASSUME NEW t \in DOMAIN r PROVE \A u \in r[t].tenant : u.kind = "direct"
  BY <1>3, RulesAreDirect
<1>7. RuleColumnsExist(r, s) /\ TypesDefined(r, TypesGenerated)
         <=> \A t \in DOMAIN r : RuleFits(r[t], DOMAIN tables[t].columns)
  <2>1. ASSUME NEW t \in DOMAIN r
        PROVE  /\ t \in DOMAIN s /\ DOMAIN s[t].columns = DOMAIN tables[t].columns
               /\ (\A u \in r[t].tenant : (IF u.kind = "direct" THEN u.column ELSE u.via) \in DOMAIN s[t].columns)
                     <=> \A u \in r[t].tenant : u.kind = "direct" /\ u.column \in DOMAIN s[t].columns
    BY <1>4, <1>6
  <2>2. RuleColumnsExist(r, s) <=>
           \A t \in DOMAIN r \cap DOMAIN s :
              /\ DOMAIN r[t].columns \subseteq DOMAIN s[t].columns
              /\ \A u \in r[t].tenant : (IF u.kind = "direct" THEN u.column ELSE u.via) \in DOMAIN s[t].columns
              /\ r[t].soft_delete \subseteq DOMAIN s[t].columns
    BY Zenon DEF RuleColumnsExist
  <2>. QED BY <2>1, <2>2 DEF TypesDefined, RuleFits
<1>8. CASE Silent(tables, tenant)
  <2>1. \A i \in Heads(entries) : RuleFits(r[entries[i].table], DOMAIN tables[entries[i].table].columns)
    BY <1>2, <1>3, <1>8, RuleOfSilent
  <2>2. \A t \in DOMAIN r : RuleFits(r[t], DOMAIN tables[t].columns)
    BY <1>3, <2>1
  <2>. QED BY <1>4, <1>5, <1>7, <1>8, <2>2
<1>9. CASE ~Silent(tables, tenant)
  <2>1. PICK i \in Heads(entries) :
           ~RuleFits(RuleRead(entries, tenant, i), DOMAIN tables[entries[i].table].columns)
    BY <1>2, <1>3, <1>9, RuleOfLoud
  <2>2. entries[i].table \in DOMAIN r
    BY <1>3
  <2>3. ~ \A t \in DOMAIN r : RuleFits(r[t], DOMAIN tables[t].columns)
    BY <1>3, <2>1, <2>2
  <2>. QED BY <1>4, <1>5, <1>7, <1>9, <2>3
<1>. QED BY <1>8, <1>9

\* Rules that do not read are those of a database with no table outside the comments,
\* or with a rule in one.
LEMMA UnreadRules ==
    ASSUME KnownNames, NEW tables, Introspected(tables), NEW tenant, RulesRead(tables, tenant) = {}
    PROVE  DOMAIN tables \ UnknownTables(tables, tenant) = {} \/ ~Silent(tables, tenant)
<1>1. PICK entries : entries = RulesEntries(tables, tenant)
  OBVIOUS
<1>2. EntriesFit(entries, tables, tenant)
  BY <1>1, EntriesOfTables
<1>3. Unreadable(entries)
  BY <1>1, RulesOfTables DEF RulesFit
<1>. QED BY <1>2, <1>3, KnownTables, SilentReads

\* What the hook asks of a new project.
Passing(tables, tenant) ==
    /\ DOMAIN tables \ UnknownTables(tables, tenant) # {}
    /\ Silent(tables, tenant)
    /\ Unprioritised(tables) = {}

LEMMA FreshJudged ==
    ASSUME KnownNames, NEW db, Introspected(db), NEW tenant, NEW key, NEW project,
           project = WriteProject(NoFiles, db, tenant, key, LastStep)
    PROVE  RunPreHook(project) <=> Passing(ExtractTables(db), tenant)
<1>1. PICK tables : tables = ExtractTables(db)
  OBVIOUS
<1>2. Introspected(tables)
  BY <1>1, TablesExtracted
<1>3. /\ project.config
      /\ project.schema = {SchemaRead(tables)} /\ project.rules = {RulesRead(tables, tenant)}
      /\ project.types = TypesGenerated
      /\ project.roles = Overwritten(NoKeys, GenerateSampleRoles(tables))
      /\ project.groups = Overwritten(NoKeys, GenerateSampleGroups)
  BY <1>1, FreshFiles
<1>4. CASE DOMAIN tables = {}
  <2>1. {} \in project.schema
    BY <1>2, <1>3, <1>4, SchemaFits
  <2>2. ~RunPreHook(project)
    BY <1>3, <2>1 DEF RunPreHook, ValidateJsonSchemas
  <2>. QED BY <1>1, <1>4, <2>2 DEF Passing
<1>5. CASE DOMAIN tables # {} /\ RulesRead(tables, tenant) = {}
  <2>1. ~RunPreHook(project)
    BY <1>3, <1>5 DEF RunPreHook, ValidateJsonSchemas
  <2>. QED BY <1>1, <1>2, <1>5, <2>1, UnreadRules DEF Passing
<1>6. CASE DOMAIN tables # {} /\ RulesRead(tables, tenant) # {}
  <2>1. PICK s \in SchemaRead(tables) : SchemaRead(tables) = {s}
    BY <1>2, <1>6, SchemaFits
  <2>2. /\ DOMAIN s = DOMAIN tables
        /\ \A t \in DOMAIN tables : DOMAIN s[t].columns = DOMAIN tables[t].columns
        /\ \A t \in DOMAIN tables : KeySet(s, t) = KeySet(tables, t)
    BY <1>2, SchemaFits
  <2>3. PICK r \in RulesRead(tables, tenant) : RulesRead(tables, tenant) = {r}
    <3>1. RulesFit(RulesEntries(tables, tenant), tables, tenant)
      BY <1>2, RulesOfTables
    <3>. QED BY <1>6, <3>1 DEF RulesFit
  <2>4. /\ DOMAIN r \subseteq DOMAIN tables
        /\ DOMAIN tables \ UnknownTables(tables, tenant) # {}
        /\ Silent(tables, tenant) <=> RuleColumnsExist(r, s) /\ TypesDefined(r, TypesGenerated)
    BY <1>2, <2>2, FreshRules
  <2>5. /\ DOMAIN project.roles = SampleNames /\ project.roles["support_agent"].approvals # {}
        /\ \A n \in SampleNames : /\ project.roles[n].tables = {SampleTables(n, tables)}
                                  /\ project.roles[n].approvals \subseteq {"support_managers"}
    BY <1>2, <1>3, <1>6, SampleRolesWritten
  <2>6. DOMAIN project.groups = {"support_managers"} /\ project.groups["support_managers"] # {}
    BY <1>3, SampleGroups
  <2>7. ValidateJsonSchemas(project)
    <3>1. SampleNames \cup {"support_managers"} \subseteq Identifiers
      BY DEF KnownNames, SampleNames
    <3>2. {} \notin project.schema \cup project.rules
      BY <1>3, <1>6, <2>1
    <3>. QED BY <2>5, <2>6, <3>1, <3>2 DEF ValidateJsonSchemas, IsSome
  <2>8. ~LoadFails(project)
    BY <1>3, <1>6, <2>1 DEF LoadFails
  <2>9. PICK config : config = LoadWithContext(project)
    OBVIOUS
  <2>10. LoadedFresh(config, tables, s, r)
    <3>1. /\ config.schema = UNION project.schema /\ config.rules = UNION project.rules
          /\ config.types = project.types /\ config.groups = project.groups
      BY <2>9 DEF LoadWithContext
    <3>2. config.schema = {s} /\ config.rules = {r} /\ config.types = TypesGenerated
      BY <1>3, <2>1, <2>3, <3>1
    <3>3. {n \in DOMAIN project.roles : IsSome(project.roles[n].tables)} = SampleNames
      BY <2>5 DEF IsSome
    <3>4. /\ DOMAIN config.roles = SampleNames
          /\ \A n \in SampleNames : config.roles[n] =
                [approvals |-> project.roles[n].approvals, tables |-> The(project.roles[n].tables)]
      <4>1. config.roles = [n \in {m \in DOMAIN project.roles : IsSome(project.roles[m].tables)} |->
                               [approvals |-> project.roles[n].approvals, tables |-> The(project.roles[n].tables)]]
        BY <2>9 DEF LoadWithContext
      <4>. QED BY <3>3, <4>1
    <3>5. ASSUME NEW n \in SampleNames
          PROVE  /\ config.roles[n].tables = SampleTables(n, tables)
                 /\ config.roles[n].approvals = project.roles[n].approvals
      <4>1. PICK sample, approvals : /\ sample = SampleTables(n, tables)
                                     /\ approvals = project.roles[n].approvals
        OBVIOUS
      <4>2. The(project.roles[n].tables) = sample
        BY <2>5, <4>1, TheOnly
      <4>3. config.roles[n] = [approvals |-> approvals, tables |-> sample]
        BY <3>4, <4>1, <4>2
      <4>. QED BY <4>1, <4>3
    <3>6. "support_agent" \in SampleNames
      BY DEF SampleNames
    <3>. QED BY <2>2, <2>4, <2>5, <2>6, <3>1, <3>2, <3>4, <3>5, <3>6 DEF LoadedFresh
  <2>11. /\ CheckTableNames(config) /\ CheckSoftDelete(config)
         /\ CheckNonnullColumns(config) /\ CheckPrimaryKeyAccess(config) /\ CheckApprovalGroups(config)
         /\ CheckColumnNames(config) <=> Unprioritised(tables) = {} /\ RuleColumnsExist(r, s)
         /\ CheckTypeReferences(config) <=> TypesDefined(r, TypesGenerated)
    BY <1>2, <1>6, <2>10, FreshChecks
  <2>12. RunPreHook(project) <=> PreHookChecks(config)
    BY <1>3, <2>7, <2>8, <2>9 DEF RunPreHook
  <2>. QED BY <1>1, <2>4, <2>11, <2>12 DEF PreHookChecks, Passing
<1>. QED BY <1>4, <1>5, <1>6

-----------------------------------------------------------------------------
(* Of a fresh project it is known what is in its files                     *)

FreshInv ==
    /\ database \in DOMAIN Migrated
    /\ \A f \in fresh :
          /\ f.db \in DOMAIN Migrated
          /\ \E key : files = WriteProject(NoFiles, f.db, f.tenant, key, LastStep)
    /\ files.config \/ IsSome(dash) => files.dir
    /\ ~files.dir => files = NoFiles

LEMMA FreshFields ==
    ~NoFiles.dir /\ ~NoFiles.config /\ DOMAIN NoFiles.groups = {}
  BY DEF NoFiles, NoKeys

\* init: a project of a directory that was not there is made of the database as it is.
LEMMA InitKeepsFresh ==
    ASSUME FreshInv, RunInit PROVE FreshInv'
<1>1. PICK tenant, steps :
         /\ files' = WriteProject(files, database, tenant, inits', steps)
         /\ fresh' = IF steps = LastStep /\ ~files.dir THEN {[db |-> database, tenant |-> tenant]} ELSE {}
  BY Zenon DEF RunInit
<1>2. UNCHANGED <<database, dash>>
  BY DEF RunInit
<1>3. files'.dir
  BY <1>1 DEF WriteProject
<1>4. ASSUME NEW f \in fresh'
      PROVE  /\ f.db \in DOMAIN Migrated
             /\ \E key : files' = WriteProject(NoFiles, f.db, f.tenant, key, LastStep)
  <2>1. steps = LastStep /\ ~files.dir /\ f = [db |-> database, tenant |-> tenant]
    BY <1>1, <1>4
  <2>2. files = NoFiles /\ database \in DOMAIN Migrated
    BY <2>1 DEF FreshInv
  <2>3. f.db = database /\ f.tenant = tenant
    BY <2>1
  <2>. QED BY <1>1, <2>1, <2>2, <2>3
<1>. QED BY <1>2, <1>3, <1>4 DEF FreshInv

\* Everybody else who writes files leaves no fresh project, and the directory.
LEMMA WritersEndFresh ==
    ASSUME IInv, FreshInv, fresh' = {}, UNCHANGED database,
           NEW field \in FileFields \ {"dir", "config"}, NEW value, files' = [files EXCEPT ![field] = value],
           IsSome(dash) \/ files.config \/ files # NoFiles,
           IsSome(dash') => IsSome(dash)
    PROVE  FreshInv'
<1>1. DOMAIN files = FileFields
  BY DEF IInv, FilesWritten
<1>2. files.dir
  BY DEF FreshInv
<1>3. files'.dir = files.dir
  BY <1>1 DEF FileFields
<1>. QED BY <1>2, <1>3 DEF FreshInv

LEMMA NextKeepsFresh ==
    ASSUME KnownDatabases, IInv, FreshInv, [Next]_vars PROVE FreshInv'
<1>1. CASE RunInit
  BY <1>1, InitKeepsFresh
<1>2. CASE Migrate
  BY <1>2 DEF Migrate, FreshInv, KnownDatabases
<1>3. CASE SyncSchema
  <2>1. \E value : files' = [files EXCEPT !["schema"] = value]
    BY <1>3 DEF SyncSchema, WriteSchema
  <2>2. files.config /\ fresh' = {} /\ UNCHANGED <<database, dash>>
    BY <1>3 DEF SyncSchema
  <2>. QED BY <2>1, <2>2, WritersEndFresh DEF FileFields
<1>4. CASE WriteRole
  <2>1. \E value : files' = [files EXCEPT !["roles"] = value]
    BY <1>4, Zenon DEF WriteRole, Written, Changes
  <2>2. files.config /\ fresh' = {} /\ UNCHANGED <<database, dash>>
    BY <1>4, Zenon DEF WriteRole, Written, Changes
  <2>. QED BY <2>1, <2>2, WritersEndFresh DEF FileFields
<1>5. CASE RemoveGroup
  <2>1. \E value : files' = [files EXCEPT !["groups"] = value]
    BY <1>5, Zenon DEF RemoveGroup, Written, Changes
  <2>2. (\E g : g \in DOMAIN files.groups) /\ fresh' = {} /\ UNCHANGED <<database, dash>>
    BY <1>5, Zenon DEF RemoveGroup, Written, Changes
  <2>3. files # NoFiles
    BY <2>2, FreshFields
  <2>. QED BY <2>1, <2>2, <2>3, WritersEndFresh DEF FileFields
<1>6. CASE DeleteRole
  <2>1. \E value : files' = [files EXCEPT !["roles"] = value]
    BY <1>6, Zenon DEF DeleteRole, Written, Changes
  <2>2. (\E d : d \in dash) /\ fresh' = {} /\ UNCHANGED database
    BY <1>6, Zenon DEF DeleteRole, Written, Changes
  <2>3. IsSome(dash)
    BY <2>2 DEF IsSome
  <2>. QED BY <2>1, <2>2, <2>3, WritersEndFresh DEF FileFields
<1>7. ASSUME NEW b \in Browsers, SaveRole(b) PROVE FreshInv'
  <2>1. \E value : files' = [files EXCEPT !["roles"] = value]
    BY <1>7, Zenon DEF SaveRole, Save, Changes
  <2>2. (\E d : d \in dash) /\ fresh' = {} /\ UNCHANGED database
    BY <1>7, Zenon DEF SaveRole, Save, Changes
  <2>3. IsSome(dash)
    BY <2>2 DEF IsSome
  <2>. QED BY <2>1, <2>2, <2>3, WritersEndFresh DEF FileFields
<1>8. CASE LoadHttp \/ LoadStdio
  <2>1. UNCHANGED <<database, files, fresh>> /\ files.config
    BY <1>8 DEF LoadHttp, LoadStdio, Loadable
  <2>. QED BY <2>1 DEF FreshInv
<1>9. CASE PreHook \/ LoadError \/ UNCHANGED vars
  BY <1>9 DEF PreHook, LoadError, vars, FreshInv
<1>10. CASE Stop
  <2>1. UNCHANGED <<database, files, fresh>> /\ dash' = {}
    BY <1>10 DEF Stop
  <2>. QED BY <2>1 DEF FreshInv, IsSome
<1>11. CASE RefreshSchema
  <2>1. UNCHANGED <<database, files, fresh>> /\ IsSome(dash)
    BY <1>11 DEF RefreshSchema
  <2>. QED BY <2>1 DEF FreshInv
<1>12. ASSUME NEW b \in Browsers,
              \/ RoleEdit(b) \/ RoleNew(b) \/ Cancel(b) \/ ClickTable(b) \/ ClickPermission(b)
              \/ ClickOption(b) \/ ClickColumn(b) \/ ClickDialog(b) \/ ClickGroup(b)
       PROVE  FreshInv'
  <2>1. UNCHANGED <<database, files, fresh, dash>>
    BY <1>12 DEF RoleEdit, RoleNew, Cancel, ClickTable, ClickPermission, ClickOption, ClickColumn,
         ClickDialog, ClickGroup, Clicks
  <2>. QED BY <2>1 DEF FreshInv
<1>. QED BY <1>1, <1>2, <1>3, <1>4, <1>5, <1>6, <1>7, <1>8, <1>9, <1>10, <1>11, <1>12 DEF Next

(* The project that init makes of a database, in a new directory, passes   *)
(* the hook before `cori run' exactly if there are tables, of some the     *)
(* tenancy is known, none of unknown tenancy has a rule, and every ticket  *)
(* table has a priority (commands/init.rs, commands/check.rs), whatever    *)
(* the database and whatever happened to it since.                         *)
THEOREM FreshProjectsAreJudged ==
    ASSUME KnownDatabases, KnownNames PROVE Spec => []FreshProjectsPass
<1>1. Init => IInv /\ FreshInv
  <2>. SUFFICES ASSUME Init PROVE IInv /\ FreshInv
    OBVIOUS
  <2>1. database \in DOMAIN Migrated
    BY DEF Init, KnownDatabases
  <2>2. files = NoFiles /\ fresh = {} /\ dash = {}
    BY DEF Init
  <2>. QED BY <2>1, <2>2, FreshFields, InitHolds DEF FreshInv, IsSome
<1>2. IInv /\ FreshInv /\ [Next]_vars => (IInv /\ FreshInv)'
  BY NextKeeps, NextKeepsFresh
<1>3. FreshInv => FreshProjectsPass
  <2>. SUFFICES ASSUME FreshInv, NEW f \in fresh
                PROVE  RunPreHook(files) <=> Passing(ExtractTables(f.db), f.tenant)
    BY DEF FreshProjectsPass, Passing, UnknownTables, Silent, Unprioritised
  <2>1. f.db \in DOMAIN Migrated /\ \E key : files = WriteProject(NoFiles, f.db, f.tenant, key, LastStep)
    BY DEF FreshInv
  <2>2. Introspected(f.db)
    BY <2>1 DEF KnownDatabases
  <2>. QED BY <2>1, <2>2, FreshJudged
<1>. QED BY <1>1, <1>2, <1>3, PTL DEF Spec
=============================================================================
