--------------------------------- MODULE Project ---------------------------------
(***************************************************************************)
(* The life of a project's files: `cori init' writes them, an operator     *)
(* edits them, migrations and `cori db sync' move the schema under them,   *)
(* `cori run' checks them, loads them and serves what they say             *)
(* (cori-cli/src/commands/run.rs), and the dashboard that it starts edits  *)
(* the roles among them (cori-dashboard/src/handlers.rs, state.rs).        *)
(*                                                                         *)
(* The hook that checks the files and the program that loads them read     *)
(* them at different times, and so do two browsers with the same role      *)
(* open.  A save replaces the whole role by what the page holds.           *)
(***************************************************************************)
EXTENDS ProjectInit, RoleEditor, Tokens, ToolGenerator

CONSTANTS
    Databases,      \* the databases a project may be made of
    Migrated,       \* database -> what its migrations may lead to
    RoleDocs,       \* role files an operator writes: [name, approvals, tables]
    RoleNames,      \* roles that tokens are minted for
    Tenants,        \* tenants that tokens are attenuated to
    Browsers,       \* browsers with a role editor open
    Edited,         \* bound: the roles that browsers open
    NewNames,       \* names that browsers give to new roles
    Cuts,           \* bound: the steps after which an init may be interrupted
    MaxInits,       \* bound: inits
    MaxWrites,      \* bound: roles and groups written or removed, saves apart
    MaxClicks       \* bound: clicks in editors, of all browsers

VARIABLES
    database,       \* the schema of the database
    files,          \* the project, see ConfigCheck
    fresh,          \* option of [db, tenant]: what the files were made of, if init was
                    \* the last to write them and found no directory
    inits, writes, clicks,
    proc,           \* the process of `cori run'
    dash,           \* option of [roles, cache]: the roles the dashboard has in memory,
                    \* and the database as it saw it last
    drafts          \* browser -> option of an open editor

vars == <<database, files, fresh, inits, writes, clicks, proc, dash, drafts>>
operator == <<inits, writes, clicks>>

\* phase  "idle", "checked" by the hook, "serving", "panicked" making the tools
\* same   whether the files are, or were when loaded, those that the hook passed
\* role   option of the role of a stdio server
NoConfig == [schema |-> {}, rules |-> {}, types |-> {}, roles |-> NoKeys, groups |-> NoKeys]
Idle == [phase |-> "idle", mode |-> "http", same |-> FALSE, config |-> NoConfig, role |-> {}]

Init ==
    /\ database \in Databases
    /\ files = NoFiles /\ fresh = {}
    /\ inits = 0 /\ writes = 0 /\ clicks = 0
    /\ proc = Idle /\ dash = {} /\ drafts = [b \in Browsers |-> {}]

\* Files change under a process that has checked them and not loaded them yet.
Changed == proc' = IF proc.phase = "checked" THEN [proc EXCEPT !.same = @ /\ files' = files] ELSE proc
Changes(new) == files' = new /\ fresh' = {}
Written(new) == Changes(new) /\ writes < MaxWrites /\ writes' = writes + 1

-----------------------------------------------------------------------------
(* The operator and the database.                                          *)

\* init::run, to the end or up to some step; over a directory that exists, with --force.
RunInit ==
    /\ inits < MaxInits /\ inits' = inits + 1
    /\ \E tenant \in DetectTenantColumn(ExtractTables(database)), steps \in Cuts \cup {LastStep} :
          /\ files' = WriteProject(files, database, tenant, inits', steps)
          /\ fresh' = IF steps = LastStep /\ ~files.dir THEN {[db |-> database, tenant |-> tenant]} ELSE {}
    /\ Changed
    /\ UNCHANGED <<database, writes, clicks, dash, drafts>>

Migrate ==
    /\ database' \in Migrated[database]
    /\ UNCHANGED <<files, fresh, operator, proc, dash, drafts>>

\* run_db_sync, which skips the hook.
SyncSchema ==
    /\ files.config
    /\ files' = WriteSchema(files, database) /\ fresh' = {}
    /\ Changed
    /\ UNCHANGED <<database, operator, dash, drafts>>

WriteRole ==
    /\ files.config
    /\ \E doc \in RoleDocs :
          Written([files EXCEPT !.roles = Overwritten(@, [n \in {doc.name} |->
                        [approvals |-> doc.approvals, tables |-> doc.tables]])])
    /\ Changed
    /\ UNCHANGED <<database, inits, clicks, dash, drafts>>

RemoveGroup ==
    /\ \E g \in DOMAIN files.groups :
          Written([files EXCEPT !.groups = [h \in DOMAIN @ \ {g} |-> @[h]]])
    /\ Changed
    /\ UNCHANGED <<database, inits, clicks, dash, drafts>>

-----------------------------------------------------------------------------
(* cori run                                                                *)

\* run_pre_hook_check_with_config: ends the program unless the checks pass.
PreHook ==
    /\ proc.phase = "idle"
    /\ \E mode \in {"http", "stdio"} :
          proc' = IF RunPreHook(files)
                  THEN [Idle EXCEPT !.phase = "checked", !.mode = mode, !.same = TRUE]
                  ELSE Idle
    /\ UNCHANGED <<database, files, fresh, operator, dash, drafts>>

\* A config file, schema and rules that parse, and a schema are needed.
Loadable == files.config /\ ~LoadFails(files) /\ IsSome(files.schema)

LoadError ==
    /\ proc.phase = "checked" /\ ~Loadable
    /\ proc' = Idle
    /\ UNCHANGED <<database, files, fresh, operator, dash, drafts>>

\* The roles that a process makes tools for.
Served(p) ==
    IF p.mode = "http" THEN {p.config.roles[n].tables : n \in DOMAIN p.config.roles}
    ELSE {p.config.roles[n].tables : n \in p.role \cap DOMAIN p.config.roles}

\* The servers start, for a role in stdio mode, and the dashboard, which cori.yaml
\* enables.  A panic while the tools are made ends the task of the HTTP
\* server, or the process of the stdio server with its dashboard.
Start(role) ==
    LET loaded == [proc EXCEPT !.config = LoadWithContext(files), !.role = role]
        panics == \E s \in loaded.config.schema : \E r \in Served(loaded) : GeneratePanics(r, s)
    IN /\ proc' = [loaded EXCEPT !.phase = IF panics THEN "panicked" ELSE "serving"]
       /\ dash' = IF panics /\ proc.mode = "stdio" THEN {}
                  ELSE {[roles |-> loaded.config.roles, cache |-> database]}

\* run_http_mode
LoadHttp ==
    /\ proc.phase = "checked" /\ proc.mode = "http" /\ Loadable
    /\ Start({})
    /\ UNCHANGED <<database, files, fresh, operator, drafts>>

\* Tokens minted under any pair of keys so far, some expired by now.
Now == 1
Minted ==
    LET roleTokens == {MintRoleToken(k, r) : k \in 1..inits, r \in RoleNames}
    IN roleTokens \cup {Attenuate(t, tenant, expiry) :
                            t \in roleTokens, tenant \in Tenants, expiry \in {{}, {0}}}

\* run_stdio_mode: a role without a file has no tables; one whose file does not
\* parse, or a token that does not verify, ends the program.  The tenant is the
\* executor's, see Gateway.
LoadStdio ==
    /\ proc.phase = "checked" /\ proc.mode = "stdio" /\ Loadable
    /\ \E token \in Minted :
          LET session == Verify(token, files.key, Now)
              unread == {n \in DOMAIN files.roles : ~IsSome(files.roles[n].tables)}
          IN IF session = {} \/ token.role \in unread
             THEN proc' = Idle /\ UNCHANGED dash
             ELSE Start({token.role})
    /\ UNCHANGED <<database, files, fresh, operator, drafts>>

Stop ==
    /\ proc.phase \in {"serving", "panicked"}
    /\ proc' = Idle /\ dash' = {}
    /\ UNCHANGED <<database, files, fresh, operator, drafts>>

-----------------------------------------------------------------------------
(* The dashboard's pages about roles.  An editor is [name, new, group,     *)
(* opened, schema, rules, tables, touched, dialogs]: the role's tables as  *)
(* they were when the page was made, the database and the rules that the   *)
(* page knows, and what the clicks made of the tables.  touched are the    *)
(* tables <<t>>, the permissions <<t, part>> and the columns               *)
(* <<t, part, c>> that were changed; dialogs the columns whose dialog was  *)
(* saved as it came up.                                                    *)

Editor(name, new, group, tables) ==
    {[name |-> name, new |-> new, group |-> group, opened |-> tables,
      schema |-> (The(dash)).cache, rules |-> proc.config.rules,
      tables |-> RoleTablesToJson(tables), touched |-> {}, dialogs |-> {}]}

RoleEdit(b) ==
    /\ drafts[b] = {}
    /\ \E d \in dash : \E n \in DOMAIN d.roles \cap Edited :
          drafts' = [drafts EXCEPT ![b] = Editor(n, FALSE, d.roles[n].approvals, d.roles[n].tables)]
    /\ UNCHANGED <<database, files, fresh, operator, proc, dash>>

RoleNew(b) ==
    /\ drafts[b] = {} /\ IsSome(dash)
    /\ \E n \in NewNames : drafts' = [drafts EXCEPT ![b] = Editor(n, TRUE, {}, NoKeys)]
    /\ UNCHANGED <<database, files, fresh, operator, proc, dash>>

Cancel(b) ==
    /\ drafts[b] # {} /\ drafts' = [drafts EXCEPT ![b] = {}]
    /\ UNCHANGED <<database, files, fresh, operator, proc, dash>>

\* The role that the form holds.
FormToRoleDefinition(d) == [approvals |-> d.group, tables |-> FormToTables(d.tables)]

\* save_role: to the file and to memory.
Save(name, role) ==
    /\ Changes([files EXCEPT !.roles = Overwritten(@, [n \in {name} |->
                    [approvals |-> role.approvals, tables |-> {role.tables}]])])
    /\ dash' = {[d EXCEPT !.roles = Overwritten(@, [n \in {name} |-> role])] : d \in dash}
    /\ Changed

\* role_create replaces a role of that name; role_update needs one.
SaveRole(b) ==
    /\ \E d \in dash, draft \in drafts[b] :
          /\ draft.new \/ draft.name \in DOMAIN d.roles
          /\ Save(draft.name, FormToRoleDefinition(draft))
    /\ drafts' = [drafts EXCEPT ![b] = {}]
    /\ UNCHANGED <<database, operator>>

\* role_delete: the file goes even if the role is not in memory.
DeleteRole ==
    /\ \E d \in dash : \E n \in (DOMAIN d.roles \cup DOMAIN files.roles) \cap Edited :
          /\ Written([files EXCEPT !.roles = [m \in DOMAIN @ \ {n} |-> @[m]]])
          /\ dash' = {[d EXCEPT !.roles = [m \in DOMAIN @ \ {n} |-> @[m]]]}
    /\ Changed
    /\ UNCHANGED <<database, inits, clicks, drafts>>

\* schema_refresh
RefreshSchema ==
    /\ IsSome(dash)
    /\ dash' = {[d EXCEPT !.cache = database] : d \in dash}
    /\ UNCHANGED <<database, files, fresh, operator, proc, drafts>>

-----------------------------------------------------------------------------
(* Clicks in an editor.                                                    *)

Parts == {"readable", "creatable", "updatable", "deletable"}
Columns(d, table) == IF table \in DOMAIN d.schema THEN DOMAIN d.schema[table].columns ELSE {}

\* isTenantColumn: neither ticked nor opened.
TenantColumns(d, table) ==
    UNION {{(IF u.kind = "direct" THEN u.column ELSE u.via) : u \in r[table].tenant} :
           r \in {q \in d.rules : table \in DOMAIN q}}

Clicks ==
    /\ clicks < MaxClicks /\ clicks' = clicks + 1
    /\ UNCHANGED <<database, files, fresh, inits, writes, proc, dash>>

Click(b, tables, touched, dialogs) ==
    drafts' = [drafts EXCEPT ![b] = {[d EXCEPT !.tables = tables, !.touched = @ \cup touched,
                                               !.dialogs = @ \cup dialogs] : d \in drafts[b]}]

ClickTable(b) ==
    /\ Clicks
    /\ \E d \in drafts[b] :
          \/ \E t \in DOMAIN d.schema \ DOMAIN d.tables :
                Click(b, Overwritten(d.tables, [u \in {t} |-> SelectTable]), {<<t>>}, {})
          \/ \E t \in DOMAIN d.tables :
                Click(b, [u \in DOMAIN d.tables \ {t} |-> d.tables[u]], {<<t>>}, {})

\* Of table t, part `part' becomes `new'.
ClickPart(b, d, t, part, new, touched, dialogs) ==
    Click(b, [d.tables EXCEPT ![t] = [@ EXCEPT ![part] = new]], touched, dialogs)

ClickPermission(b) ==
    /\ Clicks
    /\ \E d \in drafts[b] : \E t \in DOMAIN d.tables :
          \/ \E part \in Parts \ {"deletable"}, enabled \in BOOLEAN :
                ClickPart(b, d, t, part, TogglePermission(part, enabled), {<<t, part>>}, {})
          \/ \E part \in Parts \ {"deletable"}, all \in BOOLEAN :
                /\ IsSome(d.tables[t][part])
                /\ ClickPart(b, d, t, part, SetAllColumns(part, all), {<<t, part>>}, {})
          \/ \E enabled \in BOOLEAN :
                ClickPart(b, d, t, "deletable", ToggleDeletable(enabled), {<<t, "deletable">>}, {})

ClickOption(b) ==
    /\ Clicks
    /\ \E d \in drafts[b] : \E t \in DOMAIN d.tables :
          \/ \E max \in {{}, {10}} :
                /\ IsSome(d.tables[t].readable)
                /\ ClickPart(b, d, t, "readable", SetMaxPerPage(d.tables[t].readable, max),
                             {<<t, "readable">>}, {})
          \/ \E key \in {"requires_approval", "soft_delete"}, value \in BOOLEAN :
                LET set == IF key = "soft_delete" THEN TRUE ELSE <<"bool", TRUE>>
                IN /\ IsSome(d.tables[t].deletable)
                   /\ ClickPart(b, d, t, "deletable",
                                SetDeletableOption(d.tables[t].deletable, key, IF value THEN {set} ELSE {}),
                                {<<t, "deletable">>}, {})
          \/ \E columns \in {{}, Columns(d, t)} :
                /\ IsSome(d.tables[t].deletable)
                /\ ClickPart(b, d, t, "deletable",
                             SetDeletableOption(d.tables[t].deletable, "verify_with",
                                                IF columns = {} THEN {} ELSE {columns}),
                             {<<t, "deletable">>}, {})

\* The tick boxes of columns are there for a list of columns.
Listing(d, t, part) == \E v \in d.tables[t][part] : ~v.all

ClickColumn(b) ==
    /\ Clicks
    /\ \E d \in drafts[b] : \E t \in DOMAIN d.tables : \E c \in Columns(d, t), checked \in BOOLEAN :
          \/ /\ Listing(d, t, "readable")
             /\ ClickPart(b, d, t, "readable", ToggleReadable(d.tables[t].readable, c, checked),
                          {<<t, "readable">>}, {})
          \/ \E part \in {"creatable", "updatable"} :
                /\ Listing(d, t, part) /\ c \notin TenantColumns(d, t)
                /\ ClickPart(b, d, t, part, ToggleColumn(d.tables[t][part], c, checked),
                             {<<t, part, c>>}, {})

\* A column's dialog, saved as it came up or with the box for approval changed.
ClickDialog(b) ==
    /\ Clicks
    /\ \E d \in drafts[b] : \E t \in DOMAIN d.tables : \E part \in {"creatable", "updatable"} :
          /\ Listing(d, t, part)
          /\ LET columns == The(d.tables[t][part])
             IN \E c \in (DOMAIN columns.map \cap Columns(d, t)) \ TenantColumns(d, t), ticked \in BOOLEAN :
                   LET at == {<<t, part, c>>}
                       saved == SaveColumnConstraints(c, columns.map[c], ticked)
                       same == ticked = ApprovalTicked(columns.map[c])
                   IN ClickPart(b, d, t, part, {[columns EXCEPT !.map[c] = saved]},
                                IF same THEN {} ELSE at, IF same THEN at ELSE {})

\* The group is typed in.
ClickGroup(b) ==
    /\ Clicks
    /\ \E draft \in drafts[b] : \E group \in {{}} \cup {{g} : g \in DOMAIN files.groups} :
          drafts' = [drafts EXCEPT ![b] = {[draft EXCEPT !.group = group]}]

Next ==
    \/ RunInit \/ Migrate \/ SyncSchema \/ WriteRole \/ RemoveGroup
    \/ PreHook \/ LoadError \/ LoadHttp \/ LoadStdio \/ Stop
    \/ DeleteRole \/ RefreshSchema
    \/ \E b \in Browsers :
          \/ RoleEdit(b) \/ RoleNew(b) \/ Cancel(b) \/ SaveRole(b)
          \/ ClickTable(b) \/ ClickPermission(b) \/ ClickOption(b)
          \/ ClickColumn(b) \/ ClickDialog(b) \/ ClickGroup(b)

Spec == Init /\ [][Next]_vars

-----------------------------------------------------------------------------
\* Somebody who can approve it stands behind every approval that is required.
Approvable(config, role, perms) ==
    \A a \in Requirements(perms) :
        a.required => \E g \in (IF IsSome(a.group) THEN a.group ELSE role.approvals) :
                        g \in DOMAIN config.groups /\ config.groups[g] # {}

\* What the agent must be able to hand over when it creates a row.
Creatable(config, schema, tables, t) ==
    /\ RequiredColumns(config, schema, t) \subseteq CreateRequired(tables, schema, t)
    /\ ~tables[t].creatable.all /\ CheckForeignKeyVerifyColumns(config)
          => FkVerificationColumns(tables[t].creatable) \subseteq CreateRequired(tables, schema, t)

(* What the hook before `cori run' lets through can be served, if the      *)
(* files are still the same when they are loaded (commands/run.rs:263 loads *)
(* them again): making the tools does not panic unless the schema is empty; *)
(* where a role may create rows, the tool asks for every column that the   *)
(* database insists on, and after a full `cori check' for every value that *)
(* is verified; and every approval that a role requires is one that        *)
(* somebody can give.                                                      *)
CheckedMeansUsable ==
    proc.same /\ proc.phase \in {"serving", "panicked"} =>
        LET config == proc.config IN
        /\ proc.phase = "panicked" => SchemaTables(config) = {}
        /\ \A n \in DOMAIN config.roles : \A t \in DOMAIN config.roles[n].tables :
              LET role == config.roles[n]
              IN /\ Approvable(config, role, role.tables[t])
                 /\ \A s \in config.schema :
                       t \in DOMAIN s /\ CanCreate(role.tables, t) => Creatable(config, s, role.tables, t)

(* The project that init makes in a new directory passes the program's own *)
(* hook exactly when: there are tables; of some the tenancy is known; no   *)
(* table of unknown tenancy has a rule, which would be filed under the     *)
(* table before it; and every ticket table has the priority that the       *)
(* support role may change (commands/init.rs:795, 1265).                   *)
FreshProjectsPass ==
    \A f \in fresh :
        LET tables == ExtractTables(f.db)
            unknown == {t \in DOMAIN tables : Tenancy(tables, f.tenant, t) = "unknown"}
        IN RunPreHook(files) <=>
              /\ DOMAIN tables \ unknown # {}
              /\ \A t \in unknown : ~HasBlock(GenerateColumnRules(tables, t))
              /\ \A t \in DOMAIN tables \cap SupportNames :
                    IsTicketTable(tables, t) => "priority" \in DOMAIN tables[t].columns

\* What a dialog saved as it came up must not lose, whatever it does to values.
ConstraintsStay(part, old, new) ==
    /\ IsRequired(old.approval) => IsRequired(new.approval)
    /\ old.verify_with = new.verify_with
    /\ IF part = "creatable"
       THEN old.required = new.required /\ IsSome(old.restrict_to) = IsSome(new.restrict_to)
       ELSE {[i \in DOMAIN sets |-> DOMAIN sets[i]] : sets \in old.only_when}
            = {[i \in DOMAIN sets |-> DOMAIN sets[i]] : sets \in new.only_when}

ColumnsStay(draft, t, part, old, new) ==
    /\ old.all = new.all
    /\ \A c \in DOMAIN old.map \cup DOMAIN new.map :
          <<t, part, c>> \notin draft.touched =>
             /\ c \in DOMAIN old.map \cap DOMAIN new.map
             /\ IF <<t, part, c>> \in draft.dialogs
                THEN ConstraintsStay(part, old.map[c], new.map[c])
                ELSE old.map[c] = new.map[c]

RestStays(draft, saved) ==
    \A t \in DOMAIN draft.opened \cup DOMAIN saved :
        <<t>> \notin draft.touched =>
           /\ t \in DOMAIN draft.opened \cap DOMAIN saved
           /\ \A part \in {p \in Parts : <<t, p>> \notin draft.touched} :
                 IF part \in {"creatable", "updatable"}
                 THEN ColumnsStay(draft, t, part, draft.opened[t][part], saved[t][part])
                 ELSE draft.opened[t][part] = saved[t][part]

(* Saving a role through the editor changes what was clicked: the role     *)
(* goes to the page as JSON (pages.rs:1512), is rewritten there as a whole *)
(* and read back (handlers.rs:1267), and every table, permission and       *)
(* column that was not touched is saved as it was when the page was made.  *)
(* A column whose dialog was only confirmed keeps its approval, its        *)
(* verification, and what it is restricted by.                             *)
SavesKeepTheRest ==
    [][\A b \in Browsers : SaveRole(b) =>
          \A draft \in drafts[b] : \A saved \in files'.roles[draft.name].tables :
              RestStays(draft, saved)]_vars

-----------------------------------------------------------------------------
\* The roles that an operator writes are roles, and have no empty lists in them.
CarefulDocs == \A doc \in RoleDocs : \A tables \in doc.tables : CarefulRole(tables)

\* Databases and what they migrate to are schemas: their tables have names, and a
\* table's key is made of its columns.
Introspected(db) ==
    \A t \in DOMAIN db :
        /\ \E i \in DOMAIN Sorted : Sorted[i] = t
        /\ DOMAIN db[t] = {"columns", "primary_key", "foreign_keys"}
        /\ KeySet(db, t) \subseteq DOMAIN db[t].columns

KnownDatabases ==
    /\ Databases \subseteq DOMAIN Migrated
    /\ \A db \in DOMAIN Migrated : Migrated[db] \subseteq DOMAIN Migrated /\ Introspected(db)

\* Names are listed once, and the names of the sample files are identifiers.
KnownNames ==
    /\ Sorted \in Seq(Tables) /\ \A i, j \in DOMAIN Sorted : Sorted[i] = Sorted[j] => i = j
    /\ {"admin_agent", "readonly_agent", "support_agent", "support_managers"} \subseteq Identifiers
=============================================================================
