-------------------------------- MODULE Gateway --------------------------------
(***************************************************************************)
(* Tool calls against the rows of several tenants: ToolExecutor::execute   *)
(* from the offered tool over validation and approval to the statement,    *)
(* and ToolExecutor::execute_approved for what an approver lets through    *)
(* (cori-mcp/src/executor.rs), while the dashboard edits the role.         *)
(*                                                                         *)
(* The MCP server works with the role it was started with (server.rs       *)
(* clones it), the dashboard with the one it has (handlers.rs).  The       *)
(* lifecycle of an approval request, its answers and its failures are in   *)
(* ApprovalWorkflow; here a request is pending until an approver takes it. *)
(*                                                                         *)
(* A step ends where the code awaits the database: after the row that      *)
(* validation looks at, after the snapshot, after the query of each        *)
(* foreign key of a create, and after the statement.  There are no         *)
(* transactions: other calls come in between.                              *)
(* Dry runs end before they reach the database and are left out.           *)
(***************************************************************************)
EXTENDS ToolExecutor

CONSTANTS
    Slots,          \* calls that are under way at a time
    Tenants,        \* tenants of the tokens that calls come with
    Versions,       \* versions of the role, as the dashboard saves them
    Definition,     \* what each version says
    Arguments,      \* arguments that agents send, per operation
    Rules, Schema,  \* the rules and the captured schema
    FirstRows,      \* the database at the start
    MaxPending,     \* bound: requests waiting at a time
    FirstSerial,    \* the next value of the sequence behind serial columns
    MaxSerial       \* bound: values of the sequence

\* What every row of a database has: its table's columns, and a key of its own.
WellStored(db) ==
    /\ db = [t \in DOMAIN Schema |-> db[t]]
    /\ \A t \in DOMAIN Schema :
          /\ \A row \in db[t] : DOMAIN row = DOMAIN Schema[t].columns
          /\ IsFiniteSet(db[t])
          /\ KeySet(Schema, t) # {} => KeysAreUnique(Schema, t, db[t])

\* A role as it is read from its file: a "*" comes without a map, and
\* max_per_page is a number.
WellFormed(definition) ==
    \A t \in DOMAIN definition :
        /\ \A m, n \in definition[t].readable.max : m \in Nat /\ m = n
        /\ definition[t].creatable.all => DOMAIN definition[t].creatable.map = {}
        /\ definition[t].updatable.all => DOMAIN definition[t].updatable.map = {}

\* A column of the name would replace the limit of a list tool.
ASSUME GatewayAssumption ==
    /\ MaxPending \in Nat /\ FirstSerial \in Nat /\ MaxSerial \in Nat
    /\ NoTable \notin DOMAIN Schema
    /\ WellStored(FirstRows)
    /\ \A t \in DOMAIN Schema : "limit" \notin DOMAIN Schema[t].columns
    /\ \A v \in Versions : WellFormed(Definition[v]) /\ ~GeneratePanics(Definition[v], Schema)
    /\ \A args \in Arguments["list"] :
          "limit" \in DOMAIN args /\ Kind(args["limit"]) = "int" => args["limit"][2] \in Int

Idle == [phase |-> "idle"]

VARIABLES
    database,        \* table -> rows
    sequence,         \* the sequence of the database, one for all tables
    saved,          \* the role as the dashboard and its file have it
    served,         \* the role as the MCP server was started with
    calls,          \* per slot: the call under way
    pending,        \* approval requests that wait
    answer          \* the rows that a call which just read is answered with

vars == <<database, sequence, saved, served, calls, pending, answer>>

\* generate_tools_for_all_roles, once, when the server starts.
RoleTools == [v \in Versions |-> GenerateAll(Definition[v], Schema)]

Request(call, row) ==
    [op |-> call.op, table |-> call.table, args |-> call.args, tenant |-> call.tenant,
     row |-> row, keys |-> KeySet(Schema, call.table)]

CallOf(tool, args, tenant) ==
    [op |-> tool.op, table |-> ParseToolOperation(tool), args |-> args, tenant |-> tenant]

AllArguments == UNION {Arguments[op] : op \in DOMAIN Arguments}

\* The calls that get past the role's permissions, whatever the database holds.
Permitted ==
    UNION {{o \in [version : {v}, tool : RoleTools[v], args : AllArguments, tenant : Tenants] :
                /\ o.args \in Arguments[o.tool.op]
                /\ ValidateRole(Definition[v], Request(CallOf(o.tool, o.args, o.tenant), {}))} :
           v \in Versions}

\* Mutant: the row is read with the columns that the agent may read.
FetchedReadable(call) ==
    IF call.op = "update" /\ NeedsCurrentRow(Definition[served], call.table)
    THEN {{Shown(row, ReadColumns(Definition[served], Schema, call.table))} :
             row \in CurrentRows(Rules, Schema, database, call)}
    ELSE {{}}

\* Option of the row that validation is given; {{}} when none is fetched.
Fetched(call) ==
    IF call.op = "update" /\ NeedsCurrentRow(Definition[served], call.table)
    THEN {{row} : row \in CurrentRows(Rules, Schema, database, call)}
    ELSE {{}}

NoAnswer == {}

-----------------------------------------------------------------------------
Init ==
    /\ database = FirstRows
    /\ sequence = FirstSerial
    /\ saved \in Versions
    /\ served = saved
    /\ calls = [s \in Slots |-> Idle]
    /\ pending = {}
    /\ answer = NoAnswer

\* execute, up to the await that follows validation.  A refused call leaves
\* nothing behind but its log entry (AuditLog).
Call(s) ==
    \E offer \in Permitted :
        LET call == CallOf(offer.tool, offer.args, offer.tenant)
        IN  /\ calls[s] = Idle /\ offer.version = served
            /\ \E row \in Fetched(call) :
                  LET request == Request(call, row)
                      fields == RequiresApproval(Definition[served], request)
                  IN /\ Validate(Definition[served], Rules, request)
                     /\ fields = {} => ValidateArguments(offer.tool, call.args)
                     /\ calls' = [calls EXCEPT ![s] =
                            [phase |-> IF fields = {} THEN "run" ELSE "request",
                             op |-> call.op, table |-> call.table, args |-> call.args,
                             tenant |-> call.tenant, row |-> row, role |-> served,
                             approved |-> FALSE, found |-> NoKeys]]
            /\ answer' = NoAnswer
            /\ UNCHANGED <<database, sequence, saved, served, pending>>

\* The snapshot, which only an update or delete of a positive integer key has,
\* and create_request.
AskForApproval(s) ==
    LET call == calls[s]
        pk == GetPrimaryKeyColumns(Schema, call.table)
        rows == IF /\ call.op \in {"update", "delete"} /\ pk # <<>>
                   /\ pk[1] \in DOMAIN call.args /\ KeyValue(call.args[pk[1]])[2] > 0
                THEN Snapshots(Rules, Schema, database, call) ELSE {}
    IN  /\ call.phase = "request"
        /\ Cardinality(pending) < MaxPending
        /\ \E snapshot \in IF rows = {} THEN {{}} ELSE {{row} : row \in rows} :
              pending' = pending \cup {[op |-> call.op, table |-> call.table, args |-> call.args,
                                        tenant |-> call.tenant, snapshot |-> snapshot]}
        /\ calls' = [calls EXCEPT ![s] = Idle]
        /\ answer' = NoAnswer
        /\ UNCHANGED <<database, sequence, saved, served>>

\* The dashboard approves: the snapshot is compared, and the call goes on
\* without validation, under the role that the dashboard has now.
Approve(s, request) ==
    /\ calls[s] = Idle
    /\ \/ request.snapshot = {}
       \/ \E row \in request.snapshot : row \in Snapshots(Rules, Schema, database, request)
    /\ pending' = pending \ {request}
    /\ calls' = [calls EXCEPT ![s] =
            [phase |-> "run", op |-> request.op, table |-> request.table, args |-> request.args,
             tenant |-> request.tenant, row |-> {}, role |-> saved, approved |-> TRUE,
             found |-> NoKeys]]
    /\ answer' = NoAnswer
    /\ UNCHANGED <<database, sequence, saved, served>>

\* Rejected, or approved and found to be stale.
Discard(request) ==
    /\ pending' = pending \ {request}
    /\ answer' = NoAnswer
    /\ UNCHANGED <<database, sequence, saved, served, calls>>

\* get and list
Read(s) ==
    /\ calls[s].phase = "run"
    /\ \/ /\ calls[s].op = "get"
          /\ answer' = GetAnswers(Definition[calls[s].role], Rules, Schema, database, calls[s])
       \/ /\ calls[s].op = "list"
          /\ answer' \in ListAnswers(Definition[calls[s].role], Rules, Schema, database, calls[s])
    /\ calls' = [calls EXCEPT ![s] = Idle]
    /\ UNCHANGED <<database, sequence, saved, served, pending>>

\* The columns of a create whose referenced row is still to be looked up.
Unchecked(call) ==
    IF call.op = "create" /\ CreateAllowed(Definition[call.role], Rules, call)
    THEN CheckedFks(Definition[call.role], Rules, Schema, call) \ DOMAIN call.found
    ELSE {}

\* The row that a column of a create refers to, as it is at the moment, whoever
\* it belongs to.  The code keeps only that there is one: the row is history.
Referenced(call, c) ==
    LET refTable == The(GetFkReferencedTable(Schema, call.table, c))
        key == GetPrimaryKeyColumns(Schema, refTable)[1]
    IN {parent \in database[refTable] : parent[key] = Completed(Definition[call.role], Rules, call)[c]}

\* One SELECT of a create, in an order that a hash map has; it may end the call.
CheckReference(s) ==
    /\ calls[s].phase = "run"
    /\ \E c \in Unchecked(calls[s]) :
          calls' = [calls EXCEPT ![s] =
              IF FkHolds(Definition[calls[s].role], Rules, Schema, database, calls[s], c)
              THEN [calls[s] EXCEPT !.found =
                        [d \in DOMAIN calls[s].found \cup {c} |->
                            IF d = c THEN Referenced(calls[s], c) ELSE calls[s].found[d]]]
              ELSE Idle]
    /\ answer' = NoAnswer
    /\ UNCHANGED <<database, sequence, saved, served, pending>>

\* The INSERT, UPDATE or DELETE
Mutate(s) ==
    /\ calls[s].phase = "run"
    /\ Unchecked(calls[s]) = {}
    /\ \/ /\ calls[s].op = "create"
          /\ sequence <= MaxSerial
          /\ database' = IF CreateAllowed(Definition[calls[s].role], Rules, calls[s])
                         THEN ExecuteInsert(Definition[calls[s].role], Rules, Schema, database,
                                            calls[s], sequence)
                         ELSE database
          /\ sequence' = IF database' = database THEN sequence ELSE sequence + 1
       \/ /\ calls[s].op = "update"
          /\ database' = ExecuteUpdate(Definition[calls[s].role], Rules, Schema, database, calls[s])
          /\ UNCHANGED sequence
       \/ /\ calls[s].op = "delete"
          /\ database' = ExecuteDelete(Rules, Schema, database, calls[s])
          /\ UNCHANGED sequence
    /\ calls' = [calls EXCEPT ![s] = Idle]
    /\ answer' = NoAnswer
    /\ UNCHANGED <<saved, served, pending>>

\* The dashboard saves another definition of the role.
EditRole ==
    /\ saved' \in Versions
    /\ answer' = NoAnswer
    /\ UNCHANGED <<database, sequence, served, calls, pending>>

\* The process starts again from the role's file; requests are on disk.
Restart ==
    /\ served' = saved
    /\ calls' = [s \in Slots |-> Idle]
    /\ answer' = NoAnswer
    /\ UNCHANGED <<database, sequence, saved, pending>>

Next ==
    \/ \E s \in Slots : Call(s) \/ AskForApproval(s) \/ Read(s) \/ CheckReference(s) \/ Mutate(s)
    \/ \E s \in Slots, request \in pending : Approve(s, request)
    \/ \E request \in pending : Discard(request)
    \/ EditRole
    \/ Restart

Spec == Init /\ [][Next]_vars

-----------------------------------------------------------------------------
(* Properties                                                              *)

\* Every variable holds what the code can put there; a call under way is one of
\* an offered tool, under a definition that the role has had, and its row is
\* one of the table's (with all of its columns); keys stay unique.
TypeOK ==
    /\ WellStored(database)
    /\ sequence \in Nat
    /\ saved \in Versions /\ served \in Versions
    /\ DOMAIN calls = Slots
    /\ \A s \in Slots :
          \/ calls[s] = Idle
          \/ /\ calls[s].phase \in {"request", "run"} /\ calls[s].role \in Versions
             /\ calls[s].table \in DOMAIN Schema /\ calls[s].args \in Arguments[calls[s].op]
             /\ calls[s].tenant \in Tenants
             /\ \A row \in calls[s].row : DOMAIN row = DOMAIN Schema[calls[s].table].columns
    /\ \A r \in pending : r.table \in DOMAIN Schema /\ r.args \in Arguments[r.op] /\ r.tenant \in Tenants

\* The call that ends in this step, if it changes the database.
Changes(s) == database' # database /\ calls'[s] # calls[s]

Gone(t) == database[t] \ database'[t]
New(t) == database'[t] \ database[t]

\* Tables whose rows hold their tenant in a column of their own.  What the code does
\* about the tenant of other tables is the subject of EveryOperationIsScoped.
HoldTheirTenant == {t \in DOMAIN Schema : TenantColumn(Rules, t) # {}}

\* In the tables that hold their tenant a call only takes away rows of its own
\* tenant, and the rows it leaves are its own tenant's too, unless it is an update
\* that was asked to set the tenant column by a role that grants it.  (The tenant
\* condition of UPDATE and DELETE, the tenant value of INSERT, and update's
\* skipping of a tenant column among the arguments.)
RowsStayWithTheirTenant ==
    [][\A s \in Slots : Changes(s) => \A t \in HoldTheirTenant :
          /\ \A row \in Gone(t) : OfTenant(Rules, t, calls[s].tenant, row)
          /\ \A row \in New(t) :
                \/ OfTenant(Rules, t, calls[s].tenant, row)
                \/ /\ calls[s].op = "update"
                   /\ \E c \in TenantColumn(Rules, t) \cap DOMAIN calls[s].args :
                          MapContains(Definition[calls[s].role][t].updatable, c)]_vars

\* An update replaces one row by one that keeps its key and differs from it in
\* columns only that the role grants when the statement is made: for an approved
\* update that is the role as it is at the approval, not at the request.  A create
\* or a delete is granted too if nobody had to approve it; an approved one is not
\* compared with the role again.
ChangesAreGranted ==
    [][\A s \in Slots : Changes(s) =>
          LET t == calls[s].table
              role == Definition[calls[s].role]
          IN /\ calls[s].op = "create" /\ ~calls[s].approved => CanCreate(role, t)
             /\ calls[s].op = "delete" /\ ~calls[s].approved => CanDelete(role, t)
             /\ calls[s].op = "update" => t \in DOMAIN role /\
                 \E old \in Gone(t), new \in New(t) :
                    /\ Gone(t) = {old} /\ New(t) = {new}
                    /\ \A c \in DOMAIN new : new[c] # old[c] =>
                          /\ c \notin KeySet(Schema, t)
                          /\ MapContains(role[t].updatable, c)]_vars

\* What a condition set says of a change from one row to another.
Permits(conditions, old, new) ==
    \A key \in DOMAIN conditions :
        CheckCondition((IF key[1] = "new" THEN new ELSE old)[key[2]], conditions[key], {old})

\* As long as nobody has changed the row since the call read it, a direct update
\* of a column keeps to that column's only_when.  (Between the reading and the
\* UPDATE another call may change the row, and nothing checks again.)
ConditionsHeldWhenRead ==
    [][\A s \in Slots : Changes(s) /\ calls[s].op = "update" /\ ~calls[s].approved =>
          LET t == calls[s].table
              map == Definition[calls[s].role][t].updatable.map
          IN \A old \in Gone(t) \cap calls[s].row, new \in New(t) :
                \A c \in DOMAIN map \cap DOMAIN calls[s].args :
                   \A sets \in map[c].only_when :
                      \E i \in DOMAIN sets : Permits(sets[i], old, new)]_vars

\* A row that a create leaves refers, through the foreign keys that the role
\* constrains, to rows that exist.  If nobody has changed such a row since its check
\* query, it belongs to the tenant of the call (where its table holds the tenant) and
\* has the values that the agent gave to verify it.  (Between the query and the
\* INSERT another call may change the row, and nothing checks again.)
CreatedReferencesStay ==
    [][\A s \in Slots : Changes(s) /\ calls[s].op = "create" =>
          LET call == calls[s]
              t == call.table
              role == Definition[call.role]
          IN \A row \in New(t), c \in CheckedFks(role, Rules, Schema, call) :
                LET fk == Schema[t].foreign_keys[c]
                IN \E parent \in database'[fk.table] :
                      /\ parent[fk.column] = row[c]
                      /\ parent \in call.found[c] =>
                            /\ fk.table \in HoldTheirTenant =>
                                   OfTenant(Rules, fk.table, call.tenant, parent)
                            /\ \A v \in role[t].creatable.map[c].verify_with :
                                  LET k == ExecutorVerifyKey(fk.table, v)
                                  IN k \in DOMAIN call.args => parent[v] = call.args[k]]_vars

\* The call that is answered in this step, if it is answered with rows.
Answered(s) == answer' # NoAnswer /\ calls'[s] # calls[s]

\* Reads answer with columns that the role lists of rows that are there, a list with
\* no more of them than max_per_page; in the tables that hold their tenant these are
\* rows of the tenant of the call.
ReadsStayInScope ==
    [][\A s \in Slots : Answered(s) =>
          LET t == calls[s].table
              readable == Definition[calls[s].role][t].readable
          IN /\ \A max \in readable.max : calls[s].op = "list" => Cardinality(answer') <= max
             /\ \A shown \in answer' :
                   /\ \A c \in DOMAIN shown : ReadableContains(readable, c)
                   /\ \E row \in database[t] :
                         /\ t \in HoldTheirTenant => OfTenant(Rules, t, calls[s].tenant, row)
                         /\ \A c \in DOMAIN shown : shown[c] = row[c]]_vars

\* The tables whose rows have the tenant of the row that they refer to.
InheritTheirTenant ==
    {t \in DOMAIN Rules \cap DOMAIN Schema :
        ~Rules[t].global /\ \E tenant \in Rules[t].tenant : tenant.kind = "inherited"}

\* The rows of a tenant, per table, as rules.yaml says it: by a column, by the row
\* that `via' leads to in the table that is inherited from, or everybody's.  A chain
\* of tables is at most as long as there are tables.
RowsOf(db, tenant) ==
    LET within[n \in Nat] ==
            [t \in DOMAIN Schema |->
                {row \in db[t] :
                    /\ OfTenant(Rules, t, tenant, row)
                    /\ t \in InheritTheirTenant =>
                          \E i \in Rules[t].tenant :
                             /\ n > 0
                             /\ \E parent \in within[n - 1][i.references] :
                                   parent[Schema[t].foreign_keys[i.via].column] = row[i.via]}]
    IN within[Cardinality(DOMAIN Schema)]

\* README.md:67: "Declare a tenant column (direct or inherited via FK) and every
\* operation is scoped to the caller's tenant."  What a call changes or is
\* answered with are rows of its tenant.
EveryOperationIsScoped ==
    [][\A s \in Slots :
          LET own == RowsOf(database, calls[s].tenant)
          IN /\ Changes(s) => \A t \in DOMAIN Schema : Gone(t) \subseteq own[t]
             /\ Answered(s) => \A shown \in answer' :
                    \E row \in own[calls[s].table] : \A c \in DOMAIN shown : shown[c] = row[c]]_vars

-----------------------------------------------------------------------------
(* The tool that is offered and the policy that judges its calls           *)

\* The role without its conditions on rows.
WithoutConditions(updatable) ==
    [all |-> updatable.all,
     map |-> [c \in DOMAIN updatable.map |->
                [only_when |-> {}, approval |-> updatable.map[c].approval,
                 fk |-> updatable.map[c].fk, verify_with |-> updatable.map[c].verify_with]]]
Unconditional(definition) ==
    [t \in DOMAIN definition |->
        [readable |-> definition[t].readable, creatable |-> definition[t].creatable,
         updatable |-> WithoutConditions(definition[t].updatable),
         deletable |-> definition[t].deletable]]

RequestOf(tool, args, tenant) ==
    Request(CallOf(tool, args, tenant), {})

\* The executor takes the tool for the table that it was generated for.  It does
\* not when no plural leads back to the table's name: getStatus asks `statuses'.
NamesItsTable(tool, definition) ==
    LET table == ParseToolOperation(tool)
    IN table \in DOMAIN definition /\ tool \in GenerateTableTools(definition, Schema, table)

\* Each offered tool with each of the agents' arguments, judged by each version.
PolicyAgrees(v) ==
    \A tool \in {t \in RoleTools[v] : NamesItsTable(t, Definition[v])} : \A args \in Arguments[tool.op] :
        /\ DOMAIN args \subseteq DOMAIN tool.props
        /\ ValidateArguments(tool, args)
        =>  LET request == RequestOf(tool, args, "")
            IN /\ ValidateRole(Definition[v], request)
               /\ tool.op = "create" => ValidateCreate(Definition[v], Rules, request)
               /\ tool.op = "update" => ValidateUpdate(Unconditional(Definition[v]), Rules, request)
Agreement == {v \in Versions : PolicyAgrees(v)}

AnnouncesApproval(v) ==
    \A tool \in {t \in RoleTools[v] : NamesItsTable(t, Definition[v])} : \A args \in Arguments[tool.op] :
        \A fields \in RequiresApproval(Definition[v], RequestOf(tool, args, "")) :
            tool.requires_approval /\ fields \subseteq tool.approval_fields
Announcement == {v \in Versions : AnnouncesApproval(v)}

\* The generator and the validator agree: arguments that keep to the input
\* schema of an offered tool are not refused by the role, only by conditions on
\* rows and by the rules.
OfferedArgumentsPass == served \in Agreement

\* A call that waits for approval is one of a tool that was announced to need
\* it, and the columns it waits for are announced as well.
AnnotationsTell == served \in Announcement

-----------------------------------------------------------------------------
(* What the executor takes for granted of a schema and of a role           *)

\* The executor looks a referenced row up by the first key column of its table (here
\* the key is that column alone), and drops a value that has the name of a
\* verification value: for these schemas and roles it looks where the foreign key
\* leads, and for the value that it inserts.
ForeignKeysLeadToKeys ==
    /\ \A t \in DOMAIN Schema : \A c \in DOMAIN Schema[t].foreign_keys :
          LET fk == Schema[t].foreign_keys[c]
          IN fk.table \in DOMAIN Schema /\ GetPrimaryKeyColumns(Schema, fk.table) = <<fk.column>>
    /\ \A v \in Versions : \A t \in DOMAIN Definition[v] :
          LET map == Definition[v][t].creatable.map
          IN \A c \in DOMAIN map : \A ref \in GetFkReferencedTable(Schema, t, c) :
                \A w \in map[c].verify_with : ExecutorVerifyKey(ref, w) \notin DOMAIN Schema[t].foreign_keys

\* A column whose value in an update is validated ...
IsJudged(v, t, c) ==
    /\ c \in DOMAIN Schema[t].columns \ KeySet(Schema, t)
    /\ c \notin FkVerificationColumns(Definition[v][t].updatable)
    /\ ~IsTenantColumn(Rules, t, c)

\* ... and, if it is set at all, set as it is given.
IsSetAsGiven(c) ==
    \A args \in Arguments["update"] :
        c \in DOMAIN args => Kind(args[c]) \in {"str", "int", "bool", "null"}

\* Conditions say something about the row that an update leaves only where they are
\* about such columns: a fraction or an object passes validation and is not set.
ConditionsBind ==
    \A v \in Versions : \A t \in DOMAIN Definition[v] :
        LET map == Definition[v][t].updatable.map
        IN \A c \in DOMAIN map : \A sets \in map[c].only_when :
              /\ IsJudged(v, t, c)
              /\ \A i \in DOMAIN sets : \A key \in DOMAIN sets[i] :
                    IF key[1] = "new" THEN IsJudged(v, t, key[2]) /\ IsSetAsGiven(key[2])
                    ELSE key[2] \in DOMAIN Schema[t].columns
=============================================================================
