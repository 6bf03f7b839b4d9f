# cori-store in TLA+

cori-store stands between AI agents and a PostgreSQL database: an MCP server
offers an agent the tools that its role allows, validates and executes the
calls, holds back those that need a human's approval, and writes an audit log;
a dashboard, in the same process, lets people decide the approvals and edit the
roles. These modules model the approvals, from the tool call of the agent to the row
that it changes, the HTTP transport that brings those calls, the audit log that
records them, the tools, policy and statements that keep a call to its role and
tenant, and the files that all of this is configured with, from `cori init` over
the checks to the dashboard's role editor; and they prove what matters most about
them. Paths below are relative to `src/crates/`.

## The system

| Component | State | Operations | Interacts with |
|---|---|---|---|
| Approval storage, `cori-mcp/src/approval_storage.rs` | three caches (pending, approved, denied), each behind an RwLock; `pending.log`, `approved.log`, `denied.log` | store, get, list, approve, reject, cancel, attach result, link to audit, clean up, load | called through the manager by several threads |
| Approval manager, `cori-mcp/src/approval.rs` | an in-memory map, or the storage above | the same | shared (`Arc`) by server and dashboard, `cori-cli/src/commands/run.rs:360` |
| Tool executor, `cori-mcp/src/executor.rs` | a role, rules, a schema, a pool | execute a call, execute what was approved | policy, manager, audit, database |
| MCP server, `cori-mcp/src/server.rs` | roles and tools cloned at start-up | tools/list, tools/call, approvals/*, getApprovalResult | one task that handles request after request |
| HTTP transport, `cori-mcp/src/http_transport.rs` | a channel of 100 requests, a response channel per request | verify the token, hand over, wait | tokens, server |
| Policy, `cori-policy` | none: pure functions of role, rules, schema and call | validate, requires_approval | executor, tool generator |
| Tool generator, `cori-mcp/src/tool_generator.rs` | none | the tools of a role and their schemas | server |
| Audit log, `cori-audit` | file, console, cache of 10000 events | store, query, tree of an event | executor, dashboard |
| Tokens, `cori-biscuit` | keys | mint, attenuate, verify | transport, dashboard, command line |
| Dashboard, `cori-dashboard` | configuration behind an RwLock, sessions | approve and execute, reject, edit roles, mint tokens | manager, executor, role files, audit |
| Configuration, `cori-core` | files | parse, save, delete roles | everyone |
| Command line, `cori-cli` | none | init, check, run, token, keys, tools | all |

What makes them correct, and what is hard:

* storage: one decision per request however the calls interleave; caches that
  agree; files from which a restart recovers. Locks are taken one after the
  other and never held together, appends happen outside any lock, a write of a
  line is two system calls, a rewrite truncates first, and I/O fails.
* workflow: an approved mutation is applied once, to the row that the approver
  saw, and the agent is told one story. Handlers keep copies across awaits,
  compare and change in two statements, and are dropped when a client leaves.
* server and transport: each request gets the response made for it, under the
  tenant and role of its own token, in order, with a bounded queue.
* policy, tool generator and executor: the same answer to "is this allowed" and
  "does this need approval" at each of the places that ask; rows stay with their
  tenant, and changes are what the role grants at the time of the statement. Two
  roles are in force at once, the server's copy and the dashboard's; what was read
  for a decision is not locked; an approved call skips validation.
* audit: every event is stored, findable and in the tree of its parent.
* tokens: attenuation only narrows; what is read back is what was put in.
* configuration: what the checks pass can be served, what init writes the checks
  pass, what an editor saves is what was clicked. Hook and program read the files
  at two times, and migrations, operators and browsers write in between.

`PROJECT.json` lists every component with its status, and each hazard at its
line with the properties that watch it.

## Modules

**`ApprovalLifecycle`** is the abstract promise: one status per request,
Unknown, then Pending, then at most one of Approved, Rejected, Expired,
Cancelled. `ApprovalFileStorage` implements it, `ApprovalWorkflow` builds on it.

**`ApprovalFileStorage`** is the storage, step by step. A step is one critical
section of a lock or one write to a file, since that is where another thread
can come in. `pending`, `approved`, `denied` are the caches; `log` the files as
sequences of objects and newlines, because `writeln!` to a `File` is a write of
the object and a write of the newline; `pc`, `target`, `clone`, `todo` the
locals of each thread. `Approve`, `Reject`, `Cancel`, `GetOverdue`,
`ListPending` are the critical sections that decide; `InsertApproved`/
`InsertDenied`, `AppendRecord`, `AppendNewline`, `Clear`, `RewritePending` the
steps of `move_to_approved` and `move_to_denied`; `StorePending`, `Link*`,
`UpdateWithResult` the other calls; `IoError`, `Restart`, `Cleanup` what
`FaultySpec` adds. History variables (`outcomes`, `stored`, `settled`, `torn`)
only record.

**`ApprovalManager`** is the in-memory alternative, one step per call, since one
lock guards one map.

**`ApprovalWorkflow`** is everything around the storage: the snapshot taken by
the tool call (`TakeSnapshot`, `CreateRequest`), the dashboard's
`approval_approve` with a step per await (`OpenApproval`, `Approve`, `FindRole`,
`Connect`, `Compare`, `Send`, `Finish`), the approvals decided over MCP, the
agent that polls (`GetApprovalResult`), the row with its other writers, the role
with its editor, and what goes wrong (`DecideAndFail`, `LoseConnection`, `Drop`,
`Forget`). One call of the manager is one step here: that is what
`ImplementsLifecycle` justifies.

**`McpHttp`** is `POST /mcp` and the task behind it: `Post` verifies the token
and asks for a place in the channel, `Enqueue` gets it, `Receive` and
`Disconnect` end a handler; `Take` builds the temporary server of a request,
`HandleCall` runs the tool, `Respond` and `DropSender` end the request. `posted`
numbers the requests in the order in which they ask; `sending`, `queue` and
`task` are the three places where a request can be; `channel` is the response
channel that each request carries.

**`AuditLog`** is the file and the cache of the log with those who write it during
an approval. Storing an event is `Build` (id, time and parent are fixed),
`WriteObject`, `WriteNewline` and `Push`, since nothing holds a lock across them;
`Continue` is what the caller does with the id that `log` returns. The server
task logs what is requested and links the request to it (`CreateRequest`,
`UpdateAuditIds`), a dashboard handler logs its decision under the link that it
read and the outcome under the decision (`OpenApproval`, `Decide`, `Execute`).
`GetEventTree` is the walk of `get_event_tree`. An event is a number, its place
in `built`; `logged` is history.

**`RoleDefinition`** says what roles, rules and schemas are and answers the
questions the configuration's types answer (`CanRead`, `GetApprovalColumns`,
`NewValueRestriction`, ...). **`Policy`** is `cori-policy`: `Validate`,
`RequiresApproval`, and the conditions of `only_when`. **`ToolGenerator`** makes the
tools of a role (`GenerateAll`), finds the table that a tool's name leads back to
(`ParseToolOperation`) and checks arguments against an input schema.
**`ToolExecutor`** is the statements: which rows `get`, `list`, `create`, `update`
and `delete` read or leave, as functions of role, rules, schema, database and
call. The three are pure operators, and the modules below use them.

**`Gateway`** composes them. `Call(s)` is `ToolExecutor::execute` of slot `s` up to
the await after validation, with the current row that `only_when` needs;
`AskForApproval` takes the snapshot and stores the request; `Read` and `Mutate` run
the statement, and before the INSERT of a create each foreign key is looked up by a
`CheckReference(s)`, a statement of its own, so that other calls come in between;
`found`, the row that was there, is history; `Approve` is `execute_approved` by the
dashboard, which validates nothing again and uses the dashboard's role; `EditRole`
saves another version of the role, `Restart` starts the server from it. `saved` and
`served` are the two copies of the role. `MCGateway` is its instance: two tenants,
customers and their tickets, comments that inherit their tenant from a ticket, tags
without a key, and a table whose plural leads nowhere; of the two versions of the
role one acts freely, the other waits for approvals, may move a customer to another
tenant, and writes and shows comments. `HoldTheirTenant` are the tables with a
tenant column of their own, `InheritTheirTenant` those with a foreign key to follow;
`RowsOf` follows it as `rules.yaml` means it, which no statement of the executor
does.

**`ConfigCheck`** is `cori check` and the hook before `cori run`, one operator per
check, and what `load_with_context` reads. **`ProjectInit`** is `cori init`: the
tenancy that it guesses, rules, types, sample roles and groups, as a reader of the
YAML finds them. **`RoleEditor`** is the dashboard's role page: the role as JSON
(`RoleTablesToJson`), each control of the page's script, the dialog of a column
with its detours over text (`SaveColumnConstraints`), and the form's way back
(`FormToTables`). **`Tokens`** mints, attenuates and verifies.

**`Project`** composes those four with the tool generator: `RunInit`, `Migrate`,
`SyncSchema`, `WriteRole`, `RemoveGroup` change the files or the database under the
program; `PreHook`, `LoadHttp`, `LoadStdio`, `Stop` are `cori run`; `RoleEdit`,
`RoleNew`, `ClickTable` to `ClickGroup`, `Cancel`, `SaveRole`, `DeleteRole` are
browsers at the dashboard. `proc.same` and `fresh` are history. `MCProject` is its
instance: a helpdesk, a migration of it, and six databases that init's guesses are
hard on.

The theorems are in **`ApprovalFileStorage_proofs`**, **`ApprovalWorkflow_proofs`**,
**`McpHttp_proofs`**, **`AuditLog_proofs`**, **`Gateway_proofs`**,
**`Project_proofs`**, **`RoleEditor_proofs`** and **`Tokens_proofs`**.

## Runs

| Run | Question | Bounds |
|---|---|---|
| `storage_core` | Under every interleaving: one decision (`DecidedAtMostOnce`), consistent caches (`CachesAgree`), nothing lost between the locks (`NothingVanishes`), files up to date (`PendingOnDisk`, `DecisionsOnDisk`), the lifecycle implemented, every call returns (`CallsReturn`) | 2 requests, 2 threads of which one stores, caches of 1, 4 decisions |
| `storage_faults` | With I/O errors and restarts: no decision made up, nothing settled comes back, nothing undecided lost unless a write was cut in two | 2 requests, 2 threads, 1 decision, 1 error, 2 restarts |
| `storage_lines` | violation: objects share a line | |
| `storage_trail` | violation: approvals vanish from `approved.log` | |
| `workflow` | Applied at most once, only when approved, on the row compared; answers that only move forward; every approval answered | 1 request, 2 handlers, 2 row values, 1 foreign write, 1 fault |
| `workflow_mcp` | violation: an approval over MCP is never executed | |
| `manager_expiry` | violation: a decided request becomes expired | 2 requests |
| `http` | Nobody gets an answer made for another request or token; calls run once, in the order of the posts; only what the server does not answer ends in an error; everybody who waits is answered | 3 clients, 2 tokens of which one has a role that is served, 1 place, 3 posts |
| `audit` | What was logged is found in file and cache (`NothingLoggedVanishes`); the tree of an event is its family, each once and in order (`TreesAreFamilies`); the log shows the decisions that were taken, under the right parents (`TrailTrue`); a decision of the dashboard is logged (`DecisionsRecorded`) | 1 request, 1 server task, 1 handler, 1 direct event, cache of 2, 1 error, 1 restart |
| `gateway` | Offered tools and policy agree (`OfferedArgumentsPass`, `AnnotationsTell`); rows of the tables that hold their tenant stay with it (`RowsStayWithTheirTenant`); changes keep to the role at the statement (`ChangesAreGranted`) and to `only_when` while the row is as it was read (`ConditionsHeldWhenRead`); created rows refer to rows that exist, which are the tenant's and verified while they are as they were looked up (`CreatedReferencesStay`); reads stay in scope (`ReadsStayInScope`) | 2 calls at a time, 2 tenants, 2 versions of the role, 5 tables, 1 pending request (`MaxPending`), 1 created row with a serial key (`MaxSerial`) |
| `gateway_inherited` | violation: a comment is answered to the tenant that its ticket does not belong to | the same |
| `project` | What the hook passed can be served (`CheckedMeansUsable`); init's projects pass exactly in the listed cases (`FreshProjectsPass`); a save keeps what was not clicked (`SavesKeepTheRest`) | 7 databases and 1 migrated schema, 2 inits of which one may stop after keys or roles (`Cuts`), 1 other write (`MaxWrites`, saves apart), 1 click (`MaxClicks`), 1 browser that opens or creates one role (`Edited`, `NewNames`) |

Why the bounds are enough. Two requests and a cache of one make an eviction
happen; two threads make each pair of steps meet, and the third party of a race
(a reader, a restart) is one of the two or an action of its own. Two restarts
let a restart happen on files that a restart has already read. In the workflow
requests share nothing but the row, and a write of another client stands for
the mutation of another request; two handlers are two people who open the same
request. Over HTTP one request is in hand, one in the channel and one waits for a
place, so that each place is full at once. In the audit log the workflow of one
request has three events, one more than the cache holds, and the direct event
lets the task write while the handler does; a second decider is `DecideOverMcp`.
In the gateway two calls in two tenants make each pair of steps meet (two slots are
alike, hence the symmetry, and no liveness is checked there); the roles differ in
what they grant, hold back and restrict, so that a request outlives an edit; one
row is created and then changed or deleted by the other call. The view leaves out
`answer`, on which no step depends: TLC checks an action property at every step it
takes, so that each answer is judged although it is not told apart afterwards. That
a check goes stale does happen: without the premise `parent \in call.found[c]` TLC
finds `CreatedReferencesStay` violated, by a customer that an approved update moves to
tenant b between the check query of tenant a's create and its INSERT; and without the
exception for the tenant column the same update violates `RowsStayWithTheirTenant`. The project needs
the second init to write over the files of the first, one write of an operator to
break what was checked, and one click: a click touches one place, and the property
is about all the others. The safety properties that are proved hold without these
bounds.

Fairness. In the storage a call that was begun goes on (`WF` of `Continue(t)`):
it is synchronous code of a thread that the operating system schedules; nobody
must begin a call. In the workflow a handler goes on (`WF` of `Handle(h)`): the
runtime polls a future whose await is ready, and the database and the log answer
or fail. Over HTTP the task goes on and a handler takes the response that is
there (`WF` of `Work` and of `Receive(c)`). In the audit log whoever has begun
goes on (`WF` of `Work(w)`): `store` has no await. Nobody must approve, ask, write or edit, and a dropped handler is not
resumed. `Gateway` and `Project` promise nothing that must happen and state no
fairness. Deadlock is not checked: when no thread is in a call and the bounds are
used up the system may rest.

Abstractions. All lines of a file have one length, so that an overlay replaces
whole tokens; a rewrite is truncation and one write, as a rewrite of few short
lines in a row; opening a file for a rewrite inside a critical section does not
fail (appends and the moves do); RwLock readers and writers exclude each other
without a queue; time is an order. Tenants filter what a listing returns and are
left out; in the workflow a row of another tenant is `Gone`, and a handler that
is dropped while its statement runs is a `Drop` that awaits the answer. Over HTTP
a tool is its token and its request: what it does is `ApprovalWorkflow`. In the
audit log a decision is one step (`ApprovalFileStorage` has its steps), the
execution is one step with the outcomes that are logged differently, a failed
append leaves at most a part of the object, and a line with more or less than one
object is not read, as `load_from_file` skips what does not parse.

A table of unknown tenancy, a PostgreSQL type that a tool takes for another and a
name without a plural are in the instances; text is not: a name is its root and
its ending, a pattern the values that match it. What PostgreSQL does is modelled as
far as the executor relies on it: types, `NOT NULL`, unique keys, references,
defaults and sequences, a statement that fails changes nothing. A page of `list` is
any set of matching rows up to the limit, since no `ORDER BY` is sent. In the
project the steps of init are the groups of files it writes; `load_rules` reads
`rules.yaml` a second time within the same load, which is one step here; the
dashboard is enabled in `cori.yaml`; tokens are minted under any key pair so far,
and some have expired.

What the code does and the modules show without a property about it:

* what a statement looked up may have changed when the next one is sent, for no
  transaction holds the two together (the current row of `only_when`, the snapshot
  of an approval, the referenced row of a create; the properties say what holds as
  long as nobody changed it);
* a referenced row whose table inherits its tenant is looked up for every tenant;
* a role that grants the tenant column lets its agents move rows to another tenant;
* `soft_delete` and the delete's `verify_with` are not looked at by the executor;
* an update makes no query for a verified foreign key, though the comment of the
  role's field says that the referenced record is validated
  (`role_definition.rs:634`);
* a role without `max_per_page` gets 1000 rows;
* `find_tenant_via_fk` never finds a key, since `extract_tables` looks for
  `mappings` which introspection does not write;
* init drops defaults and foreign keys from the schema that it writes, so that `db
  sync` is needed before a role with creatable columns passes;
* the lifecycle of the sample support role uses statuses that the sample rules do
  not allow;
* the column dialog turns thresholds of `new.` columns, `not_in`, `not_equals` and
  the group of an approval into something else, which is why `SavesKeepTheRest` asks
  less of a column whose dialog was saved;
* an approved create or delete is not compared with the role again, so that what the
  role no longer grants is inserted or deleted all the same (`ChangesAreGranted`
  asks the grant of direct creates and deletes, and of every update);
* the decision of the dashboard may be logged without a parent, if the request was
  read before it was linked to its event, though `event.rs:143` names one for each
  decision (`TrailTrue` is about the parents that there are);
* a notification over HTTP is answered with an error whose id is null
  (`http_transport.rs:256`), which `server.rs:398` rules out for responses;
* `init` tells the user to run the server also where the hook refuses the project
  that it wrote (`FreshProjectsPass` says where that is);
* `role_create` replaces a role of the same name, and `role_delete` removes the file
  of a role that it then reports as unknown.

## Disagreements found

* `approval_storage.rs:8` promises one JSON object per line; appends and rewrites
  interleave (`storage_lines`).
* `approval_storage.rs:538` keeps the file intact for the audit trail; attaching
  a result rewrites it from a trimmed cache (`storage_trail`).
* `README.md:187` says an approval executes; over MCP it does not
  (`workflow_mcp`).
* `approval.rs:31` says expired before decision; the in-memory manager expires
  decided requests (`manager_expiry`).
* `README.md:67` says that with a tenant column, "direct or inherited via FK", every
  operation is scoped to the caller's tenant, and the guide of init that JOINs enforce
  it (`init.rs:1423`, and for all queries `init.rs:1558`); the executor adds no
  condition for inherited tenancy (`executor.rs:225`), so that a comment on a ticket of
  tenant a is read by tenant b (`gateway_inherited`). What `gateway` shows of tenants,
  and what is proved of them, is therefore said of the tables that hold their tenant
  in a column, `HoldTheirTenant`, and of no others.

## Proofs

All for any number of requests, threads, handlers and faults. The assumptions of
the first four are `ConstantsAssumption` of each module: `Absent`, `Newline`, `Cut`, `None` and `Gone`
are no values and no responses, the channel has a place, bounds are natural numbers, the set of requests is finite.

Storage. `TypeInv` types the variables and says which locals a thread has in
which step. `SafeInv` says what a cache, a file and a thread's hands may contain
in terms of the decisions taken (`CachesOK`, `LogsOK`, `MovesOK`): a record in
`approved.log` carries an approval that was taken, a settled request has no
undecided record anywhere. It speaks of files because a restart reads them back,
and of what is in a thread's hands because an append brings it to a file later.
Both are inductive under `FaultySpec` and give `FaultyTyping`,
`NothingInvented`, `NothingResurrected`. `OnceInv`, inductive without restarts
(a restart may bring back a request whose move was cut), says that a request
that is undecided in the pending cache is in nobody's hands and has no decision;
it gives `OneDecision` and `CachesConsistent`, and with the lemma `ThreeKinds`,
every step is quiet, creates, or decides what was undecided, `Implementation`.

What is on disk is harder to say, because a file lags behind the cache while a
thread writes. `NothingVanishes` follows a request from cache to cache and through
the hands of whoever moves it (`TodoOK`, `HandsInv`); a request that expires twice
leaves an earlier copy that may be inserted last, so the property asks for the
request as it was since its last decision (`DecidedSince`, `Displaced`).
`DiskInv` and `DecisionInv` say what the lines of a file are worth while it is
rewritten; they give `PendingIsOnDisk` and `DecisionsAreOnDisk`. That an undecided
request survives a crash (`UndecidedRequestsSurvive`) has the hypothesis `OneStorer`,
that one thread at most stores requests: the MCP server is one task, and two that
append at once may spoil each other's line, which is what `storage_lines` shows.

Workflow. `WorkInv`: a handler past its approval holds an approved request
(`ApprovedInHand`), no two hold the same (`OneEach`), a mutation has been applied
exactly if its handler awaits the answer or has gone (`AppliedOnce`), the row is
the compared one or the change is on record (`Compared`), a result is final
(`ResultFinal`) and what the agent was told still holds (`Told`). `OneEach`
carries the argument: a request is Pending once, and `manager.approve` lets
through one caller. It gives `AtMostOnce`, `ApprovedOnly`, `SuccessIsTrue`,
`NothingStale`, `AnswersOnlyForward`, and, as it includes the types, `Typing`.

Transport. `OwnInv` follows a response from the temporary server through the
hand of the task and the response channel to the client, and says at each of
them whose it is; it gives `NoCrossing`, `OwnTokenOnly` and `NoCallDropped`.
`Line` orders everything that was executed before what is in hand, before the
channel, before what waits for a place; it is needed because a request may leave
the line from its last part. It gives `InOrder`. `Typing` is of its own invariant.

Audit. `TrailInv` says what a worker has in hand fits what it is about to log
(`InHand`: its parent was logged, is of its request and of the right kind) and
that who is about to log a decision took it, alone, with none in the log yet
(`Taken`). `Taken` is needed because the event is built after the decision and
outside its lock: the request was pending, so nobody else can be past that point.
It gives `TrailIsTrue`; the file and the cache play no part in that. They do in
`NothingLoggedIsLost`: `VanishInv` says that an object is in the file once and of
the worker that wrote it (`OwnEvents`), so that what is read again is what was
logged. `TreesAreWhole` needs their order: `FamilyInv` says that the file and the
cache have each event once and a parent before its children (`InOrder`), that what
a worker stores is in neither yet (`NotYetStored`), and that no child is drained
before its parent (`ChildrenKept`). The walk of `GetEventTree` is then followed turn
by turn (`FoundSoFar`): a turn processes an event that was not processed, so there
is nothing left after as many turns as events (`WalkEnds`). The prover has no
induction over data; `EveryTurn` and `Loop` do for its loops, from the least turn
after which something would be wrong.

Gateway. `GatewayAssumption` says that the database starts well stored
(`WellStored`: rows have the columns of their table, keys are unique), that roles
are as serde reads them (`WellFormed`: a `*` has no list, `max_per_page` is one
number), that no role has a table that would end the server in a panic, that a
limit is an integer TLA+ knows, and that no column is called `limit`. `IInv` is
`TypeOK` with where a call's tool comes from. The statements are lemmas
(`CreateChanges`, `UpdateChanges`, `DeleteChanges`) about what they leave of a well
stored database, and `MutateChanges` lifts them to a step. `OneSelected` carries
`OnlyGrantedChanges`: keys are unique and all of the key is in the arguments, so an
update hits one row; that is why `WellStored` is an invariant and not a remark.
`TenantsAreKeptApart` and `ReadsAreScoped` are about every table that holds its tenant,
whatever the rules are. `ConditionsHold`, and what `OnlyGrantedChanges` says of
direct creates and deletes, rest on `DirectCallsWereJudged`: a call that needs no approval is at the database with what
the validator passed. Between check query and INSERT `CreatesReferToOwnRows` cannot
speak of the database, which other calls change; `ReferencesWereChecked` speaks of the
call's record instead: what was `found` for a column is the tenant's and verifies.
The INSERT itself brings the existence of a referenced row, from PostgreSQL
(`ReferencesHold`), and if it is the one that was found, the rest follows.
That theorem assumes that foreign keys lead to primary keys of one column and that no
verification key is the name of a column with a foreign key (`ForeignKeysLeadToKeys`),
`ConditionsHold` that no condition is
about a key, a tenant or a verification column (`ConditionsBind`); TLC evaluates both
on the instance.
`OfferedCallsPass` and `ApprovalIsAnnounced` are about definitions only: for each
operation, what the generator puts into a tool is what the validator asks for.

Project. `IInv`: a process that has checked is at files that passed while nobody
wrote (`CheckedBefore`), and one that serves was loaded from such files if `same`
still holds (`ServedAsChecked`); files on disk have their fields. `ChecksSuffice`
then says that the checks imply what serving needs: `CheckedTablesMakeTools`,
`CheckedApprovalsAreApprovable`, `CheckedRolesCanCreate`.

A new project. `FreshProjectsAreJudged` says for every database what the hook makes
of the project that init writes. `FreshInv` keeps that a fresh project is
`WriteProject` of the database it was made of, whatever became of the database.
The rest is about definitions: the sample roles pass every check but for a ticket
table without priority (`SampleTablesFit`), and of the rules, which a reader finds
under the wrong table if a table of unknown tenancy has some, `RuleOfSilent` and
`RuleOfLoud` say that they pass exactly if no such table has one. The hypotheses are
that databases have tables that are named, with keys made of their columns, and
that the names of the sample files are identifiers (`KnownDatabases`, `KnownNames`).

Role editor. Each conversion is undone by its parser, lemma by lemma from an option
to a table (`GetPresent`, `ApprovalReadBack`, ... `TableReadBack`), for roles as
serde reads them (`RoleTables`: exact records, options of at most one, an `In` or
`Equals` with its one field, `deletable: false` without options). It gives
`OpeningChangesNothing`. For `SavedAsOpened` the page must be followed click by click:
`EditInv` is `IInv` with roles in the files, in memory and in the pages that the form
can hold (`FilesCareful`, `DashCareful`, `DraftsCareful`: no empty lists, which the
form drops), and every click keeps `RestStays`, that what was not touched is read
from the form as it was (`Kept`, `TablesParsed`; for a column's dialog
`DialogKeepsRules`). Its hypothesis, `CarefulDocs`, is that the operator writes no empty
lists either. Tokens. `Extends` is any number of attenuations
(`AttenuateExtends`, `ExtendsTransitive`), and it can only narrow
(`AttenuationNarrows`).

TLC evaluates `CarefulDocs`, `KnownDatabases` and `KnownNames` on the instance of
`project`.

Only model-checked: the liveness properties `CallsReturn`,
`EveryApprovalAnswered`, `NobodyWaitsForever` and `DecisionsRecorded` (liveness and
`ENABLED` are out of the prover's reach). Every safety invariant and action property
that a run finds to hold is a theorem.

## Not modelled

* Dashboard sessions: a request is judged by its own cookie; there is no state.
* Pages and templates other than the role editor, and the audit pages: markup, and
  conversions of shapes that nothing reads back.
* Introspection: queries of the catalogue. `Project` takes what they return.
* Audit log: the filters and the order of `query` and `count`, the console and the
  null storage; sequential code over what `AuditLog` shows to be stored.
* Executor: dry runs, which end before the database; custom actions, which are
  always refused; offsets, cursors, previews and the wording of errors.
* Transport: `GET /mcp`, whose sessions nothing sends to; the stdio loop.
* Command line: `keys`, `tools` and `token inspect` print; ports that are taken,
  `--no-dashboard`, and a database that cannot be reached at the start.
* Parsing and printing of YAML and JSON, other than where a file reads differently
  from what was meant (`RulesRead`); of the JSON schemas, what the programs that
  write these files can miss (`ValidateJsonSchemas`).
* Verification keys that are also names of columns.
