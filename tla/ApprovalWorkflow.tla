--------------------------- MODULE ApprovalWorkflow ---------------------------
(***************************************************************************)
(* Human-in-the-loop approval of mutations, from the tool call of an agent *)
(* to the row it changes: ToolExecutor::execute creates the request with a *)
(* snapshot of the row (cori-mcp/src/executor.rs), the dashboard's request *)
(* handlers decide it and run ToolExecutor::execute_approved               *)
(* (cori-dashboard/src/handlers.rs), the MCP server's own methods decide   *)
(* it and report on it (cori-mcp/src/server.rs), while others write to the *)
(* same row and edit the role.                                             *)
(*                                                                         *)
(* The store is the lifecycle of ApprovalLifecycle, which the file store   *)
(* implements (ApprovalFileStorage): one call of ApprovalManager is one    *)
(* step here.  What the file store adds to it is that a decided request    *)
(* may be missing from the caches (`forgotten') and that a call may fail   *)
(* after it has decided (DecideAndFail).                                   *)
(*                                                                         *)
(* A step ends where the code awaits the database or the audit log, and a  *)
(* handler may be dropped at an await (axum drops the future of a client   *)
(* that disconnects).  One row, one tenant that owns it: the snapshot, the *)
(* comparison and the mutation all carry the same tenant condition, and a  *)
(* row of another tenant is Gone to each of them.                          *)
(***************************************************************************)
EXTENDS Naturals, FiniteSets

CONSTANTS
    Ids,            \* approval requests
    Handlers,       \* dashboard handlers of approval_approve
    Values,         \* what the row may hold
    Gone,           \* no such row for the tenant
    None,           \* nothing yet
    MaxWrites,      \* bound: writes by others
    MaxFaults       \* bound: dropped handlers, failed stores, lost connections

\* What execution_result says.
Results == {"success", "error"}

ASSUME ConstantsAssumption ==
    /\ MaxWrites \in Nat /\ MaxFaults \in Nat
    /\ Gone \notin Values /\ None \notin Values \cup Ids \cup Results /\ Gone # None

\* An update or a delete.  snapshot: the row when the request was made, None if
\* it was not found then (the request is created without a snapshot).
Request == [op : {"update", "delete"}, value : Values, snapshot : Values \cup {None}]

\* The approve call, then the awaits of the handler.
Labels == {"idle", "approve", "log", "connect", "compare", "send", "answer"}

Roles == {"granted", "revoked", "deleted"}

VARIABLES
    status,         \* the approval store, per id
    request,        \* the stored requests
    result,         \* execution_result of each
    forgotten,      \* decided requests that have left the store's caches
    overdue,        \* requests whose expires_at has passed
    row,            \* the row in the database
    role,           \* the role in the dashboard's configuration
    agent,          \* the tool call the MCP task is in: a request not yet stored
    pc, target,     \* per dashboard handler
    copy,           \* per dashboard handler: the role its executor was made with
    writes, faults, \* bounds
    executions,     \* history: how often the mutation of a request was applied
    outdated,       \* history: handlers since whose comparison the row has changed
    answered,       \* history: what getApprovalResult last said of a request it found
    abandoned       \* history: approvals that nobody is left to execute

store == <<status, request, result, forgotten, overdue>>
database == <<row, writes, outdated, executions>>
handlers == <<pc, target, copy>>
vars == <<store, database, role, agent, handlers, faults, answered, abandoned>>

Store == INSTANCE ApprovalLifecycle

Init ==
    /\ status = [i \in Ids |-> "Unknown"]
    /\ request = [i \in Ids |-> None]
    /\ result = [i \in Ids |-> None]
    /\ forgotten = {}
    /\ overdue = {}
    /\ row \in Values
    /\ role = "granted"
    /\ agent = None
    /\ pc = [h \in Handlers |-> "idle"]
    /\ target = [h \in Handlers |-> None]
    /\ copy = [h \in Handlers |-> None]
    /\ writes = 0
    /\ faults = 0
    /\ executions = [i \in Ids |-> 0]
    /\ outdated = {}
    /\ answered = [i \in Ids |-> None]
    /\ abandoned = {}

-----------------------------------------------------------------------------
(* The tool call.  Between fetch_row_snapshot and create_request the task   *)
(* awaits nothing but the query itself.                                     *)

\* fetch_row_snapshot
TakeSnapshot(op, value) ==
    /\ agent = None
    /\ agent' = [op |-> op, value |-> value, snapshot |-> IF row = Gone THEN None ELSE row]
    /\ UNCHANGED <<store, database, role, handlers, faults, answered, abandoned>>

\* create_request_with_snapshot, or create_request for a row that was not found
CreateRequest(i) ==
    /\ agent # None
    /\ Store!Create(i)
    /\ request' = [request EXCEPT ![i] = agent]
    /\ agent' = None
    /\ UNCHANGED <<result, forgotten, overdue, database, role, handlers, faults, answered,
                   abandoned>>

-----------------------------------------------------------------------------
(* Decisions.                                                               *)

Found(i) == status[i] # "Unknown" /\ i \notin forgotten

\* get expires the request it reads, if it is overdue.
ReadStatus(i) ==
    status' = IF status[i] = "Pending" /\ i \in overdue
              THEN [status EXCEPT ![i] = "Expired"] ELSE status

\* list_pending expires what is overdue.
Expire(i) ==
    /\ i \in overdue
    /\ Store!Decide(i, "Expired")
    /\ UNCHANGED <<request, result, forgotten, overdue, database, role, agent, handlers, faults,
                   answered, abandoned>>

MayDecide(i) == status[i] = "Pending" /\ i \notin overdue

\* approvals/approve: the MCP server approves and does nothing more.
ApproveOverMcp(i) ==
    /\ MayDecide(i)
    /\ Store!Decide(i, "Approved")
    /\ abandoned' = abandoned \cup {i}
    /\ UNCHANGED <<request, result, forgotten, overdue, database, role, agent, handlers, faults,
                   answered>>

\* approval_reject and approvals/reject
Reject(i) ==
    /\ MayDecide(i)
    /\ Store!Decide(i, "Rejected")
    /\ UNCHANGED <<request, result, forgotten, overdue, database, role, agent, handlers, faults,
                   answered, abandoned>>

\* The file store has decided and then fails to write: the caller sees NotFound.
DecideAndFail(i) ==
    /\ faults < MaxFaults
    /\ faults' = faults + 1
    /\ MayDecide(i)
    /\ \E outcome \in {"Approved", "Rejected"} : Store!Decide(i, outcome)
    /\ abandoned' = abandoned \cup {i}
    /\ UNCHANGED <<request, result, forgotten, overdue, database, role, agent, handlers, answered>>

TimePasses(i) ==
    /\ status[i] # "Unknown"
    /\ i \notin overdue
    /\ overdue' = overdue \cup {i}
    /\ UNCHANGED <<status, request, result, forgotten, database, role, agent, handlers, faults,
                   answered, abandoned>>

\* Displaced from a trimmed cache.
Forget(i) ==
    /\ status[i] \notin {"Unknown", "Pending"}
    /\ i \notin forgotten
    /\ forgotten' = forgotten \cup {i}
    /\ UNCHANGED <<status, request, result, overdue, database, role, agent, handlers, faults,
                   answered, abandoned>>

-----------------------------------------------------------------------------
(* approval_approve and execute_approved_action, per handler.               *)

GoTo(h, label) ==
    /\ pc' = [pc EXCEPT ![h] = label]
    /\ UNCHANGED <<target, copy>>

\* Mutant: a handler that is done is still bound to its request.
ReturnBound(h) ==
    /\ pc' = [pc EXCEPT ![h] = "idle"]
    /\ copy' = [copy EXCEPT ![h] = None]
    /\ UNCHANGED target

Return(h) ==
    /\ pc' = [pc EXCEPT ![h] = "idle"]
    /\ target' = [target EXCEPT ![h] = None]
    /\ copy' = [copy EXCEPT ![h] = None]

\* manager.get: the handler keeps the copy it has read.
OpenApproval(h, i) ==
    /\ pc[h] = "idle"
    /\ Found(i)
    /\ pc' = [pc EXCEPT ![h] = "approve"]
    /\ target' = [target EXCEPT ![h] = i]
    /\ outdated' = outdated \ {h}
    /\ ReadStatus(i)
    /\ UNCHANGED <<request, result, forgotten, overdue, row, writes, executions, role, agent,
                   copy, faults, answered, abandoned>>

\* Mutant: the handler trusts the status of the copy it has read.
ApproveOnce(h) ==
    /\ pc[h] = "approve"
    /\ status[target[h]] \in {"Pending", "Approved"}
    /\ status' = [status EXCEPT ![target[h]] = "Approved"]
    /\ GoTo(h, "log")
    /\ UNCHANGED <<request, result, forgotten, overdue, database, role, agent, faults, answered,
                   abandoned>>

\* manager.approve: Ok
Approve(h) ==
    /\ pc[h] = "approve"
    /\ MayDecide(target[h])
    /\ Store!Decide(target[h], "Approved")
    /\ GoTo(h, "log")
    /\ UNCHANGED <<request, result, forgotten, overdue, database, role, agent, faults, answered,
                   abandoned>>

\* Mutant: the error of manager.approve is dropped.
ApproveFailsSilently(h) ==
    /\ pc[h] = "approve"
    /\ ~MayDecide(target[h])
    /\ ReadStatus(target[h])
    /\ GoTo(h, "log")
    /\ UNCHANGED <<request, result, forgotten, overdue, database, role, agent, faults, answered,
                   abandoned>>

\* manager.approve: NotFound, AlreadyDecided, or Expired, which it then is
ApproveFails(h) ==
    /\ pc[h] = "approve"
    /\ ~MayDecide(target[h])
    /\ ReadStatus(target[h])
    /\ Return(h)
    /\ UNCHANGED <<request, result, forgotten, overdue, database, role, agent, faults, answered,
                   abandoned>>

\* log_approved is awaited; then state.get_role clones the role, if there is one.
FindRole(h) ==
    /\ pc[h] = "log"
    /\ IF role = "deleted"
       THEN Return(h) /\ abandoned' = abandoned \cup {target[h]}
       ELSE /\ pc' = [pc EXCEPT ![h] = "connect"]
            /\ copy' = [copy EXCEPT ![h] = role]
            /\ UNCHANGED <<target, abandoned>>
    /\ UNCHANGED <<store, database, role, agent, faults, answered>>

\* Mutant: only what was executed is stored.
StoreSuccess(h, outcome) ==
    /\ result' = [result EXCEPT ![target[h]] =
                     IF target[h] \in forgotten \/ outcome = "error" THEN @ ELSE outcome]
    /\ Return(h)
    /\ UNCHANGED <<status, request, forgotten, overdue>>

\* The result goes to the store, which may no longer have the request.
StoreResult(h, outcome) ==
    /\ result' = [result EXCEPT ![target[h]] =
                     IF target[h] \in forgotten THEN @ ELSE outcome]
    /\ Return(h)
    /\ UNCHANGED <<status, request, forgotten, overdue>>

\* execute_update fails when its role may not update the columns (any longer);
\* execute_delete does not look at the role.  What follows is awaited: the row
\* is fetched as before_state, whatever it is, and the statement is sent.
Execute(h) ==
    IF request[target[h]].op = "update" /\ copy[h] = "revoked"
    THEN StoreResult(h, "error")
    ELSE GoTo(h, "send") /\ UNCHANGED store

\* Mutant: a request to delete is executed without the comparison.
ConnectForDelete(h) ==
    /\ pc[h] = "connect"
    /\ IF request[target[h]].snapshot # None /\ request[target[h]].op = "update"
       THEN GoTo(h, "compare") /\ UNCHANGED store
       ELSE Execute(h)
    /\ UNCHANGED <<database, role, agent, faults, answered, abandoned>>

\* with_database_url is awaited; then the row is fetched for the comparison, if
\* the request has a snapshot.
Connect(h) ==
    /\ pc[h] = "connect"
    /\ IF request[target[h]].snapshot # None
       THEN GoTo(h, "compare") /\ UNCHANGED store
       ELSE Execute(h)
    /\ UNCHANGED <<database, role, agent, faults, answered, abandoned>>

\* fetch_row_snapshot is awaited, and compared with original_values.
Compare(h) ==
    /\ pc[h] = "compare"
    /\ IF row = request[target[h]].snapshot
       THEN Execute(h)
       ELSE StoreResult(h, "error")
    /\ UNCHANGED <<database, role, agent, faults, answered, abandoned>>

\* Someone changes the row, which handlers past their comparison do not see.
Change(new) ==
    /\ row' = new
    /\ outdated' = outdated \cup {h \in Handlers : row # new /\ pc[h] = "send"}

\* Mutant: the number of rows that the statement has changed is not looked at.
SendBlindly(h) ==
    /\ pc[h] = "send"
    /\ LET i == target[h]
       IN  /\ IF row # Gone
              THEN /\ Change(IF request[i].op = "delete" THEN Gone ELSE request[i].value)
                   /\ executions' = [executions EXCEPT ![i] = @ + 1]
              ELSE UNCHANGED <<row, outdated, executions>>
           /\ GoTo(h, "answer")
    /\ UNCHANGED <<store, writes, role, agent, faults, answered, abandoned>>

\* UPDATE ... RETURNING or DELETE ... RETURNING, in the database
Send(h) ==
    /\ pc[h] = "send"
    /\ LET i == target[h]
       IN  IF row # Gone
           THEN /\ Change(IF request[i].op = "delete" THEN Gone ELSE request[i].value)
                /\ executions' = [executions EXCEPT ![i] = @ + 1]
                /\ GoTo(h, "answer")
                /\ UNCHANGED store
           ELSE /\ StoreResult(h, "error")
                /\ UNCHANGED <<row, outdated, executions>>
    /\ UNCHANGED <<writes, role, agent, faults, answered, abandoned>>

\* The answer of the database arrives, update_with_result
Finish(h) ==
    /\ pc[h] = "answer"
    /\ StoreResult(h, "success")
    /\ UNCHANGED <<database, role, agent, faults, answered, abandoned>>

\* The connection cannot be made or is lost, before or after the mutation.
LoseConnection(h) ==
    /\ faults < MaxFaults
    /\ faults' = faults + 1
    /\ pc[h] \in {"connect", "compare", "send", "answer"}
    /\ StoreResult(h, "error")
    /\ UNCHANGED <<database, role, agent, answered, abandoned>>

\* The client disconnects while the handler awaits.
Drop(h) ==
    /\ faults < MaxFaults
    /\ faults' = faults + 1
    /\ pc[h] \in {"log", "connect", "compare", "send", "answer"}
    /\ abandoned' = abandoned \cup {target[h]}
    /\ Return(h)
    /\ UNCHANGED <<store, database, role, agent, answered>>

-----------------------------------------------------------------------------
(* The agent asks, others write to the row, an administrator edits the role.*)

AnswerTo(i) ==
    IF status'[i] = "Rejected" THEN "denied"
    ELSE IF status'[i] = "Approved" /\ result[i] # None THEN result[i]
    ELSE status'[i]

\* getApprovalResult
GetApprovalResult(i) ==
    /\ Found(i)
    /\ ReadStatus(i)
    /\ answered' = [answered EXCEPT ![i] = AnswerTo(i)]
    /\ UNCHANGED <<request, result, forgotten, overdue, database, role, agent, handlers, faults,
                   abandoned>>

WriteRow(new) ==
    /\ writes < MaxWrites
    /\ writes' = writes + 1
    /\ Change(new)
    /\ UNCHANGED <<store, executions, role, agent, handlers, faults, answered, abandoned>>

\* save_role and delete_role of the dashboard
EditRole(new) ==
    /\ role' = new
    /\ UNCHANGED <<store, database, agent, handlers, faults, answered, abandoned>>

Handle(h) ==
    \/ Approve(h)
    \/ ApproveFails(h)
    \/ FindRole(h)
    \/ Connect(h)
    \/ Compare(h)
    \/ Send(h)
    \/ Finish(h)

Next ==
    \/ \E op \in {"update", "delete"}, value \in Values : TakeSnapshot(op, value)
    \/ \E i \in Ids :
          \/ CreateRequest(i)
          \/ Expire(i)
          \/ ApproveOverMcp(i)
          \/ Reject(i)
          \/ DecideAndFail(i)
          \/ TimePasses(i)
          \/ Forget(i)
          \/ GetApprovalResult(i)
          \/ \E h \in Handlers : OpenApproval(h, i)
    \/ \E h \in Handlers : Handle(h) \/ LoseConnection(h) \/ Drop(h)
    \/ \E new \in Values \cup {Gone} : WriteRow(new)
    \/ \E new \in Roles : EditRole(new)

Spec == Init /\ [][Next]_vars

\* The runtime polls a handler whose await is ready, and the database and the
\* log answer or fail.
Fairness == \A h \in Handlers : WF_vars(Handle(h))

FairSpec == Spec /\ Fairness

-----------------------------------------------------------------------------
(* Properties.                                                              *)

Working(h, i) == target[h] = i /\ pc[h] # "idle"

\* The types of the variables; a handler is bound to a request exactly while
\* it handles one, and only stored requests are handled, decided or answered.
TypeOK ==
    /\ Store!TypeOK
    /\ request \in [Ids -> Request \cup {None}]
    /\ result \in [Ids -> Results \cup {None}]
    /\ forgotten \subseteq Ids /\ overdue \subseteq Ids /\ abandoned \subseteq Ids
    /\ row \in Values \cup {Gone}
    /\ role \in Roles
    /\ agent \in Request \cup {None}
    /\ pc \in [Handlers -> Labels] /\ target \in [Handlers -> Ids \cup {None}]
    /\ copy \in [Handlers -> (Roles \ {"deleted"}) \cup {None}]
    /\ writes \in 0..MaxWrites /\ faults \in 0..MaxFaults
    /\ executions \in [Ids -> Nat]
    /\ outdated \subseteq Handlers
    /\ answered \in [Ids -> {None, "Pending", "denied", "Approved", "Expired", "Cancelled"} \cup Results]
    /\ \A h \in Handlers : pc[h] = "idle" <=> target[h] = None
    /\ \A i \in Ids : status[i] = "Unknown" <=> request[i] = None

\* However many handlers open an approval, its mutation is applied at most once
\* and never without an approval (approval_approve executes only after
\* manager.approve returned Ok).
ExecutedAtMostOnce ==
    \A i \in Ids : executions[i] <= 1

\* What was rejected, what expired and what awaits a decision is not executed,
\* though the handler works on a copy that it read before the decision.
OnlyApprovedExecute ==
    \A i \in Ids : executions[i] > 0 => status[i] = "Approved"

\* A result that reports success stands for a mutation that was applied
\* (execute_update and execute_delete fail when RETURNING returns no row).
\* The converse does not hold: the connection may be lost after the mutation.
SuccessWasExecuted ==
    \A i \in Ids : result[i] = "success" => executions[i] = 1

\* A mutation whose request carries a snapshot is applied to that very row,
\* unless the row was changed between this handler's own comparison and its
\* statement: nothing that changed before the comparison goes unnoticed
\* (execute_approved).
StaleDetected ==
    [][\A h \in Handlers :
          LET i == target[h]
          IN  i # None /\ pc[h] = "send" /\ pc'[h] = "answer"
                 => row = request[i].snapshot \/ request[i].snapshot = None \/ h \in outdated]_vars

\* The agent never learns two different ends of a request: what it was told of
\* a decided request only moves on from Approved to the result of execution.
AnswersForward ==
    [][\A i \in Ids :
          \/ answered[i] \in {None, "Pending"}
          \/ answered'[i] = answered[i]
          \/ answered[i] = "Approved" /\ answered'[i] \in Results]_vars

\* An approval is answered with a result, unless the store lost it from its
\* cache, or nobody is left to execute it: the handler was dropped or failed
\* after deciding, the role was deleted, or the approval came over MCP.
EveryApprovalAnswered ==
    \A i \in Ids : status[i] = "Approved"
                      ~> result[i] # None \/ i \in forgotten \/ i \in abandoned

\* README.md:187: "On approval, the operation executes; on rejection, it fails".
\* An approval that no handler works on any more was executed or has a result.
ApprovalExecutes ==
    \A i \in Ids : status[i] = "Approved" /\ (\A h \in Handlers : ~Working(h, i))
                      => executions[i] = 1 \/ result[i] # None

=============================================================================
