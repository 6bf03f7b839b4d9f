--------------------------- MODULE ApprovalManager ---------------------------
(***************************************************************************)
(* ApprovalManager with its in-memory storage                              *)
(* (cori-mcp/src/approval.rs), to which run.rs falls back when the file    *)
(* storage cannot be opened.  One map behind one lock, so that every call  *)
(* is one step.  With file storage each call is delegated to               *)
(* ApprovalFileStorage.                                                    *)
(***************************************************************************)
EXTENDS Naturals

CONSTANTS
    Ids,            \* approval ids, one fresh UUID per request
    Tenants,
    None            \* no entry

VARIABLES
    requests,       \* the map: a record per stored id, None for the others
    overdue,        \* ids whose expires_at has passed
    aged,           \* ids created before the cutoff of a cleanup
    created         \* ids in use: a UUID is never drawn twice

vars == <<requests, overdue, aged, created>>

Outcomes == {"Approved", "Rejected", "Expired", "Cancelled"}

Request ==
    [status : Outcomes \cup {"Pending"}, tenant : Tenants, linked : BOOLEAN, executed : BOOLEAN]

Stored(i) == requests[i] # None

IsExpired(i) == i \in overdue

Init ==
    /\ requests = [i \in Ids |-> None]
    /\ overdue = {}
    /\ aged = {}
    /\ created = {}

\* create_request, create_request_with_snapshot
CreateRequest(i, tenant) ==
    /\ i \notin created
    /\ created' = created \cup {i}
    /\ requests' = [requests EXCEPT ![i] =
          [status |-> "Pending", tenant |-> tenant, linked |-> FALSE, executed |-> FALSE]]
    /\ UNCHANGED <<overdue, aged>>

SetStatus(i, status) ==
    /\ requests' = [requests EXCEPT ![i].status = status]
    /\ UNCHANGED <<overdue, aged, created>>

\* get, of a request that it expires (otherwise it changes nothing)
GetOverdue(i) ==
    /\ Stored(i) /\ requests[i].status = "Pending" /\ IsExpired(i)
    /\ SetStatus(i, "Expired")

\* list_pending: expires every overdue request, of every tenant
ListPending ==
    LET late == {i \in Ids : Stored(i) /\ IsExpired(i) /\ requests[i].status = "Pending"}
    IN  /\ late # {}
        /\ requests' = [i \in Ids |->
              IF i \in late THEN [requests[i] EXCEPT !.status = "Expired"] ELSE requests[i]]
        /\ UNCHANGED <<overdue, aged, created>>

\* approve and reject: overdue comes before already decided
Decide(i, outcome) ==
    /\ Stored(i)
    /\ \/ IsExpired(i) /\ SetStatus(i, "Expired")
       \/ ~IsExpired(i) /\ requests[i].status = "Pending" /\ SetStatus(i, outcome)

Approve(i) == Decide(i, "Approved")

Reject(i) == Decide(i, "Rejected")

\* cancel does not look at the clock.
Cancel(i) ==
    /\ Stored(i) /\ requests[i].status = "Pending"
    /\ SetStatus(i, "Cancelled")

\* update_with_result, whatever the status
UpdateWithResult(i) ==
    /\ Stored(i)
    /\ requests' = [requests EXCEPT ![i].executed = TRUE]
    /\ UNCHANGED <<overdue, aged, created>>

UpdateAuditIds(i) ==
    /\ Stored(i)
    /\ requests' = [requests EXCEPT ![i].linked = TRUE]
    /\ UNCHANGED <<overdue, aged, created>>

Cleanup ==
    /\ requests' = [i \in Ids |->
          IF Stored(i) /\ i \in aged /\ requests[i].status # "Pending" THEN None ELSE requests[i]]
    /\ UNCHANGED <<overdue, aged, created>>

\* expires_at and the cutoff are reached in either order.
TimePasses(i) ==
    /\ i \in created
    /\ \/ overdue' = overdue \cup {i} /\ UNCHANGED aged
       \/ aged' = aged \cup {i} /\ UNCHANGED overdue
    /\ UNCHANGED <<requests, created>>

Next ==
    \/ \E i \in Ids :
          \/ \E tenant \in Tenants : CreateRequest(i, tenant)
          \/ GetOverdue(i)
          \/ Approve(i)
          \/ Reject(i)
          \/ Cancel(i)
          \/ UpdateWithResult(i)
          \/ UpdateAuditIds(i)
          \/ TimePasses(i)
    \/ ListPending
    \/ Cleanup

Spec == Init /\ [][Next]_vars

-----------------------------------------------------------------------------
(* Properties.                                                              *)

TypeOK ==
    /\ requests \in [Ids -> Request \cup {None}]
    /\ overdue \subseteq Ids /\ aged \subseteq Ids /\ created \subseteq Ids
    /\ \A i \in Ids : Stored(i) => i \in created

\* approval.rs:31, of the status Expired: "Expired before decision."  A request
\* becomes Expired only while it awaits a decision.
ExpiredBeforeDecision ==
    [][\A i \in Ids :
          Stored(i) /\ requests'[i] # None /\ requests'[i].status = "Expired"
             => requests[i].status \in {"Pending", "Expired"}]_vars

=============================================================================
