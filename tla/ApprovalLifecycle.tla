-------------------------- MODULE ApprovalLifecycle --------------------------
(***************************************************************************)
(* What the approval subsystem of cori-store promises, whatever stores the *)
(* requests: a request is created once, waits as Pending, and receives at  *)
(* most one final status (crates/cori-mcp/src/approval.rs, the flow at the *)
(* head of the file and the comments of ApprovalStatus).  The file-based   *)
(* and the in-memory store are compared with this module.                  *)
(***************************************************************************)

CONSTANT Ids            \* approval ids, one fresh UUID per request

VARIABLE status         \* status[i]: what a reader of request i may be told

Outcomes == {"Approved", "Rejected", "Expired", "Cancelled"}

Status == Outcomes \cup {"Unknown", "Pending"}

TypeOK == status \in [Ids -> Status]

Init == status = [i \in Ids |-> "Unknown"]

Create(i) ==
    /\ status[i] = "Unknown"
    /\ status' = [status EXCEPT ![i] = "Pending"]

Decide(i, outcome) ==
    /\ status[i] = "Pending"
    /\ status' = [status EXCEPT ![i] = outcome]

\* Listing the pending requests expires every overdue one at once.
ExpireAll(S) ==
    /\ \A i \in S : status[i] = "Pending"
    /\ status' = [i \in Ids |-> IF i \in S THEN "Expired" ELSE status[i]]

Next ==
    \/ \E i \in Ids : Create(i) \/ \E outcome \in Outcomes : Decide(i, outcome)
    \/ \E S \in SUBSET Ids : ExpireAll(S)

Spec == Init /\ [][Next]_status

=============================================================================
